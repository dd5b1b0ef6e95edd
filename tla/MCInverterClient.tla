--------------------------- MODULE MCInverterClient ---------------------------
(* Three states of a small inverter with registers of 4 bits. *)
EXTENDS InverterClient

Day == [pv1 |-> 5, pv2 |-> 4, soc |-> 8, battery |-> 3, r |-> -1, s |-> -2,
        t |-> -3, feedIn |-> 100, energy |-> 15]

Night == [pv1 |-> 0, pv2 |-> 0, soc |-> 3, battery |-> -8, r |-> 2, s |-> 1,
          t |-> 0, feedIn |-> -128, energy |-> 16]

\* Every metric out of range.
Glitch == [pv1 |-> 15, pv2 |-> 15, soc |-> 15, battery |-> 0, r |-> 7, s |-> 7,
           t |-> 7, feedIn |-> 127, energy |-> 255]

MCQuantities == {Day, Night, Glitch}
=============================================================================
