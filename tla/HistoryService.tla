----------------------------- MODULE HistoryService -----------------------------
(****************************************************************************)
(* What a dashboard may expect of the history endpoints: an abstract        *)
(* specification without threads, locks or transactions.                    *)
(*                                                                          *)
(* One register holds the version of the series.  A response is assembled   *)
(* from one atomic read per metric, so its parts may be of different        *)
(* versions but never of a version the register did not have, and in the    *)
(* order the register had them.  A part comes back empty only when the      *)
(* service is closing, or once it has seen errors.                          *)
(****************************************************************************)
EXTENDS Integers, Sequences

CONSTANTS
    Requests,       \* the requests that may be in progress at a time
    SeriesCount     \* the metrics of one response

Empty == -1         \* the series of a store that is closed or failing

VARIABLES
    version,        \* of the series in the store
    phase,          \* "open" | "closing" | "closed"
    faulty,         \* an operation has failed
    response        \* what each request has gathered so far

serviceVars == <<version, phase, faulty, response>>

ServiceInit ==
    /\ version = 0
    /\ phase = "open"
    /\ faulty = FALSE
    /\ response = [h \in Requests |-> <<>>]

\* An operation may fail in any step, and is never forgotten.
MayFail == faulty => faulty'

\* The poll loop stores something: only an error can undo it.
Change ==
    /\ phase # "closed"
    /\ MayFail
    /\ version' > version \/ (faulty' /\ version' \in Nat)
    /\ UNCHANGED <<phase, response>>

\* One metric of one response.
Read(h) ==
    /\ Len(response[h]) < SeriesCount
    /\ MayFail
    /\ \/ /\ phase # "closed"
          /\ response' = [response EXCEPT ![h] = Append(@, version)]
       \/ /\ phase # "open" \/ faulty'
          /\ response' = [response EXCEPT ![h] = Append(@, Empty)]
    /\ UNCHANGED <<version, phase>>

\* The response is sent, or abandoned.
Finish(h) ==
    /\ response' = [response EXCEPT ![h] = <<>>]
    /\ UNCHANGED <<version, phase, faulty>>

Closing ==
    /\ phase = "open"
    /\ phase' = "closing"
    /\ UNCHANGED <<version, faulty, response>>

\* Closing the store drops what was not committed.
Closed ==
    /\ phase = "closing"
    /\ phase' = "closed"
    /\ version' \in Nat
    /\ UNCHANGED <<faulty, response>>

ServiceNext ==
    \/ Change \/ Closing \/ Closed
    \/ \E h \in Requests : Read(h) \/ Finish(h)

ServiceSpec == ServiceInit /\ [][ServiceNext]_serviceVars
=============================================================================
