----------------------------- MODULE InverterClient -----------------------------
(****************************************************************************)
(* SolaxInverterClient of main.py, and the way of one poll into the store:  *)
(* connect() with its retries, poll_inverter() with its eight reads, the    *)
(* conversion of registers and TimeSeriesStore._validate.                   *)
(*                                                                          *)
(* The reads of one poll are separate requests, between which the inverter  *)
(* changes; each may fail, or be answered with fewer registers than asked.  *)
(****************************************************************************)
EXTENDS Integers, Sequences

CONSTANTS
    Word,           \* 2^16: the values of one register
    MaxRetries,     \* max_retries
    RetryDelay,     \* retry_delay
    PowerBound,     \* RANGE_BOUNDS: 15000 W
    SocBound,       \* RANGE_BOUNDS: 100 %
    Quantities,     \* the states of the inverter
    Null            \* an absent key of the dictionary; NULL in the database

HalfWord == Word \div 2
DoubleWord == Word * Word

\* What the inverter measures: the limits are those of its registers.
Quantity ==
    [pv1 : 0..(Word - 1), pv2 : 0..(Word - 1), soc : 0..(Word - 1),
     battery : -HalfWord..(HalfWord - 1), r : -HalfWord..(HalfWord - 1),
     s : -HalfWord..(HalfWord - 1), t : -HalfWord..(HalfWord - 1),
     feedIn : -(DoubleWord \div 2)..(DoubleWord \div 2 - 1),
     energy : 0..(DoubleWord - 1)]

ASSUME ClientAssumption ==
    /\ Word \in Nat \ {0}
    /\ Word % 2 = 0
    /\ MaxRetries \in Nat \ {0}
    /\ RetryDelay \in Nat
    /\ PowerBound \in Nat
    /\ SocBound \in Nat
    /\ Quantities # {} /\ Quantities \subseteq Quantity
    /\ Null \notin Int

-----------------------------------------------------------------------------
\* Registers and numbers.

\* What the inverter puts into registers (two's complement; low word first).
EncodeSigned(v) == v % Word
EncodeLow(v) == (v % DoubleWord) % Word
EncodeHigh(v) == (v % DoubleWord) \div Word

\* Mutant of ToSigned: "value <= 32768".
ToSigned_OffByOne(value) ==
    IF value <= HalfWord THEN value ELSE value - Word

\* _to_signed
ToSigned(value) == IF value < HalfWord THEN value ELSE value - Word

\* _to_unsigned_32: (high << 16) | low
ToUnsigned32(low, high) == high * Word + low

\* _to_signed_32
ToSigned32(low, high) ==
    LET value == ToUnsigned32(low, high)
    IN  IF value < DoubleWord \div 2 THEN value ELSE value - DoubleWord

-----------------------------------------------------------------------------
\* The groups of REGISTER_MAPPINGS, in the order poll_inverter reads them.
Groups == <<"grid_data", "pv_voltage_current", "pv_power", "battery_data",
            "feed_in_power", "energy_today", "energy_total", "inverter_status">>

\* The keys of the telemetry dictionary that reach the store, or that need two
\* registers to be put together.
Keys == {"pv1_power", "pv2_power", "battery_power", "battery_soc",
         "grid_power_r", "grid_power_s", "grid_power_t", "feed_in_power",
         "energy_total"}

StoredMetrics == {"pv_power", "battery_power", "battery_soc", "grid_power_total"}

VARIABLES
    pc,         \* "connect" | "read" | "done" | "failed" | "raised"
    attempt,    \* of connect(), from 0
    waited,     \* seconds slept between attempts
    inverter,   \* what the inverter measures now
    group,      \* the read in progress: an index into Groups
    voltages,   \* pv_vc_regs: "none" | "short" | "full"
    data,       \* the telemetry dictionary: Keys to values or to Null
    sample,     \* what _validate makes of it
    seen,       \* history: the states of the inverter since the poll began
    missing     \* history: groups that were not read in full

vars == <<pc, attempt, waited, inverter, group, voltages, data, sample, seen,
          missing>>

\* What a full answer for a group contributes to the dictionary.
Processed(g, q) ==
    CASE g = "grid_data" ->
            [grid_power_r |-> ToSigned(EncodeSigned(q.r)),
             grid_power_s |-> ToSigned(EncodeSigned(q.s)),
             grid_power_t |-> ToSigned(EncodeSigned(q.t))]
      [] g = "pv_power" -> [pv1_power |-> q.pv1, pv2_power |-> q.pv2]
      [] g = "battery_data" ->
            [battery_power |-> ToSigned(EncodeSigned(q.battery)),
             battery_soc |-> q.soc]
      [] g = "feed_in_power" ->
            [feed_in_power |-> ToSigned32(EncodeLow(q.feedIn),
                                          EncodeHigh(q.feedIn))]
      [] g = "energy_total" ->
            [energy_total |-> ToUnsigned32(EncodeLow(q.energy),
                                           EncodeHigh(q.energy))]
      [] OTHER -> <<>>

\* dict.update
Updated(d, new) == [k \in Keys |-> IF k \in DOMAIN new THEN new[k] ELSE d[k]]

-----------------------------------------------------------------------------
\* _validate.

InRange(metric, v) ==
    CASE metric = "pv_power" -> 0 <= v /\ v <= PowerBound
      [] metric = "battery_soc" -> 0 <= v /\ v <= SocBound
      [] OTHER -> -PowerBound <= v /\ v <= PowerBound

\* An out-of-range value is stored as NULL.
Checked(metric, v) == IF InRange(metric, v) THEN v ELSE Null

OrZero(v) == IF v = Null THEN 0 ELSE v

Phases(d) == {d.grid_power_r, d.grid_power_s, d.grid_power_t}

\* Mutant of PvAbsent: "if not pv1" for "if pv1 is None".
PvAbsent_Falsy(d) == d.pv1_power \in {0, Null} \/ d.pv2_power \in {0, Null}

PvAbsent(d) == d.pv1_power = Null \/ d.pv2_power = Null

Validate(d) ==
    [metric \in StoredMetrics |->
        CASE metric = "pv_power" ->
                IF PvAbsent(d) THEN Null
                ELSE Checked(metric, d.pv1_power + d.pv2_power)
          [] metric = "grid_power_total" ->
                IF Phases(d) = {Null} THEN Null
                ELSE Checked(metric, OrZero(d.grid_power_r)
                                     + OrZero(d.grid_power_s)
                                     + OrZero(d.grid_power_t))
          [] OTHER ->
                IF d[metric] = Null THEN Null ELSE Checked(metric, d[metric])]

-----------------------------------------------------------------------------
\* connect().

Connected ==
    /\ pc = "connect"
    /\ pc' = "read"
    /\ seen' = {inverter}
    /\ UNCHANGED <<attempt, waited, inverter, group, voltages, data, sample,
                   missing>>

\* Mutant of AttemptFails: a delay after the last attempt, too.
AttemptFails_AlwaysWaits ==
    /\ pc = "connect"
    /\ attempt' = attempt + 1
    /\ waited' = waited + RetryDelay * 2 ^ attempt
    /\ pc' = IF attempt' < MaxRetries THEN pc ELSE "failed"
    /\ UNCHANGED <<inverter, group, voltages, data, sample, seen, missing>>

\* The attempt fails or raises; the backoff is skipped after the last one.
AttemptFails ==
    /\ pc = "connect"
    /\ attempt' = attempt + 1
    /\ IF attempt' < MaxRetries
       THEN /\ waited' = waited + RetryDelay * 2 ^ attempt
            /\ UNCHANGED pc
       ELSE /\ pc' = "failed"
            /\ UNCHANGED waited
    /\ UNCHANGED <<inverter, group, voltages, data, sample, seen, missing>>

-----------------------------------------------------------------------------
\* poll_inverter().

\* On to the next group; after the last one the dictionary is complete.
Advance(newData) ==
    /\ data' = newData
    /\ IF group < Len(Groups)
       THEN /\ group' = group + 1
            /\ UNCHANGED <<pc, sample>>
       ELSE /\ pc' = "done"
            /\ sample' = Validate(newData)
            /\ UNCHANGED group

\* PV power is only used together with the PV voltages.
Contribution(g) ==
    IF g = "pv_power" /\ voltages = "none" THEN <<>> ELSE Processed(g, inverter)

\* The PV voltages that were not all there are indexed after the PV power.
IndexError(g) == g = "pv_power" /\ voltages = "short"

\* A full answer.
ReadGroup ==
    /\ pc = "read"
    /\ ~IndexError(Groups[group])
    /\ voltages' = IF Groups[group] = "pv_voltage_current" THEN "full"
                   ELSE voltages
    /\ Advance(Updated(data, Contribution(Groups[group])))
    /\ UNCHANGED <<attempt, waited, inverter, seen, missing>>

\* read_registers answers None; the battery group is also given up when short.
ReadNothing ==
    /\ pc = "read"
    /\ missing' = missing \cup {Groups[group]}
    /\ Advance(data)
    /\ UNCHANGED <<attempt, waited, inverter, voltages, seen>>

\* Fewer PV voltages than asked for.
ReadShortVoltages ==
    /\ pc = "read"
    /\ Groups[group] = "pv_voltage_current"
    /\ voltages' = "short"
    /\ missing' = missing \cup {Groups[group]}
    /\ Advance(data)
    /\ UNCHANGED <<attempt, waited, inverter, seen>>

\* Fewer registers than are indexed, but not none: an exception out of
\* poll_inverter.  The one register of energy_today cannot come to that.
ReadRaises ==
    /\ pc = "read"
    /\ Groups[group] \notin {"battery_data", "pv_voltage_current", "energy_today"}
    /\ Groups[group] = "pv_power" => voltages # "none"
    /\ pc' = "raised"
    /\ UNCHANGED <<attempt, waited, inverter, group, voltages, data, sample,
                   seen, missing>>

\* Between two reads the inverter goes on measuring.
InverterChanges ==
    /\ pc = "read"
    /\ \E q \in Quantities \ seen :
          /\ inverter' = q
          /\ seen' = seen \cup {q}
    /\ UNCHANGED <<pc, attempt, waited, group, voltages, data, sample, missing>>

-----------------------------------------------------------------------------
Init ==
    /\ pc = "connect"
    /\ attempt = 0
    /\ waited = 0
    /\ inverter \in Quantities
    /\ group = 1
    /\ voltages = "none"
    /\ data = [k \in Keys |-> Null]
    /\ sample = [metric \in StoredMetrics |-> Null]
    /\ seen = {}
    /\ missing = {}

Next ==
    \/ Connected \/ AttemptFails
    \/ ReadGroup \/ ReadNothing \/ ReadShortVoltages \/ ReadRaises
    \/ InverterChanges

Spec == Init /\ [][Next]_vars

-----------------------------------------------------------------------------
\* Properties.

\* The sum of the backoff delays: 2^0 + ... + 2^(MaxRetries - 2) times the first.
LongestWait == RetryDelay * (2 ^ (MaxRetries - 1) - 1)

\* The type of the client's state; connect() never waits longer than the sum
\* of its delays.
TypeOK ==
    /\ pc \in {"connect", "read", "done", "failed", "raised"}
    /\ attempt \in 0..MaxRetries
    /\ waited \in 0..LongestWait
    /\ inverter \in Quantities
    /\ group \in 1..Len(Groups)
    /\ voltages \in {"none", "short", "full"}
    /\ data \in [Keys -> Int \cup {Null}]
    /\ sample \in [StoredMetrics -> Int \cup {Null}]
    /\ seen \subseteq Quantities
    /\ missing \subseteq {Groups[g] : g \in 1..Len(Groups)}

\* What a stored metric means for a state of the inverter, and what it is read
\* from.
Physical(metric, q) ==
    CASE metric = "pv_power" -> q.pv1 + q.pv2
      [] metric = "battery_power" -> q.battery
      [] metric = "battery_soc" -> q.soc
      [] metric = "grid_power_total" -> q.r + q.s + q.t

GroupsOf(metric) ==
    CASE metric = "pv_power" -> {"pv_voltage_current", "pv_power"}
      [] metric = "grid_power_total" -> {"grid_data"}
      [] OTHER -> {"battery_data"}

\* A value that reaches the database is one the inverter really had during the
\* poll: no sum mixes two moments or counts a missing phase as zero, and the
\* way through registers and back keeps the sign.
SampleIsReal ==
    pc = "done" =>
        \A metric \in StoredMetrics :
            \/ sample[metric] = Null
            \/ /\ InRange(metric, sample[metric])
               /\ \E q \in seen : sample[metric] = Physical(metric, q)

\* A NULL in the database means that a group was not read or that the inverter
\* reported a value out of range; nothing else loses a metric.
NullIsExplained ==
    pc = "done" =>
        \A metric \in StoredMetrics :
            sample[metric] = Null =>
                \/ GroupsOf(metric) \cap missing # {}
                \/ \E q \in seen : ~InRange(metric, Physical(metric, q))

\* A quantity of two registers is never put together from two moments.
WideValuesWhole ==
    /\ data["feed_in_power"] = Null
       \/ \E q \in seen : data["feed_in_power"] = q.feedIn
    /\ data["energy_total"] = Null
       \/ \E q \in seen : data["energy_total"] = q.energy
=============================================================================
