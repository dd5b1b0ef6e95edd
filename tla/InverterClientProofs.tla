-------------------------- MODULE InverterClientProofs --------------------------
(* Theorems about InverterClient, for every word size and every inverter. *)
EXTENDS InverterClient, FiniteSetTheorems, FunctionTheorems, TLAPS

\* Adding a modulus to a number just below zero gives its remainder.
LEMMA ModOfSmall ==
    ASSUME NEW m \in Nat \ {0}, NEW v \in Int, -m <= v, v < m
    PROVE  v % m = IF v >= 0 THEN v ELSE v + m
OBVIOUS

\* A signed register survives the way through two's complement.
THEOREM SignedRoundTrip ==
    \A v \in -HalfWord..(HalfWord - 1) : ToSigned(EncodeSigned(v)) = v
<1> SUFFICES ASSUME NEW v \in -HalfWord..(HalfWord - 1)
             PROVE  ToSigned(EncodeSigned(v)) = v
  OBVIOUS
<1>1. HalfWord \in Nat /\ Word = 2 * HalfWord
  BY ClientAssumption DEF HalfWord
<1>2. v % Word = IF v >= 0 THEN v ELSE v + Word
  <2>1. v \in Int /\ -Word <= v /\ v < Word /\ Word \in Nat \ {0}
    BY <1>1, ClientAssumption
  <2> QED
    BY <2>1, ModOfSmall
<1> QED
  BY <1>1, <1>2 DEF ToSigned, EncodeSigned

\* The two words of a number put together again give the number.
LEMMA WordsRejoin ==
    ASSUME NEW v \in 0..(DoubleWord - 1)
    PROVE  ToUnsigned32(v % Word, v \div Word) = v
<1>1. v \in Nat
  BY ClientAssumption DEF DoubleWord
<1>2. v = Word * (v \div Word) + (v % Word)
  BY <1>1, ClientAssumption
<1>3. (v \div Word) \in Int /\ (v % Word) \in Int
  BY <1>1, ClientAssumption
<1> QED
  BY <1>2, <1>3, ClientAssumption DEF ToUnsigned32

\* The square of an even number is the double of a natural number.
LEMMA DoubleWordEven ==
    /\ DoubleWord \in Nat \ {0}
    /\ DoubleWord = 2 * (DoubleWord \div 2)
    /\ DoubleWord \div 2 \in Nat
<1>1. HalfWord \in Nat \ {0} /\ Word = 2 * HalfWord
  BY ClientAssumption DEF HalfWord
<1>2. DoubleWord = 2 * (HalfWord * Word) /\ HalfWord * Word \in Nat \ {0}
  BY <1>1 DEF DoubleWord
<1> DEFINE n == HalfWord * Word
<1>3. \A k \in Nat \ {0} : 2 * k \in Nat \ {0} /\ (2 * k) \div 2 = k
  OBVIOUS
<1> HIDE DEF n
<1>4. n \in Nat \ {0} /\ DoubleWord = 2 * n
  BY <1>2 DEF n
<1> QED
  BY <1>3, <1>4

\* An unsigned quantity of two registers survives the way through them.
THEOREM UnsignedWideRoundTrip ==
    \A v \in 0..(DoubleWord - 1) : ToUnsigned32(EncodeLow(v), EncodeHigh(v)) = v
<1> SUFFICES ASSUME NEW v \in 0..(DoubleWord - 1)
             PROVE  ToUnsigned32(EncodeLow(v), EncodeHigh(v)) = v
  OBVIOUS
<1>1. v % DoubleWord = v
  BY DoubleWordEven, ModOfSmall
<1> QED
  BY <1>1, WordsRejoin DEF EncodeLow, EncodeHigh

\* So does a signed one.
THEOREM SignedWideRoundTrip ==
    \A v \in -(DoubleWord \div 2)..(DoubleWord \div 2 - 1) :
        ToSigned32(EncodeLow(v), EncodeHigh(v)) = v
<1> SUFFICES ASSUME NEW v \in -(DoubleWord \div 2)..(DoubleWord \div 2 - 1)
             PROVE  ToSigned32(EncodeLow(v), EncodeHigh(v)) = v
  OBVIOUS
<1> DEFINE u == v % DoubleWord
<1>1. u = IF v >= 0 THEN v ELSE v + DoubleWord
  <2>1. v \in Int /\ -DoubleWord <= v /\ v < DoubleWord
    BY DoubleWordEven
  <2> QED
    BY <2>1, DoubleWordEven, ModOfSmall
<1>2. u \in 0..(DoubleWord - 1)
  BY <1>1, DoubleWordEven
<1>3. ToUnsigned32(EncodeLow(v), EncodeHigh(v)) = u
  BY <1>2, WordsRejoin DEF EncodeLow, EncodeHigh
<1> HIDE DEF u
<1> QED
  BY <1>1, <1>3, DoubleWordEven DEF ToSigned32

-----------------------------------------------------------------------------
\* The dictionary only holds what some state of the inverter since the poll
\* began measured; the keys of one group come from the same state.
GroupReal(keys, measured(_)) ==
    \/ \A k \in keys : data[k] = Null
    \/ \E q \in seen : \A k \in keys : data[k] = measured(q)[k]

Grid(q) == [grid_power_r |-> q.r, grid_power_s |-> q.s, grid_power_t |-> q.t]
Pv(q) == [pv1_power |-> q.pv1, pv2_power |-> q.pv2]
Battery(q) == [battery_power |-> q.battery, battery_soc |-> q.soc]
FeedIn(q) == [feed_in_power |-> q.feedIn]
Energy(q) == [energy_total |-> q.energy]

DataReal ==
    /\ data \in [Keys -> Int \cup {Null}]
    /\ GroupReal({"grid_power_r", "grid_power_s", "grid_power_t"}, Grid)
    /\ GroupReal({"pv1_power", "pv2_power"}, Pv)
    /\ GroupReal({"battery_power", "battery_soc"}, Battery)
    /\ GroupReal({"feed_in_power"}, FeedIn)
    /\ GroupReal({"energy_total"}, Energy)

\* The inductive invariant of one poll.
ClientIInv ==
    /\ inverter \in Quantities
    /\ seen \subseteq Quantities
    /\ pc = "connect" => \A k \in Keys : data[k] = Null
    /\ pc = "read" => inverter \in seen /\ group \in 1..Len(Groups)
    /\ pc = "connect" => group = 1
    /\ DataReal
    /\ pc = "done" => sample = Validate(data)

\* What a group contributes is what the inverter measures.
LEMMA ProcessedIsMeasured ==
    ASSUME NEW q \in Quantities
    PROVE  /\ Processed("grid_data", q) = Grid(q)
           /\ Processed("pv_power", q) = Pv(q)
           /\ Processed("battery_data", q) = Battery(q)
           /\ Processed("feed_in_power", q) = FeedIn(q)
           /\ Processed("energy_total", q) = Energy(q)
<1>1. q \in Quantity
  BY ClientAssumption
<1>2. /\ ToSigned(EncodeSigned(q.r)) = q.r
      /\ ToSigned(EncodeSigned(q.s)) = q.s
      /\ ToSigned(EncodeSigned(q.t)) = q.t
      /\ ToSigned(EncodeSigned(q.battery)) = q.battery
  BY <1>1, SignedRoundTrip DEF Quantity
<1>3. ToSigned32(EncodeLow(q.feedIn), EncodeHigh(q.feedIn)) = q.feedIn
  BY <1>1, SignedWideRoundTrip DEF Quantity
<1>4. ToUnsigned32(EncodeLow(q.energy), EncodeHigh(q.energy)) = q.energy
  BY <1>1, UnsignedWideRoundTrip DEF Quantity
<1>5. Processed("grid_data", q) = Grid(q)
  BY <1>2 DEF Processed, Grid
<1>6. Processed("pv_power", q) = Pv(q)
  BY DEF Processed, Pv
<1>7. Processed("battery_data", q) = Battery(q)
  BY <1>2 DEF Processed, Battery
<1>8. Processed("feed_in_power", q) = FeedIn(q)
  BY <1>3 DEF Processed, FeedIn
<1>9. Processed("energy_total", q) = Energy(q)
  BY <1>4 DEF Processed, Energy
<1> QED
  BY <1>5, <1>6, <1>7, <1>8, <1>9

\* Measurements are numbers.
LEMMA MeasuredInt ==
    ASSUME NEW q \in Quantities
    PROVE  /\ q.r \in Int /\ q.s \in Int /\ q.t \in Int /\ q.pv1 \in Int
           /\ q.pv2 \in Int /\ q.battery \in Int /\ q.soc \in Int
           /\ q.feedIn \in Int /\ q.energy \in Int
<1>1. q \in Quantity
  BY ClientAssumption
<1>2. Word \in Nat /\ HalfWord \in Int /\ DoubleWord \in Int
      /\ DoubleWord \div 2 \in Int
  BY ClientAssumption, DoubleWordEven DEF HalfWord
<1> QED
  BY <1>1, <1>2 DEF Quantity

\* A full answer for one group keeps the dictionary real.
LEMMA ReadKeepsReal ==
    ASSUME DataReal, inverter \in seen, inverter \in Quantities,
           NEW g \in {Groups[i] : i \in 1..Len(Groups)},
           data' = Updated(data, Contribution(g)), seen' = seen
    PROVE  DataReal'
<1> DEFINE new == Contribution(g)
<1>0. \A k \in Keys : data'[k] = IF k \in DOMAIN new THEN new[k] ELSE data[k]
  BY DEF Updated
<1>1. CASE g = "grid_data"
  <2>1. new = Grid(inverter)
    BY <1>1, ProcessedIsMeasured DEF Contribution
  <2> QED
    BY <1>0, <2>1, MeasuredInt DEF DataReal, GroupReal, Grid, Keys, Updated
<1>2. CASE g = "pv_power" /\ voltages # "none"
  <2>1. new = Pv(inverter)
    BY <1>2, ProcessedIsMeasured DEF Contribution
  <2> QED
    BY <1>0, <2>1, MeasuredInt DEF DataReal, GroupReal, Pv, Keys, Updated
<1>3. CASE g = "battery_data"
  <2>1. new = Battery(inverter)
    BY <1>3, ProcessedIsMeasured DEF Contribution
  <2> QED
    BY <1>0, <2>1, MeasuredInt DEF DataReal, GroupReal, Battery, Keys, Updated
<1>4. CASE g = "feed_in_power"
  <2>1. new = FeedIn(inverter)
    BY <1>4, ProcessedIsMeasured DEF Contribution
  <2> QED
    BY <1>0, <2>1, MeasuredInt DEF DataReal, GroupReal, FeedIn, Keys, Updated
<1>5. CASE g = "energy_total"
  <2>1. new = Energy(inverter)
    BY <1>5, ProcessedIsMeasured DEF Contribution
  <2> QED
    BY <1>0, <2>1, MeasuredInt DEF DataReal, GroupReal, Energy, Keys, Updated
<1>6. CASE \/ g = "pv_power" /\ voltages = "none"
           \/ g \in {"pv_voltage_current", "energy_today", "inverter_status"}
  <2>1. new = <<>>
    BY <1>6 DEF Contribution, Processed
  <2>2. DOMAIN new = {}
    BY <2>1
  <2> QED
    BY <1>0, <2>2 DEF DataReal, GroupReal, Keys, Updated
<1>7. g \in {"grid_data", "pv_voltage_current", "pv_power", "battery_data",
            "feed_in_power", "energy_today", "energy_total", "inverter_status"}
  BY DEF Groups
<1> QED
  BY <1>1, <1>2, <1>3, <1>4, <1>5, <1>6, <1>7

-----------------------------------------------------------------------------
\* A longer poll only adds states the dictionary may stem from.
LEMMA MoreSeen ==
    ASSUME DataReal, data' = data, seen \subseteq seen'
    PROVE  DataReal'
BY DEF DataReal, GroupReal

\* No poll has begun in the beginning.
LEMMA ClientInit == Init => ClientIInv
BY DEF Init, ClientIInv, DataReal, GroupReal, Keys

\* Every step of connect(), of the poll and of the inverter keeps the
\* dictionary real.
LEMMA ClientNext == ClientIInv /\ [Next]_vars => ClientIInv'
<1> SUFFICES ASSUME ClientIInv, [Next]_vars PROVE ClientIInv'
  OBVIOUS
<1> USE DEF ClientIInv
<1>0. Len(Groups) = 8
  BY DEF Groups
<1>1. CASE Connected
  <2>1. DataReal'
    BY <1>1 DEF Connected, DataReal, GroupReal, Keys
  <2> QED
    BY <1>0, <1>1, <2>1 DEF Connected
<1>2. CASE AttemptFails
  <2>1. DataReal'
    BY <1>2, MoreSeen DEF AttemptFails
  <2> QED
    BY <1>2, <2>1 DEF AttemptFails
<1>3. CASE ReadGroup
  <2>1. data' = Updated(data, Contribution(Groups[group]))
    BY <1>3 DEF ReadGroup, Advance
  <2>2. DataReal'
    BY <1>3, <2>1, ReadKeepsReal DEF ReadGroup
  <2>3. pc' = "done" => sample' = Validate(data')
    BY <1>3 DEF ReadGroup, Advance
  <2> QED
    BY <1>0, <1>3, <2>2, <2>3 DEF ReadGroup, Advance
<1>4. CASE ReadNothing \/ ReadShortVoltages
  <2>1. data' = data /\ UNCHANGED <<seen, inverter>> /\ pc = "read"
    BY <1>4 DEF ReadNothing, ReadShortVoltages, Advance
  <2>2. DataReal'
    BY <2>1, MoreSeen
  <2>3. pc' = "done" => sample' = Validate(data')
    BY <1>4 DEF ReadNothing, ReadShortVoltages, Advance
  <2>4. pc' \in {"read", "done"} /\ (pc' = "read" => group' = group + 1 /\ group < 8)
    BY <1>0, <1>4 DEF ReadNothing, ReadShortVoltages, Advance
  <2> QED
    BY <1>0, <2>1, <2>2, <2>3, <2>4
<1>5. CASE ReadRaises
  <2>1. DataReal'
    BY <1>5, MoreSeen DEF ReadRaises
  <2> QED
    BY <1>5, <2>1 DEF ReadRaises
<1>6. CASE InverterChanges
  <2>1. DataReal'
    BY <1>6, MoreSeen DEF InverterChanges
  <2> QED
    BY <1>6, <2>1 DEF InverterChanges
<1>7. CASE UNCHANGED vars
  <2>1. DataReal'
    BY <1>7, MoreSeen DEF vars
  <2> QED
    BY <1>7, <2>1 DEF vars
<1> QED
  BY <1>1, <1>2, <1>3, <1>4, <1>5, <1>6, <1>7 DEF Next

\* So the dictionary is real in every state.
LEMMA ClientInvariant == Spec => []ClientIInv
BY ClientInit, ClientNext, PTL DEF Spec

\* A quantity of two registers is never put together from two moments, and is
\* the number the inverter put into them.
THEOREM WideWholeness == Spec => []WideValuesWhole
<1>1. ClientIInv => WideValuesWhole
  BY DEF ClientIInv, DataReal, GroupReal, FeedIn, Energy, WideValuesWhole
<1> QED
  BY <1>1, ClientInvariant, PTL

\* Every value _validate passes on is in range and is what the metric was in one
\* state of the inverter during the poll.
THEOREM SampleReality == Spec => []SampleIsReal
<1>1. ASSUME ClientIInv, pc = "done", NEW metric \in StoredMetrics,
             sample[metric] # Null
      PROVE  /\ InRange(metric, sample[metric])
             /\ \E q \in seen : sample[metric] = Physical(metric, q)
  <2>0. sample = Validate(data) /\ seen \subseteq Quantities /\ DataReal
    BY <1>1 DEF ClientIInv
  <2>1. CASE metric = "pv_power"
    <3>1. ~PvAbsent(data) /\ sample[metric] = Checked(metric, data.pv1_power + data.pv2_power)
      BY <1>1, <2>0, <2>1 DEF Validate, StoredMetrics
    <3>2. PICK q \in seen : data.pv1_power = q.pv1 /\ data.pv2_power = q.pv2
      BY <2>0, <3>1 DEF DataReal, GroupReal, Pv, PvAbsent
    <3> QED
      BY <1>1, <2>1, <3>1, <3>2 DEF Checked, Physical
  <2>2. CASE metric = "grid_power_total"
    <3>1. /\ Phases(data) # {Null}
          /\ sample[metric] = Checked(metric, OrZero(data.grid_power_r)
                                 + OrZero(data.grid_power_s)
                                 + OrZero(data.grid_power_t))
      BY <1>1, <2>0, <2>2 DEF Validate, StoredMetrics
    <3>2. PICK q \in seen : /\ data.grid_power_r = q.r
                            /\ data.grid_power_s = q.s
                            /\ data.grid_power_t = q.t
      BY <2>0, <3>1 DEF DataReal, GroupReal, Grid, Phases
    <3>3. q.r # Null /\ q.s # Null /\ q.t # Null
      BY <2>0, MeasuredInt, ClientAssumption
    <3> QED
      BY <1>1, <2>2, <3>1, <3>2, <3>3 DEF Checked, Physical, OrZero
  <2>3. CASE metric = "battery_power"
    <3>1. data.battery_power # Null /\ sample[metric] = Checked(metric, data.battery_power)
      BY <1>1, <2>0, <2>3 DEF Validate, StoredMetrics
    <3>2. PICK q \in seen : data.battery_power = q.battery
      BY <2>0, <3>1 DEF DataReal, GroupReal, Battery
    <3> QED
      BY <1>1, <2>3, <3>1, <3>2 DEF Checked, Physical
  <2>4. CASE metric = "battery_soc"
    <3>1. data.battery_soc # Null /\ sample[metric] = Checked(metric, data.battery_soc)
      BY <1>1, <2>0, <2>4 DEF Validate, StoredMetrics
    <3>2. PICK q \in seen : data.battery_soc = q.soc
      BY <2>0, <3>1 DEF DataReal, GroupReal, Battery
    <3> QED
      BY <1>1, <2>4, <3>1, <3>2 DEF Checked, Physical
  <2> QED
    BY <2>1, <2>2, <2>3, <2>4 DEF StoredMetrics
<1>2. ClientIInv => SampleIsReal
  BY <1>1 DEF SampleIsReal
<1> QED
  BY <1>2, ClientInvariant, PTL

-----------------------------------------------------------------------------
(* The delays of connect(). *)

\* Each delay is the double of the one before: a set of one more element has
\* twice as many subsets, half of them with the new element.
LEMMA PowersOfTwo ==
    ASSUME NEW n \in Nat
    PROVE  2 ^ n \in Nat \ {0} /\ 2 ^ (n + 1) = 2 * 2 ^ n
<1> DEFINE S == 1..n
           Without == SUBSET S
           With == {X \cup {n + 1} : X \in Without}
           f == [X \in Without |-> X \cup {n + 1}]
<1>1. IsFiniteSet(S) /\ Cardinality(S) = n
  BY FS_Interval
<1>2. IsFiniteSet(Without) /\ Cardinality(Without) = 2 ^ n
  BY <1>1, FS_SUBSET
<1>3. n + 1 \notin S
  OBVIOUS
<1>4. f \in Bijection(Without, With)
  <2>1. \A X, Y \in Without : f[X] = f[Y] => X = Y
    BY <1>3
  <2>2. f \in [Without -> With]
    OBVIOUS
  <2>3. \A Y \in With : \E X \in Without : f[X] = Y
    OBVIOUS
  <2> HIDE DEF f, Without, With
  <2> QED
    BY <2>1, <2>2, <2>3, Fun_IsBij
<1>5. IsFiniteSet(With) /\ Cardinality(With) = 2 ^ n
  BY <1>2, <1>4, FS_Bijection DEF ExistsBijection
<1>6. Without \cap With = {}
  BY <1>3
<1>7. SUBSET (1..(n + 1)) = Without \cup With
  <2>1. 1..(n + 1) = S \cup {n + 1}
    OBVIOUS
  <2>2. ASSUME NEW X \in SUBSET (S \cup {n + 1}), n + 1 \in X
        PROVE  X \in With
    <3>1. X \ {n + 1} \in Without /\ X = (X \ {n + 1}) \cup {n + 1}
      BY <2>2
    <3> QED
      BY <3>1
  <2> HIDE DEF S
  <2> QED
    BY <2>1, <2>2
<1>8. IsFiniteSet(1..(n + 1)) /\ Cardinality(1..(n + 1)) = n + 1
  BY FS_Interval
<1>9. Cardinality(SUBSET (1..(n + 1))) = 2 ^ (n + 1)
  BY <1>8, FS_SUBSET
<1>10. Cardinality({}) = 0
  BY FS_EmptySet
<1>11. Cardinality(Without) \in Nat
  BY <1>2, FS_CardinalityType
<1>12. Cardinality(Without) # 0
  BY <1>2, FS_EmptySet
<1> HIDE DEF Without, With
<1>13. Cardinality(Without \cup With)
          = Cardinality(Without) + Cardinality(With) - Cardinality({})
  BY <1>2, <1>5, <1>6, FS_Union
<1>14. PICK half \in Nat \ {0} : half = Cardinality(Without)
  BY <1>11, <1>12
<1>15. Cardinality(Without \cup With) = half + half - 0
  BY <1>2, <1>5, <1>10, <1>13, <1>14
<1>16. 2 ^ (n + 1) = 2 * half
  <2>1. half + half - 0 = 2 * half
    OBVIOUS
  <2>2. 2 ^ (n + 1) = half + half - 0
    BY <1>7, <1>9, <1>15, Zenon
  <2> QED
    BY <2>1, <2>2
<1> QED
  BY <1>2, <1>14, <1>16

\* More delays take no less time: the subsets of a set are subsets of a larger.
LEMMA PowersGrow ==
    ASSUME NEW m \in Nat, NEW n \in Nat, m <= n
    PROVE  2 ^ m <= 2 ^ n
<1>1. /\ IsFiniteSet(1..m) /\ Cardinality(1..m) = m
      /\ IsFiniteSet(1..n) /\ Cardinality(1..n) = n
  BY FS_Interval
<1>2. /\ Cardinality(SUBSET (1..m)) = 2 ^ m
      /\ IsFiniteSet(SUBSET (1..n)) /\ Cardinality(SUBSET (1..n)) = 2 ^ n
  BY <1>1, FS_SUBSET
<1>3. SUBSET (1..m) \in SUBSET (SUBSET (1..n))
  OBVIOUS
<1>4. Cardinality(SUBSET (1..m)) <= Cardinality(SUBSET (1..n))
  BY <1>2, <1>3, FS_Subset
<1> QED
  BY <1>2, <1>4

\* The next delay added to the sum of those before it.
LEMMA DelaysAdd ==
    ASSUME NEW d \in Nat, NEW x \in Nat \ {0}, NEW y \in Nat \ {0}
    PROVE  /\ d * (x - 1) + d * x = d * (2 * x - 1)
           /\ x <= y => d * (x - 1) <= d * (y - 1)
           /\ d * (x - 1) \in Nat
           /\ x = 1 => d * (x - 1) = 0
<1>1. d * (x - 1) = d * x - d
  OBVIOUS
<1>2. d * (2 * x - 1) = 2 * (d * x) - d
  OBVIOUS
<1>3. d * x \in Nat
  OBVIOUS
<1>4. PICK k \in Nat : x - 1 = k
  OBVIOUS
<1>5. d * k \in Nat
  OBVIOUS
<1>6. ASSUME x <= y PROVE d * (x - 1) <= d * (y - 1)
  <2>1. PICK j \in Nat : y - 1 = (x - 1) + j
    <3>1. y - x \in Nat /\ y - 1 = (x - 1) + (y - x)
      BY <1>6
    <3> QED
      BY <3>1
  <2>2. d * ((x - 1) + j) = d * (x - 1) + d * j /\ d * j \in Nat
    OBVIOUS
  <2>3. d * (x - 1) \in Nat
    BY <1>4, <1>5
  <2> QED
    BY <2>1, <2>2, <2>3
<1> QED
  BY <1>1, <1>2, <1>3, <1>4, <1>5, <1>6

\* What connect() has slept is the sum of its first delays.
Waiting ==
    /\ attempt \in 0..MaxRetries
    /\ waited \in 0..LongestWait
    /\ pc = "connect" => /\ attempt < MaxRetries
                         /\ waited = RetryDelay * (2 ^ attempt - 1)

\* Every failed attempt but the last one adds its delay.
LEMMA WaitingStep ==
    ASSUME Waiting, [Next]_vars
    PROVE  Waiting'
<1>1. CASE AttemptFails
  <2>1. PICK a \in Nat : a = attempt
    BY <1>1, ClientAssumption DEF Waiting
  <2>2. PICK n \in Nat : n = MaxRetries - 1
    BY ClientAssumption
  <2>3. pc = "connect" /\ a <= n /\ waited = RetryDelay * (2 ^ a - 1)
    BY <1>1, <2>1, <2>2, ClientAssumption DEF AttemptFails, Waiting
  <2>4. attempt' = a + 1 /\ a + 1 \in 0..MaxRetries
    BY <1>1, <2>1, <2>2, <2>3, ClientAssumption DEF AttemptFails
  <2>5. CASE a + 1 < MaxRetries
    <3>1. waited' = RetryDelay * (2 ^ a - 1) + RetryDelay * 2 ^ a /\ pc' = pc
      BY <1>1, <2>1, <2>3, <2>4, <2>5 DEF AttemptFails
    <3>2. /\ 2 ^ a \in Nat \ {0} /\ 2 ^ (a + 1) = 2 * 2 ^ a
          /\ 2 ^ (a + 1) \in Nat \ {0} /\ 2 ^ n \in Nat \ {0}
      BY PowersOfTwo
    <3>3. 2 ^ (a + 1) <= 2 ^ n
      BY <2>2, <2>5, ClientAssumption, PowersGrow
    <3>4. waited' = RetryDelay * (2 ^ (a + 1) - 1)
      BY <3>1, <3>2, DelaysAdd, ClientAssumption
    <3>5. RetryDelay * (2 ^ (a + 1) - 1) \in Nat
          /\ RetryDelay * (2 ^ (a + 1) - 1) <= RetryDelay * (2 ^ n - 1)
          /\ RetryDelay * (2 ^ n - 1) \in Nat
      BY <3>2, <3>3, DelaysAdd, ClientAssumption
    <3>6. waited' \in 0..LongestWait
      BY <2>2, <3>4, <3>5 DEF LongestWait
    <3> QED
      BY <2>3, <2>4, <2>5, <3>1, <3>4, <3>6 DEF Waiting
  <2>6. CASE ~(a + 1 < MaxRetries)
    <3>1. waited' = waited /\ pc' = "failed"
      BY <1>1, <2>4, <2>6 DEF AttemptFails
    <3>2. LongestWait' = LongestWait
      BY DEF LongestWait
    <3> QED
      BY <2>4, <3>1, <3>2 DEF Waiting
  <2> QED
    BY <2>5, <2>6
<1>2. CASE UNCHANGED <<attempt, waited>> /\ (pc' = pc \/ pc' # "connect")
  BY <1>2 DEF Waiting, LongestWait
<1> QED
  BY <1>1, <1>2
     DEF Next, Connected, ReadGroup, ReadNothing, ReadShortVoltages, ReadRaises,
         InverterChanges, Advance, vars

-----------------------------------------------------------------------------
(* The rest of the type of the client's state. *)

Ranges ==
    /\ pc \in {"connect", "read", "done", "failed", "raised"}
    /\ group \in 1..Len(Groups)
    /\ voltages \in {"none", "short", "full"}
    /\ sample \in [StoredMetrics -> Int \cup {Null}]
    /\ missing \subseteq {Groups[g] : g \in 1..Len(Groups)}

\* _validate makes a number or NULL of each metric.
LEMMA ValidateType ==
    ASSUME NEW d \in [Keys -> Int \cup {Null}]
    PROVE  Validate(d) \in [StoredMetrics -> Int \cup {Null}]
<1>1. \A k \in Keys : d[k] \in Int \/ d[k] = Null
  OBVIOUS
<1>2. ASSUME NEW metric, NEW v \in Int
      PROVE  Checked(metric, v) \in Int \cup {Null}
  BY DEF Checked
<1> DEFINE total == OrZero(d.grid_power_r) + OrZero(d.grid_power_s)
                       + OrZero(d.grid_power_t)
<1>3. total \in Int
  BY <1>1, ClientAssumption DEF OrZero, Keys
<1>4. ~PvAbsent(d) => d.pv1_power + d.pv2_power \in Int
  BY <1>1 DEF PvAbsent, Keys
<1>5. \A k \in {"battery_power", "battery_soc"} :
         d[k] \in Int \/ d[k] = Null
  BY <1>1 DEF Keys
<1>6. ASSUME NEW metric \in StoredMetrics
      PROVE  Validate(d)[metric] \in Int \cup {Null}
  <2> HIDE DEF total
  <2>1. CASE metric = "pv_power"
    BY <1>2, <1>4, <2>1 DEF Validate
  <2>2. CASE metric = "grid_power_total"
    BY <1>2, <1>3, <2>2 DEF Validate, total
  <2>3. CASE metric \in {"battery_power", "battery_soc"}
    BY <1>2, <1>5, <2>3 DEF Validate
  <2> QED
    BY <2>1, <2>2, <2>3 DEF StoredMetrics
<1> QED
  BY <1>6 DEF Validate

\* Every step keeps the ranges: no read goes past the last group.
LEMMA RangesStep ==
    ASSUME ClientIInv, ClientIInv', Ranges, [Next]_vars
    PROVE  Ranges'
<1> USE DEF Ranges
<1>0. /\ Len(Groups) = 8
      /\ group \in 1..8
      /\ Groups[group] \in {Groups[g] : g \in 1..Len(Groups)}
  BY DEF Groups
<1>1. CASE Connected \/ AttemptFails
  BY <1>1 DEF Connected, AttemptFails
<1>2. CASE ReadGroup \/ ReadNothing \/ ReadShortVoltages
  <2>1. pc' \in {"read", "done"} /\ group' \in 1..Len(Groups)
    BY <1>0, <1>2 DEF ReadGroup, ReadNothing, ReadShortVoltages, Advance
  <2>2. voltages' \in {"none", "short", "full"}
    BY <1>2 DEF ReadGroup, ReadNothing, ReadShortVoltages
  <2>3. missing' \subseteq {Groups[g] : g \in 1..Len(Groups)}
    BY <1>0, <1>2 DEF ReadGroup, ReadNothing, ReadShortVoltages
  <2>4. sample' = sample \/ sample' = Validate(data')
    BY <1>2 DEF ReadGroup, ReadNothing, ReadShortVoltages, Advance
  <2>5. sample' \in [StoredMetrics -> Int \cup {Null}]
    BY <2>4, ValidateType DEF ClientIInv, DataReal
  <2> QED
    BY <2>1, <2>2, <2>3, <2>5
<1>3. CASE ReadRaises \/ InverterChanges \/ UNCHANGED vars
  BY <1>3 DEF ReadRaises, InverterChanges, vars
<1> QED
  BY <1>1, <1>2, <1>3 DEF Next

\* The client's state has its types, for every number of retries, delay and word
\* size; in particular connect() never waits longer than the sum of its delays,
\* because it skips the one after the last attempt.
THEOREM ClientTypeCorrect == Spec => []TypeOK
<1>1. Init => Ranges /\ Waiting
  <2> SUFFICES ASSUME Init PROVE Ranges /\ Waiting
    OBVIOUS
  <2>1. Ranges
    BY DEF Init, Ranges, Groups
  <2>2. 2 ^ 0 = 1
    OBVIOUS
  <2>3. RetryDelay * (2 ^ 0 - 1) = 0 /\ LongestWait \in Nat
    <3>1. MaxRetries - 1 \in Nat /\ RetryDelay \in Nat
      BY ClientAssumption
    <3>2. 2 ^ (MaxRetries - 1) \in Nat \ {0}
      BY <3>1, PowersOfTwo
    <3> QED
      BY <2>2, <3>1, <3>2, DelaysAdd DEF LongestWait
  <2>4. Waiting
    BY <2>3, ClientAssumption DEF Init, Waiting
  <2> QED
    BY <2>1, <2>4
<1>2. ClientIInv /\ ClientIInv' /\ Ranges /\ [Next]_vars => Ranges'
  BY RangesStep
<1>3. Waiting /\ [Next]_vars => Waiting'
  BY WaitingStep
<1>4. ClientIInv /\ Ranges /\ Waiting => TypeOK
  BY DEF ClientIInv, DataReal, Ranges, Waiting, TypeOK
<1> QED
  BY <1>1, <1>2, <1>3, <1>4, ClientInvariant, PTL DEF Spec

-----------------------------------------------------------------------------
(* What a poll misses. *)

\* The read of the i-th group is behind the poll.
Passed(i) == (pc = "read" /\ i < group) \/ pc = "done"

\* A group that was answered in full is in the dictionary; for the PV power
\* that takes the PV voltages, too.
Answered ==
    /\ Passed(1) /\ "grid_data" \notin missing => data.grid_power_r # Null
    /\ Passed(2) /\ "pv_voltage_current" \notin missing => voltages = "full"
    /\ Passed(3) /\ {"pv_voltage_current", "pv_power"} \cap missing = {}
          => ~PvAbsent(data)
    /\ Passed(4) /\ "battery_data" \notin missing
          => data.battery_power # Null /\ data.battery_soc # Null

\* A full answer takes no key out of the dictionary and adds those of its group.
LEMMA ReadAdds ==
    ASSUME ClientIInv, NEW g \in {Groups[i] : i \in 1..Len(Groups)},
           pc = "read", data' = Updated(data, Contribution(g))
    PROVE  /\ \A k \in Keys : data[k] # Null => data'[k] # Null
           /\ g = "grid_data" => data'.grid_power_r # Null
           /\ g = "pv_power" /\ voltages # "none"
                 => data'.pv1_power # Null /\ data'.pv2_power # Null
           /\ g = "battery_data"
                 => data'.battery_power # Null /\ data'.battery_soc # Null
<1> DEFINE new == Contribution(g)
<1>0. \A k \in Keys : data'[k] = IF k \in DOMAIN new THEN new[k] ELSE data[k]
  BY DEF Updated
<1>1. \/ new = <<>>
      \/ \E measured \in {Grid(inverter), Pv(inverter), Battery(inverter),
                          FeedIn(inverter), Energy(inverter)} : new = measured
  BY ProcessedIsMeasured DEF ClientIInv, Contribution, Processed, Groups
<1>2. /\ inverter.r # Null /\ inverter.s # Null /\ inverter.t # Null
      /\ inverter.pv1 # Null /\ inverter.pv2 # Null
      /\ inverter.battery # Null /\ inverter.soc # Null
      /\ inverter.feedIn # Null /\ inverter.energy # Null
  BY MeasuredInt, ClientAssumption DEF ClientIInv
<1>3. \A k \in DOMAIN new : new[k] # Null
  BY <1>1, <1>2 DEF Grid, Pv, Battery, FeedIn, Energy
<1>4. g = "grid_data" => new = Grid(inverter)
  BY ProcessedIsMeasured DEF ClientIInv, Contribution
<1>5. g = "pv_power" /\ voltages # "none" => new = Pv(inverter)
  BY ProcessedIsMeasured DEF ClientIInv, Contribution
<1>6. g = "battery_data" => new = Battery(inverter)
  BY ProcessedIsMeasured DEF ClientIInv, Contribution
<1> HIDE DEF new
<1> QED
  BY <1>0, <1>2, <1>3, <1>4, <1>5, <1>6 DEF Grid, Pv, Battery, Keys

\* The places of the four groups the stored metrics come from.
LEMMA Places ==
    /\ Len(Groups) = 8
    /\ Groups[1] = "grid_data" /\ Groups[2] = "pv_voltage_current"
    /\ Groups[3] = "pv_power" /\ Groups[4] = "battery_data"
    /\ \A i \in 1..8 :
          /\ Groups[i] = "grid_data" => i = 1
          /\ Groups[i] = "pv_voltage_current" => i = 2
          /\ Groups[i] = "pv_power" => i = 3
          /\ Groups[i] = "battery_data" => i = 4
BY DEF Groups

\* One read puts one group behind the poll.
LEMMA OneGroupPasses ==
    ASSUME Ranges, pc = "read", NEW i \in 1..4, Passed(i)',
           NEW newData, Advance(newData)
    PROVE  Passed(i) \/ i = group
BY Places DEF Ranges, Passed, Advance

\* Every step keeps what was answered in the dictionary.
LEMMA AnsweredStep ==
    ASSUME ClientIInv, Ranges, Answered, [Next]_vars
    PROVE  Answered'
<1> DEFINE g == Groups[group]
<1>0. g \in {Groups[i] : i \in 1..Len(Groups)} /\ group \in 1..8
  BY Places DEF Ranges
<1>1. CASE Connected \/ AttemptFails \/ ReadRaises
  <2>1. ~Passed(1)' /\ ~Passed(2)' /\ ~Passed(3)' /\ ~Passed(4)'
    <3>1. CASE Connected
      BY <3>1 DEF Connected, ClientIInv, Passed
    <3>2. CASE AttemptFails \/ ReadRaises
      BY <3>2 DEF AttemptFails, ReadRaises, Passed
    <3> QED
      BY <1>1, <3>1, <3>2
  <2> QED
    BY <2>1 DEF Answered
<1>2. CASE InverterChanges \/ UNCHANGED vars
  BY <1>2 DEF InverterChanges, vars, Answered, Passed, PvAbsent
<1>3. CASE ReadNothing \/ ReadShortVoltages
  <2>1. /\ pc = "read" /\ data' = data /\ missing' = missing \cup {g}
        /\ \E newData : Advance(newData)
        /\ voltages' = voltages \/ g = "pv_voltage_current"
    BY <1>3 DEF ReadNothing, ReadShortVoltages, Advance
  <2>2. ASSUME NEW i \in 1..4, Passed(i)', Groups[i] \notin missing'
        PROVE  Passed(i)
    BY <2>1, <2>2, OneGroupPasses
  <2> QED
    BY <2>1, <2>2, Places DEF Answered, PvAbsent
<1>4. CASE ReadGroup
  <2>1. /\ pc = "read" /\ data' = Updated(data, Contribution(g))
        /\ missing' = missing
        /\ \E newData : Advance(newData)
        /\ ~IndexError(g)
        /\ voltages' = IF g = "pv_voltage_current" THEN "full" ELSE voltages
    BY <1>4 DEF ReadGroup, Advance
  <2>2. /\ \A k \in Keys : data[k] # Null => data'[k] # Null
        /\ g = "grid_data" => data'.grid_power_r # Null
        /\ g = "pv_power" /\ voltages # "none"
              => data'.pv1_power # Null /\ data'.pv2_power # Null
        /\ g = "battery_data"
              => data'.battery_power # Null /\ data'.battery_soc # Null
    BY <1>0, <2>1, ReadAdds
  <2>3. ASSUME NEW i \in 1..4, Passed(i)' PROVE Passed(i) \/ g = Groups[i]
    BY <2>1, <2>3, OneGroupPasses
  <2>4. Passed(1)' /\ "grid_data" \notin missing' => data'.grid_power_r # Null
    BY <2>1, <2>2, <2>3, Places DEF Answered, Keys
  <2>5. Passed(2)' /\ "pv_voltage_current" \notin missing' => voltages' = "full"
    BY <2>1, <2>3, Places DEF Answered
  <2>6. Passed(4)' /\ "battery_data" \notin missing'
           => data'.battery_power # Null /\ data'.battery_soc # Null
    BY <2>1, <2>2, <2>3, Places DEF Answered, Keys
  <2>7. ASSUME Passed(3)', {"pv_voltage_current", "pv_power"} \cap missing' = {}
        PROVE  ~PvAbsent(data')
    <3>1. CASE Passed(3)
      BY <2>1, <2>2, <2>7, <3>1 DEF Answered, PvAbsent, Keys
    <3>2. CASE g = Groups[3]
      <4>1. group = 3 /\ Passed(2)
        BY <1>0, <2>1, <3>2, Places DEF Passed
      <4>2. voltages = "full"
        BY <2>1, <2>7, <4>1 DEF Answered
      <4> QED
        BY <2>2, <3>2, <4>2, Places DEF PvAbsent
    <3> QED
      BY <2>3, <2>7, <3>1, <3>2
  <2> QED
    BY <2>4, <2>5, <2>6, <2>7 DEF Answered
<1> QED
  BY <1>1, <1>2, <1>3, <1>4 DEF Next

\* What was answered in full is in the dictionary of every state.
LEMMA AnsweredInvariant == Spec => [](Ranges /\ Answered)
<1>1. Init => Ranges /\ Answered
  BY DEF Init, Ranges, Groups, Answered, Passed
<1>2. ClientIInv /\ ClientIInv' /\ Ranges /\ Answered /\ [Next]_vars
         => Ranges' /\ Answered'
  BY RangesStep, AnsweredStep
<1> QED
  BY <1>1, <1>2, ClientInvariant, PTL DEF Spec

\* A NULL in the database always has a reason: a group of the metric was not read
\* in full, or the inverter reported a value out of range; _validate loses
\* nothing else, such as a power of zero.
THEOREM NullIsAlwaysExplained == Spec => []NullIsExplained
<1>1. ASSUME ClientIInv, Answered, pc = "done", NEW metric \in StoredMetrics,
             sample[metric] = Null, GroupsOf(metric) \cap missing = {}
      PROVE  \E q \in seen : ~InRange(metric, Physical(metric, q))
  <2>0. /\ sample = Validate(data) /\ seen \subseteq Quantities /\ DataReal
        /\ Passed(1) /\ Passed(2) /\ Passed(3) /\ Passed(4)
    BY <1>1 DEF ClientIInv, Passed
  <2>1. ASSUME NEW v \in Int, Checked(metric, v) = Null
        PROVE  ~InRange(metric, v)
    BY <2>1, ClientAssumption DEF Checked
  <2>2. CASE metric = "pv_power"
    <3>1. ~PvAbsent(data)
      BY <1>1, <2>0, <2>2 DEF Answered, GroupsOf
    <3>2. Checked(metric, data.pv1_power + data.pv2_power) = Null
      BY <1>1, <2>0, <2>2, <3>1 DEF Validate
    <3>3. PICK q \in seen : data.pv1_power = q.pv1 /\ data.pv2_power = q.pv2
      BY <2>0, <3>1 DEF DataReal, GroupReal, Pv, PvAbsent
    <3>4. q.pv1 + q.pv2 \in Int
      BY <2>0, MeasuredInt
    <3> QED
      BY <2>1, <2>2, <3>2, <3>3, <3>4 DEF Physical
  <2>3. CASE metric = "grid_power_total"
    <3>1. data.grid_power_r # Null
      BY <1>1, <2>0, <2>3 DEF Answered, GroupsOf
    <3>2. PICK q \in seen : /\ data.grid_power_r = q.r
                            /\ data.grid_power_s = q.s
                            /\ data.grid_power_t = q.t
      BY <2>0, <3>1 DEF DataReal, GroupReal, Grid
    <3>3. /\ q.r \in Int /\ q.s \in Int /\ q.t \in Int
          /\ q.r # Null /\ q.s # Null /\ q.t # Null
      BY <2>0, MeasuredInt, ClientAssumption
    <3>4. Checked(metric, OrZero(q.r) + OrZero(q.s) + OrZero(q.t)) = Null
      BY <1>1, <2>0, <2>3, <3>1, <3>2 DEF Validate, Phases
    <3>5. OrZero(q.r) + OrZero(q.s) + OrZero(q.t) = q.r + q.s + q.t
      BY <3>3 DEF OrZero
    <3>6. q.r + q.s + q.t \in Int
      BY <3>3
    <3> QED
      BY <2>1, <2>3, <3>4, <3>5, <3>6 DEF Physical
  <2>4. CASE metric \in {"battery_power", "battery_soc"}
    <3>1. data.battery_power # Null /\ data.battery_soc # Null
      BY <1>1, <2>0, <2>4 DEF Answered, GroupsOf
    <3>2. Checked(metric, data[metric]) = Null
      BY <1>1, <2>0, <2>4, <3>1 DEF Validate
    <3>3. PICK q \in seen : data.battery_power = q.battery /\ data.battery_soc = q.soc
      BY <2>0, <3>1 DEF DataReal, GroupReal, Battery
    <3>4. q.battery \in Int /\ q.soc \in Int
      BY <2>0, MeasuredInt
    <3> QED
      BY <2>1, <2>4, <3>2, <3>3, <3>4 DEF Physical
  <2> QED
    BY <2>2, <2>3, <2>4 DEF StoredMetrics
<1>2. ClientIInv /\ Answered => NullIsExplained
  BY <1>1 DEF NullIsExplained
<1> QED
  BY <1>2, ClientInvariant, AnsweredInvariant, PTL
===============================================================================
