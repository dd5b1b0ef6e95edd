----------------------------- MODULE MonitorProofs -----------------------------
(* Theorems about Monitor, for every value of its constants. *)
EXTENDS Monitor, TimeSeriesStoreProofs

\* Every sample of the set is in the committed 15-minute series.
AllCovered(samples) ==
    \A s \in samples : \A m \in s.metrics : CoveredByRollup(s, m, disk.rollup)

\* What a commit of the open transaction would delete has been rolled up,
\* unless the last rollup reported an error.
PendingCovered == rollupFailed \/ AllCovered(disk.raw \ view.raw)

\* Between a rollup that succeeded and the prune after it, nothing is pending
\* and the whole raw table has been rolled up.
ReadyToPrune ==
    pc = "prune" /\ ~rollupFailed /\ Available
        => view = disk /\ AllCovered(disk.raw)

\* The inductive invariant of the loop.
LoopIInv == TypeOK /\ PendingCovered /\ ReadyToPrune

-----------------------------------------------------------------------------
\* The loop drives the store through its interface.

\* Initially the store is empty and open.
LEMMA MonitorInit == Init => StoreInit /\ LoopIInv
<1> SUFFICES ASSUME Init PROVE StoreInit /\ LoopIInv
  OBVIOUS
<1>1. StoreTypeOK
  BY StoreInitInv DEF Init, StoreIInv
<1>2. TypeOK
  <2>1. pc \in Labels /\ socketOpen \in BOOLEAN /\ rollupFailed \in BOOLEAN
    BY DEF Init, Labels
  <2>2. /\ now = 0 /\ checked = 0 /\ lastRollup = 0 /\ lastDaily = 0
        /\ 0 \in 0..MaxTime
        /\ missed \in 0..MaxMissed /\ restarts \in Nat /\ clockSteps \in Nat
    BY MonitorAssumption DEF Init
  <2>3. snapshot \in Nat \cup {NoData}
    BY DEF Init
  <2> QED
    BY <1>1, <2>1, <2>2, <2>3 DEF TypeOK
<1>3. PendingCovered
  BY DEF Init, StoreInit, EmptyDatabase, PendingCovered, AllCovered
<1>4. ReadyToPrune
  BY DEF Init, ReadyToPrune
<1> QED
  BY <1>2, <1>3, <1>4 DEF Init, LoopIInv

\* The clock never leaves the readings the store is proved for.
LEMMA ClockInTimes ==
    ASSUME TypeOK
    PROVE  now \in Times /\ now \in Nat
BY MonitorAssumption, StoreAssumption DEF TypeOK

\* Every step of the loop is one operation of the store or leaves it alone.
LEMMA MonitorStepIsStoreStep ==
    ASSUME TypeOK, [Next]_vars
    PROVE  [StoreNext]_storeVars
<1> USE ClockInTimes
<1>1. CASE Write
  BY <1>1 DEF Write, StoreNext
<1>2. CASE RollupStep
  BY <1>2 DEF RollupStep, StoreNext
<1>3. CASE PruneStep
  BY <1>3 DEF PruneStep, StoreNext
<1>4. CASE RollupDailyStep
  BY <1>4 DEF RollupDailyStep, StoreNext
<1>5. CASE PruneDailyStep
  BY <1>5 DEF PruneDailyStep, StoreNext
<1>6. CASE Shutdown \/ Killed \/ Start
  BY <1>6 DEF Shutdown, Killed, Ends, Start, StoreNext
<1>7. CASE \/ Connected \/ ConnectFails \/ Poll \/ PollRaises \/ Display
           \/ DisplayRaises \/ Sleep \/ ClockSet \/ Interrupt
           \/ UNCHANGED vars
  BY <1>7 DEF Connected, ConnectFails, Poll, PollRaises, Display,
              DisplayRaises, SkipMaintenance, Sleep, ClockSet, Interrupt, vars
<1> QED
  BY <1>1, <1>2, <1>3, <1>4, <1>5, <1>6, <1>7 DEF Next

-----------------------------------------------------------------------------
\* What the operations of the store do to PendingCovered.

\* A commit leaves nothing pending.
LEMMA CommitLeavesNothing ==
    ASSUME view' = disk'
    PROVE  PendingCovered'
BY DEF PendingCovered, AllCovered

\* A failing operation that deletes no raw row from the transaction, or rolls
\* it back, adds nothing to what is pending.
LEMMA FailKeepsPending ==
    ASSUME PendingCovered, UNCHANGED <<disk, rollupFailed>>,
           view'.raw = disk.raw \/ view.raw \subseteq view'.raw
    PROVE  PendingCovered'
BY DEF PendingCovered, AllCovered

\* Each of the databases an operation other than prune builds from the
\* transaction keeps its raw rows.
LEMMA RawKept ==
    ASSUME NEW db \in Database, NEW M \in SUBSET Metrics, NEW t, NEW s
    PROVE  /\ RolledUp(db, M).raw = db.raw
           /\ DailyRolledUp(db, M).raw = db.raw
           /\ DailyPruned(db, t).raw = db.raw
           /\ Insert(db, s).raw = db.raw \cup {s}
BY DEF RolledUp, DailyRolledUp, DailyPruned, Insert, Database

-----------------------------------------------------------------------------
\* The loop keeps its type, given that the store keeps its own.
LEMMA TypeStep ==
    ASSUME TypeOK, StoreTypeOK', [Next]_vars
    PROVE  TypeOK'
<1> USE MonitorAssumption DEF TypeOK, Labels, NoData
<1>1. CASE \/ Connected \/ ConnectFails \/ Poll \/ PollRaises \/ DisplayRaises
           \/ Interrupt \/ UNCHANGED vars
  <2>1. CASE Connected \/ Interrupt \/ UNCHANGED vars
    BY <2>1 DEF Connected, Interrupt, vars, loopVars, clock, timers, counters
  <2>3. CASE Poll
    <3>1. socketOpen' \in BOOLEAN
      BY <2>3 DEF Poll
    <3>2. snapshot' \in Nat \cup {-1}
      BY <2>3 DEF Poll
    <3> QED
      BY <2>3, <3>1, <3>2 DEF Poll, clock, timers, counters
  <2>2. CASE ConnectFails \/ PollRaises \/ DisplayRaises
    BY <2>2 DEF ConnectFails, PollRaises, DisplayRaises, SkipMaintenance,
                clock, timers
  <2> QED
    BY <1>1, <2>1, <2>2, <2>3
<1>2. CASE Display
  BY <1>2 DEF Display, AfterRollup, clock
<1>3. CASE Write \/ RollupStep \/ RollupDailyStep
  BY <1>3 DEF Write, RollupStep, RollupDailyStep, clock, timers, counters
<1>4. CASE PruneStep \/ PruneDailyStep
  BY <1>4 DEF PruneStep, PruneDailyStep, AfterRollup, clock, counters
<1>5. CASE Sleep
  BY <1>5 DEF Sleep, counters
<1>6. CASE Shutdown \/ Killed
  BY <1>6 DEF Shutdown, Killed, Ends, clock, timers, counters
<1>7. CASE Start
  <2>1. /\ now' \in 0..MaxTime /\ lastRollup' = now' /\ lastDaily' = now'
        /\ checked' = 0 /\ clockSteps' = clockSteps
    BY <1>7 DEF Start
  <2>2. restarts' \in Nat /\ missed' \in 0..MaxMissed
    BY <1>7 DEF Start
  <2>3. pc' \in Labels /\ socketOpen' \in BOOLEAN /\ rollupFailed' \in BOOLEAN
    BY <1>7 DEF Start
  <2>4. snapshot' \in Nat \cup {-1}
    BY <1>7 DEF Start
  <2> QED
    BY <2>1, <2>2, <2>3, <2>4
<1>8. CASE ClockSet
  BY <1>8 DEF ClockSet, timers, counters
<1> QED
  BY <1>1, <1>2, <1>3, <1>4, <1>5, <1>6, <1>7, <1>8 DEF Next

\* Every step but PruneStep keeps what is pending covered, because the store
\* operations it may perform delete no raw row.
LEMMA PendingStep ==
    ASSUME StoreIInv, LoopIInv, [Next]_vars
    PROVE  PendingCovered'
<1> USE DEF LoopIInv
<1>0. disk \in Database /\ view \in Database
  BY DEF StoreIInv, StoreTypeOK
<1>1. CASE Write
  <2>1. CASE \E metrics \in SUBSET Metrics : WriteSample(now, metrics)
    BY <2>1, CommitLeavesNothing DEF WriteSample, Commit
  <2>2. CASE \E metrics \in SUBSET Metrics : WriteSampleFails(now, metrics)
    <3>1. PICK metrics \in SUBSET Metrics :
             view' \in {view, Insert(view, NewSample(now, metrics)), disk}
      BY <2>2 DEF WriteSampleFails, Fail
    <3>2. view'.raw = disk.raw \/ view.raw \subseteq view'.raw
      BY <3>1, <1>0, RawKept
    <3> QED
      BY <2>2, <1>1, <3>2, FailKeepsPending DEF WriteSampleFails, Fail, Write
  <2>3. CASE UNCHANGED storeVars
    BY <2>3, <1>1 DEF Write, storeVars, PendingCovered, AllCovered
  <2> QED
    BY <1>1, <2>1, <2>2, <2>3 DEF Write
<1>2. CASE RollupStep
  <2>1. CASE Rollup
    BY <2>1, CommitLeavesNothing DEF Rollup, Commit
  <2>2. CASE RollupFails /\ rollupFailed' = TRUE
    BY <2>2 DEF PendingCovered
  <2>3. CASE UNCHANGED <<storeVars, rollupFailed>>
    BY <2>3 DEF storeVars, PendingCovered, AllCovered
  <2> QED
    BY <1>2, <2>1, <2>2, <2>3 DEF RollupStep
<1>3. CASE PruneStep
  <2>1. CASE Prune(now)
    BY <2>1, CommitLeavesNothing DEF Prune, Commit
  <2>2. CASE PruneFails(now)
    <3>1. rollupFailed \/ AllCovered(disk.raw)
      BY <1>3, <2>2 DEF ReadyToPrune, PruneStep, PruneFails
    <3> QED
      BY <1>3, <2>2, <3>1
         DEF PruneStep, PruneFails, Fail, PendingCovered, AllCovered
  <2>3. CASE UNCHANGED storeVars
    BY <2>3, <1>3 DEF PruneStep, storeVars, PendingCovered, AllCovered
  <2> QED
    BY <1>3, <2>1, <2>2, <2>3 DEF PruneStep
<1>4. CASE RollupDailyStep
  <2>1. CASE RollupDaily
    BY <2>1, CommitLeavesNothing DEF RollupDaily, Commit
  <2>2. CASE RollupDailyFails
    <3>1. view'.raw = disk.raw \/ view'.raw = view.raw
      BY <2>2, <1>0, RawKept DEF RollupDailyFails, Fail
    <3> QED
      BY <1>4, <2>2, <3>1, FailKeepsPending
         DEF RollupDailyStep, RollupDailyFails, Fail
  <2>3. CASE UNCHANGED storeVars
    BY <2>3, <1>4 DEF RollupDailyStep, storeVars, PendingCovered, AllCovered
  <2> QED
    BY <1>4, <2>1, <2>2, <2>3 DEF RollupDailyStep
<1>5. CASE PruneDailyStep
  <2>1. CASE PruneDaily(now)
    BY <2>1, CommitLeavesNothing DEF PruneDaily, Commit
  <2>2. CASE PruneDailyFails(now)
    <3>1. view'.raw = disk.raw \/ view'.raw = view.raw
      BY <2>2, <1>0, RawKept DEF PruneDailyFails, Fail
    <3> QED
      BY <1>5, <2>2, <3>1, FailKeepsPending
         DEF PruneDailyStep, PruneDailyFails, Fail
  <2>3. CASE UNCHANGED storeVars
    BY <2>3, <1>5 DEF PruneDailyStep, storeVars, PendingCovered, AllCovered
  <2> QED
    BY <1>5, <2>1, <2>2, <2>3 DEF PruneDailyStep
<1>6. CASE Shutdown \/ Killed \/ Start
  <2>1. UNCHANGED <<disk, rollupFailed>> /\ (view' = disk \/ view' = view)
    BY <1>6 DEF Shutdown, Killed, Ends, Start, Close, Open, OpenFails, storeVars
  <2> QED
    BY <2>1, FailKeepsPending
<1>7. CASE \/ Connected \/ ConnectFails \/ Poll \/ PollRaises \/ Display
           \/ DisplayRaises \/ Sleep \/ ClockSet \/ Interrupt
           \/ UNCHANGED vars
  BY <1>7 DEF Connected, ConnectFails, Poll, PollRaises, Display,
              DisplayRaises, SkipMaintenance, Sleep, ClockSet, Interrupt, vars,
              storeVars, loopVars, PendingCovered, AllCovered
<1> QED
  BY <1>1, <1>2, <1>3, <1>4, <1>5, <1>6, <1>7 DEF Next

-----------------------------------------------------------------------------
\* A rollup of all metrics covers the whole raw table.
LEMMA RollupCoversAll ==
    ASSUME StoreIInv, Rollup
    PROVE  view' = disk' /\ AllCovered(disk.raw)'
<1>1. view.raw \in SUBSET Sample
  BY DEF StoreIInv, StoreTypeOK, Database
<1>2. disk'.raw = view.raw
  BY RawKept DEF Rollup, Commit, StoreIInv, StoreTypeOK
<1>3. RollupRows(view.raw, Metrics) \subseteq disk'.rollup
  BY DEF Rollup, Commit, RolledUp, Upsert, StoreIInv, StoreTypeOK, Database
<1>4. ASSUME NEW s \in view.raw, NEW m \in s.metrics
      PROVE  CoveredByRollup(s, m, disk'.rollup)
  <2>1. m \in Metrics
    BY <1>1 DEF Sample
  <2>2. CoveredByRollup(s, m, RollupRows(view.raw, Metrics))
    BY <1>1, <2>1, RollupRowsComplete
  <2> QED
    BY <2>2, <1>3 DEF CoveredByRollup
<1> QED
  BY <1>2, <1>4 DEF AllCovered, Rollup, Commit

\* Only RollupStep leads to the prune, and only a rollup that succeeded clears
\* rollupFailed.
LEMMA ReadyStep ==
    ASSUME StoreIInv, LoopIInv, [Next]_vars
    PROVE  ReadyToPrune'
<1>1. CASE RollupStep
  <2>1. CASE Rollup
    BY <2>1, RollupCoversAll DEF ReadyToPrune
  <2>2. CASE RollupFails /\ rollupFailed' = TRUE
    BY <2>2 DEF ReadyToPrune
  <2>3. CASE ~Available /\ UNCHANGED <<storeVars, rollupFailed>>
    BY <2>3 DEF ReadyToPrune, Available, storeVars
  <2> QED
    BY <1>1, <2>1, <2>2, <2>3 DEF RollupStep
<1>2. CASE UNCHANGED vars
  BY <1>2 DEF LoopIInv, ReadyToPrune, Available, AllCovered, vars, storeVars,
              loopVars
<1>3. CASE ClockSet
  BY <1>3 DEF LoopIInv, ReadyToPrune, Available, AllCovered, ClockSet, storeVars
<1>4. CASE Next /\ ~RollupStep /\ ~ClockSet
  <2>1. pc' # "prune"
    BY <1>4 DEF Next, Connected, ConnectFails, Poll, PollRaises, Write, Display,
                DisplayRaises, PruneStep, RollupDailyStep, PruneDailyStep,
                Sleep, Interrupt, Shutdown, Killed, Ends, Start,
                SkipMaintenance, AfterRollup
  <2> QED
    BY <2>1 DEF ReadyToPrune
<1> QED
  BY <1>1, <1>2, <1>3, <1>4

-----------------------------------------------------------------------------
\* The inductive invariant holds along every behaviour of the process.
LEMMA MonitorInvariant == Spec => [](StoreIInv /\ LoopIInv)
<1>1. Init => StoreIInv /\ LoopIInv
  BY MonitorInit, StoreInitInv
<1>2. ASSUME StoreIInv, LoopIInv, [Next]_vars
      PROVE  StoreIInv' /\ LoopIInv'
  <2>1. StoreIInv'
    BY <1>2, MonitorStepIsStoreStep, StoreNextInv DEF LoopIInv
  <2>2. TypeOK'
    BY <1>2, <2>1, TypeStep DEF LoopIInv, StoreIInv
  <2> QED
    BY <1>2, <2>1, <2>2, PendingStep, ReadyStep DEF LoopIInv
<1> QED
  BY <1>1, <1>2, PTL DEF Spec

\* The variables of the loop and of its store always have their types; in
\* particular neither timer is ahead of the clock unless the clock was set.
THEOREM MonitorTypeCorrect == Spec => []TypeOK
BY MonitorInvariant, PTL DEF LoopIInv

\* main() uses the store only as the store's own specification allows, so all
\* that is proved of StoreSpec holds of the running process.
THEOREM MonitorImplementsStore == Spec => StoreSpec
<1>1. Init => StoreInit
  BY MonitorInit
<1>2. LoopIInv /\ [Next]_vars => [StoreNext]_storeVars
  BY MonitorStepIsStoreStep DEF LoopIInv
<1> QED
  BY <1>1, <1>2, MonitorInvariant, PTL DEF Spec, StoreSpec

\* For instance: no sample the loop stored is lost before it expires, through
\* failing operations, kills and restarts.
THEOREM MonitorAckedDurability == Spec => []AckedDurable
BY MonitorImplementsStore, AckedDurability, PTL

\* No sample leaves the raw table before the 15-minute series has it, unless
\* the rollup in between reported an error: main.py's order of rollup and prune
\* suffices, whatever fails, is retried or is cut off, and whatever the clock is
\* set to, for every choice of retentions and intervals.
THEOREM RollupBeforePrune == Spec => RolledUpBeforePruned
<1> DEFINE Safe == \A s \in disk.raw \ disk'.raw : \A m \in s.metrics :
                      rollupFailed \/ CoveredByRollup(s, m, disk.rollup)
<1>1. ASSUME StoreIInv, LoopIInv, [Next]_vars
      PROVE  [Safe]_vars
  <2>0. disk \in Database /\ view \in Database
    BY <1>1 DEF StoreIInv, StoreTypeOK
  <2>1. CASE PruneStep
    <3>1. CASE Prune(now)
      BY <1>1, <2>1, <3>1
         DEF Prune, PruneStep, LoopIInv, ReadyToPrune, AllCovered
    <3>2. CASE disk' = disk
      BY <3>2
    <3> QED
      BY <2>1, <3>1, <3>2 DEF PruneStep, PruneFails, Fail, storeVars
  <2>2. CASE disk' = disk
    BY <2>2
  <2>3. CASE view.raw \subseteq disk'.raw
    BY <1>1, <2>3 DEF LoopIInv, PendingCovered, AllCovered
  <2>4. CASE Write
    <3>1. CASE \E metrics \in SUBSET Metrics : WriteSample(now, metrics)
      <4>1. view.raw \subseteq disk'.raw
        BY <3>1, <2>0, RawKept DEF WriteSample, Commit
      <4> QED
        BY <4>1, <2>3
    <3>2. CASE disk' = disk
      BY <3>2, <2>2
    <3> QED
      BY <2>4, <3>1, <3>2 DEF Write, WriteSampleFails, Fail, storeVars
  <2>5. CASE RollupStep \/ RollupDailyStep \/ PruneDailyStep
    <3>1. disk' = disk \/ view.raw \subseteq disk'.raw
      BY <2>5, <2>0, RawKept
         DEF RollupStep, RollupDailyStep, PruneDailyStep, Rollup, RollupFails,
             RollupDaily, RollupDailyFails, PruneDaily, PruneDailyFails,
             Commit, Fail, storeVars
    <3> QED
      BY <3>1, <2>2, <2>3
  <2>6. CASE Shutdown \/ Killed \/ Start
    BY <2>6, <2>2 DEF Shutdown, Killed, Ends, Start, Close, Open, OpenFails, storeVars
  <2>7. CASE \/ Connected \/ ConnectFails \/ Poll \/ PollRaises \/ Display
             \/ DisplayRaises \/ Sleep \/ ClockSet \/ Interrupt
             \/ UNCHANGED vars
    BY <2>7, <2>2 DEF Connected, ConnectFails, Poll, PollRaises, Display,
                DisplayRaises, SkipMaintenance, Sleep, ClockSet, Interrupt,
                vars, storeVars
  <2> QED
    BY <1>1, <2>1, <2>4, <2>5, <2>6, <2>7 DEF Next
<1>2. Spec => [][Safe]_vars
  BY <1>1, MonitorInvariant, PTL DEF Spec
<1> QED
  BY <1>2 DEF RolledUpBeforePruned

-----------------------------------------------------------------------------
(* Time.  The bounds below are sums of products of the constants: Waits and  *)
(* Past name the products, so that each step is linear in them.             *)

\* The longest time k iterations can take.
Waits(k) == k * MaxSleep

\* What k processes that ended have added to an age.
Past(k) == k * (Lag + MaxDown)

\* Each iteration adds at most one sleep.
LEMMA WaitsStep ==
    ASSUME NEW k \in Nat
    PROVE  /\ Waits(k) \in Nat
           /\ Waits(0) = 0
           /\ Waits(k + 1) = Waits(k) + MaxSleep
BY MonitorAssumption DEF Waits

\* More iterations take no less time.
LEMMA WaitsMonotone ==
    ASSUME NEW k \in Nat, NEW n \in Nat, k <= n
    PROVE  Waits(k) <= Waits(n)
<1>1. PICK d \in Nat : n = k + d
  <2>1. n - k \in Nat /\ n = k + (n - k)
    OBVIOUS
  <2> QED
    BY <2>1
<1>2. Waits(n) = Waits(k) + Waits(d)
  BY <1>1, MonitorAssumption DEF Waits
<1>3. Waits(d) \in Nat /\ Waits(k) \in Nat
  BY WaitsStep
<1> QED
  BY <1>2, <1>3

\* The facts the steps of the loop need about its iterations.
LEMMA WaitsFacts ==
    ASSUME TypeOK
    PROVE  /\ missed \in Nat /\ missed <= MaxMissed /\ MaxMissed \in Nat
           /\ Waits(0) = 0
           /\ Waits(missed) \in Nat
           /\ Waits(missed + 1) = Waits(missed) + MaxSleep
           /\ Waits(missed + 1) <= Waits(MaxMissed + 1)
           /\ Waits(MaxMissed + 1) \in Nat
<1>1. missed \in Nat /\ missed <= MaxMissed /\ MaxMissed \in Nat
  BY MonitorAssumption DEF TypeOK
<1>2. Waits(missed) \in Nat /\ Waits(0) = 0
      /\ Waits(missed + 1) = Waits(missed) + MaxSleep
  BY <1>1, WaitsStep
<1>3. missed + 1 \in Nat /\ MaxMissed + 1 \in Nat /\ missed + 1 <= MaxMissed + 1
  BY <1>1
<1>4. Waits(missed + 1) <= Waits(MaxMissed + 1)
  BY <1>3, WaitsMonotone
<1>5. Waits(MaxMissed + 1) \in Nat
  BY <1>3, WaitsStep
<1> QED
  BY <1>1, <1>2, <1>4, <1>5

\* Each process adds one maintenance lag and one outage.
LEMMA PastStep ==
    ASSUME NEW k \in Nat
    PROVE  /\ Lag = RollupInterval + Waits(MaxMissed + 1)
           /\ Lag \in Nat
           /\ Past(k) \in Nat
           /\ Past(0) = 0
           /\ Past(k + 1) = (k + 1) * (Lag + MaxDown)
           /\ Past(k + 1) = Past(k) + Lag + MaxDown
<1>1. Lag = RollupInterval + Waits(MaxMissed + 1)
  BY DEF Lag, Waits
<1>2. Waits(MaxMissed + 1) \in Nat
  BY MonitorAssumption, WaitsStep
<1>3. Lag \in Nat
  BY <1>1, <1>2, MonitorAssumption
<1>4. PICK w \in Nat : w = Lag + MaxDown
  BY <1>3, MonitorAssumption
<1>5. k * w \in Nat /\ 0 * w = 0 /\ (k + 1) * w = k * w + w
  OBVIOUS
<1> QED
  BY <1>1, <1>3, <1>4, <1>5, MonitorAssumption DEF Past

-----------------------------------------------------------------------------
(* The timers.  While nobody sets the clock, each maintenance runs as soon  *)
(* as an iteration reaches it with its interval elapsed.                    *)

\* A timer of this interval, last reset at t, is due no longer than the
\* iterations that ended early.
OnTime(interval, t) ==
    /\ pc = "sleep" => now - t < interval + Waits(missed)
    /\ pc \in {"top", "poll", "write", "display"}
          => now - t < interval + Waits(missed + 1)
    /\ now - t < interval + Waits(MaxMissed + 1)

\* Both timers are on time; the maintenance works with the present reading of
\* the clock; and the daily maintenance comes after the 15-minute one.
Timers ==
    clockSteps = 0 =>
        /\ pc \in {"rollup", "prune", "rollupDaily", "pruneDaily"}
              => checked = now
        /\ OnTime(RollupInterval, lastRollup)
        /\ OnTime(DailyInterval, lastDaily)
        /\ pc \in {"rollupDaily", "pruneDaily"}
              => now - lastRollup < RollupInterval
        /\ lastDaily < lastRollup + RollupInterval

\* Nobody unsets a setting of the clock.
LEMMA ClockStepsGrow ==
    ASSUME TypeOK, [Next]_vars, clockSteps' = 0
    PROVE  clockSteps = 0 /\ ~ClockSet
<1>1. CASE ClockSet
  BY <1>1 DEF ClockSet, TypeOK
<1>2. CASE [Next]_vars /\ ~ClockSet
  <2>1. clockSteps' = clockSteps
    BY <1>2 DEF Next, Connected, ConnectFails, Poll, PollRaises, Write, Display,
                DisplayRaises, RollupStep, PruneStep, RollupDailyStep,
                PruneDailyStep, Sleep, Interrupt, Shutdown, Killed, Ends, Start,
                SkipMaintenance, clock, vars, loopVars
  <2> QED
    BY <2>1, <1>2
<1> QED
  BY <1>1, <1>2

\* Initially both timers start at the present.
LEMMA TimersInit == Init => Timers
<1> SUFFICES ASSUME Init PROVE Timers
  OBVIOUS
<1>1. TypeOK
  BY MonitorInit DEF LoopIInv
<1> QED
  BY <1>1, WaitsFacts, MonitorAssumption DEF Init, Timers, OnTime

\* Every step of the loop keeps its timers on time.
LEMMA TimersStep ==
    ASSUME TypeOK, TypeOK', Timers, [Next]_vars
    PROVE  Timers'
<1> SUFFICES ASSUME clockSteps' = 0 PROVE Timers'
  BY DEF Timers
<1>1. clockSteps = 0 /\ ~ClockSet
  BY ClockStepsGrow
<1>2. /\ now \in Nat /\ checked \in Nat /\ lastRollup \in Nat /\ lastDaily \in Nat
      /\ lastRollup <= now /\ lastDaily <= now
      /\ RollupInterval \in Nat \ {0} /\ DailyInterval \in Nat \ {0}
      /\ MaxSleep \in Nat
  BY <1>1, MonitorAssumption DEF TypeOK
<1>3. /\ OnTime(RollupInterval, lastRollup) /\ OnTime(DailyInterval, lastDaily)
      /\ lastDaily < lastRollup + RollupInterval
      /\ pc \in {"rollup", "prune", "rollupDaily", "pruneDaily"}
            => checked = now
      /\ pc \in {"rollupDaily", "pruneDaily"}
            => now - lastRollup < RollupInterval
  BY <1>1 DEF Timers
<1>4. CASE Start
  <2>1. PICK t \in Nat : now' = t /\ lastRollup' = t /\ lastDaily' = t
    BY <1>4, MonitorAssumption DEF Start, TypeOK
  <2>0. pc' = "top"
    BY <1>4 DEF Start
  <2>2. Waits(missed + 1)' \in Nat /\ Waits(MaxMissed + 1)' \in Nat
    <3>1. missed' + 1 \in Nat
      BY <1>4 DEF Start
    <3>2. missed' + 1 \in Nat /\ MaxMissed + 1 \in Nat
      BY <3>1, MonitorAssumption
    <3>3. Waits(missed' + 1) \in Nat /\ Waits(MaxMissed + 1) \in Nat
      BY ONLY <3>2, WaitsStep
    <3> QED
      BY <3>3
  <2>3. OnTime(RollupInterval, lastRollup)'
    BY <2>0, <2>1, <2>2, <1>2 DEF OnTime
  <2>4. OnTime(DailyInterval, lastDaily)'
    BY <2>0, <2>1, <2>2, <1>2 DEF OnTime
  <2>5. lastDaily' < lastRollup' + RollupInterval
    BY <2>1, <1>2
  <2> QED
    BY <2>0, <2>3, <2>4, <2>5 DEF Timers
<1> USE <1>2, <1>3, WaitsFacts
<1>5. CASE Connected \/ Poll \/ Write
  BY <1>5 DEF Connected, Poll, Write, Timers, OnTime, clock, timers, counters
<1>6. CASE ConnectFails \/ PollRaises \/ DisplayRaises
  BY <1>6 DEF ConnectFails, PollRaises, DisplayRaises, SkipMaintenance, Timers,
              OnTime, clock, timers
<1>7. CASE Display
  BY <1>7 DEF Display, RollupDue, AfterRollup, Timers, OnTime, clock
<1>8. CASE RollupStep
  BY <1>8 DEF RollupStep, Timers, OnTime, clock, timers, counters
<1>9. CASE PruneStep
  BY <1>9 DEF PruneStep, AfterRollup, Timers, OnTime, clock, counters
<1>10. CASE RollupDailyStep
  BY <1>10 DEF RollupDailyStep, Timers, OnTime, clock, timers, counters
<1>11. CASE PruneDailyStep
  BY <1>11 DEF PruneDailyStep, Timers, OnTime, clock, counters
<1>12. CASE Sleep
  BY <1>12 DEF Sleep, Timers, OnTime, counters
<1>13. CASE Interrupt \/ Shutdown \/ Killed
  BY <1>13 DEF Interrupt, Shutdown, Killed, Ends, Timers, OnTime, clock, timers,
               counters
<1>14. CASE UNCHANGED vars
  BY <1>14 DEF vars, loopVars, Timers, OnTime
<1> QED
  BY <1>1, <1>5, <1>6, <1>7, <1>8, <1>9, <1>10, <1>11, <1>12, <1>13, <1>4,
     <1>14 DEF Next

-----------------------------------------------------------------------------
(* The published snapshot. *)

\* From a completed poll to the end of its iteration the snapshot is of the
\* present; after that it ages by the iterations that ended early.
Published ==
    clockSteps = 0 /\ snapshot # NoData =>
        /\ pc \in {"write", "display", "rollup", "prune", "rollupDaily",
                   "pruneDaily"} => snapshot = now
        /\ pc = "sleep" => now - snapshot <= Waits(missed)
        /\ pc \in {"top", "poll", "closing"}
              => now - snapshot <= Waits(missed + 1)

\* Every step of the loop keeps the age of the snapshot within its bound.
LEMMA PublishedStep ==
    ASSUME TypeOK, Published, [Next]_vars
    PROVE  Published'
<1> SUFFICES ASSUME clockSteps' = 0, snapshot' # NoData PROVE Published'
  BY DEF Published
<1>1. clockSteps = 0 /\ ~ClockSet
  BY ClockStepsGrow
<1>2. now \in Nat /\ snapshot \in Nat \cup {NoData} /\ MaxSleep \in Nat
  BY MonitorAssumption DEF TypeOK
<1>3. CASE Poll
  <2>1. pc' = "write" /\ snapshot' = now /\ now' = now
    BY <1>3 DEF Poll, clock
  <2> QED
    BY <2>1 DEF Published
<1>4. CASE Start
  BY <1>4 DEF Start
<1>5. CASE ~Poll /\ ~Start
  <2>1. snapshot' = snapshot /\ snapshot \in Nat
    BY <1>1, <1>2, <1>5
       DEF Next, Connected, ConnectFails, PollRaises, Write, Display,
           DisplayRaises, RollupStep, PruneStep, RollupDailyStep,
           PruneDailyStep, Sleep, Interrupt, Shutdown, Killed, Ends, Published,
           vars, loopVars
  <2>2. /\ pc \in {"write", "display", "rollup", "prune", "rollupDaily",
                   "pruneDaily"} => snapshot = now
        /\ pc = "sleep" => now - snapshot <= Waits(missed)
        /\ pc \in {"top", "poll", "closing"}
              => now - snapshot <= Waits(missed + 1)
    BY <1>1, <2>1 DEF Published
  <2> USE <1>2, <2>1, <2>2, WaitsFacts
  <2>3. CASE Connected \/ Write \/ RollupStep \/ RollupDailyStep
    BY <2>3 DEF Connected, Write, RollupStep, RollupDailyStep, Published, clock,
                counters
  <2>4. CASE ConnectFails \/ PollRaises \/ DisplayRaises
    BY <2>4 DEF ConnectFails, PollRaises, DisplayRaises, SkipMaintenance,
                Published, clock
  <2>5. CASE Display
    BY <2>5 DEF Display, AfterRollup, Published, clock
  <2>6. CASE PruneStep \/ PruneDailyStep
    BY <2>6 DEF PruneStep, PruneDailyStep, AfterRollup, Published, clock,
                counters
  <2>7. CASE Sleep
    BY <2>7 DEF Sleep, Published, counters
  <2>8. CASE Interrupt
    BY <2>8 DEF Interrupt, TypeOK, Labels, Published, clock, counters
  <2>9. CASE Shutdown \/ Killed
    BY <2>9 DEF Shutdown, Killed, Ends, Published
  <2>10. CASE UNCHANGED vars
    BY <2>10 DEF vars, loopVars, Published
  <2> QED
    BY <1>1, <1>5, <2>3, <2>4, <2>5, <2>6, <2>7, <2>8, <2>9, <2>10 DEF Next
<1> QED
  BY <1>3, <1>4, <1>5

\* What /api/telemetry serves is no older than the iterations that ended early
\* since it was polled, however the rest of those iterations went, and for
\* every poll interval: every completed poll is published before anything that
\* may raise.
THEOREM MonitorSnapshotAge == Spec => []SnapshotAge
<1>1. Init => Published
  BY DEF Init, Published
<1>2. TypeOK /\ Published /\ [Next]_vars => Published'
  BY PublishedStep
<1>3. ASSUME TypeOK, Published PROVE SnapshotAge
  <2> SUFFICES ASSUME clockSteps = 0, pc # "down", snapshot # NoData
               PROVE  now - snapshot <= (missed + 1) * MaxSleep
    BY DEF SnapshotAge
  <2>1. now \in Nat /\ snapshot \in Nat /\ MaxSleep \in Nat
    BY <1>3, MonitorAssumption DEF TypeOK
  <2>2. now - snapshot <= Waits(missed + 1)
    BY <1>3, <2>1, WaitsFacts DEF Published, TypeOK, Labels
  <2> QED
    BY <2>2 DEF Waits
<1> QED
  BY <1>1, <1>2, <1>3, MonitorTypeCorrect, PTL DEF Spec

-----------------------------------------------------------------------------
(* Undisturbed runs of the loop: without errors of the store, on a clock     *)
(* nobody sets.                                                              *)

\* The store is open as long as the process runs, with nothing pending.
Clean == Undisturbed => view = disk /\ (pc = "down" \/ Available)

\* In an undisturbed step the loop performs the operation it asks for: the
\* store is there and does not fail.
LEMMA UndisturbedStep ==
    ASSUME TypeOK, Clean, [Next]_vars, Undisturbed'
    PROVE  /\ Undisturbed
           /\ ~ClockSet
           /\ view = disk
           /\ Write => \E metrics \in SUBSET Metrics : WriteSample(now, metrics)
           /\ RollupStep => Rollup
           /\ PruneStep => Prune(now)
           /\ RollupDailyStep => RollupDaily
           /\ PruneDailyStep => PruneDaily(now)
           /\ Shutdown \/ Killed => Close \/ UNCHANGED storeVars
           /\ Start => Open
<1>1. clockSteps = 0 /\ ~ClockSet
  BY ClockStepsGrow DEF Undisturbed
<1>2. /\ faults \in Nat /\ faults' = 0
      /\ \A dbs : ~Fail(dbs)
      /\ ~OpenFails
  <2>1. faults \in Nat /\ faults' = 0
    BY DEF TypeOK, StoreTypeOK, Undisturbed
  <2>2. ASSUME NEW dbs PROVE ~Fail(dbs)
    BY <2>1 DEF Fail
  <2>3. ~OpenFails
    BY <2>1 DEF OpenFails
  <2> QED
    BY <2>1, <2>2, <2>3
<1>3. faults = 0
  <2>1. CASE Write
    BY <1>2, <2>1 DEF Write, WriteSample, WriteSampleFails, Commit, storeVars
  <2>2. CASE RollupStep \/ PruneStep
    BY <1>2, <2>2 DEF RollupStep, PruneStep, Rollup, RollupFails, Prune,
                      PruneFails, Commit, storeVars
  <2>3. CASE RollupDailyStep \/ PruneDailyStep
    BY <1>2, <2>3 DEF RollupDailyStep, PruneDailyStep, RollupDaily,
                      RollupDailyFails, PruneDaily, PruneDailyFails, Commit,
                      storeVars
  <2>4. CASE Shutdown \/ Killed \/ Start
    BY <1>2, <2>4 DEF Shutdown, Killed, Ends, Start, Close, Open, storeVars
  <2>5. CASE \/ Connected \/ ConnectFails \/ Poll \/ PollRaises \/ Display
             \/ DisplayRaises \/ Sleep \/ Interrupt \/ UNCHANGED vars
    BY <1>2, <2>5 DEF Connected, ConnectFails, Poll, PollRaises, Display,
                DisplayRaises, SkipMaintenance, Sleep, Interrupt, vars, storeVars
  <2> QED
    BY <1>1, <2>1, <2>2, <2>3, <2>4, <2>5 DEF Next
<1>4. Undisturbed /\ view = disk /\ (pc = "down" \/ Available)
  BY <1>1, <1>3 DEF Undisturbed, Clean
<1>5. Write => \E metrics \in SUBSET Metrics : WriteSample(now, metrics)
  BY <1>2, <1>4 DEF Write, WriteSampleFails
<1>6. (RollupStep => Rollup) /\ (PruneStep => Prune(now))
  BY <1>2, <1>4 DEF RollupStep, PruneStep, RollupFails, PruneFails
<1>7. (RollupDailyStep => RollupDaily) /\ (PruneDailyStep => PruneDaily(now))
  BY <1>2, <1>4 DEF RollupDailyStep, PruneDailyStep, RollupDailyFails,
                    PruneDailyFails
<1>8. Shutdown \/ Killed => Close \/ UNCHANGED storeVars
  BY DEF Shutdown, Killed, Ends
<1>9. Start => Open
  BY <1>2 DEF Start
<1> QED
  BY <1>1, <1>4, <1>5, <1>6, <1>7, <1>8, <1>9

\* The other steps leave the store alone.
LEMMA OtherSteps ==
    ASSUME \/ Connected \/ ConnectFails \/ Poll \/ PollRaises \/ Display
           \/ DisplayRaises \/ Sleep \/ Interrupt \/ UNCHANGED vars
    PROVE  UNCHANGED <<storeVars, lastRollup, lastDaily, restarts>>
BY DEF Connected, ConnectFails, Poll, PollRaises, Display, DisplayRaises,
       SkipMaintenance, Sleep, Interrupt, vars, loopVars, timers, counters

\* The store stays open and committed as long as nothing disturbs the loop.
LEMMA CleanStep ==
    ASSUME TypeOK, Clean, [Next]_vars
    PROVE  Clean'
<1> SUFFICES ASSUME Undisturbed' PROVE view' = disk' /\ (pc' = "down" \/ Available')
  BY DEF Clean
<1> USE UndisturbedStep
<1>1. pc = "down" \/ Available
  BY DEF Clean
<1>2. CASE Write
  BY <1>1, <1>2 DEF Write, WriteSample, Commit, Available
<1>3. CASE RollupStep \/ PruneStep
  BY <1>1, <1>3 DEF RollupStep, PruneStep, Rollup, Prune, Commit, Available
<1>4. CASE RollupDailyStep \/ PruneDailyStep
  BY <1>1, <1>4 DEF RollupDailyStep, PruneDailyStep, RollupDaily, PruneDaily,
                    Commit, Available
<1>5. CASE Shutdown \/ Killed
  BY <1>5 DEF Shutdown, Killed, Ends, Close, storeVars
<1>6. CASE Start
  BY <1>6 DEF Open, Available
<1>7. CASE \/ Connected \/ ConnectFails \/ Poll \/ PollRaises \/ Display
           \/ DisplayRaises \/ Sleep \/ Interrupt \/ UNCHANGED vars
  <2>1. pc = "down" => pc' = "down"
    BY <1>7 DEF Connected, ConnectFails, Poll, PollRaises, Display,
                DisplayRaises, Sleep, Interrupt, vars, loopVars
  <2> QED
    BY <1>1, <1>7, <2>1, OtherSteps DEF storeVars, Available
<1> QED
  BY <1>2, <1>3, <1>4, <1>5, <1>6, <1>7 DEF Next

-----------------------------------------------------------------------------
(* The age of the raw rows.  It is measured at last_rollup_time, which no    *)
(* step between two maintenance runs moves.                                  *)

\* No raw row is older than its retention and what past processes added.
Young ==
    Undisturbed =>
        \A s \in disk.raw : lastRollup - s.ts <= RawRetention + Past(restarts)

\* Every raw row older than what past processes added has been rolled up, and
\* between rollup and prune every raw row has.
Fresh ==
    Undisturbed =>
        /\ \A s \in disk.raw : lastRollup - s.ts > Past(restarts) => s \in rolled
        /\ pc = "prune" => disk.raw \subseteq rolled

AgeIInv == Timers /\ Clean /\ Young /\ Fresh

\* The types the arithmetic of the ages needs.
LEMMA AgeTypes ==
    ASSUME TypeOK, Timers, Undisturbed
    PROVE  /\ now \in Nat /\ lastRollup \in Nat /\ lastRollup <= now
           /\ now - lastRollup < Lag
           /\ Lag \in Nat /\ MaxDown \in Nat /\ RawRetention \in Nat
           /\ restarts \in Nat /\ Past(restarts) \in Nat
           /\ Past(restarts + 1) = Past(restarts) + Lag + MaxDown
           /\ \A s \in disk.raw : s.ts \in Nat
<1>1. /\ now \in Nat /\ lastRollup \in Nat /\ lastRollup <= now
      /\ MaxDown \in Nat /\ RawRetention \in Nat /\ restarts \in Nat
  BY MonitorAssumption, StoreAssumption DEF TypeOK, Undisturbed
<1>2. /\ Lag = RollupInterval + Waits(MaxMissed + 1)
      /\ Lag \in Nat /\ Past(restarts) \in Nat
      /\ Past(restarts + 1) = Past(restarts) + Lag + MaxDown
  BY <1>1, PastStep
<1>3. now - lastRollup < Lag
  BY <1>2 DEF Timers, OnTime, Undisturbed
<1>4. \A s \in disk.raw : s.ts \in Nat
  BY DEF TypeOK, StoreTypeOK, Database, Sample
<1> QED
  BY <1>1, <1>2, <1>3, <1>4

\* Every step of the loop keeps the ages of the raw rows within their bounds.
LEMMA AgeStep ==
    ASSUME TypeOK, TypeOK', AgeIInv, [Next]_vars
    PROVE  Young' /\ Fresh'
<1> SUFFICES ASSUME Undisturbed'
             PROVE  /\ \A s \in disk'.raw :
                          /\ lastRollup' - s.ts
                                <= RawRetention + Past(restarts')
                          /\ lastRollup' - s.ts > Past(restarts')
                                => s \in rolled'
                    /\ pc' = "prune" => disk'.raw \subseteq rolled'
  BY DEF Young, Fresh
<1>1. Undisturbed /\ ~ClockSet /\ view = disk
  BY UndisturbedStep DEF AgeIInv
<1>2. \A s \in disk.raw :
         /\ lastRollup - s.ts <= RawRetention + Past(restarts)
         /\ lastRollup - s.ts > Past(restarts) => s \in rolled
  BY <1>1 DEF AgeIInv, Young, Fresh
<1>3. pc = "prune" => disk.raw \subseteq rolled
  BY <1>1 DEF AgeIInv, Fresh
<1>4. /\ now \in Nat /\ lastRollup \in Nat /\ lastRollup <= now
      /\ now - lastRollup < Lag
      /\ Lag \in Nat /\ MaxDown \in Nat /\ RawRetention \in Nat
      /\ restarts \in Nat /\ Past(restarts) \in Nat
      /\ Past(restarts + 1) = Past(restarts) + Lag + MaxDown
      /\ \A s \in disk.raw : s.ts \in Nat
  BY <1>1, AgeTypes DEF AgeIInv
<1>5. disk \in Database /\ view \in Database
  BY DEF TypeOK, StoreTypeOK
<1>6. CASE Write
  <2>1. PICK metrics \in SUBSET Metrics : WriteSample(now, metrics)
    BY <1>6, UndisturbedStep DEF AgeIInv
  <2>2. /\ disk'.raw = disk.raw \cup {NewSample(now, metrics)}
        /\ rolled' = rolled
    BY <1>1, <1>5, <2>1, RawKept DEF WriteSample, Commit
  <2>3. lastRollup' = lastRollup /\ restarts' = restarts /\ pc' = "display"
    BY <1>6 DEF Write, timers, counters
  <2>4. NewSample(now, metrics).ts = now
    BY DEF NewSample
  <2> QED
    BY <1>2, <1>4, <2>2, <2>3, <2>4
<1>7. CASE RollupStep
  <2>1. Rollup
    BY <1>7, UndisturbedStep DEF AgeIInv
  <2>2. disk'.raw = disk.raw /\ rolled' = disk.raw
    BY <1>1, <1>5, <2>1, RawKept DEF Rollup, Commit
  <2>3. lastRollup' = lastRollup /\ restarts' = restarts
    BY <1>7 DEF RollupStep, timers, counters
  <2> QED
    BY <1>2, <2>2, <2>3
<1>8. CASE PruneStep
  <2>1. Prune(now)
    BY <1>8, UndisturbedStep DEF AgeIInv
  <2>2. /\ disk'.raw = {s \in disk.raw : s.ts >= now - RawRetention}
        /\ rolled' = {s \in rolled : s.ts >= now - RawRetention}
    BY <1>1, <1>5, <2>1 DEF Prune, Commit, Pruned, RawPruned, Unexpired, Database
  <2>3. lastRollup' = now /\ restarts' = restarts /\ pc' # "prune"
    BY <1>1, <1>8
       DEF PruneStep, AgeIInv, Timers, Undisturbed, AfterRollup, counters
  <2> QED
    BY <1>3, <1>4, <1>8, <2>2, <2>3 DEF PruneStep
<1>9. CASE RollupDailyStep \/ PruneDailyStep
  <2>1. RollupDaily \/ PruneDaily(now)
    BY <1>9, UndisturbedStep DEF AgeIInv
  <2>2. disk'.raw = disk.raw /\ rolled' = rolled
    BY <1>1, <1>5, <2>1, RawKept DEF RollupDaily, PruneDaily, Commit
  <2>3. lastRollup' = lastRollup /\ restarts' = restarts /\ pc' # "prune"
    BY <1>9 DEF RollupDailyStep, PruneDailyStep, timers, counters
  <2> QED
    BY <1>2, <2>2, <2>3
<1>10. CASE Shutdown \/ Killed
  <2>1. disk' = disk /\ rolled' = rolled
    BY <1>10 DEF Shutdown, Killed, Ends, Close, storeVars
  <2>2. lastRollup' = lastRollup /\ restarts' = restarts /\ pc' # "prune"
    BY <1>10 DEF Shutdown, Killed, Ends, timers, counters
  <2> QED
    BY <1>2, <2>1, <2>2
<1>11. CASE Start
  <2>1. disk' = disk /\ rolled' = rolled
    BY <1>11, UndisturbedStep DEF AgeIInv, Open
  <2>2. PICK t \in Nat : /\ lastRollup' = t
                         /\ now <= t /\ t <= now + MaxDown
    BY <1>4, <1>11 DEF Start
  <2>3. restarts' = restarts + 1 /\ pc' = "top"
    BY <1>11 DEF Start
  <2>4. ASSUME NEW s \in disk.raw
        PROVE  /\ t - s.ts <= RawRetention + Past(restarts + 1)
               /\ t - s.ts > Past(restarts + 1) => s \in rolled
    BY <1>2, <1>4, <2>2
  <2> QED
    BY <2>1, <2>2, <2>3, <2>4
<1>12. CASE \/ Connected \/ ConnectFails \/ Poll \/ PollRaises \/ Display
            \/ DisplayRaises \/ Sleep \/ Interrupt \/ UNCHANGED vars
  <2>1. UNCHANGED <<disk, rolled, lastRollup, restarts>>
    BY <1>12, OtherSteps DEF storeVars
  <2>2. pc' = "prune" => pc = "prune"
    BY <1>12 DEF Connected, ConnectFails, Poll, PollRaises, Display,
                DisplayRaises, SkipMaintenance, Sleep, Interrupt, AfterRollup,
                vars, loopVars
  <2> QED
    BY <1>2, <1>3, <2>1, <2>2
<1> QED
  BY <1>1, <1>6, <1>7, <1>8, <1>9, <1>10, <1>11, <1>12 DEF Next

\* The bounds on the ages hold along every behaviour of the process.
LEMMA AgeInvariant == Spec => []AgeIInv
<1>1. Init => AgeIInv
  BY TimersInit
     DEF Init, StoreInit, EmptyDatabase, AgeIInv, Clean, Available, Young, Fresh
<1>2. TypeOK /\ TypeOK' /\ AgeIInv /\ [Next]_vars => AgeIInv'
  BY TimersStep, CleanStep, AgeStep DEF AgeIInv
<1> QED
  BY <1>1, <1>2, MonitorTypeCorrect, PTL DEF Spec

\* The raw table is bounded in age: without errors of the store and settings of
\* the clock a row outlives its retention by one maintenance lag and outage per
\* process, for every interval, poll interval and number of restarts.
THEOREM MonitorRawAge == Spec => []RawAgeBounded
<1>1. ASSUME TypeOK, AgeIInv PROVE RawAgeBounded
  <2> SUFFICES ASSUME Undisturbed, NEW s \in disk.raw
               PROVE  now - s.ts < RawRetention + Past(restarts + 1)
    BY <1>1, PastStep DEF RawAgeBounded, TypeOK
  <2>1. lastRollup - s.ts <= RawRetention + Past(restarts)
    BY <1>1 DEF AgeIInv, Young
  <2> QED
    BY <1>1, <2>1, AgeTypes DEF AgeIInv
<1> QED
  BY <1>1, MonitorTypeCorrect, AgeInvariant, PTL

\* The 15-minute series lags the samples by no more than one maintenance lag
\* and outage per process: an older sample is in the durable row of its bucket,
\* for every bucket, interval and poll interval.
THEOREM MonitorRollupTimely == Spec => []RollupTimely
<1>1. ASSUME TypeOK, AgeIInv, RolledStaysVisible PROVE RollupTimely
  <2> SUFFICES ASSUME Undisturbed, NEW s \in disk.raw,
                      now - s.ts >= Past(restarts + 1)
               PROVE  s \in rolled
    BY <1>1, PastStep DEF RollupTimely, RolledStaysVisible, TypeOK
  <2>1. lastRollup - s.ts > Past(restarts) => s \in rolled
    BY <1>1 DEF AgeIInv, Fresh
  <2> QED
    BY <1>1, <2>1, AgeTypes DEF AgeIInv
<1>2. Spec => []RolledStaysVisible
  BY MonitorImplementsStore, RolledVisibility, PTL
<1> QED
  BY <1>1, <1>2, MonitorTypeCorrect, AgeInvariant, PTL

-----------------------------------------------------------------------------
(* The 15-minute rows and the daily series, within one process. *)

Summarised(r) == CoveredByDaily(KeyOf(r), disk.daily)

\* A row that the daily series does not have yet belongs to samples later than
\* the last daily rollup, or than the 15-minute rollup before that.
Recent(r) == lastDaily + 2 <= r.bucket + RollupInterval + RollupBucket

\* No row is past its retention at the last maintenance; each is recent or
\* summarised; and all are between rollup_daily and prune_daily.
SummaryIInv ==
    Undisturbed /\ restarts = 0 =>
        /\ \A r \in disk.rollup : /\ lastRollup <= r.bucket + RollupRetention
                                  /\ Recent(r) \/ Summarised(r)
        /\ pc = "pruneDaily" => \A r \in disk.rollup : Summarised(r)

\* A row's samples end at most one bucket width after it begins.
LEMMA RollupRowSample ==
    ASSUME NEW raw \in SUBSET Sample, NEW r \in RollupRows(raw, Metrics)
    PROVE  /\ r.bucket \in Nat
           /\ \E s \in raw : /\ s.ts \in Nat
                             /\ s.ts < r.bucket + RollupBucket
                             /\ r.bucket = BucketStart(s.ts, RollupBucket)
                             /\ r.metric \in s.metrics
<1>1. /\ r \in RollupRow /\ RollupRowSound(r)
      /\ r.src = RawGroup(raw, r.bucket, r.metric)
  BY RollupRowsSound
<1>2. PICK s \in r.src : /\ BucketStart(s.ts, RollupBucket) = r.bucket
                         /\ r.metric \in s.metrics
  BY <1>1 DEF RollupRowSound
<1>3. s \in raw /\ s.ts \in Nat
  BY <1>1, <1>2 DEF RawGroup, Sample
<1>4. s.ts < r.bucket + RollupBucket
  BY <1>2, <1>3, BucketStartBounds, StoreAssumption
<1> QED
  BY <1>1, <1>2, <1>3, <1>4 DEF RollupRow

\* A rollup adds only rows that are recent or were summarised before: a sample
\* rolled up before has a row of the same key, and the others are as recent as
\* the last maintenance.
LEMMA RollupKeepsSummary ==
    ASSUME StoreIInv, TypeOK, AgeIInv, SummaryIInv, Undisturbed, restarts = 0,
           view = disk, NEW r \in RollupRows(disk.raw, Metrics)
    PROVE  /\ lastRollup <= r.bucket + RollupRetention
           /\ Recent(r) \/ Summarised(r)
<1>1. disk.raw \in SUBSET Sample
  BY DEF TypeOK, StoreTypeOK, Database
<1>2. PICK s \in disk.raw : /\ s.ts \in Nat
                            /\ s.ts < r.bucket + RollupBucket
                            /\ r.bucket = BucketStart(s.ts, RollupBucket)
                            /\ r.metric \in s.metrics
  BY <1>1, RollupRowSample
<1>3. /\ r.bucket \in Nat /\ lastRollup \in Nat /\ lastDaily \in Nat
      /\ RollupInterval \in Nat /\ RollupBucket \in Nat
      /\ RawRetention \in Nat /\ RollupRetention \in Nat
      /\ RollupRetention >= RawRetention + RollupBucket
      /\ lastDaily < lastRollup + RollupInterval
  BY <1>1, RollupRowSample, MonitorAssumption, StoreAssumption
     DEF TypeOK, AgeIInv, Timers, Undisturbed
<1>4. /\ lastRollup - s.ts <= RawRetention
      /\ lastRollup - s.ts > 0 => s \in rolled
  <2>1. Past(restarts) = 0
    BY PastStep
  <2>2. /\ lastRollup - s.ts <= RawRetention + Past(restarts)
        /\ lastRollup - s.ts > Past(restarts) => s \in rolled
    BY <1>2 DEF AgeIInv, Young, Fresh
  <2> QED
    BY <2>1, <2>2, <1>3
<1>5. lastRollup <= r.bucket + RollupRetention
  BY <1>2, <1>3, <1>4
<1>6. CASE s \in rolled
  <2>1. PICK old \in disk.rollup : old.bucket = r.bucket /\ old.metric = r.metric
    BY <1>2, <1>6 DEF StoreIInv, Good, CoveredByRollup
  <2>2. Recent(old) \/ Summarised(old)
    BY <2>1 DEF SummaryIInv
  <2>3. Recent(r) \/ Summarised(r)
    BY <2>1, <2>2 DEF Recent, Summarised, KeyOf
  <2> QED
    BY <1>5, <2>3
<1>7. CASE s \notin rolled
  <2>1. Recent(r)
    BY <1>2, <1>3, <1>4, <1>7 DEF Recent
  <2> QED
    BY <1>5, <2>1
<1> QED
  BY <1>6, <1>7

\* A row that a prune takes away has been summarised: what is not is recent, and
\* the daily timer is on time.
LEMMA ExpiredIsSummarised ==
    ASSUME TypeOK, AgeIInv, SummaryIInv, Undisturbed, restarts = 0,
           NEW r \in disk.rollup, ~(r.bucket >= now - RollupRetention)
    PROVE  Summarised(r)
<1>1. now - lastDaily < DailyInterval + Waits(MaxMissed + 1)
  BY DEF AgeIInv, Timers, OnTime, Undisturbed
<1>2. /\ r.bucket \in Nat /\ now \in Nat /\ lastDaily \in Nat
      /\ RollupInterval \in Nat /\ RollupBucket \in Nat /\ DailyInterval \in Nat
      /\ RollupRetention \in Nat /\ Waits(MaxMissed + 1) \in Nat
  BY MonitorAssumption, StoreAssumption, WaitsFacts
     DEF TypeOK, StoreTypeOK, Database, RollupRow
<1>3. DailyInterval + Waits(MaxMissed + 1) + RollupInterval + RollupBucket
         <= RollupRetention + 3
  BY MaintenanceAssumption DEF Waits
<1>4. ~Recent(r)
  BY <1>1, <1>2, <1>3 DEF Recent
<1> QED
  BY <1>4 DEF SummaryIInv

\* The daily rows of the rows that a maintenance leaves are within retention.
LEMMA PruneDailyKeepsSummary ==
    ASSUME TypeOK, AgeIInv, SummaryIInv, Undisturbed, restarts = 0,
           pc = "pruneDaily", NEW r \in disk.rollup
    PROVE  CoveredByDaily(KeyOf(r), DailyPruned(disk, now).daily)
<1>1. PICK d \in disk.daily : /\ d.bucket = BucketStart(r.bucket, DailyBucket)
                              /\ d.metric = r.metric
                              /\ \E q \in d.src : KeyOf(q) = KeyOf(r)
  BY DEF SummaryIInv, Summarised, CoveredByDaily, KeyOf
<1>2. /\ r.bucket \in Nat /\ now \in Nat /\ lastRollup \in Nat
      /\ RollupInterval \in Nat /\ DailyBucket \in Nat \ {0}
      /\ RollupRetention \in Nat /\ DailyRetention \in Nat
  BY MonitorAssumption, StoreAssumption
     DEF TypeOK, StoreTypeOK, Database, RollupRow
<1>3. d.bucket \in Nat /\ r.bucket < d.bucket + DailyBucket
  BY <1>1, <1>2, BucketStartBounds
<1>4. /\ now - lastRollup < RollupInterval
      /\ lastRollup <= r.bucket + RollupRetention
  BY DEF AgeIInv, Timers, Undisturbed, SummaryIInv
<1>5. d.bucket >= now - DailyRetention
  BY <1>2, <1>3, <1>4, MaintenanceAssumption
<1>6. d \in DailyPruned(disk, now).daily
  BY <1>1, <1>5 DEF DailyPruned, TypeOK, StoreTypeOK, Database
<1> QED
  BY <1>1, <1>6 DEF CoveredByDaily, KeyOf

\* Every step of the loop keeps what is not summarised recent.
LEMMA SummaryStep ==
    ASSUME StoreIInv, TypeOK, TypeOK', AgeIInv, SummaryIInv, [Next]_vars
    PROVE  SummaryIInv'
<1> SUFFICES ASSUME Undisturbed', restarts' = 0
             PROVE  /\ \A r \in disk'.rollup :
                          /\ lastRollup' <= r.bucket + RollupRetention
                          /\ Recent(r)' \/ Summarised(r)'
                    /\ pc' = "pruneDaily"
                          => \A r \in disk'.rollup : Summarised(r)'
  BY DEF SummaryIInv
<1>1. Undisturbed /\ ~ClockSet /\ view = disk
  BY UndisturbedStep DEF AgeIInv
<1>2. restarts = 0 /\ ~Start
  <2>1. restarts \in Nat
    BY DEF TypeOK
  <2>2. CASE Start
    BY <2>1, <2>2 DEF Start
  <2>3. CASE ~Start
    BY <1>1, <2>3 DEF Next, Connected, ConnectFails, Poll, PollRaises, Write,
                Display, DisplayRaises, RollupStep, PruneStep, RollupDailyStep,
                PruneDailyStep, Sleep, Interrupt, Shutdown, Killed, Ends,
                SkipMaintenance, counters, vars, loopVars
  <2> QED
    BY <2>2, <2>3
<1>3. /\ \A r \in disk.rollup : /\ lastRollup <= r.bucket + RollupRetention
                                /\ Recent(r) \/ Summarised(r)
      /\ pc = "pruneDaily" => \A r \in disk.rollup : Summarised(r)
  BY <1>1, <1>2 DEF SummaryIInv
<1>4. disk \in Database /\ view \in Database
  BY DEF TypeOK, StoreTypeOK
<1>5. CASE UNCHANGED <<lastRollup, lastDaily>> /\ pc' # "pruneDaily"
           /\ disk'.rollup = disk.rollup /\ disk'.daily = disk.daily
  BY <1>3, <1>5 DEF Recent, Summarised
<1>6. CASE Write
  <2>1. PICK metrics \in SUBSET Metrics : WriteSample(now, metrics)
    BY <1>6, UndisturbedStep DEF AgeIInv
  <2>2. disk'.rollup = disk.rollup /\ disk'.daily = disk.daily
    BY <1>1, <1>4, <2>1 DEF WriteSample, Commit, Insert, Database
  <2> QED
    BY <1>5, <1>6, <2>2 DEF Write, timers
<1>7. CASE RollupStep
  <2>1. Rollup
    BY <1>7, UndisturbedStep DEF AgeIInv
  <2>2. /\ disk'.rollup \subseteq disk.rollup \cup RollupRows(disk.raw, Metrics)
        /\ disk'.daily = disk.daily
    BY <1>1, <1>4, <2>1 DEF Rollup, Commit, RolledUp, Upsert, Database
  <2>3. UNCHANGED <<lastRollup, lastDaily>> /\ pc' = "prune"
    BY <1>7 DEF RollupStep, timers
  <2>4. \A r \in RollupRows(disk.raw, Metrics) :
           /\ lastRollup <= r.bucket + RollupRetention
           /\ Recent(r) \/ Summarised(r)
    BY <1>1, <1>2, RollupKeepsSummary
  <2> QED
    BY <1>3, <2>2, <2>3, <2>4 DEF Recent, Summarised
<1>8. CASE PruneStep
  <2>1. Prune(now)
    BY <1>8, UndisturbedStep DEF AgeIInv
  <2>2. /\ disk'.rollup = {r \in disk.rollup : r.bucket >= now - RollupRetention}
        /\ disk'.daily = disk.daily
    BY <1>1, <1>4, <2>1 DEF Prune, Commit, Pruned, RawPruned, Database
  <2>3. lastRollup' = now /\ lastDaily' = lastDaily /\ pc' # "pruneDaily"
    BY <1>1, <1>8 DEF PruneStep, AgeIInv, Timers, Undisturbed, AfterRollup
  <2>4. ASSUME NEW r \in disk.rollup, r.bucket >= now - RollupRetention
        PROVE  now <= r.bucket + RollupRetention
    BY <1>4, <2>4, MonitorAssumption, StoreAssumption
       DEF TypeOK, Database, RollupRow
  <2> QED
    BY <1>3, <2>2, <2>3, <2>4 DEF Recent, Summarised
<1>9. CASE RollupDailyStep
  <2>1. RollupDaily
    BY <1>9, UndisturbedStep DEF AgeIInv
  <2>2. disk' = DailyRolledUp(disk, Metrics) /\ disk'.rollup = disk.rollup
    BY <1>1, <1>4, <2>1 DEF RollupDaily, Commit, DailyRolledUp, Database
  <2>3. \A r \in disk.rollup : CoveredByDaily(KeyOf(r), disk'.daily)
    BY <1>4, <2>2, DailyRolledUpCovers DEF StoreIInv, Good
  <2>4. UNCHANGED <<lastRollup, lastDaily>>
    BY <1>9 DEF RollupDailyStep, timers
  <2> QED
    BY <1>3, <2>2, <2>3, <2>4 DEF Summarised
<1>10. CASE PruneDailyStep
  <2>1. PruneDaily(now)
    BY <1>10, UndisturbedStep DEF AgeIInv
  <2>2. disk' = DailyPruned(disk, now) /\ disk'.rollup = disk.rollup
    BY <1>1, <1>4, <2>1 DEF PruneDaily, Commit, DailyPruned, Database
  <2>3. \A r \in disk.rollup : CoveredByDaily(KeyOf(r), disk'.daily)
    BY <1>1, <1>2, <1>10, <2>2, PruneDailyKeepsSummary DEF PruneDailyStep
  <2>4. lastRollup' = lastRollup
    BY <1>10 DEF PruneDailyStep
  <2> QED
    BY <1>3, <2>2, <2>3, <2>4 DEF Summarised
<1>11. CASE Shutdown \/ Killed
  BY <1>5, <1>11 DEF Shutdown, Killed, Ends, Close, timers, storeVars
<1>12. CASE \/ Connected \/ ConnectFails \/ Poll \/ PollRaises \/ Display
            \/ DisplayRaises \/ Sleep \/ Interrupt
  <2>1. pc' # "pruneDaily"
    BY <1>12 DEF Connected, ConnectFails, Poll, PollRaises, Display,
                DisplayRaises, SkipMaintenance, Sleep, Interrupt, AfterRollup
  <2> QED
    BY <1>5, <1>12, <2>1, OtherSteps DEF storeVars
<1>13. CASE UNCHANGED vars
  BY <1>3, <1>13 DEF Recent, Summarised, vars, loopVars, storeVars
<1> QED
  BY <1>1, <1>2, <1>6, <1>7, <1>8, <1>9, <1>10, <1>11, <1>12, <1>13 DEF Next

\* The summaries are in order along every behaviour of the process.
LEMMA SummaryInvariant == Spec => []SummaryIInv
<1>1. Init => SummaryIInv
  BY DEF Init, StoreInit, EmptyDatabase, SummaryIInv
<1>2. StoreIInv /\ LoopIInv /\ LoopIInv' /\ AgeIInv /\ SummaryIInv /\ [Next]_vars
         => SummaryIInv'
  BY SummaryStep DEF LoopIInv
<1> QED
  BY <1>1, <1>2, MonitorInvariant, AgeInvariant, PTL DEF Spec

\* Within one process, without errors of the store and settings of the clock, no
\* row leaves the 15-minute series before the daily series has its key: the
\* dependency of design-b7c8d9e0 follows from the order of main.py's two
\* maintenances, for all retentions that leave room for them.
THEOREM MonitorSummarised == Spec => SummarisedWithoutRestart
<1> DEFINE Safe == restarts = 0 /\ Undisturbed =>
                      \A r \in disk.rollup :
                         (\A q \in disk'.rollup : KeyOf(q) # KeyOf(r))
                            => CoveredByDaily(KeyOf(r), disk.daily)
<1>1. ASSUME StoreIInv, LoopIInv, AgeIInv, SummaryIInv, [Next]_vars
      PROVE  [Safe]_vars
  <2> SUFFICES ASSUME restarts = 0, Undisturbed, NEW r \in disk.rollup,
                      \A q \in disk'.rollup : KeyOf(q) # KeyOf(r)
               PROVE  CoveredByDaily(KeyOf(r), disk.daily)
    OBVIOUS
  <2>1. TypeOK /\ disk \in Database /\ view = disk
    BY <1>1 DEF LoopIInv, TypeOK, StoreTypeOK, AgeIInv, Clean
  <2>2. ~(disk.rollup \subseteq disk'.rollup)
    OBVIOUS
  <2>3. CASE PruneStep
    <3>1. Prune(now)
      BY <2>2, <2>3 DEF PruneStep, PruneFails, Fail, storeVars
    <3>2. disk'.rollup = {q \in disk.rollup : q.bucket >= now - RollupRetention}
      BY <2>1, <3>1 DEF Prune, Commit, Pruned, RawPruned, Database
    <3>3. Summarised(r)
      BY <1>1, <2>1, <3>2, ExpiredIsSummarised
    <3> QED
      BY <3>3 DEF Summarised
  <2>4. CASE RollupStep
    <3>1. Rollup
      BY <2>2, <2>4 DEF RollupStep, RollupFails, Fail, storeVars
    <3>2. disk'.rollup = Upsert(disk.rollup, RollupRows(disk.raw, Metrics))
      BY <2>1, <3>1 DEF Rollup, Commit, RolledUp, Database
    <3> QED
      BY <3>2 DEF Upsert
  <2>5. CASE Write
    BY <2>1, <2>2, <2>5
       DEF Write, WriteSample, WriteSampleFails, Commit, Fail, Insert, Database,
           storeVars
  <2>6. CASE RollupDailyStep \/ PruneDailyStep
    BY <2>1, <2>2, <2>6
       DEF RollupDailyStep, PruneDailyStep, RollupDaily, RollupDailyFails,
           PruneDaily, PruneDailyFails, DailyRolledUp, DailyPruned, Commit, Fail,
           Database, storeVars
  <2>7. CASE Shutdown \/ Killed \/ Start
    BY <2>2, <2>7 DEF Shutdown, Killed, Ends, Start, Close, Open, OpenFails, storeVars
  <2>8. CASE ClockSet
    BY <2>2, <2>8 DEF ClockSet, storeVars
  <2>9. CASE \/ Connected \/ ConnectFails \/ Poll \/ PollRaises \/ Display
             \/ DisplayRaises \/ Sleep \/ Interrupt \/ UNCHANGED vars
    BY <2>2, <2>9, OtherSteps DEF storeVars
  <2> QED
    BY <1>1, <2>3, <2>4, <2>5, <2>6, <2>7, <2>8, <2>9 DEF Next
<1>2. Spec => [][Safe]_vars
  BY <1>1, MonitorInvariant, AgeInvariant, SummaryInvariant, PTL DEF Spec
<1> QED
  BY <1>2 DEF SummarisedWithoutRestart
===============================================================================
