-------------------------------- MODULE Monitor --------------------------------
(****************************************************************************)
(* The monitoring process, main() in src/src/solax_modbus/main.py, composed *)
(* with the history store it owns.                                          *)
(*                                                                          *)
(* One iteration of the loop connects if needed, polls the inverter, writes *)
(* a sample, prints, and, when the wall clock says so, rolls up and prunes. *)
(* "pc" is where the main thread stands; time passes while it sleeps and    *)
(* while the process is down.  The process may be killed between any two    *)
(* steps (the systemd unit of src/bin/install.sh stops it with SIGTERM, for *)
(* which main() has no handler) and is then started again on the same file. *)
(****************************************************************************)
EXTENDS TimeSeriesStore

CONSTANTS
    RollupInterval,     \* ROLLUP_INTERVAL_SECONDS
    DailyInterval,      \* DAILY_ROLLUP_INTERVAL_SECONDS
    MaxTime,            \* bound: last reading of the clock
    MaxSleep,           \* bound: longest time between two iterations
    MaxMissed,          \* bound: iterations in a row that skip maintenance
    MaxRestarts,        \* bound: restarts of the process
    MaxDown,            \* bound: time the process is down before a restart
    MaxClockSteps       \* bound: times somebody sets the wall clock

ASSUME MonitorAssumption ==
    /\ RollupInterval \in Nat \ {0}
    /\ DailyInterval \in Nat \ {0}
    /\ MaxTime \in Nat
    /\ 0..MaxTime \subseteq Times
    /\ MaxSleep \in Nat \ {0}
    /\ MaxMissed \in Nat
    /\ MaxRestarts \in Nat
    /\ MaxDown \in Nat
    /\ MaxClockSteps \in Nat

\* The retentions leave room for the maintenance that summarises a row before
\* it expires: 30 days against a daily timer, the iterations that may end early
\* in a row (28 days of them), one 15-minute timer and bucket; and 365 days
\* against 30 and the day a row belongs to.  Only SummarisedWithoutRestart needs
\* it.
ASSUME MaintenanceAssumption ==
    /\ DailyInterval + (MaxMissed + 1) * MaxSleep
          + RollupInterval + RollupBucket <= RollupRetention + 3
    /\ RollupRetention + DailyBucket + RollupInterval <= DailyRetention + 2

VARIABLES
    pc,             \* where the main thread is
    now,            \* the wall clock
    checked,        \* the local "now", read after display_statistics
    socketOpen,     \* client.client is set and its socket is open
    snapshot,       \* StateHolder: time of the last poll published, if any
    lastRollup,     \* last_rollup_time
    lastDaily,      \* last_daily_rollup_time
    missed,         \* iterations in a row that ended before maintenance
    restarts,       \* starts after the first one
    rollupFailed,   \* history: the last rollup of the store ended in an error
    clockSteps      \* history: times the wall clock was set

loopVars == <<pc, now, checked, socketOpen, snapshot, lastRollup, lastDaily,
              missed, restarts, rollupFailed, clockSteps>>
vars == <<storeVars, loopVars>>
clock == <<now, clockSteps>>
timers == <<checked, lastRollup, lastDaily>>
counters == <<missed, restarts>>

NoData == -1        \* an empty snapshot

Labels == {"top", "poll", "write", "display", "rollup", "prune",
           "rollupDaily", "pruneDaily", "sleep", "closing", "down"}

-----------------------------------------------------------------------------
\* Top of the loop.

\* The socket is open already, or one of connect()'s attempts succeeds.
Connected ==
    /\ pc = "top"
    /\ pc' = "poll"
    /\ socketOpen' = TRUE
    /\ UNCHANGED <<storeVars, clock, timers, counters, snapshot, rollupFailed>>

\* An iteration ends without reaching maintenance.
SkipMaintenance ==
    /\ missed < MaxMissed
    /\ missed' = missed + 1
    /\ pc' = "sleep"
    /\ UNCHANGED <<storeVars, clock, timers, restarts, rollupFailed>>

\* Every attempt fails: log, sleep, "continue".
ConnectFails ==
    /\ pc = "top"
    /\ ~socketOpen
    /\ SkipMaintenance
    /\ UNCHANGED <<socketOpen, snapshot>>

\* Mutant of Poll: the poll is published only if the inverter was reachable
\* to its end.
Poll_PublishConnected ==
    /\ pc = "poll"
    /\ socketOpen' \in BOOLEAN
    /\ snapshot' = IF socketOpen' THEN now ELSE snapshot
    /\ pc' = "write"
    /\ UNCHANGED <<storeVars, clock, timers, counters, rollupFailed>>

\* poll_inverter returns what it could read, possibly nothing at all, and
\* state.set publishes it.  The connection may have broken meanwhile.
Poll ==
    /\ pc = "poll"
    /\ socketOpen' \in BOOLEAN
    /\ snapshot' = now
    /\ pc' = "write"
    /\ UNCHANGED <<storeVars, clock, timers, counters, rollupFailed>>

\* A response of unexpected length raises in poll_inverter, before state.set.
PollRaises ==
    /\ pc = "poll"
    /\ SkipMaintenance
    /\ UNCHANGED <<socketOpen, snapshot>>

\* store.write_sample(data); "metrics" are those read and within range.
Write ==
    /\ pc = "write"
    /\ \/ \E metrics \in SUBSET Metrics :
             WriteSample(now, metrics) \/ WriteSampleFails(now, metrics)
       \/ ~Available /\ UNCHANGED storeVars
    /\ pc' = "display"
    /\ UNCHANGED <<clock, timers, counters, socketOpen, snapshot, rollupFailed>>

\* Mutant of RollupDue: the interval of the daily timer.
RollupDue_DailyInterval == checked' - lastRollup >= DailyInterval

RollupDue == checked' - lastRollup >= RollupInterval

\* Where the loop goes once the 15-minute maintenance is behind it, by the
\* clock reading the iteration took before it.
AfterRollup ==
    IF checked' - lastDaily >= DailyInterval THEN "rollupDaily" ELSE "sleep"

\* Mutant of Display: prune before rollup, which is then skipped.
Display_PruneFirst ==
    /\ pc = "display"
    /\ checked' = now
    /\ pc' = IF RollupDue THEN "prune" ELSE AfterRollup
    /\ missed' = 0
    /\ UNCHANGED <<storeVars, clock, lastRollup, lastDaily, restarts,
                   socketOpen, snapshot, rollupFailed>>

\* display_statistics, "now = time.time()", and the test of the first timer.
Display ==
    /\ pc = "display"
    /\ checked' = now
    /\ pc' = IF RollupDue THEN "rollup" ELSE AfterRollup
    /\ missed' = 0
    /\ UNCHANGED <<storeVars, clock, lastRollup, lastDaily, restarts,
                   socketOpen, snapshot, rollupFailed>>

\* Printing raises (a closed pipe, an unencodable character): the exception
\* handler of the loop sleeps and starts over.
DisplayRaises ==
    /\ pc = "display"
    /\ SkipMaintenance
    /\ UNCHANGED <<socketOpen, snapshot>>

\* store.rollup(); a store that could not be opened is skipped.
RollupStep ==
    /\ pc = "rollup"
    /\ \/ Rollup /\ rollupFailed' = FALSE
       \/ RollupFails /\ rollupFailed' = TRUE
       \/ ~Available /\ UNCHANGED <<storeVars, rollupFailed>>
    /\ pc' = "prune"
    /\ UNCHANGED <<clock, timers, counters, socketOpen, snapshot>>

\* store.prune(), which reads the clock itself, whatever became of the rollup;
\* then the timer is reset to the reading taken before both.
PruneStep ==
    /\ pc = "prune"
    /\ \/ Prune(now) \/ PruneFails(now)
       \/ ~Available /\ UNCHANGED storeVars
    /\ lastRollup' = checked
    /\ UNCHANGED checked
    /\ pc' = AfterRollup
    /\ UNCHANGED <<clock, lastDaily, counters, socketOpen, snapshot,
                   rollupFailed>>

RollupDailyStep ==
    /\ pc = "rollupDaily"
    /\ \/ RollupDaily \/ RollupDailyFails
       \/ ~Available /\ UNCHANGED storeVars
    /\ pc' = "pruneDaily"
    /\ UNCHANGED <<clock, timers, counters, socketOpen, snapshot, rollupFailed>>

PruneDailyStep ==
    /\ pc = "pruneDaily"
    /\ \/ PruneDaily(now) \/ PruneDailyFails(now)
       \/ ~Available /\ UNCHANGED storeVars
    /\ lastDaily' = checked
    /\ pc' = "sleep"
    /\ UNCHANGED <<clock, checked, lastRollup, counters, socketOpen, snapshot,
                   rollupFailed>>

\* time.sleep(poll_interval).
Sleep ==
    /\ pc = "sleep"
    /\ \E d \in 1..MaxSleep : now' = now + d
    /\ now' <= MaxTime
    /\ pc' = "top"
    /\ checked' = 0                     \* not read before it is set again
    /\ UNCHANGED <<storeVars, clockSteps, lastRollup, lastDaily, counters,
                   socketOpen, snapshot, rollupFailed>>

\* Somebody (an operator, NTP) sets the wall clock, forward or back, at any
\* moment of an iteration or while the process is down.
ClockSet ==
    /\ clockSteps < MaxClockSteps
    /\ clockSteps' = clockSteps + 1
    /\ now' \in 0..MaxTime \ {now}
    /\ UNCHANGED <<storeVars, pc, timers, counters, socketOpen, snapshot,
                   rollupFailed>>

-----------------------------------------------------------------------------
\* The end of the process and its next start.

\* KeyboardInterrupt, wherever the loop is: the finally block begins.
Interrupt ==
    /\ pc \notin {"closing", "down"}
    /\ restarts < MaxRestarts
    /\ pc' = "closing"
    /\ UNCHANGED <<storeVars, clock, timers, counters, socketOpen, snapshot,
                   rollupFailed>>

\* The process is gone, and with it its connection and an open transaction.
Ends ==
    /\ Close \/ (~Available /\ UNCHANGED storeVars)
    /\ pc' = "down"
    /\ socketOpen' = FALSE
    /\ UNCHANGED <<clock, timers, counters, snapshot, rollupFailed>>

\* store.close(), client.disconnect(), exit.
Shutdown == pc = "closing" /\ Ends

\* SIGTERM, SIGKILL, power loss.
Killed == pc # "down" /\ restarts < MaxRestarts /\ Ends

\* Mutant of Start: the timers hold the next deadline, not the last run.
Start_Deadlines ==
    /\ pc = "down"
    /\ restarts' = restarts + 1
    /\ Open \/ OpenFails
    /\ \E d \in 0..MaxDown : now' = now + d
    /\ now' <= MaxTime
    /\ pc' = "top"
    /\ socketOpen' = FALSE
    /\ snapshot' = NoData
    /\ lastRollup' = now' + RollupInterval
    /\ lastDaily' = now' + DailyInterval
    /\ checked' = 0
    /\ missed' = 0
    /\ UNCHANGED <<rollupFailed, clockSteps>>

\* main() from the beginning: both timers start at the present, and the store
\* is left out when it cannot be opened.
Start ==
    /\ pc = "down"
    /\ restarts' = restarts + 1
    /\ Open \/ OpenFails
    /\ \E d \in 0..MaxDown : now' = now + d
    /\ now' <= MaxTime
    /\ pc' = "top"
    /\ socketOpen' = FALSE
    /\ snapshot' = NoData
    /\ lastRollup' = now'
    /\ lastDaily' = now'
    /\ checked' = 0
    /\ missed' = 0
    /\ UNCHANGED <<rollupFailed, clockSteps>>

-----------------------------------------------------------------------------
Init ==
    /\ StoreInit
    /\ pc = "top"
    /\ now = 0
    /\ checked = 0
    /\ socketOpen = FALSE
    /\ snapshot = NoData
    /\ lastRollup = 0
    /\ lastDaily = 0
    /\ missed = 0
    /\ restarts = 0
    /\ rollupFailed = FALSE
    /\ clockSteps = 0

Next ==
    \/ Connected \/ ConnectFails
    \/ Poll \/ PollRaises
    \/ Write
    \/ Display \/ DisplayRaises
    \/ RollupStep \/ PruneStep
    \/ RollupDailyStep \/ PruneDailyStep
    \/ Sleep \/ ClockSet
    \/ Interrupt \/ Shutdown \/ Killed \/ Start

Spec == Init /\ [][Next]_vars

-----------------------------------------------------------------------------
\* Properties.

\* The type of the process's state.  As long as nobody sets the clock, neither
\* timer is ahead of it: else the maintenance would wait for it to catch up.
TypeOK ==
    /\ StoreTypeOK
    /\ pc \in Labels
    /\ now \in 0..MaxTime
    /\ checked \in 0..MaxTime
    /\ socketOpen \in BOOLEAN
    /\ snapshot \in Nat \cup {NoData}
    /\ lastRollup \in 0..MaxTime
    /\ lastDaily \in 0..MaxTime
    /\ clockSteps = 0 => /\ checked <= now
                         /\ lastRollup <= now
                         /\ lastDaily <= now
    /\ missed \in 0..MaxMissed
    /\ restarts \in Nat
    /\ rollupFailed \in BOOLEAN
    /\ clockSteps \in Nat

\* No sample leaves the raw table before the 15-minute series has it, unless
\* the rollup in between reported an error.  prune() follows rollup() in
\* main.py's loop, but each may fail, leave its work pending for a later commit
\* or be cut off by a kill, outages may be longer than either retention, and
\* the clock may be set to any time between the two.
RolledUpBeforePruned ==
    [][\A s \in disk.raw \ disk'.raw : \A m \in s.metrics :
          rollupFailed \/ CoveredByRollup(s, m, disk.rollup)]_vars

\* The time bounds below are about runs without errors of the store, on a
\* clock nobody sets.
Undisturbed == faults = 0 /\ clockSteps = 0

\* A row of the 15-minute series only disappears once the daily series has it,
\* the "correctness dependency" of design-b7c8d9e0, section 6.1.1, as long as
\* the process runs: a restart sets the daily timer back.
SummarisedWithoutRestart ==
    [][restarts = 0 /\ Undisturbed =>
          \A r \in disk.rollup :
             (\A q \in disk'.rollup : KeyOf(q) # KeyOf(r))
                => CoveredByDaily(KeyOf(r), disk.daily)]_vars

\* The longest time between two maintenance runs of one process.
Lag == RollupInterval + (MaxMissed + 1) * MaxSleep

\* The raw table is bounded in age: without errors a row outlives its 24 hours
\* by one maintenance lag, and by one more for every restart, since each
\* restart sets last_rollup_time to the present.
RawAgeBounded ==
    Undisturbed =>
        \A s \in disk.raw :
            now - s.ts < RawRetention + (restarts + 1) * (Lag + MaxDown)

\* The 15-minute series lags the samples by no more than one maintenance lag
\* per process lifetime.
RollupTimely ==
    Undisturbed =>
        \A s \in disk.raw :
            now - s.ts >= (restarts + 1) * (Lag + MaxDown)
                => \A m \in s.metrics : CoveredByRollup(s, m, disk.rollup)

\* What /api/telemetry serves is as old as the iterations that ended early
\* since it was polled, and no older: every completed poll replaces the
\* snapshot, whatever it could read, before anything that may raise.
SnapshotAge ==
    clockSteps = 0 /\ pc # "down" /\ snapshot # NoData
        => now - snapshot <= (missed + 1) * MaxSleep

\* storage.py: rollup "computes avg, min, max per metric per bucket".  So a row
\* once computed from some samples is never replaced by one of fewer samples.
RollupRowsNeverLose ==
    [][\A r \in disk.rollup, q \in disk'.rollup :
          KeyOf(r) = KeyOf(q) => r.src \subseteq q.src]_vars

=============================================================================
