--------------------------- MODULE EngineLoopProofs ---------------------------
(* Theorems about EngineLoop, for every value of its constants. *)
EXTENDS EngineLoop, WellFoundedInduction, TLAPS

DiskNames == {"summary", "feedback", "workComplete", "complete", "awaiting",
              "timeout", "blocked", "index"}

\* The state directory keeps its entries.
Shape == disk = [n \in DiskNames |-> disk[n]]

\* Only run_loop is at the places between its phases.
Places ==
    /\ pc \in Labels
    /\ pc \in {"head", "prompt", "worked", "gates", "judge", "revise"} => mode = "loop"

\* While the loop runs, .complete and awaiting-approval.md are absent, except
\* while the gate processes run.
NoSignals ==
    pc \in {"head", "prompt", "work", "worked", "review", "judge", "revise"} /\ InLoop =>
        disk.complete = "absent" /\ disk.awaiting = "absent"

\* review-feedback.txt holds the latest objection wherever it is read; while
\* the reviewer works there is none.
Feedback ==
    /\ pc = "idle" => objection = NoFeedback
    /\ InLoop =>
        /\ pc \in {"head", "prompt", "work", "revise"} => disk.feedback = objection
        /\ pc \in {"review", "judge"} => disk.feedback = NoFeedback

\* No work-complete.txt where a phase may start next.
Clean ==
    pc \in {"head", "prompt", "work", "review"} /\ "workComplete" \notin stuck =>
        ~disk.workComplete

\* The manifest is this cycle's as soon as the cycle has started.
Manifest ==
    pc \in {"work", "worked", "gates", "review", "judge"} /\ InLoop
    /\ "summary" \notin stuck =>
        disk.summary.cycle \in {0, i}

\* How the loop's count relates to the objections there have been: it is one
\* behind, and below the threshold as long as the loop goes on.
Counting ==
    pc # "finish" =>
        /\ stallCount \in Nat /\ streak.n \in Nat
        /\ streak.on = lastFeedback
        /\ stallCount < StallThreshold
        /\ lastFeedback = NoFeedback => streak.n = 0 /\ stallCount = 0
        /\ lastFeedback # NoFeedback => streak.n = stallCount + 1

\* The inductive invariant.
LoopIInv ==
    /\ Shape /\ Places /\ NoSignals /\ Feedback /\ Clean /\ Manifest /\ Counting
    /\ ShipSignals

-----------------------------------------------------------------------------

USE LimitsAssumption

\* Nothing has happened yet.
LEMMA LoopInit == Init => LoopIInv
BY DEF Init, LoopIInv, Shape, DiskNames, Places, Labels, NoSignals, Feedback,
       Clean, Manifest, Counting, ShipSignals, InLoop, EmptyDisk, NoFeedback

\* A name that clear_state has not returned is as in an empty directory.
LEMMA NothingLeft ==
    ASSUME NEW names, Left(names) = {}, NEW n \in names
    PROVE  Cleared(n) = EmptyDisk[n]
BY DEF Left, Cleared

\* What the operator and the start of a run do.
LEMMA BetweenRunsKeep == LoopIInv /\ BetweenRuns => LoopIInv'
<1> SUFFICES ASSUME LoopIInv, BetweenRuns PROVE LoopIInv'
  OBVIOUS
<1> USE DEF LoopIInv, Shape, DiskNames, Places, Labels, NoSignals, Feedback,
            Clean, Manifest, Counting, ShipSignals, InLoop, Idle, NewRun,
            runVars, loopVars, cycleVars, history
<1>1. CASE PlannerWritesIndex
  BY <1>1 DEF PlannerWritesIndex
<1>2. CASE Reset
  BY <1>2 DEF Reset
<1>3. CASE OperatorFrees
  BY <1>3 DEF OperatorFrees
<1>4. CASE RunRefused
  BY <1>4 DEF RunRefused
<1>5. CASE ProviderNotReady
  BY <1>5 DEF ProviderNotReady
<1>6. CASE StartWorker
  BY <1>6 DEF StartWorker, StartPhase
<1>7. CASE StartReviewer
  BY <1>7 DEF StartReviewer, StartPhase
<1>8. CASE StartLoop
  <2> DEFINE d == [disk EXCEPT !.feedback = Cleared("feedback"),
                               !.workComplete = Cleared("workComplete"),
                               !.summary = Cleared("summary"),
                               !.complete = Cleared("complete"),
                               !.timeout = Cleared("timeout"),
                               !.awaiting = Cleared("awaiting")]
  <2> USE <1>8 DEF StartLoop
  <2>1. CASE Left(StartNames) # {}
    <3>1. disk' = [d EXCEPT !.blocked = TRUE] /\ rc' = 1 /\ pc' = "finish"
      BY <2>1
    <3>2. /\ disk'.complete = Cleared("complete")
          /\ disk'.awaiting = Cleared("awaiting")
          /\ disk'.blocked
      BY <3>1
    <3>3. ShipSignals'
      BY <3>1, <3>2 DEF Cleared, EmptyDisk
    <3> QED
      BY <3>1, <3>3
  <2>2. CASE Left(StartNames) = {}
    <3>1. disk' = d /\ pc' = "head"
      BY <2>2
    <3>2. /\ Cleared("feedback") = NoFeedback
          /\ Cleared("workComplete") = FALSE
          /\ Cleared("complete") = "absent"
          /\ Cleared("awaiting") = "absent"
      BY <2>2, NothingLeft DEF StartNames, EmptyDisk
    <3>3. /\ disk'.feedback = NoFeedback /\ ~disk'.workComplete
          /\ disk'.complete = "absent" /\ disk'.awaiting = "absent"
          /\ Shape'
      BY <3>1, <3>2
    <3>4. mode' = "loop" /\ objection' = NoFeedback
      OBVIOUS
    <3>5. NoSignals' /\ Feedback' /\ Clean' /\ Manifest' /\ ShipSignals' /\ Places'
      BY <3>1, <3>3, <3>4
    <3>6. Counting'
      BY <3>1
    <3> QED
      BY <3>3, <3>5, <3>6
  <2> QED
    BY <2>1, <2>2
<1> QED
  BY <1>1, <1>2, <1>3, <1>4, <1>5, <1>6, <1>7, <1>8 DEF BetweenRuns

\* What a work phase leaves of the state directory.
Written ==
    /\ Shape'
    /\ disk'.feedback = disk.feedback
    /\ disk'.complete = disk.complete
    /\ disk'.awaiting = disk.awaiting
    /\ disk'.summary = disk.summary \/ disk'.summary.cycle \in {0, i}

\* The worker writes no signal file, and a manifest only of its own cycle.
LEMMA WorkerKeeps ==
    ASSUME Shape, WorkerWrites
    PROVE  Written
<1>1. PICK s \in {disk.summary} \cup Manifests,
           complete \in BOOLEAN, blocked \in BOOLEAN, index \in Indexes :
           disk' = [disk EXCEPT !.summary = s, !.workComplete = complete,
                                !.blocked = blocked, !.index = index]
  BY DEF WorkerWrites
<1>2. s = disk.summary \/ s.cycle \in {0, i}
  BY DEF Manifests, NoSummary, Summary
<1> QED
  BY <1>1, <1>2 DEF Written, Shape, DiskNames

\* The steps of the loop before the gates.
LEMMA WorkKeeps ==
    ASSUME LoopIInv,
           \/ DeadlineReached \/ MaxReached \/ AsksOperator \/ OperatorAnswers
           \/ BeginCycle \/ WorkPhaseReturns \/ WorkPhaseFails
           \/ BlockedFound \/ ScopeLock \/ GatesStart
    PROVE  LoopIInv'
<1> USE DEF LoopIInv, Shape, DiskNames, Places, Labels, NoSignals, Feedback,
            Clean, Manifest, Counting, ShipSignals, InLoop, Return,
            runVars, loopVars, cycleVars, history
<1>1. CASE DeadlineReached
  BY <1>1 DEF DeadlineReached
<1>2. CASE MaxReached \/ AsksOperator \/ OperatorDeclines
  BY <1>2 DEF MaxReached, AsksOperator, OperatorDeclines
<1>3. CASE BeginCycle
  BY <1>3 DEF BeginCycle, CycleStarts, Cleared, EmptyDisk, NoSummary
<1>4. CASE OperatorContinues
  BY <1>4 DEF OperatorContinues, CycleStarts, Cleared, EmptyDisk, NoSummary
<1>5. CASE WorkPhaseReturns
  <2>1. Written
    BY <1>5, WorkerKeeps DEF WorkPhaseReturns
  <2> QED
    BY <1>5, <2>1 DEF WorkPhaseReturns, Written
<1>6. CASE WorkPhaseFails
  <2>1. Written
    BY <1>6, WorkerKeeps DEF WorkPhaseFails
  <2> QED
    BY <1>6, <2>1 DEF WorkPhaseFails, Written
<1>7. CASE BlockedFound
  BY <1>7 DEF BlockedFound
<1>8. CASE ScopeLock
  BY <1>8 DEF ScopeLock, Cleared, EmptyDisk
<1>9. CASE GatesStart
  BY <1>9 DEF GatesStart
<1> QED
  BY <1>1, <1>2, <1>3, <1>4, <1>5, <1>6, <1>7, <1>8, <1>9 DEF OperatorAnswers

\* The gates, the review and the verdict.
LEMMA ReviewKeeps ==
    ASSUME LoopIInv,
           \/ GateProcessWrites \/ GatesDone \/ ReviewReturns \/ ReviewFails
           \/ Revise \/ Override \/ Ship
    PROVE  LoopIInv'
<1> USE DEF LoopIInv, Shape, DiskNames, Places, Labels, NoSignals, Feedback,
            Clean, Manifest, Counting, ShipSignals, InLoop, Return,
            runVars, loopVars, cycleVars, history
<1>1. CASE GateProcessWrites
  BY <1>1 DEF GateProcessWrites, Manifests, Summary, NoSummary
<1>2. CASE GatesDone
  <2> DEFINE blocks == \/ Left(AfterGates) # {}
                       \/ \E g \in CommandGates : results'[g] = "UNCHECKED"
  <2>1. /\ pc = "gates" /\ stuck' = stuck
        /\ IF blocks
           THEN /\ disk' = [ClearedAfterGates EXCEPT !.blocked = TRUE]
                /\ rc' = 1 /\ pc' = "finish"
           ELSE disk' = ClearedAfterGates /\ pc' = "review" /\ rc' = rc
        /\ UNCHANGED <<runVars, loopVars, stuck, history>>
    BY <1>2 DEF GatesDone
  <2>2. CASE blocks
    <3>1. /\ Shape'
          /\ disk'.complete = Cleared("complete")
          /\ disk'.awaiting = Cleared("awaiting")
          /\ disk'.blocked
      BY <2>1, <2>2 DEF ClearedAfterGates
    <3>2. ShipSignals'
      BY <2>1, <2>2, <3>1 DEF Cleared, EmptyDisk
    <3> QED
      BY <2>1, <2>2, <3>1, <3>2
  <2>3. CASE ~blocks
    <3>1. /\ Cleared("feedback") = NoFeedback
          /\ Cleared("workComplete") = FALSE
          /\ Cleared("complete") = "absent"
          /\ Cleared("awaiting") = "absent"
      BY <2>3, NothingLeft DEF AfterGates, EmptyDisk
    <3>2. disk' = ClearedAfterGates /\ pc' = "review"
      BY <2>1, <2>3
    <3> HIDE DEF blocks
    <3> QED
      BY <2>1, <3>1, <3>2 DEF ClearedAfterGates
  <2> QED
    BY <2>2, <2>3
<1>3. CASE ReviewReturns
  BY <1>3 DEF ReviewReturns
<1>4. CASE ReviewFails
  BY <1>4 DEF ReviewFails
<1>5. CASE Revise
  BY <1>5 DEF Revise
<1>6. CASE Override
  BY <1>6 DEF Override
<1>7. CASE Ship
  BY <1>7 DEF Ship
<1> QED
  BY <1>1, <1>2, <1>3, <1>4, <1>5, <1>6, <1>7

\* The end of a cycle and of a run.
LEMMA EndKeeps ==
    ASSUME LoopIInv, Stalled \/ NextCycle \/ Finish \/ Crash
    PROVE  LoopIInv'
<1> USE DEF LoopIInv, Shape, DiskNames, Places, Labels, NoSignals, Feedback,
            Clean, Manifest, Counting, ShipSignals, InLoop, Return,
            runVars, loopVars, cycleVars, history
<1>1. CASE Stalled
  <2>1. pc' = "finish" /\ rc' = 1 /\ pc = "revise" /\ mode' = mode
    BY <1>1 DEF Stalled
  <2>2. /\ Shape'
        /\ disk'.complete = disk.complete /\ disk'.awaiting = disk.awaiting
    BY <1>1 DEF Stalled
  <2> QED
    BY <2>1, <2>2
<1>2. CASE NextCycle
  <2>1. Counting'
    <3>1. /\ pc' # "finish" /\ pc = "revise"
          /\ ~StallReached /\ CountStall /\ streak' = Extended
      BY <1>2 DEF NextCycle
    <3>2. CASE SameFeedback
      BY <3>1, <3>2 DEF StallReached, SameFeedback, CountStall, Extended
    <3>3. CASE ~SameFeedback
      BY <3>1, <3>3 DEF StallReached, SameFeedback, CountStall, Extended
    <3> QED
      BY <3>2, <3>3
  <2>2. /\ Shape' /\ Places' /\ NoSignals' /\ Feedback' /\ Clean' /\ Manifest'
        /\ ShipSignals'
    BY <1>2 DEF NextCycle, Cleared, EmptyDisk
  <2> QED
    BY <2>1, <2>2
<1>3. CASE Finish
  BY <1>3 DEF Finish, LocalsReset
<1>4. CASE Crash
  BY <1>4 DEF Crash, LocalsReset
<1> QED
  BY <1>1, <1>2, <1>3, <1>4

-----------------------------------------------------------------------------

\* The invariant is kept by every step.
LEMMA LoopStep == LoopIInv /\ [Next]_vars => LoopIInv'
<1>1. ASSUME LoopIInv, UNCHANGED vars PROVE LoopIInv'
  BY <1>1 DEF vars, runVars, loopVars, cycleVars, history, LoopIInv, Shape,
              Places, NoSignals, Feedback, Clean, Manifest, Counting,
              ShipSignals, InLoop
<1> QED
  BY <1>1, BetweenRunsKeep, WorkKeeps, ReviewKeeps, EndKeeps
  DEF Next, EngineStep, PhaseEnds

\* The inductive invariant holds in every reachable state.
THEOREM LoopInvariant == Spec => []LoopIInv
<1> QED
  BY LoopInit, LoopStep, PTL DEF Spec

\* When run_loop returns, .complete is on disk exactly if it returns 0, and
\* awaiting-approval.md is not there yet; only an entry that cannot be removed
\* is an exception, and then the run is BLOCKED.
THEOREM LoopShipSignals == Spec => []ShipSignals
<1>1. LoopIInv => ShipSignals
  BY DEF LoopIInv
<1> QED
  BY <1>1, LoopInvariant, PTL

\* The worker reads the objection of the cycle just before, or none.
THEOREM LoopFeedbackFresh == Spec => []FeedbackFresh
<1>1. LoopIInv => FeedbackFresh
  BY DEF LoopIInv, Feedback, FeedbackFresh
<1> QED
  BY <1>1, LoopInvariant, PTL

\* The manifest that is adjudicated is this cycle's.
THEOREM LoopManifestFresh == Spec => []ManifestFresh
<1>1. LoopIInv => ManifestFresh
  BY DEF LoopIInv, Manifest, ManifestFresh
<1> QED
  BY <1>1, LoopInvariant, PTL

\* No phase starts with a work-complete.txt that would end it.
THEOREM LoopPhaseStartsClean == Spec => []PhaseStartsClean
<1>1. LoopIInv => PhaseStartsClean
  BY DEF LoopIInv, Clean, PhaseStartsClean
<1> QED
  BY <1>1, LoopInvariant, PTL

\* A reviewed cycle ends the run exactly after StallThreshold repetitions.
THEOREM LoopStallDecided == Spec => StallDecided
<1> DEFINE Decided == pc = "revise" /\ pc' # "idle" =>
                        (pc' = "finish" <=> Repetitions(streak') >= StallThreshold)
<1>1. ASSUME LoopIInv, [Next]_vars PROVE [Decided]_vars
  <2> SUFFICES ASSUME pc = "revise", pc' # "idle", Next
               PROVE  pc' = "finish" <=> Repetitions(streak') >= StallThreshold
    BY <1>1
  <2>1. Stalled \/ NextCycle
    BY DEF Next, BetweenRuns, EngineStep, PhaseEnds, OperatorAnswers,
           PlannerWritesIndex, Reset, OperatorFrees, RunRefused, ProviderNotReady,
           StartWorker, StartReviewer, StartLoop, NewRun, Idle, DeadlineReached,
           MaxReached, AsksOperator, OperatorDeclines, BeginCycle, OperatorContinues,
           WorkPhaseReturns, WorkPhaseFails, BlockedFound, ScopeLock, GatesStart,
           GateProcessWrites, GatesDone, ReviewReturns, ReviewFails, Revise, Override,
           Ship, Finish, Crash
  <2>2. Counting
    BY <1>1 DEF LoopIInv
  <2>3. CASE Stalled
    <3>1. streak' = Extended /\ StallReached /\ pc' = "finish"
      BY <2>3 DEF Stalled, Return
    <3> QED
      BY <2>2, <3>1 DEF Counting, Extended, StallReached, SameFeedback, Repetitions
  <2>4. CASE NextCycle
    <3>1. streak' = Extended /\ ~StallReached /\ pc' = "head"
      BY <2>4 DEF NextCycle
    <3>2. StallThreshold \in Nat \ {0}
      BY LimitsAssumption
    <3> QED
      BY <2>2, <3>1, <3>2 DEF Counting, Extended, StallReached, SameFeedback, Repetitions
  <2> QED
    BY <2>1, <2>3, <2>4
<1> QED
  BY <1>1, LoopInvariant, PTL DEF Spec, StallDecided

-----------------------------------------------------------------------------

\* The values of the variables, and the entries of the state directory.
Typed == TypeOK /\ Shape

\* What clear_state leaves has the type of what was there.
LEMMA ClearedTyped ==
    ASSUME Typed
    PROVE  /\ Cleared("summary") \in [cycle : Nat, names : SUBSET Deliverables]
           /\ Cleared("feedback")[1] \in FeedbackTags
           /\ Cleared("workComplete") \in BOOLEAN
           /\ Cleared("blocked") \in BOOLEAN
           /\ Cleared("complete") \in Author
           /\ Cleared("awaiting") \in Author
           /\ Cleared("timeout") \in Author
           /\ Cleared("index") \in Indexes
<1> USE DEF Typed, TypeOK, Cleared, EmptyDisk
<1>1. Cleared("summary") \in [cycle : Nat, names : SUBSET Deliverables]
  BY DEF NoSummary
<1>2. Cleared("feedback")[1] \in FeedbackTags
  BY DEF NoFeedback, FeedbackTags
<1>3. Cleared("workComplete") \in BOOLEAN /\ Cleared("blocked") \in BOOLEAN
  OBVIOUS
<1>4. /\ Cleared("complete") \in Author
      /\ Cleared("awaiting") \in Author
      /\ Cleared("timeout") \in Author
  BY DEF Author
<1>5. Cleared("index") \in Indexes
  BY DEF Indexes, NoIndex
<1> QED
  BY <1>1, <1>2, <1>3, <1>4, <1>5

\* A step keeps the types.
LEMMA TypedStep == Typed /\ [Next]_vars => TypeOK'
<1> SUFFICES ASSUME Typed, [Next]_vars PROVE TypeOK'
  OBVIOUS
<1> USE DEF Typed, TypeOK, Labels, Author, FeedbackTags, Running, NoFeedback,
            runVars, loopVars, cycleVars, history
<1> USE ClearedTyped
<1>1. CASE PlannerWritesIndex
  <2>1. PICK n \in 1..MaxItems :
           disk' = [disk EXCEPT !.index = [checked |-> 0, unchecked |-> n]]
    BY <1>1 DEF PlannerWritesIndex
  <2>2. [checked |-> 0, unchecked |-> n] \in Indexes
    BY LimitsAssumption DEF Indexes
  <2> QED
    BY <1>1, <2>1, <2>2 DEF PlannerWritesIndex, Shape, DiskNames
<1>2. CASE Reset
  BY <1>2 DEF Reset, Idle, Shape, DiskNames
<1>3. CASE OperatorFrees
  BY <1>3 DEF OperatorFrees, Idle, Shape, DiskNames
<1>4. CASE RunRefused
  BY <1>4 DEF RunRefused, Idle, NewRun, Shape, DiskNames
<1>5. CASE ProviderNotReady
  BY <1>5 DEF ProviderNotReady, Idle, NewRun, Shape, DiskNames
<1>6. CASE StartWorker
  <2>1. /\ disk' \in {disk, [disk EXCEPT !.workComplete = FALSE]}
        /\ pc' \in {"idle", "work"} /\ rc' = Running
    BY <1>6 DEF StartWorker, StartPhase, NewRun, Idle
  <2>2. /\ disk'.summary = disk.summary /\ disk'.feedback = disk.feedback
        /\ disk'.workComplete \in BOOLEAN /\ disk'.blocked = disk.blocked
        /\ disk'.complete = disk.complete /\ disk'.awaiting = disk.awaiting
        /\ disk'.timeout = disk.timeout /\ disk'.index = disk.index
    BY <2>1 DEF Shape, DiskNames
  <2>3. mode' \in {"loop", "worker", "reviewer", "reset", "refused"} /\ runs' \in 0..MaxRuns
        /\ i' \in Nat
    BY <1>6 DEF StartWorker, NewRun, Idle
  <2> QED
    BY <1>6, <2>1, <2>2, <2>3 DEF StartWorker, NewRun
<1>7. CASE StartReviewer
  <2>1. /\ disk' \in {disk, [disk EXCEPT !.workComplete = FALSE]}
        /\ pc' \in {"idle", "review"} /\ rc' = Running
    BY <1>7 DEF StartReviewer, StartPhase, NewRun, Idle
  <2>2. /\ disk'.summary = disk.summary /\ disk'.feedback = disk.feedback
        /\ disk'.workComplete \in BOOLEAN /\ disk'.blocked = disk.blocked
        /\ disk'.complete = disk.complete /\ disk'.awaiting = disk.awaiting
        /\ disk'.timeout = disk.timeout /\ disk'.index = disk.index
    BY <2>1 DEF Shape, DiskNames
  <2>3. mode' \in {"loop", "worker", "reviewer", "reset", "refused"} /\ runs' \in 0..MaxRuns
        /\ i' \in Nat
    BY <1>7 DEF StartReviewer, NewRun, Idle
  <2> QED
    BY <1>7, <2>1, <2>2, <2>3 DEF StartReviewer, NewRun
<1>8. CASE StartLoop
  <2>1. Cleared("index") \in Indexes /\ disk.index \in Indexes
    OBVIOUS
  <2>2. Items(disk.index) \in 0..MaxItems
    BY DEF Items, Indexes
  <2>3. snapshot' \in {NoAudit} \cup 1..MaxItems
    BY <1>8, <2>2 DEF StartLoop, Shape, DiskNames, NoAudit
  <2>4. /\ disk'.summary \in [cycle : Nat, names : SUBSET Deliverables]
        /\ disk'.feedback[1] \in FeedbackTags
        /\ {disk'.workComplete, disk'.blocked} \subseteq BOOLEAN
        /\ {disk'.complete, disk'.awaiting, disk'.timeout} \subseteq Author
        /\ disk'.index \in Indexes
    BY <1>8 DEF StartLoop, Shape, DiskNames
  <2> QED
    BY <1>8, <2>3, <2>4 DEF StartLoop, NewRun, Idle
<1>9. CASE DeadlineReached
  BY <1>9 DEF DeadlineReached, Return, Shape, DiskNames
<1>10. CASE MaxReached \/ AsksOperator \/ OperatorDeclines
  BY <1>10 DEF MaxReached, AsksOperator, OperatorDeclines, Return, Shape, DiskNames
<1>11. CASE BeginCycle
  BY <1>11 DEF BeginCycle, CycleStarts, Shape, DiskNames
<1>12. CASE OperatorContinues
  BY <1>12 DEF OperatorContinues, CycleStarts, Shape, DiskNames
<1>13. CASE WorkPhaseReturns
  <2>1. WorkerWrites
    BY <1>13 DEF WorkPhaseReturns
  <2>2. PICK s \in {disk.summary} \cup Manifests,
             complete \in BOOLEAN, blocked \in BOOLEAN, index \in Indexes :
           disk' = [disk EXCEPT !.summary = s, !.workComplete = complete,
                                !.blocked = blocked, !.index = index]
    BY ONLY <2>1, Zenon DEF WorkerWrites
  <2>3. s \in [cycle : Nat, names : SUBSET Deliverables]
    BY DEF Manifests, NoSummary, Summary
  <2> QED
    BY <1>13, <2>2, <2>3 DEF WorkPhaseReturns, Return, Shape, DiskNames
<1>14. CASE WorkPhaseFails
  <2>1. WorkerWrites
    BY <1>14 DEF WorkPhaseFails
  <2>2. PICK s \in {disk.summary} \cup Manifests,
             complete \in BOOLEAN, blocked \in BOOLEAN, index \in Indexes :
           disk' = [disk EXCEPT !.summary = s, !.workComplete = complete,
                                !.blocked = blocked, !.index = index]
    BY ONLY <2>1, Zenon DEF WorkerWrites
  <2>3. s \in [cycle : Nat, names : SUBSET Deliverables]
    BY DEF Manifests, NoSummary, Summary
  <2> QED
    BY <1>14, <2>2, <2>3 DEF WorkPhaseFails, Return, Shape, DiskNames
<1>15. CASE BlockedFound
  BY <1>15 DEF BlockedFound, Return, Shape, DiskNames
<1>16. CASE ScopeLock
  <2>1. ScopeText[1] \in FeedbackTags
    BY DEF ScopeText
  <2> QED
    BY <1>16, <2>1 DEF ScopeLock, Shape, DiskNames
<1>17. CASE GatesStart
  BY <1>17 DEF GatesStart, Shape, DiskNames
<1>18. CASE GateProcessWrites
  <2>1. /\ disk'.summary \in [cycle : Nat, names : SUBSET Deliverables]
        /\ disk'.feedback[1] \in FeedbackTags
        /\ {disk'.workComplete, disk'.blocked} \subseteq BOOLEAN
        /\ {disk'.complete, disk'.awaiting, disk'.timeout} \subseteq Author
        /\ disk'.index \in Indexes
    <3>1. CASE \E by \in {"absent", "stray"} :
                  disk' \in {[disk EXCEPT !.complete = by],
                            [disk EXCEPT !.awaiting = by],
                            [disk EXCEPT !.timeout = by]}
      BY <3>1 DEF Shape, DiskNames
    <3>2. CASE \E text \in {NoFeedback, Stray} : disk' = [disk EXCEPT !.feedback = text]
      BY <3>2 DEF Shape, DiskNames, NoFeedback, Stray
    <3>6. CASE \E there \in BOOLEAN : disk' = [disk EXCEPT !.workComplete = there]
      BY <3>6 DEF Shape, DiskNames
    <3>7. CASE \E there \in BOOLEAN : disk' = [disk EXCEPT !.blocked = there]
      BY <3>7 DEF Shape, DiskNames
    <3>3. CASE \E x \in Manifests : disk' = [disk EXCEPT !.summary = x]
      BY <3>3 DEF Shape, DiskNames, Manifests, NoSummary, Summary
    <3>4. CASE \E index \in Indexes : disk' = [disk EXCEPT !.index = index]
      BY <3>4 DEF Shape, DiskNames
    <3>5. CASE UNCHANGED disk
      BY <3>5
    <3> QED
      BY <1>18, <3>1, <3>2, <3>3, <3>4, <3>5, <3>6, <3>7 DEF GateProcessWrites
  <2>2. stuck' \subseteq Sticky
    BY <1>18 DEF GateProcessWrites
  <2> QED
    BY <1>18, <2>1, <2>2 DEF GateProcessWrites
<1>19. CASE GatesDone
  <2>1. /\ disk'.summary \in [cycle : Nat, names : SUBSET Deliverables]
        /\ disk'.feedback[1] \in FeedbackTags
        /\ {disk'.workComplete, disk'.blocked} \subseteq BOOLEAN
        /\ {disk'.complete, disk'.awaiting, disk'.timeout} \subseteq Author
        /\ disk'.index \in Indexes
    BY <1>19 DEF GatesDone, ClearedAfterGates, Shape, DiskNames
  <2> QED
    BY <1>19, <2>1 DEF GatesDone, Return
<1>20. CASE ReviewReturns
  BY <1>20 DEF ReviewReturns, Return, Shape, DiskNames
<1>21. CASE ReviewFails
  BY <1>21 DEF ReviewFails, Return, Shape, DiskNames
<1>22. CASE Revise
  <2>1. CycleForgotten => results' \in [CommandGates -> GateStatus]
                          /\ message' = <<>> /\ reads' = {}
    BY DEF CycleForgotten, GateStatus
  <2>2. /\ disk'.feedback[1] \in FeedbackTags
        /\ objection'[1] \in FeedbackTags
        /\ \A n \in DiskNames \ {"feedback"} : disk'[n] = disk[n]
    BY <1>22 DEF Revise, Shape, DiskNames
  <2> QED
    BY <1>22, <2>1, <2>2 DEF Revise, DiskNames
<1>23. CASE Override
  <2>1. PICK text \in Overrides :
           disk' = [disk EXCEPT !.feedback = text] /\ objection' = text
    BY <1>23 DEF Override
  <2>2. text[1] \in FeedbackTags
    BY DEF Overrides, ScopeText
  <2>3. CycleForgotten => results' \in [CommandGates -> GateStatus]
                          /\ message' = <<>> /\ reads' = {}
    BY DEF CycleForgotten, GateStatus
  <2> QED
    BY <1>23, <2>1, <2>2, <2>3 DEF Override, Shape, DiskNames
<1>24. CASE Ship
  BY <1>24 DEF Ship, Return, Shape, DiskNames
<1>25. CASE Stalled
  <2>1. streak'.n \in Nat
    BY <1>25 DEF Stalled, Extended
  <2>2. stallCount' \in Nat /\ lastFeedback'[1] \in FeedbackTags
    BY <1>25 DEF Stalled, CountStall
  <2> QED
    BY <1>25, <2>1, <2>2 DEF Stalled, Return, Shape, DiskNames
<1>26. CASE NextCycle
  <2>1. streak'.n \in Nat
    BY <1>26 DEF NextCycle, Extended
  <2>2. stallCount' \in Nat /\ lastFeedback'[1] \in FeedbackTags
    BY <1>26 DEF NextCycle, CountStall
  <2> QED
    BY <1>26, <2>1, <2>2 DEF NextCycle, Return, Shape, DiskNames
<1>27. CASE Finish
  <2>1. /\ results' \in [CommandGates -> GateStatus]
        /\ message' = <<>> /\ reads' = {}
        /\ i' = 0 /\ extra' = 0 /\ stallCount' = 0 /\ snapshot' = NoAudit
        /\ lastFeedback'[1] \in FeedbackTags /\ objection'[1] \in FeedbackTags
        /\ streak'.n \in Nat
    BY <1>27 DEF Finish, LocalsReset, CycleForgotten, GateStatus
  <2> QED
    BY <1>27, <2>1 DEF Finish, Shape, DiskNames
<1>28. CASE Crash
  <2>1. /\ results' \in [CommandGates -> GateStatus]
        /\ message' = <<>> /\ reads' = {}
        /\ i' = 0 /\ extra' = 0 /\ stallCount' = 0 /\ snapshot' = NoAudit
        /\ lastFeedback'[1] \in FeedbackTags /\ objection'[1] \in FeedbackTags
        /\ streak'.n \in Nat
    BY <1>28 DEF Crash, LocalsReset, CycleForgotten, GateStatus
  <2> QED
    BY <1>28, <2>1 DEF Crash, Shape, DiskNames
<1>29. CASE UNCHANGED vars
  BY <1>29 DEF vars
<1> QED
  BY <1>1, <1>2, <1>3, <1>4, <1>5, <1>6, <1>7, <1>8, <1>9, <1>10, <1>11,
     <1>12, <1>13, <1>14, <1>15, <1>16, <1>17, <1>18, <1>19, <1>20, <1>21,
     <1>22, <1>23, <1>24, <1>25, <1>26, <1>27, <1>28, <1>29
  DEF Next, BetweenRuns, EngineStep, PhaseEnds, OperatorAnswers

\* The variables and the entries of the state directory keep their types.
THEOREM LoopTypeCorrect == Spec => []TypeOK
<1>1. Init => TypeOK
  BY LimitsAssumption
  DEF Init, TypeOK, Labels, FeedbackTags, GateStatus, Running, NoFeedback,
      EmptyDisk, NoSummary, Author, Indexes, NoIndex
<1>2. LoopIInv /\ TypeOK /\ [Next]_vars => TypeOK'
  BY TypedStep DEF Typed, LoopIInv
<1> QED
  BY <1>1, <1>2, LoopInvariant, PTL DEF Spec

-----------------------------------------------------------------------------

\* What module RunContract sees of the state directory.
Signals == [complete |-> CompleteBy[disk.complete], blocked |-> disk.blocked]

Contract ==
    /\ runs' > runs /\ mode' # "refused" =>
            Seen' \in Run!Beginnings(mode', Seen.signals, 1)
    /\ runs' > runs /\ mode' = "refused" =>
            Seen' \in Run!Starting(Seen.signals)
    /\ pc # "idle" => Seen' \in Run!Moves(mode, Seen.phase, Seen.signals, 1)

\* Every step of the loop is one the contract allows.
LEMMA ContractStep == TypeOK /\ LoopIInv /\ Next => Contract
<1> SUFFICES ASSUME TypeOK, LoopIInv, Next PROVE Contract
  OBVIOUS
<1> DEFINE Signalled(c, b) == [complete |-> CompleteBy[c], blocked |-> b]
<1>1. /\ disk.complete \in Author /\ disk.blocked \in BOOLEAN
      /\ mode \in {"loop", "worker", "reviewer", "reset", "refused"}
      /\ runs \in Nat
      /\ Shape /\ Places /\ NoSignals
  BY DEF TypeOK, LoopIInv
<1>2. /\ Seen = [phase |-> Phase,
                 signals |-> Signalled(disk.complete, disk.blocked)]
      /\ Seen' = [phase |-> Phase',
                  signals |-> Signalled(disk'.complete, disk'.blocked)]
  BY DEF Seen, Run!At, CompleteBy
<1>3. /\ CompleteBy["absent"] = Run!NoFile
      /\ CompleteBy["stray"] = Run!StrayFile
      /\ CompleteBy["engine"] = 1
  BY DEF CompleteBy
<1>4. Run!PerhapsBlocked(Seen.signals) =
         {Signalled(disk.complete, disk.blocked), Signalled(disk.complete, TRUE)}
  BY <1>2 DEF Run!PerhapsBlocked
<1>b. Run!BlockedOrNot(Seen.signals) =
         {Signalled(disk.complete, b) : b \in BOOLEAN}
  BY <1>2 DEF Run!BlockedOrNot
<1> HIDE DEF Signalled
<1>keep. ASSUME runs' = runs,
             Seen' \in Run!Moves(mode, Seen.phase, Seen.signals, 1)
      PROVE  Contract
  BY <1>1, <1>keep DEF Contract
<1>work. \A p \in {"work", "done"}, s \in Run!BlockedOrNot(Seen.signals) :
          Run!At(p, s) \in Run!Work(mode, Seen.signals)
  BY DEF Run!Work
<1>end. \A s \in Run!PerhapsBlocked(Seen.signals) :
          Run!At("done", s) \in Run!Review(mode, Seen.signals, 1)
  BY DEF Run!Review
<1>same. Run!At("review", Seen.signals) \in Run!Review(mode, Seen.signals, 1)
  BY DEF Run!Review
<1>5. CASE PlannerWritesIndex \/ Reset \/ OperatorFrees
  BY <1>1, <1>5
  DEF PlannerWritesIndex, Reset, OperatorFrees, Idle, runVars, Contract
<1>6. CASE RunRefused
  BY <1>1, <1>2, <1>4, <1>6
  DEF RunRefused, NewRun, Idle, Contract, Phase, Run!At, Run!Starting
<1>7. CASE ProviderNotReady
  <2>1. disk'.complete = disk.complete /\ disk'.blocked = TRUE
    BY <1>1, <1>7 DEF ProviderNotReady, Shape, DiskNames
  <2> QED
    BY <1>1, <1>2, <1>4, <1>7, <2>1
    DEF ProviderNotReady, NewRun, Idle, Contract, Phase, Run!At, Run!Starting
<1>8. CASE StartWorker
  <2>1. disk'.complete = disk.complete /\ disk'.blocked = disk.blocked
    BY <1>1, <1>8 DEF StartWorker, StartPhase, Shape, DiskNames
  <2>2. /\ Run!At("ready", Seen.signals) \in
              {y \in Run!Starting(Seen.signals) : y.phase = "ready"}
        /\ Run!At("work", Seen.signals) \in
              Run!Moves("worker", "ready", Seen.signals, 1)
    BY DEF Run!Starting, Run!At, Run!Moves, Run!Ready
  <2>3. /\ Seen' \in {Run!At("work", Seen.signals), Run!At("over", Seen.signals)}
        /\ mode' = "worker" /\ pc = "idle"
    BY <1>2, <1>8, <2>1 DEF StartWorker, StartPhase, NewRun, Idle, Phase, Run!At
  <2>4. Seen' \in Run!Beginnings(mode', Seen.signals, 1)
    <3>1. Run!At("over", Seen.signals) \in Run!Starting(Seen.signals)
      BY DEF Run!Starting, Run!PerhapsBlocked
    <3>2. CASE Seen' = Run!At("work", Seen.signals)
      BY <2>2, <2>3, <3>2 DEF Run!Beginnings, Run!At
    <3>3. CASE Seen' = Run!At("over", Seen.signals)
      BY <3>1, <3>3 DEF Run!Beginnings
    <3> QED
      BY <2>3, <3>2, <3>3
  <2> QED
    BY <2>3, <2>4 DEF Contract
<1>9. CASE StartReviewer
  <2>1. disk'.complete = disk.complete /\ disk'.blocked = disk.blocked
    BY <1>1, <1>9 DEF StartReviewer, StartPhase, Shape, DiskNames
  <2>2. /\ Run!At("ready", Seen.signals) \in
              {y \in Run!Starting(Seen.signals) : y.phase = "ready"}
        /\ Run!At("review", Seen.signals) \in
              Run!Moves("reviewer", "ready", Seen.signals, 1)
    BY DEF Run!Starting, Run!At, Run!Moves, Run!Ready
  <2>3. /\ Seen' \in {Run!At("review", Seen.signals), Run!At("over", Seen.signals)}
        /\ mode' = "reviewer" /\ pc = "idle"
    BY <1>2, <1>9, <2>1 DEF StartReviewer, StartPhase, NewRun, Idle, Phase, Run!At
  <2>4. Seen' \in Run!Beginnings(mode', Seen.signals, 1)
    <3>1. Run!At("over", Seen.signals) \in Run!Starting(Seen.signals)
      BY DEF Run!Starting, Run!PerhapsBlocked
    <3>2. CASE Seen' = Run!At("review", Seen.signals)
      BY <2>2, <2>3, <3>2 DEF Run!Beginnings, Run!At
    <3>3. CASE Seen' = Run!At("over", Seen.signals)
      BY <3>1, <3>3 DEF Run!Beginnings
    <3> QED
      BY <2>3, <3>2, <3>3
  <2> QED
    BY <2>3, <2>4 DEF Contract
<1>10. CASE StartLoop
  <2>1. \/ /\ pc' = "finish" /\ disk'.blocked = TRUE
           /\ disk'.complete \in {"absent", disk.complete}
        \/ /\ pc' = "head" /\ disk'.blocked = disk.blocked
           /\ disk'.complete = "absent"
    BY <1>1, <1>10
    DEF StartLoop, NewRun, Shape, DiskNames, Cleared, Left, StartNames, EmptyDisk
  <2>2. Run!At("ready", Seen.signals) \in
           {y \in Run!Starting(Seen.signals) : y.phase = "ready"}
    BY DEF Run!Starting, Run!At
  <2>3. Seen' \in Run!Ready("loop", Seen.signals)
    <3>1. CASE pc' = "finish"
      <4>1. Seen' = [phase |-> "done",
                     signals |-> Signalled(disk'.complete, TRUE)]
        BY <1>2, <2>1, <3>1 DEF Phase
      <4>2. Signalled(disk'.complete, TRUE) =
               [complete |-> CompleteBy[disk'.complete], blocked |-> TRUE]
        BY DEF Signalled
      <4>3. CompleteBy[disk'.complete] \in {Run!NoFile, Seen.signals.complete}
        BY <1>2, <1>3, <2>1, <3>1 DEF Signalled
      <4>4. Seen' \in Run!NotCleared(Seen.signals)
        BY <4>1, <4>2, <4>3 DEF Run!NotCleared, Run!At
      <4> QED
        BY <4>4 DEF Run!Ready
    <3>2. CASE pc' = "head"
      <4>1. [Seen.signals EXCEPT !.complete = Run!NoFile] =
               Signalled("absent", disk.blocked)
        BY <1>2, <1>3 DEF Signalled
      <4> QED
        BY <1>2, <2>1, <3>2, <4>1 DEF Phase, Run!Ready, Run!At
    <3> QED
      BY <2>1, <3>1, <3>2
  <2>4. Seen' \in Run!Moves("loop", "ready", Seen.signals, 1)
    BY <2>3 DEF Run!Moves
  <2>5. Seen' \in Run!Beginnings("loop", Seen.signals, 1)
    BY <2>2, <2>4 DEF Run!Beginnings, Run!At
  <2> QED
    BY <1>10, <2>5 DEF StartLoop, NewRun, Idle, Contract
<1>11. CASE DeadlineReached
  <2>1. disk'.complete = disk.complete /\ disk'.blocked = disk.blocked
    BY <1>1, <1>11 DEF DeadlineReached, Return, Shape, DiskNames
  <2>2. /\ Phase = "work" /\ Phase' = "done"
        /\ Signalled(disk'.complete, disk'.blocked) \in
              Run!BlockedOrNot(Seen.signals)
    BY <1>1, <1>b, <1>11, <2>1 DEF DeadlineReached, Return, Phase
  <2>3. Seen' \in Run!Work(mode, Seen.signals)
    BY <1>2, <2>2, <1>work DEF Run!At
  <2> QED
    BY <1>2, <1>keep, <1>11, <2>2, <2>3 DEF DeadlineReached, Run!Moves, runVars
<1>12. CASE MaxReached \/ AsksOperator \/ OperatorDeclines
  <2>1. disk'.complete = disk.complete /\ disk'.blocked = disk.blocked
    BY <1>1, <1>12
    DEF MaxReached, AsksOperator, OperatorDeclines, Return, Shape, DiskNames
  <2>2. /\ Phase = "work" /\ Phase' \in {"work", "done"}
        /\ Signalled(disk'.complete, disk'.blocked) \in
              Run!BlockedOrNot(Seen.signals)
    BY <1>1, <1>b, <1>12, <2>1
    DEF MaxReached, AsksOperator, OperatorDeclines, Return, Phase
  <2>3. Seen' \in Run!Work(mode, Seen.signals)
    BY <1>2, <2>2, <1>work DEF Run!At
  <2> QED
    BY <1>2, <1>keep, <1>12, <2>2, <2>3
    DEF MaxReached, AsksOperator, OperatorDeclines, Run!Moves, runVars
<1>13. CASE BeginCycle
  <2>1. disk'.complete = disk.complete /\ disk'.blocked = disk.blocked
    BY <1>1, <1>13 DEF BeginCycle, CycleStarts, Shape, DiskNames
  <2>2. /\ Phase = "work" /\ Phase' = "work"
        /\ Signalled(disk'.complete, disk'.blocked) \in
              Run!BlockedOrNot(Seen.signals)
    BY <1>1, <1>b, <1>13, <2>1 DEF BeginCycle, CycleStarts, Phase
  <2>3. Seen' \in Run!Work(mode, Seen.signals)
    BY <1>2, <2>2, <1>work DEF Run!At
  <2> QED
    BY <1>2, <1>keep, <1>13, <2>2, <2>3 DEF BeginCycle, Run!Moves, runVars
<1>14. CASE OperatorContinues
  <2>1. disk'.complete = disk.complete /\ disk'.blocked = disk.blocked
    BY <1>1, <1>14 DEF OperatorContinues, CycleStarts, Shape, DiskNames
  <2>2. /\ Phase = "work" /\ Phase' = "work"
        /\ Signalled(disk'.complete, disk'.blocked) \in
              Run!BlockedOrNot(Seen.signals)
    BY <1>1, <1>b, <1>14, <2>1 DEF OperatorContinues, CycleStarts, Phase
  <2>3. Seen' \in Run!Work(mode, Seen.signals)
    BY <1>2, <2>2, <1>work DEF Run!At
  <2> QED
    BY <1>2, <1>keep, <1>14, <2>2, <2>3 DEF OperatorContinues, Run!Moves, runVars
<1>15. CASE WorkPhaseReturns
  <2>1. disk'.complete = disk.complete /\ disk'.blocked \in BOOLEAN
    BY <1>1, <1>15 DEF WorkPhaseReturns, WorkerWrites, Shape, DiskNames
  <2>2. CASE mode = "loop"
    <3>1. Phase = "work" /\ Phase' = "work"
      BY <1>15, <2>2 DEF WorkPhaseReturns, Phase
    <3>2. Seen' \in Run!Work(mode, Seen.signals)
      BY <1>2, <1>b, <1>work, <2>1, <3>1 DEF Run!At
    <3> QED
      BY <1>2, <1>keep, <1>15, <3>1, <3>2 DEF WorkPhaseReturns, Run!Moves, runVars
  <2>3. CASE mode # "loop"
    <3>1. Phase = "work" /\ Phase' = "done"
      BY <1>15, <2>3 DEF WorkPhaseReturns, Return, Phase
    <3>2. Seen' \in Run!Work(mode, Seen.signals)
      BY <1>2, <1>b, <1>work, <2>1, <3>1 DEF Run!At
    <3> QED
      BY <1>2, <1>keep, <1>15, <3>1, <3>2 DEF WorkPhaseReturns, Run!Moves, runVars
  <2> QED
    BY <2>2, <2>3
<1>16. CASE WorkPhaseFails
  <2>1. disk'.complete = disk.complete /\ disk'.blocked \in BOOLEAN
    BY <1>1, <1>16 DEF WorkPhaseFails, WorkerWrites, Shape, DiskNames
  <2>2. /\ Phase = "work" /\ Phase' = "done"
        /\ Signalled(disk'.complete, disk'.blocked) \in
              Run!BlockedOrNot(Seen.signals)
    BY <1>1, <1>b, <1>16, <2>1 DEF WorkPhaseFails, Return, Phase
  <2>3. Seen' \in Run!Work(mode, Seen.signals)
    BY <1>2, <2>2, <1>work DEF Run!At
  <2> QED
    BY <1>2, <1>keep, <1>16, <2>2, <2>3 DEF WorkPhaseFails, Run!Moves, runVars
<1>17. CASE BlockedFound
  <2>1. disk'.complete = disk.complete /\ disk'.blocked = disk.blocked
    BY <1>1, <1>17 DEF BlockedFound, Return, Shape, DiskNames
  <2>2. /\ Phase = "work" /\ Phase' = "done"
        /\ Signalled(disk'.complete, disk'.blocked) \in
              Run!BlockedOrNot(Seen.signals)
    BY <1>1, <1>b, <1>17, <2>1 DEF BlockedFound, Return, Phase
  <2>3. Seen' \in Run!Work(mode, Seen.signals)
    BY <1>2, <2>2, <1>work DEF Run!At
  <2> QED
    BY <1>2, <1>keep, <1>17, <2>2, <2>3 DEF BlockedFound, Run!Moves, runVars
<1>18. CASE ScopeLock
  <2>1. disk'.complete = disk.complete /\ disk'.blocked = disk.blocked
    BY <1>1, <1>18 DEF ScopeLock, Return, Shape, DiskNames
  <2>2. /\ Phase = "work" /\ Phase' = "work"
        /\ Signalled(disk'.complete, disk'.blocked) \in
              Run!BlockedOrNot(Seen.signals)
    BY <1>1, <1>b, <1>18, <2>1 DEF ScopeLock, Phase
  <2>3. Seen' \in Run!Work(mode, Seen.signals)
    BY <1>2, <2>2, <1>work DEF Run!At
  <2> QED
    BY <1>2, <1>keep, <1>18, <2>2, <2>3 DEF ScopeLock, Run!Moves, runVars
<1>19. CASE GatesStart
  <2>1. disk'.complete = disk.complete /\ disk'.blocked = disk.blocked
    BY <1>1, <1>19 DEF GatesStart, Return, Shape, DiskNames
  <2>2. /\ Phase = "work" /\ Phase' = "gates"
        /\ mode = "loop" /\ ~Seen.signals.blocked
    BY <1>1, <1>2, <1>19 DEF GatesStart, Phase, Places, Signalled
  <2>3. Seen' = Run!At("gates", Seen.signals)
    BY <1>2, <2>1, <2>2 DEF Run!At
  <2>4. Seen' \in Run!Work(mode, Seen.signals)
    BY <2>2, <2>3 DEF Run!Work
  <2> QED
    BY <1>2, <1>keep, <1>19, <2>2, <2>4 DEF GatesStart, Run!Moves, runVars
<1>20. CASE GateProcessWrites
  <2>1. \/ disk'.complete = disk.complete /\ disk'.blocked \in BOOLEAN
        \/ disk'.complete \in {"absent", "stray"} /\ disk'.blocked = disk.blocked
    BY <1>1, <1>20 DEF GateProcessWrites, Shape, DiskNames
  <2>2. /\ [Seen.signals EXCEPT !.complete = Run!StrayFile] =
              Signalled("stray", disk.blocked)
        /\ [Seen.signals EXCEPT !.complete = Run!NoFile] =
              Signalled("absent", disk.blocked)
    BY <1>2, <1>3 DEF Signalled
  <2>3. \/ Signalled(disk'.complete, disk'.blocked) \in Run!BlockedOrNot(Seen.signals)
        \/ \E c \in {Run!NoFile, Run!StrayFile} :
              Signalled(disk'.complete, disk'.blocked) = [Seen.signals EXCEPT !.complete = c]
    BY <1>b, <2>1, <2>2
  <2>4. Phase' = "gates"
    BY <1>20 DEF GateProcessWrites, Phase
  <2>5. Seen' = Run!At("gates", Signalled(disk'.complete, disk'.blocked))
    BY <1>2, <2>4 DEF Run!At
  <2>6. Seen' \in Run!Gates(Seen.signals)
    BY <2>3, <2>5 DEF Run!Gates
  <2> QED
    BY <1>1, <1>2, <1>20, <2>6
    DEF GateProcessWrites, Contract, Phase, Run!Moves, runVars
<1>21. CASE GatesDone
  <2>1. \/ /\ pc' = "finish" /\ disk'.blocked = TRUE
           /\ disk'.complete \in {"absent", disk.complete}
        \/ /\ pc' = "review" /\ disk'.blocked = disk.blocked
           /\ disk'.complete = "absent"
    BY <1>1, <1>21 DEF GatesDone, Return, ClearedAfterGates, Shape, DiskNames,
                       Cleared, Left, AfterGates, EmptyDisk
  <2>2. Seen' \in Run!Gates(Seen.signals)
    <3>1. CASE pc' = "finish"
      <4>1. Seen' = [phase |-> "done",
                     signals |-> Signalled(disk'.complete, TRUE)]
        BY <1>2, <2>1, <3>1 DEF Phase
      <4>2. Signalled(disk'.complete, TRUE) =
               [complete |-> CompleteBy[disk'.complete], blocked |-> TRUE]
        BY DEF Signalled
      <4>3. CompleteBy[disk'.complete] \in {Run!NoFile, Seen.signals.complete}
        BY <1>2, <1>3, <2>1, <3>1 DEF Signalled
      <4>4. Seen' \in Run!NotCleared(Seen.signals)
        BY <4>1, <4>2, <4>3 DEF Run!NotCleared, Run!At
      <4> QED
        BY <4>4 DEF Run!Gates
    <3>2. CASE pc' = "review"
      <4>1. [Seen.signals EXCEPT !.complete = Run!NoFile] =
               Signalled("absent", disk.blocked)
        BY <1>2, <1>3 DEF Signalled
      <4> QED
        BY <1>2, <2>1, <3>2, <4>1 DEF Phase, Run!Gates, Run!At
    <3> QED
      BY <2>1, <3>1, <3>2
  <2>3. Phase = "gates"
    BY <1>21 DEF GatesDone, Phase
  <2> QED
    BY <1>2, <1>keep, <1>21, <2>2, <2>3 DEF GatesDone, Run!Moves, runVars
<1>22. CASE ReviewReturns
  <2>1. disk'.complete = disk.complete /\ disk'.blocked = disk.blocked
    BY <1>1, <1>22 DEF ReviewReturns, Return, Shape, DiskNames
  <2>2. Phase = "review" /\ Phase' \in {"review", "done"}
    BY <1>22 DEF ReviewReturns, Return, Phase
  <2>3. Seen' \in Run!Review(mode, Seen.signals, 1)
    BY <1>2, <1>4, <1>end, <1>same, <2>1, <2>2 DEF Run!At
  <2> QED
    BY <1>2, <1>keep, <1>22, <2>2, <2>3 DEF ReviewReturns, Run!Moves, runVars
<1>23. CASE ReviewFails
  <2>1. disk'.complete = disk.complete /\ disk'.blocked \in {disk.blocked, TRUE}
    BY <1>1, <1>23 DEF ReviewFails, Return, Shape, DiskNames
  <2>2. /\ Phase = "review" /\ Phase' = "done"
        /\ Signalled(disk'.complete, disk'.blocked) \in
              Run!PerhapsBlocked(Seen.signals)
    BY <1>1, <1>4, <1>23, <2>1 DEF ReviewFails, Return, Phase
  <2>3. Seen' \in Run!Review(mode, Seen.signals, 1)
    BY <1>2, <2>2, <1>end, <1>same, <1>4, <2>1 DEF Run!At
  <2> QED
    BY <1>2, <1>keep, <1>23, <2>2, <2>3 DEF ReviewFails, Run!Moves, runVars
<1>24. CASE Revise
  <2>1. disk'.complete = disk.complete /\ disk'.blocked = disk.blocked
    BY <1>1, <1>24 DEF Revise, Return, Shape, DiskNames
  <2>2. /\ Phase = "review" /\ Phase' = "review"
        /\ Signalled(disk'.complete, disk'.blocked) \in
              Run!PerhapsBlocked(Seen.signals)
    BY <1>1, <1>4, <1>24, <2>1 DEF Revise, Phase
  <2>3. Seen' \in Run!Review(mode, Seen.signals, 1)
    BY <1>2, <2>2, <1>end, <1>same, <1>4, <2>1 DEF Run!At
  <2> QED
    BY <1>2, <1>keep, <1>24, <2>2, <2>3 DEF Revise, Run!Moves, runVars
<1>25. CASE Override
  <2>1. disk'.complete = disk.complete /\ disk'.blocked = disk.blocked
    BY <1>1, <1>25 DEF Override, Return, Shape, DiskNames
  <2>2. /\ Phase = "review" /\ Phase' = "review"
        /\ Signalled(disk'.complete, disk'.blocked) \in
              Run!PerhapsBlocked(Seen.signals)
    BY <1>1, <1>4, <1>25, <2>1 DEF Override, Phase
  <2>3. Seen' \in Run!Review(mode, Seen.signals, 1)
    BY <1>2, <2>2, <1>end, <1>same, <1>4, <2>1 DEF Run!At
  <2> QED
    BY <1>2, <1>keep, <1>25, <2>2, <2>3 DEF Override, Run!Moves, runVars
<1>26. CASE Ship
  <2>1. disk'.complete = "engine" /\ disk'.blocked = disk.blocked
    BY <1>1, <1>26 DEF Ship, Shape, DiskNames
  <2>2. [Seen.signals EXCEPT !.complete = 1] = Signalled("engine", disk.blocked)
    BY <1>2, <1>3 DEF Signalled
  <2> QED
    BY <1>1, <1>2, <1>26, <2>1, <2>2 DEF Ship, Return, Run!Review, Contract,
       Phase, Run!At, Run!Moves, runVars, Places
<1>27. CASE Stalled
  <2>1. disk'.complete = disk.complete /\ disk'.blocked \in {disk.blocked, TRUE}
    BY <1>1, <1>27 DEF Stalled, Return, Shape, DiskNames
  <2>2. /\ Phase = "review" /\ Phase' = "done"
        /\ Signalled(disk'.complete, disk'.blocked) \in
              Run!PerhapsBlocked(Seen.signals)
    BY <1>1, <1>4, <1>27, <2>1 DEF Stalled, Return, Phase
  <2>3. Seen' \in Run!Review(mode, Seen.signals, 1)
    BY <1>2, <2>2, <1>end, <1>same, <1>4, <2>1 DEF Run!At
  <2> QED
    BY <1>2, <1>keep, <1>27, <2>2, <2>3 DEF Stalled, Run!Moves, runVars
<1>28. CASE NextCycle
  <2>1. disk'.complete = disk.complete /\ disk'.blocked = disk.blocked
    BY <1>1, <1>28 DEF NextCycle, Return, Shape, DiskNames
  <2> QED
    BY <1>1, <1>2, <1>4, <1>28, <2>1 DEF NextCycle, Run!Review, Contract,
       Phase, Run!At, Run!Moves, runVars, Places
<1>29. CASE Finish
  <2>1. disk'.complete = disk.complete /\ disk'.blocked = disk.blocked
    BY <1>1, <1>29 DEF Finish, Return, Shape, DiskNames
  <2> QED
    BY <1>1, <1>2, <1>4, <1>29, <2>1 DEF Finish, Return, Contract, Phase,
       Run!At, Run!Moves, runVars, Places
<1>30. CASE Crash
  <2>1. disk'.complete = disk.complete /\ disk'.blocked = disk.blocked
    BY <1>1, <1>30 DEF Crash, Return, Shape, DiskNames
  <2> QED
    BY <1>1, <1>2, <1>4, <1>30, <2>1 DEF Crash, Return, Contract, Phase,
       Run!At, Run!Moves, runVars, Places
<1> QED
  BY <1>5, <1>6, <1>7, <1>8, <1>9, <1>10, <1>11, <1>12, <1>13, <1>14, <1>15,
     <1>16, <1>17, <1>18, <1>19, <1>20, <1>21, <1>22, <1>23, <1>24, <1>25,
     <1>26, <1>27, <1>28, <1>29, <1>30
  DEF Next, BetweenRuns, EngineStep, PhaseEnds, OperatorAnswers

\* The run as the control server and the dashboard rely on it: for every
\* step, what it may do to .complete and BLOCKED.md.
THEOREM LoopFollowsContract == Spec => FollowsContract
<1>1. TypeOK /\ LoopIInv /\ [Next]_vars => [Contract]_vars
  BY ContractStep
<1> QED
  BY <1>1, LoopTypeCorrect, LoopInvariant, PTL
  DEF Spec, FollowsContract, Contract
-----------------------------------------------------------------------------

\* A nonempty set of line numbers has a greatest one.
LEMMA Greatest ==
    ASSUME NEW n \in Nat, NEW S \in SUBSET (1..n), S # {}
    PROVE  Max(S) \in S /\ \A k \in S : k <= Max(S)
<1> DEFINE T == {n - k : k \in S}
           R == {p \in Nat \X Nat : p[1] < p[2]}
<1>1. PICK k0 \in S : TRUE
  OBVIOUS
<1>2. T \subseteq Nat /\ n - k0 \in T
  OBVIOUS
<1>3. IsWellFoundedOn(R, Nat)
  BY NatLessThanWellFounded DEF OpToRel
<1>4. \A x, y \in Nat : x < y => <<x, y>> \in R
  OBVIOUS
<1> HIDE DEF R
<1>5. PICK x \in T : \A y \in T : <<y, x>> \notin R
  BY <1>2, <1>3, WFMin
<1>6. PICK m \in S : x = n - m
  OBVIOUS
<1>7. \A k \in S : m >= k
  <2> SUFFICES ASSUME NEW k \in S, ~(m >= k) PROVE FALSE
    OBVIOUS
  <2>1. n - k \in T /\ n - k < x /\ n - k \in Nat /\ x \in Nat
    BY <1>2, <1>6
  <2> QED
    BY <2>1, <1>4, <1>5
<1> QED
  BY <1>6, <1>7 DEF Max

\* What has been found out of the cycle when the verdict is looked at, and
\* what a SHIP has been checked against when the loop returns.
Earned ==
    /\ InLoop /\ pc \in {"review", "judge"} =>
          \A g \in CommandGates : results[g] # "UNCHECKED"
    /\ ShipEarned

\* A message that counts as a SHIP says so.
LEMMA ShipIsSaid ==
    ASSUME NEW msg \in Messages \cup {<<>>}, NormalizeVerdict(msg) = "SHIP"
    PROVE  SaysShip(msg)
<1>1. PICK n \in Nat : DOMAIN msg = 1..n
  BY TextAssumption
<1>2. CASE VerdictLines(msg) # {}
  <2>1. VerdictLines(msg) \in SUBSET (1..n)
    BY <1>1 DEF VerdictLines
  <2>2. /\ Max(VerdictLines(msg)) \in VerdictLines(msg)
        /\ \A l \in VerdictLines(msg) : l <= Max(VerdictLines(msg))
    BY <1>2, <2>1, Greatest
  <2>3. msg[Max(VerdictLines(msg))].verdict = "SHIP"
    BY <1>2 DEF NormalizeVerdict
  <2> QED
    BY <2>2, <2>3 DEF SaysShip, VerdictLines
<1>3. CASE VerdictLines(msg) = {}
  <2>1. msg # <<>> /\ msg[1].verdict = "SHIP"
    BY <1>3 DEF NormalizeVerdict
  <2>2. 1 \in DOMAIN msg
    BY <2>1, TextAssumption
  <2> QED
    BY <1>3, <2>1, <2>2 DEF SaysShip
<1> QED
  BY <1>2, <1>3

\* Every step keeps Earned: only Ship leads to a SHIP, and it has just judged
\* the message and overridden nothing.
LEMMA EarnedStep == TypeOK /\ Places /\ Earned /\ [Next]_vars => Earned'
<1> SUFFICES ASSUME TypeOK, Places, Earned, [Next]_vars PROVE Earned'
  OBVIOUS
<1>1. CASE Ship
  <2>1. /\ Verdict = "SHIP" /\ Overrides = {}
        /\ UNCHANGED <<results, message, reads, snapshot, mode>>
        /\ pc = "judge" /\ mode = "loop" /\ pc' = "finish"
        /\ disk'.summary = disk.summary
    BY <1>1 DEF Ship, Return, runVars, loopVars, cycleVars, Places
  <2>2. SaysShip(message)
    BY <2>1, ShipIsSaid DEF Verdict, TypeOK
  <2>6. SaysShip(message)'
    BY <2>1, <2>2 DEF SaysShip, VerdictLines
  <2>3. ASSUME snapshot = NoAudit
        PROVE  Unread = {} /\ Failing = {}
    <3>1. PICK out \in Outputs : TRUE
      BY TextAssumption
    <3> DEFINE ByGate == {<<"gate", x>> : x \in Failing \X Outputs}
    <3>2. Overrides =
             IF ScopeError THEN {ScopeText}
             ELSE IF disk.index.unchecked > 0
                  THEN {<<"coverage", disk.index.unchecked>>}
             ELSE IF snapshot # NoAudit THEN {}
             ELSE IF Unread # {} THEN {<<"unread", Unread>>} ELSE ByGate
      BY DEF Overrides
    <3>3. \A g \in Failing : <<"gate", <<g, out>>>> \in ByGate
      BY <3>1
    <3> HIDE DEF ByGate
    <3>4. Unread = {} /\ ByGate = {}
      BY <2>1, <2>3, <3>2
    <3> QED
      BY <3>3, <3>4
  <2>4. \A g \in CommandGates : results[g] \in {"PASS", "FAIL"}
    BY <2>1 DEF Earned, InLoop, TypeOK, GateStatus
  <2>5. ShipEarned'
    BY <2>1, <2>3, <2>4, <2>6 DEF ShipEarned, Unread, Failing
  <2> QED
    BY <2>1, <2>5 DEF Earned
<1>2. CASE PlannerWritesIndex \/ Reset \/ OperatorFrees \/ RunRefused \/ ProviderNotReady
  BY <1>2 DEF PlannerWritesIndex, Reset, OperatorFrees, RunRefused,
     ProviderNotReady, Idle, NewRun, runVars, Earned, ShipEarned
<1>3. CASE StartWorker \/ StartReviewer
  BY <1>3 DEF StartWorker, StartReviewer, StartPhase, NewRun, InLoop, Earned, ShipEarned,
     Idle
<1>4. CASE StartLoop
  BY <1>4 DEF StartLoop, NewRun, Running, Earned, ShipEarned
<1>5. CASE \/ DeadlineReached \/ MaxReached \/ AsksOperator \/ OperatorDeclines
            \/ BlockedFound
  BY <1>5 DEF DeadlineReached, MaxReached, AsksOperator, OperatorDeclines, BlockedFound,
     Return, Earned, ShipEarned
<1>6. CASE BeginCycle \/ OperatorContinues
  BY <1>6 DEF BeginCycle, OperatorContinues, CycleStarts, Earned, ShipEarned
<1>7. CASE WorkPhaseReturns \/ WorkPhaseFails
  BY <1>7 DEF WorkPhaseReturns, WorkPhaseFails, Return, InLoop, runVars,
     Earned, ShipEarned
<1>8. CASE ScopeLock \/ GatesStart
  BY <1>8 DEF ScopeLock, GatesStart, Earned, ShipEarned
<1>9. CASE GateProcessWrites
  BY <1>9 DEF GateProcessWrites, Earned, ShipEarned
<1>10. CASE GatesDone
  BY <1>10 DEF GatesDone, Return, Earned, ShipEarned
<1>11. CASE ReviewReturns \/ ReviewFails
  BY <1>11 DEF ReviewReturns, ReviewFails, Return, InLoop, runVars, Earned,
     ShipEarned
<1>12. CASE Revise \/ Override \/ NextCycle
  BY <1>12 DEF Revise, Override, NextCycle, Earned, ShipEarned
<1>13. CASE Stalled
  BY <1>13 DEF Stalled, Return, Earned, ShipEarned
<1>14. CASE Finish \/ Crash
  BY <1>14 DEF Finish, Crash, Earned, ShipEarned
<1>15. CASE UNCHANGED vars
  BY <1>15 DEF vars, runVars, loopVars, cycleVars, Earned, ShipEarned, InLoop,
     SaysShip, VerdictLines
<1> QED
  BY <1>1, <1>2, <1>3, <1>4, <1>5, <1>6, <1>7, <1>8, <1>9, <1>10, <1>11,
     <1>12, <1>13, <1>14, <1>15
  DEF Next, BetweenRuns, EngineStep, PhaseEnds, OperatorAnswers

\* A run ships on a message whose last verdict line says SHIP, or that has none
\* and opens with SHIP; outside audits every deliverable was read and every
\* command gate passed.
THEOREM LoopShipEarned == Spec => []ShipEarned
<1>1. Init => Earned
  BY DEF Init, Earned, ShipEarned
<1>2. TypeOK /\ LoopIInv /\ Earned /\ [Next]_vars => Earned'
  BY EarnedStep DEF LoopIInv
<1>3. Earned => ShipEarned
  BY DEF Earned
<1> QED
  BY <1>1, <1>2, <1>3, LoopTypeCorrect, LoopInvariant, PTL DEF Spec

-----------------------------------------------------------------------------
(* The end of a run.                                                       *)

\* More steps than one cycle takes, the writes of its gate processes included.
PerCycle == MaxStrays + 8

\* A bound on the steps a run has left, by where it is.
Later == (Limit - i) * PerCycle

StepsLeft ==
    CASE pc = "idle" -> 0
      [] pc = "finish" -> 1
      [] pc = "prompt" -> Later + 2
      [] pc = "head" -> Later + 3
      [] pc = "revise" -> Later + 4
      [] pc = "judge" -> Later + 5
      [] pc = "review" -> Later + 6
      [] pc = "gates" -> Later + 7 + (MaxStrays - strays)
      [] pc = "worked" -> Later + 8 + MaxStrays
      [] pc = "work" -> Later + 9 + MaxStrays

\* The iteration is never beyond the limit, the operator is asked when it is
\* reached, and a run starts counting afresh.
WithinLimit ==
    /\ i <= Limit
    /\ pc = "prompt" => i = Limit
    /\ strays \in 0..MaxStrays
    /\ pc = "idle" => i = 0 /\ extra = 0

\* Every step of the loop keeps that.
LEMMA LimitKept == ASSUME TypeOK, TypeOK', WithinLimit, [Next]_vars PROVE WithinLimit'
<1>a. /\ i \in Nat /\ extra \in Nat /\ strays \in Nat /\ i <= MaxIterations + extra
      /\ strays \in 0..MaxStrays
      /\ MaxIterations \in Nat /\ MaxStrays \in Nat
      /\ pc = "idle" => i = 0 /\ extra = 0
  BY LimitsAssumption DEF TypeOK, WithinLimit, Limit
\* Most steps leave the iteration and the limit alone.
<1>b. ASSUME i' = i, extra' = extra, strays' \in {0, strays},
             pc' \notin {"idle", "prompt"}
      PROVE  WithinLimit'
  BY <1>a, <1>b DEF WithinLimit, Limit
<1>1. CASE BetweenRuns
  BY <1>a, <1>1 DEF BetweenRuns, PlannerWritesIndex, Reset, OperatorFrees, RunRefused,
              ProviderNotReady, StartWorker, StartReviewer, StartPhase, StartLoop,
              NewRun, Idle, loopVars, Running, WithinLimit, Limit
<1>2. CASE BeginCycle \/ OperatorContinues
  BY <1>a, <1>2 DEF BeginCycle, OperatorContinues, CycleStarts, WithinLimit, Limit
<1>3. CASE \/ DeadlineReached \/ MaxReached \/ OperatorDeclines
            \/ WorkPhaseReturns \/ WorkPhaseFails
  BY <1>a, <1>b, <1>3 DEF DeadlineReached, MaxReached, OperatorDeclines,
              WorkPhaseReturns, WorkPhaseFails, Return, loopVars
<1>4. CASE BlockedFound
  BY <1>a, <1>b, <1>4 DEF BlockedFound, Return, loopVars
<1>5. CASE ScopeLock
  BY <1>a, <1>b, <1>5 DEF ScopeLock, Return, loopVars
<1>6. CASE GatesStart
  BY <1>a, <1>b, <1>6 DEF GatesStart, loopVars
<1>7. CASE GatesDone
  BY <1>a, <1>b, <1>7 DEF GatesDone, Return, loopVars
<1>8. CASE ReviewReturns \/ ReviewFails \/ Revise \/ Override \/ Ship
  BY <1>a, <1>b, <1>8 DEF ReviewReturns, ReviewFails, Revise, Override, Ship, Return,
              loopVars
<1>9. CASE Stalled \/ NextCycle
  BY <1>a, <1>b, <1>9 DEF Stalled, NextCycle, Return
<1>10. CASE Finish \/ Crash
  BY <1>a, <1>10 DEF Finish, Crash, LocalsReset, WithinLimit, Limit
<1>11. CASE GateProcessWrites
  BY <1>a, <1>11 DEF GateProcessWrites, loopVars, WithinLimit, Limit
<1>12. CASE AsksOperator
  BY <1>a, <1>12 DEF AsksOperator, loopVars, WithinLimit, Limit
<1>13. CASE UNCHANGED vars
  BY <1>a, <1>13 DEF vars, loopVars, WithinLimit, Limit
<1> QED
  BY <1>1, <1>2, <1>3, <1>4, <1>5, <1>6, <1>7, <1>8, <1>9, <1>10, <1>11, <1>12, <1>13
     DEF Next, EngineStep, PhaseEnds, OperatorAnswers

\* Bounds multiply, and one round less is that many steps less.
LEMMA Rounds ==
    ASSUME NEW n \in Nat, NEW k \in Nat
    PROVE  /\ n * k \in Nat
           /\ n > 0 => (n - 1) * k = n * k - k
  OBVIOUS

\* The bound is 0 between runs and nowhere else.
LEMMA StepsLeftType ==
    TypeOK /\ WithinLimit =>
        Later \in Nat /\ StepsLeft \in Nat /\ ((StepsLeft = 0) <=> (pc = "idle"))
<1> SUFFICES ASSUME TypeOK, WithinLimit
             PROVE  /\ Later \in Nat /\ StepsLeft \in Nat
                    /\ (StepsLeft = 0) <=> (pc = "idle")
  OBVIOUS
<1>1. i \in Nat /\ extra \in Nat /\ pc \in Labels
  BY DEF TypeOK
<1>2. Limit - i \in Nat /\ PerCycle \in Nat /\ MaxStrays - strays \in Nat
  BY <1>1 DEF WithinLimit, Limit, PerCycle
<1>3. Later \in Nat
  BY <1>2, Rounds DEF Later
<1> QED
  BY <1>1, <1>2, <1>3 DEF Labels, StepsLeft

\* The start of a run: the iterations are before it.
LEMMA RunBegins ==
    ASSUME TypeOK, TypeOK', WithinLimit, WithinLimit', Next, pc = "idle", pc' # "idle"
    PROVE  StepsLeft' <= MaxIterations * PerCycle + 6
<1>1. /\ i = 0 /\ extra = 0 /\ extra' = extra
      /\ \/ pc' = "work" /\ i' = 1
         \/ pc' \in {"review", "head", "finish"} /\ i' = i
  BY DEF WithinLimit, Next, BetweenRuns, PlannerWritesIndex, Reset, OperatorFrees,
         RunRefused, ProviderNotReady, StartWorker, StartReviewer, StartPhase, StartLoop,
         NewRun, loopVars, GateProcessWrites, Crash, EngineStep, PhaseEnds,
         OperatorAnswers, DeadlineReached, MaxReached, AsksOperator, OperatorDeclines,
         BeginCycle, OperatorContinues, WorkPhaseReturns, WorkPhaseFails, BlockedFound,
         ScopeLock, GatesStart, GatesDone, ReviewReturns, ReviewFails, Revise, Override,
         Ship, Stalled, NextCycle, Finish
<1>2. Later' = (MaxIterations - i') * PerCycle
  BY <1>1 DEF Later, Limit, PerCycle
<1>3. MaxIterations * PerCycle \in Nat
      /\ (MaxIterations - 1) * PerCycle = MaxIterations * PerCycle - PerCycle
  BY Rounds DEF PerCycle
<1>4. MaxIterations - 0 = MaxIterations
  OBVIOUS
<1> QED
  BY <1>1, <1>2, <1>3, <1>4 DEF StepsLeft, PerCycle

\* A cycle more uses up one of those that are left.
LEMMA CycleCounts ==
    ASSUME TypeOK, TypeOK', WithinLimit, WithinLimit', pc' = "work"
    PROVE  /\ BeginCycle => StepsLeft' < StepsLeft
           /\ OperatorContinues => StepsLeft' < StepsLeft + MaxIterations * PerCycle
<1>1. CASE BeginCycle
  <2>1. Limit - i \in Nat \ {0} /\ Limit' - i' = (Limit - i) - 1
    <3>1. i \in Nat /\ extra \in Nat
      BY DEF TypeOK
    <3> QED
      BY <1>1, <3>1 DEF WithinLimit, Limit, BeginCycle, CycleStarts
  <2>2. Later' = Later - PerCycle
    BY <2>1, Rounds DEF Later, PerCycle
  <2>3. Later \in Int
    BY StepsLeftType
  <2>4. StepsLeft = Later + 3 /\ StepsLeft' = Later' + 9 + MaxStrays
    BY <1>1 DEF StepsLeft, BeginCycle
  <2> QED
    BY <1>1, <2>2, <2>3, <2>4 DEF PerCycle, OperatorContinues, BeginCycle
<1>2. CASE OperatorContinues
  <2>1. Limit - i = 0 /\ Limit' - i' = MaxIterations - 1
    <3>1. i \in Nat /\ extra \in Nat
      BY DEF TypeOK
    <3> QED
      BY <1>2, <3>1 DEF WithinLimit, Limit, OperatorContinues, CycleStarts
  <2>2. Later = 0 /\ Later' = MaxIterations * PerCycle - PerCycle
    BY <2>1, Rounds DEF Later, PerCycle
  <2>3. MaxIterations * PerCycle \in Int
    BY Rounds DEF PerCycle
  <2>4. StepsLeft = Later + 2 /\ StepsLeft' = Later' + 9 + MaxStrays
    BY <1>2 DEF StepsLeft, OperatorContinues
  <2>5. ~BeginCycle
    BY <1>2 DEF BeginCycle, OperatorContinues
  <2> QED
    BY <2>2, <2>3, <2>4, <2>5 DEF PerCycle
<1> QED
  BY <1>1, <1>2

\* Any other step of a run goes on within its cycle, to the next one or to the
\* end.
LEMMA StepCounts ==
    ASSUME TypeOK, TypeOK', WithinLimit, WithinLimit', Places, Next, pc # "idle"
    PROVE  \/ StepsLeft' < StepsLeft
           \/ /\ OperatorContinues
              /\ StepsLeft' < StepsLeft + MaxIterations * PerCycle
<1>1. /\ Later \in Nat /\ StepsLeft \in Nat /\ StepsLeft > 0
      /\ Later' \in Nat /\ StepsLeft' \in Nat /\ ((StepsLeft' = 0) <=> (pc' = "idle"))
      /\ MaxStrays - strays \in Nat /\ MaxStrays' = MaxStrays
  <2>1. (TypeOK /\ WithinLimit =>
           Later \in Nat /\ StepsLeft \in Nat /\ ((StepsLeft = 0) <=> (pc = "idle")))'
    BY StepsLeftType, PTL
  <2> QED
    BY <2>1, StepsLeftType DEF WithinLimit
<1>2. CASE pc' = "idle"
  BY <1>1, <1>2
<1>3. CASE pc' = "finish" /\ pc # "finish"
  <2>1. pc \in Labels
    BY DEF TypeOK
  <2>2. StepsLeft' = 1 /\ StepsLeft > 1
    BY <1>1, <1>3, <2>1 DEF Labels, StepsLeft
  <2> QED
    BY <2>2
<1>4. CASE BeginCycle \/ OperatorContinues
  BY <1>4, CycleCounts DEF BeginCycle, OperatorContinues, CycleStarts
<1>5. ASSUME UNCHANGED <<i, extra>>, NEW p, NEW q, pc = p, pc' = q,
             \/ <<p, q>> \in {<<"head", "prompt">>, <<"work", "worked">>, <<"worked", "head">>,
                              <<"worked", "gates">>, <<"gates", "review">>,
                              <<"review", "judge">>, <<"judge", "revise">>,
                              <<"revise", "head">>}
             \/ p = "gates" /\ q = "gates" /\ strays' = strays + 1
      PROVE  StepsLeft' < StepsLeft
  <2>1. Later' = Later
    BY <1>5 DEF Later, Limit
  <2> QED
    BY <1>1, <1>5, <2>1 DEF StepsLeft, WithinLimit
<1>6. CASE DeadlineReached \/ MaxReached \/ AsksOperator \/ OperatorDeclines
  BY <1>3, <1>5, <1>6
  DEF DeadlineReached, MaxReached, AsksOperator, OperatorDeclines, Return, loopVars
<1>7. CASE WorkPhaseReturns \/ WorkPhaseFails \/ BlockedFound
  BY <1>3, <1>5, <1>7 DEF WorkPhaseReturns, WorkPhaseFails, BlockedFound, Return, loopVars
<1>8. CASE ScopeLock \/ GatesStart
  BY <1>5, <1>8 DEF ScopeLock, GatesStart, loopVars
<1>9. CASE GatesDone
  BY <1>3, <1>5, <1>9 DEF GatesDone, Return, loopVars
<1>10. CASE GateProcessWrites
  BY <1>5, <1>10 DEF GateProcessWrites, loopVars
<1>11. CASE ReviewReturns \/ ReviewFails
  BY <1>3, <1>5, <1>11 DEF ReviewReturns, ReviewFails, Return, loopVars
<1>12. CASE Revise \/ Override \/ Ship
  BY <1>3, <1>5, <1>12 DEF Revise, Override, Ship, Return, loopVars
<1>13. CASE Stalled \/ NextCycle
  BY <1>3, <1>5, <1>13 DEF Stalled, NextCycle, Return
<1>14. CASE Finish \/ Crash \/ BetweenRuns
  <2>1. ~BetweenRuns
    BY DEF BetweenRuns, PlannerWritesIndex, Reset, OperatorFrees, RunRefused,
           ProviderNotReady, StartWorker, StartReviewer, StartLoop, NewRun, Idle
  <2> QED
    BY <1>2, <1>14, <2>1 DEF Finish, Crash
<1> QED
  BY <1>4, <1>6, <1>7, <1>8, <1>9, <1>10, <1>11, <1>12, <1>13, <1>14
  DEF Next, EngineStep, PhaseEnds, OperatorAnswers

\* Whatever the reviewer says, the gates do and the phases leave behind, a run
\* takes a number of steps that is fixed when it starts, and as many again
\* each time the operator grants more iterations: a number that is positive
\* until main_async returns gets smaller with every other step.  (The gate
\* processes count with MaxStrays writes a cycle; their timeout ends them.)
\* With the engine scheduled, which TLC checks, a run ends unless a phase or the
\* operator never answers.
THEOREM LoopRunsOut ==
    Spec => /\ [](StepsLeft \in Nat /\ ((StepsLeft = 0) <=> (pc = "idle")))
            /\ [][pc = "idle" /\ pc' # "idle" =>
                     StepsLeft' <= MaxIterations * PerCycle + 6]_vars
            /\ [][pc # "idle" =>
                     \/ StepsLeft' < StepsLeft
                     \/ /\ OperatorContinues
                        /\ StepsLeft' < StepsLeft + MaxIterations * PerCycle]_vars
<1> DEFINE IInv == TypeOK /\ LoopIInv /\ WithinLimit
<1>1. Init => WithinLimit
  BY DEF Init, WithinLimit, Limit
<1>2. Spec => []IInv
  <2>1. TypeOK /\ TypeOK' /\ WithinLimit /\ [Next]_vars => WithinLimit'
    BY LimitKept
  <2> QED
    BY <1>1, <2>1, LoopTypeCorrect, LoopInvariant, PTL DEF Spec
<1>3. IInv => StepsLeft \in Nat /\ ((StepsLeft = 0) <=> (pc = "idle"))
  BY StepsLeftType
<1>4. IInv /\ IInv' /\ [Next]_vars =>
         [pc = "idle" /\ pc' # "idle" => StepsLeft' <= MaxIterations * PerCycle + 6]_vars
  BY RunBegins
<1>5. IInv /\ IInv' /\ [Next]_vars =>
         [pc # "idle" => \/ StepsLeft' < StepsLeft
                         \/ /\ OperatorContinues
                            /\ StepsLeft' < StepsLeft + MaxIterations * PerCycle]_vars
  BY StepCounts DEF LoopIInv
<1> QED
  BY <1>2, <1>3, <1>4, <1>5, PTL DEF Spec
===============================================================================
