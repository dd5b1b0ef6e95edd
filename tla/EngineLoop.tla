----------------------------- MODULE EngineLoop -----------------------------
(***************************************************************************)
(* The outer loop of the engine (src/ai/engine/src/orchestrator.py): one   *)
(* process started again and again over one state directory, each time     *)
(* running work and review phases until the reviewer ships, something      *)
(* blocks the run, or a limit is reached.                                  *)
(*                                                                         *)
(* The state directory ("disk") outlives the runs.  It is written by the   *)
(* engine, by the worker (never the signal files), by the gate processes,  *)
(* which run code the worker wrote and may write anything, and by the      *)
(* operator between runs.  A phase is one step here: module WorkPhase      *)
(* models what happens inside it.                                          *)
(***************************************************************************)
EXTENDS Integers, Sequences, FiniteSets, FiniteSetsExt

CONSTANTS
    Deliverables,    \* files a work summary may name
    CommandGates,    \* command gates of the loop stage ("pytest", ...)
    Outputs,         \* what a failing gate may print
    Messages,        \* final messages of a reviewer: sequences of lines
    MaxItems,        \* bound: items of an audit index
    MaxIterations,   \* loop.max_iterations
    StallThreshold,  \* stall_threshold
    MaxExtensions,   \* bound: times the operator grants more iterations
    MaxRuns,         \* bound: runs over one state directory
    MaxStrays,       \* bound: alterations by the gate processes of a cycle
    Sticky           \* bound: entries that may turn out not removable

ASSUME LimitsAssumption ==
    /\ MaxItems \in Nat
    /\ MaxIterations \in Nat \ {0}
    /\ StallThreshold \in Nat \ {0}
    /\ MaxExtensions \in Nat
    /\ MaxRuns \in Nat
    /\ MaxStrays \in Nat

\* A message has lines; a gate that fails prints something or nothing.
ASSUME TextAssumption ==
    /\ \A msg \in Messages : Len(msg) \in Nat /\ DOMAIN msg = 1..Len(msg)
    /\ Outputs # {}

VARIABLES
    pc,           \* where the run is; "idle" between runs
    mode,         \* args.mode
    runs,         \* runs started so far
    i,            \* the loop iteration
    extra,        \* _extra, in multiples of MaxIterations
    snapshot,     \* _audit_original_count
    lastFeedback, \* what _last_feedback_hash hashes
    stallCount,   \* _stall_count
    results,      \* _command_results
    message,      \* reviewer_final_msg
    reads,        \* _reviewer_read_paths
    rc,           \* exit code of the latest run
    disk,         \* the state directory
    stuck,        \* entries that cannot be removed
    strays,       \* alterations by the gate processes of this cycle
    objection,    \* history: what the last finished cycle objected
    streak        \* history: reviewed cycles in a row with one objection

runVars == <<mode, runs>>
loopVars == <<i, extra, snapshot, lastFeedback, stallCount>>
cycleVars == <<results, message, reads>>
history == <<objection, streak>>
vars == <<pc, runVars, loopVars, cycleVars, rc, disk, stuck, strays, history>>

-----------------------------------------------------------------------------
(* The state directory.                                                    *)

Author == {"absent", "engine", "stray"}

NoSummary == [cycle |-> 0, names |-> {}]
Summary(cycle, names) == [cycle |-> cycle, names |-> names]

\* Feedback is tagged by what wrote it; equal content means equal hash.
NoFeedback == <<"none">>
Stray == <<"stray">>

\* An audit index by its items; one without items reads like an absent file.
Indexes == {x \in [checked : 0..MaxItems, unchecked : 0..MaxItems] :
                x.checked + x.unchecked <= MaxItems}
NoIndex == [checked |-> 0, unchecked |-> 0]
Items(index) == index.checked + index.unchecked

NoAudit == -1
Running == -1

\* SKIPPED, of a gate with nothing to check, never differs from PASS here.
GateStatus == {"PASS", "FAIL", "UNCHECKED"}

EmptyDisk ==
    [summary |-> NoSummary, feedback |-> NoFeedback, workComplete |-> FALSE,
     complete |-> "absent", awaiting |-> "absent", timeout |-> "absent",
     blocked |-> FALSE, index |-> NoIndex]

\* clear_state of one entry: what cannot be removed stays.
Cleared(name) == IF name \in stuck THEN disk[name] ELSE EmptyDisk[name]

\* The names clear_state returns: present, and not removable.
Left(names) == {n \in names \cap stuck : disk[n] # EmptyDisk[n]}

-----------------------------------------------------------------------------
(* Verdicts.  A line is a verdict word, some text, or a verdict word       *)
(* followed by text; a message is a sequence of lines.                     *)

Line(verdict, text) == [verdict |-> verdict, text |-> text]

IsVerdictLine(line) == line.verdict # "" /\ line.text = ""

VerdictLines(msg) == {k \in DOMAIN msg : IsVerdictLine(msg[k])}

\* Mutant of NormalizeVerdict: the leading token is looked at first.
NormalizeVerdict_LeadingFirst(msg) ==
    IF msg # <<>> /\ msg[1].verdict = "SHIP" THEN "SHIP" ELSE "REVISE"

\* The last line that is only a verdict; else the word the message opens with.
NormalizeVerdict(msg) ==
    IF VerdictLines(msg) # {} THEN msg[Max(VerdictLines(msg))].verdict
    ELSE IF msg # <<>> /\ msg[1].verdict = "SHIP" THEN "SHIP" ELSE "REVISE"

\* The message without its verdict.
StripVerdict(msg) ==
    IF VerdictLines(msg) # {} THEN SelectSeq(msg, LAMBDA l : ~IsVerdictLine(l))
    ELSE IF msg = <<>> THEN <<>> ELSE [msg EXCEPT ![1].verdict = ""]

-----------------------------------------------------------------------------
(* Between runs.                                                           *)

Idle == pc = "idle" /\ runs < MaxRuns

\* The gate results, message and reads of a cycle are not read after it.
CycleForgotten ==
    /\ results' = [g \in CommandGates |-> "PASS"]
    /\ message' = <<>>
    /\ reads' = {}

\* The locals of run_loop, as a new process has them.
LocalsReset ==
    /\ i' = 0 /\ extra' = 0 /\ snapshot' = NoAudit
    /\ lastFeedback' = NoFeedback /\ stallCount' = 0
    /\ CycleForgotten
    /\ strays' = 0
    /\ objection' = NoFeedback /\ streak' = [on |-> NoFeedback, n |-> 0]

Init ==
    /\ pc = "idle" /\ mode = "loop" /\ runs = 0
    /\ i = 0 /\ extra = 0 /\ snapshot = NoAudit
    /\ lastFeedback = NoFeedback /\ stallCount = 0
    /\ results = [g \in CommandGates |-> "PASS"]
    /\ message = <<>> /\ reads = {}
    /\ rc = Running /\ disk = EmptyDisk /\ stuck = {} /\ strays = 0
    /\ objection = NoFeedback /\ streak = [on |-> NoFeedback, n |-> 0]

\* The planner lists the items of an audit for the next run.
PlannerWritesIndex ==
    /\ Idle
    /\ \E n \in 1..MaxItems :
          disk' = [disk EXCEPT !.index = [checked |-> 0, unchecked |-> n]]
    /\ UNCHANGED <<pc, runVars, loopVars, cycleVars, rc, stuck, history,
                   strays>>

\* --mode reset: _RESET_FILES.  Not among them: awaiting-approval.md.
Reset ==
    /\ Idle
    /\ disk' = [disk EXCEPT
          !.summary = Cleared("summary"), !.feedback = Cleared("feedback"),
          !.workComplete = Cleared("workComplete"),
          !.complete = Cleared("complete"), !.timeout = Cleared("timeout"),
          !.blocked = Cleared("blocked"), !.index = Cleared("index")]
    /\ rc' = IF Left({"summary", "feedback", "workComplete", "complete",
                      "timeout", "blocked", "index"}) = {}
             THEN 0 ELSE 1
    /\ mode' = "reset"
    /\ UNCHANGED <<pc, runs, loopVars, cycleVars, stuck, history, strays>>

\* The operator removes by hand what the engine could not.
OperatorFrees ==
    /\ Idle
    /\ stuck # {}
    /\ stuck' = {}
    /\ UNCHANGED <<pc, runVars, loopVars, cycleVars, rc, disk, history,
                   strays>>

NewRun(m) ==
    /\ Idle
    /\ runs' = runs + 1
    /\ mode' = m
    /\ UNCHANGED stuck

\* Configuration, manifest or task errors (1), or prerequisites that are
\* missing (3): main_async returns before any state change.
RunRefused ==
    /\ NewRun("refused")
    /\ rc' \in {1, 3}
    /\ UNCHANGED <<pc, loopVars, cycleVars, disk, history, strays>>

\* A provider does not become ready.
ProviderNotReady ==
    /\ NewRun("refused")
    /\ disk' = [disk EXCEPT !.blocked = TRUE]
    /\ rc' = 1
    /\ UNCHANGED <<pc, loopVars, cycleVars, history, strays>>

\* A run of one phase, after the stale signal is removed; os.remove raises when
\* it cannot be, and that ends the run.
StartPhase(place) ==
    /\ rc' = Running
    /\ IF Left({"workComplete"}) # {} THEN UNCHANGED <<pc, disk>>
       ELSE pc' = place /\ disk' = [disk EXCEPT !.workComplete = FALSE]

\* --mode worker
StartWorker ==
    /\ NewRun("worker")
    /\ StartPhase("work")
    /\ i' = IF pc' = "work" THEN 1 ELSE i
    /\ UNCHANGED <<extra, snapshot, lastFeedback, stallCount, cycleVars,
                   strays, history>>

\* --mode reviewer
StartReviewer ==
    /\ NewRun("reviewer")
    /\ StartPhase("review")
    /\ UNCHANGED <<loopVars, cycleVars, strays, history>>

StartNames == {"feedback", "workComplete", "summary", "complete", "timeout",
               "awaiting"}

\* --mode loop, up to the loop: clear what earlier runs left (BLOCKED.md is
\* not among it), give up if that fails, and count the items of the audit.
StartLoop ==
    /\ NewRun("loop")
    /\ LET d == [disk EXCEPT !.feedback = Cleared("feedback"),
                             !.workComplete = Cleared("workComplete"),
                             !.summary = Cleared("summary"),
                             !.complete = Cleared("complete"),
                             !.timeout = Cleared("timeout"),
                             !.awaiting = Cleared("awaiting")]
       IN  IF Left(StartNames) # {}
           THEN /\ disk' = [d EXCEPT !.blocked = TRUE]
                /\ rc' = 1 /\ pc' = "finish"
                /\ UNCHANGED snapshot
           ELSE /\ disk' = d
                /\ rc' = Running /\ pc' = "head"
                /\ snapshot' = IF Items(d.index) = 0 THEN NoAudit
                               ELSE Items(d.index)
    /\ UNCHANGED <<i, extra, lastFeedback, stallCount, cycleVars, strays,
                   history>>

-----------------------------------------------------------------------------
(* The loop.                                                               *)

\* run_loop returns; _finish_run follows.
Return(code) == rc' = code /\ pc' = "finish"

Limit == MaxIterations + extra

\* The run has lasted longer than --duration.
DeadlineReached ==
    /\ pc = "head"
    /\ disk' = [disk EXCEPT !.timeout = "engine"]
    /\ Return(2)
    /\ UNCHANGED <<runVars, loopVars, cycleVars, stuck, history, strays>>

\* No more iterations, and no terminal to ask at.
MaxReached ==
    /\ pc = "head"
    /\ i + 1 > Limit
    /\ Return(1)
    /\ UNCHANGED <<runVars, loopVars, cycleVars, disk, stuck, history, strays>>

\* No more iterations: the operator is asked at the terminal.
AsksOperator ==
    /\ pc = "head"
    /\ i + 1 > Limit
    /\ pc' = "prompt"
    /\ UNCHANGED <<runVars, loopVars, cycleVars, rc, disk, stuck, history, strays>>

\* Another answer than "y", the end of the input or an interrupt.
OperatorDeclines ==
    /\ pc = "prompt"
    /\ Return(1)
    /\ UNCHANGED <<runVars, loopVars, cycleVars, disk, stuck, history, strays>>

\* Mutant of CycleStarts: the manifest of the cycle before is not cleared.
CycleStarts_KeepSummary ==
    /\ i' = i + 1
    /\ pc' = "work"
    /\ UNCHANGED disk

\* iteration.txt is written (its content is i) and the manifest cleared.
CycleStarts ==
    /\ i' = i + 1
    /\ disk' = [disk EXCEPT !.summary = Cleared("summary")]
    /\ pc' = "work"

BeginCycle ==
    /\ pc = "head"
    /\ i + 1 <= Limit
    /\ CycleStarts
    /\ UNCHANGED <<runVars, extra, snapshot, lastFeedback, stallCount,
                   cycleVars, rc, stuck, history, strays>>

\* "y" at the terminal: as many iterations again, the first one at once.
OperatorContinues ==
    /\ pc = "prompt"
    /\ extra < MaxExtensions * MaxIterations
    /\ extra' = extra + MaxIterations
    /\ CycleStarts
    /\ UNCHANGED <<runVars, snapshot, lastFeedback, stallCount, cycleVars, rc,
                   stuck, history, strays>>

\* What a manifest may be once somebody has written or deleted it.
Manifests == {NoSummary} \cup {Summary(i, n) : n \in SUBSET Deliverables}

\* What a worker may leave of the state directory: it may write and delete the
\* manifest, work-complete.txt, BLOCKED.md and the audit index; no signal file.
WorkerWrites ==
    \E s \in {disk.summary} \cup Manifests,
       complete, blocked \in BOOLEAN, index \in Indexes :
       disk' = [disk EXCEPT !.summary = s, !.workComplete = complete,
                            !.blocked = blocked, !.index = index]

\* The work phase returns 0: the loop goes on, a worker run ends.
WorkPhaseReturns ==
    /\ pc = "work"
    /\ WorkerWrites
    /\ IF mode = "loop" THEN pc' = "worked" /\ UNCHANGED rc ELSE Return(0)
    /\ UNCHANGED <<runVars, loopVars, cycleVars, stuck, history, strays>>

\* The work phase returns 1.
WorkPhaseFails ==
    /\ pc = "work"
    /\ WorkerWrites
    /\ Return(1)
    /\ UNCHANGED <<runVars, loopVars, cycleVars, stuck, history, strays>>

\* BLOCKED.md is there, of this run or of an earlier one.
BlockedFound ==
    /\ pc = "worked"
    /\ disk.blocked
    /\ Return(1)
    /\ UNCHANGED <<runVars, loopVars, cycleVars, disk, stuck, history, strays>>

\* _check_audit_scope: the number of items changed.  An index that has lost
\* all its items, or is gone, is not an error.
ScopeError ==
    /\ snapshot # NoAudit
    /\ Items(disk.index) \notin {0, snapshot}

ScopeText == <<"scope", snapshot, Items(disk.index)>>

\* Mutant of ScopeLock: the signal that ended the phase is not cleared.
ScopeLock_KeepSignal ==
    /\ pc = "worked"
    /\ ~disk.blocked
    /\ ScopeError
    /\ disk' = [disk EXCEPT !.feedback = ScopeText]
    /\ objection' = ScopeText
    /\ pc' = "head"
    /\ UNCHANGED <<runVars, loopVars, cycleVars, rc, stuck, streak, strays>>

\* Mutant of ScopeLock: the corrective cycle is not counted.
ScopeLock_NotCounted ==
    /\ pc = "worked"
    /\ ~disk.blocked
    /\ ScopeError
    /\ disk' = [disk EXCEPT !.feedback = ScopeText,
                            !.workComplete = Cleared("workComplete")]
    /\ objection' = ScopeText
    /\ i' = i - 1
    /\ pc' = "head"
    /\ UNCHANGED <<runVars, extra, snapshot, lastFeedback, stallCount,
                   cycleVars, rc, stuck, strays, streak>>

\* Corrective feedback, and on to the next cycle without a review.
ScopeLock ==
    /\ pc = "worked"
    /\ ~disk.blocked
    /\ ScopeError
    /\ disk' = [disk EXCEPT !.feedback = ScopeText,
                            !.workComplete = Cleared("workComplete")]
    /\ objection' = ScopeText
    /\ pc' = "head"
    /\ UNCHANGED <<runVars, loopVars, cycleVars, rc, stuck, streak, strays>>

GatesStart ==
    /\ pc = "worked"
    /\ ~disk.blocked
    /\ ~ScopeError
    /\ pc' = "gates"
    /\ UNCHANGED <<runVars, loopVars, cycleVars, rc, disk, stuck, history,
                   strays>>

\* A gate process writes or deletes some entry of the state directory, or makes
\* one impossible to remove.
GateProcessWrites ==
    /\ pc = "gates"
    /\ CommandGates # {}
    /\ strays < MaxStrays
    /\ strays' = strays + 1
    /\ \/ /\ \/ \E by \in {"absent", "stray"} :
                   \/ disk' = [disk EXCEPT !.complete = by]
                   \/ disk' = [disk EXCEPT !.awaiting = by]
                   \/ disk' = [disk EXCEPT !.timeout = by]
             \/ \E text \in {NoFeedback, Stray} :
                   disk' = [disk EXCEPT !.feedback = text]
             \/ \E there \in BOOLEAN :
                   \/ disk' = [disk EXCEPT !.workComplete = there]
                   \/ disk' = [disk EXCEPT !.blocked = there]
             \/ \E s \in Manifests : disk' = [disk EXCEPT !.summary = s]
             \/ \E index \in Indexes : disk' = [disk EXCEPT !.index = index]
          /\ UNCHANGED stuck
       \/ /\ \E name \in Sticky : stuck' = stuck \cup {name}
          /\ UNCHANGED disk
    /\ UNCHANGED <<pc, runVars, loopVars, cycleVars, rc, history>>

AfterGates == {"workComplete", "feedback", "complete", "awaiting"}

\* Mutant of ClearedAfterGates: .complete is left out of the list.
ClearedAfterGates_KeepComplete ==
    [disk EXCEPT !.workComplete = Cleared("workComplete"),
                 !.feedback = Cleared("feedback"),
                 !.awaiting = Cleared("awaiting")]

\* Mutant of ClearedAfterGates: the old feedback is left for the reviewer.
ClearedAfterGates_KeepFeedback ==
    [disk EXCEPT !.workComplete = Cleared("workComplete"),
                 !.complete = Cleared("complete"),
                 !.awaiting = Cleared("awaiting")]

ClearedAfterGates ==
    [disk EXCEPT !.workComplete = Cleared("workComplete"),
                 !.feedback = Cleared("feedback"),
                 !.complete = Cleared("complete"),
                 !.awaiting = Cleared("awaiting")]

\* Every gate has passed, failed, could not run or was stopped at its timeout
\* (UNCHECKED); then the signal files go.
\* What stays, or a gate that could not run, blocks.
GatesDone ==
    /\ pc = "gates"
    /\ results' \in [CommandGates -> GateStatus]
    /\ IF \/ Left(AfterGates) # {}
          \/ \E g \in CommandGates : results'[g] = "UNCHECKED"
       THEN /\ disk' = [ClearedAfterGates EXCEPT !.blocked = TRUE]
            /\ Return(1)
       ELSE /\ disk' = ClearedAfterGates
            /\ pc' = "review"
            /\ UNCHANGED rc
    /\ strays' = 0
    /\ UNCHANGED <<runVars, loopVars, message, reads, stuck, history>>

\* The reviewer cannot write: it reads and answers, possibly with nothing.
ReviewReturns ==
    /\ pc = "review"
    /\ message' \in Messages
    /\ reads' \in SUBSET Deliverables
    /\ IF mode = "loop" THEN pc' = "judge" /\ UNCHANGED rc ELSE Return(0)
    /\ UNCHANGED <<runVars, loopVars, results, disk, stuck, history, strays>>

\* The review phase returns 1, with or without BLOCKED.md.
ReviewFails ==
    /\ pc = "review"
    /\ \E blocked \in BOOLEAN :
          disk' = [disk EXCEPT !.blocked = disk.blocked \/ blocked]
    /\ Return(1)
    /\ UNCHANGED <<runVars, loopVars, cycleVars, stuck, history, strays>>

Verdict == NormalizeVerdict(message)

\* REVISE, or no verdict at all: the rest of the message is the feedback.
Revise ==
    /\ pc = "judge"
    /\ Verdict = "REVISE"
    /\ LET body == StripVerdict(message)
       IN  IF body # <<>>
           THEN /\ disk' = [disk EXCEPT !.feedback = <<"review", body>>]
                /\ objection' = <<"review", body>>
           ELSE /\ objection' = NoFeedback
                /\ UNCHANGED disk
    /\ CycleForgotten
    /\ pc' = "revise"
    /\ UNCHANGED <<runVars, loopVars, rc, stuck, streak, strays>>

Unread == disk.summary.names \ reads

Failing == {g \in CommandGates : results[g] = "FAIL"}

\* The feedback that turns a SHIP into a REVISE, by the first check that
\* fails; the last two checks are not made in an audit.
Overrides ==
    IF ScopeError THEN {ScopeText}
    ELSE IF disk.index.unchecked > 0 THEN {<<"coverage", disk.index.unchecked>>}
    ELSE IF snapshot # NoAudit THEN {}
    ELSE IF Unread # {} THEN {<<"unread", Unread>>}
    ELSE {<<"gate", x>> : x \in Failing \X Outputs}

Override ==
    /\ pc = "judge"
    /\ Verdict = "SHIP"
    /\ \E text \in Overrides :
          /\ disk' = [disk EXCEPT !.feedback = text]
          /\ objection' = text
    /\ CycleForgotten
    /\ pc' = "revise"
    /\ UNCHANGED <<runVars, loopVars, rc, stuck, streak, strays>>

Ship ==
    /\ pc = "judge"
    /\ Verdict = "SHIP"
    /\ Overrides = {}
    /\ disk' = [disk EXCEPT !.complete = "engine"]
    /\ Return(0)
    /\ UNCHANGED <<runVars, loopVars, cycleVars, stuck, history, strays>>

\* Whether this cycle's feedback has the hash of the cycle before; no
\* feedback has no hash.
SameFeedback ==
    disk.feedback # NoFeedback /\ disk.feedback = lastFeedback

\* Mutant of CountStall: the count goes on when the feedback changes.
CountStall_NoReset ==
    IF SameFeedback
    THEN stallCount' = stallCount + 1 /\ UNCHANGED lastFeedback
    ELSE lastFeedback' = disk.feedback /\ UNCHANGED stallCount

\* Mutant of CountStall: counting starts at -1.
CountStall_FromMinusOne ==
    IF SameFeedback
    THEN stallCount' = stallCount + 1 /\ UNCHANGED lastFeedback
    ELSE stallCount' = -1 /\ lastFeedback' = disk.feedback

CountStall ==
    IF SameFeedback
    THEN stallCount' = stallCount + 1 /\ UNCHANGED lastFeedback
    ELSE stallCount' = 0 /\ lastFeedback' = disk.feedback

\* History: how many reviewed cycles in a row ended with this objection.
Extended ==
    IF disk.feedback = NoFeedback THEN [on |-> NoFeedback, n |-> 0]
    ELSE IF disk.feedback = streak.on
         THEN [on |-> streak.on, n |-> streak.n + 1]
    ELSE [on |-> disk.feedback, n |-> 1]

StallReached == SameFeedback /\ stallCount + 1 >= StallThreshold

\* The same feedback once too often.
Stalled ==
    /\ pc = "revise"
    /\ StallReached
    /\ CountStall
    /\ streak' = Extended
    /\ disk' = [disk EXCEPT !.blocked = TRUE]
    /\ Return(1)
    /\ UNCHANGED <<runVars, i, extra, snapshot, cycleVars, stuck, objection,
                   strays>>

NextCycle ==
    /\ pc = "revise"
    /\ ~StallReached
    /\ CountStall
    /\ streak' = Extended
    /\ disk' = [disk EXCEPT !.workComplete = Cleared("workComplete")]
    /\ pc' = "head"
    /\ UNCHANGED <<runVars, i, extra, snapshot, cycleVars, rc, stuck,
                   objection, strays>>

-----------------------------------------------------------------------------
(* The end of a run.                                                       *)

\* After a SHIP the awaited approval is recorded, if the manifest has a stage to
\* approve after the loop stage.  Not modelled: the copies of the audit files,
\* and the line BLOCKED.md gets after a failure.
Finish ==
    /\ pc = "finish"
    /\ disk' \in {disk} \cup IF mode = "loop" /\ rc = 0
                             THEN {[disk EXCEPT !.awaiting = "engine"]}
                             ELSE {}
    /\ pc' = "idle"
    /\ LocalsReset
    /\ UNCHANGED <<runVars, rc, stuck>>

\* The process is killed, or an exception ends it: no exit code of its own.
Crash ==
    /\ pc # "idle"
    /\ pc' = "idle"
    /\ rc' = Running
    /\ LocalsReset
    /\ UNCHANGED <<runVars, disk, stuck>>

BetweenRuns ==
    \/ PlannerWritesIndex \/ Reset \/ OperatorFrees
    \/ RunRefused \/ ProviderNotReady
    \/ StartWorker \/ StartReviewer \/ StartLoop

\* What the engine does itself.
EngineStep ==
    \/ DeadlineReached \/ MaxReached \/ AsksOperator \/ BeginCycle
    \/ BlockedFound \/ ScopeLock \/ GatesStart
    \/ GatesDone
    \/ Revise \/ Override \/ Ship
    \/ Stalled \/ NextCycle
    \/ Finish

\* What it waits for, with no timeout: the tool server and the answer to input().
PhaseEnds == WorkPhaseReturns \/ WorkPhaseFails \/ ReviewReturns \/ ReviewFails
OperatorAnswers == OperatorDeclines \/ OperatorContinues

Next == BetweenRuns \/ EngineStep \/ PhaseEnds \/ OperatorAnswers
        \/ GateProcessWrites \/ Crash

\* A started process is scheduled and its gates end (they have a timeout).
\* Nothing makes a phase end, the operator answer or anyone start a run.
Spec == Init /\ [][Next]_vars /\ WF_vars(EngineStep)

-----------------------------------------------------------------------------
(* Properties.                                                             *)

Labels == {"idle", "head", "prompt", "work", "worked", "gates", "review",
           "judge", "revise", "finish"}

FeedbackTags ==
    {"none", "stray", "review", "scope", "coverage", "unread", "gate"}

\* The values the variables take.
TypeOK ==
    /\ pc \in Labels
    /\ mode \in {"loop", "worker", "reviewer", "reset", "refused"}
    /\ runs \in 0..MaxRuns
    /\ i \in Nat /\ extra \in Nat /\ stallCount \in Nat
    /\ snapshot \in {NoAudit} \cup 1..MaxItems
    /\ lastFeedback[1] \in FeedbackTags
    /\ results \in [CommandGates -> GateStatus]
    /\ message \in Messages \cup {<<>>}
    /\ reads \subseteq Deliverables
    /\ rc \in {Running, 0, 1, 2, 3}
    /\ disk.summary \in [cycle : Nat, names : SUBSET Deliverables]
    /\ disk.feedback[1] \in FeedbackTags
    /\ {disk.workComplete, disk.blocked} \subseteq BOOLEAN
    /\ {disk.complete, disk.awaiting, disk.timeout} \subseteq Author
    /\ disk.index \in Indexes
    /\ stuck \subseteq Sticky
    /\ objection[1] \in FeedbackTags
    /\ streak.n \in Nat

InLoop == mode = "loop"

\* When run_loop returns, .complete is on disk exactly if it returns 0, and
\* no awaiting-approval.md precedes a SHIP, whatever the gate processes wrote;
\* an entry that cannot be removed is the one exception, and then the run is
\* BLOCKED.  (The clear after the gates, before any return.)
ShipSignals ==
    pc = "finish" /\ InLoop =>
        IF rc = 0 THEN disk.complete = "engine" /\ disk.awaiting = "absent"
        ELSE /\ disk.complete # "absent" => "complete" \in stuck /\ disk.blocked
             /\ disk.awaiting # "absent" => "awaiting" \in stuck /\ disk.blocked

\* The last line that is only a verdict says SHIP or, in a message without such
\* a line, SHIP is the word it opens with.  An empty message says neither.
SaysShip(msg) ==
    \E k \in DOMAIN msg :
        /\ msg[k].verdict = "SHIP"
        /\ \/ IsVerdictLine(msg[k]) /\ \A l \in VerdictLines(msg) : l <= k
           \/ k = 1 /\ VerdictLines(msg) = {}

\* A run returns 0 only if its last reviewer message says SHIP, in its last
\* verdict line or as its first word, and, outside audits, every deliverable of
\* the manifest was read and no command gate failed or could not run.
ShipEarned ==
    pc = "finish" /\ InLoop /\ rc = 0 =>
        /\ SaysShip(message)
        /\ snapshot = NoAudit =>
              /\ disk.summary.names \subseteq reads
              /\ \A g \in CommandGates : results[g] = "PASS"

\* The worker reads in review-feedback.txt the objection of the cycle just
\* before, and nothing if that cycle had none: not an older one, and not what
\* a gate process put there.
FeedbackFresh ==
    pc = "work" /\ InLoop => disk.feedback = objection

\* From the gates to the verdict, the manifest that is adjudicated was
\* written in this cycle, or there is none.
ManifestFresh ==
    pc \in {"gates", "review", "judge"} /\ InLoop
    /\ "summary" \notin stuck =>
        disk.summary.cycle \in {0, i}

\* No phase starts with a work-complete.txt on disk, which would end it after
\* the first batch of tool calls: not the one that ended an earlier phase, not
\* one a gate process or an earlier run left.
PhaseStartsClean ==
    pc \in {"work", "review"} /\ "workComplete" \notin stuck =>
        ~disk.workComplete

\* Of n cycles in a row with the same feedback n - 1 repeat it.  The engine
\* counts the repetitions.  What it writes (BLOCKED.md, orchestrator.py:2254,
\* the log, the comment at line 97) speaks of stall_threshold identical cycles
\* instead: one cycle before the code sees a stall.
Repetitions(s) == s.n - 1

\* A reviewed cycle ends the run for a stall exactly if its feedback has been
\* repeated StallThreshold times in a row: no cycle in between with different
\* feedback, or none, and as many without a review as there may be.
StallDecided ==
    [][pc = "revise" /\ pc' # "idle" =>
          (pc' = "finish" <=> Repetitions(streak') >= StallThreshold)]_vars

\* The run as module RunContract sees it.
Run == INSTANCE RunContract

Phase ==
    CASE pc = "idle" -> "over"
      [] pc \in {"head", "prompt", "work", "worked"} -> "work"
      [] pc = "gates" -> "gates"
      [] pc \in {"review", "judge", "revise"} -> "review"
      [] pc = "finish" -> "done"

CompleteBy == [absent |-> Run!NoFile, stray |-> Run!StrayFile, engine |-> 1]

Seen == Run!At(Phase, [complete |-> CompleteBy[disk.complete],
                       blocked |-> disk.blocked])

\* The abstract specification of a run: what its steps may do to the files
\* that tell its outcome.  A SHIP comes only out of a review, what a gate
\* process left of .complete never gets as far, and only a worker or a gate
\* process takes BLOCKED.md away.  Module EngineServer builds on it.
FollowsContract ==
    [][/\ runs' > runs /\ mode' # "refused" =>
            Seen' \in Run!Beginnings(mode', Seen.signals, 1)
       /\ runs' > runs /\ mode' = "refused" =>
            Seen' \in Run!Starting(Seen.signals)
       /\ pc # "idle" =>
            Seen' \in Run!Moves(mode, Seen.phase, Seen.signals, 1)]_vars

\* Where a run waits for somebody else, with no timeout.
Waiting == pc \in {"work", "review", "prompt"}

\* Every run ends, unless one phase or one question at the terminal never does:
\* the cycles, those without a review and the extensions included, run out.
RunEnds == []<>(pc = "idle") \/ <>[]Waiting

\* "Do not issue SHIP until every item is marked [x]" (the coverage check of
\* run_loop): an audit ships only when every item of its scope is checked.
AuditCovered ==
    pc = "finish" /\ InLoop /\ rc = 0 /\ snapshot # NoAudit =>
        disk.index = [checked |-> snapshot, unchecked |-> 0]

=============================================================================
