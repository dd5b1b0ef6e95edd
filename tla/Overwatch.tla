------------------------------ MODULE Overwatch ------------------------------
(***************************************************************************)
(* The dashboard (src/ai/src/overwatch.py) beside the engine and its       *)
(* control server: every few seconds it reads the open documents and then  *)
(* the state files, one after the other, and writes a page that shows a    *)
(* workflow phase.  Runs and resets go on while it reads.                  *)
(***************************************************************************)
EXTENDS EngineServer

CONSTANTS
    OpenClasses    \* classes of the open documents, masters left out

ASSUME OverwatchAssumption ==
    OpenClasses \subseteq {"issue", "change", "prompt", "test", "result",
                           "audit", "trace", "requirements", "design"}

VARIABLES
    scan,      \* the file read next (0: none), and those found so far
    orphan,    \* history: task.md stands there without a run, for a reason
    grounds    \* history: during the scan a run was in progress, or an orphan

watchVars == <<scan, orphan, grounds>>
vars == <<serverVars, watchVars>>

NoScan == [next |-> 0, found |-> {}]

\* Mutant of ReadOrder: task.md is read before the signal files.
ReadOrder_TaskFirst == <<"task", "blocked", "complete">>

\* _read_engine_state.
ReadOrder == <<"blocked", "complete", "task">>

\* What a read may find; one that fails finds nothing.
Present(name) ==
    CASE name = "task" -> {files.task}
      [] name = "blocked" -> {files.blocked}
      [] name = "complete" -> IF files.complete = StrayFile THEN BOOLEAN
                              ELSE {files.complete # NoFile}

Read ==
    /\ scan.next \in DOMAIN ReadOrder
    /\ \E present \in Present(ReadOrder[scan.next]) :
          scan' = [next |-> scan.next + 1,
                   found |-> IF present
                             THEN scan.found \cup {ReadOrder[scan.next]}
                             ELSE scan.found]
    /\ UNCHANGED <<serverVars, orphan, grounds>>

SomeRunning == \E r \in Runs : Running(r)

\* The documents have been read.
BeginScan ==
    /\ scan = NoScan
    /\ scan' = [scan EXCEPT !.next = 1]
    /\ grounds' = (SomeRunning \/ orphan)
    /\ UNCHANGED <<serverVars, orphan>>

\* BLOCKED.md, .complete and task.md, in this precedence.
Status ==
    IF "blocked" \in scan.found THEN "blocked"
    ELSE IF "complete" \in scan.found THEN "ship"
    ELSE IF "task" \in scan.found THEN "running"
    ELSE "idle"

\* PhaseInference.infer: the first that applies.
Phase ==
    IF Status = "running" THEN "Loop execution"
    ELSE IF "prompt" \in OpenClasses /\ Status \in {"idle", "ship"}
         THEN "Awaiting prompt execution"
    ELSE IF {"change", "issue"} \subseteq OpenClasses /\ "prompt" \notin OpenClasses
         THEN "Change cycle"
    ELSE IF "issue" \in OpenClasses /\ "change" \notin OpenClasses
         THEN "Issue raised"
    ELSE IF OpenClasses \cap {"test", "result"} # {} THEN "Test phase"
    ELSE "Idle"

Scanned == scan.next = Len(ReadOrder) + 1

\* The page is written, or the write fails and the next scan tries again.
Render ==
    /\ Scanned
    /\ scan' = NoScan
    /\ grounds' = FALSE
    /\ UNCHANGED <<serverVars, orphan>>

\* The files say that a run is in progress.
SaysRunning == files.task /\ files.complete \notin Runs /\ ~files.blocked

\* A run has just ended and left no outcome, or written task.md during a
\* reset; or a reset could not remove task.md.
LeavesOrphan ==
    \/ (\E r \in Runs : Running(r) /\ run'[r].phase = "over") /\ SaysRunning'
    \/ files'.task /\ (\E r \in Runs : run[r].phase = "starting" /\ run'[r].phase = "ready")
       /\ \E c \in Callers : sweep[c] # NoSweep
    \/ \E c \in Callers : ~sweep[c].kept /\ sweep'[c].kept /\ files.task

\* What the rest of the world does, as the scan in progress may notice.
WorldStep ==
    /\ Next
    /\ orphan' = (files'.task /\ (orphan \/ LeavesOrphan))
    /\ grounds' = (scan # NoScan /\ (grounds \/ SomeRunning' \/ orphan'))
    /\ UNCHANGED scan

WatchInit ==
    /\ Init
    /\ scan = NoScan
    /\ grounds = FALSE
    /\ orphan = FALSE

WatchNext == WorldStep \/ BeginScan \/ Read \/ Render

Spec == WatchInit /\ [][WatchNext]_vars

-----------------------------------------------------------------------------
(* Properties.                                                             *)

\* "Loop execution" is shown only of a run in progress, or of a task.md that
\* a run without outcome or a disturbed reset has left: the files are read,
\* and removed by a reset, in an order that never makes a finished run look
\* like one that goes on.
ExecutionIsReal ==
    Scanned /\ Phase = "Loop execution" => grounds
=============================================================================
