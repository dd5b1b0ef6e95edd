----------------------------- MODULE RunContract -----------------------------
(***************************************************************************)
(* One run of orchestrator.py seen from outside: what it does, step by     *)
(* step, to the two files that tell its outcome, .complete and BLOCKED.md. *)
(* Module EngineLoop keeps this contract (FollowsContract); module         *)
(* EngineServer relies on it, for several runs over one state directory.   *)
(*                                                                         *)
(* Signals: [complete |-> NoFile, StrayFile or the number of the run that  *)
(* wrote it, blocked |-> BOOLEAN].                                         *)
(***************************************************************************)
EXTENDS Integers

NoFile == 0
StrayFile == -1     \* written by a gate process

Modes == {"loop", "worker", "reviewer"}

\* "done": the outcome is on disk and the process is about to end.
Phases == {"starting", "ready", "work", "gates", "review", "done", "over"}

At(phase, signals) == [phase |-> phase, signals |-> signals]

\* The engine may write BLOCKED.md; it does not remove it.
PerhapsBlocked(signals) == {signals, [signals EXCEPT !.blocked = TRUE]}

\* Workers and gate processes may write it and delete it.
BlockedOrNot(signals) == {[signals EXCEPT !.blocked = b] : b \in BOOLEAN}

\* Files that could not be removed end the run: the signal may be among them.
NotCleared(signals) ==
    {At("done", [complete |-> c, blocked |-> TRUE]) :
        c \in {NoFile, signals.complete}}

\* Configuration, prerequisites, readiness of the providers; then task.md.
Starting(signals) ==
    {At("over", s) : s \in PerhapsBlocked(signals)} \cup {At("ready", signals)}

\* Loop mode clears what an earlier run left; the other modes do not.
Ready(mode, signals) ==
    CASE mode = "loop" ->
            {At("work", [signals EXCEPT !.complete = NoFile])}
            \cup NotCleared(signals)
      [] mode = "worker" -> {At("work", signals)}
      [] mode = "reviewer" -> {At("review", signals)}

\* The head of the loop and the work phase.
Work(mode, signals) ==
    {At(p, s) : p \in {"work", "done"}, s \in BlockedOrNot(signals)}
    \cup IF mode = "loop" /\ ~signals.blocked THEN {At("gates", signals)} ELSE {}

\* A gate process may write or delete either file; after the gates .complete is
\* cleared.
Gates(signals) ==
    {At("gates", s) : s \in BlockedOrNot(signals)
                            \cup {[signals EXCEPT !.complete = c] :
                                     c \in {NoFile, StrayFile}}}
    \cup {At("review", [signals EXCEPT !.complete = NoFile])}
    \cup NotCleared(signals)

\* The review phase, the verdict and the checks after it: only here, and only
\* in loop mode, a run ships.
Review(mode, signals, me) ==
    {At("review", signals)}
    \cup {At("done", s) : s \in PerhapsBlocked(signals)}
    \cup IF mode = "loop"
         THEN {At("work", signals), At("done", [signals EXCEPT !.complete = me])}
         ELSE {}

\* Where a run in this phase may be next.  It may be killed in any phase.
Moves(mode, phase, signals, me) ==
    {At("over", signals)} \cup
    CASE phase = "starting" -> Starting(signals)
      [] phase = "ready" -> Ready(mode, signals)
      [] phase = "work" -> Work(mode, signals)
      [] phase = "gates" -> Gates(signals)
      [] phase = "review" -> Review(mode, signals, me)
      [] phase = "done" -> {}

\* Two moves in one.
Beginnings(mode, signals, me) ==
    Starting(signals)
    \cup UNION {Moves(mode, x.phase, x.signals, me) :
                    x \in {y \in Starting(signals) : y.phase = "ready"}}
=============================================================================
