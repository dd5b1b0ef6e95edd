---------------------------- MODULE PhaseContract ----------------------------
(***************************************************************************)
(* What the loop may rely on when it runs a phase: the docstring of        *)
(* run_phase in src/ai/engine/src/orchestrator.py, the read-only rule for  *)
(* reviewers and the signal files of scope.py.  A phase changes no signal  *)
(* file and nothing out of scope; a reviewer writes nothing; a phase that  *)
(* the engine blocked returns 1; a worker that returns 0 and has left      *)
(* deliverables leaves a manifest too.                                     *)
(***************************************************************************)
EXTENDS Integers

VARIABLES
    role,     \* "WORKER" or "REVIEWER"
    status,   \* "running" or "done"
    rc,       \* what the phase returns, -1 while it runs
    offlimits,\* what was altered of all a phase must leave alone
    landed,   \* deliverables this phase wrote that are on disk
    summary,  \* work-summary.txt: [exists, names]
    own,      \* the worker wrote work-summary.txt with a tool
    blocked   \* BLOCKED.md: "absent", "other" or by the "engine"

vars == <<role, status, rc, offlimits, landed, summary, own, blocked>>

Init ==
    /\ role \in {"WORKER", "REVIEWER"}
    /\ status = "running" /\ rc = -1
    /\ offlimits = {} /\ landed = {}
    /\ ~summary.exists /\ ~own
    /\ blocked \in {"absent", "other"}

\* A worker writes deliverables, a manifest or BLOCKED.md.
Write ==
    /\ role = "WORKER"
    /\ status = "running" /\ status' = "running"
    /\ blocked' \in {"absent", "other"}
    /\ UNCHANGED <<role, rc, offlimits>>

\* Whoever reads the manifest finds the deliverables of the phase, unless
\* the worker wrote a manifest of its own that leaves them out.
Manifested ==
    landed # {} =>
        /\ summary.exists
        /\ own \/ landed \cap summary.names # {}

Succeed ==
    /\ status = "running" /\ status' = "done"
    /\ rc' = 0
    /\ role = "WORKER" => Manifested'
    /\ role = "REVIEWER" => UNCHANGED summary
    /\ UNCHANGED <<role, offlimits, landed, blocked>>

Fail ==
    /\ status = "running" /\ status' = "done"
    /\ rc' = 1
    /\ blocked' \in {blocked, "engine"}
    /\ role = "REVIEWER" => UNCHANGED <<landed, summary, own>>
    /\ UNCHANGED <<role, offlimits>>

Next == Write \/ Succeed \/ Fail

\* That a phase ends is not promised: it may wait for an answer for ever.
Spec == Init /\ [][Next]_vars

=============================================================================
