------------------------------ MODULE WorkPhase ------------------------------
(***************************************************************************)
(* One phase of the engine: run_phase in                                   *)
(* src/ai/engine/src/orchestrator.py, with the write-scope check of        *)
(* scope.py.  The model is asked, answers with tool calls or a final       *)
(* message; each call is checked, dispatched to a tool server and its      *)
(* result judged; the phase ends with a message, a signal, a limit or a    *)
(* block.                                                                  *)
(*                                                                         *)
(* The calls of one answer are chosen one after the other, as they are     *)
(* dispatched: which ones the model makes is open anyway.                  *)
(***************************************************************************)
EXTENDS Integers, FiniteSets

CONSTANTS
    Files,           \* deliverables, in the write scope
    Signals,         \* engine signal files (scope.SIGNAL_FILES)
    Outside,         \* files outside the write scope
    Calls,           \* tool calls a model may make: [tool, path]
    MaxIterations,   \* phase_max_iterations
    MaxToolCalls,    \* max_tool_calls_per_iteration
    ErrorThreshold,  \* mcp_error_threshold
    MaxRetries       \* _COMPLETION_MAX_RETRIES

Summary == "work-summary.txt"
Complete == "work-complete.txt"
Blocked == "BLOCKED.md"
Report == "audit-report.md"
NoPath == ""

StateFiles == {Summary, Complete, Blocked, Report}
Paths == Files \cup Signals \cup Outside \cup StateFiles \cup {NoPath}

\* "overwrite" is a write whose content drops what the file holds; "other" is
\* a tool no server offers.
Tools == {"read", "write", "overwrite", "edit", "delete", "other"}

ASSUME PhaseAssumption ==
    /\ Calls \subseteq [tool : Tools, path : Paths]
    /\ MaxIterations \in Nat /\ MaxToolCalls \in Nat \ {0}
    /\ ErrorThreshold \in Nat \ {0} /\ MaxRetries \in Nat \ {0}
    /\ Files \cap StateFiles = {} /\ NoPath \notin Files
    /\ (Signals \cup Outside) \cap (Files \cup StateFiles) = {}

VARIABLES
    role,        \* phase_label
    pc,          \* "top", "ask", "calls", "signal" or "done"
    iteration,   \* iteration of the phase
    attempt,     \* attempt of the completion call
    left,        \* calls of the answer not dispatched yet
    files,       \* the deliverables on disk
    summary,     \* work-summary.txt: one of Manifests
    complete,    \* work-complete.txt exists
    blocked,     \* BLOCKED.md: "absent", "other" or by the "engine"
    report,      \* audit-report.md holds findings
    altered,     \* history: files the phase altered
    errors,      \* mcp_error_count
    failed,      \* _failed_call_sigs
    reads,       \* _read_counts, as a set
    seen,        \* history: files a read has returned
    written,     \* _written_paths, those that are deliverables
    manifest,    \* _manifest_written
    rc           \* what the phase returned, -1 before

diskVars == <<files, summary, complete, blocked, report, altered>>
trackVars == <<errors, failed, reads, seen, written, manifest>>
vars == <<role, pc, iteration, attempt, left, diskVars, trackVars, rc>>

\* names: the deliverables it names; by: who wrote it.
Manifests == [exists : BOOLEAN, names : SUBSET Files,
              by : {"nobody", "tool", "message", "engine"}]
NoSummary == [exists |-> FALSE, names |-> {}, by |-> "nobody"]
Naming(names, who) == [exists |-> TRUE, names |-> names, by |-> who]

Worker == role = "WORKER"

\* The loop has cleared work-summary.txt and work-complete.txt; BLOCKED.md may
\* be there from an earlier run.
Init ==
    /\ role \in {"WORKER", "REVIEWER"}
    /\ pc = "top" /\ iteration = 0 /\ attempt = 0 /\ left = 0
    /\ files \in SUBSET Files
    /\ summary = NoSummary /\ complete = FALSE
    /\ blocked \in {"absent", "other"} /\ report \in BOOLEAN
    /\ altered = {}
    /\ errors = 0 /\ failed = [c \in Calls |-> 0]
    /\ reads = {} /\ seen = {} /\ written = {} /\ manifest = FALSE
    /\ rc = -1

Return(code) == pc' = "done" /\ rc' = code

-----------------------------------------------------------------------------
(* Ends of a phase.                                                        *)

\* What was observed to be written and is on disk.
Landed == written \cap files

\* _synthesize_work_summary: never over an existing manifest, never empty.
Synthesizes == Worker /\ ~summary.exists /\ Landed # {}

Synthesized == IF Synthesizes THEN Naming(Landed, "engine") ELSE summary

\* The wall-clock cap of the phase is found exceeded at the top.
CapReached ==
    /\ pc = "top"
    /\ iteration < MaxIterations
    /\ iteration' = iteration + 1
    /\ summary' = Synthesized
    /\ Return(0)
    /\ UNCHANGED <<role, attempt, left, files, complete, blocked, report,
                   altered, trackVars>>

\* The messages would fill the context window.
BudgetAbort ==
    /\ pc = "top"
    /\ iteration < MaxIterations
    /\ iteration' = iteration + 1
    /\ Return(1)
    /\ UNCHANGED <<role, attempt, left, diskVars, trackVars>>

\* The iterations are used up: a worker that has a manifest of this phase to
\* show returns 0.
Exhausted ==
    /\ pc = "top"
    /\ iteration = MaxIterations
    /\ summary' = Synthesized
    /\ Return(IF Worker /\ (Synthesizes \/ manifest) THEN 0 ELSE 1)
    /\ UNCHANGED <<role, iteration, attempt, left, files, complete, blocked,
                   report, altered, trackVars>>

-----------------------------------------------------------------------------
(* The completion call.                                                    *)

Ask ==
    /\ pc = "top"
    /\ iteration < MaxIterations
    /\ iteration' = iteration + 1
    /\ pc' = "ask" /\ attempt' = 1
    /\ UNCHANGED <<role, left, diskVars, trackVars, rc>>

\* Mutant of Retry: the attempts begin again after the last one.
Retry_BeginsAgain ==
    /\ pc = "ask"
    /\ attempt' = IF attempt < MaxRetries THEN attempt + 1 ELSE 1
    /\ UNCHANGED <<role, pc, iteration, left, diskVars, trackVars, rc>>

\* An attempt fails, and there is another one after a pause.
Retry ==
    /\ pc = "ask"
    /\ attempt < MaxRetries
    /\ attempt' = attempt + 1
    /\ UNCHANGED <<role, pc, iteration, left, diskVars, trackVars, rc>>

\* The last attempt fails, or (at any attempt) the message that answers holds
\* tool-call markers that could not be parsed: BLOCKED.md either way.
Unanswered ==
    /\ pc = "ask"
    /\ blocked' = "engine"
    /\ Return(1)
    /\ UNCHANGED <<role, iteration, attempt, left, files, summary, complete,
                   report, altered, trackVars>>

\* Mutant of Extended: the message is taken as it is.
Extended_Not(names) == names

\* _append_observed_manifest: a message that names none of the deliverables
\* observed is followed by their list.
Extended(names) == IF names \cap Landed = {} THEN names \cup Landed ELSE names

\* No tool call: the message of a worker becomes the manifest.
FinalMessage ==
    /\ pc = "ask"
    /\ \E names \in SUBSET Files :
          summary' = IF ~Worker THEN summary ELSE Naming(Extended(names), "message")
    /\ manifest' = (manifest \/ Worker)
    /\ Return(0)
    /\ UNCHANGED <<role, iteration, attempt, left, files, complete, blocked,
                   report, altered, errors, failed, reads, seen, written>>

\* Mutant of Truncated: all the calls are kept.
Truncated_Not(n) == n

\* The calls beyond the cap are dropped.
Truncated(n) == IF n > MaxToolCalls THEN MaxToolCalls ELSE n

ToolCalls ==
    /\ pc = "ask"
    /\ \E n \in 1..MaxToolCalls + 1 : left' = Truncated(n)
    /\ pc' = "calls"
    /\ UNCHANGED <<role, iteration, attempt, diskVars, trackVars, rc>>

-----------------------------------------------------------------------------
(* The dispatch of a tool call.                                            *)

\* Mutant of IsWrite: the edit tools are not taken for writes.
IsWrite_NotEdits(c) == c.tool \in {"write", "overwrite", "delete"}

\* is_write_tool.
IsWrite(c) == c.tool \in {"write", "overwrite", "edit", "delete"}

\* _dispatch_refusal.
Refused(c) == c.tool = "other" \/ (~Worker /\ IsWrite(c))

\* scope.check.  The tools that write name a path, and signal files are
\* protected from a worker.
Violation(c) == IsWrite(c) /\ c.path \in Signals \cup Outside \cup {NoPath}

\* _validate_audit_report_write.
Guarded(c) == c.tool = "overwrite" /\ c.path = Report /\ report

Exists(path) ==
    \/ path \in files \cup Signals \cup Outside
    \/ path = Summary /\ summary.exists
    \/ path = Complete /\ complete
    \/ path = Blocked /\ blocked # "absent"
    \/ path = Report /\ report

\* What may come back.  The server may carry the call out and its answer be
\* lost, which is an error too; an edit whose pattern is not found is reported
\* as an error or as plain text.
Outcomes(c) ==
    IF Refused(c) THEN {"refused"}
    ELSE IF Violation(c) THEN {"violation"}
    ELSE IF Guarded(c) THEN {"guarded"}
    ELSE {"error"}
         \cup {r \in {"ok", "lost"} : c.tool \in {"write", "overwrite"} \/ Exists(c.path)}
         \cup {r \in {"mismatch", "mismatchError"} : c.tool = "edit"}

Failing(r) == r \notin {"ok", "mismatch"}

\* The call, as the tool server carries it out, changes a file; the engine
\* knows only what IsWrite makes of its name.
Alters(c, r) ==
    c.tool \in {"write", "overwrite", "edit", "delete"} /\ r \in {"ok", "lost"}

\* What the tool server does on disk, BLOCKED.md apart.
Carried(c) ==
    /\ files' = IF c.tool = "delete" THEN files \ {c.path}
                ELSE files \cup ({c.path} \cap Files)
    /\ IF c.path # Summary THEN summary' = summary
       ELSE IF c.tool = "delete" THEN summary' = NoSummary
       ELSE \E names \in SUBSET Files : summary' = Naming(names, "tool")
    /\ complete' = IF c.path = Complete THEN c.tool # "delete" ELSE complete
    /\ report' = IF c.path = Report THEN c.tool # "delete" ELSE report
    /\ altered' = altered \cup {c.path}

BlockedAfter(c, r) ==
    IF ~Alters(c, r) \/ c.path # Blocked THEN blocked
    ELSE IF c.tool = "delete" THEN "absent" ELSE "other"

\* _written_paths and _manifest_written; a delete leaves nothing to record.
Recorded(c, r) ==
    LET wrote == IsWrite(c) /\ c.tool # "delete" /\ r \in {"ok", "mismatch"}
    IN  /\ written' = IF wrote THEN written \cup ({c.path} \cap Files) ELSE written
        /\ manifest' = (manifest \/ (wrote /\ c.path = Summary))

\* _read_counts counts the call, whatever came back.
ReadCounted(c, r) ==
    LET path == IF c.tool = "read" /\ c.path # NoPath THEN {c.path} ELSE {}
    IN  /\ reads' = reads \cup path
        /\ seen' = IF r = "ok" THEN seen \cup path ELSE seen

RepeatLimit == 4

\* The same call, with the same arguments, has failed too often.
Repeated(c, r) == Failing(r) /\ failed[c] + 1 >= RepeatLimit

\* mcp_error_count: what is not an error resets it; a rejected overwrite of
\* the report and an edit that does not match leave it.
ErrorsAfter(r) ==
    IF r = "ok" THEN 0
    ELSE IF r \in {"mismatch", "mismatchError", "guarded"} THEN errors
    ELSE errors + 1

Stops(c, r) == Repeated(c, r) \/ ErrorsAfter(r) >= ErrorThreshold

Dispatch(c) ==
    /\ pc = "calls"
    /\ \E r \in Outcomes(c) :
          /\ IF Alters(c, r) THEN Carried(c)
             ELSE UNCHANGED <<files, summary, complete, report, altered>>
          /\ ReadCounted(c, r)
          /\ Recorded(c, r)
          /\ failed' = IF Failing(r) THEN [failed EXCEPT ![c] = @ + 1] ELSE failed
          /\ errors' = IF Repeated(c, r) THEN errors ELSE ErrorsAfter(r)
          /\ IF Stops(c, r)
             THEN blocked' = "engine" /\ Return(1)
             ELSE /\ blocked' = BlockedAfter(c, r)
                  /\ pc' = IF left = 1 THEN "signal" ELSE "calls"
                  /\ rc' = rc
    /\ left' = left - 1
    /\ UNCHANGED <<role, iteration, attempt>>

\* work-complete.txt ends the phase once the calls of the answer are done.
SignalChecked == complete

Signal ==
    /\ pc = "signal"
    /\ IF SignalChecked
       THEN summary' = Synthesized /\ Return(0)
       ELSE pc' = "top" /\ UNCHANGED <<summary, rc>>
    /\ UNCHANGED <<role, iteration, attempt, left, files, complete, blocked,
                   report, altered, trackVars>>

-----------------------------------------------------------------------------

Top == CapReached \/ BudgetAbort \/ Exhausted \/ Ask
Answer == Retry \/ Unanswered \/ FinalMessage \/ ToolCalls

Next ==
    \/ Top
    \/ Answer
    \/ \E c \in Calls : Dispatch(c)
    \/ Signal

\* What the engine does by itself: the top of an iteration and the look for
\* work-complete.txt after the calls.
OwnStep == Top \/ Signal

\* The engine goes on by itself.  Nothing is assumed of an answer, the model's
\* or a tool server's: mcp_client.py sets no read timeout, and the wall-clock
\* cap of the phase is looked at only at the top of an iteration.
Spec == Init /\ [][Next]_vars /\ WF_vars(OwnStep)

-----------------------------------------------------------------------------
(* Properties.                                                             *)

\* The state of run_phase stays in its ranges: the calls of one answer are cut
\* to the cap, and a phase that goes on is below both of its error limits
\* (_failed_call_sigs under 4, mcp_error_count under mcp_error_threshold).
TypeOK ==
    /\ role \in {"WORKER", "REVIEWER"}
    /\ pc \in {"top", "ask", "calls", "signal", "done"}
    /\ iteration \in 0..MaxIterations
    /\ attempt \in 0..MaxRetries
    /\ left \in 0..MaxToolCalls
    /\ pc = "calls" => left > 0
    /\ files \subseteq Files
    /\ summary \in Manifests
    /\ complete \in BOOLEAN
    /\ blocked \in {"absent", "other", "engine"}
    /\ report \in BOOLEAN
    /\ altered \subseteq Paths
    /\ errors \in Nat /\ (pc # "done" => errors < ErrorThreshold)
    /\ failed \in [Calls -> 0..RepeatLimit]
    /\ pc # "done" => \A c \in Calls : failed[c] < RepeatLimit
    /\ reads \subseteq Paths /\ seen \subseteq reads
    /\ written \subseteq Files
    /\ manifest \in BOOLEAN
    /\ rc \in {-1, 0, 1} /\ (rc = -1) = (pc # "done")

\* Once the worker's tools have left work-complete.txt, the model is asked
\* nothing more: the phase ends with the calls of the same answer
\* (run_phase, "Check for work-complete signal").
NothingAfterComplete == complete => pc \notin {"top", "ask"}

\* A file run_phase returns among read_paths was read: the call that read it
\* returned its content (docstring of run_phase; the loop's read-evidence gate
\* takes them for what the reviewer has seen).
ReadPathsWereRead ==
    pc = "done" /\ rc = 0 /\ role = "REVIEWER" => reads \subseteq seen

\* What must be left alone: signal files and files out of scope for everyone,
\* every file for a reviewer.
OffLimits == IF Worker THEN altered \cap (Signals \cup Outside) ELSE altered

\* run_phase keeps what the loop relies on (PhaseContract).
Contract == INSTANCE PhaseContract WITH
    status <- IF pc = "done" THEN "done" ELSE "running",
    offlimits <- OffLimits,
    landed <- Landed,
    own <- summary.by = "tool"

KeepsContract == Contract!Spec

\* A phase ends, whatever is answered, unless one request or one tool call is
\* never answered: then it waits for that one for ever.  The model cannot keep
\* it going by its answers, with failed attempts, calls or iterations.
PhaseEnds ==
    \/ <>(pc = "done")
    \/ \E n \in 1..MaxRetries : <>[](pc = "ask" /\ attempt = n)
    \/ \E n \in 1..MaxToolCalls : <>[](pc = "calls" /\ left = n)

=============================================================================
