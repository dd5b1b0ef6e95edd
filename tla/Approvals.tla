------------------------------- MODULE Approvals -------------------------------
(****************************************************************************)
(* The documents of one work item, the operator's approvals and the check   *)
(* before a run: stages.py, approve.py and the start of main_async in       *)
(* src/ai/engine/src/.                                                      *)
(*                                                                          *)
(* Three actors work on one project directory: authors edit documents and   *)
(* use git, the operator runs approve.py, and an engine process checks      *)
(* whether its task may run.  None of them takes a lock; each reads the     *)
(* files and HEAD in several steps.                                         *)
(*                                                                          *)
(* A blob hash is represented by the content it is the hash of.             *)
(****************************************************************************)
EXTENDS Integers, Sequences, FiniteSetsExt

CONSTANTS
    Stages,         \* the stages of the manifest, in order
    Evidence,       \* those with evidence documents
    Judged,         \* those whose evidence has a status_field
    Approval,       \* those that take an approval
    LoopStage,      \* loop_stage()
    Paths,          \* [detecting stage -> set of stages]: paths of the manifest
    Documents,      \* the documents the work item may have: [stage, name]
    Task,           \* the active document a run is given
    Contents,       \* contents of a document
    Complete,       \* contents whose status is one of complete_statuses
    Earlier,        \* stages with an approval from before hashes were recorded
    MaxEdits,       \* bound: edits of documents
    MaxCalls,       \* bound: runs of approve.py
    MaxFailures,    \* bound: runs of approve.py that are killed, or fail in git
                    \* or while they write
    MaxRuns         \* bound: starts of the engine

Absent == "absent"
NotRead == "not read"

StageSet == {Stages[k] : k \in DOMAIN Stages}
Before(s, t) == \E j, k \in DOMAIN Stages : j < k /\ Stages[j] = s /\ Stages[k] = t

ASSUME ManifestAssumption ==
    /\ Evidence \subseteq StageSet /\ Approval \subseteq StageSet
    /\ Judged \subseteq Evidence
    /\ DOMAIN Paths \subseteq Evidence
    /\ \A s \in DOMAIN Paths : Paths[s] \subseteq StageSet /\ {s, LoopStage} \subseteq Paths[s]
    /\ \A d \in Documents : d.stage \in Evidence
    /\ Task \in Documents /\ Task.stage \in Approval /\ Before(Task.stage, LoopStage)
    /\ \A s \in DOMAIN Paths : Task.stage \in Paths[s]
    /\ Complete \subseteq Contents
    /\ {Absent, NotRead} \cap Contents = {}
    /\ Earlier \in Seq(Approval)
    /\ MaxEdits \in Nat /\ MaxCalls \in Nat /\ MaxFailures \in Nat /\ MaxRuns \in Nat

VARIABLES
    docs,       \* the documents on disk
    tree,       \* ai/approvals.yaml in the work tree
    head,       \* the same file in HEAD
    op,         \* the operator's approve.py
    run,        \* the engine process
    edits, calls, gitErrors, cuts, runs,
    approved,   \* history: contents of Task approved in HEAD since the run began
    quiet       \* history: no document and no approval changed since then

files == <<docs, tree, head>>
counters == <<edits, calls, gitErrors, cuts, runs>>
vars == <<files, op, run, counters, approved, quiet>>

-----------------------------------------------------------------------------
\* Documents and approvals.

Blobs == [Documents -> Contents \cup {Absent}]
NoBlobs == [d \in Documents |-> Absent]

\* "unbound" entries date from before approvals recorded hashes.
Entry == [kind : {"none", "unbound", "bound"}, blobs : Blobs]
NoEntry == [kind |-> "none", blobs |-> NoBlobs]
NothingRead == [s \in Approval |-> NoEntry]
Unbound == [kind |-> "unbound", blobs |-> NoBlobs]
Bound(blobs) == [kind |-> "bound", blobs |-> blobs]

-----------------------------------------------------------------------------
\* ai/approvals.yaml: its entries in their order, each a line.  A file that was
\* cut short has lost lines, or is no YAML ("broken", within a line), or has not
\* even the key "approvals:" ("keyless").

Line == [stage : Approval, entry : Entry]
File == [text : {"absent", "keyless", "whole", "broken"}, lines : Seq(Line)]

NoFile == [text |-> "absent", lines |-> <<>>]
Keyless == [text |-> "keyless", lines |-> <<>>]
Unhashed ==
    [text |-> "whole",
     lines |-> [k \in 1..Len(Earlier) |-> [stage |-> Earlier[k], entry |-> Unbound]]]

LinesOf(file, s) == {k \in DOMAIN file.lines : file.lines[k].stage = s}

\* parse_approvals: the last entry of a stage wins; what is no YAML has none.
Entries(file) ==
    [s \in Approval |->
        IF file.text = "whole" /\ LinesOf(file, s) # {}
        THEN file.lines[Max(LinesOf(file, s))].entry ELSE NoEntry]

\* A write of the file that ends too early leaves a part of it: the beginning
\* of the text, which may end between two lines or within one.
Parts(file) ==
    {Keyless} \cup [text : {"whole", "broken"},
                    lines : {SubSeq(file.lines, 1, n) : n \in 0..Len(file.lines)}]

-----------------------------------------------------------------------------
\* Documents and the stages they are of.

Listed(contents) == {d \in Documents : contents[d] # Absent}

\* stage_blobs: what the files in "names" of one stage hold now.
StageBlobs(s, names) ==
    [d \in Documents |-> IF d \in names /\ d.stage = s THEN docs[d] ELSE Absent]

\* Mutant of Mismatch: only the documents the approval names are compared.
Mismatch_NamedOnly(s, entry, blobs) ==
    /\ s \in Evidence
    /\ entry.kind # "none"
    /\ \/ entry.kind = "unbound"
       \/ \E d \in Listed(entry.blobs) : blobs[d] # entry.blobs[d]

\* approval_mismatch
Mismatch(s, entry, blobs) ==
    /\ s \in Evidence
    /\ entry.kind # "none"
    /\ entry # Bound(blobs)

\* _complete_evidence
CompleteEvidence(s, contents) ==
    \E d \in Listed(contents) :
        d.stage = s /\ (s \in Judged => contents[d] \in Complete)

\* _evaluate: the earliest stage with a document selects the path.
Detecting(contents) ==
    {s \in DOMAIN Paths :
        /\ \E d \in Listed(contents) : d.stage = s
        /\ ~\E d \in Listed(contents) : d.stage \in DOMAIN Paths /\ Before(d.stage, s)}

\* The stages of the path before the loop stage.
ToCheck(contents) ==
    {s \in UNION {Paths[p] : p \in Detecting(contents)} : Before(s, LoopStage)}

TaskContents(entries) ==
    IF entries[Task.stage].kind = "bound"
    THEN {entries[Task.stage].blobs[Task]} ELSE {}

-----------------------------------------------------------------------------
\* The authors.

Edit ==
    /\ edits < MaxEdits /\ edits' = edits + 1
    /\ \E d \in Documents, c \in Contents \cup {Absent} :
          c # docs[d] /\ docs' = [docs EXCEPT ![d] = c]
    /\ quiet' = FALSE
    /\ UNCHANGED <<tree, head, op, run, calls, gitErrors, cuts, runs, approved>>

\* HEAD gets what the work tree has.
CommitTree ==
    /\ head' = tree
    /\ approved' = approved \cup TaskContents(Entries(tree))
    /\ quiet' = (quiet /\ Entries(tree) = Entries(head))

\* Some other commit takes ai/approvals.yaml along, as after "git add -A".
CommitAll ==
    /\ tree # head
    /\ CommitTree
    /\ UNCHANGED <<docs, tree, op, run, counters>>

\* "git checkout ai/approvals.yaml", or "git clean" while HEAD has no such file.
Revert ==
    /\ tree # head /\ tree' = head
    /\ UNCHANGED <<docs, head, op, run, counters, approved, quiet>>

-----------------------------------------------------------------------------
\* approve.py <uuid> <stage>

\* The process ends; what it answered is remembered for the properties.
Answered(s, blobs, code) ==
    op' = [pc |-> "answered", stage |-> s, names |-> {}, blobs |-> blobs,
           current |-> NoFile, rc |-> code]
Answer(code) == Answered(op.stage, IF code = 0 THEN op.blobs ELSE NoBlobs, code)

\* scan and stage_blobs; nothing to approve is an error.
ApproveHashes ==
    /\ op.pc \in {"idle", "answered"}
    /\ calls < MaxCalls /\ calls' = calls + 1
    /\ \E s \in Approval :
          LET names == Listed(docs)
              blobs == StageBlobs(s, names)
              refused == names = {} \/ (s \in Evidence /\ blobs = NoBlobs)
          IN  IF refused THEN Answered(s, NoBlobs, 1)
              ELSE op' = [pc |-> "compare", stage |-> s, names |-> names,
                          blobs |-> blobs, current |-> NoFile, rc |-> 0]
    /\ UNCHANGED <<files, run, edits, gitErrors, cuts, runs, approved, quiet>>

\* committed_approvals, and whether the entry covers the documents already;
\* they are hashed a second time for that.  One step: the answer is about HEAD
\* as it was read.
ApproveCompares ==
    /\ op.pc = "compare"
    /\ LET blobs == StageBlobs(op.stage, op.names)
           entry == Entries(head)[op.stage]
           vanished == op.stage \in Evidence /\ \E d \in op.names :
                           d.stage = op.stage /\ docs[d] = Absent
       IN  IF entry.kind = "none" THEN op' = [op EXCEPT !.pc = "read"]
           ELSE IF entry.kind = "bound" /\ vanished THEN Answer(1)
           ELSE IF Mismatch(op.stage, entry, blobs) THEN op' = [op EXCEPT !.pc = "read"]
           ELSE Answered(op.stage, blobs, 0)
    /\ UNCHANGED <<files, run, counters, approved, quiet>>

\* A file without its key has to be repaired first.
ApproveReads ==
    /\ op.pc = "read"
    /\ IF tree.text = "keyless" THEN Answer(1)
       ELSE op' = [op EXCEPT !.pc = "write", !.current = tree]
    /\ UNCHANGED <<files, run, counters, approved, quiet>>

\* open(path, "w"): until it is written, the file is empty.
ApproveTruncates ==
    /\ op.pc = "write"
    /\ tree' = Keyless
    /\ op' = [op EXCEPT !.pc = "fill"]
    /\ UNCHANGED <<docs, head, run, counters, approved, quiet>>

\* Mutant of Appended: the file is written anew.
Appended_Anew(file, s, blobs) ==
    [text |-> "whole", lines |-> <<[stage |-> s, entry |-> Bound(blobs)]>>]

\* current + entry, or the header and the entry.
Appended(file, s, blobs) ==
    [text |-> IF file.text = "absent" THEN "whole" ELSE file.text,
     lines |-> Append(file.lines, [stage |-> s, entry |-> Bound(blobs)])]

\* A checkout has put another file in the place of the one that is open.
Replaced == tree # Keyless

ApproveWrites ==
    /\ op.pc = "fill"
    /\ tree' = IF Replaced THEN tree
               ELSE Appended(op.current, op.stage, op.blobs)
    /\ op' = [op EXCEPT !.pc = "commit"]
    /\ UNCHANGED <<docs, head, run, counters, approved, quiet>>

MayFail == gitErrors + cuts < MaxFailures

\* The process is killed before the text is on disk, or the disk is full.
ApproveCutShort ==
    /\ op.pc = "fill"
    /\ MayFail /\ cuts' = cuts + 1
    /\ IF Replaced THEN UNCHANGED tree
       ELSE tree' \in Parts(Appended(op.current, op.stage, op.blobs))
    /\ Answer(1)
    /\ UNCHANGED <<docs, head, run, edits, calls, gitErrors, runs, approved, quiet>>

\* Mutant of ApproveCommits: a failed command of git is not noticed.
ApproveCommits_Unchecked ==
    /\ op.pc = "commit"
    /\ MayFail
    /\ Answer(0)
    /\ UNCHANGED <<files, run, counters, approved, quiet>>

\* git add and git commit of the file alone.
ApproveCommits ==
    /\ op.pc = "commit"
    /\ tree # head
    /\ CommitTree
    /\ Answer(0)
    /\ UNCHANGED <<docs, tree, run, counters>>

\* git fails, or finds nothing to commit: the entry stays in the work tree.
ApproveCommitFails ==
    /\ op.pc = "commit"
    /\ IF tree = head THEN UNCHANGED gitErrors
       ELSE MayFail /\ gitErrors' = gitErrors + 1
    /\ Answer(1)
    /\ UNCHANGED <<files, run, edits, calls, cuts, runs, approved, quiet>>

Operator == ApproveHashes \/ ApproveCompares \/ ApproveReads \/ ApproveTruncates
            \/ ApproveWrites \/ ApproveCutShort \/ ApproveCommits \/ ApproveCommitFails

-----------------------------------------------------------------------------
\* The start of a loop or worker run on the task.

RunOver == {"idle", "started", "refused"}
Goto(place) == run' = [run EXCEPT !.pc = place]
Process(place, bytes, tracked) ==
    [pc |-> place, bytes |-> bytes, tracked |-> tracked, scan |-> NoBlobs,
     recorded |-> NothingRead, todo |-> {}, ready |-> TRUE]
Refuse == run' = Process("refused", NotRead, FALSE)
RunStarts == run' = Process("started", run.bytes, run.tracked)
StepOnly == UNCHANGED <<files, op, counters, approved, quiet>>

\* The check that the task file exists.
RunBegins ==
    /\ run.pc \in RunOver
    /\ runs < MaxRuns /\ runs' = runs + 1
    /\ docs[Task] # Absent
    /\ run' = Process("read", NotRead, FALSE)
    /\ approved' = TaskContents(Entries(head))
    /\ quiet' = TRUE
    /\ UNCHANGED <<files, op, edits, calls, gitErrors, cuts>>

\* Mutant of RunReads: no test for the file.
RunReads_NoTest ==
    /\ run.pc = "read"
    /\ run' = [run EXCEPT !.pc = "track", !.bytes = docs[Task]]
    /\ StepOnly

\* _task_bytes
RunReads ==
    /\ run.pc = "read"
    /\ run' = [run EXCEPT !.pc = "track",
                   !.bytes = IF docs[Task] = Absent THEN NotRead ELSE docs[Task]]
    /\ StepOnly

\* is_tracked_task looks for the file again; without it the run is not tracked
\* and starts.
RunTracks ==
    /\ run.pc = "track"
    /\ IF docs[Task] # Absent
       THEN run' = [run EXCEPT !.pc = "document", !.tracked = TRUE]
       ELSE RunStarts
    /\ StepOnly

\* task_document_error, and a task that was not read.
RunChecksDocument ==
    /\ run.pc = "document"
    /\ IF docs[Task] = Absent \/ run.bytes = NotRead THEN Refuse ELSE Goto("scan")
    /\ StepOnly

RunScans ==
    /\ run.pc = "scan"
    /\ IF Detecting(docs) = {} THEN Refuse
       ELSE run' = [run EXCEPT !.pc = "load", !.scan = docs, !.todo = ToCheck(docs)]
    /\ StepOnly

RunLoads ==
    /\ run.pc = "load"
    /\ run' = [run EXCEPT !.pc = "stages", !.recorded = Entries(head)]
    /\ StepOnly

\* Mutant of StageReady: an edited document is not noticed.
StageReady_NoMismatch(s) ==
    /\ s \in Evidence => CompleteEvidence(s, run.scan)
    /\ s \in Approval => run.recorded[s].kind # "none"

\* _missing_for and approval_mismatch of one stage find nothing.  A document
\* that is gone since the scan raises, and there is no run either.
StageReady(s) ==
    /\ s \in Evidence => CompleteEvidence(s, run.scan)
    /\ s \in Approval =>
          /\ run.recorded[s].kind # "none"
          /\ ~Mismatch(s, run.recorded[s], StageBlobs(s, Listed(run.scan)))
          /\ \A d \in Listed(run.scan) : d.stage = s => docs[d] # Absent

\* One iteration of prerun_missing.
RunChecksStage ==
    /\ run.pc = "stages"
    /\ \E s \in run.todo :
          /\ ~\E t \in run.todo : Before(t, s)
          /\ run' = [run EXCEPT !.todo = @ \ {s}, !.ready = @ /\ StageReady(s)]
    /\ StepOnly

\* Mutant of ContentApproved: no comparison of what was read.
ContentApproved_NotCompared == TRUE

\* _task_content_mismatch
ContentApproved ==
    LET entry == run.recorded[Task.stage]
    IN  entry.kind = "bound"
            => Task \in Listed(run.scan) /\ entry.blobs[Task] = run.bytes

RunDecides ==
    /\ run.pc = "stages" /\ run.todo = {}
    /\ IF run.ready /\ ContentApproved THEN RunStarts ELSE Refuse
    /\ StepOnly

Engine == RunBegins \/ RunReads \/ RunTracks \/ RunChecksDocument \/ RunScans
          \/ RunLoads \/ RunChecksStage \/ RunDecides

-----------------------------------------------------------------------------
Init ==
    /\ docs \in Blobs
    /\ head \in {NoFile, Unhashed} /\ tree = head
    /\ op = [pc |-> "idle", stage |-> Task.stage, names |-> {}, blobs |-> NoBlobs,
             current |-> NoFile, rc |-> 0]
    /\ run = Process("idle", NotRead, FALSE)
    /\ edits = 0 /\ calls = 0 /\ gitErrors = 0 /\ cuts = 0 /\ runs = 0
    /\ approved = {} /\ quiet = TRUE

Next == Edit \/ CommitAll \/ Revert \/ Operator \/ Engine

Spec == Init /\ [][Next]_vars

-----------------------------------------------------------------------------
\* Properties.

\* The type of the state.
TypeOK ==
    /\ docs \in Blobs
    /\ tree \in File /\ head \in File
    /\ op \in [pc : {"idle", "compare", "read", "write", "fill", "commit", "answered"},
               stage : Approval, names : SUBSET Documents, blobs : Blobs,
               current : File, rc : {0, 1}]
    /\ run \in [pc : RunOver \cup {"read", "track", "document", "scan", "load", "stages"},
                bytes : Contents \cup {NotRead}, tracked : BOOLEAN, scan : Blobs,
                recorded : [Approval -> Entry], todo : SUBSET StageSet,
                ready : BOOLEAN]
    /\ edits \in 0..MaxEdits /\ calls \in 0..MaxCalls
    /\ gitErrors \in Nat /\ cuts \in Nat /\ gitErrors + cuts <= MaxFailures
    /\ runs \in 0..MaxRuns
    /\ approved \subseteq Contents \cup {Absent}
    /\ quiet \in BOOLEAN

\* "An edit made during start-up cannot reach the run": whatever is edited,
\* approved or committed while the engine starts, the bytes a tracked run works
\* on are ones HEAD approved during the start.
TrackedRunIsApproved ==
    run.pc = "started" /\ run.tracked => run.bytes \in approved

\* The check is made of seven reads.  When nothing changed in between it means
\* what it says: every stage before the loop has complete evidence, and an
\* approval of exactly the documents on disk.
QuietCheckSound ==
    run.pc = "started" /\ quiet =>
        \A s \in ToCheck(docs) :
            /\ s \in Evidence => CompleteEvidence(s, docs)
            /\ s \in Approval => Entries(head)[s].kind # "none"
            /\ s \in Approval \cap Evidence =>
                  Entries(head)[s] = Bound(StageBlobs(s, Listed(docs)))

\* Every stage that one file has an approval of has one in the other too.
Keeps(file, other) ==
    \A s \in Approval : Entries(file)[s].kind # "none" => Entries(other)[s].kind # "none"

\* An approval in HEAD may be renewed and is lost only by a commit of a file
\* that is being written, or after a write was cut short: not because
\* approve.py writes the whole file from a copy it read before, nor because its
\* commits fail, are reverted or are overtaken by others.
ApprovalKept == [][cuts = 0 /\ op.pc # "fill" => Keeps(head, head')]_vars

\* When approve.py answers 0, HEAD holds the approval of what it hashed, though
\* the file may have been reverted, and HEAD have moved, since it was written;
\* the exception is a file that is no YAML since a write was cut short.
AnsweredCounts ==
    [][op.pc # "answered" /\ op'.pc = "answered" /\ op'.rc = 0 =>
          \/ cuts > 0 /\ head'.text = "broken"
          \/ /\ Entries(head')[op.stage].kind # "none"
             /\ op.stage \in Evidence => Entries(head')[op.stage] = Bound(op'.blobs)]_vars

\* "A tracked task that cannot be read is refused" and the engine "runs exactly
\* those bytes; they must equal the approved content" (guide-engine-operations.md,
\* section 5.0): so no run of the task starts on anything else.
RunIsApproved ==
    run.pc = "started" => run.bytes \in approved

=============================================================================
