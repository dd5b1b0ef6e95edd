--------------------------- MODULE ApprovalsProofs ---------------------------
(****************************************************************************)
(* The theorems about Approvals, for any manifest, documents and contents.  *)
(* The invariant says what each process knows between two of its steps, and *)
(* what the others may have done to it meanwhile.                           *)
(****************************************************************************)
EXTENDS Approvals, NaturalsInduction, WellFoundedInduction, TLAPS

\* What holds of any file approve.py may find.
Ordinary(file) ==
    /\ file.text = "absent" => file.lines = <<>>
    /\ file.text = "broken" => cuts > 0

\* While approve.py writes the file, the copy it has read covers HEAD; before,
\* it covers the file.  Only a write that was cut short breaks the text.
OperatorKnows ==
    /\ Ordinary(tree) /\ Ordinary(head) /\ Ordinary(op.current)
    /\ op.pc \in {"write", "fill"} => op.current.text # "keyless"
    /\ op.pc = "fill" => tree \in {Keyless, head}
    /\ op.pc = "commit" =>
          \/ tree = head
          \/ tree.text = "broken"
          \/ Entries(tree)[op.stage] = Bound(op.blobs)
    /\ cuts = 0 =>
          /\ op.pc # "fill" => Keeps(head, tree)
          /\ op.pc = "write" => Keeps(tree, op.current)
          /\ op.pc = "fill" => Keeps(head, op.current)

\* A stage that was found ready, by the scan and the entries of the run.
FoundReady(s) ==
    /\ s \in Evidence => CompleteEvidence(s, run.scan)
    /\ s \in Approval => run.recorded[s].kind # "none"
    /\ s \in Approval \cap Evidence => run.recorded[s].kind = "bound"

RunKnows ==
    /\ run.pc \in {"read", "track"} => ~run.tracked
    /\ run.pc # "idle" => TaskContents(Entries(head)) \subseteq approved
    /\ run.pc \in {"load", "stages"} => Detecting(run.scan) # {}
    /\ run.pc = "load" => run.todo = ToCheck(run.scan)
    /\ run.pc = "stages" =>
          /\ TaskContents(run.recorded) \subseteq approved
          /\ run.todo \subseteq ToCheck(run.scan)
          /\ run.ready => \A s \in ToCheck(run.scan) \ run.todo : FoundReady(s)

\* As long as nothing changes the run's copies are the files.
QuietRun ==
    quiet =>
        /\ run.pc \in {"read", "track", "document"} => docs[Task] # Absent
        /\ run.pc \in {"load", "stages"} => run.scan = docs
        /\ run.pc = "stages" =>
              /\ run.recorded = Entries(head)
              /\ run.ready => \A s \in (ToCheck(docs) \ run.todo) \cap Approval \cap Evidence :
                                 Entries(head)[s] = Bound(StageBlobs(s, Listed(docs)))

ApprovalsInv == TypeOK /\ OperatorKnows /\ RunKnows /\ QuietRun
                /\ TrackedRunIsApproved /\ QuietCheckSound

-----------------------------------------------------------------------------
USE ManifestAssumption

\* The values the processes start from have their types.
LEMMA Values ==
    /\ NoBlobs \in Blobs /\ NoEntry \in Entry /\ Unbound \in Entry
    /\ NothingRead \in [Approval -> Entry]
    /\ \A b \in Blobs : Bound(b) \in Entry
    /\ NoFile \in File /\ Keyless \in File /\ Unhashed \in File
    /\ Task.stage \in Evidence \cap Approval
<1>1. /\ NoBlobs \in Blobs /\ NoEntry \in Entry /\ Unbound \in Entry
      /\ NothingRead \in [Approval -> Entry]
      /\ \A b \in Blobs : Bound(b) \in Entry
      /\ Task.stage \in Evidence \cap Approval
  BY DEF NoBlobs, Blobs, NoEntry, Unbound, Entry, NothingRead, Bound
<1> HIDE DEF Entry, Blobs
<1>2. NoFile \in File /\ Keyless \in File
  BY DEF NoFile, Keyless, File
<1>3. [k \in 1..Len(Earlier) |-> [stage |-> Earlier[k], entry |-> Unbound]] \in Seq(Line)
  <2>1. \A k \in 1..Len(Earlier) : Earlier[k] \in Approval
    OBVIOUS
  <2>2. \A k \in 1..Len(Earlier) : [stage |-> Earlier[k], entry |-> Unbound] \in Line
    BY <1>1, <2>1 DEF Line
  <2> QED
    BY <2>2
<1>4. Unhashed \in File
  BY <1>3 DEF Unhashed, File
<1> QED
  BY <1>1, <1>2, <1>4

\* A nonempty set of indices has a greatest one.
LEMMA Greatest ==
    ASSUME NEW n \in Nat, NEW S \in SUBSET (1..n), S # {}
    PROVE  Max(S) \in S /\ \A k \in S : k <= Max(S)
<1> DEFINE T == {n - k : k \in S}
           R == {p \in Nat \X Nat : p[1] < p[2]}
<1>1. PICK k0 \in S : TRUE
  OBVIOUS
<1>2. T \subseteq Nat /\ n - k0 \in T
  OBVIOUS
<1>3. IsWellFoundedOn(R, Nat)
  BY NatLessThanWellFounded DEF OpToRel
<1>4. \A x, y \in Nat : x < y => <<x, y>> \in R
  OBVIOUS
<1> HIDE DEF R
<1>5. PICK x \in T : \A y \in T : <<y, x>> \notin R
  BY <1>2, <1>3, WFMin
<1>6. PICK m \in S : x = n - m
  OBVIOUS
<1>7. \A k \in S : m >= k
  <2> SUFFICES ASSUME NEW k \in S, ~(m >= k) PROVE FALSE
    OBVIOUS
  <2>1. n - k \in T /\ n - k < x /\ n - k \in Nat /\ x \in Nat
    BY <1>2, <1>6
  <2> QED
    BY <2>1, <1>4, <1>5
<1> QED
  BY <1>6, <1>7 DEF Max

\* What parse_approvals finds in a file has the type of entries.
LEMMA EntriesTyped ==
    ASSUME NEW file \in File
    PROVE  /\ Entries(file) \in [Approval -> Entry]
           /\ file.text # "whole" => \A s \in Approval : Entries(file)[s] = NoEntry
<1> HIDE DEF Entry
<1>1. file.lines \in Seq(Line)
  BY DEF File
<1>2. ASSUME NEW s \in Approval, LinesOf(file, s) # {}
      PROVE  file.lines[Max(LinesOf(file, s))].entry \in Entry
  <2>1. LinesOf(file, s) \in SUBSET (1..Len(file.lines)) /\ Len(file.lines) \in Nat
    BY <1>1 DEF LinesOf
  <2>2. Max(LinesOf(file, s)) \in 1..Len(file.lines)
    BY <1>2, <2>1, Greatest
  <2>3. file.lines[Max(LinesOf(file, s))] \in Line
    BY <1>1, <2>2
  <2> QED
    BY <2>3 DEF Line
<1> QED
  BY <1>2, Values DEF Entries

\* The line approve.py appends becomes the entry of its stage and changes no
\* other.
LEMMA EntriesOfAppended ==
    ASSUME NEW file \in File, NEW s \in Approval, NEW blobs \in Blobs,
           file.text \in {"absent", "whole"},
           file.text = "absent" => file.lines = <<>>
    PROVE  Entries(Appended(file, s, blobs)) = [Entries(file) EXCEPT ![s] = Bound(blobs)]
<1> DEFINE new == Appended(file, s, blobs)
           line == [stage |-> s, entry |-> Bound(blobs)]
           n == Len(file.lines)
<1> HIDE DEF Entry, Blobs
<1>1. file.lines \in Seq(Line) /\ n \in Nat /\ line \in Line
  BY Values DEF File, Line
<1>2. new.text = "whole" /\ new.lines = Append(file.lines, line)
  BY DEF Appended
<1>3. /\ DOMAIN new.lines = 1..(n + 1) /\ new.lines[n + 1] = line
      /\ \A k \in 1..n : new.lines[k] = file.lines[k]
  BY <1>1, <1>2
<1>4. line.stage = s /\ line.entry = Bound(blobs)
  OBVIOUS
<1> HIDE DEF new, line
<1>5. Entries(new)[s] = Bound(blobs)
  <2>1. n + 1 \in LinesOf(new, s) /\ LinesOf(new, s) \in SUBSET (1..(n + 1))
    BY <1>1, <1>3, <1>4 DEF LinesOf
  <2>2. Max(LinesOf(new, s)) = n + 1
    <3> DEFINE m == n + 1
    <3>1. m \in Nat /\ LinesOf(new, s) \in SUBSET (1..m) /\ LinesOf(new, s) # {}
      BY <1>1, <2>1
    <3> HIDE DEF m
    <3>2. /\ Max(LinesOf(new, s)) \in LinesOf(new, s)
          /\ \A k \in LinesOf(new, s) : k <= Max(LinesOf(new, s))
      BY <3>1, Greatest
    <3> USE DEF m
    <3>3. Max(LinesOf(new, s)) \in 1..(n + 1) /\ n + 1 <= Max(LinesOf(new, s))
      BY <2>1, <3>2
    <3> QED
      BY <1>1, <3>3
  <2> QED
    BY <1>2, <1>3, <1>4, <2>1, <2>2 DEF Entries
<1>6. ASSUME NEW t \in Approval, t # s PROVE Entries(new)[t] = Entries(file)[t]
  <2>1. LinesOf(new, t) = LinesOf(file, t)
    <3>1. DOMAIN file.lines = 1..n
      BY <1>1
    <3> QED
      BY <1>1, <1>3, <1>4, <1>6, <3>1 DEF LinesOf
  <2>2. CASE LinesOf(file, t) = {}
    BY <2>1, <2>2 DEF Entries
  <2>3. CASE LinesOf(file, t) # {}
    <3>1. LinesOf(file, t) \in SUBSET (1..n)
      BY <1>1 DEF LinesOf
    <3>2. Max(LinesOf(file, t)) \in 1..n
      BY <1>1, <2>3, <3>1, Greatest
    <3>3. file.text = "whole"
      BY <2>3 DEF LinesOf
    <3> QED
      BY <1>2, <1>3, <2>1, <2>3, <3>2, <3>3 DEF Entries
  <2> QED
    BY <2>2, <2>3
<1> QED
  BY <1>5, <1>6 DEF Entries, new

\* What approve.py writes, and any part of it, is a file.
LEMMA AppendedTyped ==
    ASSUME NEW file \in File, NEW s \in Approval, NEW blobs \in Blobs
    PROVE  Appended(file, s, blobs) \in File
<1> HIDE DEF Entry, Blobs
<1>1. [stage |-> s, entry |-> Bound(blobs)] \in Line
  BY Values DEF Line
<1>2. Append(file.lines, [stage |-> s, entry |-> Bound(blobs)]) \in Seq(Line)
  BY <1>1 DEF File
<1> QED
  BY <1>2 DEF Appended, File

LEMMA PartsTyped ==
    ASSUME NEW file \in File, NEW part \in Parts(file)
    PROVE  part \in File /\ part.text # "absent"
<1> HIDE DEF Line
<1>1. CASE part = Keyless
  BY <1>1, Values DEF Keyless
<1>2. CASE part # Keyless
  <2>1. \E text \in {"whole", "broken"}, n \in 0..Len(file.lines) :
           part = [text |-> text, lines |-> SubSeq(file.lines, 1, n)]
    BY <1>2 DEF Parts
  <2>2. \A n \in 0..Len(file.lines) : SubSeq(file.lines, 1, n) \in Seq(Line)
    <3>1. file.lines \in Seq(Line)
      BY DEF File
    <3>2. \A n \in 0..Len(file.lines) : \A i \in 1..n : file.lines[i] \in Line
      BY <3>1
    <3> QED
      BY <3>1, <3>2
  <2>3. PICK text \in {"whole", "broken"}, n \in 0..Len(file.lines) :
            part = [text |-> text, lines |-> SubSeq(file.lines, 1, n)]
    BY <2>1
  <2>4. SubSeq(file.lines, 1, n) \in Seq(Line)
    BY <2>2
  <2> QED
    BY <2>3, <2>4 DEF File
<1> QED
  BY <1>1, <1>2

\* Hashing documents of a typed state gives hashes.
LEMMA HashesTyped ==
    ASSUME docs \in Blobs, NEW s, NEW names
    PROVE  StageBlobs(s, names) \in Blobs
BY DEF StageBlobs, Blobs

\* What is to be checked are stages.
LEMMA ToCheckTyped ==
    ASSUME NEW contents PROVE ToCheck(contents) \in SUBSET StageSet
BY DEF ToCheck, Detecting

\* The contents the entries approve have their type.
LEMMA TaskContentsTyped ==
    ASSUME NEW entries \in [Approval -> Entry]
    PROVE  TaskContents(entries) \subseteq Contents \cup {Absent}
BY Values DEF TaskContents, Entry, Blobs

\* The stage of the task is among those the run checks.
LEMMA TaskChecked ==
    ASSUME NEW contents, Detecting(contents) # {}
    PROVE  Task.stage \in ToCheck(contents)
BY DEF ToCheck, Detecting

\* The types of "op" and "run" in TypeOK.
OpType ==
    [pc : {"idle", "compare", "read", "write", "fill", "commit", "answered"},
     stage : Approval, names : SUBSET Documents, blobs : Blobs,
     current : File, rc : {0, 1}]

RunType ==
    [pc : RunOver \cup {"read", "track", "document", "scan", "load", "stages"},
     bytes : Contents \cup {NotRead}, tracked : BOOLEAN, scan : Blobs,
     recorded : [Approval -> Entry], todo : SUBSET StageSet, ready : BOOLEAN]

\* Nothing has been read when the processes have not started.
LEMMA ApprovalsInit == Init => ApprovalsInv
<1> SUFFICES ASSUME Init PROVE ApprovalsInv
  OBVIOUS
<1>1. TypeOK
  <2>1. tree \in File /\ head \in File
    BY Values DEF Init
  <2>2. op \in OpType
    BY Values DEF Init, OpType
  <2>3. run \in [pc : RunOver \cup {"read", "track", "document", "scan", "load", "stages"},
                 bytes : Contents \cup {NotRead}, tracked : BOOLEAN, scan : Blobs,
                 recorded : [Approval -> Entry], todo : SUBSET StageSet,
                 ready : BOOLEAN]
    BY Values DEF Init, Process, RunOver
  <2>4. /\ docs \in Blobs /\ approved = {} /\ quiet = TRUE
        /\ edits = 0 /\ calls = 0 /\ gitErrors = 0 /\ cuts = 0 /\ runs = 0
    BY DEF Init
  <2> HIDE DEF Entry, Blobs, RunOver, File
  <2> QED
    BY <2>1, <2>2, <2>3, <2>4 DEF TypeOK, OpType
<1>2. OperatorKnows
  <2>1. tree = head /\ op.current = NoFile /\ op.pc = "idle"
    BY DEF Init
  <2>2. head = NoFile \/ head = Unhashed
    BY DEF Init
  <2>3. Ordinary(NoFile) /\ Ordinary(Unhashed)
    BY DEF Ordinary, NoFile, Unhashed
  <2> QED
    BY <2>1, <2>2, <2>3 DEF OperatorKnows, Keeps
<1>3. RunKnows /\ QuietRun /\ TrackedRunIsApproved /\ QuietCheckSound
  BY DEF Init, RunKnows, QuietRun, TrackedRunIsApproved, QuietCheckSound, Process
<1> QED
  BY <1>1, <1>2, <1>3 DEF ApprovalsInv

-----------------------------------------------------------------------------
\* Every step keeps the types.
LEMMA TypesStep == TypeOK /\ [Next]_vars => TypeOK'
<1> SUFFICES ASSUME TypeOK, [Next]_vars PROVE TypeOK'
  OBVIOUS
<1> USE DEF TypeOK
<1>1. CASE Edit
  <2>1. docs' \in Blobs
    BY <1>1 DEF Edit, Blobs
  <2>2. edits' \in 0..MaxEdits
    BY <1>1 DEF Edit
  <2>3. /\ UNCHANGED <<tree, head, op, run, calls, gitErrors, cuts, runs, approved>>
        /\ quiet' = FALSE
    BY <1>1 DEF Edit
  <2> QED
    BY <2>1, <2>2, <2>3
<1>2. CASE CommitAll
  <2>1. TaskContents(Entries(tree)) \subseteq Contents \cup {Absent}
    BY EntriesTyped, TaskContentsTyped
  <2> QED
    BY <1>2, <2>1 DEF CommitAll, CommitTree, counters
<1>3. CASE Revert
  BY <1>3 DEF Revert, counters
<1>4. CASE ApproveHashes
  <2>1. PICK s \in Approval :
          LET names == Listed(docs)
              blobs == StageBlobs(s, names)
              refused == names = {} \/ (s \in Evidence /\ blobs = NoBlobs)
          IN  IF refused THEN Answered(s, NoBlobs, 1)
              ELSE op' = [pc |-> "compare", stage |-> s, names |-> names,
                          blobs |-> blobs, current |-> NoFile, rc |-> 0]
    BY <1>4 DEF ApproveHashes
  <2>2. StageBlobs(s, Listed(docs)) \in Blobs /\ Listed(docs) \subseteq Documents
    BY HashesTyped DEF Listed
  <2>3. op' \in OpType
    BY <2>1, <2>2, Values DEF Answered, OpType
  <2> QED
    BY <1>4, <2>3 DEF ApproveHashes, files, OpType
<1>5. CASE ApproveCompares
  <2>1. StageBlobs(op.stage, op.names) \in Blobs
    BY HashesTyped
  <2>2. op' \in OpType
    BY <1>5, <2>1, Values DEF ApproveCompares, Answer, Answered, OpType
  <2> QED
    BY <1>5, <2>2 DEF ApproveCompares, files, counters, OpType
<1>6. CASE ApproveReads \/ ApproveTruncates
  <2>1. Answer(1) => op' \in OpType
    BY Values DEF Answer, Answered, OpType
  <2>2. op' \in OpType /\ tree' \in File
    BY <1>6, <2>1, Values DEF ApproveReads, ApproveTruncates, files, OpType
  <2> QED
    BY <1>6, <2>2 DEF ApproveReads, ApproveTruncates, files, counters, OpType
<1>7. CASE ApproveWrites
  <2>1. tree' \in File
    BY <1>7, AppendedTyped DEF ApproveWrites
  <2> QED
    BY <1>7, <2>1 DEF ApproveWrites, counters
<1>8. CASE ApproveCommits
  <2>1. TaskContents(Entries(tree)) \subseteq Contents \cup {Absent}
    BY EntriesTyped, TaskContentsTyped
  <2>2. op' \in OpType
    BY <1>8, Values DEF ApproveCommits, Answer, Answered, OpType
  <2> QED
    BY <1>8, <2>1, <2>2 DEF ApproveCommits, CommitTree, counters, OpType
<1>9. CASE ApproveCommitFails \/ ApproveCutShort
  <2>1. op' \in OpType
    BY <1>9, Values DEF ApproveCommitFails, ApproveCutShort, Answer, Answered, OpType
  <2>2. tree' \in File
    BY <1>9, AppendedTyped, PartsTyped DEF ApproveCommitFails, ApproveCutShort, files
  <2>3. /\ gitErrors' \in Nat /\ cuts' \in Nat /\ gitErrors' + cuts' <= MaxFailures
    BY <1>9 DEF ApproveCommitFails, ApproveCutShort, MayFail
  <2>4. UNCHANGED <<docs, head, run, edits, calls, runs, approved, quiet>>
    BY <1>9 DEF ApproveCommitFails, ApproveCutShort, files
  <2> QED
    BY <2>1, <2>2, <2>3, <2>4 DEF OpType
<1>10. CASE RunBegins
  <2>1. TaskContents(Entries(head)) \subseteq Contents \cup {Absent}
    BY EntriesTyped, TaskContentsTyped
  <2>2. run' \in RunType
    BY <1>10, Values DEF RunBegins, Process, RunOver, RunType
  <2>3. /\ UNCHANGED <<docs, tree, head, op, edits, calls, gitErrors, cuts>>
        /\ approved' = TaskContents(Entries(head)) /\ quiet' = TRUE
        /\ runs' \in 0..MaxRuns
    BY <1>10 DEF RunBegins, files
  <2> HIDE DEF File, Entry, Blobs
  <2> QED
    BY <2>1, <2>2, <2>3 DEF RunType
<1>11. CASE RunReads
  <2>1. docs[Task] \in Contents \cup {Absent}
    BY DEF Blobs
  <2> QED
    BY <1>11, <2>1 DEF RunReads, StepOnly, files, counters
<1>12. CASE RunTracks \/ RunChecksDocument \/ RunDecides
  <2>1. run' \in RunType
    <3>1. Process("refused", NotRead, FALSE) \in RunType
      BY Values DEF Process, RunType, RunOver
    <3>2. Process("started", run.bytes, run.tracked) \in RunType
      BY Values DEF Process, RunType, RunOver
    <3>3. /\ [run EXCEPT !.pc = "document", !.tracked = TRUE] \in RunType
          /\ [run EXCEPT !.pc = "scan"] \in RunType
      BY DEF RunType, RunOver
    <3> QED
      BY <1>12, <3>1, <3>2, <3>3
      DEF RunTracks, RunChecksDocument, RunDecides, RunStarts, Refuse, Goto
  <2>2. StepOnly
    BY <1>12 DEF RunTracks, RunChecksDocument, RunDecides
  <2> QED
    BY <2>1, <2>2 DEF RunType, StepOnly, files, counters
<1>13. CASE RunScans
  <2>1. Process("refused", NotRead, FALSE) \in RunType
    BY Values DEF Process, RunType, RunOver
  <2>2. [run EXCEPT !.pc = "load", !.scan = docs, !.todo = ToCheck(docs)] \in RunType
    BY ToCheckTyped DEF RunType, RunOver
  <2> QED
    BY <1>13, <2>1, <2>2 DEF RunScans, Refuse, RunType, StepOnly, files, counters
<1>14. CASE RunLoads
  <2>1. run' \in RunType
    BY <1>14, EntriesTyped DEF RunLoads, RunType, RunOver
  <2> QED
    BY <1>14, <2>1 DEF RunLoads, RunType, StepOnly, files, counters
<1>15. CASE RunChecksStage
  <2>1. PICK s \in run.todo :
          run' = [run EXCEPT !.todo = @ \ {s}, !.ready = @ /\ StageReady(s)]
    BY <1>15 DEF RunChecksStage
  <2>2. (run.ready /\ StageReady(s)) \in BOOLEAN
    OBVIOUS
  <2> QED
    BY <1>15, <2>1, <2>2 DEF RunChecksStage, StepOnly, files, counters
<1>16. CASE UNCHANGED vars
  BY <1>16 DEF vars, files, counters
<1> QED
  BY <1>1, <1>2, <1>3, <1>4, <1>5, <1>6, <1>7, <1>8, <1>9, <1>10, <1>11, <1>12,
     <1>13, <1>14, <1>15, <1>16 DEF Next, Operator, Engine

\* What the operator knows about a file is not disturbed by a step that leaves
\* the files, HEAD and approve.py alone.
LEMMA OperatorAlone ==
    ASSUME OperatorKnows, UNCHANGED <<tree, head, op, cuts>> PROVE OperatorKnows'
BY DEF OperatorKnows, Ordinary, Keeps

\* approve.py ends without another step.
LEMMA AnswerEnds ==
    ASSUME NEW s, NEW blobs, NEW code, Answered(s, blobs, code)
    PROVE  op'.pc = "answered" /\ op'.current = NoFile
BY DEF Answered

LEMMA EndKnows ==
    ASSUME TypeOK, OperatorKnows, op'.pc \in {"answered", "compare", "read"},
           op'.current \in {op.current, NoFile}, UNCHANGED <<tree, head, cuts>>,
           op.pc # "fill"
    PROVE  OperatorKnows'
BY DEF OperatorKnows, Ordinary, Keeps, NoFile

\* Whoever writes the file or HEAD keeps what HEAD had.
LEMMA OperatorStep == TypeOK /\ OperatorKnows /\ [Next]_vars => OperatorKnows'
<1> SUFFICES ASSUME TypeOK, OperatorKnows, [Next]_vars PROVE OperatorKnows'
  OBVIOUS
<1>0. /\ op.stage \in Approval /\ op.blobs \in Blobs /\ op.current \in File
      /\ tree \in File /\ head \in File /\ cuts \in Nat
      /\ op.pc \in {"idle", "compare", "read", "write", "fill", "commit", "answered"}
  BY DEF TypeOK
<1>00. DOMAIN op = {"pc", "stage", "names", "blobs", "current", "rc"}
  BY DEF TypeOK
<1>1. CASE Edit \/ Engine \/ UNCHANGED vars
  <2>1. UNCHANGED <<tree, head, op, cuts>>
    BY <1>1 DEF Edit, Engine, RunBegins, RunReads, RunTracks, RunChecksDocument, RunScans,
       RunLoads, RunChecksStage, RunDecides, StepOnly, files, counters, vars
  <2> QED
    BY <2>1, OperatorAlone
<1>2. CASE CommitAll
  <2>1. head' = tree /\ UNCHANGED <<tree, op, cuts>>
    BY <1>2 DEF CommitAll, CommitTree, counters
  <2>2. op.pc = "fill" => Keeps(tree, op.current) \/ cuts # 0
    <3>1. ASSUME op.pc = "fill", tree = Keyless PROVE Keeps(tree, op.current)
      BY <3>1, <1>0, EntriesTyped DEF Keeps, Keyless, NoEntry
    <3> QED
      BY <3>1 DEF OperatorKnows
  <2> QED
    BY <2>1, <2>2 DEF OperatorKnows, Ordinary, Keeps
<1>3. CASE Revert
  <2>1. tree' = head /\ UNCHANGED <<head, op, cuts>>
    BY <1>3 DEF Revert, counters
  <2> QED
    BY <2>1 DEF OperatorKnows, Ordinary, Keeps
<1>4. CASE ApproveHashes
  <2>1. op'.pc \in {"answered", "compare"} /\ op'.current = NoFile
    BY <1>4 DEF ApproveHashes, Answered
  <2> QED
    BY <1>4, <2>1, EndKnows DEF ApproveHashes, files
<1>5. CASE ApproveCompares
  <2>1. op'.pc \in {"answered", "read"} /\ op'.current \in {op.current, NoFile}
    BY <1>5, <1>00 DEF ApproveCompares, Answer, Answered
  <2> QED
    BY <1>5, <2>1, EndKnows DEF ApproveCompares, files, counters
<1>6. CASE ApproveReads
  <2>1. CASE tree.text = "keyless"
    BY <1>6, <2>1, EndKnows, AnswerEnds DEF ApproveReads, Answer, files, counters
  <2>2. CASE tree.text # "keyless"
    <3>1. /\ op'.pc = "write" /\ op'.current = tree /\ op.pc = "read"
          /\ UNCHANGED <<tree, head, cuts>>
      BY <1>6, <2>2, <1>00 DEF ApproveReads, files, counters
    <3> QED
      BY <2>2, <3>1 DEF OperatorKnows, Ordinary, Keeps
  <2> QED
    BY <2>1, <2>2
<1>7. CASE ApproveTruncates
  <2>1. /\ op.pc = "write" /\ op'.pc = "fill" /\ op'.current = op.current
        /\ tree' = Keyless /\ UNCHANGED <<head, cuts>>
    BY <1>7, <1>00 DEF ApproveTruncates, counters
  <2>2. Ordinary(tree)'
    BY <2>1 DEF Ordinary, Keyless
  <2> QED
    BY <2>1, <2>2 DEF OperatorKnows, Ordinary, Keeps
<1>8. CASE ApproveWrites
  <2>1. /\ op.pc = "fill" /\ op'.pc = "commit" /\ op'.current = op.current
        /\ op'.stage = op.stage /\ op'.blobs = op.blobs
        /\ UNCHANGED <<head, cuts>>
    BY <1>8, <1>00 DEF ApproveWrites, counters
  <2>2. CASE Replaced
    BY <1>8, <2>1, <2>2, <1>0 DEF ApproveWrites, Replaced, OperatorKnows, Ordinary, Keeps
  <2>3. CASE ~Replaced
    <3>1. tree' = Appended(op.current, op.stage, op.blobs)
      BY <1>8, <2>3 DEF ApproveWrites
    <3>2. /\ tree'.text = IF op.current.text = "absent" THEN "whole" ELSE op.current.text
          /\ op.current.text \in {"absent", "whole", "broken"}
      BY <1>0, <2>1, <3>1 DEF Appended, OperatorKnows, File
    <3>3. Ordinary(tree)'
      BY <2>1, <3>2 DEF Ordinary, OperatorKnows
    <3>4. ASSUME op.current.text # "broken"
          PROVE  Entries(tree') = [Entries(op.current) EXCEPT ![op.stage] = Bound(op.blobs)]
      BY <1>0, <2>1, <3>1, <3>2, <3>4, EntriesOfAppended DEF OperatorKnows, Ordinary
    <3>5. Entries(op.current) \in [Approval -> Entry] /\ Bound(op.blobs).kind = "bound"
      BY <1>0, EntriesTyped DEF Bound
    <3>6. tree'.text = "broken" \/ Entries(tree')[op.stage] = Bound(op.blobs)
      BY <1>0, <3>2, <3>4, <3>5
    <3>7. ASSUME cuts = 0 PROVE Keeps(head, tree')
      <4>1. op.current.text # "broken" /\ Keeps(head, op.current)
        BY <2>1, <3>7 DEF OperatorKnows, Ordinary
      <4> QED
        BY <3>4, <3>5, <4>1 DEF Keeps
    <3> QED
      BY <2>1, <3>3, <3>6, <3>7 DEF OperatorKnows, Ordinary
  <2> QED
    BY <2>2, <2>3
<1>9. CASE ApproveCutShort
  <2>1. /\ op'.pc = "answered" /\ op'.current = NoFile /\ head' = head
        /\ cuts' = cuts + 1
    BY <1>9 DEF ApproveCutShort, Answer, Answered
  <2>2. cuts' > 0
    BY <2>1, <1>0
  <2>3. Ordinary(tree)'
    BY <1>9, <1>0, <2>2, AppendedTyped, PartsTyped DEF ApproveCutShort, OperatorKnows, Ordinary
  <2>4. Ordinary(NoFile)' /\ Ordinary(head)'
    BY <2>1, <2>2 DEF Ordinary, NoFile, OperatorKnows
  <2> QED
    BY <2>1, <2>2, <2>3, <2>4 DEF OperatorKnows, Ordinary
<1>10. CASE ApproveCommits
  <2>1. /\ op.pc = "commit" /\ head' = tree /\ UNCHANGED <<tree, cuts>>
        /\ op'.pc = "answered" /\ op'.current = NoFile
    BY <1>10 DEF ApproveCommits, CommitTree, Answer, Answered, counters
  <2> QED
    BY <2>1 DEF OperatorKnows, Ordinary, Keeps, NoFile
<1>11. CASE ApproveCommitFails
  BY <1>11, EndKnows, AnswerEnds DEF ApproveCommitFails, Answer, files
<1> QED
  BY <1>1, <1>2, <1>3, <1>4, <1>5, <1>6, <1>7, <1>8, <1>9, <1>10, <1>11
  DEF Next, Operator

\* What is left of a run that was refused, or that starts.
LEMMA Outcomes ==
    /\ Refuse => run'.pc = "refused"
    /\ TypeOK /\ RunStarts => /\ run'.pc = "started"
                               /\ run'.bytes = run.bytes
                               /\ run'.tracked = run.tracked
BY DEF Refuse, RunStarts, Process, TypeOK

\* What StageReady finds, FoundReady remembers.
LEMMA ReadyFound ==
    ASSUME TypeOK, NEW s \in StageSet, StageReady(s)
    PROVE  FoundReady(s)
BY DEF StageReady, FoundReady, Mismatch, Bound, TypeOK

\* A run that decides to start has checked the stage of its task.
LEMMA DecisionApproved ==
    ASSUME TypeOK, RunKnows, RunDecides, run.ready, ContentApproved
    PROVE  run.bytes \in approved
<1>1. /\ TaskContents(run.recorded) \subseteq approved
      /\ FoundReady(Task.stage)
  BY TaskChecked DEF RunDecides, RunKnows
<1>2. run.recorded[Task.stage].kind = "bound"
  BY <1>1, Values DEF FoundReady
<1> QED
  BY <1>1, <1>2 DEF ContentApproved, TaskContents

\* What the run knows stays true, whoever moves.
LEMMA RunStep ==
    TypeOK /\ RunKnows /\ TrackedRunIsApproved /\ [Next]_vars
        => RunKnows' /\ TrackedRunIsApproved'
<1> SUFFICES ASSUME TypeOK, RunKnows, TrackedRunIsApproved, [Next]_vars
             PROVE  RunKnows' /\ TrackedRunIsApproved'
  OBVIOUS
<1>1. CASE UNCHANGED <<run, head, approved>>
  BY <1>1 DEF RunKnows, FoundReady, TrackedRunIsApproved
<1>2. CASE CommitTree /\ UNCHANGED run
  BY <1>2 DEF CommitTree, RunKnows, FoundReady, TrackedRunIsApproved
<1>3. CASE RunBegins
  BY <1>3 DEF RunBegins, Process, RunKnows, TrackedRunIsApproved, files
<1>4. ASSUME Engine, ~RunBegins PROVE RunKnows' /\ TrackedRunIsApproved'
  <2> USE DEF TypeOK
  <2>1. UNCHANGED <<head, approved>>
    BY <1>4 DEF Engine, RunReads, RunTracks, RunChecksDocument, RunScans, RunLoads,
       RunChecksStage, RunDecides, StepOnly, files
  <2>2. run.pc # "idle" /\ TaskContents(Entries(head)) \subseteq approved
    BY <1>4 DEF Engine, RunReads, RunTracks, RunChecksDocument, RunScans, RunLoads,
       RunChecksStage, RunDecides, RunKnows
  <2>3. CASE RunReads
    BY <2>1, <2>2, <2>3 DEF RunReads, RunKnows, TrackedRunIsApproved
  <2>4. CASE RunTracks \/ RunChecksDocument
    <3>1. run'.pc = "refused"
          \/ (run'.pc = "started" /\ ~run'.tracked)
          \/ run'.pc \in {"document", "scan"}
      BY <2>4, Outcomes DEF RunTracks, RunChecksDocument, Goto, RunKnows
    <3> QED
      BY <2>1, <2>2, <3>1 DEF RunKnows, TrackedRunIsApproved
  <2>5. CASE RunScans
    <3>1. \/ run'.pc = "refused"
          \/ /\ Detecting(docs) # {}
             /\ run' = [run EXCEPT !.pc = "load", !.scan = docs, !.todo = ToCheck(docs)]
      BY <2>5, Outcomes DEF RunScans
    <3> QED
      BY <2>1, <2>2, <3>1 DEF RunKnows, TrackedRunIsApproved
  <2>6. CASE RunLoads
    BY <2>1, <2>2, <2>6 DEF RunLoads, RunKnows, TrackedRunIsApproved
  <2>7. CASE RunChecksStage
    <3>1. PICK s \in run.todo :
            run' = [run EXCEPT !.todo = @ \ {s}, !.ready = @ /\ StageReady(s)]
      BY <2>7 DEF RunChecksStage
    <3>2. run.pc = "stages" /\ s \in StageSet
      BY <2>7 DEF RunChecksStage
    <3>3. ASSUME run'.ready, NEW t \in ToCheck(run.scan) \ run'.todo
          PROVE  FoundReady(t)'
      <4>1. run.ready /\ StageReady(s)
        BY <3>1, <3>3
      <4>2. FoundReady(t)
        BY <3>1, <3>2, <3>3, <4>1, ReadyFound DEF RunKnows
      <4> QED
        BY <3>1, <4>2 DEF FoundReady
    <3> QED
      BY <2>1, <2>2, <3>1, <3>2, <3>3 DEF RunKnows, TrackedRunIsApproved
  <2>8. CASE RunDecides
    <3>1. CASE run.ready /\ ContentApproved
      <4>1. run'.pc = "started" /\ run'.bytes = run.bytes
        BY <2>8, <3>1, Outcomes DEF RunDecides
      <4>2. run.bytes \in approved
        BY <2>8, <3>1, DecisionApproved
      <4> QED
        BY <2>1, <2>2, <4>1, <4>2 DEF RunKnows, TrackedRunIsApproved
    <3>2. CASE ~(run.ready /\ ContentApproved)
      <4>1. run'.pc = "refused"
        BY <2>8, <3>2, Outcomes DEF RunDecides
      <4> QED
        BY <2>1, <2>2, <4>1 DEF RunKnows, TrackedRunIsApproved
    <3> QED
      BY <3>1, <3>2
  <2> QED
    BY <1>4, <2>3, <2>4, <2>5, <2>6, <2>7, <2>8 DEF Engine
<1> QED
  BY <1>1, <1>2, <1>3, <1>4 DEF Next, Edit, CommitAll, Revert, Operator, ApproveHashes,
     ApproveCompares, ApproveReads, ApproveTruncates, ApproveWrites, ApproveCutShort,
     ApproveCommits, ApproveCommitFails, files, vars

\* As long as nothing changes, the run's copies stay the files.
LEMMA QuietStep ==
    TypeOK /\ RunKnows /\ QuietRun /\ QuietCheckSound /\ [Next]_vars
        => QuietRun' /\ QuietCheckSound'
<1> SUFFICES ASSUME TypeOK, RunKnows, QuietRun, QuietCheckSound, [Next]_vars, quiet'
             PROVE  QuietRun' /\ QuietCheckSound'
  BY DEF QuietRun, QuietCheckSound
<1> DEFINE Fit(s) == Entries(head)[s] = Bound(StageBlobs(s, Listed(docs)))
<1>1. CASE Entries(head') = Entries(head) /\ UNCHANGED <<run, docs, quiet>>
  <2>1. \A s : Fit(s)' = Fit(s)
    BY <1>1 DEF StageBlobs
  <2> QED
    BY <1>1, <2>1 DEF QuietRun, QuietCheckSound
<1>2. CASE RunBegins
  BY <1>2 DEF RunBegins, Process, QuietRun, QuietCheckSound, files
<1>3. CASE Engine /\ ~RunBegins
  <2> USE DEF TypeOK
  <2>1. UNCHANGED <<head, docs, quiet>>
    BY <1>3 DEF Engine, RunReads, RunTracks, RunChecksDocument, RunScans, RunLoads,
       RunChecksStage, RunDecides, StepOnly, files
  <2>2. \A s : StageBlobs(s, Listed(docs))' = StageBlobs(s, Listed(docs))
    BY <2>1 DEF StageBlobs
  <2>3. CASE RunReads \/ RunTracks \/ RunChecksDocument
    <3>1. docs[Task] # Absent
      BY <2>1, <2>3 DEF RunReads, RunTracks, RunChecksDocument, QuietRun
    <3>2. run'.pc \in {"track", "document", "scan", "refused"}
      BY <2>3, <3>1, Outcomes DEF RunReads, RunTracks, RunChecksDocument, Goto
    <3> QED
      BY <2>1, <3>1, <3>2 DEF QuietRun, QuietCheckSound
  <2>4. CASE RunScans
    <3>1. run'.pc = "refused" \/ (run'.pc = "load" /\ run'.scan = docs)
      BY <2>4, Outcomes DEF RunScans
    <3> QED
      BY <2>1, <3>1 DEF QuietRun, QuietCheckSound
  <2>5. CASE RunLoads
    BY <2>1, <2>5 DEF RunLoads, RunKnows, QuietRun, QuietCheckSound
  <2>6. CASE RunChecksStage
    <3>1. PICK s \in run.todo :
            run' = [run EXCEPT !.todo = @ \ {s}, !.ready = @ /\ StageReady(s)]
      BY <2>6 DEF RunChecksStage
    <3>2. run.pc = "stages" /\ run.scan = docs /\ run.recorded = Entries(head)
      BY <2>1, <2>6 DEF RunChecksStage, QuietRun
    <3>3. ASSUME run'.ready,
                 NEW t \in (ToCheck(docs) \ run'.todo) \cap Approval \cap Evidence
          PROVE  Fit(t)
      <4>1. run.ready /\ StageReady(s)
        BY <3>1, <3>3
      <4>2. CASE t = s
        BY <3>2, <4>1, <4>2 DEF StageReady, Mismatch
      <4>3. CASE t # s
        BY <2>1, <3>1, <3>2, <3>3, <4>1, <4>3 DEF QuietRun
      <4> QED
        BY <4>2, <4>3
    <3> QED
      BY <2>1, <2>2, <3>1, <3>2, <3>3 DEF QuietRun, QuietCheckSound
  <2>7. CASE RunDecides
    <3>1. /\ run.pc = "stages" /\ run.scan = docs /\ run.recorded = Entries(head)
          /\ run.todo = {}
      BY <2>1, <2>7 DEF RunDecides, QuietRun
    <3>2. run.ready => \A s \in ToCheck(docs) :
                          /\ FoundReady(s)
                          /\ s \in Approval \cap Evidence => Fit(s)
      BY <2>1, <3>1 DEF QuietRun, RunKnows
    <3>3. run'.pc = "refused" \/ (run'.pc = "started" /\ run.ready)
      BY <2>7, Outcomes DEF RunDecides
    <3> QED
      BY <2>1, <2>2, <3>1, <3>2, <3>3 DEF FoundReady, QuietRun, QuietCheckSound
  <2> QED
    BY <1>3, <2>3, <2>4, <2>5, <2>6, <2>7 DEF Engine
<1>4. CASE CommitTree /\ UNCHANGED <<run, docs>>
  BY <1>1, <1>4 DEF CommitTree
<1> QED
  BY <1>1, <1>2, <1>3, <1>4 DEF Next, Edit, CommitAll, Revert, Operator, ApproveHashes,
     ApproveCompares, ApproveReads, ApproveTruncates, ApproveWrites, ApproveCutShort,
     ApproveCommits, ApproveCommitFails, files, vars

-----------------------------------------------------------------------------
\* The invariant holds in every state.
LEMMA ApprovalsInvariant == Spec => []ApprovalsInv
<1>1. ApprovalsInv /\ [Next]_vars => ApprovalsInv'
  BY TypesStep, OperatorStep, RunStep, QuietStep DEF ApprovalsInv
<1> QED
  BY <1>1, ApprovalsInit, PTL DEF Spec

\* The type of the state: stages.py, approve.py and the start of main_async.
THEOREM ApprovalsTypeOK == Spec => []TypeOK
<1>1. ApprovalsInv => TypeOK
  BY DEF ApprovalsInv
<1> QED
  BY <1>1, ApprovalsInvariant, PTL

\* A tracked run works on bytes that HEAD approved while it started, whatever
\* is edited, approved and committed meanwhile (prerun_missing).
THEOREM TrackedRunsApproved == Spec => []TrackedRunIsApproved
<1>1. ApprovalsInv => TrackedRunIsApproved
  BY DEF ApprovalsInv
<1> QED
  BY <1>1, ApprovalsInvariant, PTL

\* The seven reads of prerun_missing mean what they say when nothing changes.
THEOREM QuietChecksSound == Spec => []QuietCheckSound
<1>1. ApprovalsInv => QuietCheckSound
  BY DEF ApprovalsInv
<1> QED
  BY <1>1, ApprovalsInvariant, PTL

\* An approval HEAD has is lost by no commit, of approve.py or of others, except
\* of a file that is being written or after a write was cut short.
THEOREM ApprovalsKept == Spec => ApprovalKept
<1>1. ASSUME ApprovalsInv, [Next]_vars, cuts = 0, op.pc # "fill"
      PROVE  Keeps(head, head')
  <2>1. head' = head \/ head' = tree
    BY <1>1 DEF Next, Edit, CommitAll, CommitTree, Revert, Operator, ApproveHashes,
       ApproveCompares, ApproveReads, ApproveTruncates, ApproveWrites, ApproveCutShort,
       ApproveCommits, ApproveCommitFails, Engine, RunBegins, RunReads, RunTracks,
       RunChecksDocument, RunScans, RunLoads, RunChecksStage, RunDecides, StepOnly,
       files, vars
  <2>2. Keeps(head, tree)
    BY <1>1 DEF ApprovalsInv, OperatorKnows
  <2> QED
    BY <2>1, <2>2 DEF Keeps
<1>2. ApprovalsInv /\ [Next]_vars
        => [cuts = 0 /\ op.pc # "fill" => Keeps(head, head')]_vars
  BY <1>1
<1> QED
  BY <1>2, ApprovalsInvariant, PTL DEF Spec, ApprovalKept

\* approve.py answers 0 only for an approval that HEAD holds when it answers, of
\* the documents it hashed; the exception is a file broken by an earlier write.
THEOREM AnswersCount == Spec => AnsweredCounts
<1> DEFINE Counts ==
        \/ cuts > 0 /\ head'.text = "broken"
        \/ /\ Entries(head')[op.stage].kind # "none"
           /\ op.stage \in Evidence => Entries(head')[op.stage] = Bound(op'.blobs)
<1>1. ASSUME ApprovalsInv, [Next]_vars, op.pc # "answered", op'.pc = "answered",
             op'.rc = 0
      PROVE  Counts
  <2>a. ASSUME ApproveReads \/ ApproveTruncates \/ ApproveWrites
        PROVE  op'.pc \in {"write", "fill", "commit"} \/ op'.rc = 1
    <3>1. DOMAIN op = {"pc", "stage", "names", "blobs", "current", "rc"}
      BY <1>1 DEF ApprovalsInv, TypeOK
    <3>2. CASE ApproveReads
      <4>1. Answer(1) => op'.rc = 1
        BY DEF Answer, Answered
      <4>2. op' = [op EXCEPT !.pc = "write", !.current = tree] => op'.pc = "write"
        BY <3>1
      <4> QED
        BY <3>2, <4>1, <4>2 DEF ApproveReads
    <3>3. CASE ApproveTruncates \/ ApproveWrites
      BY <3>1, <3>3 DEF ApproveTruncates, ApproveWrites
    <3> QED
      BY <2>a, <3>2, <3>3
  <2>b. ASSUME op' = op PROVE FALSE
    BY <1>1, <2>b
  <2>1. \/ ApproveHashes \/ ApproveCompares \/ ApproveCommits
        \/ ApproveCommitFails \/ ApproveCutShort
    <3>1. Edit \/ CommitAll \/ Revert \/ Engine \/ UNCHANGED vars => op' = op
      BY DEF Edit, CommitAll, Revert, Engine, RunBegins, RunReads, RunTracks,
         RunChecksDocument, RunScans, RunLoads, RunChecksStage, RunDecides, StepOnly, vars
    <3>2. ~(ApproveReads \/ ApproveTruncates \/ ApproveWrites)
      BY <1>1, <2>a
    <3> QED
      BY <1>1, <2>b, <3>1, <3>2 DEF Next, Operator
  <2>2. CASE ApproveHashes
    BY <1>1, <2>2 DEF ApproveHashes, Answered
  <2>3. CASE ApproveCompares
    <3> DEFINE blobs == StageBlobs(op.stage, op.names)
    <3>1. /\ Entries(head)[op.stage].kind # "none"
          /\ ~Mismatch(op.stage, Entries(head)[op.stage], blobs)
          /\ Answered(op.stage, blobs, 0) /\ head' = head
      <4>1. Answer(1) => op'.rc = 1
        BY DEF Answer, Answered
      <4>2. op' = [op EXCEPT !.pc = "read"] => op'.pc = "read"
        BY <1>1 DEF ApprovalsInv, TypeOK
      <4> QED
        BY <1>1, <2>3, <4>1, <4>2 DEF ApproveCompares, files
    <3>2. op'.blobs = blobs
      BY <3>1 DEF Answered
    <3> QED
      BY <3>1, <3>2 DEF Mismatch
  <2>4. CASE ApproveCommits
    <3>1. /\ op.pc = "commit" /\ tree # head /\ head' = tree /\ op'.blobs = op.blobs
      BY <2>4 DEF ApproveCommits, CommitTree, Answer, Answered
    <3>2. \/ cuts > 0 /\ tree.text = "broken"
          \/ Entries(tree)[op.stage] = Bound(op.blobs)
      BY <1>1, <3>1 DEF ApprovalsInv, OperatorKnows, Ordinary
    <3> QED
      BY <3>1, <3>2 DEF Bound
  <2>5. CASE ApproveCommitFails \/ ApproveCutShort
    BY <1>1, <2>5 DEF ApproveCommitFails, ApproveCutShort, Answer, Answered
  <2> QED
    BY <2>1, <2>2, <2>3, <2>4, <2>5
<1>2. ApprovalsInv /\ [Next]_vars
        => [op.pc # "answered" /\ op'.pc = "answered" /\ op'.rc = 0 => Counts]_vars
  BY <1>1
<1> QED
  BY <1>2, ApprovalsInvariant, PTL DEF Spec, AnsweredCounts
===============================================================================
