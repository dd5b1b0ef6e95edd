----------------------------- MODULE EngineServer -----------------------------
(***************************************************************************)
(* The engine's control server (src/ai/engine/mcp/server.py): sessions     *)
(* that start engines as detached processes, tell what became of the run   *)
(* mcp-run.json names, and reset the state directory.  Engines follow      *)
(* RunContract, several may run at once, and one may be started by hand.   *)
(*                                                                         *)
(* A session handles one call at a time.  Its children stay zombies until  *)
(* it asks for them; when it stops, they are handed to init, which asks at *)
(* once.  A process id that is free may be given to a new process.         *)
(***************************************************************************)
EXTENDS Integers, Sequences, RunContract

CONSTANTS
    Servers,       \* sessions of the MCP server (one per client)
    Pids,          \* process ids
    MaxRuns,       \* bound: engines started
    MaxStops,      \* bound: times a session stops and is started again
    MaxResets,     \* bound: resets
    MaxErrors,     \* bound: writes and removals that fail
    TriedModes     \* bound: modes engines are started in

ASSUME ServerAssumption ==
    /\ MaxRuns \in Nat \ {0}
    /\ MaxStops \in Nat
    /\ MaxResets \in Nat
    /\ MaxErrors \in Nat
    /\ TriedModes \subseteq Modes
    /\ {"init", "operator"} \cap Servers = {}

VARIABLES
    run,       \* each run: its process, and what became of it
    started,   \* runs started so far
    files,     \* the state directory: task, complete, blocked
    record,    \* mcp-run.json
    handle,    \* _PROCS: the run whose Popen each session holds
    at,        \* where each session's call is
    answer,    \* what engine_status has gathered, per session
    sweep,     \* the --mode reset process of each caller: its next file
    foreign,   \* process ids of other programs
    stops, resets, errors

world == <<run, started, files, sweep, foreign>>
sessions == <<record, handle, at, answer>>
bounds == <<stops, resets, errors>>
serverVars == <<world, sessions, bounds>>

Runs == 1..MaxRuns
Callers == Servers \cup {"operator"}

\* What json.loads makes of the record: nothing, if absent or not whole.
NoRun == 0
Torn == -1

NoAnswer == [run |-> NoRun, alive |-> FALSE, shipped |-> FALSE,
             blocked |-> FALSE]

\* A --mode reset process: the file it removes next (0: no process), and
\* whether a file could not be removed.
NoSweep == [next |-> 0, kept |-> FALSE]

-----------------------------------------------------------------------------
(* Processes.                                                              *)

Running(r) == run[r].phase \notin {"none", "over"}
Zombie(r) == run[r].phase = "over" /\ run[r].parent \in Servers
Exists(r) == Running(r) \/ Zombie(r)

FreePids == Pids \ (foreign \cup {run[r].pid : r \in {q \in Runs : Exists(q)}})

ChildrenOf(s) == {r \in Runs : Exists(r) /\ run[r].parent = s}

\* What is left of rs after the parent has asked for its finished children.
Reaped(rs) ==
    [r \in Runs |-> IF r \in rs /\ Zombie(r)
                    THEN [run[r] EXCEPT !.parent = "init"] ELSE run[r]]

\* History: another start or a reset has touched the directory since r began.
Disturbed(rs) == [r \in Runs |-> [rs[r] EXCEPT !.fate = "disturbed"]]

Alone == (\A q \in Runs : ~Running(q)) /\ \A c \in Callers : sweep[c] = NoSweep

NewRun(rs, r, mode, p, parent) ==
    [(IF started = 0 THEN rs ELSE Disturbed(rs)) EXCEPT
        ![r] = [phase |-> "starting", mode |-> mode, pid |-> p,
                parent |-> parent,
                fate |-> IF Alone THEN "open" ELSE "disturbed"]]

\* run[r] after its process has gone from one phase to the next.
Moved(r, next) ==
    [run[r] EXCEPT
        !.phase = next.phase,
        !.fate = IF @ # "open" THEN @
                 ELSE IF next.phase = "done" /\ next.signals.complete = r
                      THEN "shipped"
                 ELSE IF next.phase = "over"
                         /\ run[r].phase \in {"starting", "ready", "gates"}
                      THEN "cut"
                 ELSE @]

Signals == [complete |-> files.complete, blocked |-> files.blocked]

-----------------------------------------------------------------------------

Init ==
    /\ run = [r \in Runs |->
                 [phase |-> "none", mode |-> "loop", pid |-> 0,
                  parent |-> "init", fate |-> "open"]]
    /\ started = 0
    /\ files = [task |-> FALSE, complete |-> NoFile, blocked |-> FALSE]
    /\ record = NoRun
    /\ handle = [s \in Servers |-> NoRun]
    /\ at = [s \in Servers |-> "ready"]
    /\ answer = [s \in Servers |-> NoAnswer]
    /\ sweep = [c \in Callers |-> NoSweep]
    /\ foreign = {}
    /\ stops = 0 /\ resets = 0 /\ errors = 0

(* The engines and the other programs.                                     *)

\* One step of a run; task.md is written on the way from "starting".
EngineStep(r) ==
    /\ Running(r)
    /\ \E next \in Moves(run[r].mode, run[r].phase, Signals, r) :
          /\ run' = [run EXCEPT ![r] = Moved(r, next)]
          /\ files' = [task |-> files.task \/ next.phase = "ready",
                       complete |-> next.signals.complete,
                       blocked |-> next.signals.blocked]
    /\ UNCHANGED <<started, sweep, foreign, sessions, bounds>>

\* An engine started from a terminal: no record of it.
StartByHand ==
    /\ started < MaxRuns
    /\ started' = started + 1
    /\ \E p \in FreePids, mode \in TriedModes :
          run' = NewRun(run, started', mode, p, "init")
    /\ UNCHANGED <<files, sweep, foreign, sessions, bounds>>

\* Another program of this user is given a process id.
ForeignProcess ==
    /\ \E p \in FreePids : foreign' = foreign \cup {p}
    /\ UNCHANGED <<run, started, files, sweep, sessions, bounds>>

-----------------------------------------------------------------------------
(* start_engine, once its arguments are found valid.                       *)

\* Popen: it first asks for finished children that no handle is held of (the
\* subprocess module does), and the handle held so far is dropped.
Launch(s) ==
    /\ at[s] = "ready"
    /\ started < MaxRuns
    /\ started' = started + 1
    /\ \E p \in FreePids, mode \in TriedModes :
          run' = NewRun(Reaped(ChildrenOf(s)), started', mode, p, s)
    /\ handle' = [handle EXCEPT ![s] = started']
    /\ at' = [at EXCEPT ![s] = "launched"]
    /\ answer' = [answer EXCEPT ![s] = [@ EXCEPT !.run = started']]
    /\ UNCHANGED <<files, sweep, foreign, record, bounds>>

\* write_text opens the record, which empties it.
OpenRecord(s) ==
    /\ at[s] = "launched"
    /\ record' = Torn
    /\ at' = [at EXCEPT ![s] = "record"]
    /\ UNCHANGED <<world, handle, answer, bounds>>

Idle(s) ==
    /\ at' = [at EXCEPT ![s] = "ready"]
    /\ answer' = [answer EXCEPT ![s] = NoAnswer]

\* The record is written, over what another session may have written since.
WriteRecord(s) ==
    /\ at[s] = "record"
    /\ record' \in {answer[s].run} \cup (IF record = Torn THEN {} ELSE {Torn})
    /\ Idle(s)
    /\ UNCHANGED <<world, handle, bounds>>

\* The record was unlinked by a reset while it was open.
WriteLost(s) ==
    /\ at[s] = "unlinked"
    /\ Idle(s)
    /\ UNCHANGED <<world, record, handle, bounds>>

\* Opening or writing the record fails: the call ends, the engine runs.
RecordFails(s) ==
    /\ at[s] \in {"launched", "record"}
    /\ errors < MaxErrors
    /\ errors' = errors + 1
    /\ Idle(s)
    /\ UNCHANGED <<world, record, handle, stops, resets>>

-----------------------------------------------------------------------------
(* engine_status.                                                          *)

\* Mutant of StatusOrder: the state files are looked at before the process.
StatusOrder_FilesFirst == <<"ready", "complete", "blocked", "probe", "answered">>

\* What engine_status asks, in this order.
StatusOrder == <<"ready", "probe", "complete", "blocked", "answered">>

\* The call goes on to what comes after this label.
GoOn(s, label) ==
    /\ at[s] = label
    /\ at' = [at EXCEPT ![s] =
          StatusOrder[1 + CHOOSE k \in DOMAIN StatusOrder : StatusOrder[k] = label]]

\* Mutant of RecordRead: a record that is not whole is an error of its own.
RecordRead_Raises == record

\* _read_run_record: a record that does not parse counts as none.
RecordRead == IF record = Torn THEN NoRun ELSE record

ReadRecord(s) ==
    /\ GoOn(s, "ready")
    /\ answer' = [answer EXCEPT ![s] = [NoAnswer EXCEPT !.run = RecordRead]]
    /\ UNCHANGED <<world, record, handle, bounds>>

\* The processes that have the id of the recorded run.
Named(s) == {r \in Runs : Exists(r) /\ run[r].pid = run[answer[s].run].pid}

\* The session holds a handle whose process had that id.
HandleFits(s) ==
    handle[s] # NoRun /\ run[handle[s]].pid = run[answer[s].run].pid

\* Mutant of PidAlive: os.kill alone.
PidAlive_KillOnly(s) ==
    Named(s) # {} \/ run[answer[s].run].pid \in foreign

\* _pid_alive: the handle, then the child of that id, then any process of it.
PidAlive(s) ==
    IF HandleFits(s) THEN Running(handle[s])
    ELSE IF Named(s) \cap ChildrenOf(s) # {}
         THEN \E r \in Named(s) : Running(r)
    ELSE Named(s) # {} \/ run[answer[s].run].pid \in foreign

\* Asking after a child that has finished takes it away.
Probe(s) ==
    /\ GoOn(s, "probe")
    /\ IF answer[s].run = NoRun
       THEN UNCHANGED <<run, answer>>
       ELSE /\ answer' = [answer EXCEPT ![s].alive = PidAlive(s)]
            /\ run' = Reaped(IF HandleFits(s) THEN {handle[s]}
                             ELSE Named(s) \cap ChildrenOf(s))
    /\ UNCHANGED <<started, files, sweep, foreign, record, handle, bounds>>

\* Only a regular file counts; a gate process may leave something else.
LookComplete(s) ==
    /\ GoOn(s, "complete")
    /\ \E shipped \in IF files.complete = StrayFile THEN BOOLEAN
                      ELSE {files.complete # NoFile} :
          answer' = [answer EXCEPT ![s].shipped = shipped]
    /\ UNCHANGED <<world, record, handle, bounds>>

LookBlocked(s) ==
    /\ GoOn(s, "blocked")
    /\ answer' = [answer EXCEPT ![s].blocked = files.blocked]
    /\ UNCHANGED <<world, record, handle, bounds>>

AnswerSent(s) ==
    /\ at[s] = "answered"
    /\ Idle(s)
    /\ UNCHANGED <<world, record, handle, bounds>>

-----------------------------------------------------------------------------
(* reset_engine, --mode reset from a terminal, and work_status.            *)

\* Popen asks after finished children no handle is held of.
PopenCleans(s) == Reaped(ChildrenOf(s) \ {handle[s]})

\* work_status, or a start that the task check refuses: read-only otherwise.
OtherCall(s) ==
    /\ at[s] = "ready"
    /\ run' = PopenCleans(s)
    /\ UNCHANGED <<started, files, sweep, foreign, sessions, bounds>>

\* The process is started; the call waits for it.
StartReset(c) ==
    /\ sweep[c] = NoSweep
    /\ resets < MaxResets
    /\ resets' = resets + 1
    /\ sweep' = [sweep EXCEPT ![c].next = 1]
    /\ IF c \in Servers
       THEN /\ at[c] = "ready"
            /\ at' = [at EXCEPT ![c] = "reset"]
            /\ run' = Disturbed(PopenCleans(c))
       ELSE /\ run' = Disturbed(run)
            /\ UNCHANGED at
    /\ UNCHANGED <<started, files, foreign, record, handle, answer, stops,
                   errors>>

\* _RESET_FILES, in its order: these three are among them.
ResetFiles == <<"task", "complete", "blocked">>

Removed(name) ==
    CASE name = "task" -> [files EXCEPT !.task = FALSE]
      [] name = "complete" -> [files EXCEPT !.complete = NoFile]
      [] name = "blocked" -> [files EXCEPT !.blocked = FALSE]

Swept(c) == sweep[c].next > Len(ResetFiles)

\* The next file is removed, or cannot be.
Sweep(c) ==
    /\ sweep[c].next \in DOMAIN ResetFiles
    /\ \/ /\ files' = Removed(ResetFiles[sweep[c].next])
          /\ sweep' = [sweep EXCEPT ![c].next = @ + 1]
          /\ UNCHANGED errors
       \/ /\ errors < MaxErrors
          /\ errors' = errors + 1
          /\ sweep' = [sweep EXCEPT ![c] = [next |-> @.next + 1, kept |-> TRUE]]
          /\ UNCHANGED files
    /\ UNCHANGED <<run, started, foreign, sessions, stops, resets>>

\* Nobody waits for the process: it was started from a terminal, or by a
\* session that has stopped.
SweepEnds(c) ==
    /\ Swept(c)
    /\ c \in Servers => at[c] # "reset"
    /\ sweep' = [sweep EXCEPT ![c] = NoSweep]
    /\ UNCHANGED <<run, started, files, foreign, sessions, bounds>>

\* The record goes if the reset succeeded; a session that is writing it goes
\* on writing a file without a name.
ResetReturns(s) ==
    /\ at[s] = "reset"
    /\ Swept(s)
    /\ sweep' = [sweep EXCEPT ![s] = NoSweep]
    /\ IF sweep[s].kept
       THEN /\ at' = [at EXCEPT ![s] = "ready"]
            /\ UNCHANGED record
       ELSE /\ at' = [t \in Servers |->
                        IF t = s THEN "ready"
                        ELSE IF at[t] = "record" THEN "unlinked" ELSE at[t]]
            /\ record' = NoRun
    /\ UNCHANGED <<run, started, files, foreign, handle, answer, bounds>>

-----------------------------------------------------------------------------

\* The session ends, at any moment, and another takes its place: _PROCS is
\* empty, init takes the children and asks after them.
SessionStops(s) ==
    /\ stops < MaxStops
    /\ stops' = stops + 1
    /\ Idle(s)
    /\ handle' = [handle EXCEPT ![s] = NoRun]
    /\ run' = [r \in Runs |-> IF r \in ChildrenOf(s)
                             THEN [run[r] EXCEPT !.parent = "init"] ELSE run[r]]
    /\ UNCHANGED <<started, files, sweep, foreign, record, resets,
                   errors>>

StartCall(s) ==
    Launch(s) \/ OpenRecord(s) \/ WriteRecord(s) \/ WriteLost(s) \/ RecordFails(s)

StatusCall(s) ==
    \/ ReadRecord(s) \/ Probe(s) \/ LookComplete(s) \/ LookBlocked(s)
    \/ AnswerSent(s)

Next ==
    \/ \E r \in Runs : EngineStep(r)
    \/ StartByHand \/ ForeignProcess
    \/ \E s \in Servers :
          \/ StartCall(s) \/ StatusCall(s) \/ OtherCall(s)
          \/ ResetReturns(s) \/ SessionStops(s)
    \/ \E c \in Callers : StartReset(c) \/ Sweep(c) \/ SweepEnds(c)

ServerSpec == Init /\ [][Next]_serverVars

-----------------------------------------------------------------------------
(* Properties.                                                             *)

\* The values the variables take.
TypeOK ==
    /\ run \in [Runs -> [phase : Phases \cup {"none"}, mode : Modes,
                          pid : Pids \cup {0},
                          parent : Servers \cup {"init"},
                          fate : {"open", "shipped", "cut", "disturbed"}]]
    /\ started \in 0..MaxRuns
    /\ files \in [task : BOOLEAN, complete : {NoFile, StrayFile} \cup Runs,
                  blocked : BOOLEAN]
    /\ record \in {NoRun, Torn} \cup Runs
    /\ handle \in [Servers -> {NoRun} \cup Runs]
    /\ at \in [Servers -> {"ready", "launched", "record", "unlinked", "probe",
                            "complete", "blocked", "answered", "reset"}]
    /\ answer \in [Servers -> [run : {NoRun} \cup Runs, alive : BOOLEAN,
                                shipped : BOOLEAN, blocked : BOOLEAN]]
    /\ sweep \in [Callers -> [next : 0..Len(ResetFiles) + 1, kept : BOOLEAN]]
    /\ foreign \subseteq Pids

\* The session holds the handle of another run, whose id was used again.
Mistaken(s) == handle[s] # answer[s].run /\ HandleFits(s)

\* Another process than run r has its id.
Reused(r) ==
    \/ run[r].pid \in foreign
    \/ \E q \in Runs \ {r} : Exists(q) /\ run[q].pid = run[r].pid

\* "True while the engine process runs. A finished child is reaped first, so
\* it is not reported as alive" (_pid_alive): a run that goes on is told alive,
\* and one that is over is not, unless its id is in use again or it is the
\* child of another session, which has not asked after it.
AliveTold ==
    [][\A s \in Servers : at[s] = "probe" /\ at'[s] # "probe" /\ at'[s] # "ready"
          /\ answer[s].run # NoRun =>
        LET r == answer[s].run
        IN  IF answer'[s].alive
            THEN \/ Running(r) \/ Reused(r)
                 \/ Zombie(r) /\ run[r].parent # s
            ELSE ~Running(r) \/ Mistaken(s)]_serverVars

\* pid_alive false and no other start or reset since the run began: the run is
\* over, its SHIP is told if it shipped, and a SHIP that is told, without a
\* BLOCKED.md next to it, is its own if it was a loop run.  Not so for a run
\* that was refused, or killed before it had cleared what was there, or
\* killed while its gates ran.
OutcomeTold ==
    \A s \in Servers :
        LET r == answer[s].run
        IN  at[s] = "answered" /\ r # NoRun /\ ~answer[s].alive
            /\ ~Mistaken(s) =>
                /\ run[r].phase = "over"
                /\ run[r].fate = "shipped" => answer[s].shipped
                /\ run[r].mode = "loop" /\ run[r].fate = "open"
                      => ~answer[s].shipped \/ answer[s].blocked

=============================================================================
