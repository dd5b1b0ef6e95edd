-------------------------- MODULE EngineServerProofs --------------------------
(* Theorems about EngineServer, and about Overwatch beside it, for every
   value of their constants. *)
EXTENDS Overwatch, TLAPS

USE ServerAssumption

SignalType == [complete : {NoFile, StrayFile} \cup Runs, blocked : BOOLEAN]

RunType == [phase : Phases \cup {"none"}, mode : Modes, pid : Pids \cup {0},
            parent : Servers \cup {"init"},
            fate : {"open", "shipped", "cut", "disturbed"}]

AnswerType == [run : {NoRun} \cup Runs, alive : BOOLEAN, shipped : BOOLEAN,
               blocked : BOOLEAN]

SweepType == [next : 0..Len(ResetFiles) + 1, kept : BOOLEAN]

\* A run leaves the files of its outcome well formed.
LEMMA MovesTyped ==
    ASSUME NEW mode \in Modes, NEW phase \in Phases \cup {"none"},
           NEW sig \in SignalType, NEW me \in Runs,
           phase \notin {"none", "over"}
    PROVE  Moves(mode, phase, sig, me) \subseteq
              [phase : Phases, signals : SignalType]
<1> DEFINE T == [phase : Phases, signals : SignalType]
<1>1. /\ \A b \in BOOLEAN : [sig EXCEPT !.blocked = b] \in SignalType
      /\ [sig EXCEPT !.complete = NoFile] \in SignalType
      /\ [sig EXCEPT !.complete = StrayFile] \in SignalType
      /\ [sig EXCEPT !.complete = me] \in SignalType
  BY DEF SignalType
<1>2. PerhapsBlocked(sig) \subseteq SignalType /\ BlockedOrNot(sig) \subseteq SignalType
  BY <1>1 DEF PerhapsBlocked, BlockedOrNot
<1>3. \A p \in Phases, s \in SignalType : At(p, s) \in T
  BY DEF At
<1>4. NotCleared(sig) \subseteq T
  <2>1. \A c \in {NoFile, sig.complete} :
           [complete |-> c, blocked |-> TRUE] \in SignalType
    BY DEF SignalType
  <2> QED
    BY <1>3, <2>1 DEF NotCleared, Phases
<1>5. Starting(sig) \subseteq T
  BY <1>2, <1>3 DEF Starting, Phases
<1>6. Ready(mode, sig) \subseteq T
  BY <1>1, <1>3, <1>4 DEF Ready, Modes, Phases
<1>7. Work(mode, sig) \subseteq T
  BY <1>2, <1>3 DEF Work, Phases
<1>8. Gates(sig) \subseteq T
  BY <1>1, <1>2, <1>3, <1>4 DEF Gates, Phases
<1>9. Review(mode, sig, me) \subseteq T
  BY <1>1, <1>2, <1>3 DEF Review, Phases
<1>10. At("over", sig) \in T
  BY <1>3 DEF Phases
<1> HIDE DEF T
<1> QED
  BY <1>5, <1>6, <1>7, <1>8, <1>9, <1>10 DEF Moves, Phases, T

\* Asking after children, and a start or a reset that disturbs, keep the type.
LEMMA RunsTyped ==
    ASSUME run \in [Runs -> RunType]
    PROVE  /\ \A rs : Reaped(rs) \in [Runs -> RunType]
           /\ \A rs \in [Runs -> RunType] : Disturbed(rs) \in [Runs -> RunType]
<1>1. ASSUME NEW rs PROVE Reaped(rs) \in [Runs -> RunType]
  BY DEF Reaped, RunType
<1>2. ASSUME NEW rs \in [Runs -> RunType] PROVE Disturbed(rs) \in [Runs -> RunType]
  BY DEF Disturbed, RunType
<1> QED
  BY <1>1, <1>2

\* The runs after a start, by hand or by a session.
LEMMA NewRunTyped ==
    ASSUME NEW rs \in [Runs -> RunType], NEW r \in Runs, NEW mode \in Modes,
           NEW p \in Pids, NEW parent \in Servers \cup {"init"},
           run \in [Runs -> RunType]
    PROVE  NewRun(rs, r, mode, p, parent) \in [Runs -> RunType]
<1>1. Disturbed(rs) \in [Runs -> RunType]
  BY RunsTyped
<1>2. [phase |-> "starting", mode |-> mode, pid |-> p, parent |-> parent,
       fate |-> IF Alone THEN "open" ELSE "disturbed"] \in RunType
  BY DEF RunType, Phases
<1> QED
  BY <1>1, <1>2 DEF NewRun

\* A run after a step of its own.
LEMMA MovedTyped ==
    ASSUME run \in [Runs -> RunType], NEW r \in Runs,
           NEW next \in [phase : Phases, signals : SignalType]
    PROVE  Moved(r, next) \in RunType
BY DEF Moved, RunType

Labels == {"ready", "launched", "record", "unlinked", "probe", "complete",
           "blocked", "answered", "reset"}

Typed ==
    /\ run \in [Runs -> RunType]
    /\ started \in 0..MaxRuns
    /\ files \in [task : BOOLEAN, complete : {NoFile, StrayFile} \cup Runs,
                  blocked : BOOLEAN]
    /\ record \in {NoRun, Torn} \cup Runs
    /\ handle \in [Servers -> {NoRun} \cup Runs]
    /\ at \in [Servers -> Labels]
    /\ answer \in [Servers -> AnswerType]
    /\ sweep \in [Callers -> SweepType]
    /\ foreign \subseteq Pids

\* The invariant of the proofs is the one the run checks.
LEMMA TypedIsTypeOK == Typed <=> TypeOK
BY DEF Typed, TypeOK, RunType, AnswerType, SweepType, Labels

\* The label after one of engine_status.
LEMMA GoOnTyped ==
    ASSUME Typed, NEW s \in Servers, NEW label \in {"ready", "probe", "complete", "blocked"},
           GoOn(s, label)
    PROVE  /\ at' \in [Servers -> Labels]
           /\ at'[s] \in {"probe", "complete", "blocked", "answered"}
           /\ \A t \in Servers \ {s} : at'[t] = at[t]
           /\ at[s] = label
           /\ at'[s] # label
           /\ label = "probe" => at'[s] = "complete"
           /\ label = "complete" => at'[s] = "blocked"
           /\ label = "blocked" => at'[s] = "answered"
           /\ label = "ready" => at'[s] = "probe"
<1> DEFINE k == CHOOSE k \in DOMAIN StatusOrder : StatusOrder[k] = label
<1>1. DOMAIN StatusOrder = 1..5 /\ StatusOrder[1] = "ready" /\ StatusOrder[2] = "probe"
      /\ StatusOrder[3] = "complete" /\ StatusOrder[4] = "blocked"
      /\ StatusOrder[5] = "answered"
  BY DEF StatusOrder
<1>2. k \in DOMAIN StatusOrder /\ StatusOrder[k] = label
  BY <1>1
<1>3. StatusOrder[1 + k] =
         CASE label = "ready" -> "probe" [] label = "probe" -> "complete"
           [] label = "complete" -> "blocked" [] label = "blocked" -> "answered"
  BY <1>1, <1>2
<1>4. at' = [at EXCEPT ![s] = StatusOrder[1 + k]]
  BY DEF GoOn
<1> HIDE DEF k
<1> QED
  BY <1>3, <1>4 DEF GoOn, Typed, Labels
\* A step keeps the types.
LEMMA TypedStep == Typed /\ [Next]_serverVars => Typed'
<1> SUFFICES ASSUME Typed, [Next]_serverVars PROVE Typed'
  OBVIOUS
<1> USE DEF world, sessions, bounds
<1>run. run \in [Runs -> RunType]
  BY DEF Typed
<1>no. NoAnswer \in AnswerType
  BY DEF NoAnswer, AnswerType
<1>idle. ASSUME NEW s \in Servers, Idle(s)
         PROVE  at' \in [Servers -> Labels] /\ answer' \in [Servers -> AnswerType]
  BY <1>idle, <1>no DEF Idle, Typed, Labels
<1>1. ASSUME NEW r \in Runs, EngineStep(r) PROVE Typed'
  <2>1. PICK next \in Moves(run[r].mode, run[r].phase, Signals, r) :
          /\ run' = [run EXCEPT ![r] = Moved(r, next)]
          /\ files' = [task |-> files.task \/ next.phase = "ready",
                       complete |-> next.signals.complete,
                       blocked |-> next.signals.blocked]
    BY <1>1 DEF EngineStep
  <2>2. Signals \in SignalType
    BY DEF Signals, SignalType, Typed
  <2>3. next \in [phase : Phases, signals : SignalType]
    <3>1. /\ run[r].mode \in Modes
          /\ run[r].phase \in (Phases \cup {"none"}) \ {"none", "over"}
      BY <1>1, <1>run DEF EngineStep, Running, RunType
    <3> QED
      BY <2>2, <3>1, MovesTyped
  <2>4. Moved(r, next) \in RunType
    BY <2>3, <1>run, MovedTyped
  <2>5. run' \in [Runs -> RunType]
    BY <1>run, <2>1, <2>4
  <2>6. files' \in [task : BOOLEAN, complete : {NoFile, StrayFile} \cup Runs,
                    blocked : BOOLEAN]
    BY <2>1, <2>3 DEF SignalType, Typed
  <2> QED
    BY <1>1, <2>5, <2>6 DEF EngineStep, Typed
<1>2. CASE StartByHand
  <2>1. started' \in Runs /\ started' \in 0..MaxRuns
    BY <1>2 DEF StartByHand, Typed, Runs
  <2>2. PICK p \in FreePids, mode \in TriedModes :
           run' = NewRun(run, started', mode, p, "init")
    BY <1>2 DEF StartByHand
  <2>3. p \in Pids /\ mode \in Modes
    BY DEF FreePids
  <2>4. run' \in [Runs -> RunType]
    BY <1>run, <2>1, <2>2, <2>3, NewRunTyped
  <2> QED
    BY <1>2, <2>1, <2>4 DEF StartByHand, Typed
<1>3. CASE ForeignProcess
  BY <1>3 DEF ForeignProcess, FreePids, Typed
<1>4. ASSUME NEW s \in Servers, Launch(s) PROVE Typed'
  <2>1. started' \in Runs /\ started' \in 0..MaxRuns
    BY <1>4 DEF Launch, Typed, Runs
  <2>2. PICK p \in FreePids, mode \in TriedModes :
           run' = NewRun(Reaped(ChildrenOf(s)), started', mode, p, s)
    BY <1>4 DEF Launch
  <2>3. p \in Pids /\ mode \in Modes
    BY DEF FreePids
  <2>4. Reaped(ChildrenOf(s)) \in [Runs -> RunType]
    BY <1>run, RunsTyped
  <2>5. run' \in [Runs -> RunType]
    BY <1>run, <2>1, <2>2, <2>3, <2>4, NewRunTyped
  <2>6. answer' \in [Servers -> AnswerType]
    BY <1>4, <2>1 DEF Launch, Typed, AnswerType
  <2>7. at' \in [Servers -> Labels] /\ handle' \in [Servers -> {NoRun} \cup Runs]
    BY <1>4, <2>1 DEF Launch, Typed, Labels
  <2> QED
    BY <1>4, <2>1, <2>5, <2>6, <2>7 DEF Launch, Typed
<1>5. ASSUME NEW s \in Servers, OpenRecord(s) PROVE Typed'
  BY <1>5 DEF OpenRecord, Typed, Labels
<1>6. ASSUME NEW s \in Servers, WriteRecord(s) PROVE Typed'
  <2>1. record' \in {NoRun, Torn} \cup Runs
    BY <1>6 DEF WriteRecord, Typed, AnswerType
  <2> QED
    BY <1>6, <1>idle, <2>1 DEF WriteRecord, Typed
<1>7. ASSUME NEW s \in Servers, WriteLost(s) \/ RecordFails(s) PROVE Typed'
  BY <1>7, <1>idle DEF WriteLost, RecordFails, Typed
<1>8. ASSUME NEW s \in Servers, ReadRecord(s) PROVE Typed'
  <2>1. [NoAnswer EXCEPT !.run = RecordRead] \in AnswerType
    BY DEF NoAnswer, AnswerType, RecordRead, Typed
  <2> QED
    BY <1>8, <2>1, GoOnTyped DEF ReadRecord, Typed
<1>9. ASSUME NEW s \in Servers, Probe(s) PROVE Typed'
  <2>1. PidAlive(s) \in BOOLEAN
    BY DEF PidAlive, Running
  <2>2. [answer[s] EXCEPT !.alive = PidAlive(s)] \in AnswerType
    BY <2>1 DEF Typed, AnswerType
  <2>3. answer' \in [Servers -> AnswerType]
    BY <1>9, <2>2 DEF Probe, Typed
  <2>4. run' \in [Runs -> RunType]
    BY <1>9, <1>run, RunsTyped DEF Probe
  <2> QED
    BY <1>9, <2>3, <2>4, GoOnTyped DEF Probe, Typed
<1>10. ASSUME NEW s \in Servers, LookComplete(s) PROVE Typed'
  <2>1. PICK shipped \in BOOLEAN :
           answer' = [answer EXCEPT ![s].shipped = shipped]
    BY <1>10 DEF LookComplete
  <2>2. answer' \in [Servers -> AnswerType]
    BY <2>1 DEF Typed, AnswerType
  <2> QED
    BY <1>10, <2>2, GoOnTyped DEF LookComplete, Typed
<1>11. ASSUME NEW s \in Servers, LookBlocked(s) PROVE Typed'
  <2>1. answer' \in [Servers -> AnswerType]
    BY <1>11 DEF LookBlocked, Typed, AnswerType
  <2> QED
    BY <1>11, <2>1, GoOnTyped DEF LookBlocked, Typed
<1>12. ASSUME NEW s \in Servers, AnswerSent(s) PROVE Typed'
  BY <1>12, <1>idle DEF AnswerSent, Typed
<1>13. ASSUME NEW s \in Servers, OtherCall(s) PROVE Typed'
  BY <1>13, <1>run, RunsTyped DEF OtherCall, PopenCleans, Typed
<1>14. ASSUME NEW c \in Callers, StartReset(c) PROVE Typed'
  <2>1. run' \in [Runs -> RunType]
    BY <1>14, <1>run, RunsTyped DEF StartReset, PopenCleans
  <2>2. sweep' \in [Callers -> SweepType]
    BY <1>14 DEF StartReset, Typed, SweepType, ResetFiles
  <2>3. at' \in [Servers -> Labels]
    BY <1>14 DEF StartReset, Typed, Labels
  <2> QED
    BY <1>14, <2>1, <2>2, <2>3 DEF StartReset, Typed
<1>15. ASSUME NEW c \in Callers, Sweep(c) PROVE Typed'
  <2>1. DOMAIN ResetFiles = 1..3 /\ Len(ResetFiles) = 3
        /\ ResetFiles[sweep[c].next] \in {"task", "complete", "blocked"}
    BY <1>15 DEF Sweep, ResetFiles
  <2>2. files' \in [task : BOOLEAN, complete : {NoFile, StrayFile} \cup Runs,
                    blocked : BOOLEAN]
    BY <1>15, <2>1 DEF Sweep, Removed, Typed
  <2>3. sweep[c].next + 1 \in 0..4 /\ sweep[c].kept \in BOOLEAN
    BY <1>15, <2>1 DEF Sweep, Typed, SweepType
  <2>4. /\ [sweep[c] EXCEPT !.next = @ + 1] \in SweepType
        /\ [next |-> sweep[c].next + 1, kept |-> TRUE] \in SweepType
    BY <2>1, <2>3 DEF Typed, SweepType
  <2>5. \/ sweep' = [sweep EXCEPT ![c] = [sweep[c] EXCEPT !.next = @ + 1]]
        \/ sweep' = [sweep EXCEPT ![c] = [next |-> sweep[c].next + 1, kept |-> TRUE]]
    BY <1>15 DEF Sweep, Typed
  <2>6. sweep' \in [Callers -> SweepType]
    BY <2>4, <2>5 DEF Typed
  <2> QED
    BY <1>15, <2>2, <2>6 DEF Sweep, Typed
<1>16. ASSUME NEW c \in Callers, SweepEnds(c) PROVE Typed'
  BY <1>16 DEF SweepEnds, NoSweep, Typed, SweepType, ResetFiles
<1>17. ASSUME NEW s \in Servers, ResetReturns(s) PROVE Typed'
  <2>1. s \in Callers /\ NoSweep \in SweepType
    BY DEF Callers, NoSweep, SweepType, ResetFiles
  <2>2. sweep' \in [Callers -> SweepType]
    BY <1>17, <2>1 DEF ResetReturns, Typed
  <2>3. at' \in [Servers -> Labels] /\ record' \in {NoRun, Torn} \cup Runs
    BY <1>17 DEF ResetReturns, Typed, Labels
  <2> QED
    BY <1>17, <2>2, <2>3 DEF ResetReturns, Typed
<1>18. ASSUME NEW s \in Servers, SessionStops(s) PROVE Typed'
  <2>1. run' \in [Runs -> RunType]
    BY <1>18, <1>run DEF SessionStops, RunType
  <2> QED
    BY <1>18, <1>idle, <2>1 DEF SessionStops, Typed
<1>19. CASE UNCHANGED serverVars
  BY <1>19 DEF serverVars, Typed
<1> QED
  BY <1>1, <1>2, <1>3, <1>4, <1>5, <1>6, <1>7, <1>8, <1>9, <1>10, <1>11,
     <1>12, <1>13, <1>14, <1>15, <1>16, <1>17, <1>18, <1>19
  DEF Next, StartCall, StatusCall

\* The variables keep their types, whatever the sessions and the engines do.
THEOREM ServerTypeCorrect == ServerSpec => []TypeOK
<1>1. Init => Typed
  BY DEF Init, Typed, RunType, AnswerType, SweepType, Labels, Phases, Modes,
         NoAnswer, NoSweep, ResetFiles
<1>2. Typed /\ [Next]_serverVars => Typed'
  BY TypedStep
<1>3. Typed => TypeOK
  BY TypedIsTypeOK
<1> QED
  BY <1>1, <1>2, <1>3, PTL DEF ServerSpec
-----------------------------------------------------------------------------

\* Which step a session makes that has the process looked at.
LEMMA ProbeOnly ==
    ASSUME Typed, Next, NEW s \in Servers,
           at[s] = "probe", at'[s] # "probe", at'[s] # "ready"
    PROVE  Probe(s)
<1> USE DEF world, sessions, bounds
<1>1. ASSUME NEW t \in Servers,
             ReadRecord(t) \/ Probe(t) \/ LookComplete(t) \/ LookBlocked(t)
      PROVE  Probe(s)
  <2>1. PICK label \in {"ready", "probe", "complete", "blocked"} :
           GoOn(t, label) /\ (Probe(t) \/ label # "probe")
    BY <1>1 DEF ReadRecord, Probe, LookComplete, LookBlocked
  <2>2. at[t] = label /\ \A u \in Servers \ {t} : at'[u] = at[u]
    BY <2>1, GoOnTyped
  <2> QED
    BY <2>1, <2>2
<1>2. ASSUME NEW t \in Servers,
             \/ WriteRecord(t) \/ WriteLost(t) \/ RecordFails(t) \/ AnswerSent(t)
             \/ SessionStops(t)
      PROVE  FALSE
  <2>1. at' = [at EXCEPT ![t] = "ready"]
    BY <1>2 DEF WriteRecord, WriteLost, RecordFails, AnswerSent, SessionStops, Idle
  <2> QED
    BY <2>1 DEF Typed
<1>3. ASSUME NEW t \in Servers,
             Launch(t) \/ OpenRecord(t) \/ OtherCall(t) \/ ResetReturns(t)
      PROVE  FALSE
  BY <1>3 DEF Launch, OpenRecord, OtherCall, ResetReturns, Typed
<1>4. ASSUME NEW c \in Callers, StartReset(c) \/ Sweep(c) \/ SweepEnds(c)
      PROVE  FALSE
  BY <1>4 DEF StartReset, Sweep, SweepEnds, Typed
<1>5. ASSUME \/ StartByHand \/ ForeignProcess \/ \E r \in Runs : EngineStep(r)
      PROVE  FALSE
  BY <1>5 DEF StartByHand, ForeignProcess, EngineStep
<1> QED
  BY <1>1, <1>2, <1>3, <1>4, <1>5 DEF Next, StartCall, StatusCall

\* What the look at the process finds, by the way it looks.
LEMMA AliveMeans ==
    ASSUME Typed, NEW s \in Servers, answer[s].run # NoRun
    PROVE  LET r == answer[s].run
           IN  IF PidAlive(s)
               THEN \/ Running(r) \/ Reused(r)
                    \/ Zombie(r) /\ run[r].parent # s
               ELSE ~Running(r) \/ Mistaken(s)
<1> DEFINE r == answer[s].run
           h == handle[s]
<1>1. r \in Runs
  BY DEF Typed, AnswerType
<1>2. CASE HandleFits(s)
  <2>1. h \in Runs /\ run[h].pid = run[r].pid
    BY <1>2 DEF HandleFits, Typed
  <2>2. CASE Running(h)
    <3>1. PidAlive(s) /\ Exists(h)
      BY <1>2, <2>2 DEF PidAlive, Exists
    <3> QED
      BY <2>1, <2>2, <3>1 DEF Reused
  <2>3. CASE ~Running(h)
    BY <1>2, <2>3 DEF PidAlive, Mistaken
  <2> QED
    BY <2>2, <2>3
<1>3. CASE ~HandleFits(s) /\ Named(s) \cap ChildrenOf(s) # {}
  <2>1. PidAlive(s) <=> \E q \in Named(s) : Running(q)
    BY <1>3 DEF PidAlive
  <2>2. \A q \in Named(s) : q \in Runs /\ Exists(q) /\ run[q].pid = run[r].pid
    BY DEF Named
  <2>3. Running(r) => r \in Named(s)
    BY <1>1 DEF Named, Exists
  <2> QED
    BY <2>1, <2>2, <2>3 DEF Reused
<1>4. CASE ~HandleFits(s) /\ Named(s) \cap ChildrenOf(s) = {}
  <2>1. PidAlive(s) <=> Named(s) # {} \/ run[r].pid \in foreign
    BY <1>4 DEF PidAlive
  <2>2. \A q \in Named(s) : q \in Runs /\ Exists(q) /\ run[q].pid = run[r].pid
    BY DEF Named
  <2>3. Running(r) => r \in Named(s)
    BY <1>1 DEF Named, Exists
  <2>4. r \in Named(s) => Running(r) \/ (Zombie(r) /\ run[r].parent # s)
    BY <1>1, <1>4, <2>2 DEF ChildrenOf, Exists
  <2> QED
    BY <2>1, <2>2, <2>3, <2>4 DEF Reused
<1> QED
  BY <1>2, <1>3, <1>4

\* engine_status says of a run that goes on that it is alive, and of one that
\* is over that it is not, with the exceptions AliveTold names.
THEOREM ServerAliveTold == ServerSpec => AliveTold
<1>1. ASSUME Typed, [Next]_serverVars
      PROVE  [\A s \in Servers : at[s] = "probe" /\ at'[s] # "probe" /\ at'[s] # "ready"
                 /\ answer[s].run # NoRun =>
               LET r == answer[s].run
               IN  IF answer'[s].alive
                   THEN \/ Running(r) \/ Reused(r)
                        \/ Zombie(r) /\ run[r].parent # s
                   ELSE ~Running(r) \/ Mistaken(s)]_serverVars
  <2> SUFFICES ASSUME Next, NEW s \in Servers,
                      at[s] = "probe", at'[s] # "probe", at'[s] # "ready",
                      answer[s].run # NoRun
               PROVE  LET r == answer[s].run
                      IN  IF answer'[s].alive
                          THEN \/ Running(r) \/ Reused(r)
                               \/ Zombie(r) /\ run[r].parent # s
                          ELSE ~Running(r) \/ Mistaken(s)
    BY <1>1
  <2>1. Probe(s)
    BY <1>1, ProbeOnly
  <2>2. PidAlive(s) \in BOOLEAN
    BY DEF PidAlive, Running
  <2>3. answer'[s].alive = PidAlive(s)
    BY <1>1, <2>1, <2>2 DEF Probe, Typed, AnswerType
  <2> QED
    BY <1>1, <2>3, AliveMeans
<1>2. ServerSpec => []Typed
  BY ServerTypeCorrect, TypedIsTypeOK, PTL
<1> QED
  BY <1>1, <1>2, PTL DEF ServerSpec, AliveTold
-----------------------------------------------------------------------------

\* Every run that was started has left "none".
Phased == \A r \in Runs : run[r].phase = "none" <=> r > started

\* Only runs that were started are recorded, held or asked about.
Recorded ==
    /\ record <= started
    /\ \A s \in Servers : handle[s] <= started /\ answer[s].run <= started

\* A run nothing has disturbed is the only one, and no reset goes on.
OnlyOne ==
    \A r \in 1..started : run[r].fate # "disturbed" =>
        /\ \A q \in Runs \ {r} : ~Running(q)
        /\ \A c \in Callers : sweep[c] = NoSweep

\* The files of the outcome then tell what the run did.
Outcome(r) ==
    /\ run[r].fate = "shipped" =>
          run[r].phase \in {"done", "over"} /\ files.complete = r
    /\ run[r].fate = "open" /\ run[r].mode = "loop" =>
          /\ run[r].phase \in {"work", "review"} => files.complete = NoFile
          /\ run[r].phase \in {"done", "over"} =>
                files.complete = NoFile \/ files.blocked
    /\ run[r].fate = "cut" => run[r].phase = "over"

Outcomes == \A r \in 1..started : Outcome(r)

RunsIInv == Phased /\ OnlyOne /\ Outcomes

\* The runs but for who their parents are.
Same(rs, q) ==
    /\ rs[q].phase = run[q].phase /\ rs[q].mode = run[q].mode
    /\ rs[q].pid = run[q].pid /\ rs[q].fate = run[q].fate

\* Steps that start no run, move none, and disturb none.
Quiet ==
    /\ \A q \in Runs : Same(run', q)
    /\ started' = started /\ files' = files
    /\ \A c \in Callers : sweep'[c] \in {sweep[c], NoSweep}

\* A new run beside what there was.
Started ==
    \E rs \in [Runs -> RunType], mode \in Modes, p \in Pids,
       parent \in Servers \cup {"init"} :
        /\ \A q \in Runs : Same(rs, q)
        /\ started < MaxRuns /\ started' = started + 1
        /\ run' = NewRun(rs, started', mode, p, parent)
        /\ files' = files /\ sweep' = sweep

\* A reset starts, or removes a file.
Resetting ==
    /\ started' = started
    /\ \A q \in Runs : run'[q].phase = run[q].phase /\ run'[q].mode = run[q].mode
                       /\ run'[q].pid = run[q].pid
    /\ \/ \A q \in Runs : run'[q].fate = "disturbed"
       \/ /\ run' = run
          /\ \E c \in Callers : sweep[c] # NoSweep
          /\ \A c \in Callers : sweep[c] = NoSweep => sweep'[c] = NoSweep

\* Asking after finished children changes nothing but who their parent is.
LEMMA ReapedSame ==
    ASSUME Typed
    PROVE  \A rs : \A q \in Runs : Same(Reaped(rs), q)
BY DEF Typed, RunType, Reaped, Same

\* Every step but those of a reset is of one of these kinds.
LEMMA StepKinds ==
    ASSUME Typed, [Next]_serverVars
    PROVE  \/ Quiet \/ Started \/ \E r \in Runs : EngineStep(r)
           \/ \E c \in Callers : StartReset(c) \/ Sweep(c)
<1> USE DEF world, sessions, bounds
<1>run. run \in [Runs -> RunType]
  BY DEF Typed
<1>1. ASSUME UNCHANGED <<run, started, files>>, UNCHANGED sweep PROVE Quiet
  BY <1>1 DEF Quiet, Same
<1>2. CASE ForeignProcess \/ UNCHANGED serverVars
  BY <1>1, <1>2 DEF ForeignProcess, serverVars
<1>3. CASE StartByHand
  <2>1. PICK p \in FreePids, mode \in TriedModes :
           run' = NewRun(run, started', mode, p, "init")
    BY <1>3 DEF StartByHand
  <2>2. p \in Pids /\ mode \in Modes /\ \A q \in Runs : Same(run, q)
    BY DEF FreePids, Same
  <2> QED
    BY <1>3, <1>run, <2>1, <2>2 DEF StartByHand, Started
<1>4. ASSUME NEW s \in Servers, Launch(s) PROVE Started
  <2>1. PICK p \in FreePids, mode \in TriedModes :
           run' = NewRun(Reaped(ChildrenOf(s)), started', mode, p, s)
    BY <1>4 DEF Launch
  <2>2. p \in Pids /\ mode \in Modes
    BY DEF FreePids
  <2>3. /\ Reaped(ChildrenOf(s)) \in [Runs -> RunType]
        /\ \A q \in Runs : Same(Reaped(ChildrenOf(s)), q)
    BY <1>run, RunsTyped, ReapedSame
  <2> QED
    BY <1>4, <2>1, <2>2, <2>3 DEF Launch, Started
<1>5. ASSUME NEW s \in Servers,
             \/ OpenRecord(s) \/ WriteRecord(s) \/ WriteLost(s) \/ RecordFails(s)
             \/ ReadRecord(s) \/ LookComplete(s) \/ LookBlocked(s) \/ AnswerSent(s)
      PROVE  Quiet
  BY <1>1, <1>5 DEF OpenRecord, WriteRecord, WriteLost, RecordFails, ReadRecord,
     LookComplete, LookBlocked, AnswerSent
<1>6. ASSUME NEW s \in Servers, Probe(s) \/ OtherCall(s) PROVE Quiet
  <2>1. run' = run \/ \E rs : run' = Reaped(rs)
    BY <1>6 DEF Probe, OtherCall, PopenCleans
  <2>2. \A q \in Runs : Same(run', q)
    BY <2>1, ReapedSame DEF Same
  <2> QED
    BY <1>6, <2>2 DEF Quiet, Probe, OtherCall
<1>7. ASSUME NEW s \in Servers, SessionStops(s) PROVE Quiet
  <2>1. \A q \in Runs : Same(run', q)
    BY <1>7, <1>run DEF SessionStops, Same, RunType
  <2> QED
    BY <1>7, <2>1 DEF Quiet, SessionStops
<1>8. ASSUME NEW c \in Callers, SweepEnds(c) PROVE Quiet
  BY <1>8 DEF SweepEnds, Quiet, Same, Typed
<1>9. ASSUME NEW s \in Servers, ResetReturns(s) PROVE Quiet
  BY <1>9 DEF ResetReturns, Quiet, Same, Typed, Callers
<1> QED
  BY <1>2, <1>3, <1>4, <1>5, <1>6, <1>7, <1>8, <1>9
  DEF Next, StartCall, StatusCall

\* Every step is of one of these kinds.
LEMMA Kinds ==
    ASSUME Typed, [Next]_serverVars
    PROVE  Quiet \/ Started \/ Resetting \/ \E r \in Runs : EngineStep(r)
<1> USE DEF world, sessions, bounds
<1>run. run \in [Runs -> RunType]
  BY DEF Typed
<1>10. ASSUME NEW c \in Callers, StartReset(c) PROVE Resetting
  <2>1. PICK rs \in [Runs -> RunType] :
           (\A q \in Runs : Same(rs, q)) /\ run' = Disturbed(rs)
    BY <1>10, <1>run, RunsTyped, ReapedSame DEF StartReset, PopenCleans, Same
  <2>2. \A q \in Runs : run'[q] = [rs[q] EXCEPT !.fate = "disturbed"]
    BY <2>1 DEF Disturbed
  <2>3. \A q \in Runs : /\ run'[q].fate = "disturbed"
                        /\ run'[q].phase = rs[q].phase /\ run'[q].mode = rs[q].mode
                        /\ run'[q].pid = rs[q].pid
    <3> TAKE q \in Runs
    <3>1. rs[q] \in RunType
      BY <2>1
    <3> QED
      BY <2>2, <3>1 DEF RunType
  <2> QED
    BY <1>10, <2>1, <2>3 DEF StartReset, Resetting, Same
<1>11. ASSUME NEW c \in Callers, Sweep(c) PROVE Resetting
  <2>1. sweep[c] # NoSweep
    BY <1>11 DEF Sweep, NoSweep, ResetFiles
  <2>2. \A d \in Callers : sweep[d] = NoSweep => sweep'[d] = NoSweep
    BY <1>11, <2>1 DEF Sweep, Typed
  <2> QED
    BY <1>11, <2>1, <2>2 DEF Sweep, Resetting
<1> QED
  BY <1>10, <1>11, StepKinds
\* What a start leaves of the other runs.
LEMMA StartedMeans ==
    ASSUME Typed, Started
    PROVE  LET r == started + 1
           IN  /\ r \in Runs /\ started' = r /\ files' = files /\ sweep' = sweep
               /\ run'[r].phase = "starting"
               /\ run'[r].fate = IF Alone THEN "open" ELSE "disturbed"
               /\ \A q \in Runs \ {r} :
                     /\ run'[q].phase = run[q].phase
                     /\ run'[q].mode = run[q].mode
                     /\ run'[q].pid = run[q].pid
                     /\ started # 0 => run'[q].fate = "disturbed"
<1> DEFINE r == started + 1
<1>1. PICK rs \in [Runs -> RunType], mode \in Modes, p \in Pids,
           parent \in Servers \cup {"init"} :
        /\ \A q \in Runs : Same(rs, q)
        /\ started < MaxRuns /\ started' = r
        /\ run' = NewRun(rs, r, mode, p, parent)
        /\ files' = files /\ sweep' = sweep
  BY DEF Started
<1>2. r \in Runs
  BY DEF Started, Typed, Runs
<1> DEFINE old == IF started = 0 THEN rs ELSE Disturbed(rs)
           new == [phase |-> "starting", mode |-> mode, pid |-> p,
                   parent |-> parent,
                   fate |-> IF Alone THEN "open" ELSE "disturbed"]
<1>3. /\ old \in [Runs -> RunType]
      /\ \A q \in Runs :
            /\ old[q].phase = rs[q].phase /\ old[q].mode = rs[q].mode
            /\ old[q].pid = rs[q].pid
            /\ started # 0 => old[q].fate = "disturbed"
  BY <1>1 DEF Disturbed, RunType
<1>4. run' = [old EXCEPT ![r] = new]
  BY <1>1 DEF NewRun
<1> HIDE DEF old
<1>5. run'[r] = new /\ \A q \in Runs \ {r} : run'[q] = old[q]
  BY <1>2, <1>3, <1>4
<1>6. /\ new.phase = "starting"
      /\ new.fate = IF Alone THEN "open" ELSE "disturbed"
  OBVIOUS
<1> HIDE DEF new
<1>7. \A q \in Runs \ {r} :
         /\ run'[q].phase = run[q].phase /\ run'[q].mode = run[q].mode
         /\ run'[q].pid = run[q].pid
         /\ started # 0 => run'[q].fate = "disturbed"
  <2> TAKE q \in Runs \ {r}
  <2>1. run'[q] = old[q] /\ q \in Runs
    BY <1>5
  <2>2. /\ old[q].phase = rs[q].phase /\ old[q].mode = rs[q].mode
        /\ old[q].pid = rs[q].pid
        /\ started # 0 => old[q].fate = "disturbed"
    BY <1>3, <2>1
  <2>3. /\ rs[q].phase = run[q].phase /\ rs[q].mode = run[q].mode
        /\ rs[q].pid = run[q].pid
    BY <1>1, <2>1 DEF Same
  <2> QED
    BY <2>1, <2>2, <2>3
<1> QED
  BY <1>1, <1>2, <1>5, <1>6, <1>7

\* What a step of a run changes.
LEMMA EngineStepMeans ==
    ASSUME Typed, NEW r \in Runs, EngineStep(r)
    PROVE  /\ Running(r) /\ started' = started /\ sweep' = sweep
           /\ \A q \in Runs \ {r} : run'[q] = run[q]
           /\ \E next \in Moves(run[r].mode, run[r].phase, Signals, r) :
                /\ run'[r] = Moved(r, next)
                /\ run'[r].mode = run[r].mode /\ run'[r].pid = run[r].pid
                /\ run'[r].phase = next.phase
                /\ run'[r].fate =
                      IF run[r].fate # "open" THEN run[r].fate
                      ELSE IF next.phase = "done" /\ next.signals.complete = r
                           THEN "shipped"
                      ELSE IF next.phase = "over"
                              /\ run[r].phase \in {"starting", "ready", "gates"}
                           THEN "cut"
                      ELSE "open"
                /\ files'.complete = next.signals.complete
                /\ files'.blocked = next.signals.blocked
<1>1. PICK next \in Moves(run[r].mode, run[r].phase, Signals, r) :
          /\ run' = [run EXCEPT ![r] = Moved(r, next)]
          /\ files' = [task |-> files.task \/ next.phase = "ready",
                       complete |-> next.signals.complete,
                       blocked |-> next.signals.blocked]
  BY DEF EngineStep
<1>2. run[r] \in RunType /\ run \in [Runs -> RunType]
  BY DEF Typed
<1>3. run'[r] = Moved(r, next) /\ \A q \in Runs \ {r} : run'[q] = run[q]
  BY <1>1, <1>2
<1>4. /\ Moved(r, next).mode = run[r].mode /\ Moved(r, next).pid = run[r].pid
      /\ Moved(r, next).phase = next.phase
      /\ Moved(r, next).fate =
            IF run[r].fate # "open" THEN run[r].fate
            ELSE IF next.phase = "done" /\ next.signals.complete = r
                 THEN "shipped"
            ELSE IF next.phase = "over"
                    /\ run[r].phase \in {"starting", "ready", "gates"}
                 THEN "cut"
            ELSE "open"
  BY <1>2 DEF Moved, RunType
<1> QED
  BY <1>1, <1>3, <1>4 DEF EngineStep

\* A run of the loop that nothing disturbs, by the phase it leaves: where it
\* works or reviews there is no .complete; where it ends there is its own, or
\* none, or a BLOCKED.md.
LEMMA LoopOutcome ==
    ASSUME NEW r \in Runs, NEW phase \in Phases \ {"over"},
           NEW sig \in SignalType,
           phase \in {"work", "review"} => sig.complete = NoFile,
           phase = "done" => sig.complete = NoFile \/ sig.blocked,
           NEW next \in Moves("loop", phase, sig, r)
    PROVE  /\ next.phase \in {"work", "review"} => next.signals.complete = NoFile
           /\ next.phase = "done" => \/ next.signals.complete \in {NoFile, r}
                                     \/ next.signals.blocked
           /\ next.phase = "over" /\ phase \notin {"starting", "ready", "gates"}
                => next.signals.complete = NoFile \/ next.signals.blocked
<1>1. \A s \in PerhapsBlocked(sig) \cup BlockedOrNot(sig) : s.complete = sig.complete
  BY DEF PerhapsBlocked, BlockedOrNot, SignalType
<1>2. /\ [sig EXCEPT !.complete = NoFile].complete = NoFile
      /\ [sig EXCEPT !.complete = r].complete = r
  BY DEF SignalType
<1>3. \A n \in NotCleared(sig) : n.phase = "done" /\ n.signals.blocked
  BY DEF NotCleared, At
<1>4. CASE phase = "done"
  <2>1. next \in {At("over", sig)}
    BY <1>4 DEF Moves, Phases
  <2> QED
    BY <1>4, <2>1 DEF At, Phases
<1>5. CASE next.phase = "over" /\ next.signals = sig
  BY <1>5 DEF Phases
<1>6. CASE phase = "starting" /\ next \in Starting(sig)
  BY <1>6 DEF Starting, At
<1>7. CASE phase = "ready" /\ next \in Ready("loop", sig)
  <2>1. \/ next = At("work", [sig EXCEPT !.complete = NoFile])
        \/ next \in NotCleared(sig)
    BY <1>7 DEF Ready
  <2>2. CASE next = At("work", [sig EXCEPT !.complete = NoFile])
    <3>1. next.phase = "work" /\ next.signals.complete = NoFile
      BY <1>2, <2>2 DEF At
    <3> QED
      BY <3>1
  <2>3. CASE next \in NotCleared(sig)
    BY <1>3, <2>3
  <2> QED
    BY <2>1, <2>2, <2>3
<1>8. CASE phase = "work" /\ next \in Work("loop", sig)
  BY <1>1, <1>8 DEF Work, At
<1>9. CASE phase = "gates" /\ next \in Gates(sig)
  <2>1. \/ next.phase = "gates"
        \/ next = At("review", [sig EXCEPT !.complete = NoFile])
        \/ next \in NotCleared(sig)
    BY <1>9 DEF Gates, At
  <2>2. CASE next = At("review", [sig EXCEPT !.complete = NoFile])
    <3>1. next.phase = "review" /\ next.signals.complete = NoFile
      BY <1>2, <2>2 DEF At
    <3> QED
      BY <3>1
  <2>3. CASE next \in NotCleared(sig)
    BY <1>3, <2>3
  <2>4. CASE next.phase = "gates"
    BY <2>4
  <2> QED
    BY <2>1, <2>2, <2>3, <2>4
<1>10. CASE phase = "review" /\ next \in Review("loop", sig, r)
  <2>1. \/ next = At("review", sig) \/ next = At("work", sig)
        \/ \E s \in PerhapsBlocked(sig) : next = At("done", s)
        \/ next = At("done", [sig EXCEPT !.complete = r])
    BY <1>10 DEF Review
  <2>2. CASE next = At("review", sig) \/ next = At("work", sig)
    BY <1>10, <2>2 DEF At
  <2>3. CASE \E s \in PerhapsBlocked(sig) : next = At("done", s)
    <3>1. next.phase = "done" /\ next.signals.complete = sig.complete
      BY <1>1, <2>3 DEF At
    <3> QED
      BY <1>10, <3>1
  <2>4. CASE next = At("done", [sig EXCEPT !.complete = r])
    <3>1. next.phase = "done" /\ next.signals.complete = r
      BY <1>2, <2>4 DEF At
    <3> QED
      BY <3>1
  <2> QED
    BY <2>1, <2>2, <2>3, <2>4
<1>11. \/ next.phase = "over" /\ next.signals = sig
       \/ phase = "starting" /\ next \in Starting(sig)
       \/ phase = "ready" /\ next \in Ready("loop", sig)
       \/ phase = "work" /\ next \in Work("loop", sig)
       \/ phase = "gates" /\ next \in Gates(sig)
       \/ phase = "review" /\ next \in Review("loop", sig, r)
       \/ phase = "done"
  <2>1. CASE phase = "starting"
    BY <2>1 DEF Moves, At
  <2>2. CASE phase = "ready"
    BY <2>2 DEF Moves, At
  <2>3. CASE phase = "work"
    BY <2>3 DEF Moves, At
  <2>4. CASE phase = "gates"
    BY <2>4 DEF Moves, At
  <2>5. CASE phase = "review"
    BY <2>5 DEF Moves, At
  <2> QED
    BY <2>1, <2>2, <2>3, <2>4, <2>5 DEF Phases
<1> QED
  BY <1>4, <1>5, <1>6, <1>7, <1>8, <1>9, <1>10, <1>11
\* Every step keeps what RunsIInv says of the runs and the files: a run whose
\* fate is open or shipped has had the directory to itself.
LEMMA RunsStep == Typed /\ RunsIInv /\ [Next]_serverVars => RunsIInv'
<1> SUFFICES ASSUME Typed, RunsIInv, [Next]_serverVars PROVE RunsIInv'
  OBVIOUS
<1>ty. /\ started \in Nat /\ started <= MaxRuns
       /\ 1..started \subseteq Runs /\ Runs = 1..MaxRuns
       /\ \A r \in Runs : run[r] \in RunType
  BY DEF Typed, Runs
<1>go. \A r \in Runs : Running(r) => r \in 1..started
  BY <1>ty DEF RunsIInv, Phased, Running
<1>1. CASE Quiet
  <2>1. \A r \in Runs : /\ run'[r].phase = run[r].phase
                        /\ run'[r].mode = run[r].mode
                        /\ run'[r].fate = run[r].fate
    BY <1>1 DEF Quiet, Same
  <2>2. Phased'
    BY <1>1, <2>1 DEF Quiet, RunsIInv, Phased
  <2>3. OnlyOne'
    BY <1>1, <1>ty, <2>1 DEF Quiet, RunsIInv, OnlyOne, Running
  <2>4. Outcomes'
    BY <1>1, <1>ty, <2>1 DEF Quiet, RunsIInv, Outcomes, Outcome
  <2> QED
    BY <2>2, <2>3, <2>4 DEF RunsIInv
<1>2. CASE Started
  <2> DEFINE n == started + 1
  <2>1. /\ n \in Runs /\ started' = n /\ sweep' = sweep
        /\ run'[n].phase = "starting"
        /\ run'[n].fate = IF Alone THEN "open" ELSE "disturbed"
        /\ \A q \in Runs \ {n} :
              /\ run'[q].phase = run[q].phase
              /\ started # 0 => run'[q].fate = "disturbed"
    BY <1>2, StartedMeans
  <2>2. Phased'
    BY <1>ty, <2>1 DEF RunsIInv, Phased
  <2>3. \A r \in 1..started' : r = n \/ run'[r].fate = "disturbed"
    BY <1>ty, <2>1
  <2>4. OnlyOne'
    BY <2>1, <2>3 DEF OnlyOne, Alone, Running
  <2>5. Outcomes'
    BY <2>1, <2>3 DEF Outcomes, Outcome
  <2> QED
    BY <2>2, <2>4, <2>5 DEF RunsIInv
<1>3. CASE Resetting
  <2>1. \A r \in Runs : /\ run'[r].phase = run[r].phase
                        /\ run'[r].mode = run[r].mode
    BY <1>3 DEF Resetting
  <2>2. \A r \in 1..started : run'[r].fate = "disturbed"
    <3>1. CASE \A q \in Runs : run'[q].fate = "disturbed"
      BY <1>ty, <3>1
    <3>2. CASE run' = run /\ \E c \in Callers : sweep[c] # NoSweep
      BY <3>2 DEF RunsIInv, OnlyOne
    <3> QED
      BY <1>3, <3>1, <3>2 DEF Resetting
  <2>3. started' = started
    BY <1>3 DEF Resetting
  <2>4. Phased'
    BY <2>1, <2>3 DEF RunsIInv, Phased
  <2>5. OnlyOne' /\ Outcomes'
    BY <2>2, <2>3 DEF OnlyOne, Outcomes, Outcome
  <2> QED
    BY <2>4, <2>5 DEF RunsIInv
<1>4. ASSUME NEW r \in Runs, EngineStep(r) PROVE RunsIInv'
  <2>1. /\ Running(r) /\ started' = started /\ sweep' = sweep
        /\ \A q \in Runs \ {r} : run'[q] = run[q]
        /\ \E next \in Moves(run[r].mode, run[r].phase, Signals, r) :
             /\ run'[r].mode = run[r].mode
             /\ run'[r].phase = next.phase
             /\ run'[r].fate =
                   IF run[r].fate # "open" THEN run[r].fate
                   ELSE IF next.phase = "done" /\ next.signals.complete = r
                        THEN "shipped"
                   ELSE IF next.phase = "over"
                           /\ run[r].phase \in {"starting", "ready", "gates"}
                        THEN "cut"
                   ELSE "open"
             /\ files'.complete = next.signals.complete
             /\ files'.blocked = next.signals.blocked
    BY <1>4, EngineStepMeans
  <2>2. PICK next \in Moves(run[r].mode, run[r].phase, Signals, r) :
             /\ run'[r].mode = run[r].mode
             /\ run'[r].phase = next.phase
             /\ run'[r].fate =
                   IF run[r].fate # "open" THEN run[r].fate
                   ELSE IF next.phase = "done" /\ next.signals.complete = r
                        THEN "shipped"
                   ELSE IF next.phase = "over"
                           /\ run[r].phase \in {"starting", "ready", "gates"}
                        THEN "cut"
                   ELSE "open"
             /\ files'.complete = next.signals.complete
             /\ files'.blocked = next.signals.blocked
    BY <2>1
  <2>3. Signals \in SignalType
    BY DEF Signals, SignalType, Typed
  <2>4. /\ run[r].mode \in Modes
        /\ run[r].phase \in Phases \ {"over"}
        /\ run[r].fate \in {"open", "shipped", "cut", "disturbed"}
    BY <1>ty, <2>1 DEF RunType, Running
  <2>5. next.phase \in Phases
    BY <2>3, <2>4, MovesTyped DEF Phases
  <2>6. Phased'
    BY <1>ty, <1>go, <2>1, <2>2, <2>5 DEF RunsIInv, Phased, Phases
  <2>7. \A q \in 1..started : q # r => run[q].fate = "disturbed"
    BY <1>ty, <2>1 DEF RunsIInv, OnlyOne
  <2>8. run'[r].fate # "disturbed" => run[r].fate # "disturbed"
    BY <2>2
  <2>9. r \in 1..started
    BY <1>go, <2>1
  <2>10. OnlyOne'
    <3> SUFFICES ASSUME run'[r].fate # "disturbed"
                 PROVE  /\ \A q \in Runs \ {r} : ~Running(q)'
                        /\ \A c \in Callers : sweep'[c] = NoSweep
      BY <1>ty, <2>1, <2>7 DEF OnlyOne
    <3> QED
      BY <2>1, <2>8, <2>9 DEF RunsIInv, OnlyOne, Running
  <2>11. Outcome(r)'
    <3>1. CASE run[r].fate = "shipped"
      <4>1. run[r].phase = "done" /\ files.complete = r
        BY <2>1, <2>9, <3>1 DEF RunsIInv, Outcomes, Outcome, Running
      <4>2. next = At("over", Signals)
        BY <2>2, <4>1 DEF Moves
      <4>3. next.phase = "over" /\ next.signals.complete = files.complete
        BY <4>2 DEF At, Signals
      <4> QED
        BY <2>2, <3>1, <4>1, <4>3 DEF Outcome
    <3>2. CASE run[r].fate = "open" /\ run[r].mode = "loop"
      <4>1. /\ run[r].phase \in {"work", "review"} => Signals.complete = NoFile
            /\ run[r].phase = "done" => Signals.complete = NoFile \/ Signals.blocked
        BY <2>9, <3>2 DEF RunsIInv, Outcomes, Outcome, Signals
      <4>2. /\ next.phase \in {"work", "review"} => next.signals.complete = NoFile
            /\ next.phase = "done" => \/ next.signals.complete \in {NoFile, r}
                                      \/ next.signals.blocked
            /\ next.phase = "over" /\ run[r].phase \notin {"starting", "ready", "gates"}
                 => next.signals.complete = NoFile \/ next.signals.blocked
        BY <2>2, <2>3, <2>4, <3>2, <4>1, LoopOutcome
      <4> QED
        BY <2>2, <3>2, <4>2 DEF Outcome
    <3>3. CASE run[r].fate = "open" /\ run[r].mode # "loop"
      BY <2>2, <3>3 DEF Outcome
    <3>4. CASE run[r].fate = "cut"
      BY <2>1, <2>9, <3>4 DEF RunsIInv, Outcomes, Outcome, Running
    <3>5. CASE run[r].fate = "disturbed"
      BY <2>2, <3>5 DEF Outcome
    <3> QED
      BY <2>4, <3>1, <3>2, <3>3, <3>4, <3>5
  <2>12. Outcomes'
    <3> SUFFICES ASSUME NEW q \in 1..started, q # r PROVE Outcome(q)'
      BY <2>1, <2>11 DEF Outcomes
    <3>1. run'[q].fate = "disturbed"
      BY <1>ty, <2>1, <2>7
    <3> QED
      BY <3>1 DEF Outcome
  <2> QED
    BY <2>6, <2>10, <2>12 DEF RunsIInv
<1> QED
  BY <1>1, <1>2, <1>3, <1>4, Kinds

\* What a step leaves of a run that was started.
LEMMA Kept ==
    ASSUME Typed, RunsIInv, [Next]_serverVars, NEW r \in 1..started
    PROVE  /\ run'[r].mode = run[r].mode /\ run'[r].pid = run[r].pid
           /\ run[r].phase = "over" =>
                /\ run'[r].phase = "over"
                /\ run'[r].fate \in {run[r].fate, "disturbed"}
                /\ run'[r].fate # "disturbed" =>
                     files'.complete = files.complete /\ files'.blocked = files.blocked
<1>ty. /\ started \in Nat /\ r \in Runs /\ started # 0 /\ r # started + 1
  BY DEF Typed, Runs
<1>1. CASE Quiet
  BY <1>1, <1>ty DEF Quiet, Same
<1>2. CASE Started
  BY <1>2, <1>ty, StartedMeans
<1>3. CASE Resetting
  <2>1. /\ run'[r].phase = run[r].phase /\ run'[r].mode = run[r].mode
        /\ run'[r].pid = run[r].pid
    BY <1>3, <1>ty DEF Resetting
  <2>2. run'[r].fate = "disturbed"
    <3>1. CASE \A q \in Runs : run'[q].fate = "disturbed"
      BY <1>ty, <3>1
    <3>2. CASE run' = run /\ \E c \in Callers : sweep[c] # NoSweep
      BY <3>2 DEF RunsIInv, OnlyOne
    <3> QED
      BY <1>3, <3>1, <3>2 DEF Resetting
  <2> QED
    BY <2>1, <2>2
<1>4. ASSUME NEW q \in Runs, EngineStep(q)
      PROVE  /\ run'[r].mode = run[r].mode /\ run'[r].pid = run[r].pid
             /\ run[r].phase = "over" =>
                  run'[r] = run[r] /\ run[r].fate = "disturbed"
  <2>1. /\ Running(q) /\ \A p \in Runs \ {q} : run'[p] = run[p]
        /\ run'[q].mode = run[q].mode /\ run'[q].pid = run[q].pid
    BY <1>4, EngineStepMeans
  <2>2. run[r].phase = "over" => r # q
    BY <2>1 DEF Running
  <2>3. r # q => run[r].fate = "disturbed"
    BY <1>ty, <2>1 DEF RunsIInv, OnlyOne
  <2> QED
    BY <1>ty, <2>1, <2>2, <2>3
<1> QED
  BY <1>1, <1>2, <1>3, <1>4, Kinds

\* What a step is for one session.
LEMMA SessionKinds ==
    ASSUME Typed, [Next]_serverVars, NEW s \in Servers
    PROVE  \/ at'[s] = at[s] /\ answer'[s] = answer[s] /\ handle'[s] = handle[s]
           \/ Probe(s) \/ LookComplete(s) \/ LookBlocked(s)
           \/ at'[s] \notin {"complete", "blocked", "answered"}
<1> USE DEF world, sessions, bounds
<1> DEFINE Still == /\ at'[s] = at[s] /\ answer'[s] = answer[s]
                    /\ handle'[s] = handle[s]
           Away == at'[s] \notin {"complete", "blocked", "answered"}
<1>1. ASSUME NEW t \in Servers,
             ReadRecord(t) \/ Probe(t) \/ LookComplete(t) \/ LookBlocked(t)
      PROVE  Still \/ Probe(s) \/ LookComplete(s) \/ LookBlocked(s) \/ Away
  <2>1. CASE t # s
    <3>1. at'[s] = at[s]
      BY <1>1, <2>1, GoOnTyped DEF ReadRecord, Probe, LookComplete, LookBlocked
    <3>2. answer'[s] = answer[s] /\ handle' = handle
      BY <1>1, <2>1
      DEF ReadRecord, Probe, LookComplete, LookBlocked, Typed
    <3> QED
      BY <3>1, <3>2
  <2>2. CASE t = s /\ ReadRecord(s)
    BY <2>2, GoOnTyped DEF ReadRecord
  <2> QED
    BY <1>1, <2>1, <2>2
<1>2. ASSUME NEW t \in Servers,
             \/ WriteRecord(t) \/ WriteLost(t) \/ RecordFails(t) \/ AnswerSent(t)
             \/ SessionStops(t)
      PROVE  Still \/ Away
  <2>1. /\ at' = [at EXCEPT ![t] = "ready"]
        /\ answer' = [answer EXCEPT ![t] = NoAnswer]
    BY <1>2 DEF WriteRecord, WriteLost, RecordFails, AnswerSent, SessionStops, Idle
  <2>2. t # s => handle'[s] = handle[s]
    BY <1>2 DEF WriteRecord, WriteLost, RecordFails, AnswerSent, SessionStops, Typed
  <2> QED
    BY <2>1, <2>2 DEF Typed
<1>3. ASSUME NEW t \in Servers,
             Launch(t) \/ OpenRecord(t) \/ OtherCall(t) \/ ResetReturns(t)
      PROVE  Still \/ Away
  BY <1>3 DEF Launch, OpenRecord, OtherCall, ResetReturns, Typed
<1>4. ASSUME NEW c \in Callers, StartReset(c) \/ Sweep(c) \/ SweepEnds(c)
      PROVE  Still \/ Away
  BY <1>4 DEF StartReset, Sweep, SweepEnds, Typed
<1>5. ASSUME \/ StartByHand \/ ForeignProcess \/ \E r \in Runs : EngineStep(r)
             \/ UNCHANGED serverVars
      PROVE  Still
  BY <1>5 DEF StartByHand, ForeignProcess, EngineStep, serverVars
<1> QED
  BY <1>1, <1>2, <1>3, <1>4, <1>5 DEF Next, StartCall, StatusCall

\* Runs that are recorded, held or asked about were started.
LEMMA RecordedStep == Typed /\ Recorded /\ [Next]_serverVars => Recorded'
<1> SUFFICES ASSUME Typed, Recorded, [Next]_serverVars PROVE Recorded'
  OBVIOUS
<1> USE DEF world, sessions, bounds
<1>ty. /\ started \in Nat
       /\ record \in {NoRun, Torn} \cup Runs
       /\ \A s \in Servers : handle[s] \in Nat /\ answer[s].run \in Nat
  BY DEF Typed, AnswerType, Runs, NoRun
<1>1. ASSUME NEW s \in Servers, Launch(s) PROVE Recorded'
  <2>1. /\ started' = started + 1 /\ record' = record
        /\ handle' = [handle EXCEPT ![s] = started']
        /\ answer' = [answer EXCEPT ![s] = [answer[s] EXCEPT !.run = started']]
    BY <1>1 DEF Launch
  <2>2. \A t \in Servers : /\ handle'[t] \in {handle[t], started'}
                           /\ answer'[t].run \in {answer[t].run, started'}
    BY <2>1 DEF Typed, AnswerType
  <2>3. record' <= started'
    BY <1>ty, <2>1 DEF Recorded, Typed, Runs, NoRun, Torn
  <2> QED
    BY <1>ty, <2>1, <2>2, <2>3 DEF Recorded
<1>2. ASSUME NEW s \in Servers, ReadRecord(s) PROVE Recorded'
  <2>1. /\ started' = started /\ record' = record /\ handle' = handle
        /\ answer' = [answer EXCEPT ![s] = [NoAnswer EXCEPT !.run = RecordRead]]
    BY <1>2 DEF ReadRecord
  <2>2. RecordRead <= started
    BY <1>ty DEF RecordRead, Recorded, NoRun
  <2>3. \A t \in Servers : answer'[t].run \in {answer[t].run, RecordRead}
    BY <2>1 DEF Typed, NoAnswer
  <2> QED
    BY <2>1, <2>2, <2>3 DEF Recorded
<1>3. ASSUME NEW s \in Servers, Probe(s) \/ LookComplete(s) \/ LookBlocked(s)
      PROVE  Recorded'
  <2>1. started' = started /\ record' = record /\ handle' = handle
    BY <1>3 DEF Probe, LookComplete, LookBlocked
  <2>2. \A t \in Servers : answer'[t].run = answer[t].run
    BY <1>3 DEF Probe, LookComplete, LookBlocked, Typed, AnswerType
  <2> QED
    BY <2>1, <2>2 DEF Recorded
<1>4. ASSUME NEW s \in Servers,
             \/ WriteRecord(s) \/ WriteLost(s) \/ RecordFails(s) \/ AnswerSent(s)
             \/ SessionStops(s)
      PROVE  Recorded'
  <2>1. /\ started' = started
        /\ answer' = [answer EXCEPT ![s] = NoAnswer]
        /\ record' \in {record, Torn, answer[s].run}
        /\ handle' = handle \/ handle' = [handle EXCEPT ![s] = NoRun]
    BY <1>4 DEF WriteRecord, WriteLost, RecordFails, AnswerSent, SessionStops, Idle
  <2>2. /\ record' <= started
        /\ \A t \in Servers : handle'[t] \in {handle[t], NoRun}
        /\ \A t \in Servers : answer'[t].run \in {answer[t].run, NoRun}
    BY <1>ty, <2>1 DEF Recorded, Typed, NoAnswer, Torn
  <2> QED
    BY <1>ty, <2>1, <2>2 DEF Recorded, NoRun
<1>5. ASSUME NEW s \in Servers, OpenRecord(s) \/ OtherCall(s) \/ ResetReturns(s)
      PROVE  Recorded'
  BY <1>5, <1>ty DEF OpenRecord, OtherCall, ResetReturns, Recorded, Torn, NoRun
<1>6. ASSUME NEW c \in Callers, StartReset(c) \/ Sweep(c) \/ SweepEnds(c)
      PROVE  Recorded'
  BY <1>6 DEF StartReset, Sweep, SweepEnds, Recorded
<1>7. CASE \/ ForeignProcess \/ UNCHANGED serverVars
           \/ \E r \in Runs : EngineStep(r)
  BY <1>7 DEF ForeignProcess, EngineStep, serverVars, Recorded
<1>8. CASE StartByHand
  <2>1. /\ started' = started + 1 /\ record' = record
        /\ handle' = handle /\ answer' = answer
    BY <1>8 DEF StartByHand
  <2>2. record' <= started'
    BY <1>ty, <2>1 DEF Recorded, Runs, NoRun, Torn
  <2> QED
    BY <1>ty, <2>1, <2>2 DEF Recorded
<1> QED
  BY <1>1, <1>2, <1>3, <1>4, <1>5, <1>6, <1>7, <1>8 DEF Next, StartCall, StatusCall
-----------------------------------------------------------------------------

\* A session that has found its run dead.
Settled(s) ==
    /\ at[s] \in {"complete", "blocked", "answered"}
    /\ answer[s].run # NoRun /\ ~answer[s].alive /\ ~Mistaken(s)

\* From then on the run is over, and what the session reads of the files is
\* what they held when it ended.
Told(s) ==
    LET r == answer[s].run
    IN  Settled(s) =>
        /\ run[r].phase = "over"
        /\ at[s] \in {"blocked", "answered"} =>
            /\ run[r].fate = "shipped" => answer[s].shipped
            /\ run[r].fate = "open" /\ run[r].mode = "loop" =>
                 \/ ~answer[s].shipped
                 \/ at[s] = "blocked" /\ files.blocked
                 \/ at[s] = "answered" /\ answer[s].blocked

ServerIInv ==
    /\ Typed /\ RunsIInv /\ Recorded
    /\ \A s \in Servers : Told(s)

\* Whether the session's handle is of the run it tells about does not change
\* while it tells.
LEMMA MistakenKept ==
    ASSUME Typed, RunsIInv, Recorded, [Next]_serverVars, NEW s \in Servers,
           answer[s].run # NoRun, answer'[s].run = answer[s].run,
           handle'[s] = handle[s]
    PROVE  Mistaken(s)' = Mistaken(s)
<1>1. answer[s].run \in 1..started
  BY DEF Typed, AnswerType, Recorded, Runs, NoRun
<1>2. handle[s] # NoRun => handle[s] \in 1..started
  BY DEF Typed, Recorded, Runs, NoRun
<1>3. run'[answer[s].run].pid = run[answer[s].run].pid
  BY <1>1, Kept
<1>4. handle[s] # NoRun => run'[handle[s]].pid = run[handle[s]].pid
  BY <1>2, Kept
<1> QED
  BY <1>3, <1>4 DEF Mistaken, HandleFits

\* Every step keeps what a session has gathered in agreement with the run it
\* is about.
LEMMA ToldStep ==
    ASSUME ServerIInv, [Next]_serverVars, NEW s \in Servers
    PROVE  Told(s)'
<1> USE DEF ServerIInv
<1> DEFINE r == answer[s].run
<1>ty. /\ answer[s] \in AnswerType /\ started \in Nat
       /\ r # NoRun => r \in 1..started /\ r \in Runs
  BY DEF Typed, AnswerType, Recorded, Runs, NoRun
<1>1. CASE at'[s] = at[s] /\ answer'[s] = answer[s] /\ handle'[s] = handle[s]
  <2> SUFFICES ASSUME Settled(s)' PROVE Told(s)'
    BY DEF Told
  <2>1. r # NoRun
    BY <1>1 DEF Settled
  <2>2. Settled(s)
    BY <1>1, <2>1, MistakenKept DEF Settled
  <2>3. Told(s) /\ run[r].phase = "over"
    BY <2>2 DEF Told
  <2>4. /\ run'[r].phase = "over" /\ run'[r].mode = run[r].mode
        /\ run'[r].fate \in {run[r].fate, "disturbed"}
        /\ run'[r].fate # "disturbed" => files'.blocked = files.blocked
    BY <1>ty, <2>1, <2>3, Kept
  <2> QED
    BY <1>1, <2>2, <2>3, <2>4 DEF Told
<1>2. CASE Probe(s)
  <2> SUFFICES ASSUME Settled(s)' PROVE Told(s)'
    BY DEF Told
  <2>1. at[s] = "probe" /\ at'[s] = "complete"
    BY <1>2, GoOnTyped DEF Probe
  <2>2. PidAlive(s) \in BOOLEAN
    BY DEF PidAlive, Running
  <2>3. answer'[s].run = r /\ (r # NoRun => answer'[s].alive = PidAlive(s))
    BY <1>2, <2>2 DEF Probe, Typed, AnswerType
  <2>4. r # NoRun /\ ~PidAlive(s)
    BY <2>3 DEF Settled
  <2>5. handle'[s] = handle[s]
    BY <1>2 DEF Probe
  <2>6. ~Mistaken(s)
    BY <2>3, <2>4, <2>5, MistakenKept DEF Settled
  <2>7. ~Running(r)
    BY <2>4, <2>6, AliveMeans
  <2>8. run[r].phase = "over"
    BY <1>ty, <2>4, <2>7 DEF Running, RunsIInv, Phased
  <2>9. run'[r].phase = "over"
    BY <1>ty, <2>4, <2>8, Kept
  <2> QED
    BY <2>1, <2>3, <2>9 DEF Told
<1>3. CASE LookComplete(s)
  <2> SUFFICES ASSUME Settled(s)' PROVE Told(s)'
    BY DEF Told
  <2>1. /\ at[s] = "complete" /\ at'[s] = "blocked"
        /\ run' = run /\ files' = files /\ handle' = handle
    BY <1>3, GoOnTyped DEF LookComplete, world
  <2>2. PICK shipped \in IF files.complete = StrayFile THEN BOOLEAN
                         ELSE {files.complete # NoFile} :
           answer' = [answer EXCEPT ![s].shipped = shipped]
    BY <1>3 DEF LookComplete
  <2>3. /\ answer'[s].run = r /\ answer'[s].alive = answer[s].alive
        /\ answer'[s].shipped = shipped
    BY <2>2 DEF Typed, AnswerType
  <2>4. r # NoRun /\ ~answer[s].alive
    BY <2>3 DEF Settled
  <2>5. Settled(s)
    BY <2>1, <2>3, <2>4, MistakenKept DEF Settled
  <2>6. run[r].phase = "over"
    BY <2>5 DEF Told
  <2>7. Outcome(r)
    BY <1>ty, <2>4 DEF RunsIInv, Outcomes
  <2>8. run[r].fate = "shipped" => shipped
    <3> SUFFICES ASSUME run[r].fate = "shipped" PROVE shipped
      OBVIOUS
    <3>1. files.complete # StrayFile /\ files.complete # NoFile
      BY <1>ty, <2>4, <2>7 DEF Outcome, NoFile, StrayFile
    <3>2. shipped = (files.complete # NoFile)
      BY <2>2, <3>1
    <3> QED
      BY <3>1, <3>2
  <2>9. run[r].fate = "open" /\ run[r].mode = "loop" => ~shipped \/ files.blocked
    <3> SUFFICES ASSUME run[r].fate = "open", run[r].mode = "loop", ~files.blocked
                 PROVE  ~shipped
      OBVIOUS
    <3>1. files.complete = NoFile /\ files.complete # StrayFile
      BY <2>6, <2>7 DEF Outcome, NoFile, StrayFile
    <3>2. shipped = (files.complete # NoFile)
      BY <2>2, <3>1
    <3> QED
      BY <3>1, <3>2
  <2> QED
    BY <2>1, <2>3, <2>6, <2>8, <2>9 DEF Told
<1>4. CASE LookBlocked(s)
  <2> SUFFICES ASSUME Settled(s)' PROVE Told(s)'
    BY DEF Told
  <2>1. /\ at[s] = "blocked" /\ at'[s] = "answered"
        /\ run' = run /\ files' = files /\ handle' = handle
    BY <1>4, GoOnTyped DEF LookBlocked, world
  <2>2. /\ answer'[s].run = r /\ answer'[s].alive = answer[s].alive
        /\ answer'[s].shipped = answer[s].shipped
        /\ answer'[s].blocked = files.blocked
    BY <1>4 DEF LookBlocked, Typed, AnswerType
  <2>3. r # NoRun /\ ~answer[s].alive
    BY <2>2 DEF Settled
  <2>4. Settled(s)
    BY <2>1, <2>2, <2>3, MistakenKept DEF Settled
  <2> QED
    BY <2>1, <2>2, <2>4 DEF Told
<1>5. CASE at'[s] \notin {"complete", "blocked", "answered"}
  BY <1>5 DEF Told, Settled
<1> QED
  BY <1>1, <1>2, <1>3, <1>4, <1>5, SessionKinds

\* The inductive invariant behind OutcomeTold.
THEOREM ServerInvariant == ServerSpec => []ServerIInv
<1>1. Init => ServerIInv
  <2>1. Init => Typed
    BY DEF Init, Typed, RunType, AnswerType, SweepType, Labels, Phases, Modes,
           NoAnswer, NoSweep, ResetFiles
  <2>2. Init => RunsIInv
    BY DEF Init, RunsIInv, Phased, OnlyOne, Outcomes, Runs
  <2>3. Init => Recorded
    BY DEF Init, Recorded, NoRun, NoAnswer
  <2>4. Init => \A s \in Servers : Told(s)
    BY DEF Init, Told, Settled
  <2> QED
    BY <2>1, <2>2, <2>3, <2>4 DEF ServerIInv
<1>2. ServerIInv /\ [Next]_serverVars => ServerIInv'
  BY TypedStep, RunsStep, RecordedStep, ToldStep DEF ServerIInv
<1> QED
  BY <1>1, <1>2, PTL DEF ServerSpec

\* What engine_status tells of a run that is over is that run's own outcome,
\* unless another start or a reset has come between.
THEOREM ServerOutcomeTold == ServerSpec => []OutcomeTold
<1>1. ServerIInv => OutcomeTold
  <2> SUFFICES ASSUME ServerIInv, NEW s \in Servers,
                      at[s] = "answered", answer[s].run # NoRun,
                      ~answer[s].alive, ~Mistaken(s)
               PROVE  LET r == answer[s].run
                      IN  /\ run[r].phase = "over"
                          /\ run[r].fate = "shipped" => answer[s].shipped
                          /\ run[r].mode = "loop" /\ run[r].fate = "open"
                                => ~answer[s].shipped \/ answer[s].blocked
    BY DEF OutcomeTold
  <2>1. Settled(s) /\ Told(s)
    BY DEF Settled, ServerIInv
  <2> QED
    BY <2>1 DEF Told
<1> QED
  BY <1>1, ServerInvariant, PTL
-----------------------------------------------------------------------------
(* The dashboard beside the server.                                        *)

\* The files say that a run is in progress only while one is, or after one
\* has left them so.
Backed == SaysRunning => SomeRunning \/ orphan

\* A reset past task.md has removed it: where it stands, it was kept, or
\* written since.
Tidy ==
    \A c \in Callers :
        /\ sweep[c].next <= 1 => ~sweep[c].kept
        /\ sweep[c].next > 1 /\ files.task => orphan

\* A run or an orphan that the scan could have noticed is on record.
Noticed == scan # NoScan /\ ~grounds => ~SomeRunning /\ ~orphan

\* With no run to change them, what was not found is not there later either,
\* and task.md is found only where an outcome is.
FoundOut ==
    scan # NoScan /\ ~grounds =>
        /\ scan.next > 1 /\ "blocked" \notin scan.found => ~files.blocked
        /\ scan.next > 2 /\ "complete" \notin scan.found
              => files.complete \notin Runs
        /\ "task" \in scan.found => {"blocked", "complete"} \cap scan.found # {}

Looked ==
    /\ scan \in [next : 0..4, found : SUBSET {"blocked", "complete", "task"}]
    /\ orphan \in BOOLEAN /\ grounds \in BOOLEAN

WatchIInv == Typed /\ Looked /\ Backed /\ Tidy /\ Noticed /\ FoundOut

\* A run gets to "ready" from "starting" only.
LEMMA ReadyAfterStarting ==
    ASSUME NEW mode \in Modes, NEW phase \in Phases \cup {"none"},
           NEW sig, NEW me, phase \notin {"none", "over"},
           NEW next \in Moves(mode, phase, sig, me), next.phase = "ready"
    PROVE  phase = "starting"
<1>1. next # At("over", sig)
  BY DEF At
<1>2. CASE phase = "ready"
  BY <1>1, <1>2 DEF Moves, Ready, NotCleared, At, Modes
<1>3. CASE phase = "work"
  BY <1>1, <1>3 DEF Moves, Work, At
<1>4. CASE phase = "gates"
  BY <1>1, <1>4 DEF Moves, Gates, NotCleared, At
<1>5. CASE phase = "review"
  BY <1>1, <1>5 DEF Moves, Review, At
<1>6. CASE phase = "done"
  BY <1>1, <1>6 DEF Moves
<1> QED
  BY <1>2, <1>3, <1>4, <1>5, <1>6 DEF Phases

\* What a step of a run does to task.md.
LEMMA TaskWritten ==
    ASSUME Typed, NEW r \in Runs, EngineStep(r), files'.task, ~files.task
    PROVE  run[r].phase = "starting" /\ run'[r].phase = "ready"
<1>1. PICK next \in Moves(run[r].mode, run[r].phase, Signals, r) :
          /\ run' = [run EXCEPT ![r] = Moved(r, next)]
          /\ files' = [task |-> files.task \/ next.phase = "ready",
                       complete |-> next.signals.complete,
                       blocked |-> next.signals.blocked]
  BY DEF EngineStep
<1>2. run[r] \in RunType /\ run \in [Runs -> RunType]
  BY DEF Typed
<1>3. next.phase = "ready"
  BY <1>1
<1>4. run[r].phase = "starting"
  <2>1. /\ run[r].mode \in Modes /\ run[r].phase \in Phases \cup {"none"}
        /\ run[r].phase \notin {"none", "over"}
    BY <1>2 DEF RunType, EngineStep, Running
  <2> QED
    BY <1>3, <2>1, ReadyAfterStarting
<1>5. run'[r].phase = "ready"
  BY <1>1, <1>2, <1>3 DEF Moved, RunType
<1> QED
  BY <1>4, <1>5

\* What a removal of a reset does: nothing is added.
LEMMA SweepMeans ==
    ASSUME Typed, NEW c \in Callers, Sweep(c)
    PROVE  /\ run' = run /\ sweep[c].next \in 1..3
           /\ \A d \in Callers \ {c} : sweep'[d] = sweep[d]
           /\ sweep'[c].next = sweep[c].next + 1
           /\ files'.task => files.task
           /\ files'.blocked => files.blocked
           /\ files'.complete \in {files.complete, NoFile}
           /\ files'.task /\ sweep[c].next = 1 => sweep'[c].kept
<1>1. DOMAIN ResetFiles = 1..3 /\ ResetFiles[1] = "task"
      /\ ResetFiles[2] = "complete" /\ ResetFiles[3] = "blocked"
  BY DEF ResetFiles
<1>2. /\ sweep[c].next \in 1..3 /\ run' = run
      /\ \/ /\ files' = Removed(ResetFiles[sweep[c].next])
            /\ sweep' = [sweep EXCEPT ![c].next = @ + 1]
         \/ /\ sweep' = [sweep EXCEPT ![c] = [next |-> @.next + 1, kept |-> TRUE]]
            /\ files' = files
  BY <1>1 DEF Sweep
<1>3. sweep \in [Callers -> SweepType]
  BY DEF Typed
<1>4. /\ \A d \in Callers \ {c} : sweep'[d] = sweep[d]
      /\ sweep'[c].next = sweep[c].next + 1
  BY <1>2, <1>3 DEF SweepType
<1>5. CASE files' = Removed(ResetFiles[sweep[c].next])
  BY <1>1, <1>2, <1>4, <1>5 DEF Removed, Typed
<1>6. CASE /\ sweep' = [sweep EXCEPT ![c] = [next |-> @.next + 1, kept |-> TRUE]]
           /\ files' = files
  BY <1>2, <1>3, <1>4, <1>6
<1> QED
  BY <1>2, <1>5, <1>6

\* What the start of a reset does.
LEMMA StartResetMeans ==
    ASSUME Typed, NEW c \in Callers, StartReset(c)
    PROVE  /\ files' = files
           /\ \A q \in Runs : run'[q].phase = run[q].phase
           /\ \A d \in Callers \ {c} : sweep'[d] = sweep[d]
           /\ sweep'[c].next = 1 /\ ~sweep'[c].kept
<1>1. PICK rs \in [Runs -> RunType] :
         (\A q \in Runs : Same(rs, q)) /\ run' = Disturbed(rs)
  BY RunsTyped, ReapedSame DEF StartReset, PopenCleans, Same, Typed
<1>2. \A q \in Runs : run'[q].phase = run[q].phase
  BY <1>1 DEF Disturbed, Same, RunType
<1> QED
  BY <1>2 DEF StartReset, NoSweep, Typed, SweepType

\* A reset that goes on leaves task.md only where it is known to be left.
LEMMA SweepLeaves ==
    ASSUME Typed, Tidy, NEW c \in Callers, Sweep(c), WorldStep
    PROVE  files'.task => orphan'
<1> SUFFICES ASSUME files'.task PROVE orphan'
  OBVIOUS
<1>1. files.task /\ sweep[c].next \in 1..3
  BY SweepMeans
<1>2. CASE sweep[c].next > 1
  BY <1>1, <1>2 DEF Tidy, WorldStep
<1>3. CASE sweep[c].next = 1
  <2>1. ~sweep[c].kept /\ sweep'[c].kept
    BY <1>3, SweepMeans DEF Tidy
  <2>2. LeavesOrphan
    BY <1>1, <2>1 DEF LeavesOrphan
  <2> QED
    BY <2>2 DEF WorldStep
<1> QED
  BY <1>1, <1>2, <1>3

\* A run that is started is in progress.
LEMMA StartedRuns ==
    ASSUME Typed, Started
    PROVE  SomeRunning' /\ files' = files /\ sweep' = sweep
BY StartedMeans DEF SomeRunning, Running

\* A step that moves no run leaves as many in progress.
LEMMA RunningKept ==
    ASSUME \A q \in Runs : run'[q].phase = run[q].phase
    PROVE  SomeRunning' <=> SomeRunning
BY DEF SomeRunning, Running

\* Every step keeps the files of a reset as Tidy says.
LEMMA TidyStep == WatchIInv /\ WorldStep => Tidy'
<1> SUFFICES ASSUME Typed, Tidy, WorldStep, NEW c \in Callers
             PROVE  /\ sweep'[c].next <= 1 => ~sweep'[c].kept
                    /\ sweep'[c].next > 1 /\ files'.task => orphan'
  BY DEF WatchIInv, Tidy
<1>0. /\ files'.task /\ (orphan \/ LeavesOrphan) => orphan'
      /\ [Next]_serverVars
  BY DEF WorldStep
<1>1. ASSUME sweep'[c] = sweep[c], files'.task => files.task
      PROVE  /\ sweep'[c].next <= 1 => ~sweep'[c].kept
             /\ sweep'[c].next > 1 /\ files'.task => orphan'
  BY <1>0, <1>1 DEF Tidy
<1>2. CASE Quiet
  <2>1. files' = files /\ sweep'[c] \in {sweep[c], NoSweep}
    BY <1>2 DEF Quiet
  <2>2. NoSweep.next = 0 /\ ~NoSweep.kept
    BY DEF NoSweep
  <2> QED
    BY <1>1, <2>1, <2>2
<1>3. CASE Started
  BY <1>1, <1>3, StartedRuns
<1>4. ASSUME NEW r \in Runs, EngineStep(r)
      PROVE  /\ sweep'[c].next <= 1 => ~sweep'[c].kept
             /\ sweep'[c].next > 1 /\ files'.task => orphan'
  <2>1. sweep' = sweep
    BY <1>4, EngineStepMeans
  <2>2. CASE files'.task => files.task
    BY <1>1, <2>1, <2>2
  <2>3. CASE files'.task /\ ~files.task
    <3>1. run[r].phase = "starting" /\ run'[r].phase = "ready"
      BY <1>4, <2>3, TaskWritten
    <3>2. sweep[c].next > 1 => sweep[c] # NoSweep
      BY DEF NoSweep
    <3>3. sweep[c].next > 1 => LeavesOrphan
      BY <2>3, <3>1, <3>2 DEF LeavesOrphan
    <3> QED
      BY <1>0, <2>1, <2>3, <3>3 DEF Tidy
  <2> QED
    BY <2>2, <2>3
<1>5. ASSUME NEW d \in Callers, StartReset(d)
      PROVE  /\ sweep'[c].next <= 1 => ~sweep'[c].kept
             /\ sweep'[c].next > 1 /\ files'.task => orphan'
  BY <1>1, <1>5, StartResetMeans
<1>6. ASSUME NEW d \in Callers, Sweep(d)
      PROVE  /\ sweep'[c].next <= 1 => ~sweep'[c].kept
             /\ sweep'[c].next > 1 /\ files'.task => orphan'
  <2>1. files'.task => orphan'
    BY <1>6, SweepLeaves
  <2>2. CASE c = d
    BY <1>6, <2>1, <2>2, SweepMeans
  <2>3. CASE c # d
    BY <1>1, <1>6, <2>3, SweepMeans
  <2> QED
    BY <2>2, <2>3
<1> QED
  BY <1>0, <1>2, <1>3, <1>4, <1>5, <1>6, StepKinds

\* Every step keeps what the files say.
LEMMA BackedStep == WatchIInv /\ WorldStep => Backed'
<1> SUFFICES ASSUME Typed, Typed', Tidy, Backed, WorldStep, SaysRunning'
             PROVE  SomeRunning' \/ orphan'
  BY TypedStep DEF WatchIInv, Backed, WorldStep
<1>0. /\ files'.task
      /\ orphan \/ LeavesOrphan => orphan'
      /\ [Next]_serverVars
  BY DEF WorldStep, SaysRunning
<1>1. ASSUME files' = files, SomeRunning' <=> SomeRunning
      PROVE  SomeRunning' \/ orphan'
  BY <1>0, <1>1 DEF Backed, SaysRunning
<1>2. CASE Quiet
  BY <1>1, <1>2, RunningKept DEF Quiet, Same
<1>3. CASE Started
  BY <1>3, StartedRuns
<1>4. ASSUME NEW r \in Runs, EngineStep(r) PROVE SomeRunning' \/ orphan'
  <2>1. PICK next \in Moves(run[r].mode, run[r].phase, Signals, r) :
           run' = [run EXCEPT ![r] = Moved(r, next)]
    BY <1>4 DEF EngineStep
  <2>2. run'[r].phase # "none"
    <3>1. Signals \in SignalType /\ run[r] \in RunType
      BY DEF Signals, SignalType, Typed
    <3>2. /\ run[r].mode \in Modes /\ run[r].phase \in Phases \cup {"none"}
          /\ run[r].phase \notin {"none", "over"}
      BY <1>4, <3>1 DEF RunType, EngineStep, Running
    <3>3. next \in [phase : Phases, signals : SignalType]
      BY <2>1, <3>1, <3>2, MovesTyped
    <3>4. run'[r].phase = next.phase
      BY <2>1, <3>1 DEF Moved, RunType, Typed
    <3> QED
      BY <3>3, <3>4 DEF Phases
  <2>3. CASE run'[r].phase = "over"
    <3>1. Running(r)
      BY <1>4 DEF EngineStep
    <3> QED
      BY <1>0, <2>3, <3>1 DEF LeavesOrphan
  <2>4. CASE run'[r].phase # "over"
    BY <2>2, <2>4 DEF SomeRunning, Running
  <2> QED
    BY <2>3, <2>4
<1>5. ASSUME NEW c \in Callers, StartReset(c) PROVE SomeRunning' \/ orphan'
  BY <1>1, <1>5, StartResetMeans, RunningKept
<1>6. ASSUME NEW c \in Callers, Sweep(c) PROVE SomeRunning' \/ orphan'
  BY <1>0, <1>6, SweepLeaves
<1> QED
  BY <1>0, <1>2, <1>3, <1>4, <1>5, <1>6, StepKinds

\* What was not found is not written while no run is in progress.
LEMMA FoundOutStep == WatchIInv /\ WorldStep => FoundOut'
<1> SUFFICES ASSUME WatchIInv, WorldStep, scan # NoScan, ~grounds'
             PROVE  /\ scan.next > 1 /\ "blocked" \notin scan.found => ~files'.blocked
                    /\ scan.next > 2 /\ "complete" \notin scan.found
                          => files'.complete \notin Runs
                    /\ "task" \in scan.found
                          => {"blocked", "complete"} \cap scan.found # {}
  BY DEF FoundOut, WorldStep
<1>1. ~grounds /\ ~SomeRunning' /\ Typed /\ [Next]_serverVars
  BY DEF WorldStep, WatchIInv
<1>2. ~SomeRunning
  BY <1>1 DEF WatchIInv, Noticed
<1>3. /\ files'.blocked => files.blocked
      /\ files'.complete \in {files.complete, NoFile}
  <2>1. CASE Quiet
    BY <2>1 DEF Quiet
  <2>2. CASE Started
    BY <2>2, <1>1, StartedRuns
  <2>3. ASSUME NEW r \in Runs, EngineStep(r) PROVE FALSE
    BY <1>2, <2>3 DEF EngineStep, SomeRunning
  <2>4. ASSUME NEW c \in Callers, StartReset(c) PROVE files' = files
    BY <1>1, <2>4, StartResetMeans
  <2>5. ASSUME NEW c \in Callers, Sweep(c)
        PROVE  /\ files'.blocked => files.blocked
               /\ files'.complete \in {files.complete, NoFile}
    BY <1>1, <2>5, SweepMeans
  <2> QED
    BY <1>1, <2>1, <2>2, <2>3, <2>4, <2>5, StepKinds
<1>4. NoFile \notin Runs
  BY DEF NoFile, Runs
<1> QED
  BY <1>1, <1>3, <1>4 DEF FoundOut, WatchIInv

\* One read: the next file is found or not.
LEMMA ReadMeans ==
    ASSUME Looked, Read
    PROVE  /\ scan.next \in 1..3 /\ scan # NoScan /\ scan'.next = scan.next + 1
           /\ scan'.next \in 2..4 /\ grounds' = grounds
           /\ scan.next = 1 => scan'.found = scan.found
                                   \cup IF files.blocked THEN {"blocked"} ELSE {}
           /\ scan.next = 2 => \/ scan'.found = scan.found \cup {"complete"}
                               \/ /\ scan'.found = scan.found
                                  /\ files.complete \notin Runs
           /\ scan.next = 3 => scan'.found = scan.found
                                   \cup IF files.task THEN {"task"} ELSE {}
           /\ Looked'
<1>1. /\ DOMAIN ReadOrder = 1..3 /\ ReadOrder[1] = "blocked"
      /\ ReadOrder[2] = "complete" /\ ReadOrder[3] = "task"
  BY DEF ReadOrder
<1>2. scan.next \in 1..3 /\ scan # NoScan
  BY <1>1 DEF Read, NoScan, Looked
<1>3. PICK present \in Present(ReadOrder[scan.next]) :
         scan' = [next |-> scan.next + 1,
                  found |-> IF present THEN scan.found \cup {ReadOrder[scan.next]}
                            ELSE scan.found]
  BY DEF Read
<1>4. /\ scan'.next = scan.next + 1 /\ scan'.next \in 2..4
      /\ scan'.found = IF present THEN scan.found \cup {ReadOrder[scan.next]}
                       ELSE scan.found
  BY <1>2, <1>3
<1>5. ReadOrder[scan.next] \in {"blocked", "complete", "task"}
  BY <1>1, <1>2
<1>6. grounds' = grounds /\ orphan' = orphan
  BY DEF Read
<1>7. Looked'
  BY <1>2, <1>3, <1>5, <1>6 DEF Looked
<1>8. ASSUME scan.next = 1
      PROVE  scan'.found = scan.found \cup IF files.blocked THEN {"blocked"} ELSE {}
  <2>1. present = files.blocked
    BY <1>1, <1>3, <1>8 DEF Present
  <2> QED
    BY <1>1, <1>4, <1>8, <2>1
<1>9. ASSUME scan.next = 2
      PROVE  \/ scan'.found = scan.found \cup {"complete"}
             \/ scan'.found = scan.found /\ files.complete \notin Runs
  <2>1. present \in IF files.complete = StrayFile THEN BOOLEAN
                    ELSE {files.complete # NoFile}
    BY <1>1, <1>3, <1>9 DEF Present
  <2>2. CASE files.complete \in Runs
    <3>1. files.complete # StrayFile /\ files.complete # NoFile
      BY <2>2 DEF NoFile, StrayFile, Runs
    <3>2. present = TRUE
      BY <2>1, <3>1
    <3> QED
      BY <1>1, <1>4, <1>9, <3>2
  <2>3. CASE files.complete \notin Runs
    BY <1>1, <1>4, <1>9, <2>3
  <2> QED
    BY <2>2, <2>3
<1>10. ASSUME scan.next = 3
       PROVE  scan'.found = scan.found \cup IF files.task THEN {"task"} ELSE {}
  <2>1. present = files.task
    BY <1>1, <1>3, <1>10 DEF Present
  <2> QED
    BY <1>1, <1>4, <1>10, <2>1
<1> QED
  BY <1>2, <1>4, <1>6, <1>7, <1>8, <1>9, <1>10

\* A read of the dashboard, and the beginning and the end of a scan.
LEMMA ScanStep ==
    ASSUME WatchIInv, BeginScan \/ Read \/ Render
    PROVE  WatchIInv'
<1>1. /\ run' = run /\ files' = files /\ sweep' = sweep /\ orphan' = orphan
      /\ UNCHANGED serverVars
  BY DEF BeginScan, Read, Render, serverVars, world
<1>2. Typed'
  BY <1>1, TypedStep DEF WatchIInv
<1>3. SomeRunning' <=> SomeRunning
  BY <1>1 DEF SomeRunning, Running
<1>4. Backed' /\ Tidy'
  BY <1>1, <1>3 DEF WatchIInv, Backed, Tidy, SaysRunning
<1>no. NoScan = [next |-> 0, found |-> {}]
  BY DEF NoScan
<1>5. CASE BeginScan
  <2>1. /\ scan' = [next |-> 1, found |-> {}]
        /\ grounds' = (SomeRunning \/ orphan)
    BY <1>5, <1>no DEF BeginScan
  <2>2. scan'.next = 1 /\ scan'.found = {}
    BY <2>1
  <2>3. Looked'
    BY <1>1, <2>1 DEF Looked, WatchIInv, SomeRunning
  <2>4. Noticed'
    BY <1>1, <1>3, <2>1 DEF Noticed
  <2>5. FoundOut'
    BY <2>2 DEF FoundOut
  <2> QED
    BY <1>2, <1>4, <2>3, <2>4, <2>5 DEF WatchIInv
<1>6. CASE Render
  <2>1. scan' = NoScan /\ grounds' = FALSE
    BY <1>6 DEF Render
  <2>2. NoScan \in [next : 0..4, found : SUBSET {"blocked", "complete", "task"}]
    BY <1>no
  <2>3. Looked'
    BY <1>1, <2>1, <2>2 DEF Looked, WatchIInv
  <2> QED
    BY <1>2, <1>4, <2>1, <2>3 DEF WatchIInv, Noticed, FoundOut
<1>7. CASE Read
  <2>1. Looked
    BY DEF WatchIInv
  <2>2. /\ scan.next \in 1..3 /\ scan # NoScan /\ scan'.next = scan.next + 1
        /\ grounds' = grounds /\ Looked'
    BY <1>7, <2>1, ReadMeans
  <2>3. Noticed'
    BY <1>1, <1>3, <2>2 DEF WatchIInv, Noticed
  <2>4. ASSUME ~grounds PROVE ~SaysRunning
    BY <2>2, <2>4 DEF WatchIInv, Noticed, Backed
  <2>5. FoundOut'
    <3> SUFFICES ASSUME ~grounds
                 PROVE  /\ scan'.next > 1 /\ "blocked" \notin scan'.found => ~files.blocked
                        /\ scan'.next > 2 /\ "complete" \notin scan'.found
                              => files.complete \notin Runs
                        /\ "task" \in scan'.found
                              => {"blocked", "complete"} \cap scan'.found # {}
      BY <1>1, <2>2 DEF FoundOut
    <3>1. /\ scan.next > 1 /\ "blocked" \notin scan.found => ~files.blocked
          /\ scan.next > 2 /\ "complete" \notin scan.found
                => files.complete \notin Runs
          /\ "task" \in scan.found
                => {"blocked", "complete"} \cap scan.found # {}
      BY <2>2 DEF FoundOut, WatchIInv
    <3>2. CASE scan.next = 1
      <4>1. /\ scan'.next = 2
            /\ scan'.found = scan.found \cup IF files.blocked THEN {"blocked"} ELSE {}
        BY <1>7, <2>1, <3>2, ReadMeans
      <4> QED
        BY <3>1, <3>2, <4>1
    <3>3. CASE scan.next = 2
      <4>1. /\ scan'.next = 3
            /\ \/ scan'.found = scan.found \cup {"complete"}
               \/ scan'.found = scan.found /\ files.complete \notin Runs
        BY <1>7, <2>1, <3>3, ReadMeans
      <4> QED
        BY <3>1, <3>3, <4>1
    <3>4. CASE scan.next = 3
      <4>1. /\ scan'.next = 4
            /\ scan'.found = scan.found \cup IF files.task THEN {"task"} ELSE {}
        BY <1>7, <2>1, <3>4, ReadMeans
      <4>2. ~files.task \/ files.complete \in Runs \/ files.blocked
        BY <2>4 DEF SaysRunning
      <4> QED
        BY <3>1, <3>4, <4>1, <4>2
    <3> QED
      BY <2>2, <3>2, <3>3, <3>4
  <2> QED
    BY <1>2, <1>4, <2>2, <2>3, <2>5 DEF WatchIInv
<1> QED
  BY <1>5, <1>6, <1>7

\* The inductive invariant behind ExecutionIsReal.
LEMMA WatchInvariant == Spec => []WatchIInv
<1>1. WatchInit => WatchIInv
  <2>1. Init => Typed
    BY DEF Init, Typed, RunType, AnswerType, SweepType, Labels, Phases, Modes,
           NoAnswer, NoSweep, ResetFiles
  <2>2. Init => ~files.task /\ \A c \in Callers : sweep[c].next = 0 /\ ~sweep[c].kept
    BY DEF Init, NoSweep
  <2> QED
    <3> SUFFICES ASSUME WatchInit PROVE WatchIInv
      OBVIOUS
    <3>1. /\ Init /\ scan = [next |-> 0, found |-> {}] /\ scan = NoScan
          /\ grounds = FALSE /\ orphan = FALSE
      BY DEF WatchInit, NoScan
    <3>2. scan \in [next : 0..4, found : SUBSET {"blocked", "complete", "task"}]
      <4>1. 0 \in 0..4 /\ {} \in SUBSET {"blocked", "complete", "task"}
        OBVIOUS
      <4>2. scan = [next |-> 0, found |-> {}]
        BY <3>1
      <4> QED
        BY <4>1, <4>2
    <3>3. Looked
      BY <3>1, <3>2 DEF Looked
    <3>4. Backed /\ Tidy
      BY <2>2, <3>1 DEF Backed, Tidy, SaysRunning
    <3> QED
      BY <2>1, <3>1, <3>3, <3>4 DEF WatchIInv, Noticed, FoundOut
<1>2. WatchIInv /\ [WatchNext]_vars => WatchIInv'
  <2>1. ASSUME WatchIInv, WorldStep PROVE WatchIInv'
    <3>1. Typed' /\ Backed' /\ Tidy' /\ FoundOut'
      BY <2>1, TypedStep, BackedStep, TidyStep, FoundOutStep DEF WatchIInv, WorldStep
    <3>2. Noticed'
      BY <2>1 DEF WorldStep, Noticed
    <3>3. Looked'
      BY <2>1, <3>1 DEF WatchIInv, Looked, WorldStep, SomeRunning, Typed
    <3> QED
      BY <3>1, <3>2, <3>3 DEF WatchIInv
  <2>2. ASSUME WatchIInv, UNCHANGED vars PROVE WatchIInv'
    <3>1. Typed'
      BY <2>2, TypedStep DEF vars, WatchIInv
    <3>2. (SomeRunning' <=> SomeRunning) /\ (SaysRunning' <=> SaysRunning)
      BY <2>2 DEF vars, serverVars, world, SomeRunning, Running, SaysRunning
    <3> QED
      BY <2>2, <3>1, <3>2
      DEF vars, watchVars, serverVars, world, WatchIInv, Looked, Backed, Tidy, Noticed, FoundOut
  <2> QED
    BY <2>1, <2>2, ScanStep DEF WatchNext
<1> QED
  BY <1>1, <1>2, PTL DEF Spec

\* The dashboard writes nothing the server reads: beside it the server is what
\* it is alone, and what is proved of ServerSpec holds of the two together.
THEOREM WatchedServer == Spec => ServerSpec
<1>1. WatchInit => Init
  BY DEF WatchInit
<1>2. [WatchNext]_vars => [Next]_serverVars
  BY DEF WatchNext, vars, WorldStep, BeginScan, Read, Render
<1> QED
  BY <1>1, <1>2, PTL DEF Spec, ServerSpec

\* _read_engine_state reads BLOCKED.md, .complete and then task.md, and
\* --mode reset removes task.md first: "Loop execution" is shown only of a run
\* that was in progress during the scan, or of a task.md left without one.
THEOREM WatchExecutionIsReal == Spec => []ExecutionIsReal
<1>1. ASSUME WatchIInv, Scanned, Status = "running" PROVE grounds
  <2>1. Len(ReadOrder) = 3
    BY DEF ReadOrder
  <2>2. scan.next = 4
    BY <1>1, <2>1 DEF Scanned
  <2>3. scan # NoScan
    BY <2>2 DEF NoScan
  <2>4. /\ "task" \in scan.found /\ "blocked" \notin scan.found
        /\ "complete" \notin scan.found
    BY <1>1 DEF Status
  <2> QED
    BY <1>1, <2>2, <2>3, <2>4 DEF WatchIInv, FoundOut, Looked
<1>2. Phase = "Loop execution" => Status = "running"
  BY Zenon DEF Phase
<1>3. WatchIInv => ExecutionIsReal
  BY <1>1, <1>2, Zenon DEF ExecutionIsReal
<1> QED
  BY <1>3, WatchInvariant, PTL
=============================================================================
