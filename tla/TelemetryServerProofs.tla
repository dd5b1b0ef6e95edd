------------------------- MODULE TelemetryServerProofs -------------------------
(* Theorems about TelemetryServer, for any number of request threads. *)
EXTENDS TelemetryServer, TLAPS

\* What the proofs need of the types.
ThreadTypes ==
    /\ main \in LoopLabels \cup StopLabels \cup {"exited"}
    /\ snapshot \in Nat /\ committed \in Nat /\ view \in Nat /\ faults \in Nat
    /\ committed <= view /\ view <= snapshot
    /\ lock \in Handlers \cup {Main, NoOne}
    /\ connOpen \in BOOLEAN /\ closed \in BOOLEAN
    /\ at \in [Handlers -> {"idle", "read", "check", "lock", "query", "send"}]
    /\ kind \in [Handlers -> {"telemetry", "history"}]
    /\ series \in [Handlers -> Seq(Int)]

\* The lock is held exactly by the thread inside its critical section.
LockHeld ==
    /\ lock = Main <=> main \in {"execute", "commit"}
    /\ \A h \in Handlers : lock = h <=> at[h] = "query"

\* The store is open as long as the loop runs, and closes in two steps.
StoreOpen ==
    /\ closed => main \in {"closeConn", "disconnect", "exited"}
    /\ main = "closeConn" => closed
    /\ ~connOpen => closed /\ main \in {"disconnect", "exited"}

\* Between the operations of the loop nothing is pending, but for errors.
NothingPending ==
    main \in {"poll", "check", "execute"} /\ faults = 0 => view = committed

\* A request that still gathers is one for the history and is not complete.
Gathering ==
    \A h \in Handlers :
        /\ at[h] = "idle" => series[h] = <<>>
        /\ at[h] = "read" => kind[h] = "telemetry"
        /\ at[h] \in {"check", "lock", "query"} =>
              kind[h] = "history" /\ Len(series[h]) < SeriesCount

\* The inductive invariant of the threads.
ServerIInv ==
    ThreadTypes /\ LockHeld /\ StoreOpen /\ NothingPending /\ Gathering

-----------------------------------------------------------------------------
\* The lock's holders have different names.
LEMMA HoldersDiffer ==
    Main # NoOne /\ Main \notin Handlers /\ NoOne \notin Handlers
BY ServerAssumption DEF Main, NoOne

\* The invariant holds when the threads start.
LEMMA ServerInit == Init => ServerIInv
<1> SUFFICES ASSUME Init PROVE ServerIInv
  OBVIOUS
<1>1. ThreadTypes
  <2>1. series \in [Handlers -> Seq(Int)]
    BY DEF Init
  <2>2. connOpen \in BOOLEAN /\ closed \in BOOLEAN
    BY DEF Init
  <2> QED
    BY <2>1, <2>2 DEF Init, ThreadTypes, LoopLabels
<1>2. LockHeld
  BY HoldersDiffer DEF Init, LockHeld
<1>3. StoreOpen /\ NothingPending /\ Gathering
  BY ServerAssumption DEF Init, StoreOpen, NothingPending, Gathering
<1> QED
  BY <1>1, <1>2, <1>3 DEF ServerIInv

\* Every step of every thread keeps the types.
LEMMA TypesStep ==
    ASSUME ServerIInv, [Next]_vars
    PROVE  ThreadTypes'
<1> USE HoldersDiffer DEF ServerIInv, ThreadTypes, LoopLabels, StopLabels
<1>1. CASE Publish \/ MainLocks \/ Execute \/ CommitVersion
  BY <1>1 DEF Publish, MainLocks, Execute, CommitVersion, storeVars, handlerVars
<1>2. CASE OperationFails
  BY <1>2 DEF OperationFails, handlerVars
<1>3. CASE Interrupt
  BY <1>3 DEF Interrupt, handlerVars
<1>4. CASE InterruptAgain
  BY <1>4 DEF InterruptAgain, storeVars, handlerVars
<1>5. CASE Finally
  <2>1. CASE SetClosed \/ CloseConnection
    <3>1. closed' \in BOOLEAN /\ connOpen' \in BOOLEAN
      BY <2>1 DEF SetClosed, CloseConnection
    <3> QED
      BY <2>1, <3>1 DEF SetClosed, CloseConnection, handlerVars
  <2>2. CASE RequestShutdown \/ ServerClosed \/ Exit
    BY <2>2 DEF RequestShutdown, ServerClosed, Exit, storeVars, handlerVars
  <2> QED
    BY <1>5, <2>1, <2>2 DEF Finally
<1>6. CASE ListenerExits \/ UNCHANGED vars
  BY <1>6 DEF ListenerExits, vars, mainVars, storeVars, handlerVars
<1>7. ASSUME NEW h \in Handlers, Accept(h)
      PROVE  ThreadTypes'
  BY <1>7 DEF Accept, mainVars, storeVars
<1>8. ASSUME NEW h \in Handlers, ReadSnapshot(h)
      PROVE  ThreadTypes'
  <2>1. <<snapshot>> \in Seq(Int)
    OBVIOUS
  <2> QED
    BY <1>8, <2>1 DEF ReadSnapshot, mainVars, storeVars
<1>9. ASSUME NEW h \in Handlers, LockStore(h)
      PROVE  ThreadTypes'
  BY <1>9 DEF LockStore, mainVars
<1>10. ASSUME NEW h \in Handlers, Respond(h)
       PROVE  ThreadTypes'
  <2>1. <<>> \in Seq(Int)
    OBVIOUS
  <2> QED
    BY <1>10, <2>1 DEF Respond, mainVars, storeVars
<1>11. ASSUME NEW h \in Handlers, NEW value \in Int, Gather(h, value)
       PROVE  /\ at' \in [Handlers -> {"idle", "read", "check", "lock", "query",
                                       "send"}]
              /\ series' \in [Handlers -> Seq(Int)]
              /\ kind' = kind
  <2>1. Append(series[h], value) \in Seq(Int)
    BY <1>11
  <2> QED
    BY <1>11, <2>1 DEF Gather
<1>12. ASSUME NEW h \in Handlers, CheckStore(h)
       PROVE  ThreadTypes'
  <2>1. CASE Gather(h, Empty)
    BY <1>11, <1>12, <2>1 DEF CheckStore, mainVars, storeVars, Empty
  <2>2. CASE at' = [at EXCEPT ![h] = "lock"] /\ UNCHANGED <<kind, series>>
    BY <1>12, <2>2 DEF CheckStore, mainVars, storeVars
  <2> QED
    BY <1>12, <2>1, <2>2 DEF CheckStore
<1>13. ASSUME NEW h \in Handlers, Query(h)
       PROVE  ThreadTypes'
  <2>1. Gather(h, view) \/ Gather(h, Empty)
    BY <1>13 DEF Query
  <2> QED
    BY <1>11, <1>13, <2>1 DEF Query, mainVars, Empty
<1>14. ASSUME NEW h \in Handlers, QueryFails(h)
       PROVE  ThreadTypes'
  BY <1>11, <1>14 DEF QueryFails, mainVars, Empty
<1> QED
  BY <1>1, <1>2, <1>3, <1>4, <1>5, <1>6, <1>7, <1>8, <1>9, <1>10, <1>12, <1>13,
     <1>14 DEF Next, Serve

\* A step of one request thread either is about its critical section, or leaves
\* the lock and every thread's being there alone.
LEMMA HandlerLockStep ==
    ASSUME ServerIInv, NEW h \in Handlers,
           Accept(h) \/ Serve(h) \/ QueryFails(h) \/ Respond(h)
    PROVE  LockHeld'
<1> USE HoldersDiffer DEF ServerIInv, ThreadTypes, LockHeld
<1>1. main' = main
  BY DEF Accept, Serve, ReadSnapshot, CheckStore, LockStore, Query, QueryFails,
         Respond, mainVars
<1>2. CASE LockStore(h)
  BY <1>1, <1>2 DEF LockStore
<1>3. CASE Query(h) \/ QueryFails(h)
  <2>1. lock = h /\ lock' = NoOne
    BY <1>3 DEF Query, QueryFails
  <2>2. \E l \in {"send", "check"} : at' = [at EXCEPT ![h] = l]
    BY <1>3 DEF Query, QueryFails, Gather
  <2> QED
    BY <1>1, <2>1, <2>2
<1>4. CASE Accept(h) \/ ReadSnapshot(h) \/ CheckStore(h) \/ Respond(h)
  <2>1. lock' = lock /\ at[h] # "query"
    BY <1>4 DEF Accept, ReadSnapshot, CheckStore, Respond, storeVars
  <2>2. \E l \in {"idle", "send", "check", "lock", "read"} :
           at' = [at EXCEPT ![h] = l]
    BY <1>4 DEF Accept, ReadSnapshot, CheckStore, Respond, Gather
  <2> QED
    BY <1>1, <2>1, <2>2
<1> QED
  BY <1>2, <1>3, <1>4 DEF Serve

\* Every step keeps the lock with the thread in its critical section.
LEMMA LockStep ==
    ASSUME ServerIInv, [Next]_vars
    PROVE  LockHeld'
<1> USE HoldersDiffer
    DEF ServerIInv, ThreadTypes, LockHeld, LoopLabels, StopLabels
<1>1. CASE Publish \/ MainLocks \/ Execute \/ CommitVersion
  BY <1>1 DEF Publish, MainLocks, Execute, CommitVersion, storeVars, handlerVars
<1>2. CASE OperationFails
  BY <1>2 DEF OperationFails, handlerVars
<1>3. CASE Interrupt
  BY <1>3 DEF Interrupt, handlerVars
<1>4. CASE InterruptAgain
  BY <1>4 DEF InterruptAgain, storeVars, handlerVars
<1>5. CASE Finally
  BY <1>5 DEF Finally, RequestShutdown, ServerClosed, SetClosed,
              CloseConnection, Exit, storeVars, handlerVars
<1>6. CASE ListenerExits \/ UNCHANGED vars
  BY <1>6 DEF ListenerExits, vars, mainVars, storeVars, handlerVars
<1> QED
  BY <1>1, <1>2, <1>3, <1>4, <1>5, <1>6, HandlerLockStep DEF Next

\* Only the main thread opens, closes or changes the store.
LEMMA StoreStep ==
    ASSUME ServerIInv, [Next]_vars
    PROVE  StoreOpen' /\ NothingPending'
<1> USE DEF ServerIInv, ThreadTypes, StoreOpen, NothingPending, LoopLabels,
            StopLabels
<1>1. CASE Publish \/ MainLocks \/ Execute \/ CommitVersion
  BY <1>1 DEF Publish, MainLocks, Execute, CommitVersion, storeVars, handlerVars
<1>2. CASE OperationFails \/ Interrupt \/ InterruptAgain
  BY <1>2 DEF OperationFails, Interrupt, InterruptAgain, storeVars, handlerVars
<1>3. CASE Finally
  BY <1>3 DEF Finally, RequestShutdown, ServerClosed, SetClosed,
              CloseConnection, Exit, storeVars, handlerVars
<1>4. CASE ListenerExits \/ UNCHANGED vars
  BY <1>4 DEF ListenerExits, vars, mainVars, storeVars, handlerVars
<1>5. ASSUME NEW h \in Handlers, Accept(h) \/ Serve(h) \/ QueryFails(h) \/ Respond(h)
      PROVE  StoreOpen' /\ NothingPending'
  BY <1>5 DEF Accept, Serve, ReadSnapshot, CheckStore, LockStore, Query,
              QueryFails, Respond, mainVars, storeVars
<1> QED
  BY <1>1, <1>2, <1>3, <1>4, <1>5 DEF Next

\* A request gathers one series at a time and stops when it has them all.
LEMMA GatheringStep ==
    ASSUME ServerIInv, [Next]_vars
    PROVE  Gathering'
<1> USE ServerAssumption DEF ServerIInv, ThreadTypes, Gathering
<1>1. CASE UNCHANGED handlerVars
  BY <1>1 DEF handlerVars
<1>2. ASSUME NEW h \in Handlers, Accept(h) \/ ReadSnapshot(h) \/ LockStore(h)
                                 \/ Respond(h)
      PROVE  Gathering'
  BY <1>2 DEF Accept, ReadSnapshot, LockStore, Respond
<1>3. ASSUME NEW h \in Handlers, NEW value \in Int, Gather(h, value),
             at[h] \in {"check", "query"}
      PROVE  Gathering'
  <2>1. /\ Len(series[h]) \in Nat /\ Len(series[h]) < SeriesCount
        /\ series'[h] = Append(series[h], value)
        /\ Len(series'[h]) = Len(series[h]) + 1
    BY <1>3 DEF Gather
  <2> QED
    BY <1>3, <2>1 DEF Gather
<1>4. ASSUME NEW h \in Handlers, CheckStore(h) \/ Query(h) \/ QueryFails(h)
      PROVE  Gathering'
  BY <1>3, <1>4 DEF CheckStore, Query, QueryFails, Empty
<1> QED
  BY <1>1, <1>2, <1>4
     DEF Next, Serve, Publish, MainLocks, Execute, CommitVersion, OperationFails,
         Interrupt, InterruptAgain, Finally, RequestShutdown, ServerClosed,
         SetClosed, CloseConnection, Exit, ListenerExits, vars

\* So it holds in every state.
LEMMA ServerInvariant == Spec => []ServerIInv
<1>1. ServerIInv /\ [Next]_vars => ServerIInv'
  BY TypesStep, LockStep, StoreStep, GatheringStep DEF ServerIInv
<1> QED
  BY ServerInit, <1>1, PTL DEF Spec

-----------------------------------------------------------------------------
\* As long as the loop runs and no operation has failed, no request reads an
\* open transaction, whatever the number of request threads.
THEOREM NoDirtyReads == Spec => []NoDirtyRead
<1>1. ServerIInv => NoDirtyRead
  BY ServerAssumption
     DEF ServerIInv, ThreadTypes, LockHeld, NothingPending, NoDirtyRead,
         LoopLabels
<1> QED
  BY <1>1, ServerInvariant, PTL

-----------------------------------------------------------------------------
\* The abstract response of a request.
Gathered == [h \in Handlers |-> IF kind[h] = "history" THEN series[h] ELSE <<>>]

\* A step that neither moves the lock nor touches the store or a response.
LEMMA UnseenStep ==
    ASSUME UNCHANGED <<lock, connOpen, closed, committed, view, faults>>,
           Gathered' = Gathered
    PROVE  UNCHANGED Service!serviceVars
BY DEF Gathered, Service!serviceVars

\* One more series for one request is one atomic read of the service.
LEMMA GatherIsRead ==
    ASSUME ServerIInv, NEW h \in Handlers, NEW value, Gather(h, value),
           at[h] \in {"check", "query"},
           UNCHANGED <<connOpen, closed, committed, view>>, main' = main,
           lock' = lock \/ (lock # Main /\ lock' # Main),
           faults' >= faults,  faults' \in Nat,
           \/ value = view /\ connOpen /\ lock # Main
           \/ value = Empty /\ (closed \/ faults' > 0)
    PROVE  Service!Read(h)
<1> USE DEF ServerIInv, ThreadTypes, StoreOpen
<1>1. /\ Gathered[h] = series[h]
      /\ Len(Gathered[h]) < SeriesCount
  BY DEF Gathered, Gathering
<1>2. Gathered' = [Gathered EXCEPT ![h] = Append(@, value)]
  BY <1>1 DEF Gathered, Gather, Gathering
<1>3. faults > 0 => faults' > 0
  OBVIOUS
<1> QED
  BY <1>1, <1>2, <1>3, HoldersDiffer
     DEF Gathered, Service!Read, Service!MayFail, Service!Empty, Empty

\* Every step of the threads is a step of the service or invisible to it.
LEMMA StepIsServiceStep ==
    ASSUME ServerIInv, [Next]_vars
    PROVE  [Service!ServiceNext]_(Service!serviceVars)
<1> USE HoldersDiffer DEF ServerIInv, ThreadTypes, LockHeld, StoreOpen
<1>1. CASE Publish \/ RequestShutdown \/ ServerClosed \/ Exit \/ InterruptAgain
           \/ ListenerExits \/ UNCHANGED vars
  BY <1>1, UnseenStep
     DEF Publish, RequestShutdown, ServerClosed, Exit, InterruptAgain,
         ListenerExits, vars, mainVars, storeVars, handlerVars, Gathered
<1>2. CASE MainLocks
  <2>1. lock # Main /\ lock' = Main /\ UNCHANGED <<connOpen, closed, faults,
             committed, view, kind, series>> /\ connOpen /\ ~closed
    BY <1>2 DEF MainLocks, handlerVars
  <2>2. faults = 0 => view = committed
    BY <1>2 DEF MainLocks, NothingPending
  <2> QED
    BY <2>1, <2>2 DEF Service!ServiceNext, Service!Change, Service!MayFail,
                      Service!serviceVars
<1>3. CASE Execute
  BY <1>3 DEF Execute, handlerVars, Service!serviceVars
<1>4. CASE CommitVersion
  <2>1. lock = Main /\ lock' = NoOne /\ view' = view /\ committed' = view
        /\ UNCHANGED <<connOpen, closed, faults, kind, series>> /\ connOpen
    BY <1>4 DEF CommitVersion, handlerVars
  <2> QED
    BY <2>1 DEF Service!ServiceNext, Service!Change, Service!MayFail,
                Service!serviceVars
<1>5. CASE OperationFails
  <2>1. lock = Main /\ lock' = NoOne /\ view' \in Nat /\ faults' > 0
        /\ UNCHANGED <<connOpen, closed, kind, series>> /\ connOpen
    BY <1>5 DEF OperationFails, handlerVars
  <2> QED
    BY <2>1 DEF Service!ServiceNext, Service!Change, Service!MayFail,
                Service!serviceVars
<1>6. CASE Interrupt
  <2>1. (lock = Main \/ lock' = lock) /\ lock' # Main /\ connOpen
        /\ UNCHANGED <<connOpen, closed, faults, committed, view, kind, series>>
    BY <1>6 DEF Interrupt, handlerVars, LoopLabels
  <2> QED
    BY <2>1 DEF Service!ServiceNext, Service!Change, Service!MayFail,
                Service!serviceVars
<1>7. CASE SetClosed
  <2>1. closed' /\ ~closed /\ connOpen /\ lock # Main
        /\ UNCHANGED <<lock, connOpen, faults, committed, view, kind, series>>
    BY <1>7 DEF SetClosed, handlerVars
  <2> QED
    BY <2>1 DEF Service!ServiceNext, Service!Closing, Service!serviceVars
<1>8. CASE CloseConnection
  <2>1. closed /\ connOpen /\ ~connOpen' /\ lock # Main /\ view' \in Nat
        /\ UNCHANGED <<lock, closed, faults, committed, kind, series>>
    BY <1>8 DEF CloseConnection, handlerVars
  <2> QED
    BY <2>1 DEF Service!ServiceNext, Service!Closed, Service!serviceVars
<1>9. ASSUME NEW h \in Handlers, Accept(h) \/ ReadSnapshot(h)
      PROVE  UNCHANGED Service!serviceVars
  <2>1. Gathered' = Gathered
    BY <1>9 DEF Accept, ReadSnapshot, Gathered, Gathering
  <2> QED
    BY <1>9, <2>1, UnseenStep DEF Accept, ReadSnapshot, storeVars
<1>10. ASSUME NEW h \in Handlers, LockStore(h)
       PROVE  UNCHANGED Service!serviceVars
  <2>1. lock # Main /\ lock' # Main
    BY <1>10 DEF LockStore
  <2> QED
    BY <1>10, <2>1 DEF LockStore, Service!serviceVars
<1>11. ASSUME NEW h \in Handlers, Respond(h)
       PROVE  Service!Finish(h)
  <2>1. Gathered' = [Gathered EXCEPT ![h] = <<>>]
    BY <1>11 DEF Respond, Gathered
  <2> QED
    BY <1>11, <2>1 DEF Respond, storeVars, Gathered, Service!Finish
<1>12. ASSUME NEW h \in Handlers, CheckStore(h)
       PROVE  Service!Read(h) \/ UNCHANGED Service!serviceVars
  <2>1. CASE Gather(h, Empty) /\ closed
    BY <1>12, <2>1, GatherIsRead DEF CheckStore, mainVars, storeVars
  <2>2. CASE UNCHANGED <<kind, series>>
    BY <1>12, <2>2, UnseenStep DEF CheckStore, storeVars, Gathered
  <2> QED
    BY <1>12, <2>1, <2>2 DEF CheckStore
<1>13. ASSUME NEW h \in Handlers, Query(h) \/ QueryFails(h)
       PROVE  Service!Read(h)
  <2>1. lock = h /\ lock # Main /\ lock' # Main
    BY <1>13 DEF Query, QueryFails
  <2>2. CASE Query(h) /\ connOpen
    BY <2>1, <2>2, GatherIsRead DEF Query, mainVars
  <2>3. CASE Query(h) /\ ~connOpen
    BY <2>1, <2>3, GatherIsRead DEF Query, mainVars
  <2>4. CASE QueryFails(h)
    BY <2>1, <2>4, GatherIsRead DEF QueryFails, mainVars
  <2> QED
    BY <1>13, <2>2, <2>3, <2>4
<1>14. CASE \E h \in Handlers : Accept(h) \/ Serve(h) \/ QueryFails(h) \/ Respond(h)
  BY <1>9, <1>10, <1>11, <1>12, <1>13, <1>14 DEF Serve, Service!ServiceNext
<1> QED
  BY <1>1, <1>2, <1>3, <1>4, <1>5, <1>6, <1>7, <1>8, <1>14 DEF Next, Finally

\* The initial states correspond.
LEMMA InitIsServiceInit == Init => Service!ServiceInit
BY HoldersDiffer DEF Init, Service!ServiceInit

\* However many threads share the connection, a response is put together from
\* atomic reads of one register: the lock of TimeSeriesStore suffices, although
\* each operation tests _conn and _closed before it takes it.
THEOREM ServiceRefinement == Spec => ImplementsService
<1>1. ServerIInv /\ [Next]_vars => [Service!ServiceNext]_(Service!serviceVars)
  BY StepIsServiceStep
<1>2. Spec => Service!ServiceInit /\ [][Service!ServiceNext]_(Service!serviceVars)
  BY InitIsServiceInit, <1>1, ServerInvariant, PTL DEF Spec
<1> QED
  BY <1>2 DEF ImplementsService, Service!ServiceSpec

-----------------------------------------------------------------------------
(* The rest of the type of the state: the bounds on what is counted, and     *)
(* what a response may hold.                                                 *)

Value == Nat \cup {Empty}

\* The listener and the counters stay in range.
Counted ==
    /\ listener \in {"serving", "exited"}
    /\ shutdownRequested \in BOOLEAN
    /\ snapshot \in 0..MaxPolls
    /\ faults \in 0..MaxFaults

\* A response is made of snapshots, versions and empty series, and never of
\* more series than were asked for.
ResponseTyped ==
    /\ series \in [Handlers -> Seq(Value)]
    /\ \A h \in Handlers : Len(series[h]) <= SeriesCount

\* Only the poll loop and the failures of the store count, each to its bound.
LEMMA CountedStep ==
    ASSUME ServerIInv, Counted, [Next]_vars
    PROVE  Counted'
<1> USE ServerAssumption DEF Counted
<1>1. CASE Publish
  BY <1>1 DEF Publish, storeVars
<1>2. CASE OperationFails
  BY <1>2 DEF OperationFails
<1>3. CASE RequestShutdown
  <2>1. shutdownRequested' \in BOOLEAN
    BY <1>3 DEF RequestShutdown
  <2> QED
    BY <1>3, <2>1 DEF RequestShutdown, storeVars
<1>4. CASE ListenerExits
  BY <1>4 DEF ListenerExits, storeVars
<1>5. CASE \E h \in Handlers : QueryFails(h)
  BY <1>5 DEF QueryFails, mainVars
<1>6. CASE UNCHANGED <<listener, shutdownRequested, snapshot, faults>>
  BY <1>6
<1> QED
  BY <1>1, <1>2, <1>3, <1>4, <1>5, <1>6
     DEF Next, MainLocks, Execute, CommitVersion, Interrupt, InterruptAgain,
         Finally, ServerClosed, SetClosed, CloseConnection, Exit, Accept, Serve,
         ReadSnapshot, CheckStore, LockStore, Query, Respond, vars, mainVars,
         storeVars

\* A request thread appends to its own response only, and only while it is
\* short of series.
LEMMA ResponseStep ==
    ASSUME ServerIInv, ResponseTyped, [Next]_vars
    PROVE  ResponseTyped'
<1> USE DEF ResponseTyped
<1>0. /\ view \in Value /\ snapshot \in Value /\ Empty \in Value
      /\ SeriesCount \in Nat \ {0}
  BY ServerAssumption DEF ServerIInv, ThreadTypes, Value
<1>1. CASE series' = series
  BY <1>1
<1>2. ASSUME NEW h \in Handlers, NEW s \in Seq(Value), Len(s) <= SeriesCount,
             series' = [series EXCEPT ![h] = s]
      PROVE  ResponseTyped'
  BY <1>2
<1>3. ASSUME NEW h \in Handlers, ReadSnapshot(h)
      PROVE  ResponseTyped'
  <2>1. <<snapshot>> \in Seq(Value) /\ Len(<<snapshot>>) <= SeriesCount
    BY <1>0
  <2> QED
    BY <1>2, <1>3, <2>1 DEF ReadSnapshot
<1>4. ASSUME NEW h \in Handlers, NEW value \in Value, Gather(h, value),
             at[h] \in {"check", "query"}
      PROVE  ResponseTyped'
  <2>1. Len(series[h]) < SeriesCount /\ Len(series[h]) \in Nat
    BY <1>4 DEF ServerIInv, Gathering
  <2>2. /\ Append(series[h], value) \in Seq(Value)
        /\ Len(Append(series[h], value)) = Len(series[h]) + 1
    BY <1>4
  <2>3. Len(Append(series[h], value)) <= SeriesCount
    BY <1>0, <2>1, <2>2
  <2> QED
    BY <1>2, <1>4, <2>2, <2>3 DEF Gather
<1>5. ASSUME NEW h \in Handlers, CheckStore(h) \/ Query(h) \/ QueryFails(h)
      PROVE  ResponseTyped'
  BY <1>0, <1>1, <1>4, <1>5 DEF CheckStore, Query, QueryFails
<1>6. ASSUME NEW h \in Handlers, Respond(h)
      PROVE  ResponseTyped'
  <2>1. <<>> \in Seq(Value) /\ Len(<<>>) <= SeriesCount
    BY <1>0
  <2> QED
    BY <1>2, <1>6, <2>1 DEF Respond
<1> QED
  BY <1>1, <1>3, <1>5, <1>6
     DEF Next, Publish, MainLocks, Execute, CommitVersion, OperationFails,
         Interrupt, InterruptAgain, Finally, RequestShutdown, ServerClosed,
         SetClosed, CloseConnection, Exit, ListenerExits, Accept, Serve,
         LockStore, vars, mainVars, storeVars, handlerVars

\* The threads' state has its types, for any number of threads; in particular
\* neither the committed nor the visible tables are ahead of the polls, and no
\* request gathers a series too many.
THEOREM ServerTypeCorrect == Spec => []TypeOK
<1>1. Init => Counted /\ ResponseTyped
  <2> SUFFICES ASSUME Init PROVE Counted /\ ResponseTyped
    OBVIOUS
  <2>1. Counted
    <3>1. shutdownRequested \in BOOLEAN
      BY DEF Init
    <3> QED
      BY <3>1, ServerAssumption DEF Init, Counted
  <2>2. <<>> \in Seq(Value) /\ Len(<<>>) <= SeriesCount
    BY ServerAssumption
  <2> QED
    BY <2>1, <2>2 DEF Init, ResponseTyped
<1>2. /\ ServerIInv /\ Counted /\ [Next]_vars => Counted'
      /\ ServerIInv /\ ResponseTyped /\ [Next]_vars => ResponseTyped'
  BY CountedStep, ResponseStep
<1>3. ASSUME ServerIInv, Counted, ResponseTyped PROVE TypeOK
  <2>1. committed \in 0..snapshot /\ view \in 0..snapshot
    BY <1>3 DEF ServerIInv, ThreadTypes
  <2>2. ASSUME NEW h \in Handlers, NEW i \in 1..Len(series[h])
        PROVE  series[h][i] \in Nat \cup {Empty}
    BY <1>3 DEF ResponseTyped, Value
  <2>3. connOpen \in BOOLEAN /\ closed \in BOOLEAN /\ shutdownRequested \in BOOLEAN
    BY <1>3 DEF ServerIInv, ThreadTypes, Counted
  <2>4. /\ listener \in {"serving", "exited"}
        /\ snapshot \in 0..MaxPolls /\ faults \in 0..MaxFaults
    BY <1>3 DEF Counted
  <2>5. ASSUME NEW h \in Handlers
        PROVE  Len(series[h]) <= SeriesCount
    BY <1>3 DEF ResponseTyped
  <2> QED
    BY <1>3, <2>1, <2>2, <2>3, <2>4, <2>5 DEF ServerIInv, ThreadTypes, TypeOK
<1> QED
  BY <1>1, <1>2, <1>3, ServerInvariant, PTL DEF Spec

-----------------------------------------------------------------------------
\* The end of the process: what ShutdownCompletes comes to without fairness.

\* The steps of the finally block that are left.
Remaining ==
    CASE main = "stopping" -> 5
      [] main = "awaitListener" -> 4
      [] main = "setClosed" -> 3
      [] main = "closeConn" -> 2
      [] main = "disconnect" -> 1
      [] main = "exited" -> 0

\* stop() waits for a listener that has been told to leave or has left, and
\* close() for a request that is in its query, which waits for nothing.
WaitsForOne ==
    /\ main = "awaitListener" => listener = "exited" \/ shutdownRequested
    /\ main = "closeConn" =>
          lock = NoOne \/ \E h \in Handlers : lock = h /\ at[h] = "query"

\* The requests that may still take the lock before close() does.
Waiting == {h \in Handlers : at[h] = "lock"}

\* The flag of shutdown() stays set.
Told == main = "awaitListener" => shutdownRequested

\* Every step keeps that.
LEMMA ToldStep == ASSUME Told, [Next]_vars PROVE Told'
<1> USE DEF Told
<1>1. CASE Publish \/ MainLocks \/ Execute \/ CommitVersion \/ OperationFails
  BY <1>1 DEF Publish, MainLocks, Execute, CommitVersion, OperationFails
<1>2. CASE Interrupt \/ InterruptAgain \/ Finally
  BY <1>2 DEF Interrupt, InterruptAgain, Finally, RequestShutdown, ServerClosed, SetClosed,
              CloseConnection, Exit
<1>3. CASE ListenerExits \/ UNCHANGED vars
  BY <1>3 DEF ListenerExits, vars, mainVars
<1>4. ASSUME NEW h \in Handlers, Accept(h) \/ Serve(h) \/ QueryFails(h) \/ Respond(h)
      PROVE  Told'
  BY <1>4 DEF Accept, Serve, ReadSnapshot, CheckStore, LockStore, Query, QueryFails,
              Respond, mainVars
<1> QED
  BY <1>1, <1>2, <1>3, <1>4 DEF Next

\* A thread in the finally block goes forward in it or leaves it.
LEMMA RemainingStep ==
    ASSUME Next, main \in StopLabels \cup {"exited"}, main' # main
    PROVE  Remaining' < Remaining
<1> USE DEF StopLabels, LoopLabels, Remaining
<1>1. CASE Publish \/ MainLocks \/ Execute \/ CommitVersion \/ OperationFails
  BY <1>1 DEF Publish, MainLocks, Execute, CommitVersion, OperationFails
<1>2. CASE Interrupt \/ InterruptAgain
  BY <1>2 DEF Interrupt, InterruptAgain
<1>3. CASE Finally
  BY <1>3 DEF Finally, RequestShutdown, ServerClosed, SetClosed, CloseConnection, Exit
<1>4. CASE ListenerExits
  BY <1>4 DEF ListenerExits
<1>5. ASSUME NEW h \in Handlers, Accept(h) \/ Serve(h) \/ QueryFails(h) \/ Respond(h)
      PROVE  main' = main
  BY <1>5 DEF Accept, Serve, ReadSnapshot, CheckStore, LockStore, Query, QueryFails,
              Respond, mainVars
<1> QED
  BY <1>1, <1>2, <1>3, <1>4, <1>5 DEF Next

\* Once the store is marked closed nobody joins those who wait for the lock,
\* and who takes it was one of them.
LEMMA WaitingStep ==
    ASSUME ServerIInv, Next, closed
    PROVE  /\ Waiting' \subseteq Waiting
           /\ lock' \notin {lock, NoOne} => lock' \in Waiting \ Waiting'
<1> USE DEF ServerIInv, ThreadTypes, Waiting
<1>1. main \in {"closeConn", "disconnect", "exited"}
  BY DEF StoreOpen
<1>2. CASE Publish \/ MainLocks \/ Execute \/ CommitVersion \/ OperationFails \/ Interrupt
  BY <1>1, <1>2 DEF Publish, MainLocks, Execute, CommitVersion, OperationFails, Interrupt,
                    LoopLabels
<1>3. CASE InterruptAgain \/ Finally \/ ListenerExits
  BY <1>3 DEF InterruptAgain, Finally, RequestShutdown, ServerClosed, SetClosed,
              CloseConnection, Exit, ListenerExits, storeVars, handlerVars
<1>4. ASSUME NEW h \in Handlers, Accept(h) \/ ReadSnapshot(h) \/ Respond(h)
      PROVE  Waiting' \subseteq Waiting /\ lock' = lock
  BY <1>4 DEF Accept, ReadSnapshot, Respond, storeVars
<1>5. ASSUME NEW h \in Handlers, CheckStore(h)
      PROVE  Waiting' \subseteq Waiting /\ lock' = lock
  BY <1>5 DEF CheckStore, Gather, storeVars
<1>6. ASSUME NEW h \in Handlers, LockStore(h)
      PROVE  Waiting' \subseteq Waiting /\ lock' = h /\ h \in Waiting \ Waiting'
  BY <1>6 DEF LockStore
<1>7. ASSUME NEW h \in Handlers, Query(h) \/ QueryFails(h)
      PROVE  Waiting' \subseteq Waiting /\ lock' = NoOne
  BY <1>7 DEF Query, QueryFails, Gather
<1> QED
  BY <1>2, <1>3, <1>4, <1>5, <1>6, <1>7 DEF Next, Serve

\* The end of the process depends on nobody but threads that can run: each
\* wait of the finally block is for a listener that was told to leave or for a
\* request in its query, no step of anyone takes the main thread back, and
\* every request takes the lock at most once more before close() has it.  With
\* the fairness stated, which TLC checks, an interrupt ends the process.
THEOREM ShutdownNeverStuck ==
    Spec => /\ []WaitsForOne
            /\ [][main' # main /\ main \in StopLabels \cup {"exited"} =>
                     Remaining' < Remaining]_vars
            /\ [][closed => /\ Waiting' \subseteq Waiting
                            /\ lock' \notin {lock, NoOne} =>
                                  lock' \in Waiting \ Waiting']_vars
<1>1. Init => Told
  BY DEF Init, Told
<1>2. Told /\ [Next]_vars => Told'
  BY ToldStep
<1>3. ServerIInv /\ Told => WaitsForOne
  BY DEF ServerIInv, ThreadTypes, LockHeld, Told, WaitsForOne
<1>4. [Next]_vars =>
         [main' # main /\ main \in StopLabels \cup {"exited"} => Remaining' < Remaining]_vars
  BY RemainingStep
<1>5. ServerIInv /\ [Next]_vars =>
         [closed => /\ Waiting' \subseteq Waiting
                    /\ lock' \notin {lock, NoOne} => lock' \in Waiting \ Waiting']_vars
  BY WaitingStep
<1> QED
  BY <1>1, <1>2, <1>3, <1>4, <1>5, ServerInvariant, PTL DEF Spec
===============================================================================
