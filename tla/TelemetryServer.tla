---------------------------- MODULE TelemetryServer ----------------------------
(****************************************************************************)
(* The threads of the monitoring process: the main thread, the listener of  *)
(* the HTTP server and one thread per request (presentation/server.py), and *)
(* what they share: StateHolder and the connection of TimeSeriesStore.      *)
(*                                                                          *)
(* Here an operation of the store is not one step.  Each tests _conn and    *)
(* _closed without the lock, takes the lock, runs its statements on the one *)
(* shared connection and commits.  What the tables hold is reduced to a     *)
(* version: every operation of the main thread installs the next one.       *)
(****************************************************************************)
EXTENDS Integers, Sequences

CONSTANTS
    Handlers,       \* the request threads alive at a time
    SeriesCount,    \* metrics of one history response
    MaxPolls,       \* bound: iterations of the poll loop
    MaxFaults       \* bound: sqlite3.Errors

Main == "main"      \* as the holder of the lock
NoOne == "no one"

ASSUME ServerAssumption ==
    /\ {Main, NoOne} \cap Handlers = {}
    /\ SeriesCount \in Nat \ {0}
    /\ MaxPolls \in Nat
    /\ MaxFaults \in Nat

VARIABLES
    main,               \* where the main thread is
    listener,           \* the thread of serve_forever
    shutdownRequested,  \* httpd.shutdown() was called
    snapshot,           \* StateHolder: the last poll published
    lock,               \* the thread that holds TimeSeriesStore._lock
    connOpen,           \* _conn is not None
    closed,             \* _closed
    committed,          \* version of the committed tables
    view,               \* version the shared connection reads
    faults,             \* sqlite3.Errors so far
    at,                 \* where each request thread is
    kind,               \* the route of its request
    series              \* what it has gathered for its response

mainVars == <<main, listener, shutdownRequested, snapshot>>
storeVars == <<lock, connOpen, closed, committed, view, faults>>
handlerVars == <<at, kind, series>>
vars == <<mainVars, storeVars, handlerVars>>

Empty == -1         \* "[]" for the series of one metric

LoopLabels == {"poll", "check", "execute", "commit"}
StopLabels == {"stopping", "awaitListener", "setClosed", "closeConn",
               "disconnect"}

Alive == main # "exited"

-----------------------------------------------------------------------------
\* The main thread: the poll loop.

\* state.set(data) at the end of a poll.
Publish ==
    /\ main = "poll"
    /\ snapshot < MaxPolls
    /\ snapshot' = snapshot + 1
    /\ main' = "check"
    /\ UNCHANGED <<listener, shutdownRequested, storeVars, handlerVars>>

\* Mutant of MainLocks: an operation of the store that does not take the lock.
MainLocks_NoLock ==
    /\ main = "check"
    /\ connOpen /\ ~closed
    /\ main' = "execute"
    /\ UNCHANGED <<listener, shutdownRequested, snapshot, storeVars, handlerVars>>

\* An operation of the store passes its test and takes the lock.
MainLocks ==
    /\ main = "check"
    /\ connOpen /\ ~closed
    /\ lock = NoOne
    /\ lock' = Main
    /\ main' = "execute"
    /\ UNCHANGED <<listener, shutdownRequested, snapshot, connOpen, closed,
                   committed, view, faults, handlerVars>>

\* Its statements, in the connection's open transaction.
Execute ==
    /\ main = "execute"
    /\ view' = snapshot
    /\ main' = "commit"
    /\ UNCHANGED <<listener, shutdownRequested, snapshot, lock, connOpen,
                   closed, committed, faults, handlerVars>>

CommitVersion ==
    /\ main = "commit"
    /\ committed' = view
    /\ lock' = NoOne
    /\ main' = "poll"
    /\ UNCHANGED <<listener, shutdownRequested, snapshot, connOpen, closed,
                   view, faults, handlerVars>>

\* A statement or the commit fails: logged, not rolled back by the code.
OperationFails ==
    /\ main \in {"execute", "commit"}
    /\ faults < MaxFaults
    /\ faults' = faults + 1
    /\ view' \in {view, committed}
    /\ lock' = NoOne
    /\ main' = "poll"
    /\ UNCHANGED <<listener, shutdownRequested, snapshot, connOpen, closed,
                   committed, handlerVars>>

\* KeyboardInterrupt: "with self._lock" releases the lock on the way out.
Interrupt ==
    /\ main \in LoopLabels
    /\ main' = "stopping"
    /\ lock' = IF lock = Main THEN NoOne ELSE lock
    /\ UNCHANGED <<listener, shutdownRequested, snapshot, connOpen, closed,
                   committed, view, faults, handlerVars>>

-----------------------------------------------------------------------------
\* The main thread: the finally block.

\* server.stop(): httpd.shutdown() sets the flag and waits.
RequestShutdown ==
    /\ main = "stopping"
    /\ shutdownRequested' = TRUE
    /\ main' = "awaitListener"
    /\ UNCHANGED <<listener, snapshot, storeVars, handlerVars>>

\* Mutant of ServerClosed: server_close() joins request threads that are not
\* daemons.
ServerClosed_JoinsRequests ==
    /\ main = "awaitListener"
    /\ listener = "exited"
    /\ \A h \in Handlers : at[h] = "idle"
    /\ main' = "setClosed"
    /\ UNCHANGED <<listener, shutdownRequested, snapshot, storeVars,
                   handlerVars>>

\* serve_forever has returned; server_close() and join() follow.  Neither waits
\* for the request threads: ThreadingHTTPServer makes them daemon threads.
ServerClosed ==
    /\ main = "awaitListener"
    /\ listener = "exited"
    /\ main' = "setClosed"
    /\ UNCHANGED <<listener, shutdownRequested, snapshot, storeVars,
                   handlerVars>>

\* store.close(): the flag first, without the lock ...
SetClosed ==
    /\ main = "setClosed"
    /\ closed' = TRUE
    /\ main' = "closeConn"
    /\ UNCHANGED <<listener, shutdownRequested, snapshot, lock, connOpen,
                   committed, view, faults, handlerVars>>

\* ... then, under the lock, the connection.  An open transaction is dropped.
CloseConnection ==
    /\ main = "closeConn"
    /\ lock = NoOne
    /\ connOpen' = FALSE
    /\ view' = committed
    /\ main' = "disconnect"
    /\ UNCHANGED <<listener, shutdownRequested, snapshot, lock, closed,
                   committed, faults, handlerVars>>

\* client.disconnect(), the last messages and the end of the interpreter, which
\* takes the request threads with it.
Exit ==
    /\ main = "disconnect"
    /\ main' = "exited"
    /\ UNCHANGED <<listener, shutdownRequested, snapshot, storeVars,
                   handlerVars>>

\* A second KeyboardInterrupt leaves the finally block where it is.
InterruptAgain ==
    /\ main \in StopLabels
    /\ main' = "exited"
    /\ UNCHANGED <<listener, shutdownRequested, snapshot, storeVars,
                   handlerVars>>

-----------------------------------------------------------------------------
\* The listener.

\* serve_forever notices the flag, at the latest after its poll interval.
ListenerExits ==
    /\ Alive
    /\ listener = "serving"
    /\ shutdownRequested
    /\ listener' = "exited"
    /\ UNCHANGED <<main, shutdownRequested, snapshot, storeVars, handlerVars>>

\* A connection is accepted and its thread started.
Accept(h) ==
    /\ Alive
    /\ listener = "serving"
    /\ at[h] = "idle"
    /\ \E route \in {"telemetry", "history"} :
          /\ kind' = [kind EXCEPT ![h] = route]
          /\ at' = [at EXCEPT ![h] = IF route = "history" THEN "check"
                                                          ELSE "read"]
    /\ UNCHANGED <<mainVars, storeVars, series>>

-----------------------------------------------------------------------------
\* A request thread.

\* _serve_telemetry: StateHolder.get().
ReadSnapshot(h) ==
    /\ Alive
    /\ at[h] = "read"
    /\ series' = [series EXCEPT ![h] = <<snapshot>>]
    /\ at' = [at EXCEPT ![h] = "send"]
    /\ UNCHANGED <<mainVars, storeVars, kind>>

\* Mutant of Gather: one metric too many.
Gather_OneTooMany(h, value) ==
    /\ series' = [series EXCEPT ![h] = Append(@, value)]
    /\ at' = [at EXCEPT ![h] =
                 IF Len(series[h]) = SeriesCount THEN "send" ELSE "check"]
    /\ UNCHANGED kind

\* _serve_history: the result for one metric, then the next one or the response.
Gather(h, value) ==
    /\ series' = [series EXCEPT ![h] = Append(@, value)]
    /\ at' = [at EXCEPT ![h] =
                 IF Len(series[h]) + 1 = SeriesCount THEN "send" ELSE "check"]
    /\ UNCHANGED kind

\* query_history's test, without the lock.
CheckStore(h) ==
    /\ Alive
    /\ at[h] = "check"
    /\ IF connOpen /\ ~closed
       THEN /\ at' = [at EXCEPT ![h] = "lock"]
            /\ UNCHANGED <<kind, series>>
       ELSE Gather(h, Empty)
    /\ UNCHANGED <<mainVars, storeVars>>

\* Mutant of LockStore: the query does not wait for the lock.
LockStore_NoWait(h) ==
    /\ Alive
    /\ at[h] = "lock"
    /\ at' = [at EXCEPT ![h] = "query"]
    /\ UNCHANGED <<mainVars, storeVars, kind, series>>

\* _lock, taken by the query of one metric.
LockStore(h) ==
    /\ Alive
    /\ at[h] = "lock"
    /\ lock = NoOne
    /\ lock' = h
    /\ at' = [at EXCEPT ![h] = "query"]
    /\ UNCHANGED <<mainVars, connOpen, closed, committed, view, faults, kind,
                   series>>

\* The SELECT, on the connection the test saw or on None: the AttributeError is
\* caught by _serve_history and gives an empty series.
Query(h) ==
    /\ Alive
    /\ at[h] = "query"
    /\ Gather(h, IF connOpen THEN view ELSE Empty)
    /\ lock' = NoOne
    /\ UNCHANGED <<mainVars, connOpen, closed, committed, view, faults>>

QueryFails(h) ==
    /\ Alive
    /\ at[h] = "query"
    /\ connOpen
    /\ faults < MaxFaults
    /\ faults' = faults + 1
    /\ Gather(h, Empty)
    /\ lock' = NoOne
    /\ UNCHANGED <<mainVars, connOpen, closed, committed, view>>

\* The response is written, or the client is gone; the thread ends.
Respond(h) ==
    /\ Alive
    /\ at[h] = "send"
    /\ at' = [at EXCEPT ![h] = "idle"]
    /\ series' = [series EXCEPT ![h] = <<>>]
    /\ UNCHANGED <<mainVars, storeVars, kind>>

-----------------------------------------------------------------------------
Init ==
    /\ main = "poll"
    /\ listener = "serving"
    /\ shutdownRequested = FALSE
    /\ snapshot = 0
    /\ lock = NoOne
    /\ connOpen = TRUE
    /\ closed = FALSE
    /\ committed = 0
    /\ view = 0
    /\ faults = 0
    /\ at = [h \in Handlers |-> "idle"]
    /\ kind = [h \in Handlers |-> "history"]
    /\ series = [h \in Handlers |-> <<>>]

Finally == RequestShutdown \/ ServerClosed \/ SetClosed \/ CloseConnection \/ Exit

Serve(h) == ReadSnapshot(h) \/ CheckStore(h) \/ LockStore(h) \/ Query(h)

Next ==
    \/ Publish \/ MainLocks \/ Execute \/ CommitVersion \/ OperationFails
    \/ Interrupt \/ InterruptAgain
    \/ Finally
    \/ ListenerExits
    \/ \E h \in Handlers :
          Accept(h) \/ Serve(h) \/ QueryFails(h) \/ Respond(h)

\* Every thread that can run is eventually scheduled.  Nothing is assumed of
\* Respond, which may block on a client that does not read, nor of the lock,
\* which Python hands to any waiter.
Fairness ==
    /\ WF_vars(Finally)
    /\ WF_vars(ListenerExits)
    /\ \A h \in Handlers : WF_vars(Serve(h))

Spec == Init /\ [][Next]_vars /\ Fairness

-----------------------------------------------------------------------------
\* Properties.

\* The type of the threads' state.
TypeOK ==
    /\ main \in LoopLabels \cup StopLabels \cup {"exited"}
    /\ listener \in {"serving", "exited"}
    /\ shutdownRequested \in BOOLEAN
    /\ snapshot \in 0..MaxPolls
    /\ lock \in Handlers \cup {Main, NoOne}
    /\ connOpen \in BOOLEAN /\ closed \in BOOLEAN
    /\ committed \in 0..snapshot /\ view \in 0..snapshot
    /\ faults \in 0..MaxFaults
    /\ at \in [Handlers -> {"idle", "read", "check", "lock", "query", "send"}]
    /\ kind \in [Handlers -> {"telemetry", "history"}]
    /\ \A h \in Handlers :
          /\ Len(series[h]) <= SeriesCount
          /\ \A i \in 1..Len(series[h]) : series[h][i] \in Nat \cup {Empty}

\* While the loop runs and no operation has failed, a request never reads the
\* statements of a transaction that is still open on the shared connection.
NoDirtyRead ==
    \A h \in Handlers :
        at[h] = "query" /\ faults = 0 /\ main \in LoopLabels
            => view = committed

\* An interrupt ends the process: stop() and close() cannot wait for ever for a
\* request thread, neither one in a query nor one blocked on its client.
ShutdownCompletes == main = "stopping" ~> main = "exited"

\* The threads implement the abstract service: under the lock every read and
\* every operation of the main thread is one atomic step.
Service ==
    INSTANCE HistoryService WITH
        Requests <- Handlers,
        faulty <- faults > 0,
        version <- IF lock = Main THEN committed ELSE view,
        phase <- IF ~connOpen THEN "closed"
                 ELSE IF closed THEN "closing" ELSE "open",
        response <- [h \in Handlers |->
                        IF kind[h] = "history" THEN series[h] ELSE <<>>]

ImplementsService == Service!ServiceSpec
=============================================================================
