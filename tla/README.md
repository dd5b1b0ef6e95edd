# TLA+ models of solax-modbus and of its development engine

The repository holds two programs that share no code:

* **the monitor** (`src/src/solax_modbus/`): one process on a small computer that polls a
  Solax inverter over Modbus TCP, keeps its readings in a SQLite database with three
  retention tiers, and serves them over HTTP;
* **the engine** (`src/ai/engine/`): a loop in which a worker model writes code, gates
  check it and a reviewer model judges it, under approvals the operator commits to git.

Both keep state on disk that outlives the process, both are restarted by somebody else, and
both are interleaved with actors that do not wait for them: request threads and systemd
here, gate processes, authors and git there. That is what the modules are about.

## 1. Inventory

### The monitor

| component | state | operations | talks to |
|---|---|---|---|
| History store, `data/storage.py` | tables raw, rollup, daily_rollup; one connection with its open transaction; `_closed`; a lock | `write_sample`, `rollup`, `prune`, `rollup_daily`, `prune_daily`, three queries, `close` | called by the main loop and by request threads |
| Monitor process, `main.py: main` | two maintenance timers, the loop's place | poll, publish, write, display, maintain, sleep; interrupt | store, client, snapshot |
| Inverter client, `main.py: SolaxInverterClient`; `storage.py: _validate` | the connection; the readings of one poll | `connect` with backoff, eight register reads, sign conversion, validation | the inverter |
| HTTP server, `presentation/server.py` | the published snapshot; a listener thread, a thread per request | `/api/telemetry`, `/api/history`, `/api/history/12mo`, `stop` | snapshot, store |
| Dashboard page, console display | nothing that outlives a redraw | formatting | - |

What is hard: samples move through three tiers by aggregation and deletion, in an order and
at times that four operations, two timers, outages, exceptions and restarts determine; no
operation rolls back when it fails, so half of it stays in a transaction another operation
commits; one connection is shared by threads, and tested before its lock is taken; shutdown
waits for threads that may be blocked; the service is stopped with SIGTERM, which nothing
handles; a poll is eight requests to a device that goes on measuring.

What makes it correct: an acknowledged sample is on disk until it expires; it does not
expire before the 15-minute series has it, nor that before the daily series has it; an
aggregate is computed from samples of its own bucket and stays at least as complete as it
was; a reader sees a committed version; what is stored was measured; shutdown ends.

### The engine

| component | state | operations | talks to |
|---|---|---|---|
| Engine loop, `orchestrator.py: run_loop, main_async, reset_state` | the state directory (`.complete`, `.timeout`, `BLOCKED.md`, work-summary, work-complete, feedback, audit index, ...); iteration and stall counters | loop, worker, reviewer and reset modes; gates, verdicts, overrides | phases, gates, operator |
| Engine phase, `orchestrator.py: run_phase` | error counters, observed reads and writes | ask the model, dispatch tool calls, synthesize a manifest | model provider, tool servers, the state directory |
| Write scope, `scope.py`; gates, `gates.py` | - | decide a write; run a command | phase, loop |
| Approvals, `stages.py`, `approve.py` | `ai/workspace/` documents, `ai/approvals.yaml` in the work tree and in HEAD | `scan`, `approve`, pre-run check | authors, operator, git, engine start |
| Manifest, `manifest.py` | stages, paths, gates of the governance model | load and validate | loop, approvals |
| Control server, `mcp/server.py` | per session: handles of started processes; shared: `mcp-run.json` | `start_engine`, `engine_status`, `reset_engine`, `work_status` | engine processes, state directory |
| Overwatch, `overwatch.py` | what one scan has read | scan the documents and state files, infer a phase, write a page | state directory |
| Providers and parser, `providers.py`, `parser.py` | none between calls | send the conversation of a phase in a provider's form, normalise the answer | phase |
| Linter, protocol checker, emulator, scripts | none between calls | checks, conversion | - |

What is hard: the files of the state directory are the only interface between phases, runs,
the operator and the control server, and worker code executed by the gates can write them;
a run may crash between any two of them; the loop has five limits that interact (iterations,
extensions, duration, stall threshold, scope errors); a phase counts errors in two ways, and
each of its requests repeats a conversation in which one wrong message spoils all that
follow; the pre-run check is a sequence of eight reads of files and of HEAD that others
change; the control server's sessions share one record and one directory without a lock,
know processes by ids that are used again, and read the outcome file by file, as the
dashboard does.

What makes it correct: `.complete` means the loop shipped; a ship was earned by a verdict
and passing gates; feedback and manifests are of the cycle that uses them; a stall is
caught, and only a stall; runs and phases end unless somebody never answers them; a worker keeps out of what is off limits; a
run that is tracked works on approved bytes; approvals are not lost; every request is one the
providers accept; a status tells the outcome of the run it names, and a page shows a run in
progress only when there is one.

`PROJECT.json` lists every component with its status, and the hazards at their lines.

## 2. Modules

| module | models | uses | proofs |
|---|---|---|---|
| `TimeSeriesStore` | the store, under any client | - | `TimeSeriesStoreProofs` |
| `Monitor` | the process around it | EXTENDS `TimeSeriesStore` | `MonitorProofs` |
| `HistoryService` | abstract: what readers are promised | - | |
| `TelemetryServer` | threads, lock, connection, shutdown | implements `HistoryService` | `TelemetryServerProofs` |
| `InverterClient` | connect, poll, convert, validate | - | `InverterClientProofs` |
| `EngineLoop` | runs over one state directory | - | `EngineLoopProofs` |
| `PhaseContract` | abstract: what a phase promises the loop | - | |
| `WorkPhase` | `run_phase` | implements `PhaseContract` | `WorkPhaseProofs` |
| `Conversation` | the messages a phase sends, and their form for the Messages API | EXTENDS `WorkPhase` | (`WorkPhaseProofs`) |
| `RunContract` | abstract: what a run does to `.complete` and `BLOCKED.md` | kept by `EngineLoop` | (`EngineLoopProofs`) |
| `EngineServer` | the control server's sessions, engine processes, process ids | EXTENDS `RunContract` | `EngineServerProofs` |
| `Overwatch` | the dashboard's scan beside all of that | EXTENDS `EngineServer` | (`EngineServerProofs`) |
| `Approvals` | documents, approvals, pre-run check | - | `ApprovalsProofs` |

Each `MC<module>` gives the constants their values for TLC; each `.cfg` is one run.
Operators named `X_Something` next to an operator `X` are mutants: the same operation with
a plausible mistake. They are used by nothing; each shows that a property can fail.

### TimeSeriesStore

`disk` is the committed database, `view` what the open connection sees, its uncommitted
statements included; they are equal exactly when no transaction is open. Every operation of
the class is an action that changes `view` and then commits, and has a failing twin: some
prefix of its statements, no commit and no rollback, as in every `except sqlite3.Error`.
`Open` is `__init__` with `init_schema`; a crash drops `view`. An average, minimum or maximum is
represented by the set of rows it was computed from, so "the aggregate covers this sample"
can be said and floating-point arithmetic left out. `acked`, `rolled` and `summarised` are
history variables: what was acknowledged, what the last rollup read and what the last daily
rollup read, each until it expires.

### Monitor

The `while` loop of `main()`, one label per statement that touches shared state, with the
three ways an iteration ends early (no connection, an exception while polling, an exception
while printing), the interrupt, SIGTERM between any two statements, and the restart systemd
makes of it. Time passes in `Sleep`, in missed iterations and while the
process is down; `ClockSet` sets the wall clock back or forward, for the timers and cut-offs
are taken from it. `snapshot` is when the poll was made that `/api/telemetry` serves. Every
store operation the process performs is one of the store's own actions.

### TelemetryServer and HistoryService

Threads `main`, the listener and the handlers; a version number stands for the content of
the tables: `committed`, and `view` as the shared connection reads it. The tests of `_conn`
and `_closed` happen before the lock, as in the code, and are steps of their own.
`HistoryService` says what a client may rely on, without threads, locks or transactions: a
response is assembled from one atomic read per metric, each of the version the store has at
that moment; a part is empty only when the service is closing or has seen an error; only an
error or the close takes a version back.

### InverterClient

A poll is eight steps; each read succeeds, returns nothing, returns a short list (only the
voltages are indexed unguarded) or raises, and the inverter may change between two of them.
Registers are words of `Word` values, conversions are the code's. `_validate` is applied to
what the poll returns.

### EngineLoop

One label per place where the state directory is read or written. The phases appear as what
they leave and return (`WorkPhaseReturns`, `ReviewReturns`), a message as the sequence of
what its lines are: text, an accepted form of SHIP or REVISE, or a line that only looks like
one. A worker may write and delete the manifest, `work-complete.txt`, BLOCKED.md and the audit
index (`scope.py` protects the other files); gate processes may write or delete any of the
signal files while the gates run. Command gates
are one set; a skipped gate counts as passed, as in the code. An audit index without items
and no index are the same to every check of the code. `Sticky` is the set of entries
`_remove_state_path` cannot remove. A crash may happen anywhere; `Reset` is `--mode reset`.
At the end of its iterations a run without a terminal declines by itself (`MaxReached`); with
one it asks and waits (`AsksOperator`, `OperatorDeclines`, `OperatorContinues`). Simplified:
after a SHIP the awaited approval may or may not be recorded (it is not when the manifest has
no later stage to approve).
`FollowsContract` maps the module to `RunContract`: the places of the loop to its phases, and
`.complete` and `BLOCKED.md` to its signals.

### WorkPhase and PhaseContract

A phase of either role against a model that answers anything. A tool call is a record (what
it does, its target); its outcome may be success, failure or a lost answer. The three refusals (`scope.py`, the
reviewer's write tools, the audit report guard), the two error counters, the repeated-failure
limit, the wall-clock cap, the context budget and the truncation of a batch are all there.
`PhaseContract` is what `EngineLoop` relies on: a phase changes no signal file and
nothing out of scope, and a reviewer's phase nothing at all; a phase the engine blocked
returns 1; a worker's phase that returns 0 and has left deliverables leaves a manifest. That a phase ends is no part of it, for it may wait for an answer that
never comes; `PhaseEnds` says that nothing else keeps it going.

### Conversation

`run_phase` sends the whole list of messages with every request. The module adds that list to
`WorkPhase`: each of its steps is a step of the phase together with what it says. A message
is its role, the calls it announces and the call it answers. `ToAnthropic` is
`to_anthropic_messages`, message by message: `Added` is its `append`, which turns results into
messages of the user and merges neighbours of the same side, and `Converted` the loop around
it. The chat API gets the list as it is. `RequestsAnswered` states what each of the two
interfaces demands of every request; `Answers` says that one message has exactly the results
for the calls of another. Whether a result is appended before or after the error limits are
looked at (`_tool_result_appended`) makes no difference to what is sent and is left out.

### RunContract, EngineServer

`RunContract` says, as sets of possible next states, what a run of the orchestrator may do to
the two files that tell its outcome, in each phase and mode. `EngineLoop` has the refinement
`FollowsContract` (checked and proved), so `EngineServer` can use the contract for its engine
processes instead of the loop: several at once, started by sessions or by hand, and killed
at any moment. BLOCKED.md is written by the engine, and written and deleted by workers and gate
processes; no signal file protects it.

A session handles one call at a time. `start_engine` starts the process and then writes
`mcp-run.json` in place: another session may read half of it, the write may fail, and a reset
may remove the file while it is open. `engine_status`
reads the record, asks whether the process lives (its own child by handle and `waitpid`,
any other by signal 0) and then reads `.complete` and `BLOCKED.md`, in this order and with
everything else going on in between. `reset_engine` waits for a `--mode reset` process that
removes one file after the other. A finished child stays a zombie, which signal 0 takes for
alive, until its session asks for it or ends; a process id that is free may be given to another
program or engine. The history variable `fate` records what became of a run and whether
another start or a reset has touched the directory since it began.

### Overwatch

A scan reads `BLOCKED.md`, `.complete` and `task.md` one after the other, beside everything
`EngineServer` does; `Phase` is `PhaseInference.infer` on what it found and on the classes of
the open documents. `orphan` records that a `task.md` was left by a run that ended without
outcome or by a reset that could not finish, which a page cannot tell from a run in progress.

### Approvals

Authors edit documents, commit other things with `-a`, or check the file out; the operator
runs `approve.py`, whose hashing, comparison, read, truncation, write and commit are separate
steps; the engine starts in eight steps, from the existence test of the task file to the
comparison of the bytes read with the approved hash. A hash is the content it is the hash of.

`approvals.yaml` is a sequence of entries, of which `Entries` takes the last one per stage, as
`parse_approvals` does. `open(path, "w")` empties the file (`ApproveTruncates`) and the text
follows (`ApproveWrites`); a kill or a full disk leaves any beginning of it
(`ApproveCutShort`): nothing, the entries up to some line, or no YAML. Others may commit the
file, or check another one out, while it is empty. `ApproveCompares` is one step although the
code reads HEAD, hashes once more and then answers: what it answers is about HEAD as it was
read.

## 3. Runs

All passing runs together fire every action. Deadlock is checked in `store`; the other
systems may really stop (the process exits, the last run is over, the bounds are reached).

| run | bounds | shows |
|---|---|---|
| `store` | 2 metrics, buckets 2 and 4, retentions 1/3/7, clock readings 0, 1, 2, 5, 8 in any order, 2 samples, 2 errors, any number of crashes | `AckedDurable`, `RollupSound`, `RolledStaysVisible`, `SummarisedStaysVisible` for any client and any clock, set back or forward |
| `monitor` | clock 0..7, all tiers expire, one missed iteration in a row, and one disturbance: an sqlite3 error, a restart, or a setting of the clock to any time; after an error or a setting the clock stops at 3 | `RolledUpBeforePruned`: a sample leaves raw only when the 15-minute series has it, unless the rollup reported an error; `RawAgeBounded`, `RollupTimely`: age and lag bounded by the maintenance lag of one process; `SummarisedWithoutRestart`; `SnapshotAge`: what is served as current is no older than the iterations that ended early |
| `rollup_rows` | 6 ticks, nothing fails | finding 1 |
| `server` | two requests, two series each, three polls, one error | `NoDirtyRead`, `ImplementsService`, `ShutdownCompletes` |
| `client` | registers of 4 bits, 3 attempts, three states of the inverter (day, night, everything out of range) that reach the limits of one and two registers | `SampleIsReal`, `NullIsExplained` |
| `engine_loop` | 2 runs, 2 cycles and one extension, stall threshold 2, 1 stray write, two entries that may turn out impossible to remove (`.complete`, `work-complete.txt`) | `ShipSignals`, `ShipEarned`, `FeedbackFresh`, `ManifestFresh`, `PhaseStartsClean`, `StallDecided`, `FollowsContract`, `RunEnds` |
| `engine_audit` | as above | finding 2 |
| `engine_control` | 2 sessions, 2 process ids, 2 runs in loop or worker mode, 3 events out of starts, session ends, resets, failing writes and other programs' processes (at most one each of the middle three) | `AliveTold`, `OutcomeTold`, `ExecutionIsReal` |
| `engine_phase` | 12 kinds of call, 2 calls per answer, 2 iterations, 2 attempts, error threshold 3 | `RequestsAnswered`, `KeepsContract`, `PhaseEnds` |
| `engine_reads` | as above | finding 3 |
| `approvals` | paths change_sourced and design_sourced of the installed manifest, 3 documents in any state, 2 contents, one edit, 2 approvals, one of them killed, cut short or failing in git, one start | `TrackedRunIsApproved`, `QuietCheckSound`, `ApprovalKept`, `AnsweredCounts` |
| `approvals_untracked` | the same documents | finding 4 |

Why the bounds are enough: each tier boundary needs a row on either side of it and a bucket
that straddles it, which the store's times give for both tiers; a half-done operation needs
two metrics and one error, and two errors meet in one transaction; a torn pair of series
needs two series and two polls; three polls leave one after it. A stall needs threshold + 1
cycles (below), which threshold 2 with two cycles and an extension allow; a signal that outlives its
run needs two runs. A status that mixes two runs needs two of them and one session; a handle
or an id that answers for another run needs a second session and a second id; `engine_control`
explores one status call at a time, for two share nothing, the first run in loop mode (the
other mode can only ship nothing), and scans while no call but a reset is in progress, the
only one that changes what a scan reads otherwise than by a run. A request that must be well
formed after an answer with too many calls needs two iterations. An approval is stale after one edit and renewed by a second call; a
commit that takes another's entry along, or one that was cut short, needs two calls and a
failure. What lies beyond the
bounds is covered by the theorems where there are any.

### Fairness

* `TelemetryServer`: weak fairness of the main thread's `finally` block, of the listener's
  exit and of each request's own steps: they are running threads. Nothing is assumed of a
  response being taken by its client, nor of who gets the lock next.
* `EngineLoop`: weak fairness of `EngineStep`, what the process does by itself. Gates are in
  it: they have a timeout. So is the end of a run: that the tool servers go when they are closed
  is taken for granted. Phases and the answer at the terminal are not: `input()`
  (orchestrator.py:1955) waits for ever, and a phase may (below). So `RunEnds` says that a run
  ends unless one phase or one question never does, and excludes that it goes on by itself.
* `WorkPhase`: weak fairness of `OwnStep`, the top of an iteration and what follows the calls.
  Nothing is assumed of an answer: `mcp_client.py` (52, 101) sets no read timeout, and the
  wall-clock cap of a phase (orchestrator.py:1131) is looked at only between iterations, so a
  tool server that hangs stops the phase, and the run, for ever. `PhaseEnds` says that the
  phase ends or waits for one such answer: no sequence of answers keeps it going.
* `TimeSeriesStore`, `Monitor`, `InverterClient`, `EngineServer`, `Overwatch`, `Approvals`: none, and no liveness is
  claimed. `RawAgeBounded` and `RollupTimely` are bounds in time, stated as safety.

### What the runs found

1. `rollup_rows`: `rollup()` (storage.py:298) aggregates all of raw, so after a `prune()` the
   bucket at the 24-hour boundary is recomputed from what is left of it, and the complete
   row is overwritten; `rollup_daily()` (437) does the same one tier up. The design restricts
   the statement to recent samples (`design-b7c8d9e0` line 250).
2. `engine_audit`: an audit index that lost all its items passes the scope check
   (orchestrator.py:1759) and the coverage check.
3. `engine_reads`: a read is counted before its result is looked at (orchestrator.py:1298), so
   failed reads satisfy the read-evidence gate.
4. `approvals_untracked`: the task file is tested for three times; away at the third test
   (orchestrator.py:2423), the run counts as untracked and starts unchecked.

Noticed while reading, consistent with the models, and not a run of their own:

* **the stall is found one cycle late.** `stall_threshold` cycles in a row with the same
  feedback do not end a run, although BLOCKED.md (orchestrator.py:2254), the log (2259) and the
  comment at line 97 say so. The code counts repetitions, and the first cycle is none, so it
  takes `stall_threshold + 1` cycles. `StallDecided` is about repetitions: it shows that the
  count is right in the code's own terms, however cycles, scope locks and changing feedback
  alternate;
* **`approve.py` does not append**, as its docstring (line 7) says, but empties the file and
  writes it again (77-78). Cut short, it loses entries of other stages, and the next commit
  with `-a`, or one that comes while the file is empty, takes that to HEAD. `ApprovalKept` and
  `AnsweredCounts` name this exception: in no other way is an approval lost or an answer 0
  false;
* both maintenance timers restart with the process (main.py:567-568), so restarts closer
  together than a day let 15-minute rows expire before `rollup_daily` has seen them. This is
  why `SummarisedWithoutRestart` speaks of one process;
* `write_sample` answers False when its commit fails, yet its row stays in the open
  transaction and the next commit takes it (storage.py:184; docstring 155-156);
* an `approve.py` whose commit failed leaves its entry in the work tree; the next approval, of
  whatever stage, commits both;
* a file that was cut short is repaired by nothing: without its key `approve.py` refuses it, and
  when it is no YAML `approve.py` appends to it and answers 0, though nobody can read the entry;
* a duration limit writes `.timeout` and returns 2, where section 5.0 of the guide has
  `.complete` with DURATION_LIMIT; a reset removes audit files the guide's section 2.3 says
  it preserves; `connect` with three attempts is documented to wait 1, 2 and 4 s and waits 1
  and 2 s, since nothing follows the last attempt;
* a run that is started and refused before it clears the directory leaves the `.complete` of
  the run before, so `engine_status` answers the new run id with `shipped` true; a worker-mode
  run never clears it. `OutcomeTold` excludes both by name;
* a finished child of a session that asks for nothing stays a zombie and other sessions report it
  alive; a stale handle whose process id was used again reports a running engine dead; a
  record that cannot be written leaves an engine running that no status names;
* `BLOCKED.md` and `.complete` may both be present; an open prompt makes the dashboard show
  "Idle" for a blocked engine; a crash or a run out of iterations leaves `task.md` behind and
  the dashboard shows "Loop execution";
* `awaiting-approval.md` is not among the files a reset removes (orchestrator.py:395-407);
* arguments of a tool call that are JSON but no object pass `normalise` (providers.py) and raise
  in `run_phase`; a cap of 0 tool calls would turn every answer into a final message;
* `scan()` reports no stale approval of a stage behind a completed one, while the pre-run check
  still refuses it.

## 4. Proofs

Every theorem is checked by TLAPS for all values of the constants that satisfy the named
assumptions, and each invariant was first checked by TLC.

| theorems | assumption | invariant and argument |
|---|---|---|
| `StoreTypeCorrect`, `AckedDurability`, `RollupSoundness`, `RolledVisibility`, `SummarisedVisibility` | `StoreAssumption`: each retention exceeds the one below by a bucket of its tier | `StoreIInv`. The properties speak of `disk`; a half-done operation is in `view`, which a later commit makes durable and a crash drops. So `Good` (the history is accounted for, aggregates are sound) is stated of both databases, and lemmas say that each operation, or a part of it, takes a good database to a good one. The assumption is what keeps a row live while the samples it was made from can still be pruned. |
| `MonitorTypeCorrect`, `MonitorImplementsStore`, `MonitorAckedDurability`, `RollupBeforePrune` | `MonitorAssumption` in addition | Each step of the loop is a step of the store or leaves it alone, so all store theorems carry over. `RollupBeforePrune` needs `PendingCovered` (what a commit of the open transaction would delete has been rolled up, unless the rollup failed) and `ReadyToPrune` (between a rollup that succeeded and the prune nothing is pending and all of raw is covered). |
| `MonitorSnapshotAge`, `MonitorRawAge`, `MonitorRollupTimely` | the same | Bounds in time. `Waits(k)` is the longest that k iterations take, `Past(k)` what k ended processes have added to an age: one lag and one outage each. `Published`: the snapshot is as old as the iterations since the last poll that succeeded; `Timers`: each timer is reset within its interval and the iterations that ended early; `Clean`: while nothing fails, nothing is pending; `Young` and `Fresh`: measured at the last 15-minute maintenance, no raw row is older than its retention and `Past(restarts)`, and each one older than `Past(restarts)` has been rolled up. |
| `MonitorSummarised` | `MaintenanceAssumption` in addition: each retention leaves room for the maintenance above it (30 days against a daily timer) | `SummaryIInv`, for one process: no 15-minute row is past its retention at the last 15-minute maintenance, and each is `Recent` (its samples are later than what the last daily rollup saw) or `Summarised` (the daily series has it); all are summarised between `rollup_daily` and `prune_daily`. |
| `NoDirtyReads`, `ServiceRefinement` | `ServerAssumption`: at least one series, names that differ | `ServerIInv`: `LockHeld` (the lock is held exactly by the thread inside its critical section), `NothingPending` (outside the main thread's, nothing is uncommitted, but for errors), `StoreOpen` (how close() proceeds), `Gathering` (a request that still reads is not complete). The abstract version is `committed` while main holds the lock and `view` otherwise; every step is a step of the service or a stutter. |
| `ServerTypeCorrect` of the server's threads | the same | `ServerIInv` and how far a response has been gathered (`Counted`, `ResponseTyped`). |
| `ShutdownNeverStuck` | the same | What `ShutdownCompletes` comes to without fairness: each wait of the `finally` block is for a listener that was told to leave or a request in its query (`LockHeld`); the main thread only goes forward; once the store is marked closed nobody joins the requests that wait for the lock, and who takes it leaves them. |
| `SignedRoundTrip`, `UnsignedWideRoundTrip`, `SignedWideRoundTrip`, `WideWholeness`, `SampleReality` | `ClientAssumption`: an even word size, quantities within their registers | The three lemmas are arithmetic: each conversion inverts the inverter's encoding. `ClientIInv` says of every group of keys that it is absent or what one state of the inverter, seen in this poll, makes of it; the theorems follow for sums, phases and two-register quantities. |
| `ClientTypeCorrect`, `NullIsAlwaysExplained` | the same | The delays double from attempt to attempt and stay below `LongestWait` (`PowersOfTwo`, `PowersGrow`, by induction over the attempts). A group that is not there is in `missing`, so a NULL is either of such a group or a value `_validate` refused. |
| `LoopTypeCorrect`, `LoopShipSignals`, `LoopShipEarned`, `LoopFeedbackFresh`, `LoopManifestFresh`, `LoopPhaseStartsClean`, `LoopStallDecided`, `LoopFollowsContract` | `LimitsAssumption`: iterations and threshold positive; `TextAssumption`: messages are sequences of lines | `LoopIInv`, one conjunct per file: where in the loop it may exist and what it holds (`NoSignals`, `Feedback`, `Clean`, `Manifest`). While the gates run anything may be written, so nothing is claimed there; the clear after them re-establishes it. `Counting` ties `stallCount` to the repetitions in the history variable `streak`. `LoopShipEarned` (the last verdict line says SHIP, or there is none and the message opens with SHIP) needs that a message with a verdict line has a last one, for messages of any length: lemma `Greatest` gets it from the well-foundedness of the natural numbers, and `ShipIsSaid` the rest. `LoopFollowsContract` maps each step to a move of the contract or none. |
| `LoopRunsOut` | the same | `StepsLeft`, a number that is 0 between runs and nowhere else, gets smaller with every step of a run, its waits for phases and answers included; only the operator's "y" at the terminal adds to it, one `MaxIterations` at a time. `WithinLimit` (the iteration never passes the limit) makes it a natural number. |
| `PhaseTypeOK`, `PhaseNothingAfterComplete`, `PhaseKeepsContract` | `PhaseAssumption` | `PhaseInv`: both error counters below their limits (in `TypeOK`), and `Running`: before its end the engine has blocked nothing and a manifest that exists is the worker's own, which is why a synthesized one never overwrites it. `PhaseKeepsContract` is the refinement. |
| `PhaseRunsOut`, `ConversationKeepsContract` | the same | `StepsLeft` (of the phase) gets smaller with every step, whatever the model answers: a phase takes at most MaxIterations * (MaxRetries + MaxToolCalls + 2) + 1 of them. Every step of the phase with its conversation is one of the phase. |
| `ConversationAnswered` | the same | `ConvInv`: while the calls of an answer are dispatched, the converted list is one of answered requests (`Whole`) followed by an assistant message of which a prefix of the calls has results; otherwise it is whole. What one more message does to `ToAnthropic` (`OneMore`) rests on an induction over the messages (`ConvertedIs`), which is had from the least counterexample: `NatLessThanWellFounded` and `WFMin`, as lemmas `LeastOf` and `NaturalsOf`. |
| `ServerTypeCorrect`, `ServerAliveTold`, `ServerOutcomeTold` | `ServerAssumption`: bounds are numbers, names differ | `ServerIInv`: what is on disk and in each run's phase agree as long as nothing disturbed the run (`Phased`, `OnlyOne`, `Outcomes`), the record and the handles name runs that were started (`Recorded`), and what a status has gathered stays true while it reads on (`Told`). The order of the reads is what makes `Told` inductive: a run that was over when it was probed writes nothing more. |
| `WatchedServer`, `WatchExecutionIsReal` | the same | Every step of `Overwatch` is one of the server or leaves it alone, so the server's theorems hold beside any scan. `WatchIInv`: the files say that a run is in progress only while one is, or after one has left them so (`Backed`); a reset that is past `task.md` has removed it, or it is such an orphan (`Tidy`); a run or an orphan the scan could have noticed is on record (`Noticed`); without one, what the scan did not find is not there later either, and it found `task.md` only where it found an outcome (`FoundOut`). |
| `ApprovalsTypeOK`, `TrackedRunsApproved`, `QuietChecksSound`, `ApprovalsKept` | `ManifestAssumption` | `ApprovalsInv`. Operator: as long as no write was cut short, the copy read covers the work tree, unless the file is empty just then, and the work tree covers HEAD. Engine: HEAD's approval was collected in `approved` whenever it changed, so what `RunLoads` reads is in it; and until something changes the copies it holds equal the files. `ApprovalsKept` has the exceptions of the property: a write cut short, and a commit while the file is being written. |
| `AnswersCount` | the same | From the operator's part of `ApprovalsInv`: when the commit begins, either the work tree has the entry or it equals HEAD; a commit with nothing to add is refused, so one that succeeds puts the entry into HEAD, where it counts unless the file is no YAML. |

Every invariant and action property of a passing run is stated by a theorem, and so is
`KeepsContract`. Only model-checked
is liveness: `ShutdownCompletes`, `RunEnds` and `PhaseEnds`. It needs
ENABLED, which the prover does not handle; `ShutdownNeverStuck`, `LoopRunsOut` and
`PhaseRunsOut` prove what can be said without it, a measure that every step decreases or a
wait that is for a thread that can run, and leave to TLC that a step is always possible. The findings'
properties are false and have no theorem. Two theorems state what no run checks any more,
`WideWholeness` and `PhaseNothingAfterComplete`. No module declares a RECURSIVE operator;
repetition is a recursive function or a fold.

## 5. Not modelled

* Overwatch beyond the phase it shows: the parsing of documents, compliance checks, budget and
  rendering are functions of file contents, without state.
* Providers and parser beyond the conversation: parsing of answers (what reaches the engine, a
  message, tool calls or an error, is an outcome in `WorkPhase`), the start-up poll (a run
  whose provider is not ready is in `EngineLoop`) and the choice of a provider from the
  configuration. The text of messages is left out, and with it what a provider demands of it.
* Linter and protocol checker: one-shot checks of text.
* `task_document_error`'s treatment of links, path resolution in `scope.py`, the loader of
  the manifest: functions of names and file contents, without state.
* In the loop: archive copies and reports, log rotation, `iteration.txt`, the text of the
  awaiting-approval file, BLOCKED.md's annotation, processes a gate leaves behind, and what a
  gate's command does to `task.md` and `mcp-run.json`.
* In the servers: the static page, the address filter, malformed requests, the checks of a
  tool's arguments. They keep no state.
* That a tool server or a model never answers is in the model (nothing makes it answer); that
  closing the tool servers at the end of a run hangs is not.
* Two `approve.py` at once (both read, one entry is lost) and hand edits of the approvals
  file, which its header forbids.
* The emulator, the install and release scripts (the restart policy apart, which `Monitor` has)
  and the tests.

## 6. Plan

Written in this order, the most important behaviour first: `TimeSeriesStore` and `Monitor`;
`TelemetryServer` under `HistoryService`; `InverterClient`; `EngineLoop`; `WorkPhase` under
`PhaseContract`; `Approvals`; `RunContract` under `EngineLoop`, and `EngineServer` and
`Overwatch` above it; `Conversation`. All of these are done. To come:

1. `EngineLoop` using `PhaseContract` instead of its own copy of what phases return, so that the
   contract is assumed and implemented in one place, and the theorem that the loop's `Work` and
   `Review` do all the contract permits. Today they may do that and more.
2. Two operators in `Approvals`, and the issue stage (evidence without approval).
3. A run for restarts shorter than a day, and for a sample that was denied and stored,
   sharing constants with existing runs; then the counterpart of `MonitorSummarised` for a
   monitor that is restarted.
