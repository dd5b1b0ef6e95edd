---------------------------- MODULE TimeSeriesStore ----------------------------
(****************************************************************************)
(* The SQLite history store, src/src/solax_modbus/data/storage.py.          *)
(*                                                                          *)
(* Three tables: raw samples, 15-minute rollup rows and daily rollup rows.  *)
(* Every operation runs under the store's lock, so an operation is one      *)
(* step; what is not one step is the transaction.  Python's sqlite3 opens a *)
(* transaction at the first INSERT or DELETE and only commit() ends it, and *)
(* the handlers of sqlite3.Error do not roll back.  The module therefore    *)
(* keeps two databases: "disk", what is committed and survives a crash, and *)
(* "view", what the one shared connection reads, uncommitted work included. *)
(*                                                                          *)
(* An aggregate (avg, min, max) is represented by the set of rows it was    *)
(* computed from, its "src": two aggregates of one bucket differ in the     *)
(* code exactly when rows were added to or lost from that set.              *)
(*                                                                          *)
(* The environment of this module is the most general client: any operation *)
(* at any moment, with any clock reading, and closing or dying in between.  *)
(****************************************************************************)
EXTENDS Integers

CONSTANTS
    Metrics,            \* STORED_METRICS
    RollupBucket,       \* ROLLUP_BUCKET_SECONDS
    DailyBucket,        \* DAILY_ROLLUP_BUCKET_SECONDS
    RawRetention,       \* RAW_RETENTION_SECONDS
    RollupRetention,    \* ROLLUP_RETENTION_SECONDS
    DailyRetention,     \* DAILY_ROLLUP_RETENTION_SECONDS
    Times,              \* the readings of the wall clock
    MaxInserts,         \* bound: samples ever inserted
    MaxFaults           \* bound: operations that end in a sqlite3.Error

\* What the constants of storage.py satisfy: 900 s, 1 day, 24 h, 30 d, 365 d.
ASSUME StoreAssumption ==
    /\ RollupBucket \in Nat \ {0}
    /\ DailyBucket \in Nat \ {0}
    /\ RawRetention \in Nat
    /\ RollupRetention \in Nat
    /\ DailyRetention \in Nat
    /\ RollupRetention >= RawRetention + RollupBucket
    /\ DailyRetention >= RollupRetention + DailyBucket
    /\ Times \subseteq Nat
    /\ MaxInserts \in Nat
    /\ MaxFaults \in Nat

VARIABLES
    disk,       \* the committed database
    view,       \* the database as the open connection sees it
    conn,       \* "open" | "closed": _conn and _closed
    inserted,   \* INSERTs into raw so far; numbers the samples
    faults,     \* sqlite3.Errors so far
    \* History variables, read by the properties only.
    acked,      \* samples write_sample answered True for, until they expire
    rolled,     \* samples the last successful rollup read, until they expire
    summarised  \* rollup keys the last successful rollup_daily read, likewise

storeVars == <<disk, view, conn, inserted, faults, acked, rolled, summarised>>

-----------------------------------------------------------------------------
\* The tables.

\* A raw row: its insertion number, its timestamp, and which metrics are not
\* NULL in it (_validate stores NULL for what is absent or out of range).
Sample == [n : Nat, ts : Nat, metrics : SUBSET Metrics]

\* A row of either rollup table; PRIMARY KEY (bucket_ts, metric).
KeyOf(row) == [bucket |-> row.bucket, metric |-> row.metric]
Key == [bucket : Nat, metric : Metrics]

\* Mutant of BucketStart: the bucket before the one that holds ts.
BucketStart_Previous(ts, width) == ts - (ts % width) - width

BucketStart(ts, width) == ts - (ts % width)

EmptyDatabase == [raw |-> {}, rollup |-> {}, daily |-> {}]

\* Mutant of Upsert: a plain INSERT, into a table without its primary key.
Upsert_InsertOnly(table, rows) == table \cup rows

\* INSERT ... ON CONFLICT(bucket_ts, metric) DO UPDATE SET every column.
Upsert(table, rows) ==
    {old \in table : \A new \in rows : KeyOf(old) # KeyOf(new)} \cup rows

\* The raw rows one 15-minute group aggregates.
RawGroup(raw, bucket, m) ==
    {s \in raw : m \in s.metrics /\ BucketStart(s.ts, RollupBucket) = bucket}

\* SELECT ... FROM raw WHERE m IS NOT NULL GROUP BY bucket_ts, for each m in M.
RollupRows(raw, M) ==
    UNION {{[bucket |-> BucketStart(s.ts, RollupBucket), metric |-> m,
             src |-> RawGroup(raw, BucketStart(s.ts, RollupBucket), m)]
               : s \in {x \in raw : m \in x.metrics}} : m \in M}

\* The rollup rows one day group aggregates.
RollupGroup(rollup, day, m) ==
    {r \in rollup : r.metric = m /\ BucketStart(r.bucket, DailyBucket) = day}

\* SELECT ... FROM rollup WHERE metric = m GROUP BY day_bucket_ts.
DailyRows(rollup, M) ==
    {[bucket |-> BucketStart(r.bucket, DailyBucket), metric |-> r.metric,
      src |-> RollupGroup(rollup, BucketStart(r.bucket, DailyBucket), r.metric)]
        : r \in {x \in rollup : x.metric \in M}}

\* The databases the statements of each operation build from a database.
Insert(db, s) == [db EXCEPT !.raw = @ \cup {s}]

RolledUp(db, M) == [db EXCEPT !.rollup = Upsert(@, RollupRows(db.raw, M))]

\* Mutant of RawPruned: "ts <= cutoff" for "ts < cutoff".
RawPruned_CutoffIncluded(db, t) ==
    [db EXCEPT !.raw = {s \in @ : s.ts > t - RawRetention}]

\* Mutant of RawPruned: the retention of the wrong table.
RawPruned_WrongRetention(db, t) ==
    [db EXCEPT !.raw = {s \in @ : s.ts >= t - RollupRetention}]

RawPruned(db, t) == [db EXCEPT !.raw = {s \in @ : s.ts >= t - RawRetention}]

\* Mutant of Pruned: one cutoff for both tables.
Pruned_OneCutoff(db, t) ==
    [RawPruned(db, t) EXCEPT
        !.rollup = {r \in @ : r.bucket >= t - RawRetention}]

Pruned(db, t) ==
    [RawPruned(db, t) EXCEPT
        !.rollup = {r \in @ : r.bucket >= t - RollupRetention}]

DailyRolledUp(db, M) ==
    [db EXCEPT !.daily = Upsert(@, DailyRows(db.rollup, M))]

\* Mutant of DailyPruned: the retention of the 15-minute rows.
DailyPruned_WrongRetention(db, t) ==
    [db EXCEPT !.daily = {d \in @ : d.bucket >= t - RollupRetention}]

DailyPruned(db, t) ==
    [db EXCEPT !.daily = {d \in @ : d.bucket >= t - DailyRetention}]

-----------------------------------------------------------------------------
\* How an operation ends.

\* commit() succeeds: everything pending on the connection becomes durable.
Commit(db) ==
    /\ view' = db
    /\ disk' = db
    /\ UNCHANGED <<conn, faults>>

\* A statement or the commit raises sqlite3.Error, which is logged and
\* swallowed.  Either SQLite itself rolled the transaction back, or what the
\* statements did so far ("dbs") stays in the open transaction.
Fail(dbs) ==
    /\ faults < MaxFaults
    /\ faults' = faults + 1
    /\ view' \in dbs \cup {disk}
    /\ UNCHANGED <<disk, conn>>

\* History: what a prune at t declares expired, whether or not it succeeds.
Unexpired(samples, t) == {s \in samples : s.ts >= t - RawRetention}
UnexpiredKeys(keys, t) == {k \in keys : k.bucket >= t - RollupRetention}

-----------------------------------------------------------------------------
\* The operations.  On a closed store each returns at once and changes nothing.

Available == conn = "open"

NewSample(t, metrics) == [n |-> inserted + 1, ts |-> t, metrics |-> metrics]

\* write_sample at clock t, of a poll whose valid metrics are these.
WriteSample(t, metrics) ==
    /\ Available
    /\ inserted < MaxInserts
    /\ Commit(Insert(view, NewSample(t, metrics)))
    /\ inserted' = inserted + 1
    /\ acked' = acked \cup {NewSample(t, metrics)}
    /\ UNCHANGED <<rolled, summarised>>

WriteSampleFails(t, metrics) ==
    /\ Available
    /\ inserted < MaxInserts
    /\ Fail({view, Insert(view, NewSample(t, metrics))})
    /\ inserted' = inserted + 1
    /\ UNCHANGED <<acked, rolled, summarised>>

\* rollup: one upsert per metric, then one commit.
Rollup ==
    /\ Available
    /\ Commit(RolledUp(view, Metrics))
    /\ rolled' = view.raw
    /\ UNCHANGED <<inserted, acked, summarised>>

\* It fails at one of the metrics, or at the commit after all of them.
RollupFails ==
    /\ Available
    /\ Fail({RolledUp(view, done) : done \in SUBSET Metrics})
    /\ UNCHANGED <<inserted, acked, rolled, summarised>>

\* prune: raw rows, then rollup rows, then one commit.
Prune(t) ==
    /\ Available
    /\ Commit(Pruned(view, t))
    /\ acked' = Unexpired(acked, t)
    /\ rolled' = Unexpired(rolled, t)
    /\ summarised' = UnexpiredKeys(summarised, t)
    /\ UNCHANGED inserted

PruneFails(t) ==
    /\ Available
    /\ Fail({view, RawPruned(view, t), Pruned(view, t)})
    /\ acked' = Unexpired(acked, t)
    /\ rolled' = Unexpired(rolled, t)
    /\ summarised' = UnexpiredKeys(summarised, t)
    /\ UNCHANGED inserted

\* rollup_daily: aggregates the rollup table, not the raw one.
RollupDaily ==
    /\ Available
    /\ Commit(DailyRolledUp(view, Metrics))
    /\ summarised' = {KeyOf(r) : r \in view.rollup}
    /\ UNCHANGED <<inserted, acked, rolled>>

RollupDailyFails ==
    /\ Available
    /\ Fail({DailyRolledUp(view, done) : done \in SUBSET Metrics})
    /\ UNCHANGED <<inserted, acked, rolled, summarised>>

PruneDaily(t) ==
    /\ Available
    /\ Commit(DailyPruned(view, t))
    /\ summarised' = UnexpiredKeys(summarised, t)
    /\ UNCHANGED <<inserted, acked, rolled>>

PruneDailyFails(t) ==
    /\ Available
    /\ Fail({view, DailyPruned(view, t)})
    /\ summarised' = UnexpiredKeys(summarised, t)
    /\ UNCHANGED <<inserted, acked, rolled>>

\* close: no commit, so an open transaction is lost.  The death of the process
\* leaves the database in the same state.
Close ==
    /\ Available
    /\ conn' = "closed"
    /\ view' = disk
    /\ UNCHANGED <<disk, inserted, faults, acked, rolled, summarised>>

\* __init__ and init_schema on an existing file: CREATE ... IF NOT EXISTS.
Open ==
    /\ conn = "closed"
    /\ conn' = "open"
    /\ view' = disk
    /\ UNCHANGED <<disk, inserted, faults, acked, rolled, summarised>>

\* The file cannot be opened: main() goes on without a store.  An error while
\* the schema is created is logged and swallowed: the store is open then, and
\* its operations fail as they may anyway.
OpenFails ==
    /\ conn = "closed"
    /\ faults < MaxFaults
    /\ faults' = faults + 1
    /\ UNCHANGED <<disk, view, conn, inserted, acked, rolled, summarised>>

-----------------------------------------------------------------------------
StoreInit ==
    /\ disk = EmptyDatabase
    /\ view = EmptyDatabase
    /\ conn = "open"
    /\ inserted = 0
    /\ faults = 0
    /\ acked = {}
    /\ rolled = {}
    /\ summarised = {}

StoreNext ==
    \/ \E t \in Times, metrics \in SUBSET Metrics :
          WriteSample(t, metrics) \/ WriteSampleFails(t, metrics)
    \/ Rollup \/ RollupFails
    \/ \E t \in Times : Prune(t) \/ PruneFails(t)
    \/ RollupDaily \/ RollupDailyFails
    \/ \E t \in Times : PruneDaily(t) \/ PruneDailyFails(t)
    \/ Close
    \/ Open \/ OpenFails

StoreSpec == StoreInit /\ [][StoreNext]_storeVars

-----------------------------------------------------------------------------
\* Properties.

RollupRow == [bucket : Nat, metric : Metrics, src : SUBSET Sample]
DailyRow == [bucket : Nat, metric : Metrics, src : SUBSET RollupRow]
Database == [raw : SUBSET Sample, rollup : SUBSET RollupRow,
             daily : SUBSET DailyRow]

\* The type of the store's state (the tables init_schema declares).
StoreTypeOK ==
    /\ disk \in Database
    /\ view \in Database
    /\ conn \in {"open", "closed"}
    /\ inserted \in Nat
    /\ faults \in Nat
    /\ acked \subseteq Sample
    /\ rolled \subseteq Sample
    /\ summarised \subseteq Key

\* A sample write_sample reported as written is on disk until a prune whose
\* clock says it is older than the raw retention, whatever operations fail,
\* are left half done in the open transaction, or are cut off by a crash.
AckedDurable == acked \subseteq disk.raw

\* The key of a rollup row covers its sources: a row holds nothing that belongs
\* to another bucket or has no value for its metric, and it is never empty.
RollupRowSound(r) ==
    /\ r.src # {}
    /\ \A s \in r.src : /\ BucketStart(s.ts, RollupBucket) = r.bucket
                        /\ r.metric \in s.metrics

\* At most one row per key, and each row sound, in the durable and the visible
\* rollup table, however rollups, their failures and prunes alternate.
RollupSound ==
    \A db \in {disk, view} :
        /\ \A r \in db.rollup : RollupRowSound(r)
        /\ \A r1, r2 \in db.rollup : KeyOf(r1) = KeyOf(r2) => r1 = r2

CoveredByRollup(s, m, rollup) ==
    \E r \in rollup : /\ r.bucket = BucketStart(s.ts, RollupBucket)
                      /\ r.metric = m
                      /\ s \in r.src

\* A sample that a rollup aggregated and that has not expired stays aggregated
\* in the durable row of its bucket: no later rollup, failed or not, no prune
\* and no crash takes a live sample out of the 30-day series.
RolledStaysVisible ==
    \A s \in rolled : \A m \in s.metrics : CoveredByRollup(s, m, disk.rollup)

CoveredByDaily(k, daily) ==
    \E d \in daily : /\ d.bucket = BucketStart(k.bucket, DailyBucket)
                     /\ d.metric = k.metric
                     /\ \E r \in d.src : KeyOf(r) = k

\* The same one tier up: a live 15-minute row that a daily rollup aggregated
\* stays represented in the durable row of its day.
SummarisedStaysVisible ==
    \A k \in summarised : CoveredByDaily(k, disk.daily)

=============================================================================
