------------------------ MODULE TimeSeriesStoreProofs ------------------------
(* Theorems about TimeSeriesStore, for every value of its constants. *)
EXTENDS TimeSeriesStore, TLAPS

\* The history sets A (acknowledged), R (rolled) and S (summarised) are all
\* accounted for in the database db, and its rollup table is sound.
Good(db, A, R, S) ==
    /\ A \subseteq db.raw
    /\ R \subseteq db.raw
    /\ \A r \in db.rollup : RollupRowSound(r)
    /\ \A r1, r2 \in db.rollup : KeyOf(r1) = KeyOf(r2) => r1 = r2
    /\ \A s \in R : \A m \in s.metrics : CoveredByRollup(s, m, db.rollup)
    /\ \A k \in S : /\ \E r \in db.rollup : KeyOf(r) = k
                    /\ CoveredByDaily(k, db.daily)

\* The inductive invariant: both databases account for the history, because
\* either may become the other (a commit, a rollback, a crash).
StoreIInv ==
    /\ StoreTypeOK
    /\ Good(disk, acked, rolled, summarised)
    /\ Good(view, acked, rolled, summarised)

-----------------------------------------------------------------------------
\* A bucket starts at most one bucket width before the times it holds.
LEMMA BucketStartBounds ==
    ASSUME NEW ts \in Nat, NEW w \in Nat \ {0}
    PROVE  /\ BucketStart(ts, w) \in Nat
           /\ BucketStart(ts, w) <= ts
           /\ ts < BucketStart(ts, w) + w
<1>1. ts % w \in 0..(w - 1)
  OBVIOUS
<1>2. ts % w <= ts
  OBVIOUS
<1> QED
  BY <1>1, <1>2 DEF BucketStart

\* Every row a rollup computes has a key and sources, and is sound.
LEMMA RollupRowsSound ==
    ASSUME NEW raw \in SUBSET Sample, NEW M \in SUBSET Metrics,
           NEW r \in RollupRows(raw, M)
    PROVE  /\ r \in RollupRow
           /\ RollupRowSound(r)
           /\ r.metric \in M
           /\ r.src = RawGroup(raw, r.bucket, r.metric)
<1>1. PICK m \in M, s \in raw :
          /\ m \in s.metrics
          /\ r = [bucket |-> BucketStart(s.ts, RollupBucket), metric |-> m,
                  src |-> RawGroup(raw, BucketStart(s.ts, RollupBucket), m)]
  BY DEF RollupRows
<1>2. /\ r.bucket = BucketStart(s.ts, RollupBucket)
      /\ r.metric = m
      /\ r.src = RawGroup(raw, r.bucket, m)
  BY <1>1
<1>3. s \in r.src
  BY <1>1, <1>2 DEF RawGroup
<1>4. r.bucket \in Nat
  BY <1>2, BucketStartBounds, StoreAssumption DEF Sample
<1>5. r.src \in SUBSET Sample
  BY <1>2 DEF RawGroup
<1>6. RollupRowSound(r)
  BY <1>2, <1>3 DEF RollupRowSound, RawGroup
<1>7. r \in RollupRow
  BY <1>1, <1>2, <1>4, <1>5 DEF RollupRow
<1> QED
  BY <1>1, <1>2, <1>6, <1>7

\* The rows of one rollup have different keys.
LEMMA RollupRowsKeyed ==
    ASSUME NEW raw \in SUBSET Sample, NEW M \in SUBSET Metrics,
           NEW r1 \in RollupRows(raw, M), NEW r2 \in RollupRows(raw, M),
           KeyOf(r1) = KeyOf(r2)
    PROVE  r1 = r2
<1>1. r1.bucket = r2.bucket /\ r1.metric = r2.metric
  BY DEF KeyOf
<1>2. r1.src = r2.src
  BY <1>1, RollupRowsSound
<1>3. r1 \in RollupRow /\ r2 \in RollupRow
  BY RollupRowsSound
<1> QED
  BY <1>1, <1>2, <1>3 DEF RollupRow

\* Every sample with a value for a metric of M is in the row of its bucket.
LEMMA RollupRowsComplete ==
    ASSUME NEW raw \in SUBSET Sample, NEW M \in SUBSET Metrics,
           NEW m \in M, NEW s \in raw, m \in s.metrics
    PROVE  CoveredByRollup(s, m, RollupRows(raw, M))
<1> DEFINE r == [bucket |-> BucketStart(s.ts, RollupBucket), metric |-> m,
                 src |-> RawGroup(raw, BucketStart(s.ts, RollupBucket), m)]
<1>1. r \in RollupRows(raw, M)
  BY DEF RollupRows
<1>2. s \in r.src
  BY DEF RawGroup
<1> QED
  BY <1>1, <1>2 DEF CoveredByRollup

\* The same for the rows a daily rollup computes.
LEMMA DailyRowsSound ==
    ASSUME NEW rollup \in SUBSET RollupRow, NEW M \in SUBSET Metrics,
           NEW d \in DailyRows(rollup, M)
    PROVE  d \in DailyRow /\ d.metric \in M
<1>1. PICK r \in rollup :
          /\ r.metric \in M
          /\ d = [bucket |-> BucketStart(r.bucket, DailyBucket),
                  metric |-> r.metric,
                  src |-> RollupGroup(rollup,
                            BucketStart(r.bucket, DailyBucket), r.metric)]
  BY DEF DailyRows
<1>2. BucketStart(r.bucket, DailyBucket) \in Nat
  BY BucketStartBounds, StoreAssumption DEF RollupRow
<1>3. RollupGroup(rollup, BucketStart(r.bucket, DailyBucket), r.metric)
        \in SUBSET RollupRow
  BY DEF RollupGroup
<1> QED
  BY <1>1, <1>2, <1>3 DEF DailyRow

\* Every 15-minute row for a metric of M is in the daily row of its day.
LEMMA DailyRowsComplete ==
    ASSUME NEW rollup \in SUBSET RollupRow, NEW M \in SUBSET Metrics,
           NEW r \in rollup, r.metric \in M
    PROVE  CoveredByDaily(KeyOf(r), DailyRows(rollup, M))
<1> DEFINE d == [bucket |-> BucketStart(r.bucket, DailyBucket),
                 metric |-> r.metric,
                 src |-> RollupGroup(rollup,
                           BucketStart(r.bucket, DailyBucket), r.metric)]
<1>1. d \in DailyRows(rollup, M)
  BY DEF DailyRows
<1>2. r \in d.src
  BY DEF RollupGroup
<1>3. KeyOf(r).bucket = r.bucket /\ KeyOf(r).metric = r.metric
  BY DEF KeyOf
<1> QED
  BY <1>1, <1>2, <1>3 DEF CoveredByDaily

-----------------------------------------------------------------------------
\* What each operation's statements do to a database that accounts for A, R, S.

\* Fewer samples to account for is less to ask.
LEMMA GoodMonotone ==
    ASSUME NEW db, NEW A, NEW R, NEW S, NEW A1 \in SUBSET A,
           NEW R1 \in SUBSET R, NEW S1 \in SUBSET S, Good(db, A, R, S)
    PROVE  Good(db, A1, R1, S1)
BY DEF Good

\* A new sample leaves everything accounted for and is itself in the raw table.
LEMMA InsertGood ==
    ASSUME NEW db \in Database, NEW A, NEW R, NEW S, Good(db, A, R, S),
           NEW s \in Sample
    PROVE  /\ Insert(db, s) \in Database
           /\ Good(Insert(db, s), A \cup {s}, R, S)
<1>1. /\ Insert(db, s) \in Database
      /\ Insert(db, s).raw = db.raw \cup {s}
      /\ Insert(db, s).rollup = db.rollup
      /\ Insert(db, s).daily = db.daily
  BY DEF Insert, Database
<1> QED
  BY <1>1 DEF Good

\* An upsert of sound rows with different keys keeps soundness and the key, and
\* replaces a covering row only by a row computed from the current raw rows.
LEMMA RolledUpGood ==
    ASSUME NEW db \in Database, NEW A, NEW R, NEW S, Good(db, A, R, S),
           NEW M \in SUBSET Metrics
    PROVE  /\ RolledUp(db, M) \in Database
           /\ Good(RolledUp(db, M), A, R, S)
<1> DEFINE rows == RollupRows(db.raw, M)
           new == RolledUp(db, M)
<1>0. db.raw \in SUBSET Sample /\ db.rollup \in SUBSET RollupRow
  BY DEF Database
<1>1. /\ new.raw = db.raw
      /\ new.rollup = Upsert(db.rollup, rows)
      /\ new.daily = db.daily
  BY DEF RolledUp, Database
<1>2. \A r \in rows : r \in RollupRow /\ RollupRowSound(r) /\ r.metric \in M
  BY <1>0, RollupRowsSound
<1>3. new \in Database
  BY <1>0, <1>2 DEF RolledUp, Database, Upsert
<1>4. \A r \in new.rollup : RollupRowSound(r)
  BY <1>1, <1>2 DEF Good, Upsert
<1>5. \A r1, r2 \in new.rollup : KeyOf(r1) = KeyOf(r2) => r1 = r2
  <2> SUFFICES ASSUME NEW r1 \in new.rollup, NEW r2 \in new.rollup,
                      KeyOf(r1) = KeyOf(r2)
               PROVE  r1 = r2
    OBVIOUS
  <2>1. CASE r1 \in rows /\ r2 \in rows
    BY <2>1, <1>0, RollupRowsKeyed
  <2>2. CASE r1 \notin rows /\ r2 \notin rows
    BY <2>2, <1>1 DEF Good, Upsert
  <2>3. ~(r1 \in rows /\ r2 \notin rows) /\ ~(r2 \in rows /\ r1 \notin rows)
    BY <1>1 DEF Upsert
  <2> QED
    BY <2>1, <2>2, <2>3
<1>6. ASSUME NEW s \in R, NEW m \in s.metrics
      PROVE  CoveredByRollup(s, m, new.rollup)
  <2>1. PICK r \in db.rollup : /\ r.bucket = BucketStart(s.ts, RollupBucket)
                               /\ r.metric = m
                               /\ s \in r.src
    BY <1>6 DEF Good, CoveredByRollup
  <2>2. CASE m \in M
    <3>1. CoveredByRollup(s, m, rows)
      BY <1>0, <1>6, <2>2, RollupRowsComplete DEF Good
    <3> QED
      BY <1>1, <3>1 DEF CoveredByRollup, Upsert
  <2>3. CASE m \notin M
    <3>1. r \in new.rollup
      BY <1>1, <1>2, <2>1, <2>3 DEF Upsert, KeyOf
    <3> QED
      BY <2>1, <3>1 DEF CoveredByRollup
  <2> QED
    BY <2>2, <2>3
<1>7. ASSUME NEW k \in S
      PROVE  /\ \E r \in new.rollup : KeyOf(r) = k
             /\ CoveredByDaily(k, new.daily)
  <2>1. PICK r \in db.rollup : KeyOf(r) = k
    BY DEF Good
  <2>2. \E q \in new.rollup : KeyOf(q) = k
    BY <1>1, <2>1 DEF Upsert
  <2> QED
    BY <1>1, <2>2 DEF Good
<1>8. A \subseteq new.raw /\ R \subseteq new.raw
  BY <1>1 DEF Good
<1> QED
  BY <1>3, <1>4, <1>5, <1>6, <1>7, <1>8 DEF Good

\* A rollup of every metric accounts for every sample it read.
LEMMA RolledUpCovers ==
    ASSUME NEW db \in Database, NEW A, NEW R, NEW S, Good(db, A, R, S)
    PROVE  Good(RolledUp(db, Metrics), A, db.raw, S)
<1> DEFINE rows == RollupRows(db.raw, Metrics)
           new == RolledUp(db, Metrics)
<1>0. db.raw \in SUBSET Sample
  BY DEF Database
<1>1. new.raw = db.raw /\ new.rollup = Upsert(db.rollup, rows)
  BY DEF RolledUp, Database
<1>2. Good(new, A, R, S)
  BY RolledUpGood
<1>3. ASSUME NEW s \in db.raw, NEW m \in s.metrics
      PROVE  CoveredByRollup(s, m, new.rollup)
  <2>1. m \in Metrics
    BY <1>0 DEF Sample
  <2>2. CoveredByRollup(s, m, rows)
    BY <1>0, <2>1, RollupRowsComplete
  <2> QED
    BY <1>1, <2>2 DEF CoveredByRollup, Upsert
<1> QED
  BY <1>1, <1>2, <1>3 DEF Good

\* A prune takes away only what it declares expired: the rollup row of a sample
\* that is younger than the raw retention is younger than the rollup retention.
LEMMA PrunedGood ==
    ASSUME NEW db \in Database, NEW A, NEW R, NEW S, NEW t \in Nat,
           A \subseteq Sample, R \subseteq Sample, S \subseteq Key,
           Good(db, A, R, S)
    PROVE  /\ Pruned(db, t) \in Database
           /\ Good(Pruned(db, t), Unexpired(A, t), Unexpired(R, t),
                   UnexpiredKeys(S, t))
<1> DEFINE new == Pruned(db, t)
<1>0. db.raw \in SUBSET Sample /\ db.rollup \in SUBSET RollupRow
  BY DEF Database
<1>1. /\ new.raw = {s \in db.raw : s.ts >= t - RawRetention}
      /\ new.rollup = {r \in db.rollup : r.bucket >= t - RollupRetention}
      /\ new.daily = db.daily
  BY DEF Pruned, RawPruned, Database
<1>2. new \in Database
  BY <1>0 DEF Pruned, RawPruned, Database
<1>3. Unexpired(A, t) \subseteq new.raw /\ Unexpired(R, t) \subseteq new.raw
  BY <1>1 DEF Good, Unexpired
<1>4. ASSUME NEW s \in Unexpired(R, t), NEW m \in s.metrics
      PROVE  CoveredByRollup(s, m, new.rollup)
  <2>1. s \in R /\ s \in Sample /\ s.ts >= t - RawRetention
    BY DEF Unexpired
  <2>2. PICK r \in db.rollup : /\ r.bucket = BucketStart(s.ts, RollupBucket)
                               /\ r.metric = m
                               /\ s \in r.src
    BY <2>1 DEF Good, CoveredByRollup
  <2>3. s.ts \in Nat /\ s.ts < r.bucket + RollupBucket /\ r.bucket \in Nat
    BY <2>1, <2>2, BucketStartBounds, StoreAssumption DEF Sample
  <2>4. r.bucket >= t - RollupRetention
    BY <2>1, <2>3, StoreAssumption
  <2> QED
    BY <1>1, <2>2, <2>4 DEF CoveredByRollup
<1>5. ASSUME NEW k \in UnexpiredKeys(S, t)
      PROVE  /\ \E r \in new.rollup : KeyOf(r) = k
             /\ CoveredByDaily(k, new.daily)
  <2>1. k \in S /\ k.bucket >= t - RollupRetention
    BY DEF UnexpiredKeys
  <2>2. PICK r \in db.rollup : KeyOf(r) = k
    BY <2>1 DEF Good
  <2>3. r.bucket = k.bucket
    BY <2>2 DEF KeyOf
  <2> QED
    BY <1>1, <2>1, <2>2, <2>3 DEF Good
<1>6. /\ \A r \in new.rollup : RollupRowSound(r)
      /\ \A r1, r2 \in new.rollup : KeyOf(r1) = KeyOf(r2) => r1 = r2
  BY <1>1 DEF Good
<1> QED
  BY <1>2, <1>3, <1>4, <1>5, <1>6 DEF Good

\* The same when the transaction stops after the raw rows.
LEMMA RawPrunedGood ==
    ASSUME NEW db \in Database, NEW A, NEW R, NEW S, NEW t \in Nat,
           Good(db, A, R, S)
    PROVE  /\ RawPruned(db, t) \in Database
           /\ Good(RawPruned(db, t), Unexpired(A, t), Unexpired(R, t), S)
<1>1. /\ RawPruned(db, t) \in Database
      /\ RawPruned(db, t).raw = {s \in db.raw : s.ts >= t - RawRetention}
      /\ RawPruned(db, t).rollup = db.rollup
      /\ RawPruned(db, t).daily = db.daily
  BY DEF RawPruned, Database
<1> QED
  BY <1>1 DEF Good, Unexpired

\* A daily rollup replaces a row only by one computed from the current 15-minute
\* rows, among which every key still to account for is found.
LEMMA DailyRolledUpGood ==
    ASSUME NEW db \in Database, NEW A, NEW R, NEW S, Good(db, A, R, S),
           NEW M \in SUBSET Metrics, S \subseteq Key
    PROVE  /\ DailyRolledUp(db, M) \in Database
           /\ Good(DailyRolledUp(db, M), A, R, S)
<1> DEFINE rows == DailyRows(db.rollup, M)
           new == DailyRolledUp(db, M)
<1>0. db.rollup \in SUBSET RollupRow /\ db.daily \in SUBSET DailyRow
  BY DEF Database
<1>1. /\ new.raw = db.raw
      /\ new.rollup = db.rollup
      /\ new.daily = Upsert(db.daily, rows)
  BY DEF DailyRolledUp, Database
<1>2. \A d \in rows : d \in DailyRow /\ d.metric \in M
  BY <1>0, DailyRowsSound
<1>3. new \in Database
  BY <1>0, <1>2 DEF DailyRolledUp, Database, Upsert
<1>4. ASSUME NEW k \in S
      PROVE  CoveredByDaily(k, new.daily)
  <2>1. PICK r \in db.rollup : KeyOf(r) = k
    BY DEF Good
  <2>2. CASE k.metric \in M
    <3>1. r.metric \in M
      BY <2>1, <2>2 DEF KeyOf
    <3>2. CoveredByDaily(k, rows)
      BY <1>0, <2>1, <3>1, DailyRowsComplete
    <3> QED
      BY <1>1, <3>2 DEF CoveredByDaily, Upsert
  <2>3. CASE k.metric \notin M
    <3>1. PICK d \in db.daily :
              /\ d.bucket = BucketStart(k.bucket, DailyBucket)
              /\ d.metric = k.metric
              /\ \E q \in d.src : KeyOf(q) = k
      BY DEF Good, CoveredByDaily
    <3>2. d \in new.daily
      BY <1>1, <1>2, <2>3, <3>1 DEF Upsert, KeyOf
    <3> QED
      BY <3>1, <3>2 DEF CoveredByDaily
  <2> QED
    BY <2>2, <2>3
<1> QED
  BY <1>1, <1>3, <1>4 DEF Good

\* A daily rollup of every metric accounts for every rollup row it read.
LEMMA DailyRolledUpCovers ==
    ASSUME NEW db \in Database, NEW A, NEW R, NEW S, Good(db, A, R, S)
    PROVE  Good(DailyRolledUp(db, Metrics), A, R,
                {KeyOf(r) : r \in db.rollup})
<1> DEFINE rows == DailyRows(db.rollup, Metrics)
           new == DailyRolledUp(db, Metrics)
<1>0. db.rollup \in SUBSET RollupRow
  BY DEF Database
<1>1. /\ new.raw = db.raw
      /\ new.rollup = db.rollup
      /\ new.daily = Upsert(db.daily, rows)
  BY DEF DailyRolledUp, Database
<1>2. ASSUME NEW r \in db.rollup
      PROVE  CoveredByDaily(KeyOf(r), new.daily)
  <2>1. r.metric \in Metrics
    BY <1>0 DEF RollupRow
  <2>2. CoveredByDaily(KeyOf(r), rows)
    BY <1>0, <2>1, DailyRowsComplete
  <2> QED
    BY <1>1, <2>2 DEF CoveredByDaily, Upsert
<1> QED
  BY <1>1, <1>2 DEF Good

\* A daily row outlives the 15-minute rows of its day.
LEMMA DailyPrunedGood ==
    ASSUME NEW db \in Database, NEW A, NEW R, NEW S, NEW t \in Nat,
           S \subseteq Key, Good(db, A, R, S)
    PROVE  /\ DailyPruned(db, t) \in Database
           /\ Good(DailyPruned(db, t), A, R, UnexpiredKeys(S, t))
<1> DEFINE new == DailyPruned(db, t)
<1>1. /\ new \in Database
      /\ new.raw = db.raw
      /\ new.rollup = db.rollup
      /\ new.daily = {d \in db.daily : d.bucket >= t - DailyRetention}
  BY DEF DailyPruned, Database
<1>2. ASSUME NEW k \in UnexpiredKeys(S, t)
      PROVE  CoveredByDaily(k, new.daily)
  <2>1. k \in S /\ k \in Key /\ k.bucket >= t - RollupRetention
    BY DEF UnexpiredKeys
  <2>2. PICK d \in db.daily : /\ d.bucket = BucketStart(k.bucket, DailyBucket)
                              /\ d.metric = k.metric
                              /\ \E q \in d.src : KeyOf(q) = k
    BY <2>1 DEF Good, CoveredByDaily
  <2>3. /\ k.bucket \in Nat
        /\ k.bucket < d.bucket + DailyBucket
        /\ d.bucket \in Nat
    BY <2>1, <2>2, BucketStartBounds, StoreAssumption DEF Key
  <2>4. d.bucket >= t - DailyRetention
    BY <2>1, <2>3, StoreAssumption
  <2> QED
    BY <1>1, <2>2, <2>4 DEF CoveredByDaily
<1>3. UnexpiredKeys(S, t) \subseteq S
  BY DEF UnexpiredKeys
<1> QED
  BY <1>1, <1>2, <1>3 DEF Good

-----------------------------------------------------------------------------
\* One lemma per operation: it keeps the inductive invariant, however it ends,
\* at any clock reading.

\* A sample is written, or the insert or its commit fails.
LEMMA WriteSampleInv ==
    ASSUME StoreIInv, NEW t \in Nat, NEW metrics \in SUBSET Metrics,
           WriteSample(t, metrics) \/ WriteSampleFails(t, metrics)
    PROVE  StoreIInv'
<1> DEFINE s == NewSample(t, metrics)
<1>0. StoreTypeOK /\ s \in Sample
  BY DEF StoreIInv, StoreTypeOK, NewSample, Sample
<1>1. /\ Insert(view, s) \in Database
      /\ Good(Insert(view, s), acked \cup {s}, rolled, summarised)
  BY <1>0, InsertGood DEF StoreIInv, StoreTypeOK
<1>2. CASE WriteSample(t, metrics)
  BY <1>0, <1>1, <1>2
     DEF StoreIInv, StoreTypeOK, WriteSample, Commit
<1>3. CASE WriteSampleFails(t, metrics)
  <2>1. Good(Insert(view, s), acked, rolled, summarised)
    BY <1>1, GoodMonotone
  <2> QED
    BY <1>0, <1>1, <1>3, <2>1
       DEF StoreIInv, StoreTypeOK, WriteSampleFails, Fail
<1> QED
  BY <1>2, <1>3

\* A rollup is committed, or stops after some of the metrics.
LEMMA RollupInv ==
    ASSUME StoreIInv, Rollup \/ RollupFails
    PROVE  StoreIInv'
<1>0. StoreTypeOK
  BY DEF StoreIInv
<1>1. CASE Rollup
  <2>1. /\ RolledUp(view, Metrics) \in Database
        /\ Good(RolledUp(view, Metrics), acked, view.raw, summarised)
    BY <1>0, RolledUpGood, RolledUpCovers DEF StoreIInv, StoreTypeOK
  <2>2. view.raw \subseteq Sample
    BY <1>0 DEF StoreTypeOK, Database
  <2> QED
    BY <1>0, <1>1, <2>1, <2>2 DEF StoreIInv, StoreTypeOK, Rollup, Commit
<1>2. CASE RollupFails
  <2>1. view' = disk \/ \E done \in SUBSET Metrics : view' = RolledUp(view, done)
    BY <1>2 DEF RollupFails, Fail
  <2>2. view' \in Database /\ Good(view', acked, rolled, summarised)
    BY <1>0, <2>1, RolledUpGood DEF StoreIInv, StoreTypeOK
  <2> QED
    BY <1>0, <1>2, <2>2 DEF StoreIInv, StoreTypeOK, RollupFails, Fail
<1> QED
  BY <1>1, <1>2

\* A prune is committed, or stops after none, one or both of its statements.
LEMMA PruneInv ==
    ASSUME StoreIInv, NEW t \in Nat, Prune(t) \/ PruneFails(t)
    PROVE  StoreIInv'
<1> DEFINE A == Unexpired(acked, t)
           R == Unexpired(rolled, t)
           S == UnexpiredKeys(summarised, t)
<1>0. /\ StoreTypeOK
      /\ A \subseteq acked /\ R \subseteq rolled /\ S \subseteq summarised
      /\ A \subseteq Sample /\ R \subseteq Sample /\ S \subseteq Key
  BY DEF StoreIInv, StoreTypeOK, Unexpired, UnexpiredKeys
<1>1. Pruned(view, t) \in Database /\ Good(Pruned(view, t), A, R, S)
  BY <1>0, PrunedGood DEF StoreIInv, StoreTypeOK
<1>2. RawPruned(view, t) \in Database /\ Good(RawPruned(view, t), A, R, S)
  <2>1. /\ RawPruned(view, t) \in Database
        /\ Good(RawPruned(view, t), A, R, summarised)
    BY <1>0, RawPrunedGood DEF StoreIInv, StoreTypeOK
  <2> QED
    BY <1>0, <2>1, GoodMonotone
<1>3. Good(view, A, R, S) /\ Good(disk, A, R, S)
  BY <1>0, GoodMonotone DEF StoreIInv
<1>4. CASE Prune(t)
  BY <1>0, <1>1, <1>4 DEF StoreIInv, StoreTypeOK, Prune, Commit
<1>5. CASE PruneFails(t)
  BY <1>0, <1>1, <1>2, <1>3, <1>5
     DEF StoreIInv, StoreTypeOK, PruneFails, Fail
<1> QED
  BY <1>4, <1>5

\* A daily rollup is committed, or stops after some of the metrics.
LEMMA RollupDailyInv ==
    ASSUME StoreIInv, RollupDaily \/ RollupDailyFails
    PROVE  StoreIInv'
<1>0. StoreTypeOK /\ summarised \subseteq Key
  BY DEF StoreIInv, StoreTypeOK
<1>1. CASE RollupDaily
  <2>1. /\ DailyRolledUp(view, Metrics) \in Database
        /\ Good(DailyRolledUp(view, Metrics), acked, rolled,
                {KeyOf(r) : r \in view.rollup})
    BY <1>0, DailyRolledUpGood, DailyRolledUpCovers
       DEF StoreIInv, StoreTypeOK
  <2>2. {KeyOf(r) : r \in view.rollup} \subseteq Key
    BY <1>0 DEF StoreTypeOK, Database, RollupRow, KeyOf, Key
  <2> QED
    BY <1>0, <1>1, <2>1, <2>2
       DEF StoreIInv, StoreTypeOK, RollupDaily, Commit
<1>2. CASE RollupDailyFails
  <2>1. \/ view' = disk
        \/ \E done \in SUBSET Metrics : view' = DailyRolledUp(view, done)
    BY <1>2 DEF RollupDailyFails, Fail
  <2>2. view' \in Database /\ Good(view', acked, rolled, summarised)
    BY <1>0, <2>1, DailyRolledUpGood DEF StoreIInv, StoreTypeOK
  <2> QED
    BY <1>0, <1>2, <2>2 DEF StoreIInv, StoreTypeOK, RollupDailyFails, Fail
<1> QED
  BY <1>1, <1>2

\* A daily prune is committed, or its statement or commit fails.
LEMMA PruneDailyInv ==
    ASSUME StoreIInv, NEW t \in Nat, PruneDaily(t) \/ PruneDailyFails(t)
    PROVE  StoreIInv'
<1> DEFINE S == UnexpiredKeys(summarised, t)
<1>0. StoreTypeOK /\ S \subseteq summarised /\ S \subseteq Key
  BY DEF StoreIInv, StoreTypeOK, UnexpiredKeys
<1>1. DailyPruned(view, t) \in Database /\ Good(DailyPruned(view, t), acked, rolled, S)
  BY <1>0, DailyPrunedGood DEF StoreIInv, StoreTypeOK
<1>2. Good(view, acked, rolled, S) /\ Good(disk, acked, rolled, S)
  BY <1>0, GoodMonotone DEF StoreIInv
<1>3. CASE PruneDaily(t)
  BY <1>0, <1>1, <1>3 DEF StoreIInv, StoreTypeOK, PruneDaily, Commit
<1>4. CASE PruneDailyFails(t)
  BY <1>0, <1>1, <1>2, <1>4 DEF StoreIInv, StoreTypeOK, PruneDailyFails, Fail
<1> QED
  BY <1>3, <1>4

\* A close or a crash drops the open transaction; an open reads the disk.
LEMMA OpenCloseInv ==
    ASSUME StoreIInv, Open \/ OpenFails \/ Close
    PROVE  StoreIInv'
BY StoreAssumption DEF StoreIInv, StoreTypeOK, Open, OpenFails, Close

\* The inductive invariant holds of an empty store.
LEMMA StoreInitInv == StoreInit => StoreIInv
BY DEF StoreInit, StoreIInv, StoreTypeOK, Database, EmptyDatabase, Good

\* Every step of the store's client keeps it.
LEMMA StoreNextInv == StoreIInv /\ [StoreNext]_storeVars => StoreIInv'
<1> SUFFICES ASSUME StoreIInv, [StoreNext]_storeVars
             PROVE  StoreIInv'
  OBVIOUS
<1>0. Times \subseteq Nat
  BY StoreAssumption
<1>1. ASSUME NEW t \in Times, NEW metrics \in SUBSET Metrics,
             WriteSample(t, metrics) \/ WriteSampleFails(t, metrics)
      PROVE  StoreIInv'
  BY <1>0, <1>1, WriteSampleInv
<1>2. CASE Rollup \/ RollupFails
  BY <1>2, RollupInv
<1>3. ASSUME NEW t \in Times, Prune(t) \/ PruneFails(t)
      PROVE  StoreIInv'
  BY <1>0, <1>3, PruneInv
<1>4. CASE RollupDaily \/ RollupDailyFails
  BY <1>4, RollupDailyInv
<1>5. ASSUME NEW t \in Times, PruneDaily(t) \/ PruneDailyFails(t)
      PROVE  StoreIInv'
  BY <1>0, <1>5, PruneDailyInv
<1>6. CASE Open \/ OpenFails \/ Close
  BY <1>6, OpenCloseInv
<1>7. CASE UNCHANGED storeVars
  BY <1>7 DEF storeVars, StoreIInv, StoreTypeOK, Good
<1> QED
  BY <1>1, <1>2, <1>3, <1>4, <1>5, <1>6, <1>7 DEF StoreNext

\* So it holds always.
LEMMA StoreInvariant == StoreSpec => []StoreIInv
BY StoreInitInv, StoreNextInv, PTL DEF StoreSpec

-----------------------------------------------------------------------------
\* The store's state always has its declared shape.
THEOREM StoreTypeCorrect == StoreSpec => []StoreTypeOK
<1>1. StoreIInv => StoreTypeOK
  BY DEF StoreIInv
<1> QED
  BY <1>1, StoreInvariant, PTL

\* An acknowledged, unexpired sample is durable: storage.py's write_sample
\* answers True only after its commit, and nothing but the age bound of prune
\* deletes raw rows, whatever fails in between.
THEOREM AckedDurability == StoreSpec => []AckedDurable
<1>1. StoreIInv => AckedDurable
  BY DEF StoreIInv, Good, AckedDurable
<1> QED
  BY <1>1, StoreInvariant, PTL

\* The rollup table never mixes buckets or metrics and keeps its primary key.
THEOREM RollupSoundness == StoreSpec => []RollupSound
<1>1. StoreIInv => RollupSound
  BY DEF StoreIInv, Good, RollupSound
<1> QED
  BY <1>1, StoreInvariant, PTL

\* A live sample that a rollup aggregated stays in its durable rollup row.
THEOREM RolledVisibility == StoreSpec => []RolledStaysVisible
<1>1. StoreIInv => RolledStaysVisible
  BY DEF StoreIInv, Good, RolledStaysVisible
<1> QED
  BY <1>1, StoreInvariant, PTL

\* A live rollup row that a daily rollup aggregated stays in its daily row.
THEOREM SummarisedVisibility == StoreSpec => []SummarisedStaysVisible
<1>1. StoreIInv => SummarisedStaysVisible
  BY DEF StoreIInv, Good, SummarisedStaysVisible
<1> QED
  BY <1>1, StoreInvariant, PTL
=============================================================================
