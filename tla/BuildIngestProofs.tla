------------------------- MODULE BuildIngestProofs -------------------------
(***************************************************************************)
(* Proofs about BuildIngest for any rows of prow_jobs, events, URLs, order of *)
(* delivery, batch size and number of failures.                              *)
(***************************************************************************)
EXTENDS BuildIngest, SequenceTheorems, FiniteSetTheorems, WellFoundedInduction, TLAPS

\* What the worker does to a table a: rows are added, and a row without a prow job
\* may get one.
Kept(a, b) ==
  /\ Len(a) <= Len(b)
  /\ \A i \in 1..Len(a) :
       /\ b[i].url = a[i].url /\ a[i].of \subseteq b[i].of
       /\ b[i].blind = a[i].blind /\ b[i].taken = a[i].taken
       /\ a[i].job # Null => b[i].job = a[i].job

\* What both writers do to it: a new URL or another prow job leaves its mark.
Grown(a, b) ==
  /\ Len(a) <= Len(b)
  /\ \A i \in 1..Len(a) :
       /\ a[i].of \subseteq b[i].of
       /\ a[i].blind => b[i].blind
       /\ a[i].taken => b[i].taken
       /\ b[i].url = a[i].url \/ b[i].blind
       /\ a[i].job # Null => b[i].job # Null /\ (b[i].job = a[i].job \/ b[i].taken)

\* Each writer's snapshot is older than the table only by what the other did.
SnapshotsKept == Kept(sync.snap, builds) /\ Grown(worker.snap, builds)

\* The batch in hand is the next one, without a gap.
BatchIsNext ==
  /\ sync.pc \in {"read", "write"} => sync.at = watermark
  /\ sync.pc = "write" =>
       \A j \in sync.batch : sync.at < j /\ (sync.at + 1)..j \subseteq sync.batch

\* SyncedIsStored, and the row was not only named by an event for a later prow job,
\* which the sync job would move to that prow job's URL.
StoredInRange ==
  \A j \in 1..watermark : j \notin Malformed \cup dropped =>
    \E i \in 1..Len(builds) :
      /\ builds[i].url = UrlOf[j] /\ builds[i].job \in Jobs
      /\ j <= builds[i].job /\ builds[i].job <= watermark

IInv == /\ TypeOK /\ SnapshotsKept /\ BatchIsNext /\ StoredInRange
        /\ UnresolvedIsAlone /\ ProcessedIsBuilt

-----------------------------------------------------------------------------
(* Sets of numbers, and SetToSeq. *)

LEMMA NumbersFinite ==
  ASSUME NEW n \in Nat, NEW S \in SUBSET (1..n)
  PROVE  IsFiniteSet(S)
<1>1. IsFiniteSet(1..n) BY FS_Interval
<1>2. QED BY <1>1, FS_Subset

\* A sequence made of a finite set has its elements and no other.
LEMMA SeqOfSet ==
  ASSUME NEW S, IsFiniteSet(S)
  PROVE  /\ Cardinality(S) \in Nat
         /\ SetToSeq(S) \in [1..Cardinality(S) -> S]
         /\ \A s \in S : \E n \in 1..Cardinality(S) : SetToSeq(S)[n] = s
         /\ \A m, n \in 1..Cardinality(S) : SetToSeq(S)[m] = SetToSeq(S)[n] => m = n
<1> DEFINE N == 1..Cardinality(S)
<1>1. Cardinality(S) \in Nat /\ ExistsBijection(N, S) BY FS_CardinalityType
<1>2. PICK f \in Bijection(N, S) : TRUE BY <1>1 DEF ExistsBijection
<1>3. f \in [N -> S] /\ IsInjective(f)
  BY <1>2 DEF Bijection, Injection, IsInjective
<1>4. SetToSeq(S) \in [N -> S] /\ IsInjective(SetToSeq(S))
  BY <1>3 DEF SetToSeq
<1>5. SetToSeq(S) \in Injection(N, S)
  BY <1>4 DEF Injection, IsInjective
<1>6. IsFiniteSet(N) /\ Cardinality(N) = Cardinality(S)
  BY <1>1, FS_Interval
<1>7. SetToSeq(S) \in Surjection(N, S)
  BY <1>5, <1>6, FS_Injection
<1>8. \A m, n \in N : SetToSeq(S)[m] = SetToSeq(S)[n] => m = n
  BY <1>4 DEF IsInjective
<1>9. QED BY <1>1, <1>4, <1>7, <1>8 DEF Surjection

LEMMA LeastNumber ==
  ASSUME NEW S \in SUBSET Nat, S # {}
  PROVE  \E i \in S : \A j \in S : i <= j
<1> DEFINE T == {0..i : i \in S}
<1>1. \A i \in S : 0..i \in FiniteSubsetsOf(Nat)
  BY FS_Interval DEF FiniteSubsetsOf
<1>2. T \subseteq FiniteSubsetsOf(Nat) /\ T # {} BY <1>1
<1>3. IsWellFoundedOn(StrictSubsetOrdering(Nat), FiniteSubsetsOf(Nat))
  BY FS_StrictSubsetOrderingWellFounded
<1>4. PICK t \in T : \A u \in T : ~ (<<u, t>> \in StrictSubsetOrdering(Nat))
  BY <1>2, <1>3, WFMin
<1>5. PICK i \in S : t = 0..i BY <1>4
<1>6. \A j \in S : i <= j
  <2> SUFFICES ASSUME NEW j \in S, ~(i <= j) PROVE FALSE OBVIOUS
  <2>1. i \in Nat /\ j \in Nat /\ j < i OBVIOUS
  <2>2. 0..j \subseteq 0..i /\ i \in 0..i /\ i \notin 0..j BY <2>1
  <2>3. 0..j \in SUBSET Nat /\ 0..i \in SUBSET Nat BY <2>1
  <2>4. <<0..j, 0..i>> \in StrictSubsetOrdering(Nat)
    BY <2>2, <2>3 DEF StrictSubsetOrdering
  <2>5. QED BY <1>4, <1>5, <2>4
<1>7. QED BY <1>6

LEMMA OldestIn ==
  ASSUME NEW n \in Nat, NEW S \in SUBSET (1..n), S # {}
  PROVE  Oldest(S) \in S
<1>1. S \in SUBSET Nat OBVIOUS
<1>2. \E i \in S : \A j \in S : i <= j BY <1>1, LeastNumber
<1>3. QED BY <1>2 DEF Oldest

LEMMA LastOfIn ==
  ASSUME NEW n \in Nat, NEW S \in SUBSET (1..n), S # {}
  PROVE  LastOf(S) \in S /\ \A j \in S : j <= LastOf(S)
<1> DEFINE D == {n - j : j \in S}
<1>1. D \in SUBSET Nat /\ D # {}
  <2>1. \A j \in S : n - j \in Nat OBVIOUS
  <2>2. QED BY <2>1
<1>2. PICK d \in D : \A c \in D : d <= c BY <1>1, LeastNumber
<1>3. PICK i \in S : d = n - i BY <1>2
<1>4. \A j \in S : j <= i
  <2> TAKE j \in S
  <2>1. n - i <= n - j BY <1>2, <1>3
  <2>2. i \in Nat /\ j \in Nat OBVIOUS
  <2>3. QED BY <2>1, <2>2
<1>5. QED BY <1>4 DEF LastOf

-----------------------------------------------------------------------------
(* Tables *)

LEMMA JobsAreNumbers ==
  Jobs \subseteq Nat /\ Null \notin Jobs /\ (\A j \in Jobs : j \notin Events)
BY BuildIngestAssumption DEF BuildIngestAssumption, Jobs

LEMMA JobTyped == \A x \in Jobs \cup Events : Job(x) \in Jobs \cup {Null}
BY BuildIngestAssumption DEF BuildIngestAssumption, Job

LEMMA KeptIsGrown ==
  ASSUME NEW a \in Table, NEW b \in Table, Kept(a, b)
  PROVE  Grown(a, b)
BY DEF Kept, Grown

LEMMA KeptTrans ==
  ASSUME NEW a \in Table, NEW b \in Table, NEW c \in Table, Kept(a, b), Kept(b, c)
  PROVE  Kept(a, c)
<1>1. Len(a) \in Nat /\ Len(b) \in Nat /\ Len(c) \in Nat BY DEF Table
<1>2. \A i \in 1..Len(a) : i \in 1..Len(b) BY <1>1 DEF Kept
<1>3. QED BY <1>1, <1>2 DEF Kept

LEMMA GrownTrans ==
  ASSUME NEW a \in Table, NEW b \in Table, NEW c \in Table, Grown(a, b), Grown(b, c)
  PROVE  Grown(a, c)
<1>1. Len(a) \in Nat /\ Len(b) \in Nat /\ Len(c) \in Nat BY DEF Table
<1>2. \A i \in 1..Len(a) : i \in 1..Len(b) BY <1>1 DEF Grown
<1>3. Len(a) <= Len(c) BY <1>1 DEF Grown
<1>4. ASSUME NEW i \in 1..Len(a)
      PROVE  /\ a[i].of \subseteq c[i].of
             /\ a[i].blind => c[i].blind
             /\ a[i].taken => c[i].taken
             /\ c[i].url = a[i].url \/ c[i].blind
             /\ a[i].job # Null => c[i].job # Null /\ (c[i].job = a[i].job \/ c[i].taken)
  BY <1>2, <1>4 DEF Grown
<1>5. QED BY <1>3, <1>4 DEF Grown

\* The row that x is merged into has its prow job, or its URL and no prow job, or,
\* for an event that names none, its URL; where there is none, none would do.
LEMMA Resolve ==
  ASSUME NEW rows \in Table, NEW x \in Jobs \cup Events
  PROVE  LET t == resolve_merge_target_id(rows, x) IN
         /\ t = 0 \/ t \in 1..Len(rows)
         /\ t # 0 => \/ Job(x) # Null /\ rows[t].job = Job(x)
                     \/ rows[t].url = UrlOf[x] /\ (Job(x) # Null => rows[t].job = Null)
         /\ t = 0 => /\ Unresolved(rows, x) = {}
                     /\ Job(x) # Null => HasJob(rows, Job(x)) = {}
                     /\ Job(x) = Null => ~Single(Resolved(rows, x))
<1> DEFINE exact == IF Job(x) = Null THEN {} ELSE HasJob(rows, Job(x))
           t == resolve_merge_target_id(rows, x)
<1>1. Len(rows) \in Nat /\ DOMAIN rows = 1..Len(rows) BY DEF Table
<1>2. /\ exact \subseteq 1..Len(rows)
      /\ Unresolved(rows, x) \subseteq 1..Len(rows)
      /\ Resolved(rows, x) \subseteq 1..Len(rows)
  BY <1>1 DEF HasJob, WithUrl, Unresolved, Resolved
<1>3. CASE exact # {}
  <2>1. t = Oldest(exact) BY <1>3 DEF resolve_merge_target_id
  <2>2. t \in exact BY <1>1, <1>2, <1>3, <2>1, OldestIn
  <2>3. QED BY <1>1, <1>2, <2>2 DEF HasJob
<1>4. CASE exact = {} /\ Job(x) = Null /\ ~Single(Unresolved(rows, x)) /\ Single(Resolved(rows, x))
  <2>1. t = Oldest(Resolved(rows, x)) BY <1>4 DEF resolve_merge_target_id
  <2>2. Resolved(rows, x) # {} BY <1>4 DEF Single
  <2>3. t \in Resolved(rows, x) BY <1>1, <1>2, <2>1, <2>2, OldestIn
  <2>4. QED BY <1>1, <1>2, <1>4, <2>3 DEF WithUrl, Resolved
<1>5. CASE /\ exact = {}
           /\ ~(Job(x) = Null /\ ~Single(Unresolved(rows, x)) /\ Single(Resolved(rows, x)))
  <2>1. CASE Unresolved(rows, x) # {}
    <3>1. t = Oldest(Unresolved(rows, x)) BY <1>5, <2>1 DEF resolve_merge_target_id
    <3>2. t \in Unresolved(rows, x) BY <1>1, <1>2, <2>1, <3>1, OldestIn
    <3>3. QED BY <1>1, <1>2, <3>2 DEF WithUrl, HasJob, Unresolved
  <2>2. CASE Unresolved(rows, x) = {}
    <3>1. t = 0 BY <1>5, <2>2 DEF resolve_merge_target_id
    <3>2. ~Single(Unresolved(rows, x)) BY <2>2 DEF Single
    <3>3. QED BY <1>5, <2>2, <3>1, <3>2
  <2>3. QED BY <2>1, <2>2
<1>6. QED BY <1>3, <1>4, <1>5

-----------------------------------------------------------------------------
(* The two statements of the sync job's transaction. *)

RowChanged == [i \in DOMAIN builds |->
                 IF AfterUpdates[i].job \in Batch \ Updates
                   THEN Overwrite(AfterUpdates[i], AfterUpdates[i].job)
                   ELSE AfterUpdates[i]]
New == {j \in Batch \ Updates : HasJob(AfterUpdates, j) = {}}
RowsAdded == [n \in DOMAIN SetToSeq(New) |-> NewRow(sync.snap, SetToSeq(New)[n])]

LEMMA UpsertsInTwo == AfterUpserts = RowChanged \o RowsAdded
BY DEF AfterUpserts, RowChanged, RowsAdded, New

LEMMA OverwriteTyped ==
  ASSUME NEW row \in Row, NEW j \in Jobs
  PROVE  /\ Overwrite(row, j) \in Row
         /\ Overwrite(row, j).job = j /\ Overwrite(row, j).url = UrlOf[j]
         /\ Overwrite(row, j).of = row.of
         /\ Overwrite(row, j).blind <=> (row.blind \/ row.url # UrlOf[j])
         /\ Overwrite(row, j).taken <=> (row.taken \/ row.job \notin {Null, j})
<1>1. UrlOf[j] \in Urls BY DEF Urls
<1>2. (row.blind \/ row.url # UrlOf[j]) \in BOOLEAN
      /\ (row.taken \/ row.job \notin {Null, j}) \in BOOLEAN OBVIOUS
<1>3. row.of \in SUBSET Events BY DEF Row
<1>4. QED BY <1>1, <1>2, <1>3 DEF Row, Overwrite

LEMMA NewRowTyped ==
  ASSUME NEW snap, NEW x \in Jobs \cup Events
  PROVE  /\ NewRow(snap, x) \in Row
         /\ NewRow(snap, x).job = Job(x) /\ NewRow(snap, x).url = UrlOf[x]
         /\ NewRow(snap, x).of = {x} \cap Events
         /\ NewRow(snap, x).blind <=> (WithUrl(builds, UrlOf[x]) # WithUrl(snap, UrlOf[x]))
<1>1. UrlOf[x] \in Urls BY DEF Urls
<1>2. Job(x) \in Jobs \cup {Null} BY JobTyped
<1>3. (WithUrl(builds, UrlOf[x]) # WithUrl(snap, UrlOf[x])) \in BOOLEAN OBVIOUS
<1>4. QED BY <1>1, <1>2, <1>3 DEF Row, NewRow

\* What the job holds when it writes.
Writing == /\ builds \in Table /\ sync.snap \in Table /\ Kept(sync.snap, builds)
           /\ top \in Nat /\ 1..top \subseteq Jobs
           /\ sync.batch \in SUBSET (1..top) /\ sync.batch # {}

LEMMA WritingTrue == ASSUME IInv, sync.pc = "write" PROVE Writing
BY DEF IInv, TypeOK, SnapshotsKept, Writing

LEMMA BatchTyped ==
  ASSUME Writing
  PROVE  /\ Batch \subseteq 1..top /\ Batch \subseteq Jobs
         /\ Updates \subseteq Batch
         /\ \A i : UpdatesOf(i) \subseteq Updates
         /\ IsFiniteSet(New)
<1>1. Batch \subseteq 1..top /\ Batch \subseteq Jobs BY DEF Writing, Batch
<1>2. Updates \subseteq Batch /\ \A i : UpdatesOf(i) \subseteq Updates
  BY DEF Updates, UpdatesOf
<1>3. IsFiniteSet(New)
  <2>1. New \in SUBSET (1..top) BY <1>1 DEF New
  <2>2. QED BY <2>1, NumbersFinite DEF Writing
<1>4. QED BY <1>1, <1>2, <1>3

\* The last update of a row is by a row of the batch that aims at it.
LEMMA LastUpdate ==
  ASSUME Writing, NEW i, UpdatesOf(i) # {}
  PROVE  LET k == LastOf(UpdatesOf(i)) IN
         /\ k \in Updates /\ k \in Batch /\ k \in Jobs /\ Aim(k) = i
         /\ \A j \in UpdatesOf(i) : j <= k
         /\ i \in 1..Len(sync.snap) /\ i \in 1..Len(builds)
         /\ \/ sync.snap[i].job = k
            \/ sync.snap[i].url = UrlOf[k] /\ sync.snap[i].job = Null
<1> DEFINE k == LastOf(UpdatesOf(i))
<1>1. UpdatesOf(i) \in SUBSET (1..top) BY BatchTyped
<1>2. k \in UpdatesOf(i) /\ \A j \in UpdatesOf(i) : j <= k
  BY <1>1, LastOfIn DEF Writing
<1>3. k \in Updates /\ k \in Batch /\ k \in Jobs /\ Aim(k) = i /\ Aim(k) # 0
  BY <1>2, BatchTyped DEF UpdatesOf, Updates
<1>4. Job(k) = k /\ k # Null BY <1>3, JobsAreNumbers DEF Job
<1>5. /\ i \in 1..Len(sync.snap)
      /\ \/ sync.snap[i].job = k
         \/ sync.snap[i].url = UrlOf[k] /\ sync.snap[i].job = Null
  BY <1>3, <1>4, Resolve DEF Aim, Writing
<1>6. i \in 1..Len(builds)
  <2>1. Len(sync.snap) \in Nat /\ Len(builds) \in Nat BY DEF Writing, Table
  <2>2. QED BY <1>5, <2>1 DEF Writing, Kept
<1>7. QED BY <1>2, <1>3, <1>5, <1>6

LEMMA UpdatesTyped ==
  ASSUME Writing
  PROVE  /\ AfterUpdates \in Table /\ Len(AfterUpdates) = Len(builds)
         /\ \A i \in 1..Len(builds) :
              AfterUpdates[i] = IF UpdatesOf(i) = {} THEN builds[i]
                                ELSE Overwrite(builds[i], LastOf(UpdatesOf(i)))
<1>1. Len(builds) \in Nat /\ DOMAIN builds = 1..Len(builds)
      /\ \A i \in 1..Len(builds) : builds[i] \in Row
  BY DEF Writing, Table
<1>2. \A i \in 1..Len(builds) :
        (IF UpdatesOf(i) = {} THEN builds[i]
         ELSE Overwrite(builds[i], LastOf(UpdatesOf(i)))) \in Row
  <2> TAKE i \in 1..Len(builds)
  <2>1. CASE UpdatesOf(i) = {} BY <1>1, <2>1
  <2>2. CASE UpdatesOf(i) # {}
    <3>1. LastOf(UpdatesOf(i)) \in Jobs BY <2>2, LastUpdate
    <3>2. QED BY <1>1, <2>2, <3>1, OverwriteTyped
  <2>3. QED BY <2>1, <2>2
<1>3. AfterUpdates \in [1..Len(builds) -> Row] BY <1>1, <1>2 DEF AfterUpdates
<1>4. AfterUpdates \in Seq(Row) /\ Len(AfterUpdates) = Len(builds) BY <1>1, <1>3
<1>5. QED BY <1>1, <1>4 DEF AfterUpdates, Table

LEMMA AddedTyped ==
  ASSUME Writing
  PROVE  /\ RowsAdded \in Table /\ Len(RowsAdded) = Cardinality(New)
         /\ \A n \in 1..Len(RowsAdded) :
              \E j \in New : RowsAdded[n] = NewRow(sync.snap, j)
         /\ \A j \in New :
              \E n \in 1..Len(RowsAdded) : RowsAdded[n] = NewRow(sync.snap, j)
<1>1. /\ Cardinality(New) \in Nat
      /\ SetToSeq(New) \in [1..Cardinality(New) -> New]
      /\ \A j \in New : \E n \in 1..Cardinality(New) : SetToSeq(New)[n] = j
  BY BatchTyped, SeqOfSet
<1>2. New \subseteq Jobs \cup Events BY BatchTyped DEF New
<1>3. \A n \in 1..Cardinality(New) : NewRow(sync.snap, SetToSeq(New)[n]) \in Row
  BY <1>1, <1>2, NewRowTyped
<1>4. /\ RowsAdded \in [1..Cardinality(New) -> Row]
      /\ \A n \in 1..Cardinality(New) : RowsAdded[n] = NewRow(sync.snap, SetToSeq(New)[n])
  BY <1>1, <1>3 DEF RowsAdded
<1>5. RowsAdded \in Seq(Row) /\ Len(RowsAdded) = Cardinality(New) BY <1>1, <1>4
<1>6. QED BY <1>1, <1>4, <1>5 DEF Table

\* An old row is overwritten by a row of the batch that aims at it or that has the
\* prow job it has, or it is left alone.
LEMMA ChangedTyped ==
  ASSUME Writing
  PROVE  /\ RowChanged \in Table /\ Len(RowChanged) = Len(builds)
         /\ \A i \in 1..Len(builds) :
              \/ RowChanged[i] = builds[i]
                 /\ UpdatesOf(i) = {} /\ builds[i].job \notin Batch \ Updates
              \/ /\ UpdatesOf(i) # {}
                 /\ RowChanged[i] = Overwrite(builds[i], LastOf(UpdatesOf(i)))
              \/ /\ UpdatesOf(i) = {} /\ builds[i].job \in Batch \ Updates
                 /\ RowChanged[i] = Overwrite(builds[i], builds[i].job)
<1> DEFINE Fate(i) ==
      \/ RowChanged[i] = builds[i]
         /\ UpdatesOf(i) = {} /\ builds[i].job \notin Batch \ Updates
      \/ /\ UpdatesOf(i) # {}
         /\ RowChanged[i] = Overwrite(builds[i], LastOf(UpdatesOf(i)))
      \/ /\ UpdatesOf(i) = {} /\ builds[i].job \in Batch \ Updates
         /\ RowChanged[i] = Overwrite(builds[i], builds[i].job)
<1>1. Len(builds) \in Nat /\ DOMAIN builds = 1..Len(builds)
      /\ \A i \in 1..Len(builds) : builds[i] \in Row
  BY DEF Writing, Table
<1>2. \A i \in 1..Len(builds) :
        RowChanged[i] = IF AfterUpdates[i].job \in Batch \ Updates
                          THEN Overwrite(AfterUpdates[i], AfterUpdates[i].job)
                          ELSE AfterUpdates[i]
  BY <1>1 DEF RowChanged
<1>3. ASSUME NEW i \in 1..Len(builds)
      PROVE  Fate(i) /\ RowChanged[i] \in Row
  <2>1. CASE UpdatesOf(i) = {}
    <3>1. AfterUpdates[i] = builds[i] BY <2>1, UpdatesTyped
    <3>2. CASE builds[i].job \in Batch \ Updates
      <4>1. builds[i].job \in Jobs BY <3>2, BatchTyped
      <4>2. QED BY <1>1, <1>2, <2>1, <3>1, <3>2, <4>1, OverwriteTyped
    <3>3. CASE builds[i].job \notin Batch \ Updates BY <1>1, <1>2, <2>1, <3>1, <3>3
    <3>4. QED BY <3>2, <3>3
  <2>2. CASE UpdatesOf(i) # {}
    <3> DEFINE k == LastOf(UpdatesOf(i))
    <3>1. AfterUpdates[i] = Overwrite(builds[i], k) BY <2>2, UpdatesTyped
    <3>2. k \in Updates /\ k \in Jobs BY <2>2, LastUpdate
    <3>3. Overwrite(builds[i], k) \in Row /\ Overwrite(builds[i], k).job = k
      BY <1>1, <3>2, OverwriteTyped
    <3>4. RowChanged[i] = Overwrite(builds[i], k) BY <1>2, <3>1, <3>2, <3>3
    <3>5. QED BY <2>2, <3>3, <3>4
  <2>3. QED BY <2>1, <2>2
<1>4. RowChanged \in [1..Len(builds) -> Row] BY <1>1, <1>3 DEF RowChanged
<1>5. RowChanged \in Seq(Row) /\ Len(RowChanged) = Len(builds) BY <1>1, <1>4
<1>6. QED BY <1>3, <1>5 DEF Table

\* The table after the transaction: the old rows, and one for each new prow job.
LEMMA UpsertsTyped ==
  ASSUME Writing
  PROVE  /\ AfterUpserts \in Table /\ Len(builds) <= Len(AfterUpserts)
         /\ \A i \in 1..Len(builds) : AfterUpserts[i] = RowChanged[i]
         /\ \A i \in 1..Len(AfterUpserts) : i \notin 1..Len(builds) =>
              \E j \in New : AfterUpserts[i] = NewRow(sync.snap, j)
         /\ \A j \in New : \E i \in 1..Len(AfterUpserts) :
              i \notin 1..Len(builds) /\ AfterUpserts[i] = NewRow(sync.snap, j)
<1> DEFINE a == RowChanged
           b == RowsAdded
           c == AfterUpserts
<1>1. a \in Seq(Row) /\ b \in Seq(Row) /\ Len(a) = Len(builds)
  BY ChangedTyped, AddedTyped DEF Table
<1>2. Len(a) \in Nat /\ Len(b) \in Nat BY <1>1
<1>3. c \in Seq(Row) /\ Len(c) = Len(a) + Len(b)
  BY <1>1, UpsertsInTwo, ConcatProperties
<1>4. \A i \in 1..Len(a) + Len(b) : c[i] = IF i <= Len(a) THEN a[i] ELSE b[i - Len(a)]
  BY <1>1, UpsertsInTwo, ConcatProperties
<1>5. \A i \in 1..Len(builds) : c[i] = a[i] BY <1>1, <1>2, <1>4
<1>6. ASSUME NEW i \in 1..Len(c), i \notin 1..Len(builds)
      PROVE  \E j \in New : c[i] = NewRow(sync.snap, j)
  <2>1. i - Len(a) \in 1..Len(b) /\ ~(i <= Len(a)) BY <1>1, <1>2, <1>3, <1>6
  <2>2. c[i] = b[i - Len(a)] BY <1>2, <1>3, <1>4, <2>1
  <2>3. QED BY <2>1, <2>2, AddedTyped
<1>7. ASSUME NEW j \in New
      PROVE  \E i \in 1..Len(c) : i \notin 1..Len(builds) /\ c[i] = NewRow(sync.snap, j)
  <2>1. PICK n \in 1..Len(b) : b[n] = NewRow(sync.snap, j) BY AddedTyped
  <2>2. Len(a) + n \in 1..Len(c) /\ Len(a) + n \notin 1..Len(builds)
        /\ ~(Len(a) + n <= Len(a)) /\ (Len(a) + n) - Len(a) = n
    BY <1>1, <1>2, <1>3
  <2>3. c[Len(a) + n] = b[n] BY <1>3, <1>4, <2>2
  <2>4. QED BY <2>1, <2>2, <2>3
<1>8. Len(builds) <= Len(c) BY <1>1, <1>2, <1>3
<1>9. QED BY <1>3, <1>5, <1>6, <1>7, <1>8 DEF Table

\* Nothing of a row is forgotten without a mark.
LEMMA UpsertsGrow ==
  ASSUME Writing
  PROVE  Grown(builds, AfterUpserts)
<1>1. Len(builds) <= Len(AfterUpserts)
      /\ \A i \in 1..Len(builds) : AfterUpserts[i] = RowChanged[i]
  BY UpsertsTyped
<1>2. ASSUME NEW i \in 1..Len(builds)
      PROVE  /\ builds[i].of \subseteq RowChanged[i].of
             /\ builds[i].blind => RowChanged[i].blind
             /\ builds[i].taken => RowChanged[i].taken
             /\ RowChanged[i].url = builds[i].url \/ RowChanged[i].blind
             /\ builds[i].job # Null =>
                  /\ RowChanged[i].job # Null
                  /\ RowChanged[i].job = builds[i].job \/ RowChanged[i].taken
  <2>1. builds[i] \in Row BY DEF Writing, Table
  <2>2. RowChanged[i] = builds[i] \/ \E j \in Jobs : RowChanged[i] = Overwrite(builds[i], j)
    BY ChangedTyped, LastUpdate, BatchTyped
  <2>3. CASE RowChanged[i] = builds[i] BY <2>3
  <2>4. ASSUME NEW j \in Jobs, RowChanged[i] = Overwrite(builds[i], j)
        PROVE  /\ builds[i].of \subseteq RowChanged[i].of
               /\ builds[i].blind => RowChanged[i].blind
               /\ builds[i].taken => RowChanged[i].taken
               /\ RowChanged[i].url = builds[i].url \/ RowChanged[i].blind
               /\ builds[i].job # Null =>
                    /\ RowChanged[i].job # Null
                    /\ RowChanged[i].job = builds[i].job \/ RowChanged[i].taken
    BY <2>1, <2>4, OverwriteTyped, JobsAreNumbers
  <2>5. QED BY <2>2, <2>3, <2>4
<1>3. QED BY <1>1, <1>2 DEF Grown

\* Every row of the batch is in the table, under its own id or a later one of the
\* batch with its URL.
LEMMA BatchStored ==
  ASSUME Writing, NEW j \in Batch
  PROVE  \E i \in 1..Len(AfterUpserts) :
           /\ AfterUpserts[i].url = UrlOf[j]
           /\ AfterUpserts[i].job \in Batch /\ j <= AfterUpserts[i].job
<1>1. j \in Jobs /\ Job(j) = j /\ j # Null /\ j <= j
  BY BatchTyped, JobsAreNumbers DEF Job
<1>2. /\ Len(builds) \in Nat /\ Len(AfterUpserts) \in Nat
      /\ Len(builds) <= Len(AfterUpserts)
      /\ \A i \in 1..Len(builds) : AfterUpserts[i] = RowChanged[i]
  BY UpsertsTyped DEF Writing, Table
<1>3. \A i \in 1..Len(builds) : i \in 1..Len(AfterUpserts) BY <1>2
<1>4. CASE j \in Updates
  <2> DEFINE i == Aim(j)
             k == LastOf(UpdatesOf(i))
  <2>1. UpdatesOf(i) # {} /\ j \in UpdatesOf(i) /\ i # 0
    BY <1>4 DEF UpdatesOf, Updates
  <2>2. /\ k \in Batch /\ k \in Jobs /\ j <= k /\ i \in 1..Len(builds)
        /\ \/ sync.snap[i].job = k
           \/ sync.snap[i].url = UrlOf[k] /\ sync.snap[i].job = Null
    BY <2>1, LastUpdate
  <2>3. \/ sync.snap[i].job = j
        \/ sync.snap[i].url = UrlOf[j] /\ sync.snap[i].job = Null
    BY <1>1, <2>1, Resolve DEF Aim, Writing
  <2>4. UrlOf[k] = UrlOf[j] BY <1>1, <2>2, <2>3, JobsAreNumbers
  <2>5. RowChanged[i] = Overwrite(builds[i], k) BY <2>1, <2>2, ChangedTyped
  <2>6. RowChanged[i].url = UrlOf[j] /\ RowChanged[i].job = k
    BY <2>4, <2>5 DEF Overwrite
  <2>7. QED BY <1>2, <1>3, <2>2, <2>6
<1>5. CASE j \notin Updates /\ HasJob(AfterUpdates, j) # {}
  <2>1. PICK i \in DOMAIN AfterUpdates : AfterUpdates[i].job = j BY <1>5 DEF HasJob
  <2>2. i \in 1..Len(builds) /\ i \in DOMAIN builds
    BY <2>1, UpdatesTyped DEF Table, Writing
  <2>3. RowChanged[i] = Overwrite(AfterUpdates[i], j)
    BY <1>5, <2>1, <2>2 DEF RowChanged
  <2>4. RowChanged[i].url = UrlOf[j] /\ RowChanged[i].job = j BY <2>3 DEF Overwrite
  <2>5. QED BY <1>1, <1>2, <1>3, <2>2, <2>4
<1>6. CASE j \notin Updates /\ HasJob(AfterUpdates, j) = {}
  <2>1. j \in New BY <1>6 DEF New
  <2>2. PICK i \in 1..Len(AfterUpserts) : AfterUpserts[i] = NewRow(sync.snap, j)
    BY <2>1, UpsertsTyped
  <2>3. AfterUpserts[i].url = UrlOf[j] /\ AfterUpserts[i].job = j
    BY <1>1, <2>2, NewRowTyped
  <2>4. QED BY <1>1, <2>2, <2>3
<1>7. QED BY <1>4, <1>5, <1>6

\* The last row of the batch, with none left out before it.
LEMMA WatermarkNext ==
  ASSUME IInv, sync.pc = "write"
  PROVE  /\ NewWatermark \in sync.batch /\ NewWatermark \in 0..top
         /\ watermark < NewWatermark
         /\ \A j \in sync.batch : j <= NewWatermark
         /\ \A j \in 1..NewWatermark : j \in 1..watermark \/ j \in sync.batch
<1>1. Writing BY WritingTrue
<1>2. NewWatermark \in sync.batch /\ \A j \in sync.batch : j <= NewWatermark
  BY <1>1, LastOfIn DEF Writing, NewWatermark
<1>3. /\ watermark \in Nat /\ top \in Nat /\ NewWatermark \in 1..top
      /\ watermark < NewWatermark
      /\ (watermark + 1)..NewWatermark \subseteq sync.batch
  BY <1>1, <1>2 DEF IInv, TypeOK, BatchIsNext, Writing
<1>4. \A j \in 1..NewWatermark : j \in 1..watermark \/ j \in (watermark + 1)..NewWatermark
  BY <1>3
<1>5. QED BY <1>2, <1>3, <1>4

LEMMA UpsertsStore ==
  ASSUME IInv, sync.pc = "write", builds' = AfterUpserts, watermark' = NewWatermark,
         dropped' = dropped
  PROVE  StoredInRange'
<1> SUFFICES ASSUME NEW j \in 1..NewWatermark, j \notin Malformed \cup dropped
             PROVE  \E i \in 1..Len(AfterUpserts) :
                      /\ AfterUpserts[i].url = UrlOf[j] /\ AfterUpserts[i].job \in Jobs
                      /\ j <= AfterUpserts[i].job /\ AfterUpserts[i].job <= NewWatermark
  BY DEF StoredInRange
<1>1. Writing BY WritingTrue
<1>2. watermark \in Nat /\ NewWatermark \in Nat /\ watermark < NewWatermark
      /\ Jobs \subseteq Nat
  BY WatermarkNext, JobsAreNumbers DEF IInv, TypeOK
<1>3. CASE j \in 1..watermark
  <2>1. PICK i \in 1..Len(builds) :
          /\ builds[i].url = UrlOf[j] /\ builds[i].job \in Jobs
          /\ j <= builds[i].job /\ builds[i].job <= watermark
    BY <1>3 DEF IInv, StoredInRange
  <2>2. i \in 1..Len(AfterUpserts) /\ AfterUpserts[i] = RowChanged[i]
    <3>1. Len(builds) \in Nat /\ Len(AfterUpserts) \in Nat
      BY <1>1, UpsertsTyped DEF Writing, Table
    <3>2. QED BY <1>1, <3>1, UpsertsTyped
  <2>3. \A k \in Batch : watermark < k
    BY DEF IInv, BatchIsNext, Batch
  <2>4. builds[i].job \in Nat /\ builds[i].job <= NewWatermark
        /\ builds[i].job \notin Batch
    <3>1. builds[i].job \in Nat BY <1>2, <2>1
    <3>2. builds[i].job <= NewWatermark /\ ~(watermark < builds[i].job)
      BY <1>2, <2>1, <3>1
    <3>3. QED BY <2>3, <3>1, <3>2
  <2>5. CASE RowChanged[i] = builds[i]
    <3>1. AfterUpserts[i] = builds[i] BY <2>2, <2>5
    <3>2. QED BY <2>1, <2>2, <2>4, <3>1
  <2>6. CASE UpdatesOf(i) # {} /\ RowChanged[i] = Overwrite(builds[i], LastOf(UpdatesOf(i)))
    <3> DEFINE k == LastOf(UpdatesOf(i))
    <3>1. /\ k \in Batch /\ k \in Jobs /\ i \in 1..Len(sync.snap)
          /\ \/ sync.snap[i].job = k
             \/ sync.snap[i].url = UrlOf[k] /\ sync.snap[i].job = Null
      BY <1>1, <2>6, LastUpdate
    <3>2. /\ builds[i].url = sync.snap[i].url
          /\ sync.snap[i].job # Null => builds[i].job = sync.snap[i].job
      BY <1>1, <3>1 DEF Writing, Kept
    <3>3. sync.snap[i].job # k
      <4>1. k # Null BY <3>1, JobsAreNumbers
      <4>2. QED BY <2>4, <3>1, <3>2, <4>1
    <3>4. UrlOf[k] = UrlOf[j] BY <2>1, <3>1, <3>2, <3>3
    <3>5. RowChanged[i].url = UrlOf[j] /\ RowChanged[i].job = k
      BY <2>6, <3>4 DEF Overwrite
    <3>6. k <= NewWatermark /\ watermark < k
      BY <2>3, <3>1, WatermarkNext DEF Batch
    <3>7. k \in Nat /\ builds[i].job \in Nat BY <1>2, <2>1, <3>1
    <3>8. QED BY <1>2, <2>1, <2>2, <3>1, <3>5, <3>6, <3>7
  <2>7. QED BY <1>1, <2>4, <2>5, <2>6, ChangedTyped
<1>4. CASE j \in sync.batch
  <2>1. j \in Batch BY <1>4 DEF Batch
  <2>2. PICK i \in 1..Len(AfterUpserts) :
          /\ AfterUpserts[i].url = UrlOf[j]
          /\ AfterUpserts[i].job \in Batch /\ j <= AfterUpserts[i].job
    BY <1>1, <2>1, BatchStored
  <2>3. AfterUpserts[i].job \in Jobs /\ AfterUpserts[i].job <= NewWatermark
    BY <1>1, <2>2, BatchTyped, WatermarkNext DEF Batch
  <2>4. QED BY <2>2, <2>3
<1>5. QED BY <1>3, <1>4, WatermarkNext

LEMMA UpsertsAlone ==
  ASSUME IInv, sync.pc = "write", builds' = AfterUpserts
  PROVE  UnresolvedIsAlone'
<1>1. Writing BY WritingTrue
<1>2. /\ Len(builds) \in Nat /\ DOMAIN builds = 1..Len(builds)
      /\ DOMAIN AfterUpserts = 1..Len(AfterUpserts)
      /\ \A i \in 1..Len(builds) : AfterUpserts[i] = RowChanged[i]
  BY <1>1, UpsertsTyped DEF Writing, Table
<1>3. ASSUME NEW i \in 1..Len(AfterUpserts), AfterUpserts[i].job = Null
      PROVE  i \in 1..Len(builds) /\ AfterUpserts[i] = builds[i]
  <2>1. i \in 1..Len(builds)
    <3> SUFFICES ASSUME i \notin 1..Len(builds) PROVE FALSE OBVIOUS
    <3>1. PICK j \in New : AfterUpserts[i] = NewRow(sync.snap, j)
      BY <1>1, UpsertsTyped
    <3>2. j \in Jobs /\ Job(j) = j BY <1>1, BatchTyped DEF New, Job
    <3>3. AfterUpserts[i].job = j BY <3>1, <3>2, NewRowTyped
    <3>4. QED BY <1>3, <3>2, <3>3, JobsAreNumbers
  <2>2. RowChanged[i].job = Null BY <1>2, <1>3, <2>1
  <2>3. \A j \in Jobs : RowChanged[i] # Overwrite(builds[i], j)
    BY <2>2, JobsAreNumbers DEF Overwrite
  <2>4. RowChanged[i] = builds[i]
    BY <1>1, <2>1, <2>3, ChangedTyped, LastUpdate, BatchTyped
  <2>5. QED BY <1>2, <2>1, <2>4
<1>4. SUFFICES ASSUME NEW i \in 1..Len(AfterUpserts), NEW k \in 1..Len(AfterUpserts),
                      AfterUpserts[i].job = Null, i # k,
                      AfterUpserts[i].url = AfterUpserts[k].url
               PROVE  AfterUpserts[i].blind \/ AfterUpserts[k].blind
  BY <1>2 DEF UnresolvedIsAlone, HasJob
<1>5. i \in 1..Len(builds) /\ AfterUpserts[i] = builds[i] /\ builds[i].job = Null
  BY <1>3, <1>4
<1>6. CASE k \in 1..Len(builds)
  <2>1. /\ builds[k].blind => AfterUpserts[k].blind
        /\ AfterUpserts[k].url = builds[k].url \/ AfterUpserts[k].blind
    BY <1>1, <1>6, UpsertsGrow DEF Grown
  <2>2. CASE AfterUpserts[k].url = builds[k].url
    <3>1. builds[i].blind \/ builds[k].blind
      BY <1>2, <1>4, <1>5, <1>6, <2>2 DEF IInv, UnresolvedIsAlone, HasJob
    <3>2. QED BY <1>5, <2>1, <3>1
  <2>3. QED BY <2>1, <2>2
<1>7. CASE k \notin 1..Len(builds)
  <2>1. PICK j \in New : AfterUpserts[k] = NewRow(sync.snap, j)
    BY <1>1, <1>7, UpsertsTyped
  <2>2. j \in Jobs /\ Job(j) = j /\ j \in Batch \ Updates
    BY <1>1, <2>1, BatchTyped DEF New, Job
  <2>3. Unresolved(sync.snap, j) = {}
    <3>1. Aim(j) = 0 BY <2>2 DEF Updates
    <3>2. QED BY <1>1, <2>2, <3>1, Resolve DEF Aim, Writing
  <2>4. AfterUpserts[k].url = UrlOf[j]
        /\ (AfterUpserts[k].blind <=> (WithUrl(builds, UrlOf[j]) # WithUrl(sync.snap, UrlOf[j])))
    BY <2>1, <2>2, NewRowTyped
  <2>5. i \in WithUrl(builds, UrlOf[j]) BY <1>2, <1>4, <1>5, <2>4 DEF WithUrl
  <2>6. i \notin WithUrl(sync.snap, UrlOf[j])
    <3> SUFFICES ASSUME i \in WithUrl(sync.snap, UrlOf[j]) PROVE FALSE OBVIOUS
    <3>1. i \in 1..Len(sync.snap) BY <1>1 DEF WithUrl, Writing, Table
    <3>2. sync.snap[i].job = Null BY <1>1, <1>5, <3>1 DEF Writing, Kept
    <3>3. i \in Unresolved(sync.snap, j) BY <3>2 DEF Unresolved, HasJob, WithUrl
    <3>4. QED BY <2>3, <3>3
  <2>7. QED BY <2>4, <2>5, <2>6
<1>8. QED BY <1>6, <1>7

-----------------------------------------------------------------------------
(* The merge of an event. *)

\* What the worker holds when it writes.
Merging == /\ builds \in Table /\ worker.snap \in Table /\ Grown(worker.snap, builds)
           /\ worker.ev \in Events

LEMMA MergingTrue == ASSUME IInv, worker.pc = "merge" PROVE Merging
BY DEF IInv, TypeOK, SnapshotsKept, Merging

LEMMA MergeTarget ==
  ASSUME Merging
  PROVE  /\ Target # 0 => Target \in 1..Len(builds) /\ Target \in 1..Len(worker.snap)
         /\ Target # 0 =>
              \/ Job(worker.ev) # Null /\ worker.snap[Target].job = Job(worker.ev)
              \/ worker.snap[Target].url = UrlOf[worker.ev]
<1>1. Len(builds) \in Nat /\ Len(worker.snap) \in Nat BY DEF Merging, Table
<1>2. Len(worker.snap) <= Len(builds) BY DEF Merging, Grown
<1>3. worker.ev \in Jobs \cup Events BY DEF Merging
<1>4. QED BY <1>1, <1>2, <1>3, Resolve DEF Target, Merging

\* The row that is updated.
MergedRow == [builds[Target] EXCEPT !.job = IF @ = Null THEN Job(worker.ev) ELSE @,
                                    !.of = @ \cup {worker.ev}]

LEMMA MergedRowTyped ==
  ASSUME Merging, Target # 0
  PROVE  /\ MergedRow \in Row
         /\ MergedRow.url = builds[Target].url /\ MergedRow.blind = builds[Target].blind
         /\ MergedRow.taken = builds[Target].taken
         /\ MergedRow.of = builds[Target].of \cup {worker.ev}
         /\ MergedRow.job = IF builds[Target].job = Null THEN Job(worker.ev)
                            ELSE builds[Target].job
         /\ Merged = [builds EXCEPT ![Target] = MergedRow]
<1>1. Target \in 1..Len(builds) BY MergeTarget
<1>2. builds[Target] \in Row /\ Target \in DOMAIN builds BY <1>1 DEF Merging, Table
<1>3. Job(worker.ev) \in Jobs \cup {Null} BY JobTyped DEF Merging
<1>4. worker.ev \in Events BY DEF Merging
<1>5. QED BY <1>2, <1>3, <1>4 DEF Row, MergedRow, Merged

LEMMA MergedKept ==
  ASSUME Merging
  PROVE  Merged \in Table /\ Kept(builds, Merged)
<1>1. Len(builds) \in Nat /\ builds \in Seq(Row) BY DEF Merging, Table
<1>2. CASE Target = 0
  <2> DEFINE w == NewRow(worker.snap, worker.ev)
  <2>1. w \in Row BY NewRowTyped DEF Merging
  <2>2. Merged = Append(builds, w) BY <1>2 DEF Merged
  <2>3. /\ Append(builds, w) \in Seq(Row) /\ Len(Append(builds, w)) = Len(builds) + 1
        /\ \A i \in 1..Len(builds) : Append(builds, w)[i] = builds[i]
    BY <1>1, <2>1, AppendProperties
  <2>4. Kept(builds, Append(builds, w)) BY <1>1, <2>3 DEF Kept
  <2>5. QED BY <2>2, <2>3, <2>4 DEF Table
<1>3. CASE Target # 0
  <2>1. Target \in 1..Len(builds) BY <1>3, MergeTarget
  <2>2. MergedRow \in Row /\ Merged = [builds EXCEPT ![Target] = MergedRow]
    BY <1>3, MergedRowTyped
  <2>3. Merged \in Seq(Row) /\ Len(Merged) = Len(builds) BY <1>1, <2>1, <2>2
  <2>4. \A i \in 1..Len(builds) :
          Merged[i] = IF i = Target THEN MergedRow ELSE builds[i]
    BY <1>1, <2>1, <2>2
  <2>5. Kept(builds, Merged)
    BY <1>1, <1>3, <2>3, <2>4, MergedRowTyped DEF Kept
  <2>6. QED BY <2>3, <2>5 DEF Table
<1>4. QED BY <1>2, <1>3

\* The event can be found afterwards.
LEMMA MergedIsBuilt ==
  ASSUME Merging
  PROVE  \E i \in DOMAIN Merged :
           /\ worker.ev \in Merged[i].of
           /\ \/ Merged[i].url = UrlOf[worker.ev] \/ Merged[i].blind
              \/ Job(worker.ev) # Null
                 /\ (Merged[i].job = Job(worker.ev) \/ Merged[i].taken)
<1>1. Len(builds) \in Nat /\ builds \in Seq(Row) /\ worker.ev \in Events
  BY DEF Merging, Table
<1>2. CASE Target = 0
  <2> DEFINE w == NewRow(worker.snap, worker.ev)
             n == Len(builds) + 1
  <2>1. w \in Row /\ w.url = UrlOf[worker.ev] /\ worker.ev \in w.of
    BY <1>1, NewRowTyped
  <2>2. Merged = Append(builds, w) BY <1>2 DEF Merged
  <2>3. n \in DOMAIN Append(builds, w) /\ Append(builds, w)[n] = w
    BY <1>1, <2>1, AppendProperties
  <2>4. QED BY <2>1, <2>2, <2>3
<1>3. CASE Target # 0
  <2>1. /\ Target \in 1..Len(builds) /\ Target \in 1..Len(worker.snap)
        /\ \/ Job(worker.ev) # Null /\ worker.snap[Target].job = Job(worker.ev)
           \/ worker.snap[Target].url = UrlOf[worker.ev]
    BY <1>3, MergeTarget
  <2>2. /\ builds[Target].url = worker.snap[Target].url \/ builds[Target].blind
        /\ worker.snap[Target].job # Null =>
             /\ builds[Target].job # Null
             /\ builds[Target].job = worker.snap[Target].job \/ builds[Target].taken
    BY <2>1 DEF Merging, Grown
  <2>3. Target \in DOMAIN Merged /\ Merged[Target] = MergedRow
    BY <1>1, <1>3, <2>1, MergedRowTyped
  <2>4. worker.ev \in MergedRow.of BY <1>3, MergedRowTyped
  <2>5. CASE Job(worker.ev) # Null /\ worker.snap[Target].job = Job(worker.ev)
    BY <1>3, <2>2, <2>3, <2>4, <2>5, MergedRowTyped
  <2>6. CASE worker.snap[Target].url = UrlOf[worker.ev]
    BY <1>3, <2>2, <2>3, <2>4, <2>6, MergedRowTyped
  <2>7. QED BY <2>1, <2>5, <2>6
<1>4. QED BY <1>2, <1>3

\* The worker adds a row only where its snapshot has none, and looks at the URL
\* only through that snapshot.
LEMMA MergedAlone ==
  ASSUME Merging, ~MergeClash, UnresolvedIsAlone, builds' = Merged
  PROVE  UnresolvedIsAlone'
<1>1. Len(builds) \in Nat /\ builds \in Seq(Row) /\ DOMAIN builds = 1..Len(builds)
      /\ worker.ev \in Events
  BY DEF Merging, Table
<1> DEFINE Alone(t, i, k) == t[i].job = Null /\ i # k /\ t[i].url = t[k].url
                             => t[i].blind \/ t[k].blind
<1>2. \A i, k \in 1..Len(builds) : Alone(builds, i, k)
  BY <1>1 DEF UnresolvedIsAlone, HasJob
<1>3. SUFFICES \A i, k \in DOMAIN Merged : Alone(Merged, i, k)
  BY DEF UnresolvedIsAlone, HasJob
<1>4. CASE Target = 0
  <2> DEFINE w == NewRow(worker.snap, worker.ev)
             n == Len(builds) + 1
             u == UrlOf[worker.ev]
  <2>1. /\ w \in Row /\ w.url = u /\ w.job = Job(worker.ev)
        /\ w.blind <=> (WithUrl(builds, u) # WithUrl(worker.snap, u))
    BY <1>1, NewRowTyped
  <2>2. /\ DOMAIN Merged = 1..n /\ Merged[n] = w
        /\ \A i \in 1..Len(builds) : Merged[i] = builds[i]
    <3>1. Merged = Append(builds, w) BY <1>4 DEF Merged
    <3>2. QED BY <1>1, <2>1, <3>1, AppendProperties
  <2>3. \A i \in 1..n : i \in 1..Len(builds) \/ i = n BY <1>1
  <2>4. Unresolved(worker.snap, worker.ev) = {}
        /\ (Job(worker.ev) = Null => ~Single(Resolved(worker.snap, worker.ev)))
    BY <1>1, <1>4, Resolve DEF Target, Merging
  <2>5. Job(worker.ev) = Null => WithUrl(worker.snap, u) = {}
    BY <2>4 DEF MergeClash, Conflicting, Unresolved, Resolved
  <2>6. ASSUME NEW i \in 1..Len(builds), builds[i].url = u, ~w.blind
        PROVE  Job(worker.ev) # Null /\ builds[i].job # Null
    <3>1. i \in WithUrl(worker.snap, u) BY <1>1, <2>1, <2>6 DEF WithUrl
    <3>2. Job(worker.ev) # Null BY <2>5, <3>1
    <3>3. i \in 1..Len(worker.snap) /\ worker.snap[i].job # Null
      <4>1. i \in DOMAIN worker.snap /\ worker.snap[i].url = u BY <3>1 DEF WithUrl
      <4>2. i \notin HasJob(worker.snap, Null) BY <2>4, <3>1 DEF Unresolved
      <4>3. QED BY <4>1, <4>2 DEF HasJob, Merging, Table
    <3>4. builds[i].job # Null BY <3>3 DEF Merging, Grown
    <3>5. QED BY <3>2, <3>4
  <2>7. ASSUME NEW i \in 1..n, NEW k \in 1..n PROVE Alone(Merged, i, k)
    <3>1. CASE i \in 1..Len(builds) /\ k \in 1..Len(builds)
      BY <1>2, <2>2, <3>1
    <3>2. CASE i = n /\ k \in 1..Len(builds) BY <2>1, <2>2, <2>6, <3>2
    <3>3. CASE i \in 1..Len(builds) /\ k = n BY <2>1, <2>2, <2>6, <3>3
    <3>4. QED BY <2>3, <3>1, <3>2, <3>3
  <2>8. QED BY <2>2, <2>7
<1>5. CASE Target # 0
  <2>1. Target \in 1..Len(builds) BY <1>5, MergeTarget
  <2>2. /\ DOMAIN Merged = 1..Len(builds)
        /\ \A i \in 1..Len(builds) :
             /\ Merged[i].url = builds[i].url /\ Merged[i].blind = builds[i].blind
             /\ Merged[i].job = Null => builds[i].job = Null
    <3>1. Merged = [builds EXCEPT ![Target] = MergedRow] BY <1>5, MergedRowTyped
    <3>2. QED BY <1>1, <1>5, <2>1, <3>1, MergedRowTyped
  <2>3. QED BY <1>2, <2>2
<1>6. QED BY <1>4, <1>5

-----------------------------------------------------------------------------
(* TypeOK in parts, and what only some actions disturb. *)

SyncRecords   == [pc : {"idle", "read", "write"}, at : 0..top, snap : Table,
                  batch : SUBSET (1..top)]
WorkerRecords == [pc : {"idle", "read", "merge", "failing", "commit"},
                  ev : Events \cup {Null}, snap : Table]

SourceOK == top \in Nat /\ 1..top \subseteq Jobs
JobOK    == /\ watermark \in 0..top /\ dropped \subseteq Jobs
            /\ sync \in SyncRecords
            /\ sync.pc = "write" => sync.batch # {}
StreamOK == /\ audit \in [Events -> Statuses] /\ passed \subseteq Events
            /\ worker \in WorkerRecords
            /\ worker.pc # "idle" => worker.ev \in Events
            /\ next \in 0..Len(Log) /\ committed \in 0..next
BoundsOK == faults \in 0..MaxFaults
LensOK   == /\ sync.pc = "write" => Len(sync.snap) <= Len(builds)
            /\ worker.pc # "idle" => Len(worker.snap) <= Len(builds)

LEMMA TypeParts ==
  TypeOK <=> builds \in Table /\ SourceOK /\ JobOK /\ StreamOK /\ BoundsOK /\ LensOK
BY DEF TypeOK, SourceOK, JobOK, StreamOK, BoundsOK, LensOK, SyncRecords, WorkerRecords

LEMMA TypePartsNext ==
  TypeOK' <=> builds' \in Table /\ SourceOK' /\ JobOK' /\ StreamOK' /\ BoundsOK' /\ LensOK'
BY DEF TypeOK, SourceOK, JobOK, StreamOK, BoundsOK, LensOK, SyncRecords, WorkerRecords

LEMMA Lens == SnapshotsKept => LensOK
BY DEF SnapshotsKept, Kept, Grown, LensOK

LEMMA LensNext == SnapshotsKept' => LensOK'
BY DEF SnapshotsKept, Kept, Grown, LensOK

LEMMA Parts ==
  IInv <=> /\ builds \in Table /\ SourceOK /\ JobOK /\ StreamOK /\ BoundsOK
           /\ SnapshotsKept /\ BatchIsNext /\ StoredInRange
           /\ UnresolvedIsAlone /\ ProcessedIsBuilt
BY TypeParts, Lens DEF IInv

LEMMA PartsNext ==
  IInv' <=> /\ builds' \in Table /\ SourceOK' /\ JobOK' /\ StreamOK' /\ BoundsOK'
            /\ SnapshotsKept' /\ BatchIsNext' /\ StoredInRange'
            /\ UnresolvedIsAlone' /\ ProcessedIsBuilt'
BY TypePartsNext, LensNext DEF IInv

LEMMA EmptyTable ==
  << >> \in Table /\ \A t \in Table : Kept(<< >>, t) /\ Grown(<< >>, t)
<1>1. << >> \in Table /\ Len(<< >>) = 0 BY DEF Table
<1>2. ASSUME NEW t \in Table PROVE Kept(<< >>, t) /\ Grown(<< >>, t)
  <2>1. Len(t) \in Nat BY DEF Table
  <2>2. 1..Len(<< >>) = {} BY <1>1
  <2>3. QED BY <1>1, <2>1, <2>2 DEF Kept, Grown
<1>3. QED BY <1>1, <1>2

LEMMA GrownSame == ASSUME NEW t \in Table PROVE Grown(t, t)
BY DEF Grown, Table

\* An event stays found while the table grows.
LEMMA BuiltKept ==
  ASSUME ProcessedIsBuilt, builds \in Table, builds' \in Table, Grown(builds, builds'),
         NEW e \in Events, audit[e] = "PROCESSED"
  PROVE  \E i \in DOMAIN builds' :
           /\ e \in builds'[i].of
           /\ \/ builds'[i].url = UrlOf[e] \/ builds'[i].blind
              \/ Job(e) # Null /\ (builds'[i].job = Job(e) \/ builds'[i].taken)
<1>1. PICK i \in DOMAIN builds :
        /\ e \in builds[i].of
        /\ \/ builds[i].url = UrlOf[e] \/ builds[i].blind
           \/ Job(e) # Null /\ (builds[i].job = Job(e) \/ builds[i].taken)
  BY DEF ProcessedIsBuilt
<1>2. /\ Len(builds) \in Nat /\ Len(builds') \in Nat
      /\ DOMAIN builds = 1..Len(builds) /\ DOMAIN builds' = 1..Len(builds')
  BY DEF Table
<1>3. i \in 1..Len(builds) /\ i \in DOMAIN builds' BY <1>1, <1>2 DEF Grown
<1>4. /\ builds[i].of \subseteq builds'[i].of
      /\ builds[i].blind => builds'[i].blind
      /\ builds[i].taken => builds'[i].taken
      /\ builds'[i].url = builds[i].url \/ builds'[i].blind
      /\ builds[i].job # Null => builds'[i].job = builds[i].job \/ builds'[i].taken
  BY <1>3 DEF Grown
<1>5. QED BY <1>1, <1>3, <1>4

\* A row that is stored stays so while the worker alone writes.
LEMMA StoredKept ==
  ASSUME StoredInRange, builds \in Table, builds' \in Table, Kept(builds, builds'),
         UNCHANGED <<watermark, dropped>>
  PROVE  StoredInRange'
<1> SUFFICES ASSUME NEW j \in 1..watermark, j \notin Malformed \cup dropped
             PROVE  \E i \in 1..Len(builds') :
                      /\ builds'[i].url = UrlOf[j] /\ builds'[i].job \in Jobs
                      /\ j <= builds'[i].job /\ builds'[i].job <= watermark
  BY DEF StoredInRange
<1>1. PICK i \in 1..Len(builds) :
        /\ builds[i].url = UrlOf[j] /\ builds[i].job \in Jobs
        /\ j <= builds[i].job /\ builds[i].job <= watermark
  BY DEF StoredInRange
<1>2. Len(builds) \in Nat /\ Len(builds') \in Nat BY DEF Table
<1>3. i \in 1..Len(builds') BY <1>2 DEF Kept
<1>4. builds'[i].url = builds[i].url /\ builds'[i].job = builds[i].job
  BY <1>1, JobsAreNumbers DEF Kept
<1>5. QED BY <1>1, <1>3, <1>4

LEMMA SameTable ==
  ASSUME IInv, UNCHANGED builds
  PROVE  /\ builds' \in Table /\ UnresolvedIsAlone'
         /\ UNCHANGED <<watermark, dropped>> => StoredInRange'
         /\ (\A e \in Events : audit'[e] = "PROCESSED" => audit[e] = "PROCESSED")
              => ProcessedIsBuilt'
<1>1. builds' \in Table /\ UnresolvedIsAlone'
  BY Parts DEF UnresolvedIsAlone, HasJob
<1>2. UNCHANGED <<watermark, dropped>> => StoredInRange'
  BY DEF IInv, StoredInRange
<1>3. (\A e \in Events : audit'[e] = "PROCESSED" => audit[e] = "PROCESSED")
        => ProcessedIsBuilt'
  BY DEF IInv, ProcessedIsBuilt
<1>4. QED BY <1>1, <1>2, <1>3

-----------------------------------------------------------------------------
LEMMA InitIInv == Init => IInv
<1> SUFFICES ASSUME Init PROVE IInv OBVIOUS
<1> USE BuildIngestAssumption DEF BuildIngestAssumption
<1>1. builds = << >> /\ builds \in Table /\ Len(builds) = 0
  BY EmptyTable DEF Init, Table
<1>2. SourceOK /\ BoundsOK BY DEF Init, SourceOK, BoundsOK
<1>3. JobOK BY EmptyTable DEF Init, JobOK, SyncRecords
<1>4. StreamOK BY EmptyTable DEF Init, StreamOK, WorkerRecords, Statuses
<1>5. SnapshotsKept BY <1>1, EmptyTable DEF Init, SnapshotsKept
<1>6. BatchIsNext /\ StoredInRange BY DEF Init, BatchIsNext, StoredInRange
<1>7. UnresolvedIsAlone BY <1>1 DEF UnresolvedIsAlone, HasJob
<1>8. ProcessedIsBuilt BY DEF Init, ProcessedIsBuilt, Absent
<1>9. QED BY <1>1, <1>2, <1>3, <1>4, <1>5, <1>6, <1>7, <1>8, Parts

-----------------------------------------------------------------------------
(* The sync job *)

LEMMA ArriveIInv == ASSUME IInv, Arrive PROVE IInv'
<1>1. /\ builds \in Table /\ SourceOK /\ JobOK /\ StreamOK /\ BoundsOK
      /\ SnapshotsKept /\ BatchIsNext /\ StoredInRange
  BY Parts
<1>2. UNCHANGED <<builds, watermark, sync, dropped, audit, worker, next, committed, passed, faults>>
  BY DEF Arrive, source, jobState, stream, Fault
<1>3. SourceOK' /\ top \in Nat /\ top' = top + 1
  BY <1>1, JobsAreNumbers, BuildIngestAssumption
  DEF Arrive, SourceOK, Jobs, BuildIngestAssumption
<1>4. JobOK'
  <2>1. 0..top \subseteq 0..top' /\ 1..top \subseteq 1..top' BY <1>3
  <2>2. sync \in SyncRecords' BY <1>1, <2>1 DEF JobOK, SyncRecords
  <2>3. QED BY <1>1, <1>2, <2>1, <2>2 DEF JobOK
<1>5. StreamOK' /\ BoundsOK'
  BY <1>1, <1>2 DEF StreamOK, BoundsOK, WorkerRecords
<1>6. SnapshotsKept' /\ BatchIsNext'
  BY <1>1, <1>2 DEF SnapshotsKept, BatchIsNext
<1>7. QED BY <1>2, <1>3, <1>4, <1>5, <1>6, SameTable, PartsNext

LEMMA SyncStartIInv == ASSUME IInv, SyncStart PROVE IInv'
<1>1. /\ builds \in Table /\ SourceOK /\ JobOK /\ StreamOK /\ BoundsOK
      /\ SnapshotsKept /\ BatchIsNext /\ StoredInRange
  BY Parts
<1>2. UNCHANGED <<builds, top, watermark, dropped, audit, worker, next, committed, passed, faults>>
  BY DEF SyncStart, source, jobState, stream, Fault
<1>3. SourceOK' /\ StreamOK' /\ BoundsOK'
  BY <1>1, <1>2 DEF SourceOK, StreamOK, BoundsOK, WorkerRecords
<1>4. JobOK' /\ sync'.pc = "read" /\ sync'.at = watermark /\ sync'.snap = sync.snap
  BY <1>1, <1>2 DEF JobOK, SyncStart, SyncRecords
<1>5. SnapshotsKept' /\ BatchIsNext'
  BY <1>1, <1>2, <1>4 DEF SnapshotsKept, BatchIsNext
<1>6. QED BY <1>2, <1>3, <1>4, <1>5, SameTable, PartsNext

LEMMA SyncReadIInv == ASSUME IInv, SyncRead PROVE IInv'
<1>1. /\ builds \in Table /\ SourceOK /\ JobOK /\ StreamOK /\ BoundsOK
      /\ SnapshotsKept /\ BatchIsNext /\ StoredInRange
  BY Parts
<1>2. UNCHANGED <<builds, top, watermark, dropped, audit, worker, next, committed, passed, faults>>
  BY DEF SyncRead, source, jobState, stream, Fault
<1> DEFINE rows == {j \in 1..top : sync.at < j /\ j <= sync.at + BatchSize}
<1>3. SourceOK' /\ StreamOK' /\ BoundsOK'
  BY <1>1, <1>2 DEF SourceOK, StreamOK, BoundsOK, WorkerRecords
<1>4. CASE rows = {} /\ sync' = [sync EXCEPT !.pc = "idle"]
  <2>1. JobOK' /\ sync'.pc = "idle" /\ sync'.snap = sync.snap
    BY <1>1, <1>2, <1>4 DEF JobOK, SyncRecords
  <2>2. SnapshotsKept' /\ BatchIsNext'
    BY <1>1, <1>2, <2>1 DEF SnapshotsKept, BatchIsNext
  <2>3. QED BY <1>2, <1>3, <2>1, <2>2, SameTable, PartsNext
<1>5. CASE /\ rows # {}
           /\ sync' = [sync EXCEPT !.pc = "write", !.snap = builds, !.batch = rows]
  <2>1. rows \in SUBSET (1..top) OBVIOUS
  <2>2. /\ sync'.pc = "write" /\ sync'.at = sync.at /\ sync'.snap = builds
        /\ sync'.batch = rows /\ sync' \in SyncRecords
    BY <1>1, <1>5, <2>1 DEF JobOK, SyncRecords
  <2>3. JobOK' BY <1>1, <1>2, <1>5, <2>2 DEF JobOK, SyncRecords
  <2>4. SnapshotsKept'
    <3>1. Kept(builds, builds) BY <1>1 DEF Kept, Table
    <3>2. QED BY <1>1, <1>2, <2>2, <3>1 DEF SnapshotsKept
  <2>5. sync.at = watermark BY <1>1 DEF BatchIsNext, SyncRead
  <2>6. ASSUME NEW j \in rows
        PROVE  sync.at < j /\ (sync.at + 1)..j \subseteq rows
    <3>1. sync.at \in Nat /\ top \in Nat /\ BatchSize \in Nat
      BY <1>1, BuildIngestAssumption
      DEF JobOK, SourceOK, SyncRecords, BuildIngestAssumption
    <3>2. QED BY <3>1
  <2>7. BatchIsNext' BY <1>2, <2>2, <2>5, <2>6 DEF BatchIsNext
  <2>8. QED BY <1>2, <1>3, <2>3, <2>4, <2>7, SameTable, PartsNext
<1>6. QED BY <1>4, <1>5 DEF SyncRead

\* The end of a run, after whatever became of the last batch.
LEMMA EndOfSync ==
  ASSUME IInv, SyncEnds, watermark' \in 0..top, dropped' \subseteq Jobs,
         builds' \in Table, Grown(builds, builds'),
         UNCHANGED <<top, audit, worker, next, committed, passed>>
  PROVE  JobOK' /\ SourceOK' /\ StreamOK' /\ SnapshotsKept' /\ BatchIsNext'
<1>1. /\ builds \in Table /\ SourceOK /\ JobOK /\ StreamOK /\ SnapshotsKept
  BY Parts
<1>2. SourceOK' /\ StreamOK' BY <1>1 DEF SourceOK, StreamOK, WorkerRecords
<1>3. sync' \in SyncRecords /\ sync'.pc = "idle" /\ sync'.snap = << >>
  BY <1>1, EmptyTable DEF SyncEnds, JobOK, SyncRecords
<1>4. JobOK' BY <1>1, <1>3 DEF JobOK, SyncRecords
<1>5. Grown(worker.snap, builds')
  BY <1>1, GrownTrans DEF SnapshotsKept, StreamOK, WorkerRecords
<1>6. SnapshotsKept' BY <1>3, <1>5, EmptyTable DEF SnapshotsKept
<1>7. BatchIsNext' BY <1>3 DEF BatchIsNext
<1>8. QED BY <1>2, <1>4, <1>6, <1>7

LEMMA SyncWriteIInv == ASSUME IInv, SyncWrite PROVE IInv'
<1>1. /\ builds \in Table /\ SourceOK /\ JobOK /\ StreamOK /\ BoundsOK
      /\ SnapshotsKept /\ BatchIsNext /\ StoredInRange
  BY Parts
<1>2. UNCHANGED <<top, audit, worker, next, committed, passed>>
  BY DEF SyncWrite, source, jobState, stream, Fault
<1>3. sync.pc = "write" /\ BoundsOK'
  BY <1>1, BuildIngestAssumption DEF SyncWrite, BoundsOK, Fault, BuildIngestAssumption
<1>4. Writing BY <1>3, WritingTrue
<1>5. watermark \in 0..top /\ dropped \subseteq Jobs /\ NewWatermark \in 0..top
  BY <1>1, <1>3, WatermarkNext DEF JobOK
<1>6. CASE builds' = AfterUpserts /\ watermark' = NewWatermark /\ UNCHANGED dropped
           /\ (SyncEnds \/ sync' = [pc |-> "read", at |-> NewWatermark, snap |-> << >>,
                                    batch |-> {}])
  <2>1. builds' \in Table /\ Grown(builds, builds')
    BY <1>4, <1>6, UpsertsTyped, UpsertsGrow
  <2>2. StoredInRange' /\ UnresolvedIsAlone'
    BY <1>3, <1>6, UpsertsStore, UpsertsAlone
  <2>3. ProcessedIsBuilt'
    <3> SUFFICES ASSUME NEW e \in Events, audit[e] = "PROCESSED"
                 PROVE  \E i \in DOMAIN builds' :
                          /\ e \in builds'[i].of
                          /\ \/ builds'[i].url = UrlOf[e] \/ builds'[i].blind
                             \/ Job(e) # Null
                                /\ (builds'[i].job = Job(e) \/ builds'[i].taken)
      BY <1>2 DEF ProcessedIsBuilt, Job
    <3>1. QED BY <1>1, <2>1, BuiltKept DEF IInv
  <2>4. JobOK' /\ SourceOK' /\ StreamOK' /\ SnapshotsKept' /\ BatchIsNext'
    <3>1. CASE SyncEnds BY <1>2, <1>5, <1>6, <2>1, <3>1, EndOfSync
    <3>2. CASE sync' = [pc |-> "read", at |-> NewWatermark, snap |-> << >>, batch |-> {}]
      <4>1. SourceOK' /\ StreamOK'
        BY <1>1, <1>2 DEF SourceOK, StreamOK, WorkerRecords
      <4>2. JobOK' BY <1>2, <1>5, <1>6, <3>2, EmptyTable DEF JobOK, SyncRecords
      <4>3. Grown(worker.snap, builds')
        BY <1>1, <2>1, GrownTrans DEF SnapshotsKept, StreamOK, WorkerRecords
      <4>4. SnapshotsKept' BY <1>2, <2>1, <3>2, <4>3, EmptyTable DEF SnapshotsKept
      <4>5. BatchIsNext' BY <1>6, <3>2 DEF BatchIsNext
      <4>6. QED BY <4>1, <4>2, <4>4, <4>5
    <3>3. QED BY <1>6, <3>1, <3>2
  <2>5. QED BY <1>3, <2>1, <2>2, <2>3, <2>4, PartsNext
<1>7. CASE SyncEnds /\ UNCHANGED <<builds, watermark, dropped>>
  <2>1. Grown(builds, builds') BY <1>1, <1>7, GrownSame
  <2>2. JobOK' /\ SourceOK' /\ StreamOK' /\ SnapshotsKept' /\ BatchIsNext'
    BY <1>1, <1>2, <1>5, <1>7, <2>1, EndOfSync
  <2>3. QED BY <1>2, <1>3, <1>7, <2>2, SameTable, PartsNext
<1>8. CASE SyncEnds /\ watermark' = NewWatermark /\ dropped' = dropped \cup Batch
           /\ UNCHANGED builds
  <2>1. Grown(builds, builds') BY <1>1, <1>8, GrownSame
  <2>2. dropped' \subseteq Jobs BY <1>4, <1>5, <1>8, BatchTyped
  <2>3. JobOK' /\ SourceOK' /\ StreamOK' /\ SnapshotsKept' /\ BatchIsNext'
    BY <1>1, <1>2, <1>5, <1>8, <2>1, <2>2, EndOfSync
  <2>4. StoredInRange'
    <3> SUFFICES ASSUME NEW j \in 1..NewWatermark, j \notin Malformed \cup dropped'
                 PROVE  \E i \in 1..Len(builds) :
                          /\ builds[i].url = UrlOf[j] /\ builds[i].job \in Jobs
                          /\ j <= builds[i].job /\ builds[i].job <= NewWatermark
      BY <1>8 DEF StoredInRange
    <3>1. j \in 1..watermark /\ j \notin Malformed \cup dropped
      BY <1>3, <1>8, WatermarkNext DEF Batch
    <3>2. PICK i \in 1..Len(builds) :
            /\ builds[i].url = UrlOf[j] /\ builds[i].job \in Jobs
            /\ j <= builds[i].job /\ builds[i].job <= watermark
      BY <1>1, <3>1 DEF StoredInRange
    <3>3. watermark \in Nat /\ NewWatermark \in Nat /\ watermark < NewWatermark
          /\ builds[i].job \in Nat
      <4>1. watermark \in Nat /\ NewWatermark \in Nat BY <1>1, <1>5 DEF SourceOK
      <4>2. watermark < NewWatermark BY <1>3, WatermarkNext
      <4>3. builds[i].job \in Nat BY <3>2, JobsAreNumbers
      <4>4. QED BY <4>1, <4>2, <4>3
    <3>4. builds[i].job <= NewWatermark BY <3>2, <3>3
    <3>5. QED BY <3>2, <3>4
  <2>5. QED BY <1>2, <1>3, <1>8, <2>3, <2>4, SameTable, PartsNext
<1>9. QED BY <1>6, <1>7, <1>8 DEF SyncWrite

LEMMA SyncCrashIInv == ASSUME IInv, SyncCrash PROVE IInv'
<1>1. /\ builds \in Table /\ SourceOK /\ JobOK /\ StreamOK /\ BoundsOK
      /\ SnapshotsKept /\ BatchIsNext /\ StoredInRange
  BY Parts
<1>2. UNCHANGED <<builds, top, watermark, dropped, audit, worker, next, committed, passed>>
  BY DEF SyncCrash, source, jobState, stream, Fault
<1>3. BoundsOK'
  BY <1>1, BuildIngestAssumption DEF SyncCrash, BoundsOK, Fault, BuildIngestAssumption
<1>4. watermark' \in 0..top /\ dropped' \subseteq Jobs /\ Grown(builds, builds')
  BY <1>1, <1>2, GrownSame DEF JobOK
<1>5. JobOK' /\ SourceOK' /\ StreamOK' /\ SnapshotsKept' /\ BatchIsNext'
  BY <1>1, <1>2, <1>4, EndOfSync DEF SyncCrash
<1>6. QED BY <1>2, <1>3, <1>5, SameTable, PartsNext

-----------------------------------------------------------------------------
(* The worker *)

LEMMA ReceiveIInv == ASSUME IInv, Receive PROVE IInv'
<1>1. /\ builds \in Table /\ SourceOK /\ JobOK /\ StreamOK /\ BoundsOK
      /\ SnapshotsKept /\ BatchIsNext /\ StoredInRange
  BY Parts
<1>2. UNCHANGED <<builds, top, watermark, sync, dropped, committed>>
  BY DEF Receive, source, jobState, stream, Fault
<1>3. BoundsOK'
  BY <1>1, BuildIngestAssumption DEF Receive, BoundsOK, Fault, BuildIngestAssumption
<1>4. SourceOK' /\ JobOK' BY <1>1, <1>2 DEF SourceOK, JobOK, SyncRecords
<1>5. BatchIsNext' BY <1>1, <1>2 DEF BatchIsNext
<1>6. StreamOK'
  <2> DEFINE e == Log[next + 1]
  <2>1. Len(Log) \in Nat /\ next \in Nat /\ committed \in Nat /\ next + 1 \in 1..Len(Log)
    BY <1>1, BuildIngestAssumption DEF Receive, StreamOK, BuildIngestAssumption
  <2>2. e \in Events BY <2>1, BuildIngestAssumption DEF BuildIngestAssumption
  <2>3. next' \in 0..Len(Log) /\ committed' \in 0..next'
    BY <1>1, <1>2, <2>1 DEF Receive, StreamOK
  <2>4. audit' \in [Events -> Statuses]
    <3>1. audit' = audit \/ audit' = [audit EXCEPT ![e] = IF audit[e] = Absent THEN "RECEIVED" ELSE audit[e]]
      BY DEF Receive
    <3>2. audit[e] \in Statuses BY <1>1, <2>2 DEF StreamOK
    <3>3. (IF audit[e] = Absent THEN "RECEIVED" ELSE audit[e]) \in Statuses
      BY <3>2 DEF Statuses
    <3>4. QED BY <1>1, <3>1, <3>3 DEF StreamOK
  <2>5. passed' \subseteq Events BY <1>1, <2>2 DEF Receive, StreamOK
  <2>6. worker' \in WorkerRecords /\ (worker'.pc # "idle" => worker'.ev \in Events)
    BY <1>1, <2>2 DEF Receive, StreamOK, WorkerRecords
  <2>7. QED BY <2>3, <2>4, <2>5, <2>6 DEF StreamOK, WorkerRecords
<1>7. SnapshotsKept'
  <2>1. worker'.snap = worker.snap BY <1>1 DEF Receive, StreamOK, WorkerRecords
  <2>2. QED BY <1>1, <1>2, <2>1 DEF SnapshotsKept
<1>8. \A e \in Events : audit'[e] = "PROCESSED" => audit[e] = "PROCESSED"
  BY <1>1 DEF Receive, Absent, StreamOK
<1>9. QED BY <1>2, <1>3, <1>4, <1>5, <1>6, <1>7, <1>8, SameTable, PartsNext

LEMMA MergeReadIInv == ASSUME IInv, MergeRead PROVE IInv'
<1>1. /\ builds \in Table /\ SourceOK /\ JobOK /\ StreamOK /\ BoundsOK
      /\ SnapshotsKept /\ BatchIsNext /\ StoredInRange
  BY Parts
<1>2. UNCHANGED <<builds, top, watermark, sync, dropped, audit, next, committed, passed, faults>>
  BY DEF MergeRead, source, jobState, stream, Fault
<1>3. BoundsOK'
  BY <1>1, <1>2 DEF BoundsOK
<1>4. SourceOK' /\ JobOK' BY <1>1, <1>2 DEF SourceOK, JobOK, SyncRecords
<1>5. BatchIsNext' BY <1>1, <1>2 DEF BatchIsNext
<1>6. StreamOK' /\ worker'.snap = builds
  BY <1>1, <1>2 DEF MergeRead, StreamOK, WorkerRecords
<1>7. SnapshotsKept' BY <1>1, <1>2, <1>6, GrownSame DEF SnapshotsKept
<1>8. \A e \in Events : audit'[e] = "PROCESSED" => audit[e] = "PROCESSED"
  BY <1>1, <1>2 DEF MergeRead, StreamOK
<1>9. QED BY <1>2, <1>3, <1>4, <1>5, <1>6, <1>7, <1>8, SameTable, PartsNext

\* A transaction that is committed, seen or not.
LEMMA MergeCommits ==
  ASSUME IInv, worker.pc = "merge", ~MergeClash, builds' = Merged,
         audit' = [audit EXCEPT ![worker.ev] = "PROCESSED"],
         UNCHANGED <<watermark, sync, dropped>>
  PROVE  /\ builds' \in Table /\ Kept(builds, builds') /\ StoredInRange'
         /\ UnresolvedIsAlone' /\ ProcessedIsBuilt'
<1>1. /\ Merging /\ builds \in Table /\ StreamOK /\ StoredInRange /\ UnresolvedIsAlone
      /\ ProcessedIsBuilt
  BY MergingTrue, Parts
<1>2. builds' \in Table /\ Kept(builds, builds') BY <1>1, MergedKept
<1>3. StoredInRange' BY <1>1, <1>2, StoredKept
<1>4. UnresolvedIsAlone' BY <1>1, MergedAlone
<1>5. ProcessedIsBuilt'
  <2> SUFFICES ASSUME NEW e \in Events, audit'[e] = "PROCESSED"
               PROVE  \E i \in DOMAIN builds' :
                        /\ e \in builds'[i].of
                        /\ \/ builds'[i].url = UrlOf[e] \/ builds'[i].blind
                           \/ Job(e) # Null
                              /\ (builds'[i].job = Job(e) \/ builds'[i].taken)
    BY DEF ProcessedIsBuilt, Job
  <2>1. CASE e = worker.ev BY <1>1, <2>1, MergedIsBuilt
  <2>2. CASE e # worker.ev
    <3>1. audit[e] = "PROCESSED" BY <1>1, <2>2 DEF StreamOK
    <3>2. Grown(builds, builds') BY <1>1, <1>2, KeptIsGrown
    <3>3. QED BY <1>1, <1>2, <3>1, <3>2, BuiltKept
  <2>3. QED BY <2>1, <2>2
<1>6. QED BY <1>2, <1>3, <1>4, <1>5

LEMMA MergeIInv == ASSUME IInv, Merge PROVE IInv'
<1>1. /\ builds \in Table /\ SourceOK /\ JobOK /\ StreamOK /\ BoundsOK
      /\ SnapshotsKept /\ BatchIsNext /\ StoredInRange
  BY Parts
<1>2. UNCHANGED <<top, watermark, sync, dropped, next, committed, passed>>
  BY DEF Merge, source, jobState, stream, Fault
<1>3. BoundsOK'
  BY <1>1, BuildIngestAssumption DEF Merge, BoundsOK, Fault, BuildIngestAssumption
<1>4. SourceOK' /\ JobOK' BY <1>1, <1>2 DEF SourceOK, JobOK, SyncRecords
<1>5. BatchIsNext' BY <1>1, <1>2 DEF BatchIsNext
<1>6. /\ worker.pc = "merge" /\ worker.ev \in Events
      /\ At("commit") \/ At("failing")
  BY <1>1 DEF Merge, StreamOK
<1>7. worker' \in WorkerRecords /\ worker'.pc # "idle" /\ worker'.ev = worker.ev
      /\ worker'.snap = worker.snap
  BY <1>1, <1>6 DEF At, StreamOK, WorkerRecords
<1>8. StreamOK'
  <2>1. audit' \in [Events -> Statuses]
    BY <1>1, <1>6 DEF Merge, StreamOK, Statuses
  <2>2. QED BY <1>1, <1>2, <1>6, <1>7, <2>1 DEF StreamOK, WorkerRecords
<1>9. CASE /\ ~MergeClash /\ builds' = Merged
           /\ audit' = [audit EXCEPT ![worker.ev] = "PROCESSED"]
  <2>1. /\ builds' \in Table /\ Kept(builds, builds') /\ StoredInRange'
        /\ UnresolvedIsAlone' /\ ProcessedIsBuilt'
    BY <1>2, <1>6, <1>9, MergeCommits
  <2>2. SnapshotsKept'
    <3>1. Kept(sync.snap, builds')
      BY <1>1, <2>1, KeptTrans DEF SnapshotsKept, JobOK, SyncRecords
    <3>2. Grown(worker.snap, builds')
      BY <1>1, <2>1, KeptIsGrown, GrownTrans
      DEF SnapshotsKept, StreamOK, WorkerRecords
    <3>3. QED BY <1>2, <1>7, <3>1, <3>2 DEF SnapshotsKept
  <2>3. QED BY <1>3, <1>4, <1>5, <1>8, <2>1, <2>2, PartsNext
<1>10. CASE UNCHANGED <<builds, audit>>
  <2>1. SnapshotsKept' BY <1>1, <1>2, <1>7, <1>10 DEF SnapshotsKept
  <2>2. QED BY <1>2, <1>3, <1>4, <1>5, <1>8, <1>10, <2>1, SameTable, PartsNext
<1>11. QED BY <1>9, <1>10 DEF Merge

LEMMA MarkFailedIInv == ASSUME IInv, MarkFailed PROVE IInv'
<1>1. /\ builds \in Table /\ SourceOK /\ JobOK /\ StreamOK /\ BoundsOK
      /\ SnapshotsKept /\ BatchIsNext /\ StoredInRange
  BY Parts
<1>2. UNCHANGED <<builds, top, watermark, sync, dropped, next, committed>>
  BY DEF MarkFailed, source, jobState, stream, Fault
<1>3. BoundsOK'
  BY <1>1, BuildIngestAssumption DEF MarkFailed, BoundsOK, Fault, BuildIngestAssumption
<1>4. SourceOK' /\ JobOK' BY <1>1, <1>2 DEF SourceOK, JobOK, SyncRecords
<1>5. BatchIsNext' BY <1>1, <1>2 DEF BatchIsNext
<1>6. StreamOK' /\ (worker'.snap = worker.snap \/ worker'.snap = << >>)
  <2>1. worker.ev \in Events BY <1>1 DEF MarkFailed, StreamOK
  <2>2. /\ worker' \in WorkerRecords /\ (worker'.pc # "idle" => worker'.ev \in Events)
        /\ worker'.snap = worker.snap \/ worker'.snap = << >>
    BY <1>1, <2>1, EmptyTable DEF MarkFailed, At, Forget, StreamOK, WorkerRecords
  <2>3. audit' \in [Events -> Statuses] /\ passed' \subseteq Events
    BY <1>1, <2>1 DEF MarkFailed, StreamOK, Statuses
  <2>4. QED BY <1>1, <1>2, <2>2, <2>3 DEF StreamOK, WorkerRecords
<1>7. SnapshotsKept' BY <1>1, <1>2, <1>6, EmptyTable DEF SnapshotsKept
<1>8. \A e \in Events : audit'[e] = "PROCESSED" => audit[e] = "PROCESSED"
  BY <1>1, <1>2 DEF MarkFailed, StreamOK
<1>9. QED BY <1>2, <1>3, <1>4, <1>5, <1>6, <1>7, <1>8, SameTable, PartsNext

LEMMA CommitIInv == ASSUME IInv, Commit PROVE IInv'
<1>1. /\ builds \in Table /\ SourceOK /\ JobOK /\ StreamOK /\ BoundsOK
      /\ SnapshotsKept /\ BatchIsNext /\ StoredInRange
  BY Parts
<1>2. UNCHANGED <<builds, top, watermark, sync, dropped, audit, next, passed, faults>>
  BY DEF Commit, source, jobState, stream, Fault
<1>3. BoundsOK'
  BY <1>1, <1>2 DEF BoundsOK
<1>4. SourceOK' /\ JobOK' BY <1>1, <1>2 DEF SourceOK, JobOK, SyncRecords
<1>5. BatchIsNext' BY <1>1, <1>2 DEF BatchIsNext
<1>6. StreamOK' /\ worker'.snap = << >>
  <2>1. /\ worker' \in WorkerRecords /\ worker'.pc = "idle" /\ worker'.snap = << >>
    BY EmptyTable DEF Commit, Forget, WorkerRecords
  <2>2. committed' = next /\ next \in 0..next
    BY <1>1, BuildIngestAssumption DEF Commit, StreamOK, BuildIngestAssumption
  <2>3. QED BY <1>1, <1>2, <2>1, <2>2 DEF StreamOK, WorkerRecords
<1>7. SnapshotsKept' BY <1>1, <1>2, <1>6, EmptyTable DEF SnapshotsKept
<1>8. \A e \in Events : audit'[e] = "PROCESSED" => audit[e] = "PROCESSED"
  BY <1>1, <1>2 DEF Commit, StreamOK
<1>9. QED BY <1>2, <1>3, <1>4, <1>5, <1>6, <1>7, <1>8, SameTable, PartsNext

LEMMA WorkerCrashIInv == ASSUME IInv, WorkerCrash PROVE IInv'
<1>1. /\ builds \in Table /\ SourceOK /\ JobOK /\ StreamOK /\ BoundsOK
      /\ SnapshotsKept /\ BatchIsNext /\ StoredInRange
  BY Parts
<1>2. UNCHANGED <<builds, top, watermark, sync, dropped, audit, committed, passed>>
  BY DEF WorkerCrash, source, jobState, stream, Fault
<1>3. BoundsOK'
  BY <1>1, BuildIngestAssumption DEF WorkerCrash, BoundsOK, Fault, BuildIngestAssumption
<1>4. SourceOK' /\ JobOK' BY <1>1, <1>2 DEF SourceOK, JobOK, SyncRecords
<1>5. BatchIsNext' BY <1>1, <1>2 DEF BatchIsNext
<1>6. StreamOK' /\ worker'.snap = << >>
  <2>1. /\ worker' \in WorkerRecords /\ worker'.pc = "idle" /\ worker'.snap = << >>
    BY EmptyTable DEF WorkerCrash, Forget, WorkerRecords
  <2>2. next' = committed /\ committed \in 0..committed /\ committed \in 0..Len(Log)
    BY <1>1, BuildIngestAssumption DEF WorkerCrash, StreamOK, BuildIngestAssumption
  <2>3. QED BY <1>1, <1>2, <2>1, <2>2 DEF StreamOK, WorkerRecords
<1>7. SnapshotsKept' BY <1>1, <1>2, <1>6, EmptyTable DEF SnapshotsKept
<1>8. \A e \in Events : audit'[e] = "PROCESSED" => audit[e] = "PROCESSED"
  BY <1>1, <1>2 DEF WorkerCrash, StreamOK
<1>9. QED BY <1>2, <1>3, <1>4, <1>5, <1>6, <1>7, <1>8, SameTable, PartsNext

-----------------------------------------------------------------------------
LEMMA StutterIInv == ASSUME IInv, UNCHANGED vars PROVE IInv'
<1>1. /\ builds \in Table /\ SourceOK /\ JobOK /\ StreamOK /\ BoundsOK
      /\ SnapshotsKept /\ BatchIsNext
  BY Parts
<1>2. UNCHANGED <<builds, top, watermark, sync, dropped, audit, worker, next, committed,
                  passed, faults>>
  BY DEF vars, source, jobState, stream
<1>3. SourceOK' /\ JobOK' /\ StreamOK' /\ BoundsOK' /\ SnapshotsKept' /\ BatchIsNext'
  BY <1>1, <1>2
  DEF SourceOK, JobOK, StreamOK, BoundsOK, SnapshotsKept, BatchIsNext, SyncRecords,
      WorkerRecords
<1>4. QED BY <1>2, <1>3, SameTable, PartsNext

LEMMA NextIInv == ASSUME IInv, [Next]_vars PROVE IInv'
<1>1. CASE Sync BY <1>1, SyncStartIInv, SyncReadIInv, SyncWriteIInv DEF Sync
<1>2. CASE Worker
  BY <1>2, ReceiveIInv, MergeReadIInv, MergeIInv, MarkFailedIInv, CommitIInv DEF Worker
<1>3. QED
  BY <1>1, <1>2, ArriveIInv, SyncCrashIInv, WorkerCrashIInv, StutterIInv DEF Next

LEMMA Invariance == Spec => []IInv
<1>1. Init => IInv BY InitIInv
<1>2. IInv /\ [Next]_vars => IInv' BY NextIInv
<1>3. QED BY <1>1, <1>2, PTL DEF Spec

\* The types of the table, of both processes and of what they hold.
THEOREM TypeCorrect == Spec => []TypeOK
<1>1. IInv => TypeOK BY DEF IInv
<1>2. QED BY <1>1, Invariance, PTL

\* No row of prow_jobs is lost below the watermark (run_sync_builds), whatever the
\* worker merges meanwhile, but for those of a batch that was rolled back.
THEOREM SyncedAreStored == Spec => []SyncedIsStored
<1>1. IInv => SyncedIsStored
  <2> SUFFICES ASSUME IInv, NEW j \in 1..watermark, j \notin Malformed \cup dropped
               PROVE  \E i \in WithUrl(builds, UrlOf[j]) :
                        builds[i].job \in Jobs /\ builds[i].job >= j
    BY DEF SyncedIsStored
  <2>1. PICK i \in 1..Len(builds) :
          builds[i].url = UrlOf[j] /\ builds[i].job \in Jobs /\ j <= builds[i].job
    BY DEF IInv, StoredInRange
  <2>2. i \in WithUrl(builds, UrlOf[j]) BY <2>1 DEF IInv, TypeOK, Table, WithUrl
  <2>3. builds[i].job >= j BY <2>1, JobsAreNumbers
  <2>4. QED BY <2>1, <2>2, <2>3
<1>2. QED BY <1>1, Invariance, PTL

\* Both writers look before they insert: a row without a prow job is the only one
\* of its URL, unless their transactions overlapped or a prow job moved a row.
THEOREM UnresolvedAreAlone == Spec => []UnresolvedIsAlone
<1>1. IInv => UnresolvedIsAlone BY DEF IInv
<1>2. QED BY <1>1, Invariance, PTL

\* An event marked PROCESSED (process_jenkins_event_message) can be found in the
\* table, however often either writer has touched its row since.
THEOREM ProcessedAreBuilt == Spec => []ProcessedIsBuilt
<1>1. IInv => ProcessedIsBuilt BY DEF IInv
<1>2. QED BY <1>1, Invariance, PTL

-----------------------------------------------------------------------------
(* The unique key. *)

\* The prow job of each row that the new ones do not add.
LEMMA UpdatedJob ==
  ASSUME Writing, NEW i \in 1..Len(builds)
  PROVE  /\ AfterUpserts[i].job = AfterUpdates[i].job
         /\ UpdatesOf(i) = {} => AfterUpserts[i].job = builds[i].job
         /\ UpdatesOf(i) # {} => AfterUpserts[i].job = LastOf(UpdatesOf(i))
<1>1. AfterUpserts[i] = RowChanged[i] /\ builds[i] \in Row
  BY UpsertsTyped DEF Writing, Table
<1>2. CASE UpdatesOf(i) # {}
  <2>1. LastOf(UpdatesOf(i)) \in Jobs BY <1>2, LastUpdate
  <2>2. RowChanged[i] = Overwrite(builds[i], LastOf(UpdatesOf(i)))
    BY <1>2, ChangedTyped
  <2>3. AfterUpdates[i] = Overwrite(builds[i], LastOf(UpdatesOf(i)))
    BY <1>2, UpdatesTyped
  <2>4. QED BY <1>1, <1>2, <2>1, <2>2, <2>3, OverwriteTyped
<1>3. CASE UpdatesOf(i) = {}
  <2>1. AfterUpdates[i] = builds[i] BY <1>3, UpdatesTyped
  <2>2. CASE RowChanged[i] = builds[i] BY <1>1, <1>3, <2>1, <2>2
  <2>3. CASE /\ builds[i].job \in Batch \ Updates
             /\ RowChanged[i] = Overwrite(builds[i], builds[i].job)
    <3>1. builds[i].job \in Jobs BY <2>3, BatchTyped
    <3>2. QED BY <1>1, <1>3, <2>1, <2>3, <3>1, OverwriteTyped
  <2>4. QED BY <1>3, <2>2, <2>3, ChangedTyped
<1>4. QED BY <1>2, <1>3

\* A row that is added has a prow job that no old row has, and it is the only one
\* that is added for it.
LEMMA AddedJob ==
  ASSUME Writing, NEW i \in 1..Len(AfterUpserts), i \notin 1..Len(builds)
  PROVE  /\ \A k \in 1..Len(builds) : AfterUpserts[k].job # AfterUpserts[i].job
         /\ \A k \in 1..Len(AfterUpserts) :
              k \notin 1..Len(builds) /\ AfterUpserts[k].job = AfterUpserts[i].job => k = i
<1> DEFINE a == RowChanged
           b == RowsAdded
           q == SetToSeq(New)
           n == Len(builds)
<1>1. a \in Seq(Row) /\ b \in Seq(Row) /\ Len(a) = n
  BY ChangedTyped, AddedTyped DEF Table
<1>2. n \in Nat /\ Len(b) \in Nat BY <1>1
<1>3. /\ Len(AfterUpserts) = n + Len(b)
      /\ \A k \in 1..(n + Len(b)) :
           AfterUpserts[k] = IF k <= n THEN a[k] ELSE b[k - n]
  <2>1. /\ Len(AfterUpserts) = Len(a) + Len(b)
        /\ \A k \in 1..(Len(a) + Len(b)) :
             AfterUpserts[k] = IF k <= Len(a) THEN a[k] ELSE b[k - Len(a)]
    BY <1>1, UpsertsInTwo, ConcatProperties
  <2>2. QED BY <1>1, <2>1
<1>4. /\ Len(b) = Cardinality(New) /\ q \in [1..Len(b) -> New]
      /\ \A m, l \in 1..Len(b) : q[m] = q[l] => m = l
  BY BatchTyped, SeqOfSet, AddedTyped
<1>5. \A m \in 1..Len(b) : b[m] = NewRow(sync.snap, q[m])
  BY <1>4 DEF RowsAdded
<1>6. \A m \in 1..Len(b) : q[m] \in New /\ b[m].job = q[m]
  <2> TAKE m \in 1..Len(b)
  <2>1. q[m] \in New BY <1>4
  <2>2. q[m] \in Jobs BY <2>1, BatchTyped DEF New
  <2>3. QED BY <1>5, <2>1, <2>2, NewRowTyped DEF Job
<1>7. \A k \in 1..Len(AfterUpserts) : k \notin 1..n =>
        k - n \in 1..Len(b) /\ AfterUpserts[k] = b[k - n]
  BY <1>2, <1>3
<1>8. ASSUME NEW k \in 1..n, AfterUpserts[k].job = AfterUpserts[i].job PROVE FALSE
  <2>1. HasJob(AfterUpdates, AfterUpserts[i].job) = {}
    BY <1>6, <1>7 DEF New
  <2>2. AfterUpdates[k].job = AfterUpserts[i].job BY <1>8, UpdatedJob
  <2>3. k \in DOMAIN AfterUpdates BY UpdatesTyped DEF Table
  <2>4. QED BY <2>1, <2>2, <2>3 DEF HasJob
<1>9. ASSUME NEW k \in 1..Len(AfterUpserts), k \notin 1..n,
             AfterUpserts[k].job = AfterUpserts[i].job
      PROVE  k = i
  <2>1. /\ i - n \in 1..Len(b) /\ k - n \in 1..Len(b)
        /\ q[i - n] = q[k - n]
    BY <1>6, <1>7, <1>9
  <2>2. i - n = k - n BY <1>4, <2>1
  <2>3. i \in Nat /\ k \in Nat BY <1>2, <1>3
  <2>4. QED BY <1>2, <2>2, <2>3
<1>10. QED BY <1>8, <1>9

\* The statements of a batch that do not clash keep the key.
LEMMA UpsertsUnique ==
  ASSUME Writing, OneRowPerJob, ~UpdatesClash,
         NEW i \in 1..Len(AfterUpserts), NEW k \in 1..Len(AfterUpserts),
         AfterUpserts[i].job = AfterUpserts[k].job, AfterUpserts[i].job # Null
  PROVE  i = k
<1> DEFINE j == AfterUpserts[i].job
<1>1. DOMAIN builds = 1..Len(builds) BY DEF Writing, Table
<1>2. CASE i \notin 1..Len(builds) \/ k \notin 1..Len(builds)
  BY <1>2, AddedJob
<1>3. CASE i \in 1..Len(builds) /\ k \in 1..Len(builds)
  <2>1. ASSUME NEW l \in 1..Len(builds), NEW m \in 1..Len(builds), l # m,
               UpdatesOf(l) # {}, UpdatesOf(m) = {},
               AfterUpserts[l].job = j, AfterUpserts[m].job = j
        PROVE  FALSE
    <3>1. j \in Updates /\ Aim(j) = l
      BY <2>1, UpdatedJob, LastUpdate
    <3>2. m \in HasJob(builds, j) \ {Aim(j)}
      BY <1>1, <2>1, <3>1, UpdatedJob DEF HasJob
    <3>3. \A u \in UpdatesOf(m) : j < u BY <2>1
    <3>4. QED BY <3>1, <3>2, <3>3 DEF UpdatesClash
  <2>2. CASE UpdatesOf(i) # {} /\ UpdatesOf(k) # {}
    BY <1>3, <2>2, UpdatedJob, LastUpdate
  <2>3. CASE UpdatesOf(i) = {} /\ UpdatesOf(k) = {}
    <3>1. builds[i].job = builds[k].job /\ builds[i].job # Null
      BY <1>3, <2>3, UpdatedJob
    <3>2. QED BY <1>1, <1>3, <3>1 DEF OneRowPerJob
  <2>4. QED BY <1>3, <2>1, <2>2, <2>3
<1>4. QED BY <1>2, <1>3

\* So does the merge of an event.
LEMMA MergedUnique ==
  ASSUME Merging, OneRowPerJob, ~MergeClash,
         NEW i \in DOMAIN Merged, NEW k \in DOMAIN Merged,
         Merged[i].job = Merged[k].job, Merged[i].job # Null
  PROVE  i = k
<1> DEFINE J == Job(worker.ev)
<1>1. Len(builds) \in Nat /\ builds \in Seq(Row) /\ DOMAIN builds = 1..Len(builds)
      /\ worker.ev \in Events
  BY DEF Merging, Table
<1>2. \A l, m \in 1..Len(builds) :
        builds[l].job = builds[m].job /\ builds[l].job # Null => l = m
  BY <1>1 DEF OneRowPerJob
<1>3. J # Null /\ (Target # 0 => builds[Target].job = Null) =>
        \A l \in 1..Len(builds) : builds[l].job # J
  BY <1>1 DEF MergeClash, HasJob
<1>4. CASE Target = 0
  <2> DEFINE w == NewRow(worker.snap, worker.ev)
             n == Len(builds) + 1
  <2>1. w \in Row /\ w.job = J
    BY <1>1, NewRowTyped
  <2>2. /\ DOMAIN Merged = 1..n /\ Merged[n] = w
        /\ \A l \in 1..Len(builds) : Merged[l] = builds[l]
    <3>1. Merged = Append(builds, w) BY <1>4 DEF Merged
    <3>2. QED BY <1>1, <2>1, <3>1, AppendProperties
  <2>3. \A l \in 1..n : l \in 1..Len(builds) \/ l = n BY <1>1
  <2>4. CASE i \in 1..Len(builds) /\ k \in 1..Len(builds)
    BY <1>2, <2>2, <2>4
  <2>5. CASE i = n /\ k \in 1..Len(builds) BY <1>3, <1>4, <2>1, <2>2, <2>5
  <2>6. CASE i \in 1..Len(builds) /\ k = n BY <1>3, <1>4, <2>1, <2>2, <2>6
  <2>7. QED BY <2>2, <2>3, <2>4, <2>5, <2>6
<1>5. CASE Target # 0
  <2>1. Target \in 1..Len(builds) BY <1>5, MergeTarget
  <2>2. /\ DOMAIN Merged = 1..Len(builds)
        /\ \A l \in 1..Len(builds) :
             Merged[l].job = IF l = Target /\ builds[l].job = Null THEN J
                             ELSE builds[l].job
    <3>1. Merged = [builds EXCEPT ![Target] = MergedRow] BY <1>5, MergedRowTyped
    <3>2. QED BY <1>1, <1>5, <2>1, <3>1, MergedRowTyped
  <2>3. QED BY <1>2, <1>3, <2>1, <2>2
<1>6. QED BY <1>4, <1>5

LEMMA OneRowNext ==
  ASSUME IInv, OneRowPerJob, [Next]_vars
  PROVE  OneRowPerJob'
<1>1. CASE UNCHANGED builds
  BY <1>1 DEF OneRowPerJob
<1>2. CASE SyncWrite
  <2>1. Writing BY <1>2, WritingTrue DEF SyncWrite
  <2>2. UNCHANGED builds \/ (~UpdatesClash /\ builds' = AfterUpserts)
    BY <1>2 DEF SyncWrite
  <2>3. CASE ~UpdatesClash /\ builds' = AfterUpserts
    <3>1. DOMAIN AfterUpserts = 1..Len(AfterUpserts)
      BY <2>1, UpsertsTyped DEF Table
    <3>2. QED BY <2>1, <2>3, <3>1, UpsertsUnique DEF OneRowPerJob
  <2>4. QED BY <1>1, <2>2, <2>3
<1>3. CASE Merge
  <2>1. Merging BY <1>3, MergingTrue DEF Merge
  <2>2. UNCHANGED builds \/ (~MergeClash /\ builds' = Merged)
    BY <1>3 DEF Merge
  <2>3. CASE ~MergeClash /\ builds' = Merged
    BY <2>1, <2>3, MergedUnique DEF OneRowPerJob
  <2>4. QED BY <1>1, <2>2, <2>3
<1>4. QED
  BY <1>1, <1>2, <1>3
     DEF Next, Sync, Worker, Arrive, SyncStart, SyncRead, SyncCrash, Receive, MergeRead,
         MarkFailed, Commit, WorkerCrash, vars

LEMMA InitOneRow == Init => OneRowPerJob
BY DEF Init, OneRowPerJob

\* The unique key of ci_l1_builds, for any batches, snapshots and failures:
\* UpdatesClash and MergeClash are all that can break it.
THEOREM KeyHolds == Spec => []OneRowPerJob
BY InitOneRow, OneRowNext, Invariance, PTL DEF Spec

\* In a table with the key, who looks for a prow job finds its row.
LEMMA FindsItsRow ==
  ASSUME NEW x \in Jobs \cup Events, builds \in Table, OneRowPerJob, Job(x) # Null,
         NEW i \in HasJob(builds, Job(x))
  PROVE  resolve_merge_target_id(builds, x) = i
<1>1. Len(builds) \in Nat /\ DOMAIN builds = 1..Len(builds) BY DEF Table
<1>2. HasJob(builds, Job(x)) \in SUBSET (1..Len(builds)) BY <1>1 DEF HasJob
<1>3. resolve_merge_target_id(builds, x) = Oldest(HasJob(builds, Job(x)))
  BY DEF resolve_merge_target_id
<1>4. Oldest(HasJob(builds, Job(x))) \in HasJob(builds, Job(x))
  BY <1>1, <1>2, OldestIn
<1>5. QED BY <1>3, <1>4 DEF HasJob, OneRowPerJob

\* Neither writer is stopped by the key for ever: a transaction that begins after
\* the other one's has ended has no clash, but for an event that names no prow job
\* where several have its URL.
THEOREM ClashesDoPass == Spec => []ClashesPass
<1>1. IInv /\ OneRowPerJob => ClashesPass
  <2> SUFFICES ASSUME IInv, OneRowPerJob PROVE ClashesPass OBVIOUS
  <2>1. builds \in Table BY DEF IInv, TypeOK
  <2>2. ASSUME sync.pc = "write", sync.snap = builds, UpdatesClash PROVE FALSE
    <3>1. Writing BY <2>2, WritingTrue
    <3>2. PICK j \in Updates : HasJob(builds, j) \ {Aim(j)} # {}
      BY <2>2 DEF UpdatesClash
    <3>3. j \in Jobs /\ Job(j) = j /\ Job(j) # Null
      BY <3>1, BatchTyped, JobsAreNumbers DEF Job
    <3>4. PICK i \in HasJob(builds, j) : i # Aim(j) BY <3>2
    <3>5. QED BY <2>1, <2>2, <3>3, <3>4, FindsItsRow DEF Aim
  <2>3. ASSUME worker.pc = "merge", worker.snap = builds, MergeClash,
               ~Conflicting(builds, worker.ev)
        PROVE  FALSE
    <3>1. Merging BY <2>3, MergingTrue
    <3>2. /\ Job(worker.ev) # Null
          /\ Target # 0 => builds[Target].job = Null
          /\ HasJob(builds, Job(worker.ev)) # {}
      BY <2>3 DEF MergeClash
    <3>3. PICK i \in HasJob(builds, Job(worker.ev)) : TRUE BY <3>2
    <3>4. Target = i
      BY <2>1, <2>3, <3>1, <3>2, FindsItsRow DEF Target, Merging
    <3>5. i # 0 /\ builds[i].job = Job(worker.ev)
      BY <2>1, <3>3 DEF HasJob, Table
    <3>6. QED BY <3>2, <3>4, <3>5
  <2>4. QED BY <2>2, <2>3 DEF ClashesPass
<1>2. QED BY <1>1, Invariance, KeyHolds, PTL

-----------------------------------------------------------------------------
(* Offsets. *)

\* The worker has settled all it has polled but the event in its hands.
InOrder ==
  /\ \A n \in 1..next : Settled(Log[n]) \/ (n = next /\ worker.pc # "idle")
  /\ worker.pc # "idle" => next # 0 /\ worker.ev = Log[next]
  /\ worker.pc = "commit" => Settled(worker.ev)

SettledNext(e) == audit'[e] \in {"PROCESSED", "FAILED"} \/ e \in passed'

\* An event stays settled: a status is never taken back to RECEIVED.
LEMMA SettledStays ==
  ASSUME IInv, [Next]_vars, NEW e \in Events, Settled(e)
  PROVE  SettledNext(e)
<1>1. audit \in [Events -> Statuses] BY DEF IInv, TypeOK
<1>2. /\ passed \subseteq passed'
      /\ \/ audit'[e] = audit[e]
         \/ audit'[e] \in {"PROCESSED", "FAILED"}
         \/ audit[e] = Absent
  <2>1. CASE UNCHANGED <<audit, passed>> BY <2>1
  <2>2. CASE Receive BY <1>1, <2>2 DEF Receive
  <2>3. CASE Merge BY <1>1, <2>3 DEF Merge
  <2>4. CASE MarkFailed BY <1>1, <2>4 DEF MarkFailed
  <2>5. QED
    BY <2>1, <2>2, <2>3, <2>4
       DEF Next, Sync, Worker, Arrive, SyncStart, SyncRead, SyncWrite, SyncCrash,
           MergeRead, Commit, WorkerCrash, vars, stream
<1>3. QED BY <1>2 DEF Settled, SettledNext, Absent

LEMMA InOrderNext ==
  ASSUME IInv, InOrder, CommittedIsSettled, [Next]_vars
  PROVE  InOrder' /\ CommittedIsSettled'
<1>1. /\ next \in 0..Len(Log) /\ committed \in 0..next /\ Len(Log) \in Nat
      /\ \A n \in 1..Len(Log) : Log[n] \in Events
      /\ audit \in [Events -> Statuses] /\ worker \in WorkerRecords
      /\ worker.pc # "idle" => worker.ev \in Events
  BY BuildIngestAssumption DEF IInv, TypeOK, WorkerRecords, BuildIngestAssumption
<1>2. \A n \in 1..Len(Log) : Settled(Log[n]) => SettledNext(Log[n])
  BY <1>1, SettledStays
<1>3. ASSUME UNCHANGED committed PROVE CommittedIsSettled'
  BY <1>1, <1>2, <1>3 DEF CommittedIsSettled, Settled, SettledNext
<1>4. ASSUME UNCHANGED <<worker, next, committed>> PROVE InOrder' /\ CommittedIsSettled'
  <2>1. \A n \in 1..next : SettledNext(Log[n]) \/ (n = next /\ worker.pc # "idle")
    BY <1>1, <1>2 DEF InOrder
  <2>2. worker.pc = "commit" => SettledNext(worker.ev)
    BY <1>1, SettledStays DEF InOrder
  <2>3. QED BY <1>3, <1>4, <2>1, <2>2 DEF InOrder, Settled, SettledNext
<1>5. CASE Receive
  <2> DEFINE e == Log[next + 1]
  <2>1. /\ next' = next + 1 /\ next + 1 \in 1..Len(Log) /\ e \in Events
        /\ UNCHANGED committed
    BY <1>1, <1>5 DEF Receive
  <2>2. \A n \in 1..next : SettledNext(Log[n])
    BY <1>1, <1>2, <1>5 DEF InOrder, Receive
  <2>3. CASE passed' = passed \cup {e} /\ UNCHANGED worker
    <3>1. SettledNext(e) BY <2>3 DEF SettledNext
    <3>2. worker'.pc = "idle" BY <1>5, <2>3 DEF Receive
    <3>3. \A n \in 1..next' : SettledNext(Log[n]) BY <1>1, <2>1, <2>2, <3>1
    <3>4. QED BY <1>3, <2>1, <3>2, <3>3 DEF InOrder, Settled, SettledNext
  <2>4. CASE /\ worker' = [worker EXCEPT !.pc = IF audit[e] = "PROCESSED" THEN "commit"
                                               ELSE "read", !.ev = e]
             /\ audit' = [audit EXCEPT ![e] = IF @ = Absent THEN "RECEIVED" ELSE @]
    <3>1. worker'.ev = e /\ worker'.pc \in {"commit", "read"}
          /\ (worker'.pc = "commit" => audit[e] = "PROCESSED")
      BY <1>1, <2>4 DEF WorkerRecords
    <3>2. audit[e] = "PROCESSED" => SettledNext(e)
      BY <1>1, <2>1, <2>4 DEF SettledNext, Absent
    <3>3. \A n \in 1..next' : SettledNext(Log[n]) \/ n = next' BY <1>1, <2>1, <2>2
    <3>4. QED BY <1>1, <1>3, <2>1, <3>1, <3>2, <3>3 DEF InOrder, Settled, SettledNext
  <2>5. QED BY <1>5, <2>3, <2>4 DEF Receive
<1>6. ASSUME /\ UNCHANGED <<next, committed>> /\ worker.pc # "idle"
             /\ worker'.ev = worker.ev /\ worker'.pc # "idle"
             /\ worker'.pc = "commit" => SettledNext(worker.ev)
      PROVE  InOrder' /\ CommittedIsSettled'
  <2>1. \A n \in 1..next : SettledNext(Log[n]) \/ n = next
    BY <1>1, <1>2 DEF InOrder
  <2>2. QED BY <1>3, <1>6, <2>1 DEF InOrder, Settled, SettledNext
<1>7. CASE MergeRead
  <2>1. /\ UNCHANGED <<next, committed>> /\ worker.pc # "idle"
        /\ worker'.ev = worker.ev /\ worker'.pc = "merge"
    BY <1>1, <1>7 DEF MergeRead, WorkerRecords
  <2>2. QED BY <1>6, <2>1
<1>8. CASE Merge
  <2>1. /\ UNCHANGED <<next, committed>> /\ worker.pc # "idle"
        /\ worker'.ev = worker.ev /\ worker'.pc \in {"commit", "failing"}
        /\ worker'.pc = "commit" => audit' = [audit EXCEPT ![worker.ev] = "PROCESSED"]
    BY <1>1, <1>8 DEF Merge, At, WorkerRecords
  <2>2. worker'.pc = "commit" => SettledNext(worker.ev)
    BY <1>1, <2>1 DEF SettledNext
  <2>3. QED BY <1>6, <2>1, <2>2
<1>9. CASE MarkFailed
  <2>1. UNCHANGED <<next, committed>> /\ worker.pc # "idle" /\ worker.ev \in Events
    BY <1>1, <1>9 DEF MarkFailed
  <2>2. CASE audit' = [audit EXCEPT ![worker.ev] = "FAILED"] /\ At("commit")
    <3>1. worker'.ev = worker.ev /\ worker'.pc = "commit"
      BY <1>1, <2>2 DEF At, WorkerRecords
    <3>2. SettledNext(worker.ev) BY <1>1, <2>1, <2>2 DEF SettledNext
    <3>3. QED BY <1>6, <2>1, <3>1, <3>2
  <2>3. CASE passed' = passed \cup {worker.ev} /\ Forget
    <3>1. worker'.pc = "idle" BY <2>3 DEF Forget
    <3>2. SettledNext(worker.ev) BY <2>3 DEF SettledNext
    <3>3. \A n \in 1..next : SettledNext(Log[n])
      BY <1>1, <1>2, <2>1, <3>2 DEF InOrder
    <3>4. QED BY <1>3, <2>1, <3>1, <3>3 DEF InOrder, Settled, SettledNext
  <2>4. QED BY <1>9, <2>2, <2>3 DEF MarkFailed
<1>10. CASE Commit
  <2>1. /\ committed' = next /\ UNCHANGED next /\ worker'.pc = "idle"
        /\ worker.pc = "commit"
    BY <1>10 DEF Commit, Forget
  <2>2. \A n \in 1..next : Settled(Log[n])
    BY <2>1 DEF InOrder
  <2>3. \A n \in 1..next : SettledNext(Log[n]) BY <1>1, <1>2, <2>2
  <2>4. QED BY <2>1, <2>3
      DEF InOrder, CommittedIsSettled, Settled, SettledNext
<1>11. CASE WorkerCrash
  <2>1. next' = committed /\ UNCHANGED committed /\ worker'.pc = "idle"
    BY <1>11 DEF WorkerCrash, Forget
  <2>2. CommittedIsSettled' BY <1>3, <2>1
  <2>3. QED BY <2>1, <2>2
      DEF InOrder, CommittedIsSettled, Settled, SettledNext
<1>12. QED
  BY <1>4, <1>5, <1>7, <1>8, <1>9, <1>10, <1>11
     DEF Next, Sync, Worker, Arrive, SyncStart, SyncRead, SyncWrite, SyncCrash, vars, stream

\* The worker (run_jenkins_worker) commits no offset before the event is recorded,
\* over failed transactions, crashes and events that come twice.
THEOREM CommittedAreSettled == Spec => []CommittedIsSettled
<1>1. Init => InOrder /\ CommittedIsSettled
  BY DEF Init, InOrder, CommittedIsSettled
<1>2. IInv /\ InOrder /\ CommittedIsSettled /\ [Next]_vars => InOrder' /\ CommittedIsSettled'
  BY InOrderNext
<1>3. QED BY <1>1, <1>2, Invariance, PTL DEF Spec

=============================================================================
