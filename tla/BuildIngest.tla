---------------------------- MODULE BuildIngest ----------------------------
(***************************************************************************)
(* The table of builds of the ci-dashboard has two writers.  A job copies    *)
(* the rows of prow_jobs above a watermark, in batches; a worker consumes    *)
(* the finished events of Jenkins from Kafka and records each in an audit    *)
(* table.  Both look for the row of a build first and then update that row   *)
(* or insert one, in a transaction that reads a snapshot.  Transactions and  *)
(* their commits fail, and both processes die and are started again.         *)
(***************************************************************************)
EXTENDS Naturals, Sequences, SequencesExt

CONSTANTS
  MaxJob,     \* rows 1..MaxJob of prow_jobs, by id; a row is also its prow job
  Malformed,  \* those that cannot be mapped
  Events,     \* Jenkins events
  Null,       \* no prow job
  UrlOf,      \* UrlOf[x]: the normalized URL of a prow job or an event
  JobOf,      \* JobOf[e]: the prow job that e names, or Null
  Log,        \* what the topic delivers, in order: an event may be there twice
  BatchSize,
  MaxFaults   \* bound on failures and crashes

Jobs == 1..MaxJob

ASSUME BuildIngestAssumption ==
  /\ MaxJob \in Nat
  /\ Malformed \subseteq Jobs
  /\ Null \notin Jobs /\ Jobs \cap Events = {}
  /\ DOMAIN UrlOf = Jobs \cup Events
  /\ JobOf \in [Events -> Jobs \cup {Null}]
  /\ Log \in Seq(Events)
  /\ BatchSize \in Nat \ {0} /\ MaxFaults \in Nat

VARIABLES
  builds,     \* ci_l1_builds: a sequence, the id of a row is its place
  top,        \* rows 1..top of prow_jobs are there
  watermark,  \* last_source_prow_row_id, as stored
  sync,       \* the sync job: where it is, its own watermark, its snapshot
  audit,      \* ci_l1_jenkins_build_events: the processing status of each event
  worker,     \* the worker: where it is, its event, its snapshot
  next,       \* the number of messages it has polled
  committed,  \* and of those whose offset is committed
  dropped,    \* history: rows of failed batches that the watermark has passed
  passed,     \* history: events whose processing ended in an exception
  faults

source   == <<top>>
jobState == <<watermark, sync, dropped>>
stream   == <<audit, worker, next, committed, passed>>
vars     == <<builds, source, jobState, stream, faults>>

Urls  == {UrlOf[x] : x \in Jobs \cup Events}
Row   == [job : Jobs \cup {Null}, url : Urls,
          of : SUBSET Events, blind : BOOLEAN, taken : BOOLEAN]
Table == Seq(Row)
Absent == "ABSENT"

Init ==
  /\ builds = << >>
  /\ top = 0
  /\ watermark = 0
  /\ sync = [pc |-> "idle", at |-> 0, snap |-> << >>, batch |-> {}]
  /\ audit = [e \in Events |-> Absent]
  /\ worker = [pc |-> "idle", ev |-> Null, snap |-> << >>]
  /\ next = 0 /\ committed = 0
  /\ dropped = {} /\ passed = {}
  /\ faults = 0

Fault == faults < MaxFaults /\ faults' = faults + 1

-----------------------------------------------------------------------------
(* build_merge.py: the row of a table that x belongs to, and 0 for none. *)

Job(x) == IF x \in Jobs THEN x ELSE JobOf[x]

HasJob(rows, j)     == {i \in DOMAIN rows : rows[i].job = j}
WithUrl(rows, u)    == {i \in DOMAIN rows : rows[i].url = u}
Unresolved(rows, x) == WithUrl(rows, UrlOf[x]) \cap HasJob(rows, Null)
Resolved(rows, x)   == WithUrl(rows, UrlOf[x]) \ HasJob(rows, Null)

LastOf(ids) == CHOOSE i \in ids : \A j \in ids : j <= i
Oldest(ids) == CHOOSE i \in ids : \A j \in ids : i <= j
Single(ids) == \E i \in ids : ids = {i}

\* Mutant: a prow job never takes over a row of Jenkins.
resolve_merge_target_id_by_job(rows, x) ==
  IF Job(x) # Null
    THEN IF HasJob(rows, Job(x)) = {} THEN 0 ELSE Oldest(HasJob(rows, Job(x)))
    ELSE IF WithUrl(rows, UrlOf[x]) = {} THEN 0 ELSE Oldest(WithUrl(rows, UrlOf[x]))

\* The row of the prow job, whatever its URL; or else one that has the URL and no
\* prow job yet; an event without a prow job also takes the only one with the URL.
resolve_merge_target_id(rows, x) ==
  LET exact == IF Job(x) = Null THEN {} ELSE HasJob(rows, Job(x))
      unresolved == Unresolved(rows, x)
      resolved == Resolved(rows, x)
  IN  IF exact # {} THEN Oldest(exact)
      ELSE IF Job(x) = Null /\ ~Single(unresolved) /\ Single(resolved)
        THEN Oldest(resolved)
      ELSE IF unresolved # {} THEN Oldest(unresolved) ELSE 0

\* An error: several prow jobs have the URL and the event names none.
Conflicting(rows, x) ==
  /\ Job(x) = Null /\ Unresolved(rows, x) = {}
  /\ Resolved(rows, x) # {} /\ ~Single(Resolved(rows, x))

\* History: the events that a row has merged; whether it got its URL blindly, as
\* other rows with it were not in the snapshot or the prow job decided alone; and
\* whether it was taken from one prow job for another.
NewRow(snap, x) ==
  [job |-> Job(x), url |-> UrlOf[x], of |-> {x} \cap Events,
   blind |-> WithUrl(builds, UrlOf[x]) # WithUrl(snap, UrlOf[x]), taken |-> FALSE]

Overwrite(row, j) ==
  [job |-> j, url |-> UrlOf[j], of |-> row.of,
   blind |-> row.blind \/ row.url # UrlOf[j],
   taken |-> row.taken \/ row.job \notin {Null, j}]

-----------------------------------------------------------------------------
(* sync_builds.py *)

\* External: prow_jobs grows.
Arrive ==
  /\ top + 1 \in Jobs /\ top' = top + 1
  /\ UNCHANGED <<builds, jobState, stream, faults>>

SyncStart ==
  /\ sync.pc = "idle"
  /\ sync' = [sync EXCEPT !.pc = "read", !.at = watermark]
  /\ UNCHANGED <<builds, source, watermark, dropped, stream, faults>>

\* The start of a batch: the snapshot is taken with the first statement.
SyncRead ==
  /\ sync.pc = "read"
  /\ LET rows == {j \in 1..top : sync.at < j /\ j <= sync.at + BatchSize} IN
       sync' = IF rows = {} THEN [sync EXCEPT !.pc = "idle"]
               ELSE [sync EXCEPT !.pc = "write", !.snap = builds, !.batch = rows]
  /\ UNCHANGED <<builds, source, watermark, dropped, stream, faults>>

Batch  == sync.batch \ Malformed
Aim(j) == resolve_merge_target_id(sync.snap, j)
Updates == {j \in Batch : Aim(j) # 0}
UpdatesOf(i) == {j \in Updates : Aim(j) = i}

\* UPDATE by id, one row after the other: the last one of a row stays.
AfterUpdates ==
  [i \in DOMAIN builds |->
     IF UpdatesOf(i) = {} THEN builds[i]
     ELSE Overwrite(builds[i], LastOf(UpdatesOf(i)))]

\* The unique key of the prow job: another row has it when an update comes to it.
UpdatesClash ==
  \E j \in Updates : \E i \in HasJob(builds, j) \ {Aim(j)} :
    \A k \in UpdatesOf(i) : j < k

\* INSERT ... ON DUPLICATE KEY UPDATE, by prow job.
AfterUpserts ==
  LET rest == Batch \ Updates
      new == {j \in rest : HasJob(AfterUpdates, j) = {}}
  IN  [i \in DOMAIN builds |->
         IF AfterUpdates[i].job \in rest
           THEN Overwrite(AfterUpdates[i], AfterUpdates[i].job) ELSE AfterUpdates[i]]
      \o [n \in DOMAIN SetToSeq(new) |-> NewRow(sync.snap, SetToSeq(new)[n])]

\* Mutants: as if every batch were full; the last row of the source.
NewWatermarkFull == sync.at + BatchSize
NewWatermarkOfSource == top

NewWatermark == LastOf(sync.batch)

SyncEnds == sync' = [sync EXCEPT !.pc = "idle", !.snap = << >>, !.batch = {}]

\* upsert_build_batch and the watermark in one transaction.  Its own watermark is
\* advanced before the last statement and the commit; mark_job_failed stores it.
SyncWrite ==
  /\ sync.pc = "write"
  /\ \/ /\ ~UpdatesClash
        /\ builds' = AfterUpserts /\ watermark' = NewWatermark
        /\ \/ /\ sync' = [pc |-> "read", at |-> NewWatermark, snap |-> << >>, batch |-> {}]
              /\ UNCHANGED faults
           \/ SyncEnds /\ Fault
        /\ UNCHANGED dropped
     \/ /\ UpdatesClash
        /\ SyncEnds /\ UNCHANGED <<builds, watermark, dropped, faults>>
     \/ /\ SyncEnds /\ Fault /\ UNCHANGED <<builds, watermark, dropped>>
     \/ /\ ~UpdatesClash
        /\ watermark' = NewWatermark
        /\ dropped' = dropped \cup Batch
        /\ SyncEnds /\ Fault /\ UNCHANGED builds
  /\ UNCHANGED <<source, stream>>

SyncCrash ==
  /\ sync.pc # "idle" /\ SyncEnds /\ Fault
  /\ UNCHANGED <<builds, source, watermark, dropped, stream>>

Sync == SyncStart \/ SyncRead \/ SyncWrite

-----------------------------------------------------------------------------
(* jenkins_worker.py *)

At(pc) == worker' = [worker EXCEPT !.pc = pc]
Forget == worker' = [pc |-> "idle", ev |-> Null, snap |-> << >>]

\* The next message.  An error outside the two transactions that follow leaves
\* the loop without a commit of the offset: the next commit passes the message.
Receive ==
  /\ worker.pc = "idle" /\ next < Len(Log)
  /\ next' = next + 1
  /\ LET e == Log[next + 1] IN
     \/ /\ worker' = [worker EXCEPT !.pc = IF audit[e] = "PROCESSED" THEN "commit" ELSE "read",
                                    !.ev = e]
        /\ audit' = [audit EXCEPT ![e] = IF @ = Absent THEN "RECEIVED" ELSE @]
        /\ UNCHANGED <<passed, faults>>
     \/ passed' = passed \cup {e} /\ Fault /\ UNCHANGED <<worker, audit>>
  /\ UNCHANGED <<builds, source, jobState, committed>>

MergeRead ==
  /\ worker.pc = "read"
  /\ worker' = [worker EXCEPT !.pc = "merge", !.snap = builds]
  /\ UNCHANGED <<builds, source, jobState, audit, next, committed, passed, faults>>

Target == resolve_merge_target_id(worker.snap, worker.ev)

\* What keeps the statement from being executed: an error, or the unique key.
MergeClash ==
  \/ Conflicting(worker.snap, worker.ev)
  \/ /\ Job(worker.ev) # Null
     /\ Target # 0 => builds[Target].job = Null
     /\ HasJob(builds, Job(worker.ev)) # {}

\* Mutant: the URL of the row is not kept.
MergedAnew ==
  IF Target = 0 THEN Append(builds, NewRow(worker.snap, worker.ev))
  ELSE [builds EXCEPT ![Target].job = IF @ = Null THEN Job(worker.ev) ELSE @,
                      ![Target].url = UrlOf[worker.ev],
                      ![Target].of = @ \cup {worker.ev}]

\* UPDATE_BUILD_FROM_JENKINS keeps what the row has.
Merged ==
  IF Target = 0 THEN Append(builds, NewRow(worker.snap, worker.ev))
  ELSE [builds EXCEPT ![Target].job = IF @ = Null THEN Job(worker.ev) ELSE @,
                      ![Target].of = @ \cup {worker.ev}]

\* _upsert_build_from_jenkins_event and the audit in one transaction.
Merge ==
  /\ worker.pc = "merge"
  /\ \/ /\ ~MergeClash
        /\ builds' = Merged
        /\ audit' = [audit EXCEPT ![worker.ev] = "PROCESSED"]
        /\ \/ At("commit") /\ UNCHANGED faults
           \/ At("failing") /\ Fault
     \/ /\ MergeClash
        /\ At("failing") /\ UNCHANGED <<builds, audit, faults>>
     \/ /\ At("failing") /\ Fault /\ UNCHANGED <<builds, audit>>
  /\ UNCHANGED <<source, jobState, next, committed, passed>>

\* Mutant: the failure is only counted.
MarkFailedNot ==
  /\ worker.pc = "failing" /\ At("commit")
  /\ UNCHANGED <<builds, source, jobState, audit, next, committed, passed, faults>>

MarkFailed ==
  /\ worker.pc = "failing"
  /\ \/ /\ audit' = [audit EXCEPT ![worker.ev] = "FAILED"]
        /\ At("commit") /\ UNCHANGED <<passed, faults>>
     \/ passed' = passed \cup {worker.ev} /\ Forget /\ Fault /\ UNCHANGED audit
  /\ UNCHANGED <<builds, source, jobState, next, committed>>

Commit ==
  /\ worker.pc = "commit"
  /\ committed' = next /\ Forget
  /\ UNCHANGED <<builds, source, jobState, audit, next, passed, faults>>

\* Also when the commit of an offset fails: the error ends the process.
WorkerCrash ==
  /\ next # committed
  /\ next' = committed /\ Forget /\ Fault
  /\ UNCHANGED <<builds, source, jobState, audit, committed, passed>>

Worker == Receive \/ MergeRead \/ Merge \/ MarkFailed \/ Commit

-----------------------------------------------------------------------------
Next == Arrive \/ Sync \/ SyncCrash \/ Worker \/ WorkerCrash

Spec == Init /\ [][Next]_vars

\* The job is started again at its interval, the worker goes on.
FairSpec == Spec /\ WF_vars(Sync) /\ WF_vars(Worker)

-----------------------------------------------------------------------------
(* Properties *)

Statuses == {Absent, "RECEIVED", "PROCESSED", "FAILED"}

TypeOK ==
  /\ builds \in Table
  /\ top \in Nat /\ 1..top \subseteq Jobs
  /\ watermark \in 0..top
  /\ sync \in [pc : {"idle", "read", "write"}, at : 0..top, snap : Table, batch : SUBSET (1..top)]
  /\ sync.pc = "write" => sync.batch # {} /\ Len(sync.snap) <= Len(builds)
  /\ audit \in [Events -> Statuses]
  /\ worker \in [pc : {"idle", "read", "merge", "failing", "commit"},
                 ev : Events \cup {Null}, snap : Table]
  /\ worker.pc # "idle" => worker.ev \in Events /\ Len(worker.snap) <= Len(builds)
  /\ next \in 0..Len(Log) /\ committed \in 0..next
  /\ dropped \subseteq Jobs /\ passed \subseteq Events
  /\ faults \in 0..MaxFaults

HasUrl(x) == WithUrl(builds, UrlOf[x]) # {}

\* Every row of prow_jobs below the watermark is in the table, under its own id or
\* that of a later row with the same URL: over failures at any statement, crashes
\* and what the worker does meanwhile, but for the batches that were rolled back
\* after the job's own watermark had been advanced.
SyncedIsStored ==
  \A j \in 1..watermark : j \notin Malformed \cup dropped =>
    \E i \in WithUrl(builds, UrlOf[j]) : builds[i].job \in Jobs /\ builds[i].job >= j

\* business-rules.md, BR-09: "update watermark only after successful write
\* transaction".
WatermarkIsEarned == \A j \in 1..watermark : j \in Malformed \/ HasUrl(j)

\* ci-dashboard-v3-jenkins-design.md wants one row for each URL.  A row of Jenkins
\* without a prow job is never one of two, whichever of the writers comes first
\* and however often an event is delivered, unless their transactions overlapped
\* or a prow job moved a row to another URL.
UnresolvedIsAlone ==
  \A i \in HasJob(builds, Null), k \in DOMAIN builds :
    i # k /\ builds[i].url = builds[k].url => builds[i].blind \/ builds[k].blind

\* An event that is PROCESSED can be found: the row that it went to has its URL or
\* its prow job, whatever was merged into that row since, unless the sync job has
\* overwritten just that.
ProcessedIsBuilt ==
  \A e \in Events : audit[e] = "PROCESSED" =>
    \E i \in DOMAIN builds :
      /\ e \in builds[i].of
      /\ \/ builds[i].url = UrlOf[e] \/ builds[i].blind
         \/ Job(e) # Null /\ (builds[i].job = Job(e) \/ builds[i].taken)

\* The unique key of the table, on the prow job.  UpdatesClash and MergeClash find
\* every statement that would break it, over overlapping transactions with old
\* snapshots and several updates of a row in one batch.
OneRowPerJob ==
  \A i, k \in DOMAIN builds :
    builds[i].job = builds[k].job /\ builds[i].job # Null => i = k

\* The key stops a writer only because of what the other one committed after the
\* snapshot was taken: the next try gets through, so that no batch and no event
\* fails for ever.  An event without a prow job still fails where several have
\* its URL.
ClashesPass ==
  /\ sync.pc = "write" /\ sync.snap = builds => ~UpdatesClash
  /\ worker.pc = "merge" /\ worker.snap = builds /\ MergeClash =>
       Conflicting(builds, worker.ev)

Settled(e) == audit[e] \in {"PROCESSED", "FAILED"} \/ e \in passed

\* No offset is committed before its event is recorded, whatever fails and
\* wherever the worker starts again: what the worker has passed is settled.
CommittedIsSettled == \A n \in 1..committed : Settled(Log[n])

\* In the end both streams are in: no batch fails for ever because of what the
\* other writer does, no event stays RECEIVED, but for the exceptions that leave
\* the worker's loop without a commit.
IngestSettles ==
  <>[](/\ \A j \in 1..top : j \in Malformed \cup dropped \/ HasUrl(j)
       /\ \A n \in DOMAIN Log : Settled(Log[n]))
=============================================================================
