# Verification of ee-apps

TLA+ models of the applications of this repository, TLC configurations that
check them on small instances, and TLAPS proofs for every value of their
constants. `PROJECT.json` ties every definition to the lines it models, every
property to the run that checks it and to a change of the code that breaks it,
and every theorem to its module. The directories below are under `src/`.

    tlc -config MacBuildPair.cfg MCMacBuild.tla      # check a run
    tlapm MacBuildProofs.tla                         # check the proofs of a module

## 1. The system

The repository holds the applications around TiDB's release engineering. They
share no code to speak of; they meet in Kafka topics (CloudEvents), Redis,
Kubernetes objects and SQL tables.

| Component | State | Operations | Modelled by |
|---|---|---|---|
| `mac-builder-operator`: agents and collector | MacBuild objects at the Kubernetes API server; an informer cache and a work queue per process | reconcile: initialise, claim, run, fail on timeout, report phases; collect finished builds | `MacBuild`, `Retention` |
| `mac-builder-operator`: native build job | files and commands of one build | prepare, build, publish, reporting in between | stages in `MacBuild` |
| `publisher`: services | Kafka topic, status keys in Redis | enqueue, record `queued`, query, wait for a collection, reset rate limits | `Publisher`, `TiupMirror` |
| `publisher`: workers | consumer offsets, status and result keys, retry counts, dead letters | read, route by retry count, publish, store the outcome | `Publisher` |
| `publisher`: tiup publication | rate limit counters and the publishing mutex in Redis | Incr and Expire, obtain and release a lease | `TiupMirror` |
| `publisher`, `tibuild-v2`: reloadable configuration | file, modification time, handlers | reload on SIGHUP and by polling | no, see 6 |
| `tibuild-v2` (`experiments/`): image sync worker | table of tasks | create, claim, copy, retry, reclaim at start, shut down | `ImageSync`, `SyncTask` |
| `tibuild-v2`: dev builds | table of builds, Tekton runs, Jenkins jobs | create, trigger, rerun, update, watch a job, reconcile | `DevBuild` |
| `tibuild-v2`: notification cards | ids of Lark messages in a build's row | send, edit | no, see 6 |
| `tibuild-v2`: hotfix tags | tags of a GitHub repository | list, compute, create | no, see 6 |
| `cloudevents-server` | topics, consumers, dead letters, two asynchronous writers | route, produce, handle, dead-letter, stop | `CloudEvents` |
| `ci-dashboard`: builds | builds table, watermark, audit rows, offsets | copy prow jobs in batches, consume and merge Jenkins events | `BuildIngest` |
| `ci-dashboard`: pod watcher | pod rows | list and watch | no |
| `tibuild` | the predecessor of tibuild-v2 over Jenkins | same life cycle | no, `DevBuild` is of its successor |
| `chatops-lark`, `dl`, `change-insight`, `insight`, `roster`, `cost-insight`, `mcp-servers`, the rest of `ci-dashboard`, `charts` | none of their own, or SQL | stateless adapters, batch jobs, queries, manifests | no |

How they interact: a CloudEvent enters `cloudevents-server` over HTTP, is
written to a topic and handled by consumers that update `tibuild` and notify
Lark. The `publisher` services write their own events to a topic of their own
and the workers consume it, one consumer group for each mirror or kind.
`tibuild-v2` calls Tekton over HTTP events, reads run states back by polling,
and synchronises images in the background. The agents of
`mac-builder-operator` meet only in the MacBuild objects.

### What is hard about it, and what makes each part correct

* **mac-builder-operator.** Each process decides from a lagging cache. A write
  re-reads the object on a conflict, but applies the *mutation decided before*.
  Two workers claim one build, a timed-out build is failed while its owner
  reports a phase, a reconcile queued by an earlier report starts before the
  final update is in the cache, a worker crashes in a job, a command hangs with
  the only reconcile goroutine. Correct means: statuses are complete
  (an active build has an owner and a start, a finished one has an end), every
  build finishes, a timeout is noticed, a finished build is kept for its TTL
  and then collected, and a worker runs only builds of its architecture.
* **publisher.** The message is in the topic before its status is in Redis, so
  service and worker race for one key, one with SetNX, the other with SetXX or
  Set. Offsets are committed in the background, whatever became of a message.
  Retry counts are read, tested and incremented without a transaction by the
  workers of several mirrors. Correct means: a status is true (written before
  it is recorded, published before "success"), it goes forward, a caller that
  waits is answered, no message in the topic is left alone.
* **tiup publication.** Incr and Expire are two commands; a reset scans and
  deletes in two more; the mutex is a lease that outlives a crash and, if the
  command is slow, is outlived by the command. Correct means: one command at a
  time for as long as the lease lasts, one nightly an interval, no limit and no mutex
  that lasts for ever.
* **image sync.** Replicas of a rolling update share the table; a start takes
  back what seems abandoned; the outcome is stored whatever the task has
  become, and what that update answers is ignored; a stop waits for a copy but not
  for the batch. Correct means: a task is given up only after its tries, none is left
  in processing longer than until the next start, all end.
* **dev builds.** The record is there before its events are sent, and the ids of
  the events before they are stored. Every replica runs the same reconciler over
  the same rows, reads them once, asks Tekton for a long time and writes without a
  condition. The runs of a build appear and end one by one; queries fail and are
  skipped; an operator overwrites the status meanwhile. A Jenkins job is watched by
  one goroutine that takes a failed poll for the end of the job. Correct means: a
  verdict is true of the runs it was made from or of the job behind it, no event id
  is lost to a stale write, and a build whose events are known ends and stays ended.
* **cloudevents-server.** An event is acknowledged while it is in the memory of a
  writer that nothing closes; its message is committed when it is read; some
  handlers acknowledge what they failed to do; consumers share a dead letter
  writer that the first of them to end closes. Nothing here promises delivery, so
  correct means: it is known in which ways an acknowledged event is lost and
  there is no other, nothing is handled more often than it was written, and a
  shutdown ends.
* **builds of the dashboard.** Two writers match rows in a snapshot and write the
  current rows; a unique key and ambiguous URLs make either fail; the watermark in
  memory runs ahead of its transaction; offsets are committed past an event whose
  processing raised. Correct means: what was read is in the table, one row for a
  build, and neither stream gets stuck.
* **notification cards, hotfix tags, reloadable configuration.** Asynchronous
  notifications that overwrite each other's message ids, list and create that are
  not atomic, clients closed under the requests that use them. `PROJECT.json`
  lists them with their lines; the plan says what to make of them.

Some of the hazards in `PROJECT.json` have no property: there the code does what the
hazard says, by design or by omission, and no document of the repository promises
otherwise (an event of a crashed producer is lost, a SUCCESS stands over a run whose
query failed, a counter whose `Expire` was lost stays, two transactions insert one
build twice). The models have these steps. The properties around them name them in
history variables (`excused`, `unseen`, `guessed`, `lost`, `kept`, `blind`), step by
step, and so say that nothing else goes wrong in the same way; the note of the hazard
says which property that is.

## 2. The modules

Every module has one action per step that other processes can observe: a
request to Kubernetes, Redis, Kafka, the database or the file system of another
service, with whatever the code does locally around it. Data that no decision
reads (messages, phase history, log texts, contents of events and images) is
left out. A definition marked "Mutant" in a module is a plausible bug: it is
never part of `Next`; `PROJECT.json` names the definition it would replace and
the property that notices.

### MacBuild and Retention

`api[b]` is the status at the API server, `cache[r][b]` what the informer of
reader `r` holds, `news` the changes it has not delivered, `queue[r]` the work
queue. A delivery (`Observe`) jumps to the latest version, as a watch that
lags may miss versions of no consequence to level-triggered code. `Reconcile`
decides from the cache and stays in one of the stages `op[a]` until the update
it decided on, or the job it started, is done: a worker has one reconcile
goroutine. `UpdateStatus` is `updateBuildStatus`: the retry on conflict means
that an update succeeds only from the current version (`<<a, b>> \notin news`),
and the mutation is applied to what is there by then. `UpdateFails` is an
error, an exhausted retry, or an object that is gone.

Times are ages that saturate one tick after the value they are compared with.
Builds are submitted initially and their names are not reused. A poll of another
worker's build changes nothing and is not a step. The job's commands end in any
way, or never.

`Retention` is the abstract specification of the TTL: a build grows older after
it first finished and may be deleted once its TTL is over. `MacBuild` implements
it with the history variable `firstDone` (`Retained`).

### Publisher

`topic` is a log; a consumer group has one worker and one partition, `read[g]`
and `committed[g]`. `Worker(g)` is one turn of the consumer loop:
`Route` (RetryableConsumer before the worker), `Work` (the handler of the tiup,
file server or image worker, with its own way to store statuses) and `Settle`
(RetryableConsumer after it). `Service(r)` writes the message, records `queued`
and polls for a collection. The deletion of the retry key, the dead letter and
the failed status are separate steps: a crash comes between them. `Crash` makes
the reader resume at the committed offset. A graceful restart is a crash after a
commit with nothing in hand. Sleeps between polls are time and leave no trace.
Only the kinds of worker that the binary starts (`Started`) run.

Failed calls, a write that is repeated inside the Kafka client, undecodable
data and expired keys are counted together in `faults`. A commit of offsets is
only a step while a crash may still follow (`crashes < MaxCrashes`): nothing else
reads what is committed.

### TiupMirror

Refines in detail what `Run` of `Publisher` leaves open for tiup. Time is in
ticks: a worker tries the mutex once a tick, the keys count down. The rate limit
counter saturates at 2, as the code only tells 1 from more. `since` is a history
variable: how long ago a package was last let through. A tiup command runs as long as
it likes, or for ever: the code gives it no deadline and does not extend the lease
(`ran` counts the ticks of a command up to the length of a lease). A release whose call
fails, or that finds the key in other hands, is over all the same (`Release`): its
error is ignored, and the mutex stays until its lease runs out. `kept` and `lost` are
history: whether the owner of the mutex has died or failed to release it, and the
counters whose own `Expire` has failed or died with its worker.

### ImageSync and SyncTask

`status` and `retry` are the columns of the table. A replica is a place for a
process, down or up; two of them are the two pods of a rolling update, or of a
deployment with two replicas. `stop[r]` follows the shutdown in `main`: `Stop`
waits for the copy in flight, then the context is cancelled, and the worker may
have claimed the next task of its batch in between. An outcome that cannot be stored,
be it for an error message longer than its column, is a fault. `failures` and `lost`
are history variables: the failed copies of a task, and the tasks that a failed update
of their own (the claim, the outcome, the reclaim) has left in processing.

`SyncTask` is the abstract specification of what a client of the API sees of a task,
its status and its retry count: created, begun, tried again, interrupted by a
restart without having counted a try, ended for good. `ImageSync` implements it
(`LifeCycle`) as long as one replica runs at a time, which is what the chart deploys
(`replicaCount: 1` in
`charts/tibuild-v2/values.yaml`) but for the overlap of a rolling update. With two replicas it
does not (disagreement 3 below): the other one takes back a task that is being
copied, and a task that has succeeded is pending again.

### DevBuild

`row[b]` holds the columns of a build that decisions read: the status, the event
ids of its Tekton status, whether it has left the lookback of the reconciler.
`caller[b]` is the request that made it, from `Insert` through `SendEvent` (one
step for each platform) and `StoreEventIds`, or, for Jenkins, `TriggerJenkins`,
`MarkProcessing` and the watch of the job, `StoreJobResult`; `sent` are the events
Tekton took, `got` the ids the handler has in memory. The watch ends when the job does,
or with a poll that fails, which `IsRunning` reports as the end: the result it has then
is the one it saw before, which is none while the job ran. `statusOf` is the map from
results to statuses; a result that is not in it, and none, is an ERROR. The names of the
results are constants of the Jenkins client, which is not in the repository; `JobStep`
offers each of the map and one that is not in it. The watch can also end without a
trace, when the job cannot be found in the queue or the status not be stored. `run` and
`job` are Tekton's and Jenkins' side (`RunStep`, `JobStep`), with one run for each event,
while the reconciler takes any number and looks at all of them alike. A cycle of the reconciler in replica `r`
takes its rows at once (`BeginCycle` to `snap[r]`), asks for one event after the
other (`Query`, from `todo[r]` to `seen[r]`) and then writes one build after the
other (`UpdateBuild`), the status it determined and the event ids *as it read
them*. `Update` is the API's. `Crash` takes the requests, watches and the cycle of
a replica with it. A row that grows older than the lookback is counted with the
faults (`Outgrow`). `touched`, `unseen` and `guessed` are history variables: the rows
somebody has set by hand, the events the last decision knew nothing of, and the builds
whose watch ended with a failed poll.

### CloudEvents

`Post` is the HTTP handler: the event is in the memory of the producer's writer
(`buffer`) when its sender is told so, and `Flush` is that writer's background
send, which may happen twice or not at all. Each topic has one consumer: `Read`
commits the offset and takes the message, `Handle` calls one of its handlers,
`Settle` ends the turn, with a dead letter if one of them did not acknowledge the
event. The consumers share the dead letter writer (`letters`, `FlushLetter`);
`Stop` is the signal, `Close` the end of one consumer, which closes the writer of
all, `Exit` the end of the process, `Crash` the same at any time, `Start` the next
process. The handlers themselves (Lark cards, rows, Jenkins triggers) succeed or
fail; `Swallows` are those that report a failure as success, like `testcaserun`.
`excused` is a history variable: events that were given up in one of the ways that
the code has. `Ended` and the properties are stated with it, so a way that is
not marked is a violation.

### BuildIngest

`builds` is the table, its ids the places in a sequence. The sync job reads a batch
and the table (`SyncRead`), then writes both in one transaction (`SyncWrite`,
whose disjuncts are a commit, a commit that is not acknowledged, a clash with the
unique key, a failure, and a failure after which `mark_job_failed` stores the
watermark that was advanced already). The worker polls a message and makes an
audit row (`Receive`), reads the table (`MergeRead`), merges (`Merge`), marks what
failed (`MarkFailed`) and commits the offset (`Commit`); `SyncCrash` and
`WorkerCrash` end the processes. `resolve_merge_target_id` is the function of that
name, over a snapshot: a transaction reads as of its start and writes the current
rows. `dropped`, `passed` and the fields `of`, `blind` and `taken` of a row are
history. Assumed: one sync job and one worker process, as deployed, and that
prow_jobs shows its rows in the order of their ids.

## 3. The runs

Names as in `PROJECT.json`; "2 faults" is the value of the bound on failed calls
(`MaxFaults`), and so on.

| Run | Instance | Shows |
|---|---|---|
| macbuild_pair | 2 workers of one architecture, collector, 1 build, timeout 0, TTL 0, symmetry | `TypeOK`, `StatusConsistent`, and the refinement `Retained`, over all races of claims, reports, timeouts and deletions |
| macbuild_live | 1 worker, collector, 2 crashes or failed updates | `EveryBuildFinishes` if the commands end; `FinishedIsCollected` |
| macbuild_watched | 2 workers of different architectures, commands may hang | `RunsOnMatchingArch`; `BuildingIsBounded`: the other agent ends the Building phase |
| macbuild_terminal | 1 worker | finding: a finished build leaves its terminal phase (`TerminalIsFinal`, DESIGN.md) |
| publisher_faults | 2 requests, tiup worker, image worker with dead letters, 1 fault, 1 crash; 2.3 M states | `StatusIsWritten`, `SuccessIsPublished`, `ResultBeforeSuccess`, `ForwardOnly` |
| publisher_live | 2 requests, tiup and image worker with dead letters, 1 retry, 1 fault, fairness; 180 K states | `RetriesBounded`, `WrittenIsHandled`, `CallerIsAnswered` |
| tiup_mirror | 2 workers, a nightly and a released package, 1 fault, 1 reset, lease 3, 2 tries, commands of any length; 0.12 M states | `LeaseExcludes`, `MutexIsInUse`, `NightlyIsLimited`, `MutexIsFreed`, `LimitEnds` |
| image_sync | 2 replicas, 2 tasks, 2 stops or crashes, 1 fault; 0.33 M states | `TriesBeforeFailed`, `NoOrphans`, `TasksEnd` |
| dev_build | 1 build of 2 platforms, 2 replicas, 1 update, 1 fault, crash or row out of the lookback; 0.7 M states | `VerdictIsEarned`, `RunsAreTracked`, `TrackedSettles` if the pipelines end |
| cloud_events | 3 events (two handlers, one that swallows, none), 2 topics, 2 faults, 2 stops or crashes; 0.26 M states | `AckedIsKept`, `PassedIsSettled`, `HandledOnce`, `AckedEnds`, `StopEnds` |
| build_ingest | 3 prow jobs (1 malformed) in batches of 2, 3 events in 4 deliveries, shared URLs, 2 faults; 0.12 M states | `SyncedIsStored`, `UnresolvedIsAlone`, `ProcessedIsBuilt`, `IngestSettles` |
| ingest_watermark | the same with 1 fault | finding: the watermark passes rows that were rolled back (`WatermarkIsEarned`, BR-09) |

Each passing run also checks its module's `TypeOK` where it is the only run of the
module or the one with the most faults.

Configurations beside the runs, to be started by hand:

| Configuration | Shows |
|---|---|
| `PublisherRetries.cfg` | 3 mirrors count the attempts of one event, 2 faults: `RetriesBounded` with a race of three |
| `PublisherSkips.cfg` | `SkipsAreNotCounted` is violated: disagreement 1 below |
| `TiupMirrorSlow.cfg` | `OneCommand` is violated when a command outlives the lease: 2 |
| `ImageSyncOverlap.cfg` | `OneCopy` is violated when two replicas start one after the other: 3 |
| `DevBuildAnswered.cfg` | `TriggeredIsAnswered` is violated when the event ids cannot be stored: 4 |
| `MacBuildCore.cfg` | `CacheIsCurrent`, `NoBuildIsForgotten`, `FinishedIsWatched`, `RestIsFinal`: 2 workers of different architectures, 1 crash or failed update; 0.9 M states |
| `PublisherCore.cfg` | `NothingIsSkipped`, `DeliveredIsHandled`, `NobodyWaitsInVain` on the instance of publisher_faults |
| `TiupMirrorCore.cfg` | `CountersExpire` on the instance of tiup_mirror |
| `ImageSyncSingle.cfg` | the refinement `LifeCycle` with one replica, 2 tasks, 3 stops or crashes, 2 faults; with a second replica it is violated |
| `DevBuildSingle.cfg` | `FinishedStays` with one replica, 2 updates, 2 faults; with a second replica it is violated |
| `DevBuildOver.cfg` | `OverIsOver` with two replicas, 2 updates, 1 fault; 1.4 M states |
| `CloudEventsCore.cfg` | `AckedIsOnItsWay`, `ExitDropsUnsentOnly` on the instance of cloud_events |
| `BuildIngestCore.cfg` | `OneRowPerJob`, `ClashesPass`, `CommittedIsSettled` on the instance of build_ingest |

The last eight check what section 4 proves beyond the properties of the runs, most
of it the safety core of a liveness property that a run checks: the invariant that an
argument for the liveness property rests on, and that no fairness can make up for.

**Why the bounds are enough.** The races of each module are between two actors
over one object, and each instance has two actors of every kind that matter
to its properties and the object they share; a third actor adds orders of the
same steps. `macbuild_pair` has no faults because a failed update or a crash
only ends a reconcile earlier, which the other worker's races already do, and
the proofs cover faults in any number. Timeouts and TTLs are 0 or 1 tick: the
code compares an age with them and ages pass the bound by one. One fault and
one crash let every error path happen once, in every place; two faults are
allowed where a second would make a difference (repeated failures of updates, a
replica that is stopped while it recovers from a crash, a write of the producer
and one of the dead letter writer, a crash of each writer of the dashboard). The
tiup instance has a lease of three ticks and two tries, so that a worker is refused,
waits and gives up, or takes the mutex from under a command that has outlived its
lease, and that command ends, and unlocks, under the next one. One build of two platforms is enough
for the dev builds, as builds never meet (the proof has that as a lemma, `Apart`)
and two runs can end differently; two replicas hold two stale snapshots of its row.
The ingest instance has two prow jobs of one URL, an event that names none of them,
one that names the second and comes twice, and an event of another build of it, so
every branch of the merge is taken, with two batches so that the watermark moves
under the worker. Deadlock is not checked where the system rests when all is
handled; `TiupMirror` never rests.

**Fairness, and why the code justifies it.** `MacBuild`: informers deliver, the
work queue hands out builds in turn (strong fairness of `Reconcile(a, b)`: the
agent is idle again and again), a conflicting update is retried until the cache
has caught up (strong fairness of the update), and time passes. Nothing is
assumed of commands, except by `EveryBuildFinishes`, which says so (`CommandsEnd`).
`Publisher`: a handler that has written its message goes on, a poll is made
every second, a worker keeps reading; nothing is assumed about commits and
crashes. `TiupMirror`: time passes, and a worker that has counted a nightly goes on to
set its expiry; no request ever has to arrive and no tiup command to end.
`ImageSync`: a worker polls at its interval, a
shutdown that has begun goes on, and Kubernetes starts a replica that is down.
`DevBuild`: a request that has begun goes on, its client timeouts end calls, and
the reconciler's job is run at its interval in each replica; that pipelines and
jobs end is a hypothesis of `TrackedSettles` (`PipelinesEnd`), not an assumption.
`CloudEvents`: writers send what they hold within their batch timeout, handlers
return, a consumer reads on, a shutdown that has begun goes on, Kubernetes starts
the process again; nobody has to post. `BuildIngest`: the job is a CronJob that is
started at its interval, the worker's loop polls for ever and is restarted.

**Findings.** Runs that contradict a document of the repository:

* `macbuild_terminal`: a reconcile queued by a phase report starts from a cache
  without the final update, runs the whole job again and writes Building over
  Succeeded or Failed. `FinishedIsCollected` is stated accordingly: a finished
  build is collected, *or* is taken out of its terminal phase.
* `ingest_watermark`: `run_sync_builds` advances its watermark inside the
  transaction of a batch; if what follows fails, the batch is rolled back but
  `mark_job_failed` stores the advanced watermark. `SyncedIsStored` is stated
  accordingly, for all rows but those (`dropped`).

Disagreements met on the way, each with a configuration above:

1. `isSkippedResult` never recognises a skip, as the receipt carries an error;
   with several mirrors, an event is dead-lettered by a worker that does not serve
   it. With dead letters, a status can therefore become "failed" after another
   worker's "success", or "processing" after that "failed"; `ForwardOnly` is stated
   accordingly (`GivenUp`), and not even then is a request "queued" again.
2. The mutex of the tiup command is not extended and the command has no deadline, so
   that "After this is successful, no one else can obtain the same lock (the same mutex
   name) until we unlock it" (`tiup/worker.go:213-215`) does not hold of a command that
   is slower than the lease. `LeaseExcludes` says what does.
3. A starting replica reclaims tasks that a live replica is copying.
4. A build whose events were sent but whose ids cannot be stored has no answer:
   `triggerTknBuild` returns neither record nor error, and `Create` dereferences it.

Without a configuration: a collection that is dead-lettered before "queued" is
recorded stays queued and its caller polls on (`CallerIsAnswered` excuses it), and
nobody takes up the watch of a Jenkins job whose replica has died, or one that a failed
poll has ended with ERROR while the job goes on.

## 4. What is proved

`MacBuildProofs` proves, for any sets of agents and builds, any architectures,
timeout, TTLs and number of faults, from `ConstantsAssumption` alone (the
collector is no agent, `Null` is neither agent nor build, the numbers are
natural numbers):

* `TypeCorrect`: `Spec => []TypeOK`;
* `StatusIsConsistent`: `Spec => []StatusConsistent`;
* `RunsItsArch`: `Spec => []RunsOnMatchingArch`;
* `RetentionHolds`: `Spec => Retained`, every behaviour of the operator is one of
  `Retention`.

All four follow from one inductive invariant (`Invariance`),

    IInv == TypeOK /\ StatusConsistent /\ JobsMatchArch /\ DoneIsRemembered

`StatusConsistent` is not inductive alone. A worker that claims or reports
writes its own name, so its architecture must have matched when it decided,
however long ago: `JobsMatchArch` carries that from the decision to the write.
The refinement needs that a cached completion time is not older than the first
end of the build, although the build may have been run again since:
`DoneIsRemembered` relates every copy of a status, at the server and in each
cache, to `firstDone`, and ageing under one cap preserves the order
(`OlderMonotone`). There is one lemma per action (`TickInvariant`,
`ObserveInvariant`, ...), one for the result of each write
(`WrittenStatus`), and `NextInvariant` joins them; `PromiseStep` shows that each
step maps to a step or a stutter of `Retention`.

Beyond the runs:

* `CachesCatchUp`: `CacheIsCurrent`; `NoAgentForgets`: `NoBuildIsForgotten`;
  `CollectorWatches`: `FinishedIsWatched`. The three are inductive only together
  (`WakeInv`): whether a reconcile may drop a build from its queue depends on
  whether its cache is current, or news of the build are still to come. They are what
  the liveness of the operator rests on: level-triggered code must not lose a wake-up.
* `KnownEndsAreFinal`: `RestIsFinal`, which says what is left of `TerminalIsFinal`,
  the promise that `macbuild_terminal` refutes: the end is final once no worker has
  the build in hand and none an older version in its cache.

`ImageSyncProofs` proves, for any replicas, number of tasks, batch size, number
of tries, faults and stops, from `SyncAssumption` alone (the numbers are natural,
batch and tries are positive):

* `TypeCorrect`: `Spec => []TypeOK`;
* `TriedBeforeFailed`: `Spec => []TriesBeforeFailed`;
* `NoneIsOrphaned`: `Spec => []NoOrphans`.

The inductive invariant is

    IInv == TypeOK /\ RetriesLeft /\ CountsAreTrue /\ TriesBeforeFailed /\ NoOrphans

`RetriesLeft` (a task that is not final has tries left) keeps the count that a
claim reads within its type. `CountsAreTrue` says that no count, in the table, in
a worker's hands or about to be stored, exceeds the copies that have failed; so a
worker that stores FAILED has seen them all fail, whichever replica made them.
There is again one lemma per action. `NoOrphans` is inductive with the types: of the
failed updates it excuses only that of the very task (`lost`), which the next start of
any replica takes back.

* `TasksLive`: with one replica at a time (`OneReplica`), `Spec => LifeCycle`, the
  refinement of `SyncTask`. The invariant is `OwnTask`: what a worker has claimed is
  in processing, with the count it has read, until it stores the outcome. A second
  replica breaks exactly that. `LifeNext` maps each step: a claim to `Begin`, an
  outcome to `Succeed`, `TryAgain` or `GiveUp`, a reclaim at the start to
  `Interrupt`, everything else to a stutter.

`PublisherProofs`, for any requests, groups, kinds of workers, sets of dead letter
queues, retries, faults and crashes, from `PublisherAssumption` (kinds and targets
are total, only requests for an image worker wait, `DLQ` is finite, the numbers are
natural and the retries positive):

* `TypeCorrect`: `TypeOK`; `StatusesAreWritten`: `StatusIsWritten`;
  `SuccessesArePublished`: `SuccessIsPublished`; `ResultsBeforeSuccess`:
  `ResultBeforeSuccess`; `RetriesAreBounded`: `RetriesBounded`;
  `StatusesGoForward`: `ForwardOnly`.

    IInv == /\ TypeOK /\ StagesTrue /\ CallersTrue /\ SuccessIsPublished
            /\ ResultsKept /\ AttemptsBounded

A worker reads a message in one step and stores "success" four steps later, over
calls of others: `StagesTrue` says what its stage proves of the message in its
hands, and `CallersTrue` the same of a service's handler and of a status.
`ResultsKept` is the order of the image worker's two writes. The bound of the retry
count is inductive only with the attempts under way: `AttemptsBounded` counts both,
so that a worker that lets an attempt through (the count was below the limit) still
leaves room for those that have not counted theirs.

`ForwardOnly` is about steps. It follows from `OrderInv == IInv /\ StatusesBehind /\
MarksTrue`: until a request is delivered to its worker a second time or given up,
its status is "none" or "queued" before its worker starts on it, and at most
"processing" while the worker has it in hand. Most steps store nothing and hand
nothing over (`Calm`, `AllCalm`); the few that store a status have a lemma each.

Beyond the runs:

* `NothingSkipped`: `NothingIsSkipped`; `DeliveredAreHandled`: `DeliveredIsHandled`,
  together the safety core of `WrittenIsHandled`; `WaitersAreServed`:
  `NobodyWaitsInVain`, that of `CallerIsAnswered`.

They follow from `IInv` and `DeliveryInv`, which says of each request where it is
(`Fresh`), what became of it once delivered (`Dealt`) and what its caller finds
(`Waiting`), and of each worker what its stage has made of the message in its hands
(`Stage`): a message leaves its worker only after it was published, marked failed,
left to another try in the hands of the same worker, or dead-lettered. A crash may
lose it, as its offset is committed behind the worker's back; the properties say so.

`TiupMirrorProofs`, for any workers, packages, times and bounds, from
`MirrorAssumption`:

* `TypeCorrect`: `TypeOK`; `NightliesAreLimited`: `NightlyIsLimited`, both from
  `IInv == TypeOK /\ CountersAreTrue`. The history `since` grows with time and the
  key's expiry shrinks with it; `CountersAreTrue` says that their sum covers the
  interval, and that only where the counter is gone a package may be let through.
* `LeaseAlwaysExcludes`: `LeaseExcludes`, for commands of any length, from
  `LeaseInv == IInv /\ RunsAreNew /\ LeaseCovers`: who runs a command that has not
  outlived its lease holds the mutex, as the lease has lost no more ticks than the
  command has run; so of two commands at a time one has run for a whole lease. That one
  command runs at a time is false of the code (`TiupMirrorSlow.cfg`).
* From `UsedInv`: `MutexIsGivenBack`: `MutexIsInUse`, the safety core of
  `MutexIsFreed`: a worker whose lease has run out does not release the mutex of the
  next one, and only an owner that died or failed to release it (`kept`) holds it
  without a command. Beyond the runs, `CountersAlwaysExpire`: `CountersExpire`, that of
  `LimitEnds`: only a counter whose own `Expire` was lost (`lost`) may stay for ever.

`DevBuildProofs`, for any builds, replicas, platforms and bounds, from
`DevBuildAssumption`:

* `TypeCorrect`: `TypeOK`; `VerdictsAreEarned`: `VerdictIsEarned`;
  `RunsStayTracked`: `RunsAreTracked`.

    IInv == Types /\ \A b \in Builds : BuildTrue(b)

`BuildTrue(b)` holds together what the request, every replica's snapshot of the row,
what it was told and the row itself say of one build. A stale write is harmless
because a run that has ended stays as it is (`RunsTrue`) and because event ids are
stored once, before any cycle reads the row (`KeptIds`), so what a cycle writes
back is what is there; a verdict of a Jenkins build has one writer only (`JobTrue`), and
what it stores is the status of the job's result, but for the ERROR of a failed poll
(`EarnedTrue`).
The lemma `Apart` says that a step of one build leaves `BuildTrue` of the others.

Beyond the runs, the stale writes of the reconciler:

* `FinishedIsFinal`: with one replica at a time (`OneReplica`), `FinishedStays`. The
  invariant is `OneView`: the row that a cycle holds has the status the cycle read,
  unless a caller of `Update` has written it. It rests on more than the single
  reconciler: the writers of a Jenkins build's status never meet a cycle, because its
  row has no event ids (`JobsNotHeld`). With two replicas it is false: one that
  read PROCESSING long ago writes it over the other's SUCCESS.
* `StaleWritesFade`: `OverIsOver`, for any number of replicas: that damage ends. When
  the runs of a build have ended and no cycle was told of one that ran, every
  decision still to come is for a finished status, whatever copy of the row it
  stands on. This is the safety core of `TrackedSettles`.

`CloudEventsProofs`, for any events, topics, handlers and bounds, from
`CloudEventsAssumption`:

* `TypeCorrect`: `TypeOK`; `AckedAreKept`: `AckedIsKept`; `PassedAreSettled`:
  `PassedIsSettled`; `HandledOnceEach`: `HandledOnce`.

    IInv == /\ TypeOK /\ RoutesKept /\ ReadsAhead /\ AckedIsKept
            /\ ReadIsSettled /\ TurnIsTrue /\ CallsArePaid

`ReadIsSettled` is `PassedIsSettled` for everything that was *read*, as the commit
may fail; `TurnIsTrue` says of a turn in progress that a handler has run and dealt
with the event, or the turn is bad, or the event is excused. `CallsArePaid` counts:
the calls of a handler for an event, plus the one that the turn in progress still
owes, are at most the messages with that event that a consumer has taken; messages
are taken once because a commit precedes the calls (`ReadsAhead`), so a restart
takes only messages no handler was called for.

Beyond the runs:

* `AckedGoOn`: `AckedIsOnItsWay`, the safety core of `AckedEnds`: from wherever an
  acknowledged event is, something goes on with it. It follows from `IInv`.
* `StopsDropUnsentOnly`: `ExitDropsUnsentOnly`, from the invariant `Shut`. The first
  consumer that ends closes the dead letter writer of all, and that close waits for
  what is unsent; nothing is written to it afterwards. When the process ends, no
  consumer has anything in hand and no letter is unsent: the end itself gives up what
  the producer holds, and that only. (A letter can be lost earlier in the stop, by
  `Settle`, when its write meets the closed writer or the cancelled context.)

`BuildIngestProofs`, for any prow jobs, events, URLs, order of delivery, batch size
and number of failures, from `BuildIngestAssumption` (jobs and events are told
apart and are not `Null`, every one has a URL, the batch size is positive, the
numbers are natural):

* `TypeCorrect`: `TypeOK`; `SyncedAreStored`: `SyncedIsStored`;
  `UnresolvedAreAlone`: `UnresolvedIsAlone`; `ProcessedAreBuilt`: `ProcessedIsBuilt`.

    IInv == /\ TypeOK /\ SnapshotsKept /\ BatchIsNext /\ StoredInRange
            /\ UnresolvedIsAlone /\ ProcessedIsBuilt

Both processes write a table from a snapshot that the other may have outdated.
`SnapshotsKept` says by how much: the worker only adds rows and gives a prow job to a
row that has none (`Kept`), the sync job may change anything but leaves a mark where
it does (`Grown`). What a write does to the table is then a lemma about the table and
an older one (`Resolve`, `UpsertsTyped`, `UpsertsGrow`, `MergedKept`). `SyncedIsStored`
alone is not inductive: a row that an event has named for a *later* prow job may be
moved by the sync job to that job's URL, so `StoredInRange` also bounds the prow job
of the row by the watermark, and `BatchIsNext` says that no prow job lies between the
watermark and the batch in hand.

Beyond the runs, the safety core of `IngestSettles`:

* `KeyHolds`: `OneRowPerJob`, over snapshots and several updates of a row in a batch
  (`UpsertsUnique`, `MergedUnique`);
* `ClashesDoPass`: `ClashesPass`. In a table with the key, who looks for a prow job
  finds its row (`FindsItsRow`), so a clash comes of a row written after the snapshot;
* `CommittedAreSettled`: `CommittedIsSettled`, inductive with `InOrder`: everything the
  worker has polled is settled but the event in its hands, and that one too when its
  offset is about to be committed.

What a liveness property still needs beyond its safety core is that every wait in
between ends, which is a matter of fairness:

| Liveness property (TLC) | Safety core (TLAPS) |
|---|---|
| `EveryBuildFinishes`, `BuildingIsBounded` | `NoBuildIsForgotten`, `CacheIsCurrent` |
| `FinishedIsCollected` | `FinishedIsWatched`, `CacheIsCurrent` |
| `WrittenIsHandled` | `NothingIsSkipped`, `DeliveredIsHandled` |
| `CallerIsAnswered` | `NobodyWaitsInVain` |
| `MutexIsFreed` | `MutexIsInUse` |
| `LimitEnds` | `CountersExpire` |
| `TasksEnd` | `TriesBeforeFailed`, `NoOrphans`; with one replica `LifeCycle` |
| `TrackedSettles` | `OverIsOver`, `RunsAreTracked` |
| `AckedEnds` | `AckedIsOnItsWay`, `PassedIsSettled` |
| `IngestSettles` | `OneRowPerJob`, `ClashesPass`, `CommittedIsSettled` |
| `StopEnds` | none worth stating: it is a bounded walk through the stages of one process |

Only model-checked: the liveness properties themselves, as fairness and ENABLED are
out of the prover's reach, and the violations. No property of a run that is an
invariant or an action property is without a theorem.

## 5. What is not modelled

* **Most of the lines of this repository, on purpose.** More than half of it is
  generated (the ent and goa code of tibuild-v2 and cloudevents-server,
  the deep-copy code of the operators) or maps one format to another (SQL queries of the
  dashboard, cost and roster jobs, chat commands, MCP tools, Lark cards). It has no
  states that a checker could tell apart; a module of it would repeat
  its fields. The models map what decides: the writes, guards and error paths of
  the components in the table of section 1.
* Wording, phase history, commit hashes, worker annotations, conditions: no
  decision reads them.
* What a build script, `tiup`, `crane`, Tekton or Jenkins does; only that it
  succeeds, fails, or does not end.
* More than one partition per consumer group in `Publisher`, `CloudEvents` and
  `BuildIngest`: messages of different partitions are handled in parallel, each
  like here, and the statuses of one request never meet two partitions.
* The notification cards, the contents of a build's specification and the
  derived fields (target branch, builder image) of `DevBuild`: they are computed
  once at creation, by pure code.
* `run_sync_builds_for_time_window`, a replay by hand of prow jobs that
  `BuildIngest` has copied already: the same batch without the watermark.
* The reload of configuration and clients while requests are in flight, the
  hotfix tags, the pod watcher: see the plan.
* SQL-only jobs and stateless adapters (the last row of the table).

## 6. Plan

What is left, in the order of its worth.

1. `Notify` (`notification.go`, `notifier.go`, the hook in `devbuild.go`), composed
   with `DevBuild`: one card per build, and it ends with the last status. Neither
   holds in the code as it is (two goroutines read no id and create two cards), so
   it starts with what a document promises of them.
2. `Reload` (`reloadable.go`, `srvc.go`): the last configuration on disk is the
   one in use in the end; no request uses a closed client.
3. `HotfixTag`: pure operators for the tag name, checked against a reference
   definition on bounded inputs, and the race of two requests for one tag.
4. The pod watcher's bookmarks and its restarts after "resource version too old".

Several questions of one module are asked in one run where the instances allow
it, so that the number of runs stays small as modules are added.
