------------------------------ MODULE MacBuild ------------------------------
(***************************************************************************)
(* The mac-builder operator: MacBuild objects kept by the Kubernetes API    *)
(* server, the agents that claim and run them on macOS workers (one          *)
(* MacBuildReconciler per worker, one reconcile at a time) and the garbage   *)
(* collector (MacBuildGCReconciler).  Every controller decides from its      *)
(* informer cache, which lags behind the API server, and writes with         *)
(* optimistic concurrency: a write re-reads the cache and is retried until   *)
(* the cache is up to date, but it never re-checks the decision it stands    *)
(* for.                                                                      *)
(*                                                                           *)
(* Times are ages (ticks since the recorded instant), which saturate one     *)
(* tick after the age the code compares them with.                           *)
(***************************************************************************)
EXTENDS Integers

CONSTANTS
  Agents,        \* worker identities (--worker-name)
  Builds,        \* MacBuild objects, all submitted initially
  GC,            \* the garbage collector, a reader of its own
  Null,          \* no worker, no task
  AgentArch,     \* AgentArch[a]: --worker-arch
  BuildArch,     \* BuildArch[b]: spec.build.arch after normalisation
  Publishes,     \* the builds with spec.artifacts.push
  BuildTimeout,  \* --build-timeout, in ticks
  TTL,           \* TTL[b]: spec.ttlSecondsAfterFinished, or Nil
  MaxFaults      \* bound on agent crashes and failed status updates

Nil == -1
Readers == Agents \cup {GC}

ASSUME ConstantsAssumption ==
  /\ GC \notin Agents
  /\ Null \notin Agents
  /\ Null \notin Builds
  /\ BuildTimeout \in Nat
  /\ TTL \in [Builds -> Nat \cup {Nil}]
  /\ MaxFaults \in Nat

VARIABLES
  api,        \* api[b]: the status of b at the API server
  cache,      \* cache[r][b]: the status in the informer cache of reader r
  news,       \* <<r, b>>: changes of b that the informer of r has not delivered
  queue,      \* queue[r]: the work queue of reader r
  op,         \* op[a]: what agent a is doing inside Reconcile
  task,       \* task[a]: the build it does it for
  faults,     \* crashes and failed updates so far
  firstDone   \* history: age of the first terminal status of b, Nil before

vars == <<api, cache, news, queue, op, task, faults, firstDone>>

Active   == {"Preparing", "Building", "Publishing"}
Terminal == {"Succeeded", "Failed"}
Phases   == {"Absent", "New", "Pending"} \cup Active \cup Terminal

Status == [phase: Phases, worker: Agents \cup {Null},
           start: Nat \cup {Nil}, done: Nat \cup {Nil}]

Submitted == [phase |-> "New", worker |-> Null, start |-> Nil, done |-> Nil]
Absent    == [Submitted EXCEPT !.phase = "Absent"]

\* Inside Reconcile: an update under way, or a stage of nativeBuildJob.Run.
Updating == {"Init", "Claim", "Fail", "ToBuilding", "ToPublishing", "Succeed"}
Running  == {"Prepare", "ToBuilding", "Build", "ToPublishing", "Publish",
             "Succeed"}
Ops      == {"Idle"} \cup Updating \cup Running

Init ==
  /\ api = [b \in Builds |-> Submitted]
  /\ cache = [r \in Readers |-> [b \in Builds |-> Absent]]
  /\ news = Readers \X Builds
  /\ queue = [r \in Readers |-> {}]
  /\ op = [a \in Agents |-> "Idle"]
  /\ task = [a \in Agents |-> Null]
  /\ faults = 0
  /\ firstDone = [b \in Builds |-> Nil]

-----------------------------------------------------------------------------
(* Time *)

Older(age, cap) == IF age = Nil \/ age >= cap THEN age ELSE age + 1
StartCap        == BuildTimeout + 1
DoneCap(b)      == TTL[b] + 1

Aged(b, s) == [s EXCEPT !.start = Older(@, StartCap),
                        !.done  = Older(@, DoneCap(b))]

Tick ==
  /\ api' = [b \in Builds |-> Aged(b, api[b])]
  /\ cache' = [r \in Readers |-> [b \in Builds |-> Aged(b, cache[r][b])]]
  /\ firstDone' = [b \in Builds |-> Older(firstDone[b], DoneCap(b))]
  /\ UNCHANGED <<news, queue, op, task, faults>>

HasTimedOut(s) == s.start > BuildTimeout

-----------------------------------------------------------------------------
(* The informer of reader r delivers the latest b and enqueues it. *)

Observe(r, b) ==
  /\ <<r, b>> \in news
  /\ news' = news \ {<<r, b>>}
  /\ cache' = [cache EXCEPT ![r][b] = api[b]]
  /\ queue' = [queue EXCEPT ![r] = @ \cup {b}]
  /\ UNCHANGED <<api, op, task, faults, firstDone>>

-----------------------------------------------------------------------------
(* MacBuildReconciler.Reconcile: the decision, taken from the cache.  The    *)
(* build of another worker is looked at again after the poll interval: b     *)
(* stays in the queue and nothing changes.                                   *)

Take(a, b) ==
  /\ op[a] = "Idle"
  /\ b \in queue[a]
  /\ queue' = [queue EXCEPT ![a] = @ \ {b}]
  /\ UNCHANGED <<api, cache, news, faults, firstDone>>

Begin(a, b, o) ==
  /\ Take(a, b)
  /\ op' = [op EXCEPT ![a] = o]
  /\ task' = [task EXCEPT ![a] = b]

Orphaned(s)  == s.start = Nil \/ s.worker = Null
MatchesArch(a, b) == AgentArch[a] = BuildArch[b]

NothingToDo(a, b) ==
  /\ \/ cache[a][b].phase \in Terminal \cup {"Absent"}
     \/ cache[a][b].phase = "Pending" /\ ~MatchesArch(a, b)
  /\ Take(a, b)
  /\ UNCHANGED <<op, task>>

BeginInit(a, b) ==
  /\ cache[a][b].phase = "New"
  /\ Begin(a, b, "Init")

\* Mutant: any worker claims.
BeginClaimAnyArch(a, b) ==
  /\ cache[a][b].phase = "Pending"
  /\ Begin(a, b, "Claim")

BeginClaim(a, b) ==
  /\ cache[a][b].phase = "Pending"
  /\ MatchesArch(a, b)
  /\ Begin(a, b, "Claim")

\* Mutant: the ownership is tested before the timeout.
BeginFailOwned(a, b) ==
  /\ cache[a][b].phase \in Active
  /\ cache[a][b].worker = a
  /\ Orphaned(cache[a][b]) \/ HasTimedOut(cache[a][b])
  /\ Begin(a, b, "Fail")

\* Whoever owns the build: the timeout is tested before the ownership.
BeginFail(a, b) ==
  /\ cache[a][b].phase \in Active
  /\ Orphaned(cache[a][b]) \/ HasTimedOut(cache[a][b])
  /\ Begin(a, b, "Fail")

\* Start the build, or start it again after a restart of the worker.
BeginRun(a, b) ==
  /\ cache[a][b].phase \in Active
  /\ ~Orphaned(cache[a][b]) /\ ~HasTimedOut(cache[a][b])
  /\ cache[a][b].worker = a
  /\ Begin(a, b, "Prepare")

Reconcile(a, b) ==
  \/ NothingToDo(a, b)
  \/ BeginInit(a, b)
  \/ BeginClaim(a, b)
  \/ BeginFail(a, b)
  \/ BeginRun(a, b)

-----------------------------------------------------------------------------
(* nativeBuildJob.Run: commands whose outcome the model leaves open.  No     *)
(* build script means there is nothing to build.                             *)

Goto(a, o) ==
  /\ op' = [op EXCEPT ![a] = o]
  /\ UNCHANGED <<api, cache, news, queue, task, faults, firstDone>>

Prepare(a) ==
  /\ op[a] = "Prepare"
  /\ \E o \in {"ToBuilding", "Succeed", "Fail"} : Goto(a, o)

ExecuteBuild(a) ==
  /\ op[a] = "Build"
  /\ \E o \in {"Fail", IF task[a] \in Publishes THEN "ToPublishing"
                                               ELSE "Succeed"} : Goto(a, o)

ExecutePublish(a) ==
  /\ op[a] = "Publish"
  /\ \E o \in {"Succeed", "Fail"} : Goto(a, o)

RunCommand(a) == Prepare(a) \/ ExecuteBuild(a) \/ ExecutePublish(a)

-----------------------------------------------------------------------------
(* updateBuildStatus: read the cache, mutate, update; retried on conflict,   *)
(* so a successful update is one made from the current version.  The mutation *)
(* is applied to whatever status the object has by then.                     *)

Pended(s)     == [s EXCEPT !.phase = "Pending"]
Claimed(a, s) == [s EXCEPT !.phase = "Preparing", !.worker = a,
                           !.start = 0, !.done = Nil]
\* Mutant: a phase report leaves the completion time alone.
ReportedOnTop(a, p, s) ==
  [s EXCEPT !.phase = p, !.worker = a,
            !.start = IF s.start = Nil THEN 0 ELSE s.start]
Reported(a, p, s) ==
  [s EXCEPT !.phase = p, !.worker = a,
            !.start = IF s.start = Nil THEN 0 ELSE s.start, !.done = Nil]
Finished(p, s) == [s EXCEPT !.phase = p, !.done = 0]

Write(a, b, s) ==
  /\ api[b].phase # "Absent"
  /\ <<a, b>> \notin news
  /\ api' = [api EXCEPT ![b] = s]
  /\ news' = news \cup (Readers \X {b})
  /\ firstDone' = [firstDone EXCEPT ![b] =
                     IF @ = Nil /\ s.phase \in Terminal THEN 0 ELSE @]
  /\ UNCHANGED <<cache, faults>>

\* Mutant: the agent still holds the build after the reconcile.
ReturnHolding(a, o, again) ==
  /\ op' = [op EXCEPT ![a] = o]
  /\ queue' = [queue EXCEPT ![a] = IF again THEN @ \cup {task[a]} ELSE @]
  /\ UNCHANGED task

\* After Init and Claim the reconciler asks to be requeued; a phase report
\* returns to the running job; the two final updates end the reconcile.
Return(a, o, again) ==
  /\ op' = [op EXCEPT ![a] = o]
  /\ task' = [task EXCEPT ![a] = IF o = "Idle" THEN Null ELSE @]
  /\ queue' = [queue EXCEPT ![a] = IF again THEN @ \cup {task[a]} ELSE @]

UpdateStatus(a) ==
  LET b == task[a] IN
  \/ /\ op[a] = "Init"
     /\ Write(a, b, Pended(api[b]))
     /\ Return(a, "Idle", TRUE)
  \/ /\ op[a] = "Claim"
     /\ Write(a, b, Claimed(a, api[b]))
     /\ Return(a, "Idle", TRUE)
  \/ /\ op[a] = "ToBuilding"
     /\ Write(a, b, Reported(a, "Building", api[b]))
     /\ Return(a, "Build", FALSE)
  \/ /\ op[a] = "ToPublishing"
     /\ Write(a, b, Reported(a, "Publishing", api[b]))
     /\ Return(a, "Publish", FALSE)
  \/ /\ op[a] = "Succeed"
     /\ Write(a, b, Finished("Succeeded", api[b]))
     /\ Return(a, "Idle", FALSE)
  \/ /\ op[a] = "Fail"
     /\ Write(a, b, Finished("Failed", api[b]))
     /\ Return(a, "Idle", FALSE)

\* Mutant: the error of a failed update is swallowed.
UpdateFailsSilently(a) ==
  /\ op[a] \in Updating
  /\ faults < MaxFaults /\ faults' = faults + 1
  /\ Return(a, "Idle", FALSE)
  /\ UNCHANGED <<api, cache, news, firstDone>>

\* An API error, an exhausted retry or a deleted object.  A failed phase
\* report fails the job; any other failure ends the reconcile with an error,
\* and the build is retried from the start.
UpdateFails(a) ==
  /\ op[a] \in Updating
  /\ IF Absent \in {api[task[a]], cache[a][task[a]]}
       THEN UNCHANGED faults
       ELSE faults < MaxFaults /\ faults' = faults + 1
  /\ IF op[a] \in {"ToBuilding", "ToPublishing"}
       THEN Return(a, "Fail", FALSE)
       ELSE Return(a, "Idle", TRUE)
  /\ UNCHANGED <<api, cache, news, firstDone>>

\* The agent process dies and comes back with its identity and an empty cache.
Crash(a) ==
  /\ faults < MaxFaults
  /\ faults' = faults + 1
  /\ op' = [op EXCEPT ![a] = "Idle"]
  /\ task' = [task EXCEPT ![a] = Null]
  /\ cache' = [cache EXCEPT ![a] = [b \in Builds |-> Absent]]
  /\ news' = news \cup ({a} \X Builds)
  /\ queue' = [queue EXCEPT ![a] = {}]
  /\ UNCHANGED <<api, firstDone>>

-----------------------------------------------------------------------------
(* MacBuildGCReconciler.Reconcile.  A finished build whose TTL has not run   *)
(* out is requeued for the remaining time: b stays in the queue.             *)

\* Mutant: a build whose TTL still runs is skipped and not requeued.
CollectableNow(b, s) == /\ TTL[b] # Nil
                        /\ s.phase \in Terminal
                        /\ s.done > TTL[b]

Collectable(b, s) == /\ TTL[b] # Nil
                     /\ s.phase \in Terminal
                     /\ s.done # Nil
GcTake(b) ==
  /\ b \in queue[GC]
  /\ queue' = [queue EXCEPT ![GC] = @ \ {b}]
  /\ UNCHANGED <<cache, op, task, faults, firstDone>>

GcSkip(b) ==
  /\ ~Collectable(b, cache[GC][b])
  /\ GcTake(b)
  /\ UNCHANGED <<api, news>>

\* Mutant: the TTL is not waited for.
GcDeleteEarly(b) ==
  /\ Collectable(b, cache[GC][b])
  /\ GcTake(b)
  /\ api' = [api EXCEPT ![b] = Absent]
  /\ news' = news \cup (Readers \X {b})

\* Delete carries no precondition: it removes whatever b has become.
GcDelete(b) ==
  /\ Collectable(b, cache[GC][b])
  /\ cache[GC][b].done > TTL[b]
  /\ GcTake(b)
  /\ api' = [api EXCEPT ![b] = Absent]
  /\ news' = news \cup (Readers \X {b})

Collect(b) == GcSkip(b) \/ GcDelete(b)

-----------------------------------------------------------------------------
Next ==
  \/ Tick
  \/ \E r \in Readers, b \in Builds : Observe(r, b)
  \/ \E a \in Agents, b \in Builds : Reconcile(a, b)
  \/ \E a \in Agents : RunCommand(a) \/ UpdateStatus(a) \/ UpdateFails(a)
                       \/ Crash(a)
  \/ \E b \in Builds : Collect(b)

Spec == Init /\ [][Next]_vars

\* Fairness: the informers deliver, the work queues are first-in first-out
\* (a build that stays queued is taken again and again while its agent is
\* idle), a conflicting update is retried while its conflict can end, and time
\* passes.  Nothing is assumed of the commands of a build, which the job runs
\* without any deadline.
Fairness ==
  /\ WF_vars(Tick)
  /\ \A r \in Readers, b \in Builds : WF_vars(Observe(r, b))
  /\ \A a \in Agents, b \in Builds : SF_vars(Reconcile(a, b))
  /\ \A a \in Agents : SF_vars(UpdateStatus(a) \/ UpdateFails(a))
  /\ \A b \in Builds : WF_vars(Collect(b))

FairSpec == Spec /\ Fairness

\* The commands of every build end, one way or another.
CommandsEnd == \A a \in Agents : WF_vars(RunCommand(a))

-----------------------------------------------------------------------------
(* Properties *)

TypeOK ==
  /\ api \in [Builds -> Status]
  /\ cache \in [Readers -> [Builds -> Status]]
  /\ news \subseteq Readers \X Builds
  /\ queue \in [Readers -> SUBSET Builds]
  /\ op \in [Agents -> Ops]
  /\ task \in [Agents -> Builds \cup {Null}]
  /\ \A a \in Agents : op[a] = "Idle" <=> task[a] = Null
  /\ faults \in 0..MaxFaults
  /\ firstDone \in [Builds -> Nat \cup {Nil}]

\* A status written by the operator is never half-filled, whatever the updates
\* raced with: an active build has an owner of its architecture and a start
\* time and no completion time, a finished one has a completion time.  So
\* reconcile never meets "an active phase without startTime" or "without
\* workerID", and GC never skips a finished build for lack of a completion time.
Consistent(b, s) ==
  /\ s.phase \in Active => s.worker # Null /\ s.start # Nil /\ s.done = Nil
  /\ s.phase \in Terminal => s.done # Nil
  /\ s.worker # Null => MatchesArch(s.worker, b)

StatusConsistent ==
  /\ \A b \in Builds : Consistent(b, api[b])
  /\ \A r \in Readers, b \in Builds : Consistent(b, cache[r][b])

\* A job only ever runs on a worker of the architecture the build asks for.
RunsOnMatchingArch ==
  \A a \in Agents : op[a] \in Running => MatchesArch(a, task[a])

\* An informer that owes its reader nothing shows it the current version.
CacheIsCurrent ==
  \A r \in Readers, b \in Builds : <<r, b>> \notin news => cache[r][b] = api[b]

\* No wake-up is lost: an agent that has b neither in its queue nor in hand,
\* and no event of b to come, has nothing left to do for it.  The safety core
\* of EveryBuildFinishes and BuildingIsBounded.
NothingLeft(a, b) ==
  \/ api[b].phase \in Terminal \cup {"Absent"}
  \/ api[b].phase = "Pending" /\ ~MatchesArch(a, b)

NoBuildIsForgotten ==
  \A a \in Agents, b \in Builds :
    \/ <<a, b>> \in news
    \/ b \in queue[a]
    \/ task[a] = b
    \/ NothingLeft(a, b)

\* The collector keeps every finished build with a TTL in sight until it has
\* deleted it.  The safety core of FinishedIsCollected.
FinishedIsWatched ==
  \A b \in Builds :
    TTL[b] # Nil /\ api[b].phase \in Terminal
      => <<GC, b>> \in news \/ b \in queue[GC]

\* Every build some agent can run is finished at some time, as long as the
\* commands end: crashes, lost updates and stale decisions do not lose it.
EveryBuildFinishes ==
  CommandsEnd =>
    \A b \in Builds : (\E a \in Agents : MatchesArch(a, b))
                        => <>(api[b].phase \in Terminal)

\* A finished build with a TTL does not stay: it is collected, or the next write
\* of a worker that has not seen the end takes it out of its terminal phase.
FinishedIsCollected ==
  \A b \in Builds : TTL[b] # Nil
     => (api[b].phase \in Terminal ~> api[b].phase \notin Terminal)

\* README.md: "--build-timeout bounds how long a job may remain in Building
\* before it is marked Failed".
BuildingIsBounded ==
  \A b \in Builds : api[b].phase = "Building" ~> api[b].phase # "Building"

\* DESIGN.md, state machine of the agent: "Succeeded / Failed: Terminal states.
\* The Agent stops processing; waiting for GC."
TerminalIsFinal ==
  [][\A b \in Builds : api[b].phase \in Terminal
                          => api'[b].phase \in {api[b].phase, "Absent"}]_vars

\* What is true of it: the end of a build is final once no worker has it in hand
\* and none has an older version of it in its cache.  A crash, a slow informer or a
\* worker that comes back does not run it again; stale copies are the only danger.
AtRest(b) ==
  /\ api[b].phase \in Terminal \cup {"Absent"}
  /\ \A a \in Agents : task[a] # b /\ cache[a][b].phase \in Terminal \cup {"Absent"}

StaysAtRest(b) == AtRest(b)' /\ api'[b].phase \in {api[b].phase, "Absent"}
RestIsFinal == [][\A b \in Builds : AtRest(b) => StaysAtRest(b)]_vars

\* The operator keeps the retention promise: a build is deleted only when its
\* TTL has run out since it first finished.
Promise == INSTANCE Retention
             WITH age <- firstDone,
                  gone <- [b \in Builds |-> api[b].phase = "Absent"]

Retained == Promise!Spec

=============================================================================
