------------------------------ MODULE DevBuild ------------------------------
(***************************************************************************)
(* Dev builds of tibuild-v2: rows of a table.  A request inserts a row and   *)
(* triggers its build, with one event to Tekton for each platform or one job *)
(* of Jenkins.  What Tekton makes of the events is read back by a reconciler *)
(* that polls in every replica of the service; a Jenkins job is watched by a *)
(* goroutine.  The status can be overwritten through the API at any time.    *)
(***************************************************************************)
EXTENDS Integers, FiniteSets

CONSTANTS
  Builds,        \* rows
  Replicas,      \* processes of the service
  Null,          \* no replica
  Platforms,     \* Platforms[b]: the number of platforms, and of events, of b
  ApiStatuses,   \* statuses that callers of Update set
  MaxUpdates,    \* bound on calls of Update
  MaxFaults      \* bound on failed calls, crashes, rows that leave the lookback

Statuses == {"PENDING", "PROCESSING", "SUCCESS", "FAILURE", "ERROR", "ABORTED"}
terminalStatuses == {"SUCCESS", "FAILURE", "ERROR", "ABORTED"}

ASSUME DevBuildAssumption ==
  /\ Null \notin Replicas
  /\ Platforms \in [Builds -> Nat]
  /\ ApiStatuses \subseteq Statuses
  /\ MaxUpdates \in Nat /\ MaxFaults \in Nat

VARIABLES
  row,      \* row[b]: the columns of b that decisions read
  caller,   \* caller[b]: the handler of the request that made b
  origin,   \* origin[b]: which request that was
  home,     \* home[b]: the replica with the handler, or the watch, of b
  sent,     \* sent[b]: the events of b that Tekton has accepted
  got,      \* got[b]: event ids in the hands of the handler
  run,      \* run[b][e]: the pipeline run of e
  job,      \* job[b]: the Jenkins job of b
  snap,     \* snap[r]: the rows that r reconciles, as it read them
  todo,     \* todo[r]: the events whose runs r has not asked for
  seen,     \* seen[r][b][e]: the state of the run of e that r was told
  touched,  \* history: rows changed through Update
  unseen,   \* history: events left out of the last decision about their build
  guessed,  \* history: builds whose watch ended with a poll that failed
  updates, faults

table   == <<row, touched, guessed>>
request == <<caller, origin, home, sent, got>>
outside == <<run, job>>
cycle   == <<snap, todo, seen>>
bounds  == <<updates, faults>>
vars    == <<table, request, outside, cycle, unseen, bounds>>

RunStates == {"none", "running", "success", "failure"}
JobResults == {"SUCCESS", "FAIL", "ABORTED", "ERROR", "OTHER"}
JobStates == {"none", "running"} \cup JobResults
Origins   == {"tekton", "jenkins", "dryrun", "rerun"}
Callers   == {"none", "sending", "storing", "queued", "watching", "answered",
              "refused", "broken", "lost"}

EventsOf(b) == 1..Platforms[b]
AllEvents   == UNION {{b} \X EventsOf(b) : b \in Builds}
NoRow       == [status |-> "PENDING", ids |-> {}, old |-> FALSE, there |-> FALSE]
NewRow      == [NoRow EXCEPT !.there = TRUE]
Unknown     == [b \in Builds |-> [e \in EventsOf(b) |-> "none"]]

Init ==
  /\ row = [b \in Builds |-> NoRow]
  /\ caller = [b \in Builds |-> "none"]
  /\ origin = [b \in Builds |-> "tekton"]
  /\ home = [b \in Builds |-> Null]
  /\ sent = [b \in Builds |-> {}]
  /\ got = [b \in Builds |-> {}]
  /\ run = Unknown
  /\ job = [b \in Builds |-> "none"]
  /\ snap = [r \in Replicas |-> [b \in Builds |-> NoRow]]
  /\ todo = [r \in Replicas |-> {}]
  /\ seen = [r \in Replicas |-> Unknown]
  /\ touched = {}
  /\ guessed = {}
  /\ unseen = [b \in Builds |-> {}]
  /\ updates = 0 /\ faults = 0

\* A call of the database, of Tekton or of Jenkins that fails.
Fault == faults < MaxFaults /\ faults' = faults + 1 /\ UNCHANGED updates
NoFault == UNCHANGED bounds

-----------------------------------------------------------------------------
(* Create and Rerun *)

Call(b, from, to) == caller[b] = from /\ caller' = [caller EXCEPT ![b] = to]

\* A Create for one of the engines, a dry run, or a Rerun, which is always of Tekton.
OnTekton(b) == origin[b] \in {"tekton", "rerun"}

Insert(r, b, o) ==
  /\ ~row[b].there
  /\ row' = [row EXCEPT ![b] = NewRow]
  /\ origin' = [origin EXCEPT ![b] = o]
  /\ home' = [home EXCEPT ![b] = r]
  /\ Call(b, "none", IF o = "dryrun" THEN "answered" ELSE "sending")
  /\ UNCHANGED <<touched, guessed, sent, got, outside, cycle, unseen, bounds>>

\* triggerTknBuild: one event after the other; the ids that the responses carry
\* are kept in memory.  Of an event that could not be sent nobody knows whether
\* Tekton took it.
SendEvent(b) ==
  /\ caller[b] = "sending" /\ OnTekton(b)
  /\ \E e \in EventsOf(b) :
       /\ sent[b] = 1..(e - 1)
       /\ \/ /\ sent' = [sent EXCEPT ![b] = @ \cup {e}]
             /\ \/ got' = [got EXCEPT ![b] = @ \cup {e}] /\ NoFault
                \/ UNCHANGED got /\ Fault
             /\ Call(b, "sending", IF sent'[b] # EventsOf(b) THEN "sending"
                                   ELSE IF got'[b] = {} THEN "answered" ELSE "storing")
          \/ /\ sent' \in {sent, [sent EXCEPT ![b] = @ \cup {e}]}
             /\ Call(b, "sending", "refused")
             /\ UNCHANGED got /\ Fault
  /\ UNCHANGED <<table, origin, home, outside, cycle, unseen>>

\* If they cannot be stored, triggerTknBuild returns no record and no error:
\* Create dereferences the record, Rerun answers with its own.
StoreEventIds(b) ==
  /\ \/ /\ Call(b, "storing", "answered")
        /\ row' = [row EXCEPT ![b].ids = got[b]]
        /\ NoFault
     \/ /\ Call(b, "storing", IF origin[b] = "rerun" THEN "answered" ELSE "broken")
        /\ UNCHANGED row /\ Fault
  /\ UNCHANGED <<touched, guessed, origin, home, sent, got, outside, cycle, unseen>>

TriggerJenkins(b) ==
  /\ caller[b] = "sending" /\ origin[b] = "jenkins"
  /\ \/ /\ Call(b, "sending", "queued")
        /\ job' = [job EXCEPT ![b] = "running"] /\ NoFault
     \/ Call(b, "sending", "refused") /\ UNCHANGED job /\ Fault
  /\ UNCHANGED <<table, origin, home, sent, got, run, cycle, unseen>>

\* The request is answered here; the goroutine that watches the job goes on.
MarkProcessing(b) ==
  /\ \/ /\ Call(b, "queued", "watching")
        /\ row' = [row EXCEPT ![b].status = "PROCESSING"] /\ NoFault
     \/ Call(b, "queued", "refused") /\ UNCHANGED row /\ Fault
  /\ UNCHANGED <<touched, guessed, origin, home, sent, got, outside, cycle, unseen>>

\* statusMap.  A result that is not in it is an ERROR; so is none, while the job runs.
statusOf(result) ==
  CASE result = "SUCCESS" -> "SUCCESS"
    [] result = "FAIL"    -> "FAILURE"
    [] result = "ABORTED" -> "ABORTED"
    [] OTHER              -> "ERROR"

\* monitorBuildStatus: the end of the watch.  The result is stored whatever the row
\* says; IsRunning is false, too, when its poll fails, and the result is then the
\* one that was seen before, which is none if the job ran.  If the job cannot be
\* found in the queue, or its status not be stored, the watch ends all the same.
StoreJobResult(b) ==
  /\ Call(b, "watching", "answered")
  /\ \/ /\ job[b] # "running"
        /\ row' = [row EXCEPT ![b].status = statusOf(job[b])]
        /\ NoFault /\ UNCHANGED guessed
     \/ /\ \E s \in {"ERROR", statusOf(job[b])} : row' = [row EXCEPT ![b].status = s]
        /\ Fault /\ guessed' = guessed \cup {b}
     \/ Fault /\ UNCHANGED <<row, guessed>>
  /\ UNCHANGED <<touched, origin, home, sent, got, outside, cycle, unseen>>

Handler(b) == SendEvent(b) \/ StoreEventIds(b) \/ TriggerJenkins(b)
              \/ MarkProcessing(b) \/ StoreJobResult(b)

\* Update: a caller sets the status and, if it sends a Tekton status, replaces
\* the event ids.
Update(b, s, ids) ==
  /\ row[b].there
  /\ updates < MaxUpdates /\ updates' = updates + 1
  /\ row' = [row EXCEPT ![b].status = s, ![b].ids = ids]
  /\ touched' = touched \cup {b}
  /\ UNCHANGED <<guessed, request, outside, cycle, unseen, faults>>

-----------------------------------------------------------------------------
(* Tekton and Jenkins *)

RunStep(b, e) ==
  /\ \/ run[b][e] = "none" /\ e \in sent[b] /\ run' = [run EXCEPT ![b][e] = "running"]
     \/ /\ run[b][e] = "running"
        /\ \E s \in {"success", "failure"} : run' = [run EXCEPT ![b][e] = s]
  /\ UNCHANGED <<table, request, job, cycle, unseen, bounds>>

JobStep(b) ==
  /\ job[b] = "running"
  /\ \E s \in JobResults : job' = [job EXCEPT ![b] = s]
  /\ UNCHANGED <<table, request, run, cycle, unseen, bounds>>

\* The row is no longer within the lookback of the reconciler.
Outgrow(b) ==
  /\ row[b].there /\ ~row[b].old
  /\ row' = [row EXCEPT ![b].old = TRUE]
  /\ Fault
  /\ UNCHANGED <<touched, guessed, request, outside, cycle, unseen>>

-----------------------------------------------------------------------------
(* Reconcile, in each replica: a job that never overlaps itself. *)

\* Mutant: only builds that have not begun are looked at.
InScopePending(b) == row[b].there /\ ~row[b].old /\ row[b].status = "PENDING"

InScope(b) == row[b].there /\ ~row[b].old /\ row[b].status \notin terminalStatuses

Idle(r) == \A b \in Builds : ~snap[r][b].there

\* Rows without event ids are left out.
BeginCycle(r) ==
  /\ Idle(r)
  /\ LET scope == {b \in Builds : InScope(b) /\ row[b].ids # {}} IN
       /\ scope # {}
       /\ snap' = [snap EXCEPT ![r] = [b \in Builds |-> IF b \in scope THEN row[b] ELSE NoRow]]
       /\ todo' = [todo EXCEPT ![r] = UNION {{b} \X row[b].ids : b \in scope}]
  /\ UNCHANGED <<table, request, outside, seen, unseen, bounds>>

\* The runs of one event; a query that fails is skipped.
Query(r) ==
  /\ \E q \in todo[r] :
       /\ \A p \in todo[r] : p[1] = q[1] => q[2] <= p[2]
       /\ todo' = [todo EXCEPT ![r] = @ \ {q}]
       /\ \/ seen' = [seen EXCEPT ![r][q[1]][q[2]] = run[q[1]][q[2]]] /\ NoFault
          \/ UNCHANGED seen /\ Fault
  /\ UNCHANGED <<table, request, outside, snap, unseen>>

Among(s, r, b) == \E e \in EventsOf(b) : seen[r][b][e] = s

\* Mutant: a build has succeeded when one of its runs has.
determineStatusFirst(r, b) ==
  IF Among("success", r, b) THEN "SUCCESS"
  ELSE IF Among("running", r, b) THEN "PROCESSING"
  ELSE IF Among("failure", r, b) THEN "FAILURE" ELSE ""

\* Mutant: a status of the notifications, not of the table.
determineStatusRunning(r, b) ==
  IF Among("failure", r, b) THEN "FAILURE"
  ELSE IF Among("running", r, b) THEN "RUNNING"
  ELSE IF Among("success", r, b) THEN "SUCCESS" ELSE ""

determineStatus(r, b) ==
  IF Among("failure", r, b) THEN "FAILURE"
  ELSE IF Among("running", r, b) THEN "PROCESSING"
  ELSE IF Among("success", r, b) THEN "SUCCESS" ELSE ""

\* Mutant: the Tekton status is made anew.
WrittenRowAnew(r, b) == [row[b] EXCEPT !.status = determineStatus(r, b), !.ids = {}]

\* buildTektonStatus keeps the event ids of the row as it was read.
WrittenRow(r, b) ==
  [row[b] EXCEPT !.status = determineStatus(r, b), !.ids = snap[r][b].ids]

\* updateBuildFromPipelineRuns: without a condition on the row.
UpdateBuild(r, b) ==
  /\ snap[r][b].there /\ todo[r] = {}
  /\ IF determineStatus(r, b) \in {"", snap[r][b].status}
       THEN UNCHANGED <<row, unseen>> /\ NoFault
       ELSE \/ /\ row' = [row EXCEPT ![b] = WrittenRow(r, b)]
               /\ unseen' = [unseen EXCEPT ![b] =
                             {e \in EventsOf(b) : seen[r][b][e] = "none"}]
               /\ NoFault
            \/ UNCHANGED <<row, unseen>> /\ Fault
  /\ snap' = [snap EXCEPT ![r][b] = NoRow]
  /\ seen' = [seen EXCEPT ![r][b] = [e \in EventsOf(b) |-> "none"]]
  /\ UNCHANGED <<touched, guessed, request, outside, todo>>

Reconcile(r) == BeginCycle(r) \/ Query(r) \/ \E b \in Builds : UpdateBuild(r, b)

\* A replica dies, with its requests, its watches and its cycle.
Crash(r) ==
  /\ Fault
  /\ caller' = [b \in Builds |->
       IF home[b] = r /\ caller[b] \in {"sending", "storing", "queued", "watching"}
         THEN "lost" ELSE caller[b]]
  /\ snap' = [snap EXCEPT ![r] = [b \in Builds |-> NoRow]]
  /\ todo' = [todo EXCEPT ![r] = {}]
  /\ seen' = [seen EXCEPT ![r] = Unknown]
  /\ UNCHANGED <<table, origin, home, sent, got, outside, unseen>>

-----------------------------------------------------------------------------
Next ==
  \/ \E b \in Builds :
       \/ \E r \in Replicas, o \in Origins : Insert(r, b, o)
       \/ Handler(b)
       \/ \E s \in ApiStatuses, ids \in {row[b].ids, {}} : Update(b, s, ids)
       \/ \E e \in EventsOf(b) : RunStep(b, e)
       \/ JobStep(b)
       \/ Outgrow(b)
  \/ \E r \in Replicas : Reconcile(r) \/ Crash(r)

Spec == Init /\ [][Next]_vars

\* Requests in progress go on and the reconciler's job is run at its interval.
FairSpec ==
  /\ Spec
  /\ \A b \in Builds : WF_vars(Handler(b))
  /\ \A r \in Replicas : WF_vars(Reconcile(r))

\* Pipelines and jobs end: not of this code's making.
PipelinesEnd ==
  \A b \in Builds : WF_vars(JobStep(b)) /\ \A e \in EventsOf(b) : WF_vars(RunStep(b, e))

-----------------------------------------------------------------------------
(* Properties *)

RowOK(b, w) == /\ w.status \in Statuses /\ w.ids \subseteq EventsOf(b)
               /\ w.old \in BOOLEAN /\ w.there \in BOOLEAN

TypeOK ==
  /\ \A b \in Builds : RowOK(b, row[b])
  /\ caller \in [Builds -> Callers]
  /\ origin \in [Builds -> Origins]
  /\ home \in [Builds -> Replicas \cup {Null}]
  /\ \A b \in Builds : got[b] \subseteq sent[b] /\ sent[b] \subseteq EventsOf(b)
  /\ \A b \in Builds : run[b] \in [EventsOf(b) -> RunStates]
  /\ job \in [Builds -> JobStates]
  /\ \A r \in Replicas, b \in Builds : RowOK(b, snap[r][b])
  /\ \A r \in Replicas : todo[r] \subseteq AllEvents
  /\ \A r \in Replicas, b \in Builds : seen[r][b] \in [EventsOf(b) -> RunStates]
  /\ touched \subseteq Builds /\ guessed \subseteq Builds
  /\ \A b \in Builds : unseen[b] \subseteq EventsOf(b)
  /\ updates \in 0..MaxUpdates /\ faults \in 0..MaxFaults

\* A finished status is true of what is behind it, whatever was read late or out of
\* order by several replicas: SUCCESS hides no failed run but one that the decision
\* did not see (its query failed, it had not appeared, its id was lost), FAILURE
\* has a failed run.  The status of a job is that of its result, and only an ERROR
\* may stand for a job whose watch lost sight of it and that still runs, or ended
\* otherwise.
JobIsTold(b) == job[b] \in JobResults /\ row[b].status = statusOf(job[b])

VerdictIsEarned ==
  \A b \in Builds \ touched :
    IF ~OnTekton(b)
      THEN row[b].status \in terminalStatuses =>
             JobIsTold(b) \/ (row[b].status = "ERROR" /\ b \in guessed)
      ELSE /\ row[b].status = "SUCCESS" =>
                \A e \in EventsOf(b) \ unseen[b] : run[b][e] = "success"
           /\ row[b].status = "FAILURE" =>
                \E e \in EventsOf(b) : run[b][e] = "failure"

\* A run of Tekton that the reconciler will never look for belongs to a request
\* that was not answered, to a rerun whose ids could not be stored, or to an
\* event without an id: stale writes of the reconciler lose no event id.
RunsAreTracked ==
  \A b \in Builds \ touched : \A e \in EventsOf(b) :
    run[b][e] # "none" =>
      \/ e \in row[b].ids
      \/ caller[b] \in {"sending", "storing", "refused", "broken", "lost"}
      \/ faults > 0 /\ (origin[b] = "rerun" \/ e \notin got[b])

\* A build whose events are known ends in a finished status and stays there, or
\* leaves the lookback: stale writes of other replicas, failed queries, updates
\* through the API and crashes delay that, they do not prevent it.
TrackedSettles ==
  PipelinesEnd =>
    \A b \in Builds :
      <>[](row[b].ids # {} => row[b].old \/ row[b].status \in terminalStatuses)

\* A finished status that no caller of Update has changed is final, as long as one
\* replica runs at a time: it is not made PROCESSING again by a cycle that read
\* the row before, nor by the watch of a job.  Two replicas do that to each other.
FinishedStays ==
  [][\A b \in Builds \ touched' :
       row[b].status \in terminalStatuses => row'[b].status = row[b].status]_vars

\* Stale writes fade out: once the runs of a build have ended and no cycle, of any
\* replica, was told of one that ran, that remains so and a finished status stays
\* finished, although old copies of the row are still written back.  Only a caller
\* of Update can undo it.  The safety core of TrackedSettles.
Over(b) ==
  /\ OnTekton(b) /\ caller[b] \notin {"none", "sending", "storing"}
  /\ \A e \in sent[b] : run[b][e] \in {"success", "failure"}
  /\ \A r \in Replicas : ~Among("running", r, b)

StaysOver(b) ==
  /\ Over(b)'
  /\ row[b].status \in terminalStatuses =>
       row'[b].status \in terminalStatuses \/ updates' > updates

OverIsOver == [][\A b \in Builds : Over(b) => StaysOver(b)]_vars

\* devbuild_tekton.go: "Non-fatal: the build was triggered successfully, just the
\* eventID storage failed": the request of a triggered build is answered.
TriggeredIsAnswered == \A b \in Builds : caller[b] # "broken"
=============================================================================
