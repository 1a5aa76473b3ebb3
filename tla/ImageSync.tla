----------------------------- MODULE ImageSync -----------------------------
(***************************************************************************)
(* The image sync worker of tibuild-v2: tasks in a database, created by      *)
(* SyncImage, and replicas of the service, each with one worker that polls   *)
(* for pending tasks, claims them one by one, copies the image and stores    *)
(* the outcome.  A replica that starts takes back the tasks it finds in      *)
(* processing; one that is told to stop waits for the copy in flight, then   *)
(* cancels the context of the worker.  A rolling update runs two replicas    *)
(* for a while.                                                              *)
(***************************************************************************)
EXTENDS Naturals, FiniteSets

CONSTANTS
  Replicas,    \* places for a process of the service
  NumTasks,    \* tasks are numbered as they are created
  BatchSize,   \* defaultBatchSize
  MaxRetries,  \* defaultMaxRetries
  MaxFaults,   \* bound on failed calls of the database
  MaxStops     \* bound on terminations and crashes of replicas

ASSUME SyncAssumption ==
  /\ NumTasks \in Nat
  /\ BatchSize \in Nat \ {0} /\ MaxRetries \in Nat \ {0}
  /\ MaxFaults \in Nat /\ MaxStops \in Nat

Tasks == 1..NumTasks
NoTask == 0

VARIABLES
  status,   \* status[t]: the status column, "NONE" before the creation
  retry,    \* retry[t]: the retryCount column
  pc,       \* pc[r]: where the worker of r is
  stop,     \* stop[r]: how far the shutdown of r is
  batch,    \* batch[r]: queried tasks that r has not tried to claim yet
  task,     \* task[r]: the task r has claimed
  tried,    \* tried[r]: its retryCount, as read by the claim
  copied,   \* copied[r]: whether its copy succeeded
  failures, \* history: failed copies of t, up to MaxRetries
  lost,     \* history: tasks that a failed update left in processing
  faults, stops

columns == <<status, retry>>
locals  == <<batch, task, tried, copied>>
past    == <<failures, lost>>
bounds  == <<faults, stops>>
vars    == <<columns, pc, stop, locals, past, bounds>>

Final    == {"SUCCEEDED", "FAILED"}
Statuses == {"NONE", "PENDING", "PROCESSING"} \cup Final
Stages   == {"down", "reclaim", "idle", "batch", "copy", "save"}
Stops    == {"no", "waiting", "stopped", "canceled"}

Init ==
  /\ status = [t \in Tasks |-> "NONE"]
  /\ retry = [t \in Tasks |-> 0]
  /\ pc = [r \in Replicas |-> "down"]
  /\ stop = [r \in Replicas |-> "no"]
  /\ batch = [r \in Replicas |-> {}]
  /\ task = [r \in Replicas |-> NoTask]
  /\ tried = [r \in Replicas |-> 0]
  /\ copied = [r \in Replicas |-> FALSE]
  /\ failures = [t \in Tasks |-> 0]
  /\ lost = {}
  /\ faults = 0 /\ stops = 0

Fault == faults < MaxFaults /\ faults' = faults + 1
NoFault == UNCHANGED faults

Goto(r, s) == pc' = [pc EXCEPT ![r] = s]

-----------------------------------------------------------------------------
\* SyncImage: ids are given in order.
SyncImage(t) ==
  /\ status[t] = "NONE"
  /\ \A u \in Tasks : u < t => status[u] # "NONE"
  /\ status' = [status EXCEPT ![t] = "PENDING"]
  /\ UNCHANGED <<retry, pc, stop, locals, past, bounds>>

-----------------------------------------------------------------------------
(* The worker. *)

StartUp(r) ==
  /\ pc[r] = "down"
  /\ Goto(r, "reclaim")
  /\ UNCHANGED <<columns, stop, locals, past, bounds>>

Processing == {t \in Tasks : status[t] = "PROCESSING"}

\* Mutant: tasks in processing are left to the replica that claimed them.
ReclaimNothing(r) ==
  /\ pc[r] = "reclaim"
  /\ Goto(r, "idle")
  /\ UNCHANGED <<columns, stop, locals, past, bounds>>

\* Whoever claimed them: tasks in processing are pending again.
Reclaim(r) ==
  /\ pc[r] = "reclaim"
  /\ \/ /\ stop[r] # "canceled" /\ NoFault
        /\ status' = [t \in Tasks |-> IF status[t] = "PROCESSING"
                                        THEN "PENDING" ELSE status[t]]
        /\ lost' = {}
     \/ stop[r] = "canceled" /\ NoFault /\ UNCHANGED <<status, lost>>
     \/ /\ Fault /\ UNCHANGED status
        /\ lost' = Processing
  /\ Goto(r, "idle")
  /\ UNCHANGED <<retry, stop, locals, failures, stops>>

Pending == {t \in Tasks : status[t] = "PENDING"}

\* The first tasks of S, by id.
FirstOf(S) == {t \in S : Cardinality({u \in S : u < t}) < BatchSize}

Poll(r) ==
  /\ pc[r] = "idle" /\ stop[r] # "canceled"
  /\ Pending # {}
  /\ batch' = [batch EXCEPT ![r] = FirstOf(Pending)]
  /\ Goto(r, "batch")
  /\ UNCHANGED <<columns, stop, task, tried, copied, past, bounds>>

\* The next task of the batch.
Take(r, t) ==
  /\ pc[r] = "batch"
  /\ t \in batch[r] /\ \A u \in batch[r] : t <= u
  /\ batch' = [batch EXCEPT ![r] = @ \ {t}]

\* Mutant: the try is counted when the task is claimed, too.
ClaimCounts(r, t) ==
  /\ Take(r, t)
  /\ status[t] = "PENDING" /\ stop[r] # "canceled"
  /\ status' = [status EXCEPT ![t] = "PROCESSING"]
  /\ task' = [task EXCEPT ![r] = t]
  /\ tried' = [tried EXCEPT ![r] = retry[t] + 1]
  /\ lost' = lost \ {t}
  /\ Goto(r, "copy")
  /\ UNCHANGED <<retry, stop, copied, failures, bounds>>

\* Conditional on the status; the claimed row is read back.
Claim(r, t) ==
  /\ Take(r, t)
  /\ status[t] = "PENDING" /\ stop[r] # "canceled"
  /\ status' = [status EXCEPT ![t] = "PROCESSING"]
  /\ task' = [task EXCEPT ![r] = t]
  /\ tried' = [tried EXCEPT ![r] = retry[t]]
  /\ lost' = lost \ {t}
  /\ Goto(r, "copy")
  /\ UNCHANGED <<retry, stop, copied, failures, bounds>>

\* Not pending any more, or the context is canceled, or the update fails, with
\* or without an effect: the next task of the batch.
ClaimFails(r, t) ==
  /\ Take(r, t)
  /\ \/ /\ status[t] # "PENDING" \/ stop[r] = "canceled"
        /\ UNCHANGED <<status, lost>> /\ NoFault
     \/ /\ status[t] = "PENDING"
        /\ \/ UNCHANGED <<status, lost>>
           \/ /\ status' = [status EXCEPT ![t] = "PROCESSING"]
              /\ lost' = lost \cup {t}
        /\ Fault
  /\ UNCHANGED <<retry, pc, stop, task, tried, copied, failures, stops>>

EndBatch(r) ==
  /\ pc[r] = "batch" /\ batch[r] = {}
  /\ Goto(r, "idle")
  /\ UNCHANGED <<columns, stop, locals, past, bounds>>

\* crane.Copy succeeds or fails, and may still succeed when it is canceled.
Copy(r) ==
  /\ pc[r] = "copy"
  /\ Goto(r, "save")
  /\ \/ copied' = [copied EXCEPT ![r] = TRUE] /\ UNCHANGED failures
     \/ /\ copied' = [copied EXCEPT ![r] = FALSE]
        /\ failures' = [failures EXCEPT ![task[r]] = IF @ < MaxRetries THEN @ + 1 ELSE @]
  /\ UNCHANGED <<columns, stop, batch, task, tried, lost, bounds>>

\* Mutant: one try more.
OutcomeOnceMore(r) ==
  IF copied[r] THEN "SUCCEEDED"
  ELSE IF tried[r] + 1 <= MaxRetries THEN "PENDING" ELSE "FAILED"

\* Pending again while tries are left.
Outcome(r) ==
  IF copied[r] THEN "SUCCEEDED"
  ELSE IF tried[r] + 1 < MaxRetries THEN "PENDING" ELSE "FAILED"

StoreOutcome(r) ==
  /\ status' = [status EXCEPT ![task[r]] = Outcome(r)]
  /\ retry' = [retry EXCEPT ![task[r]] = IF copied[r] THEN @ ELSE tried[r] + 1]

\* The copy is not in flight any more: a shutdown that waits for it goes on.
Done(r) ==
  /\ stop' = [stop EXCEPT ![r] = IF @ = "waiting" THEN "stopped" ELSE @]
  /\ task' = [task EXCEPT ![r] = NoTask]
  /\ tried' = [tried EXCEPT ![r] = 0]
  /\ copied' = [copied EXCEPT ![r] = FALSE]
  /\ Goto(r, "batch")

\* Mutant: the outcome is stored with the context of the worker.
SaveInContext(r) ==
  /\ pc[r] = "save"
  /\ \/ stop[r] # "canceled" /\ StoreOutcome(r)
     \/ stop[r] = "canceled" /\ UNCHANGED columns
  /\ Done(r)
  /\ UNCHANGED <<batch, past, bounds>>

\* An update by id, whatever the status has become; its error is ignored (an
\* error message that is too long for its column is one).
Save(r) ==
  /\ pc[r] = "save"
  /\ \/ StoreOutcome(r) /\ NoFault /\ lost' = lost \ {task[r]}
     \/ /\ UNCHANGED columns /\ Fault
        /\ lost' = lost \cup ({task[r]} \cap Processing)
  /\ Done(r)
  /\ UNCHANGED <<batch, failures, stops>>

Work(r) == \/ Reclaim(r) \/ Poll(r) \/ EndBatch(r) \/ Copy(r) \/ Save(r)
           \/ \E t \in Tasks : Claim(r, t) \/ ClaimFails(r, t)

-----------------------------------------------------------------------------
(* Shutdown. *)

InFlight(r) == pc[r] \in {"copy", "save"}

\* A signal: Stop waits for the copy in flight.
Terminate(r) ==
  /\ pc[r] # "down" /\ stop[r] = "no"
  /\ stops < MaxStops /\ stops' = stops + 1
  /\ stop' = [stop EXCEPT ![r] = IF InFlight(r) THEN "waiting" ELSE "stopped"]
  /\ UNCHANGED <<columns, pc, locals, past, faults>>

\* Stop has returned; the worker has not been told yet.
Cancel(r) ==
  /\ stop[r] = "stopped"
  /\ stop' = [stop EXCEPT ![r] = "canceled"]
  /\ UNCHANGED <<columns, pc, locals, past, bounds>>

Exit(r) ==
  /\ stop[r] = "canceled" /\ pc[r] = "idle"
  /\ Goto(r, "down")
  /\ stop' = [stop EXCEPT ![r] = "no"]
  /\ UNCHANGED <<columns, locals, past, bounds>>

Crash(r) ==
  /\ pc[r] # "down"
  /\ stops < MaxStops /\ stops' = stops + 1
  /\ Goto(r, "down")
  /\ stop' = [stop EXCEPT ![r] = "no"]
  /\ batch' = [batch EXCEPT ![r] = {}]
  /\ task' = [task EXCEPT ![r] = NoTask]
  /\ tried' = [tried EXCEPT ![r] = 0]
  /\ copied' = [copied EXCEPT ![r] = FALSE]
  /\ UNCHANGED <<columns, past, faults>>

Shutdown(r) == Cancel(r) \/ Exit(r)

-----------------------------------------------------------------------------
Next ==
  \/ \E t \in Tasks : SyncImage(t)
  \/ \E r \in Replicas : \/ StartUp(r) \/ Work(r) \/ Shutdown(r)
                         \/ Terminate(r) \/ Crash(r)

Spec == Init /\ [][Next]_vars

\* Workers and shutdowns go on, and a process that is down is started again.
FairSpec ==
  /\ Spec
  /\ \A r \in Replicas : WF_vars(StartUp(r)) /\ WF_vars(Work(r)) /\ WF_vars(Shutdown(r))

-----------------------------------------------------------------------------
(* Properties *)

TypeOK ==
  /\ status \in [Tasks -> Statuses]
  /\ retry \in [Tasks -> 0..MaxRetries]
  /\ pc \in [Replicas -> Stages]
  /\ stop \in [Replicas -> Stops]
  /\ batch \in [Replicas -> SUBSET Tasks]
  /\ task \in [Replicas -> Tasks \cup {NoTask}]
  /\ \A r \in Replicas : InFlight(r) <=> task[r] # NoTask
  /\ tried \in [Replicas -> 0..MaxRetries-1]
  /\ copied \in [Replicas -> BOOLEAN]
  /\ failures \in [Tasks -> 0..MaxRetries] /\ lost \subseteq Tasks
  /\ faults \in 0..MaxFaults /\ stops \in 0..MaxStops

\* A task is given up only after MaxRetries copies of it have failed, although
\* two replicas may copy it at a time and overwrite each other's count.
TriesBeforeFailed ==
  \A t \in Tasks : status[t] = "FAILED" => failures[t] = MaxRetries

\* A replica that is down or has not reclaimed yet, or that is to end at once.
Restarting(r) == pc[r] \in {"down", "reclaim"} \/ (pc[r] = "idle" /\ stop[r] = "canceled")

\* A task in processing is some worker's: a graceful stop leaves none behind,
\* whatever the worker was doing.  Only a crash does, and a failed update of that
\* very task, its claim, its outcome or its reclaim, and both only until the next
\* start of any replica.
NoOrphans ==
  \A t \in Tasks : status[t] = "PROCESSING" =>
    \/ \E r \in Replicas : task[r] = t \/ Restarting(r)
    \/ t \in lost

\* Every task ends: polling in batches, restarts, overlapping replicas, crashes and
\* failed calls lose none but those whose own update failed, and a start brings
\* these back.
TasksEnd ==
  \A t \in Tasks : status[t] = "PENDING" ~> status[t] \in Final \/ t \in lost

\* artifact_worker.go, pollOnce: "only a task still in PENDING state is taken,
\* which guards against concurrent workers picking it up twice".
OneCopy ==
  \A r1, r2 \in Replicas : task[r1] = task[r2] /\ task[r1] # NoTask => r1 = r2

\* What clients see of a task: as long as one replica runs at a time, every task
\* goes through the life that SyncTask describes, whatever stops, crashes and
\* failed calls of the database there are.  With two replicas it does not: one
\* takes back a task that the other is copying, and a task that has succeeded
\* is pending again.
Life == INSTANCE SyncTask
LifeCycle == Life!Spec

=============================================================================
