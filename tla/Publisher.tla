----------------------------- MODULE Publisher -----------------------------
(***************************************************************************)
(* The publisher: services that write publish requests to a Kafka topic and  *)
(* record them as "queued" in Redis, and workers, one consumer group each,   *)
(* that read the topic, publish what is theirs and store the outcome.  The   *)
(* tiup and file server workers store a status only over a status (SetXX);   *)
(* the image worker stores it unconditionally and keeps a result beside it.  *)
(* A worker with a dead letter queue is wrapped in a RetryableConsumer,      *)
(* whose retry counts live in the same Redis.                                *)
(***************************************************************************)
EXTENDS Integers, Sequences, FiniteSets

CONSTANTS
  Requests,    \* request ids, one event each
  Groups,      \* consumer groups: one worker and one partition each
  Null,        \* no request
  Kind,        \* Kind[g]: the kind of the worker of g
  Target,      \* Target[r]: the group whose worker serves r (type and mirror)
  Sync,        \* requests whose caller waits for the result
  DLQ,         \* groups with a dead letter queue
  MaxRetries,  \* DLQConfig.MaxRetries
  MaxFaults,   \* bound on failed calls, expired keys, bad messages
  MaxCrashes   \* bound on worker crashes

Kinds == {"tiup", "fs", "image"}

ASSUME PublisherAssumption ==
  /\ Null \notin Requests
  /\ Kind \in [Groups -> Kinds]
  /\ Target \in [Requests -> Groups]
  /\ Sync \subseteq {r \in Requests : Kind[Target[r]] = "image"}
  /\ DLQ \subseteq Groups /\ IsFiniteSet(DLQ)
  /\ MaxRetries \in Nat \ {0}
  /\ MaxFaults \in Nat /\ MaxCrashes \in Nat

VARIABLES
  topic,      \* the Kafka topic, a log of requests
  read,       \* read[g]: messages the reader of g has taken
  committed,  \* committed[g]: messages whose offset g has committed
  status,     \* status[r]: Redis, key r
  result,     \* the requests with a key "<r>-result" in Redis
  retries,    \* retries[r]: Redis, key dlq:retry:<r>
  dead,       \* requests written to the dead letter topic
  caller,     \* caller[r]: the service's handler of r
  pc,         \* pc[g]: where the worker of g is
  cur,        \* cur[g]: the request it handles
  res,        \* res[g]: the result of its Handle
  counting,   \* the groups that count the result as an attempt
  published,  \* history: requests published at least once
  failed,     \* history: requests that failed to be published or dead-lettered
  delivered,  \* history: deliveries of r to its own worker (saturates at 2)
  faults, crashes

stores == <<status, result, retries, dead>>
worker == <<read, pc, cur, res, counting>>
history == <<published, failed, delivered>>
vars == <<topic, committed, caller, stores, worker, history, faults, crashes>>

Final    == {"success", "failed", "canceled"}
Statuses == {"none", "queued", "processing"} \cup Final
Results  == {"none", "ack", "skip", "nack", "error"}
Callers  == {"new", "written", "waiting", "accepted", "refused", "answered",
             "expired", "resultless"}
Stages   == {"idle", "count", "dead", "drop", "mark", "handle", "run", "store",
             "finish", "settle"}

\* The workers that the worker binary starts.
Started == {"tiup", "image"}

Init ==
  /\ topic = << >>
  /\ read = [g \in Groups |-> 0]
  /\ committed = [g \in Groups |-> 0]
  /\ status = [r \in Requests |-> "none"]
  /\ result = {}
  /\ retries = [r \in Requests |-> 0]
  /\ dead = {}
  /\ caller = [r \in Requests |-> "new"]
  /\ pc = [g \in Groups |-> "idle"]
  /\ cur = [g \in Groups |-> Null]
  /\ res = [g \in Groups |-> "none"]
  /\ counting = {}
  /\ published = {}
  /\ failed = {}
  /\ delivered = [r \in Requests |-> 0]
  /\ faults = 0
  /\ crashes = 0

\* A call to Kafka or Redis that fails.
Fault == faults < MaxFaults /\ faults' = faults + 1
NoFault == UNCHANGED faults

-----------------------------------------------------------------------------
(* The services: enqueueTiupPublishRequests, RequestToPublish of the file    *)
(* server, enqueueRequest of the image service.                              *)

Call(r, from, to) == caller[r] = from /\ caller' = [caller EXCEPT ![r] = to]

\* The write may be repeated inside the Kafka writer, and an error does not
\* tell whether the message is in the topic.
WriteMessage(r) ==
  /\ \/ /\ Call(r, "new", "written")
        /\ \/ topic' = Append(topic, r) /\ NoFault
           \/ topic' = topic \o <<r, r>> /\ Fault
     \/ /\ Call(r, "new", "refused")
        /\ topic' \in {topic, Append(topic, r)} /\ Fault
  /\ UNCHANGED <<committed, stores, worker, history, crashes>>

\* Mutant: a plain Set.
QueuedStatusSet(r) == [status EXCEPT ![r] = "queued"]

QueuedStatus(r) == [status EXCEPT ![r] = IF @ = "none" THEN "queued" ELSE @]

\* Mutant: the status is recorded whether the message was written or not.
RecordQueuedFirst(r) ==
  /\ Call(r, "new", "accepted") \/ Call(r, "written", "accepted")
  /\ status' = QueuedStatus(r) /\ NoFault
  /\ UNCHANGED <<topic, committed, result, retries, dead, worker, history, crashes>>

\* SetNX: a status that is there already stays.
RecordQueued(r) ==
  /\ \/ /\ Call(r, "written", IF r \in Sync THEN "waiting" ELSE "accepted")
        /\ status' = QueuedStatus(r) /\ NoFault
     \/ /\ Call(r, "written", "refused")
        /\ UNCHANGED status /\ Fault
  /\ UNCHANGED <<topic, committed, result, retries, dead, worker, history, crashes>>

\* RequestMultiarchCollect: a tick of the wait for the result.  The wait ends
\* early when the status is not there; an unfinished status is polled again.
Poll(r) ==
  /\ \/ status[r] = "none" /\ Call(r, "waiting", "expired")
     \/ status[r] \in Final \ {"success"} /\ Call(r, "waiting", "answered")
     \/ /\ status[r] = "success"
        /\ Call(r, "waiting", IF r \in result THEN "answered" ELSE "resultless")
  /\ UNCHANGED <<topic, committed, stores, worker, history, faults, crashes>>

\* The time to live of a status, a result or a retry count is over.
Expire(r) ==
  /\ Fault
  /\ \/ /\ status[r] # "none"
        /\ status' = [status EXCEPT ![r] = "none"] /\ UNCHANGED <<result, retries>>
     \/ r \in result /\ result' = result \ {r} /\ UNCHANGED <<status, retries>>
     \/ /\ retries[r] # 0
        /\ retries' = [retries EXCEPT ![r] = 0] /\ UNCHANGED <<status, result>>
  /\ UNCHANGED <<topic, committed, caller, dead, worker, history, crashes>>

-----------------------------------------------------------------------------
(* The consumer loop.  ReadMessage hands out a message; its offset is        *)
(* committed in the background, whatever becomes of the message.             *)

Goto(g, p) == pc' = [pc EXCEPT ![g] = p]

Read(g) ==
  /\ pc[g] = "idle" /\ Kind[g] \in Started
  /\ read[g] < Len(topic)
  /\ LET r == topic[read[g] + 1] IN
       /\ cur' = [cur EXCEPT ![g] = r]
       /\ delivered' = [delivered EXCEPT ![r] =
                          IF Target[r] = g /\ @ < 2 THEN @ + 1 ELSE @]
  /\ read' = [read EXCEPT ![g] = @ + 1]
  /\ Goto(g, IF g \in DLQ THEN "count" ELSE "handle")
  /\ UNCHANGED <<topic, committed, caller, stores, res, counting, published,
                 failed, faults, crashes>>

\* Offsets are committed in the background.  A bound: only a crash that is still
\* to come reads them.
Commit(g) ==
  /\ committed[g] < read[g] /\ crashes < MaxCrashes
  /\ committed' = [committed EXCEPT ![g] = read[g]]
  /\ UNCHANGED <<topic, caller, stores, worker, history, faults, crashes>>

\* Whatever was read and not committed is read again.
Crash(g) ==
  /\ crashes < MaxCrashes /\ crashes' = crashes + 1
  /\ Kind[g] \in Started
  /\ read' = [read EXCEPT ![g] = committed[g]]
  /\ Goto(g, "idle")
  /\ cur' = [cur EXCEPT ![g] = Null]
  /\ res' = [res EXCEPT ![g] = "none"]
  /\ counting' = counting \ {g}
  /\ UNCHANGED <<topic, committed, caller, stores, history, faults>>

\* The end of one turn of the loop.  A NACK is only logged.
Finished(g) ==
  /\ Goto(g, "idle")
  /\ cur' = [cur EXCEPT ![g] = Null]
  /\ res' = [res EXCEPT ![g] = "none"]
  /\ counting' = counting \ {g}
  /\ UNCHANGED <<topic, read, committed, caller, history, crashes>>

-----------------------------------------------------------------------------
(* RetryableConsumer.Handle, before the worker is called.                    *)

\* Mutant: one attempt too many.
RetryableOnceMore(r) == retries[r] <= MaxRetries

Retryable(r) == retries[r] < MaxRetries

\* Without a count, the worker is called directly and nothing is counted.
GetRetryCount(g) ==
  /\ pc[g] = "count"
  /\ \/ /\ Retryable(cur[g])
        /\ Goto(g, "handle") /\ counting' = counting \cup {g} /\ NoFault
     \/ /\ ~Retryable(cur[g])
        /\ Goto(g, "dead") /\ NoFault /\ UNCHANGED counting
     \/ Goto(g, "handle") /\ Fault /\ UNCHANGED counting
  /\ UNCHANGED <<topic, read, committed, caller, stores, cur, res, history, crashes>>

SendToDLQ(g) ==
  /\ pc[g] = "dead"
  /\ \/ /\ dead' = dead \cup {cur[g]}
        /\ Goto(g, "drop") /\ NoFault /\ UNCHANGED failed
     \/ /\ failed' = failed \cup {cur[g]}
        /\ Goto(g, "mark") /\ Fault /\ UNCHANGED dead
  /\ UNCHANGED <<topic, read, committed, caller, status, result, retries, cur,
                 res, counting, published, delivered, crashes>>

\* Redis commands whose errors are ignored.
DeleteRetryKey(r) ==
  \/ retries' = [retries EXCEPT ![r] = 0] /\ NoFault
  \/ UNCHANGED retries /\ Fault

IncrementRetryCount(r) ==
  \/ retries' = [retries EXCEPT ![r] = @ + 1] /\ NoFault
  \/ UNCHANGED retries /\ Fault

StatusXX(r, s) == [status EXCEPT ![r] = IF @ = "none" THEN @ ELSE s]

StoreXX(r, s) ==
  \/ status' = StatusXX(r, s) /\ NoFault
  \/ UNCHANGED status /\ Fault

Store(r, s) ==
  \/ status' = [status EXCEPT ![r] = s] /\ NoFault
  \/ UNCHANGED status /\ Fault

DropRetries(g) ==
  /\ pc[g] = "drop"
  /\ DeleteRetryKey(cur[g])
  /\ Goto(g, "mark")
  /\ UNCHANGED <<topic, read, committed, caller, status, result, dead, cur, res,
                 counting, history, crashes>>

MarkFailed(g) ==
  /\ pc[g] = "mark"
  /\ StoreXX(cur[g], "failed")
  /\ Finished(g)
  /\ UNCHANGED <<topic, result, retries, dead>>

Route(g) == GetRetryCount(g) \/ SendToDLQ(g) \/ DropRetries(g) \/ MarkFailed(g)

-----------------------------------------------------------------------------
(* Handle of the three workers. *)

\* Mutant: the loop keeps the message of a worker that has returned.
ReturnResultHolding(g, r) ==
  /\ res' = [res EXCEPT ![g] = IF g \in counting THEN r ELSE "none"]
  /\ Goto(g, IF g \in counting THEN "settle" ELSE "idle")
  /\ UNCHANGED cur

\* The worker returns r: to the loop, or to the RetryableConsumer around it.
ReturnResult(g, r) ==
  /\ res' = [res EXCEPT ![g] = IF g \in counting THEN r ELSE "none"]
  /\ cur' = [cur EXCEPT ![g] = IF g \in counting THEN @ ELSE Null]
  /\ Goto(g, IF g \in counting THEN "settle" ELSE "idle")

\* The event is not of a type, or not for the mirror, of this worker.
Skip(g) ==
  /\ pc[g] = "handle" /\ Target[cur[g]] # g
  /\ ReturnResult(g, "skip")
  /\ UNCHANGED <<topic, read, committed, caller, stores, counting, history,
                 faults, crashes>>

\* The event's data cannot be decoded: a NACK, and the status stays.
InvalidData(g) ==
  /\ failed' = failed \cup {cur[g]}
  /\ ReturnResult(g, "nack")
  /\ Fault

\* Mutant: a status that cannot be stored ends the attempt.
StartXXStrict(g) ==
  /\ pc[g] = "handle" /\ Target[cur[g]] = g /\ Kind[g] \in {"tiup", "fs"}
  /\ \/ /\ status' = StatusXX(cur[g], "processing") /\ NoFault
        /\ Goto(g, "run") /\ UNCHANGED <<cur, res, failed>>
     \/ ReturnResult(g, "error") /\ Fault /\ UNCHANGED <<status, failed>>
  /\ UNCHANGED <<topic, read, committed, caller, result, retries, dead, counting,
                 published, delivered, crashes>>

\* The status comes before the decoding of the event's data.
StartXX(g) ==
  /\ pc[g] = "handle" /\ Target[cur[g]] = g /\ Kind[g] \in {"tiup", "fs"}
  /\ \/ StoreXX(cur[g], "processing") /\ Goto(g, "run") /\ UNCHANGED <<cur, res, failed>>
     \/ status' = StatusXX(cur[g], "processing") /\ InvalidData(g)
  /\ UNCHANGED <<topic, read, committed, caller, result, retries, dead, counting,
                 published, delivered, crashes>>

\* processRequest: the data is decoded before the status is stored, and a
\* status that cannot be stored ends the attempt.
StartImage(g) ==
  /\ pc[g] = "handle" /\ Target[cur[g]] = g /\ Kind[g] = "image"
  /\ \/ /\ status' = [status EXCEPT ![cur[g]] = "processing"] /\ NoFault
        /\ Goto(g, "run") /\ UNCHANGED <<cur, res, failed>>
     \/ InvalidData(g) /\ UNCHANGED status
     \/ ReturnResult(g, "error") /\ Fault /\ UNCHANGED <<status, failed>>
  /\ UNCHANGED <<topic, read, committed, caller, result, retries, dead, counting,
                 published, delivered, crashes>>

\* Publishing succeeds (ack), fails (nack), or ends in an error that is no
\* CloudEvents result: a rate limited nightly, a failed upload.
Outcomes(g) == IF Kind[g] = "image" THEN {"ack", "nack"} ELSE {"ack", "nack", "error"}

\* Mutant: the outcome is stored and the result is not.
RunForgetful(g) ==
  /\ pc[g] = "run"
  /\ \E o \in Outcomes(g) :
       /\ res' = [res EXCEPT ![g] = o]
       /\ published' = IF o = "ack" THEN published \cup {cur[g]} ELSE published
       /\ failed' = IF o # "ack" THEN failed \cup {cur[g]} ELSE failed
       /\ Goto(g, "finish")
  /\ UNCHANGED <<topic, read, committed, caller, stores, cur, counting, delivered,
                 faults, crashes>>

Run(g) ==
  /\ pc[g] = "run"
  /\ \E o \in Outcomes(g) :
       /\ res' = [res EXCEPT ![g] = o]
       /\ published' = IF o = "ack" THEN published \cup {cur[g]} ELSE published
       /\ failed' = IF o # "ack" THEN failed \cup {cur[g]} ELSE failed
       /\ Goto(g, IF Kind[g] = "image" /\ o = "ack" THEN "store" ELSE "finish")
  /\ UNCHANGED <<topic, read, committed, caller, stores, cur, counting, delivered,
                 faults, crashes>>

StoreResult(g) ==
  /\ pc[g] = "store"
  /\ \/ result' = result \cup {cur[g]} /\ NoFault
     \/ UNCHANGED result /\ Fault
  /\ Goto(g, "finish")
  /\ UNCHANGED <<topic, read, committed, caller, status, retries, dead, cur, res,
                 counting, history, crashes>>

\* Mutant: what did not fail has succeeded.
FinalStatusOptimistic(o) == IF o = "nack" THEN "failed" ELSE "success"

FinalStatus(o) ==
  IF o = "ack" THEN "success" ELSE IF o = "nack" THEN "failed" ELSE "canceled"

\* The image worker acknowledges a failed request too.
StoreOutcome(g) ==
  /\ pc[g] = "finish"
  /\ IF Kind[g] = "image"
       THEN Store(cur[g], FinalStatus(res[g])) /\ ReturnResult(g, "ack")
       ELSE StoreXX(cur[g], FinalStatus(res[g])) /\ ReturnResult(g, res[g])
  /\ UNCHANGED <<topic, read, committed, caller, result, retries, dead, counting,
                 history, crashes>>

Work(g) == Skip(g) \/ StartXX(g) \/ StartImage(g) \/ Run(g) \/ StoreResult(g)
           \/ StoreOutcome(g)

-----------------------------------------------------------------------------
(* RetryableConsumer.Handle, after the worker has returned.                  *)

\* Every Receipt that is no ACK carries an error, ResultNACK included.
HasError(o)        == o # "ack"
IsReceipt(o)       == o \in {"ack", "skip", "nack"}
IsSkippedResult(o) == IsReceipt(o) /\ ~HasError(o)

Settle(g) ==
  /\ pc[g] = "settle"
  /\ IF res[g] = "ack" THEN DeleteRetryKey(cur[g])
     ELSE IF IsSkippedResult(res[g]) THEN UNCHANGED <<retries, faults>>
     ELSE IncrementRetryCount(cur[g])
  /\ Finished(g)
  /\ UNCHANGED <<topic, status, result, dead>>

-----------------------------------------------------------------------------
Service(r) == WriteMessage(r) \/ RecordQueued(r) \/ Poll(r)
Worker(g)  == Read(g) \/ Route(g) \/ Work(g) \/ Settle(g)

Next ==
  \/ \E r \in Requests : Service(r) \/ Expire(r)
  \/ \E g \in Groups : Worker(g) \/ Commit(g) \/ Crash(g)

Spec == Init /\ [][Next]_vars

\* Handlers and workers go on, and a poll is made every second: a status that
\* stays finished is seen.
FairSpec ==
  /\ Spec
  /\ \A r \in Requests : WF_vars(RecordQueued(r)) /\ WF_vars(Poll(r))
  /\ \A g \in Groups : WF_vars(Worker(g))

-----------------------------------------------------------------------------
(* Properties *)

TypeOK ==
  /\ topic \in Seq(Requests)
  /\ read \in [Groups -> Nat]
  /\ committed \in [Groups -> Nat]
  /\ \A g \in Groups : committed[g] <= read[g] /\ read[g] <= Len(topic)
  /\ status \in [Requests -> Statuses]
  /\ result \subseteq Requests
  /\ retries \in [Requests -> Nat]
  /\ dead \subseteq Requests
  /\ caller \in [Requests -> Callers]
  /\ pc \in [Groups -> Stages]
  /\ cur \in [Groups -> Requests \cup {Null}]
  /\ \A g \in Groups : pc[g] = "idle" <=> cur[g] = Null
  /\ res \in [Groups -> Results]
  /\ counting \subseteq DLQ
  /\ published \subseteq Requests
  /\ failed \subseteq Requests
  /\ delivered \in [Requests -> 0..2]
  /\ faults \in 0..MaxFaults /\ crashes \in 0..MaxCrashes

Written(r) == \E i \in 1..Len(topic) : topic[i] = r

\* A caller is never told the status of a request that no worker will see: a
\* status is recorded only for a request that is in the topic.
StatusIsWritten == \A r \in Requests : status[r] # "none" => Written(r)

\* "success" is never reported for a request that was not published, whatever
\* was redelivered, lost or dead-lettered.
SuccessIsPublished ==
  \A r \in Requests : status[r] = "success" => r \in published

\* Workers test the retry count and increment it in separate steps, so the
\* count passes the limit, but by less than the number of workers that share it.
RetriesBounded ==
  \A r \in Requests : retries[r] < MaxRetries + Cardinality(DLQ)

\* A worker has given r up: it went to the dead letters, or that failed.
GivenUp(r) == DLQ # {} /\ r \in dead \cup failed

\* A status goes forward while its request has been delivered to its worker once:
\* late writes of the service and of the worker never undo a later one.  A worker
\* of another mirror may give the request up, and say "failed", while its own goes
\* on; but not even then is a request "queued" again.
Rank(s) == CASE s = "none" -> 0 [] s = "queued" -> 1 [] s = "processing" -> 2
             [] OTHER -> 3

Forward(r) ==
  status'[r] # status[r] =>
    \/ Rank(status'[r]) > Rank(status[r])
    \/ status'[r] = "none"
    \/ status'[r] # "queued" /\ (delivered[r] > 1 \/ GivenUp(r))

ForwardOnly == [][\A r \in Requests : Forward(r)]_vars

\* The result of a multi-arch collection is in Redis before the status says
\* success: a caller misses it only when a call to Redis failed or a key expired.
ResultBeforeSuccess ==
  \A r \in Requests : caller[r] = "resultless" => faults > 0

\* RequestMultiarchCollect returns the result it waits for: whatever the order in
\* which the service and the worker store their statuses, the poll ends, unless
\* a call failed, a key expired, or the request was dead-lettered before "queued"
\* was recorded, which loses the "failed" that the poll waits for.
CallerIsAnswered ==
  \A r \in Sync :
    caller[r] = "waiting" ~>
      \/ caller[r] = "answered" \/ faults > 0
      \/ r \in dead /\ status[r] = "queued"

\* Without a crash, a tiup request in the topic is published, or failed, or
\* dead-lettered, even if calls to Redis fail on the way.
WrittenIsHandled ==
  \A r \in Requests : Kind[Target[r]] = "tiup" =>
    (Written(r) ~> r \in published \cup failed \cup dead)

\* Where a request of the topic still is: before its worker, or in its hands.
Ahead(r)  == \E i \in 1..Len(topic) : i > read[Target[r]] /\ topic[i] = r
InHand(r) == cur[Target[r]] = r

\* No request of the topic is passed over before its worker has seen it once,
\* whatever crashed, was written twice or was read again.
NothingIsSkipped ==
  \A r \in Requests : Written(r) => Ahead(r) \/ delivered[r] > 0

\* A request that its worker has seen does not vanish: a worker that crashes may
\* lose it, as its offset is committed behind its back, and so may an image worker
\* that cannot store a status.  With NothingIsSkipped, the safety core of
\* WrittenIsHandled.
Lossy(r) == crashes > 0 \/ (Kind[Target[r]] = "image" /\ faults > 0)

DeliveredIsHandled ==
  \A r \in Requests :
    delivered[r] > 0 => InHand(r) \/ r \in published \cup failed \cup dead \/ Lossy(r)

\* A caller that waits has a status to poll, and what its poll waits for is still
\* to come or there: the safety core of CallerIsAnswered.
CanAnswer(r) == status[r] \in Final /\ (status[r] = "success" => r \in result)

NobodyWaitsInVain ==
  \A r \in Requests :
    faults = 0 =>
      /\ caller[r] = "waiting" => status[r] # "none"
      /\ caller[r] = "waiting" =>
           Ahead(r) \/ InHand(r) \/ CanAnswer(r) \/ r \in dead \/ crashes > 0
      /\ caller[r] # "expired"

\* retry_consumer.go, isSkippedResult: "checks if a NACK result indicates the
\* event was intentionally skipped ... This prevents retrying events that workers
\* don't handle": a skip is not counted as a failed attempt.
SkipsAreNotCounted ==
  [][\A g \in Groups : pc[g] = "settle" /\ res[g] = "skip" => retries' = retries]_vars
=============================================================================
