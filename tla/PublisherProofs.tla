-------------------------- MODULE PublisherProofs --------------------------
(***************************************************************************)
(* Proofs about Publisher for any requests, groups and kinds of workers, any *)
(* number of retries, faults and crashes.                                    *)
(***************************************************************************)
EXTENDS Publisher, SequenceTheorems, FiniteSetTheorems, TLAPS

\* What the stage of a worker says: it holds a message of the topic, its own from
\* the start of the publication on, and a publication that it reports was made.
StagesTrue ==
  \A g \in Groups :
    /\ cur[g] # Null => Written(cur[g])
    /\ pc[g] \in {"count", "dead", "drop", "mark"} => g \in DLQ
    /\ pc[g] = "settle" => g \in counting
    /\ pc[g] = "idle" => g \notin counting
    /\ pc[g] \in {"run", "store", "finish"} => Target[cur[g]] = g
    /\ pc[g] \in {"store", "finish"} /\ res[g] = "ack" => cur[g] \in published

\* What a status and the service's handler say of a request.
CallersTrue ==
  \A r \in Requests :
    /\ status[r] # "none" => Written(r)
    /\ caller[r] = "written" => Written(r)
    /\ caller[r] = "waiting" => r \in Sync
    /\ caller[r] = "resultless" => faults > 0

\* Until a call fails or a key expires, the result of a collection is stored before
\* its success.
ResultsKept ==
  faults = 0 =>
    /\ \A r \in Requests : Kind[Target[r]] = "image" /\ status[r] = "success" => r \in result
    /\ \A g \in Groups :
         pc[g] = "finish" /\ res[g] = "ack" /\ Kind[g] = "image" => cur[g] \in result

\* The attempts under way, each of which may still be counted.
Attempts(r) == {g \in counting : cur[g] = r}
AttemptsBounded ==
  \A r \in Requests :
    retries[r] + Cardinality(Attempts(r)) <= MaxRetries - 1 + Cardinality(DLQ)

IInv == /\ TypeOK /\ StagesTrue /\ CallersTrue /\ SuccessIsPublished
        /\ ResultsKept /\ AttemptsBounded

-----------------------------------------------------------------------------
(* TypeOK in parts. *)

LogOK ==
  /\ topic \in Seq(Requests)
  /\ read \in [Groups -> Nat]
  /\ committed \in [Groups -> Nat]
  /\ \A g \in Groups : committed[g] <= read[g] /\ read[g] <= Len(topic)
RedisOK ==
  /\ status \in [Requests -> Statuses]
  /\ result \subseteq Requests
  /\ retries \in [Requests -> Nat]
  /\ dead \subseteq Requests
WorkersOK ==
  /\ pc \in [Groups -> Stages]
  /\ cur \in [Groups -> Requests \cup {Null}]
  /\ \A g \in Groups : pc[g] = "idle" <=> cur[g] = Null
  /\ res \in [Groups -> Results]
  /\ counting \subseteq DLQ
HistoryOK ==
  /\ published \subseteq Requests
  /\ failed \subseteq Requests
  /\ delivered \in [Requests -> 0..2]
CallsOK == caller \in [Requests -> Callers]
BoundsOK == faults \in 0..MaxFaults /\ crashes \in 0..MaxCrashes

LEMMA TypeParts ==
  TypeOK <=> LogOK /\ RedisOK /\ WorkersOK /\ HistoryOK /\ CallsOK /\ BoundsOK
BY DEF TypeOK, LogOK, RedisOK, WorkersOK, HistoryOK, CallsOK, BoundsOK

LEMMA TypePartsNext ==
  TypeOK' <=> LogOK' /\ RedisOK' /\ WorkersOK' /\ HistoryOK' /\ CallsOK' /\ BoundsOK'
BY DEF TypeOK, LogOK, RedisOK, WorkersOK, HistoryOK, CallsOK, BoundsOK

-----------------------------------------------------------------------------
(* Facts about the topic and about attempts. *)

\* The topic only grows.
LEMMA AppendKeeps ==
  ASSUME NEW s \in Seq(Requests), NEW r \in Requests
  PROVE  LET z == Append(s, r) IN
         /\ z \in Seq(Requests) /\ Len(z) = Len(s) + 1 /\ z[Len(s) + 1] = r
         /\ \A i \in 1..Len(s) : z[i] = s[i]
BY AppendProperties

LEMMA AppendTwiceKeeps ==
  ASSUME NEW s \in Seq(Requests), NEW r \in Requests
  PROVE  LET z == s \o <<r, r>> IN
         /\ z \in Seq(Requests) /\ Len(z) = Len(s) + 2 /\ z[Len(s) + 1] = r
         /\ \A i \in 1..Len(s) : z[i] = s[i]
<1>1. <<r, r>> \in Seq(Requests) /\ Len(<<r, r>>) = 2 /\ <<r, r>>[1] = r
  OBVIOUS
<1>2. /\ s \o <<r, r>> \in Seq(Requests)
      /\ Len(s \o <<r, r>>) = Len(s) + 2
      /\ \A i \in 1..Len(s) + 2 :
           (s \o <<r, r>>)[i] = IF i <= Len(s) THEN s[i] ELSE <<r, r>>[i - Len(s)]
  BY <1>1, ConcatProperties
<1>3. Len(s) \in Nat OBVIOUS
<1>4. (s \o <<r, r>>)[Len(s) + 1] = r
  <2>1. ~(Len(s) + 1 <= Len(s)) /\ Len(s) + 1 - Len(s) = 1 BY <1>3
  <2>2. QED BY <1>1, <1>2, <1>3, <2>1
<1>5. QED BY <1>2, <1>3, <1>4

\* A worker that is not idle holds a request.
LEMMA Held ==
  ASSUME WorkersOK, NEW g \in Groups, pc[g] # "idle"
  PROVE  cur[g] \in Requests
BY DEF WorkersOK

LEMMA AttemptsFinite ==
  ASSUME TypeOK, NEW r \in Requests
  PROVE  /\ IsFiniteSet(Attempts(r)) /\ Cardinality(Attempts(r)) \in Nat
         /\ Cardinality(DLQ) \in Nat /\ Cardinality(Attempts(r)) <= Cardinality(DLQ)
<1>1. IsFiniteSet(DLQ) BY PublisherAssumption DEF PublisherAssumption
<1>2. Attempts(r) \subseteq DLQ BY DEF Attempts, TypeOK
<1>3. QED BY <1>1, <1>2, FS_Subset, FS_CardinalityType

\* The count and the attempts that only shrink stay bounded.
LEMMA AttemptsKept ==
  ASSUME TypeOK, AttemptsBounded, TypeOK',
         \A r \in Requests : retries'[r] <= retries[r],
         \A r \in Requests : Attempts(r)' \subseteq Attempts(r)
  PROVE  AttemptsBounded'
<1> SUFFICES ASSUME NEW r \in Requests
             PROVE  retries'[r] + Cardinality(Attempts(r)') <= MaxRetries - 1 + Cardinality(DLQ)
  BY DEF AttemptsBounded
<1>1. Cardinality(Attempts(r)') <= Cardinality(Attempts(r))
  BY AttemptsFinite, FS_Subset
<1>2. Cardinality(Attempts(r)') \in Nat
  BY AttemptsFinite, <1>1, FS_Subset, FS_CardinalityType
<1>3. Cardinality(Attempts(r)) \in Nat /\ Cardinality(DLQ) \in Nat BY AttemptsFinite
<1>4. retries[r] \in Nat /\ retries'[r] \in Nat BY DEF TypeOK
<1>5. retries[r] + Cardinality(Attempts(r)) <= MaxRetries - 1 + Cardinality(DLQ)
  BY DEF AttemptsBounded
<1>6. MaxRetries \in Nat BY PublisherAssumption DEF PublisherAssumption
<1>7. retries'[r] <= retries[r] OBVIOUS
<1>8. QED BY <1>1, <1>2, <1>3, <1>4, <1>5, <1>6, <1>7

\* While the topic does not change, neither does what is in it.
LEMMA WrittenKept ==
  ASSUME UNCHANGED topic, NEW r
  PROVE  Written(r)' <=> Written(r)
BY DEF Written

LEMMA InitIInv == Init => IInv
<1> USE PublisherAssumption DEF PublisherAssumption
<1> SUFFICES ASSUME Init PROVE IInv OBVIOUS
<1>1. TypeOK
  BY DEF Init, TypeOK, Statuses, Final, Callers, Stages, Results
<1>2. StagesTrue /\ CallersTrue /\ SuccessIsPublished /\ ResultsKept
  BY DEF Init, StagesTrue, CallersTrue, SuccessIsPublished, ResultsKept
<1>3. AttemptsBounded
  <2> SUFFICES ASSUME NEW r \in Requests
               PROVE  retries[r] + Cardinality(Attempts(r)) <= MaxRetries - 1 + Cardinality(DLQ)
    BY DEF AttemptsBounded
  <2>1. Attempts(r) = {} /\ retries[r] = 0 BY DEF Init, Attempts
  <2>2. Cardinality(Attempts(r)) = 0 BY <2>1, FS_EmptySet
  <2>3. Cardinality(DLQ) \in Nat BY <1>1, AttemptsFinite
  <2>4. QED BY <2>1, <2>2, <2>3
<1>4. QED BY <1>1, <1>2, <1>3 DEF IInv

-----------------------------------------------------------------------------
(* The services *)

\* A message goes to the end of the topic before its caller knows.
LEMMA WriteMessageIInv ==
  ASSUME IInv, NEW r \in Requests, WriteMessage(r)
  PROVE  IInv'
<1> USE PublisherAssumption DEF PublisherAssumption
<1>1. /\ LogOK /\ RedisOK /\ WorkersOK /\ HistoryOK /\ CallsOK /\ BoundsOK
      /\ TypeOK /\ StagesTrue /\ CallersTrue /\ SuccessIsPublished /\ ResultsKept
      /\ AttemptsBounded
  BY TypeParts DEF IInv
<1>2. UNCHANGED <<read, committed, status, result, retries, dead, pc, cur, res,
                  counting, published, failed, delivered, crashes>>
  BY DEF WriteMessage, Call, Fault, NoFault, stores, worker, history
<1>3. /\ topic' \in Seq(Requests) /\ Len(topic) <= Len(topic')
      /\ \A q \in Requests : Written(q) => Written(q)'
      /\ caller'[r] = "written" => Written(r)'
  <2>1. topic \in Seq(Requests) /\ Len(topic) \in Nat BY <1>1 DEF LogOK
  <2>2. \/ topic' = topic /\ caller'[r] = "refused"
        \/ topic' = Append(topic, r)
        \/ topic' = topic \o <<r, r>>
    BY <1>1 DEF WriteMessage, Call, CallsOK
  <2>3. CASE topic' = topic /\ caller'[r] = "refused" BY <2>1, <2>3 DEF Written
  <2>4. CASE topic' # topic
    <3>1. /\ topic' \in Seq(Requests) /\ Len(topic') >= Len(topic) + 1
          /\ topic'[Len(topic) + 1] = r
          /\ \A i \in 1..Len(topic) : topic'[i] = topic[i]
      <4>1. CASE topic' = Append(topic, r) BY <2>1, <4>1, AppendKeeps
      <4>2. CASE topic' = topic \o <<r, r>> BY <2>1, <4>2, AppendTwiceKeeps
      <4>3. QED BY <2>2, <2>4, <4>1, <4>2
    <3>2. Len(topic') \in Nat BY <3>1
    <3>3. Len(topic) + 1 \in 1..Len(topic') /\ 1..Len(topic) \subseteq 1..Len(topic')
      BY <2>1, <3>1, <3>2
    <3>4. QED BY <2>1, <3>1, <3>2, <3>3 DEF Written
  <2>5. CASE topic' = topic /\ topic' = Append(topic, r) BY <2>1, <2>5, AppendKeeps
  <2>6. CASE topic' = topic /\ topic' = topic \o <<r, r>> BY <2>1, <2>6, AppendTwiceKeeps
  <2>7. QED BY <2>2, <2>3, <2>4, <2>5, <2>6
<1>4. TypeOK'
  <2>1. RedisOK' /\ WorkersOK' /\ HistoryOK'
    BY <1>1, <1>2 DEF RedisOK, WorkersOK, HistoryOK
  <2>2. LogOK'
    <3> SUFFICES ASSUME NEW g \in Groups PROVE read[g] <= Len(topic')
      BY <1>1, <1>2, <1>3 DEF LogOK
    <3>1. read[g] \in Nat /\ read[g] <= Len(topic) /\ Len(topic) \in Nat BY <1>1
      DEF LogOK
    <3>2. Len(topic') \in Nat /\ Len(topic) <= Len(topic') BY <1>3
    <3>3. QED BY <3>1, <3>2
  <2>3. CallsOK'
    BY <1>1, <1>2 DEF CallsOK, Callers, WriteMessage, Call, Fault, NoFault
  <2>4. BoundsOK'
    BY <1>1, <1>2 DEF BoundsOK, WriteMessage, Call, Fault, NoFault
  <2>5. QED BY <2>1, <2>2, <2>3, <2>4, TypePartsNext
<1>5. StagesTrue'
  BY <1>1, <1>2, <1>3 DEF StagesTrue, WorkersOK, WriteMessage, Call, Fault, NoFault
<1>6. CallersTrue'
  BY <1>1, <1>2, <1>3
  DEF CallersTrue, StagesTrue, RedisOK, WorkersOK, CallsOK, BoundsOK, WriteMessage,
      Call, Fault, NoFault
<1>7. SuccessIsPublished'
  BY <1>1, <1>2
  DEF SuccessIsPublished, StagesTrue, RedisOK, WorkersOK, WriteMessage, Call, Fault,
      NoFault
<1>8. ResultsKept'
  BY <1>1, <1>2
  DEF ResultsKept, StagesTrue, RedisOK, WorkersOK, BoundsOK, WriteMessage, Call,
      Fault, NoFault
<1>9. AttemptsBounded'
  <2>1. \A q \in Requests : retries'[q] <= retries[q]
    BY <1>1, <1>2 DEF RedisOK, WorkersOK, WriteMessage, Call, Fault, NoFault
  <2>2. \A q \in Requests : Attempts(q)' \subseteq Attempts(q)
    BY <1>1, <1>2
    DEF Attempts, WorkersOK, StagesTrue, WriteMessage, Call, Fault, NoFault,
        PublisherAssumption
  <2>3. QED BY <1>1, <1>4, <2>1, <2>2, AttemptsKept
<1>10. QED BY <1>4, <1>5, <1>6, <1>7, <1>8, <1>9 DEF IInv

LEMMA RecordQueuedIInv ==
  ASSUME IInv, NEW r \in Requests, RecordQueued(r)
  PROVE  IInv'
<1> USE PublisherAssumption DEF PublisherAssumption
<1>1. /\ LogOK /\ RedisOK /\ WorkersOK /\ HistoryOK /\ CallsOK /\ BoundsOK
      /\ TypeOK /\ StagesTrue /\ CallersTrue /\ SuccessIsPublished /\ ResultsKept
      /\ AttemptsBounded
  BY TypeParts DEF IInv
<1>2. UNCHANGED <<topic, read, committed, result, retries, dead, pc, cur, res,
                  counting, published, failed, delivered, crashes>>
  BY DEF RecordQueued, Call, QueuedStatus, Fault, NoFault, stores, worker, history
<1>3. \A q : Written(q)' <=> Written(q) BY <1>2, WrittenKept
<1>4. TypeOK'
  <2>1. LogOK' /\ WorkersOK' /\ HistoryOK'
    BY <1>1, <1>2 DEF LogOK, WorkersOK, HistoryOK
  <2>2. RedisOK'
    BY <1>1, <1>2
    DEF RedisOK, Statuses, Final, RecordQueued, Call, QueuedStatus, Fault, NoFault
  <2>3. CallsOK'
    BY <1>1, <1>2
    DEF CallsOK, Callers, RecordQueued, Call, QueuedStatus, Fault, NoFault
  <2>4. BoundsOK'
    BY <1>1, <1>2 DEF BoundsOK, RecordQueued, Call, QueuedStatus, Fault, NoFault
  <2>5. QED BY <2>1, <2>2, <2>3, <2>4, TypePartsNext
<1>5. StagesTrue'
  BY <1>1, <1>2, <1>3
  DEF StagesTrue, WorkersOK, RecordQueued, Call, QueuedStatus, Fault, NoFault
<1>6. CallersTrue'
  BY <1>1, <1>2, <1>3
  DEF CallersTrue, StagesTrue, RedisOK, WorkersOK, CallsOK, BoundsOK, RecordQueued,
      Call, QueuedStatus, Fault, NoFault
<1>7. SuccessIsPublished'
  BY <1>1, <1>2
  DEF SuccessIsPublished, StagesTrue, RedisOK, WorkersOK, RecordQueued, Call,
      QueuedStatus, Fault, NoFault
<1>8. ResultsKept'
  BY <1>1, <1>2
  DEF ResultsKept, StagesTrue, RedisOK, WorkersOK, BoundsOK, RecordQueued, Call,
      QueuedStatus, Fault, NoFault
<1>9. AttemptsBounded'
  <2>1. \A q \in Requests : retries'[q] <= retries[q]
    BY <1>1, <1>2
    DEF RedisOK, WorkersOK, RecordQueued, Call, QueuedStatus, Fault, NoFault
  <2>2. \A q \in Requests : Attempts(q)' \subseteq Attempts(q)
    BY <1>1, <1>2
    DEF Attempts, WorkersOK, StagesTrue, RecordQueued, Call, QueuedStatus, Fault,
        NoFault, PublisherAssumption
  <2>3. QED BY <1>1, <1>4, <2>1, <2>2, AttemptsKept
<1>10. QED BY <1>4, <1>5, <1>6, <1>7, <1>8, <1>9 DEF IInv

LEMMA PollIInv ==
  ASSUME IInv, NEW r \in Requests, Poll(r)
  PROVE  IInv'
<1> USE PublisherAssumption DEF PublisherAssumption
<1>1. /\ LogOK /\ RedisOK /\ WorkersOK /\ HistoryOK /\ CallsOK /\ BoundsOK
      /\ TypeOK /\ StagesTrue /\ CallersTrue /\ SuccessIsPublished /\ ResultsKept
      /\ AttemptsBounded
  BY TypeParts DEF IInv
<1>2. UNCHANGED <<topic, read, committed, status, result, retries, dead, pc, cur,
                  res, counting, published, failed, delivered, faults, crashes>>
  BY DEF Poll, Call, stores, worker, history
<1>3. \A q : Written(q)' <=> Written(q) BY <1>2, WrittenKept
<1>4. TypeOK'
  <2>1. LogOK' /\ RedisOK' /\ WorkersOK' /\ HistoryOK' /\ BoundsOK'
    BY <1>1, <1>2 DEF LogOK, RedisOK, WorkersOK, HistoryOK, BoundsOK
  <2>2. CallsOK'
    BY <1>1, <1>2 DEF CallsOK, Callers, Poll, Call
  <2>3. QED BY <2>1, <2>2, TypePartsNext
<1>5. StagesTrue'
  BY <1>1, <1>2, <1>3 DEF StagesTrue, WorkersOK, Poll, Call
<1>6. CallersTrue'
  <2>1. r \in Sync /\ status[r] = "success" /\ r \notin result => faults > 0 BY <1>1
    DEF ResultsKept, BoundsOK
  <2>2. QED BY <1>1, <1>2, <1>3, <2>1 DEF CallersTrue, CallsOK, Final, Poll, Call
<1>7. SuccessIsPublished'
  BY <1>1, <1>2 DEF SuccessIsPublished, StagesTrue, RedisOK, WorkersOK, Poll, Call
<1>8. ResultsKept'
  BY <1>1, <1>2 DEF ResultsKept, StagesTrue, RedisOK, WorkersOK, BoundsOK, Poll, Call
<1>9. AttemptsBounded'
  <2>1. \A q \in Requests : retries'[q] <= retries[q]
    BY <1>1, <1>2 DEF RedisOK, WorkersOK, Poll, Call
  <2>2. \A q \in Requests : Attempts(q)' \subseteq Attempts(q)
    BY <1>1, <1>2 DEF Attempts, WorkersOK, StagesTrue, Poll, Call, PublisherAssumption
  <2>3. QED BY <1>1, <1>4, <2>1, <2>2, AttemptsKept
<1>10. QED BY <1>4, <1>5, <1>6, <1>7, <1>8, <1>9 DEF IInv

\* An expired key is a fault.
LEMMA ExpireIInv ==
  ASSUME IInv, NEW r \in Requests, Expire(r)
  PROVE  IInv'
<1> USE PublisherAssumption DEF PublisherAssumption
<1>1. /\ LogOK /\ RedisOK /\ WorkersOK /\ HistoryOK /\ CallsOK /\ BoundsOK
      /\ TypeOK /\ StagesTrue /\ CallersTrue /\ SuccessIsPublished /\ ResultsKept
      /\ AttemptsBounded
  BY TypeParts DEF IInv
<1>2. UNCHANGED <<topic, read, committed, dead, pc, cur, res, counting, published,
                  failed, delivered, caller, crashes>>
  BY DEF Expire, Fault, NoFault, stores, worker, history
<1>3. \A q : Written(q)' <=> Written(q) BY <1>2, WrittenKept
<1>4. TypeOK'
  <2>1. LogOK' /\ WorkersOK' /\ HistoryOK' /\ CallsOK'
    BY <1>1, <1>2 DEF LogOK, WorkersOK, HistoryOK, CallsOK
  <2>2. RedisOK'
    BY <1>1, <1>2 DEF RedisOK, Statuses, Final, Expire, Fault, NoFault
  <2>3. BoundsOK'
    BY <1>1, <1>2 DEF BoundsOK, Expire, Fault, NoFault
  <2>4. QED BY <2>1, <2>2, <2>3, TypePartsNext
<1>5. StagesTrue'
  BY <1>1, <1>2, <1>3 DEF StagesTrue, WorkersOK, Expire, Fault, NoFault
<1>6. CallersTrue'
  BY <1>1, <1>2, <1>3
  DEF CallersTrue, StagesTrue, RedisOK, WorkersOK, CallsOK, BoundsOK, Expire, Fault,
      NoFault
<1>7. SuccessIsPublished'
  BY <1>1, <1>2
  DEF SuccessIsPublished, StagesTrue, RedisOK, WorkersOK, Expire, Fault, NoFault
<1>8. ResultsKept'
  BY <1>1, <1>2
  DEF ResultsKept, StagesTrue, RedisOK, WorkersOK, BoundsOK, Expire, Fault, NoFault
<1>9. AttemptsBounded'
  <2>1. \A q \in Requests : retries'[q] <= retries[q]
    BY <1>1, <1>2 DEF RedisOK, WorkersOK, Expire, Fault, NoFault
  <2>2. \A q \in Requests : Attempts(q)' \subseteq Attempts(q)
    BY <1>1, <1>2
    DEF Attempts, WorkersOK, StagesTrue, Expire, Fault, NoFault, PublisherAssumption
  <2>3. QED BY <1>1, <1>4, <2>1, <2>2, AttemptsKept
<1>10. QED BY <1>4, <1>5, <1>6, <1>7, <1>8, <1>9 DEF IInv

-----------------------------------------------------------------------------
(* The consumer loop *)

LEMMA ReadIInv ==
  ASSUME IInv, NEW g \in Groups, Read(g)
  PROVE  IInv'
<1> USE PublisherAssumption DEF PublisherAssumption
<1>1. /\ LogOK /\ RedisOK /\ WorkersOK /\ HistoryOK /\ CallsOK /\ BoundsOK
      /\ TypeOK /\ StagesTrue /\ CallersTrue /\ SuccessIsPublished /\ ResultsKept
      /\ AttemptsBounded
  BY TypeParts DEF IInv
<1>2. UNCHANGED <<topic, committed, status, result, retries, dead, res, counting,
                  published, failed, caller, faults, crashes>>
  BY DEF Read, Goto, stores, worker, history
<1>3. \A q : Written(q)' <=> Written(q) BY <1>2, WrittenKept
<1>m. /\ topic[read[g] + 1] \in Requests /\ Written(topic[read[g] + 1])
      /\ g \notin counting
  <2>1. read[g] + 1 \in 1..Len(topic) BY <1>1 DEF LogOK, Read
  <2>2. topic[read[g] + 1] \in Requests BY <1>1, <2>1 DEF LogOK
  <2>3. QED BY <1>1, <2>1, <2>2 DEF Written, StagesTrue, Read
<1>4. TypeOK'
  <2>1. RedisOK' /\ CallsOK' /\ BoundsOK'
    BY <1>1, <1>2 DEF RedisOK, CallsOK, BoundsOK
  <2>2. LogOK'
    BY <1>1, <1>2 DEF LogOK, Read, Goto
  <2>3. WorkersOK'
    BY <1>1, <1>2, <1>m DEF WorkersOK, Stages, Results, Read, Goto
  <2>4. HistoryOK'
    BY <1>1, <1>2, <1>m DEF HistoryOK, Read, Goto
  <2>5. QED BY <2>1, <2>2, <2>3, <2>4, TypePartsNext
<1>5. StagesTrue'
  BY <1>1, <1>2, <1>3, <1>m DEF StagesTrue, WorkersOK, Read, Goto
<1>6. CallersTrue'
  BY <1>1, <1>2, <1>3
  DEF CallersTrue, StagesTrue, RedisOK, WorkersOK, CallsOK, BoundsOK, Read, Goto
<1>7. SuccessIsPublished'
  BY <1>1, <1>2 DEF SuccessIsPublished, StagesTrue, RedisOK, WorkersOK, Read, Goto
<1>8. ResultsKept'
  BY <1>1, <1>2 DEF ResultsKept, StagesTrue, RedisOK, WorkersOK, BoundsOK, Read, Goto
<1>9. AttemptsBounded'
  <2>1. \A q \in Requests : retries'[q] <= retries[q]
    BY <1>1, <1>2 DEF RedisOK, WorkersOK, Read, Goto
  <2>2. \A q \in Requests : Attempts(q)' \subseteq Attempts(q)
    BY <1>1, <1>2 DEF Attempts, WorkersOK, StagesTrue, Read, Goto, PublisherAssumption
  <2>3. QED BY <1>1, <1>4, <2>1, <2>2, AttemptsKept
<1>10. QED BY <1>4, <1>5, <1>6, <1>7, <1>8, <1>9 DEF IInv

LEMMA CommitIInv ==
  ASSUME IInv, NEW g \in Groups, Commit(g)
  PROVE  IInv'
<1> USE PublisherAssumption DEF PublisherAssumption
<1>1. /\ LogOK /\ RedisOK /\ WorkersOK /\ HistoryOK /\ CallsOK /\ BoundsOK
      /\ TypeOK /\ StagesTrue /\ CallersTrue /\ SuccessIsPublished /\ ResultsKept
      /\ AttemptsBounded
  BY TypeParts DEF IInv
<1>2. UNCHANGED <<topic, read, status, result, retries, dead, pc, cur, res,
                  counting, published, failed, delivered, caller, faults, crashes>>
  BY DEF Commit, stores, worker, history
<1>3. \A q : Written(q)' <=> Written(q) BY <1>2, WrittenKept
<1>4. TypeOK'
  <2>1. RedisOK' /\ WorkersOK' /\ HistoryOK' /\ CallsOK' /\ BoundsOK'
    BY <1>1, <1>2 DEF RedisOK, WorkersOK, HistoryOK, CallsOK, BoundsOK
  <2>2. LogOK'
    BY <1>1, <1>2 DEF LogOK, Commit
  <2>3. QED BY <2>1, <2>2, TypePartsNext
<1>5. StagesTrue'
  BY <1>1, <1>2, <1>3 DEF StagesTrue, WorkersOK, Commit
<1>6. CallersTrue'
  BY <1>1, <1>2, <1>3
  DEF CallersTrue, StagesTrue, RedisOK, WorkersOK, CallsOK, BoundsOK, Commit
<1>7. SuccessIsPublished'
  BY <1>1, <1>2 DEF SuccessIsPublished, StagesTrue, RedisOK, WorkersOK, Commit
<1>8. ResultsKept'
  BY <1>1, <1>2 DEF ResultsKept, StagesTrue, RedisOK, WorkersOK, BoundsOK, Commit
<1>9. AttemptsBounded'
  <2>1. \A q \in Requests : retries'[q] <= retries[q]
    BY <1>1, <1>2 DEF RedisOK, WorkersOK, Commit
  <2>2. \A q \in Requests : Attempts(q)' \subseteq Attempts(q)
    BY <1>1, <1>2 DEF Attempts, WorkersOK, StagesTrue, Commit, PublisherAssumption
  <2>3. QED BY <1>1, <1>4, <2>1, <2>2, AttemptsKept
<1>10. QED BY <1>4, <1>5, <1>6, <1>7, <1>8, <1>9 DEF IInv

LEMMA CrashIInv ==
  ASSUME IInv, NEW g \in Groups, Crash(g)
  PROVE  IInv'
<1> USE PublisherAssumption DEF PublisherAssumption
<1>1. /\ LogOK /\ RedisOK /\ WorkersOK /\ HistoryOK /\ CallsOK /\ BoundsOK
      /\ TypeOK /\ StagesTrue /\ CallersTrue /\ SuccessIsPublished /\ ResultsKept
      /\ AttemptsBounded
  BY TypeParts DEF IInv
<1>2. UNCHANGED <<topic, committed, status, result, retries, dead, published,
                  failed, delivered, caller, faults>>
  BY DEF Crash, Goto, stores, worker, history
<1>3. \A q : Written(q)' <=> Written(q) BY <1>2, WrittenKept
<1>4. TypeOK'
  <2>1. RedisOK' /\ HistoryOK' /\ CallsOK'
    BY <1>1, <1>2 DEF RedisOK, HistoryOK, CallsOK
  <2>2. LogOK'
    BY <1>1, <1>2 DEF LogOK, Crash, Goto
  <2>3. WorkersOK'
    BY <1>1, <1>2 DEF WorkersOK, Stages, Results, Crash, Goto
  <2>4. BoundsOK'
    BY <1>1, <1>2 DEF BoundsOK, Crash, Goto
  <2>5. QED BY <2>1, <2>2, <2>3, <2>4, TypePartsNext
<1>5. StagesTrue'
  BY <1>1, <1>2, <1>3 DEF StagesTrue, WorkersOK, Crash, Goto
<1>6. CallersTrue'
  BY <1>1, <1>2, <1>3
  DEF CallersTrue, StagesTrue, RedisOK, WorkersOK, CallsOK, BoundsOK, Crash, Goto
<1>7. SuccessIsPublished'
  BY <1>1, <1>2 DEF SuccessIsPublished, StagesTrue, RedisOK, WorkersOK, Crash, Goto
<1>8. ResultsKept'
  BY <1>1, <1>2 DEF ResultsKept, StagesTrue, RedisOK, WorkersOK, BoundsOK, Crash, Goto
<1>9. AttemptsBounded'
  <2>1. \A q \in Requests : retries'[q] <= retries[q]
    BY <1>1, <1>2 DEF RedisOK, WorkersOK, Crash, Goto
  <2>2. \A q \in Requests : Attempts(q)' \subseteq Attempts(q)
    BY <1>1, <1>2
    DEF Attempts, WorkersOK, StagesTrue, Crash, Goto, PublisherAssumption
  <2>3. QED BY <1>1, <1>4, <2>1, <2>2, AttemptsKept
<1>10. QED BY <1>4, <1>5, <1>6, <1>7, <1>8, <1>9 DEF IInv

-----------------------------------------------------------------------------
(* The RetryableConsumer and the workers *)

\* A worker enters only while the count is below the limit.
LEMMA GetRetryCountIInv ==
  ASSUME IInv, NEW g \in Groups, GetRetryCount(g)
  PROVE  IInv'
<1> USE PublisherAssumption DEF PublisherAssumption
<1>1. /\ LogOK /\ RedisOK /\ WorkersOK /\ HistoryOK /\ CallsOK /\ BoundsOK
      /\ TypeOK /\ StagesTrue /\ CallersTrue /\ SuccessIsPublished /\ ResultsKept
      /\ AttemptsBounded
  BY TypeParts DEF IInv
<1>2. UNCHANGED <<topic, read, committed, status, result, retries, dead, cur, res,
                  published, failed, delivered, caller, crashes>>
  BY DEF GetRetryCount, Goto, Retryable, Fault, NoFault, stores, worker, history
<1>3. \A q : Written(q)' <=> Written(q) BY <1>2, WrittenKept
<1>4. TypeOK'
  <2>1. LogOK' /\ RedisOK' /\ HistoryOK' /\ CallsOK'
    BY <1>1, <1>2 DEF LogOK, RedisOK, HistoryOK, CallsOK
  <2>2. WorkersOK'
    BY <1>1, <1>2
    DEF WorkersOK, StagesTrue, Stages, Results, GetRetryCount, Goto, Retryable, Fault,
        NoFault
  <2>3. BoundsOK'
    BY <1>1, <1>2 DEF BoundsOK, GetRetryCount, Goto, Retryable, Fault, NoFault
  <2>4. QED BY <2>1, <2>2, <2>3, TypePartsNext
<1>5. StagesTrue'
  BY <1>1, <1>2, <1>3
  DEF StagesTrue, WorkersOK, GetRetryCount, Goto, Retryable, Fault, NoFault
<1>6. CallersTrue'
  BY <1>1, <1>2, <1>3
  DEF CallersTrue, StagesTrue, RedisOK, WorkersOK, CallsOK, BoundsOK, GetRetryCount,
      Goto, Retryable, Fault, NoFault
<1>7. SuccessIsPublished'
  BY <1>1, <1>2
  DEF SuccessIsPublished, StagesTrue, RedisOK, WorkersOK, GetRetryCount, Goto,
      Retryable, Fault, NoFault
<1>8. ResultsKept'
  BY <1>1, <1>2
  DEF ResultsKept, StagesTrue, RedisOK, WorkersOK, BoundsOK, GetRetryCount, Goto,
      Retryable, Fault, NoFault
<1>9. AttemptsBounded'
  <2> SUFFICES ASSUME NEW r \in Requests
               PROVE  retries[r] + Cardinality(Attempts(r)') <= MaxRetries - 1 + Cardinality(DLQ)
    BY <1>2 DEF AttemptsBounded
  <2>1. CASE Attempts(r)' \subseteq Attempts(r)
    <3>1. Cardinality(Attempts(r)') <= Cardinality(Attempts(r))
          /\ Cardinality(Attempts(r)') \in Nat
      BY <1>1, <2>1, AttemptsFinite, FS_Subset, FS_CardinalityType
    <3>2. /\ retries[r] + Cardinality(Attempts(r)) <= MaxRetries - 1 + Cardinality(DLQ)
          /\ retries[r] \in Nat /\ Cardinality(Attempts(r)) \in Nat /\ Cardinality(DLQ) \in Nat
      BY <1>1, AttemptsFinite DEF AttemptsBounded, RedisOK
    <3>3. QED BY <3>1, <3>2
  <2>2. CASE ~(Attempts(r)' \subseteq Attempts(r))
    <3>1. retries[r] < MaxRetries /\ retries[r] \in Nat
      BY <1>1, <1>2, <2>2 DEF GetRetryCount, Retryable, Attempts, RedisOK
    <3>2. Attempts(r)' \subseteq DLQ BY <1>4 DEF TypeOK, Attempts
    <3>3. /\ Cardinality(Attempts(r)') <= Cardinality(DLQ)
          /\ Cardinality(Attempts(r)') \in Nat /\ Cardinality(DLQ) \in Nat
      BY <3>2, FS_Subset, FS_CardinalityType
    <3>4. QED BY <3>1, <3>3
  <2>3. QED BY <2>1, <2>2
<1>10. QED BY <1>4, <1>5, <1>6, <1>7, <1>8, <1>9 DEF IInv

LEMMA SendToDLQIInv ==
  ASSUME IInv, NEW g \in Groups, SendToDLQ(g)
  PROVE  IInv'
<1> USE PublisherAssumption DEF PublisherAssumption
<1>1. /\ LogOK /\ RedisOK /\ WorkersOK /\ HistoryOK /\ CallsOK /\ BoundsOK
      /\ TypeOK /\ StagesTrue /\ CallersTrue /\ SuccessIsPublished /\ ResultsKept
      /\ AttemptsBounded
  BY TypeParts DEF IInv
<1>2. UNCHANGED <<topic, read, committed, status, result, retries, cur, res,
                  counting, published, delivered, caller, crashes>>
  BY DEF SendToDLQ, Goto, Fault, NoFault, stores, worker, history
<1>3. \A q : Written(q)' <=> Written(q) BY <1>2, WrittenKept
<1>4. TypeOK'
  <2>1. LogOK' /\ CallsOK'
    BY <1>1, <1>2 DEF LogOK, CallsOK
  <2>2. RedisOK'
    BY <1>1, <1>2, Held DEF RedisOK, Statuses, Final, SendToDLQ, Goto, Fault, NoFault
  <2>3. WorkersOK'
    BY <1>1, <1>2 DEF WorkersOK, Stages, Results, SendToDLQ, Goto, Fault, NoFault
  <2>4. HistoryOK'
    BY <1>1, <1>2, Held DEF HistoryOK, SendToDLQ, Goto, Fault, NoFault
  <2>5. BoundsOK'
    BY <1>1, <1>2 DEF BoundsOK, SendToDLQ, Goto, Fault, NoFault
  <2>6. QED BY <2>1, <2>2, <2>3, <2>4, <2>5, TypePartsNext
<1>5. StagesTrue'
  BY <1>1, <1>2, <1>3 DEF StagesTrue, WorkersOK, SendToDLQ, Goto, Fault, NoFault
<1>6. CallersTrue'
  BY <1>1, <1>2, <1>3
  DEF CallersTrue, StagesTrue, RedisOK, WorkersOK, CallsOK, BoundsOK, SendToDLQ,
      Goto, Fault, NoFault
<1>7. SuccessIsPublished'
  BY <1>1, <1>2
  DEF SuccessIsPublished, StagesTrue, RedisOK, WorkersOK, SendToDLQ, Goto, Fault,
      NoFault
<1>8. ResultsKept'
  BY <1>1, <1>2
  DEF ResultsKept, StagesTrue, RedisOK, WorkersOK, BoundsOK, SendToDLQ, Goto, Fault,
      NoFault
<1>9. AttemptsBounded'
  <2>1. \A q \in Requests : retries'[q] <= retries[q]
    BY <1>1, <1>2 DEF RedisOK, WorkersOK, SendToDLQ, Goto, Fault, NoFault
  <2>2. \A q \in Requests : Attempts(q)' \subseteq Attempts(q)
    BY <1>1, <1>2
    DEF Attempts, WorkersOK, StagesTrue, SendToDLQ, Goto, Fault, NoFault,
        PublisherAssumption
  <2>3. QED BY <1>1, <1>4, <2>1, <2>2, AttemptsKept
<1>10. QED BY <1>4, <1>5, <1>6, <1>7, <1>8, <1>9 DEF IInv

LEMMA DropRetriesIInv ==
  ASSUME IInv, NEW g \in Groups, DropRetries(g)
  PROVE  IInv'
<1> USE PublisherAssumption DEF PublisherAssumption
<1>1. /\ LogOK /\ RedisOK /\ WorkersOK /\ HistoryOK /\ CallsOK /\ BoundsOK
      /\ TypeOK /\ StagesTrue /\ CallersTrue /\ SuccessIsPublished /\ ResultsKept
      /\ AttemptsBounded
  BY TypeParts DEF IInv
<1>2. UNCHANGED <<topic, read, committed, status, result, dead, cur, res, counting,
                  published, failed, delivered, caller, crashes>>
  BY DEF DropRetries, DeleteRetryKey, Goto, Fault, NoFault, stores, worker, history
<1>3. \A q : Written(q)' <=> Written(q) BY <1>2, WrittenKept
<1>4. TypeOK'
  <2>1. LogOK' /\ HistoryOK' /\ CallsOK'
    BY <1>1, <1>2 DEF LogOK, HistoryOK, CallsOK
  <2>2. RedisOK'
    BY <1>1, <1>2
    DEF RedisOK, Statuses, Final, DropRetries, DeleteRetryKey, Goto, Fault, NoFault
  <2>3. WorkersOK'
    BY <1>1, <1>2
    DEF WorkersOK, Stages, Results, DropRetries, DeleteRetryKey, Goto, Fault,
        NoFault
  <2>4. BoundsOK'
    BY <1>1, <1>2 DEF BoundsOK, DropRetries, DeleteRetryKey, Goto, Fault, NoFault
  <2>5. QED BY <2>1, <2>2, <2>3, <2>4, TypePartsNext
<1>5. StagesTrue'
  BY <1>1, <1>2, <1>3
  DEF StagesTrue, WorkersOK, DropRetries, DeleteRetryKey, Goto, Fault, NoFault
<1>6. CallersTrue'
  BY <1>1, <1>2, <1>3
  DEF CallersTrue, StagesTrue, RedisOK, WorkersOK, CallsOK, BoundsOK, DropRetries,
      DeleteRetryKey, Goto, Fault, NoFault
<1>7. SuccessIsPublished'
  BY <1>1, <1>2
  DEF SuccessIsPublished, StagesTrue, RedisOK, WorkersOK, DropRetries,
      DeleteRetryKey, Goto, Fault, NoFault
<1>8. ResultsKept'
  BY <1>1, <1>2
  DEF ResultsKept, StagesTrue, RedisOK, WorkersOK, BoundsOK, DropRetries,
      DeleteRetryKey, Goto, Fault, NoFault
<1>9. AttemptsBounded'
  <2>1. \A q \in Requests : retries'[q] <= retries[q]
    BY <1>1, <1>2
    DEF RedisOK, WorkersOK, DropRetries, DeleteRetryKey, Goto, Fault, NoFault
  <2>2. \A q \in Requests : Attempts(q)' \subseteq Attempts(q)
    BY <1>1, <1>2
    DEF Attempts, WorkersOK, StagesTrue, DropRetries, DeleteRetryKey, Goto, Fault,
        NoFault, PublisherAssumption
  <2>3. QED BY <1>1, <1>4, <2>1, <2>2, AttemptsKept
<1>10. QED BY <1>4, <1>5, <1>6, <1>7, <1>8, <1>9 DEF IInv

LEMMA MarkFailedIInv ==
  ASSUME IInv, NEW g \in Groups, MarkFailed(g)
  PROVE  IInv'
<1> USE PublisherAssumption DEF PublisherAssumption
<1>1. /\ LogOK /\ RedisOK /\ WorkersOK /\ HistoryOK /\ CallsOK /\ BoundsOK
      /\ TypeOK /\ StagesTrue /\ CallersTrue /\ SuccessIsPublished /\ ResultsKept
      /\ AttemptsBounded
  BY TypeParts DEF IInv
<1>2. UNCHANGED <<topic, read, committed, result, retries, dead, published, failed,
                  delivered, caller, crashes>>
  BY
  DEF MarkFailed, StoreXX, StatusXX, Finished, Goto, Fault, NoFault, stores, worker,
      history
<1>3. \A q : Written(q)' <=> Written(q) BY <1>2, WrittenKept
<1>4. TypeOK'
  <2>1. LogOK' /\ HistoryOK' /\ CallsOK'
    BY <1>1, <1>2 DEF LogOK, HistoryOK, CallsOK
  <2>2. RedisOK'
    BY <1>1, <1>2
    DEF RedisOK, Statuses, Final, MarkFailed, StoreXX, StatusXX, Finished, Goto,
        Fault, NoFault
  <2>3. WorkersOK'
    BY <1>1, <1>2
    DEF WorkersOK, Stages, Results, MarkFailed, StoreXX, StatusXX, Finished, Goto,
        Fault, NoFault
  <2>4. BoundsOK'
    BY <1>1, <1>2
    DEF BoundsOK, MarkFailed, StoreXX, StatusXX, Finished, Goto, Fault, NoFault
  <2>5. QED BY <2>1, <2>2, <2>3, <2>4, TypePartsNext
<1>5. StagesTrue'
  BY <1>1, <1>2, <1>3
  DEF StagesTrue, WorkersOK, MarkFailed, StoreXX, StatusXX, Finished, Goto, Fault,
      NoFault
<1>6. CallersTrue'
  BY <1>1, <1>2, <1>3
  DEF CallersTrue, StagesTrue, RedisOK, WorkersOK, CallsOK, BoundsOK, MarkFailed,
      StoreXX, StatusXX, Finished, Goto, Fault, NoFault
<1>7. SuccessIsPublished'
  BY <1>1, <1>2
  DEF SuccessIsPublished, StagesTrue, RedisOK, WorkersOK, MarkFailed, StoreXX,
      StatusXX, Finished, Goto, Fault, NoFault
<1>8. ResultsKept'
  BY <1>1, <1>2
  DEF ResultsKept, StagesTrue, RedisOK, WorkersOK, BoundsOK, MarkFailed, StoreXX,
      StatusXX, Finished, Goto, Fault, NoFault
<1>9. AttemptsBounded'
  <2>1. \A q \in Requests : retries'[q] <= retries[q]
    BY <1>1, <1>2
    DEF RedisOK, WorkersOK, MarkFailed, StoreXX, StatusXX, Finished, Goto, Fault,
        NoFault
  <2>2. \A q \in Requests : Attempts(q)' \subseteq Attempts(q)
    BY <1>1, <1>2
    DEF Attempts, WorkersOK, StagesTrue, MarkFailed, StoreXX, StatusXX, Finished,
        Goto, Fault, NoFault, PublisherAssumption
  <2>3. QED BY <1>1, <1>4, <2>1, <2>2, AttemptsKept
<1>10. QED BY <1>4, <1>5, <1>6, <1>7, <1>8, <1>9 DEF IInv

LEMMA SkipIInv ==
  ASSUME IInv, NEW g \in Groups, Skip(g)
  PROVE  IInv'
<1> USE PublisherAssumption DEF PublisherAssumption
<1>1. /\ LogOK /\ RedisOK /\ WorkersOK /\ HistoryOK /\ CallsOK /\ BoundsOK
      /\ TypeOK /\ StagesTrue /\ CallersTrue /\ SuccessIsPublished /\ ResultsKept
      /\ AttemptsBounded
  BY TypeParts DEF IInv
<1>2. UNCHANGED <<topic, read, committed, status, result, retries, dead, counting,
                  published, failed, delivered, caller, faults, crashes>>
  BY DEF Skip, ReturnResult, Goto, stores, worker, history
<1>3. \A q : Written(q)' <=> Written(q) BY <1>2, WrittenKept
<1>4. TypeOK'
  <2>1. LogOK' /\ RedisOK' /\ HistoryOK' /\ CallsOK' /\ BoundsOK'
    BY <1>1, <1>2 DEF LogOK, RedisOK, HistoryOK, CallsOK, BoundsOK
  <2>2. WorkersOK'
    BY <1>1, <1>2 DEF WorkersOK, Stages, Results, Skip, ReturnResult, Goto
  <2>3. QED BY <2>1, <2>2, TypePartsNext
<1>5. StagesTrue'
  BY <1>1, <1>2, <1>3 DEF StagesTrue, WorkersOK, Skip, ReturnResult, Goto
<1>6. CallersTrue'
  BY <1>1, <1>2, <1>3
  DEF CallersTrue, StagesTrue, RedisOK, WorkersOK, CallsOK, BoundsOK, Skip,
      ReturnResult, Goto
<1>7. SuccessIsPublished'
  BY <1>1, <1>2
  DEF SuccessIsPublished, StagesTrue, RedisOK, WorkersOK, Skip, ReturnResult, Goto
<1>8. ResultsKept'
  BY <1>1, <1>2
  DEF ResultsKept, StagesTrue, RedisOK, WorkersOK, BoundsOK, Skip, ReturnResult,
      Goto
<1>9. AttemptsBounded'
  <2>1. \A q \in Requests : retries'[q] <= retries[q]
    BY <1>1, <1>2 DEF RedisOK, WorkersOK, Skip, ReturnResult, Goto
  <2>2. \A q \in Requests : Attempts(q)' \subseteq Attempts(q)
    BY <1>1, <1>2
    DEF Attempts, WorkersOK, StagesTrue, Skip, ReturnResult, Goto,
        PublisherAssumption
  <2>3. QED BY <1>1, <1>4, <2>1, <2>2, AttemptsKept
<1>10. QED BY <1>4, <1>5, <1>6, <1>7, <1>8, <1>9 DEF IInv

LEMMA StartXXIInv ==
  ASSUME IInv, NEW g \in Groups, StartXX(g)
  PROVE  IInv'
<1> USE PublisherAssumption DEF PublisherAssumption
<1>1. /\ LogOK /\ RedisOK /\ WorkersOK /\ HistoryOK /\ CallsOK /\ BoundsOK
      /\ TypeOK /\ StagesTrue /\ CallersTrue /\ SuccessIsPublished /\ ResultsKept
      /\ AttemptsBounded
  BY TypeParts DEF IInv
<1>2. UNCHANGED <<topic, read, committed, result, retries, dead, counting,
                  published, delivered, caller, crashes>>
  BY
  DEF StartXX, StoreXX, StatusXX, InvalidData, ReturnResult, Goto, Fault, NoFault,
      stores, worker, history
<1>3. \A q : Written(q)' <=> Written(q) BY <1>2, WrittenKept
<1>4. TypeOK'
  <2>1. LogOK' /\ CallsOK'
    BY <1>1, <1>2 DEF LogOK, CallsOK
  <2>2. RedisOK'
    BY <1>1, <1>2
    DEF RedisOK, Statuses, Final, StartXX, StoreXX, StatusXX, InvalidData,
        ReturnResult, Goto, Fault, NoFault
  <2>3. WorkersOK'
    BY <1>1, <1>2
    DEF WorkersOK, Stages, Results, StartXX, StoreXX, StatusXX, InvalidData,
        ReturnResult, Goto, Fault, NoFault
  <2>4. HistoryOK'
    BY <1>1, <1>2, Held
    DEF HistoryOK, StartXX, StoreXX, StatusXX, InvalidData, ReturnResult, Goto,
        Fault, NoFault
  <2>5. BoundsOK'
    BY <1>1, <1>2
    DEF BoundsOK, StartXX, StoreXX, StatusXX, InvalidData, ReturnResult, Goto,
        Fault, NoFault
  <2>6. QED BY <2>1, <2>2, <2>3, <2>4, <2>5, TypePartsNext
<1>5. StagesTrue'
  BY <1>1, <1>2, <1>3
  DEF StagesTrue, WorkersOK, StartXX, StoreXX, StatusXX, InvalidData, ReturnResult,
      Goto, Fault, NoFault
<1>6. CallersTrue'
  BY <1>1, <1>2, <1>3
  DEF CallersTrue, StagesTrue, RedisOK, WorkersOK, CallsOK, BoundsOK, StartXX,
      StoreXX, StatusXX, InvalidData, ReturnResult, Goto, Fault, NoFault
<1>7. SuccessIsPublished'
  BY <1>1, <1>2
  DEF SuccessIsPublished, StagesTrue, RedisOK, WorkersOK, StartXX, StoreXX,
      StatusXX, InvalidData, ReturnResult, Goto, Fault, NoFault
<1>8. ResultsKept'
  BY <1>1, <1>2
  DEF ResultsKept, StagesTrue, RedisOK, WorkersOK, BoundsOK, StartXX, StoreXX,
      StatusXX, InvalidData, ReturnResult, Goto, Fault, NoFault
<1>9. AttemptsBounded'
  <2>1. \A q \in Requests : retries'[q] <= retries[q]
    BY <1>1, <1>2
    DEF RedisOK, WorkersOK, StartXX, StoreXX, StatusXX, InvalidData, ReturnResult,
        Goto, Fault, NoFault
  <2>2. \A q \in Requests : Attempts(q)' \subseteq Attempts(q)
    BY <1>1, <1>2
    DEF Attempts, WorkersOK, StagesTrue, StartXX, StoreXX, StatusXX, InvalidData,
        ReturnResult, Goto, Fault, NoFault, PublisherAssumption
  <2>3. QED BY <1>1, <1>4, <2>1, <2>2, AttemptsKept
<1>10. QED BY <1>4, <1>5, <1>6, <1>7, <1>8, <1>9 DEF IInv

LEMMA StartImageIInv ==
  ASSUME IInv, NEW g \in Groups, StartImage(g)
  PROVE  IInv'
<1> USE PublisherAssumption DEF PublisherAssumption
<1>1. /\ LogOK /\ RedisOK /\ WorkersOK /\ HistoryOK /\ CallsOK /\ BoundsOK
      /\ TypeOK /\ StagesTrue /\ CallersTrue /\ SuccessIsPublished /\ ResultsKept
      /\ AttemptsBounded
  BY TypeParts DEF IInv
<1>2. UNCHANGED <<topic, read, committed, result, retries, dead, counting,
                  published, delivered, caller, crashes>>
  BY
  DEF StartImage, InvalidData, ReturnResult, Goto, Fault, NoFault, stores, worker,
      history
<1>3. \A q : Written(q)' <=> Written(q) BY <1>2, WrittenKept
<1>4. TypeOK'
  <2>1. LogOK' /\ CallsOK'
    BY <1>1, <1>2 DEF LogOK, CallsOK
  <2>2. RedisOK'
    BY <1>1, <1>2
    DEF RedisOK, Statuses, Final, StartImage, InvalidData, ReturnResult, Goto,
        Fault, NoFault
  <2>3. WorkersOK'
    BY <1>1, <1>2
    DEF WorkersOK, Stages, Results, StartImage, InvalidData, ReturnResult, Goto,
        Fault, NoFault
  <2>4. HistoryOK'
    BY <1>1, <1>2, Held
    DEF HistoryOK, StartImage, InvalidData, ReturnResult, Goto, Fault, NoFault
  <2>5. BoundsOK'
    BY <1>1, <1>2
    DEF BoundsOK, StartImage, InvalidData, ReturnResult, Goto, Fault, NoFault
  <2>6. QED BY <2>1, <2>2, <2>3, <2>4, <2>5, TypePartsNext
<1>5. StagesTrue'
  BY <1>1, <1>2, <1>3
  DEF StagesTrue, WorkersOK, StartImage, InvalidData, ReturnResult, Goto, Fault,
      NoFault
<1>6. CallersTrue'
  BY <1>1, <1>2, <1>3
  DEF CallersTrue, StagesTrue, RedisOK, WorkersOK, CallsOK, BoundsOK, StartImage,
      InvalidData, ReturnResult, Goto, Fault, NoFault
<1>7. SuccessIsPublished'
  BY <1>1, <1>2
  DEF SuccessIsPublished, StagesTrue, RedisOK, WorkersOK, StartImage, InvalidData,
      ReturnResult, Goto, Fault, NoFault
<1>8. ResultsKept'
  BY <1>1, <1>2
  DEF ResultsKept, StagesTrue, RedisOK, WorkersOK, BoundsOK, StartImage,
      InvalidData, ReturnResult, Goto, Fault, NoFault
<1>9. AttemptsBounded'
  <2>1. \A q \in Requests : retries'[q] <= retries[q]
    BY <1>1, <1>2
    DEF RedisOK, WorkersOK, StartImage, InvalidData, ReturnResult, Goto, Fault,
        NoFault
  <2>2. \A q \in Requests : Attempts(q)' \subseteq Attempts(q)
    BY <1>1, <1>2
    DEF Attempts, WorkersOK, StagesTrue, StartImage, InvalidData, ReturnResult,
        Goto, Fault, NoFault, PublisherAssumption
  <2>3. QED BY <1>1, <1>4, <2>1, <2>2, AttemptsKept
<1>10. QED BY <1>4, <1>5, <1>6, <1>7, <1>8, <1>9 DEF IInv

\* Only a publication that succeeds is reported as one.
LEMMA RunIInv ==
  ASSUME IInv, NEW g \in Groups, Run(g)
  PROVE  IInv'
<1> USE PublisherAssumption DEF PublisherAssumption
<1>1. /\ LogOK /\ RedisOK /\ WorkersOK /\ HistoryOK /\ CallsOK /\ BoundsOK
      /\ TypeOK /\ StagesTrue /\ CallersTrue /\ SuccessIsPublished /\ ResultsKept
      /\ AttemptsBounded
  BY TypeParts DEF IInv
<1>2. UNCHANGED <<topic, read, committed, status, result, retries, dead, cur,
                  counting, delivered, caller, faults, crashes>>
  BY DEF Run, Outcomes, Goto, stores, worker, history
<1>3. \A q : Written(q)' <=> Written(q) BY <1>2, WrittenKept
<1>4. TypeOK'
  <2>1. LogOK' /\ RedisOK' /\ CallsOK' /\ BoundsOK'
    BY <1>1, <1>2 DEF LogOK, RedisOK, CallsOK, BoundsOK
  <2>2. WorkersOK'
    BY <1>1, <1>2 DEF WorkersOK, Stages, Results, Run, Outcomes, Goto
  <2>3. HistoryOK'
    BY <1>1, <1>2, Held DEF HistoryOK, Run, Outcomes, Goto
  <2>4. QED BY <2>1, <2>2, <2>3, TypePartsNext
<1>5. StagesTrue'
  BY <1>1, <1>2, <1>3 DEF StagesTrue, WorkersOK, Run, Outcomes, Goto
<1>6. CallersTrue'
  BY <1>1, <1>2, <1>3
  DEF CallersTrue, StagesTrue, RedisOK, WorkersOK, CallsOK, BoundsOK, Run, Outcomes,
      Goto
<1>7. SuccessIsPublished'
  BY <1>1, <1>2
  DEF SuccessIsPublished, StagesTrue, RedisOK, WorkersOK, Run, Outcomes, Goto
<1>8. ResultsKept'
  BY <1>1, <1>2
  DEF ResultsKept, StagesTrue, RedisOK, WorkersOK, BoundsOK, Run, Outcomes, Goto
<1>9. AttemptsBounded'
  <2>1. \A q \in Requests : retries'[q] <= retries[q]
    BY <1>1, <1>2 DEF RedisOK, WorkersOK, Run, Outcomes, Goto
  <2>2. \A q \in Requests : Attempts(q)' \subseteq Attempts(q)
    BY <1>1, <1>2
    DEF Attempts, WorkersOK, StagesTrue, Run, Outcomes, Goto, PublisherAssumption
  <2>3. QED BY <1>1, <1>4, <2>1, <2>2, AttemptsKept
<1>10. QED BY <1>4, <1>5, <1>6, <1>7, <1>8, <1>9 DEF IInv

LEMMA StoreResultIInv ==
  ASSUME IInv, NEW g \in Groups, StoreResult(g)
  PROVE  IInv'
<1> USE PublisherAssumption DEF PublisherAssumption
<1>1. /\ LogOK /\ RedisOK /\ WorkersOK /\ HistoryOK /\ CallsOK /\ BoundsOK
      /\ TypeOK /\ StagesTrue /\ CallersTrue /\ SuccessIsPublished /\ ResultsKept
      /\ AttemptsBounded
  BY TypeParts DEF IInv
<1>2. UNCHANGED <<topic, read, committed, status, retries, dead, cur, res, counting,
                  published, failed, delivered, caller, crashes>>
  BY DEF StoreResult, Goto, Fault, NoFault, stores, worker, history
<1>3. \A q : Written(q)' <=> Written(q) BY <1>2, WrittenKept
<1>4. TypeOK'
  <2>1. LogOK' /\ HistoryOK' /\ CallsOK'
    BY <1>1, <1>2 DEF LogOK, HistoryOK, CallsOK
  <2>2. RedisOK'
    BY <1>1, <1>2, Held DEF RedisOK, Statuses, Final, StoreResult, Goto, Fault, NoFault
  <2>3. WorkersOK'
    BY <1>1, <1>2 DEF WorkersOK, Stages, Results, StoreResult, Goto, Fault, NoFault
  <2>4. BoundsOK'
    BY <1>1, <1>2 DEF BoundsOK, StoreResult, Goto, Fault, NoFault
  <2>5. QED BY <2>1, <2>2, <2>3, <2>4, TypePartsNext
<1>5. StagesTrue'
  BY <1>1, <1>2, <1>3 DEF StagesTrue, WorkersOK, StoreResult, Goto, Fault, NoFault
<1>6. CallersTrue'
  BY <1>1, <1>2, <1>3
  DEF CallersTrue, StagesTrue, RedisOK, WorkersOK, CallsOK, BoundsOK, StoreResult,
      Goto, Fault, NoFault
<1>7. SuccessIsPublished'
  BY <1>1, <1>2
  DEF SuccessIsPublished, StagesTrue, RedisOK, WorkersOK, StoreResult, Goto, Fault,
      NoFault
<1>8. ResultsKept'
  BY <1>1, <1>2
  DEF ResultsKept, StagesTrue, RedisOK, WorkersOK, BoundsOK, StoreResult, Goto,
      Fault, NoFault
<1>9. AttemptsBounded'
  <2>1. \A q \in Requests : retries'[q] <= retries[q]
    BY <1>1, <1>2 DEF RedisOK, WorkersOK, StoreResult, Goto, Fault, NoFault
  <2>2. \A q \in Requests : Attempts(q)' \subseteq Attempts(q)
    BY <1>1, <1>2
    DEF Attempts, WorkersOK, StagesTrue, StoreResult, Goto, Fault, NoFault,
        PublisherAssumption
  <2>3. QED BY <1>1, <1>4, <2>1, <2>2, AttemptsKept
<1>10. QED BY <1>4, <1>5, <1>6, <1>7, <1>8, <1>9 DEF IInv

LEMMA StoreOutcomeIInv ==
  ASSUME IInv, NEW g \in Groups, StoreOutcome(g)
  PROVE  IInv'
<1> USE PublisherAssumption DEF PublisherAssumption
<1>1. /\ LogOK /\ RedisOK /\ WorkersOK /\ HistoryOK /\ CallsOK /\ BoundsOK
      /\ TypeOK /\ StagesTrue /\ CallersTrue /\ SuccessIsPublished /\ ResultsKept
      /\ AttemptsBounded
  BY TypeParts DEF IInv
<1>2. UNCHANGED <<topic, read, committed, result, retries, dead, counting,
                  published, failed, delivered, caller, crashes>>
  BY
  DEF StoreOutcome, Store, StoreXX, StatusXX, FinalStatus, ReturnResult, Goto,
      Fault, NoFault, stores, worker, history
<1>3. \A q : Written(q)' <=> Written(q) BY <1>2, WrittenKept
<1>4. TypeOK'
  <2>1. LogOK' /\ HistoryOK' /\ CallsOK'
    BY <1>1, <1>2 DEF LogOK, HistoryOK, CallsOK
  <2>2. RedisOK'
    BY <1>1, <1>2
    DEF RedisOK, Statuses, Final, StoreOutcome, Store, StoreXX, StatusXX,
        FinalStatus, ReturnResult, Goto, Fault, NoFault
  <2>3. WorkersOK'
    BY <1>1, <1>2
    DEF WorkersOK, Stages, Results, StoreOutcome, Store, StoreXX, StatusXX,
        FinalStatus, ReturnResult, Goto, Fault, NoFault
  <2>4. BoundsOK'
    BY <1>1, <1>2
    DEF BoundsOK, StoreOutcome, Store, StoreXX, StatusXX, FinalStatus, ReturnResult,
        Goto, Fault, NoFault
  <2>5. QED BY <2>1, <2>2, <2>3, <2>4, TypePartsNext
<1>5. StagesTrue'
  BY <1>1, <1>2, <1>3
  DEF StagesTrue, WorkersOK, StoreOutcome, Store, StoreXX, StatusXX, FinalStatus,
      ReturnResult, Goto, Fault, NoFault
<1>6. CallersTrue'
  BY <1>1, <1>2, <1>3
  DEF CallersTrue, StagesTrue, RedisOK, WorkersOK, CallsOK, BoundsOK, StoreOutcome,
      Store, StoreXX, StatusXX, FinalStatus, ReturnResult, Goto, Fault, NoFault
<1>7. SuccessIsPublished'
  BY <1>1, <1>2
  DEF SuccessIsPublished, StagesTrue, RedisOK, WorkersOK, StoreOutcome, Store,
      StoreXX, StatusXX, FinalStatus, ReturnResult, Goto, Fault, NoFault
<1>8. ResultsKept'
  BY <1>1, <1>2
  DEF ResultsKept, StagesTrue, RedisOK, WorkersOK, BoundsOK, StoreOutcome, Store,
      StoreXX, StatusXX, FinalStatus, ReturnResult, Goto, Fault, NoFault
<1>9. AttemptsBounded'
  <2>1. \A q \in Requests : retries'[q] <= retries[q]
    BY <1>1, <1>2
    DEF RedisOK, WorkersOK, StoreOutcome, Store, StoreXX, StatusXX, FinalStatus,
        ReturnResult, Goto, Fault, NoFault
  <2>2. \A q \in Requests : Attempts(q)' \subseteq Attempts(q)
    BY <1>1, <1>2
    DEF Attempts, WorkersOK, StagesTrue, StoreOutcome, Store, StoreXX, StatusXX,
        FinalStatus, ReturnResult, Goto, Fault, NoFault, PublisherAssumption
  <2>3. QED BY <1>1, <1>4, <2>1, <2>2, AttemptsKept
<1>10. QED BY <1>4, <1>5, <1>6, <1>7, <1>8, <1>9 DEF IInv

\* An attempt that is counted is no longer under way.
LEMMA SettleIInv ==
  ASSUME IInv, NEW g \in Groups, Settle(g)
  PROVE  IInv'
<1> USE PublisherAssumption DEF PublisherAssumption
<1>1. /\ LogOK /\ RedisOK /\ WorkersOK /\ HistoryOK /\ CallsOK /\ BoundsOK
      /\ TypeOK /\ StagesTrue /\ CallersTrue /\ SuccessIsPublished /\ ResultsKept
      /\ AttemptsBounded
  BY TypeParts DEF IInv
<1>2. UNCHANGED <<topic, read, committed, status, result, dead, published, failed,
                  delivered, caller, crashes>>
  BY
  DEF Settle, DeleteRetryKey, IncrementRetryCount, Finished, Goto, Fault, NoFault,
      stores, worker, history
<1>3. \A q : Written(q)' <=> Written(q) BY <1>2, WrittenKept
<1>4. TypeOK'
  <2>1. LogOK' /\ HistoryOK' /\ CallsOK'
    BY <1>1, <1>2 DEF LogOK, HistoryOK, CallsOK
  <2>2. RedisOK'
    BY <1>1, <1>2
    DEF RedisOK, Statuses, Final, Settle, DeleteRetryKey, IncrementRetryCount,
        Finished, Goto, Fault, NoFault
  <2>3. WorkersOK'
    BY <1>1, <1>2
    DEF WorkersOK, Stages, Results, Settle, DeleteRetryKey, IncrementRetryCount,
        Finished, Goto, Fault, NoFault
  <2>4. BoundsOK'
    BY <1>1, <1>2
    DEF BoundsOK, Settle, DeleteRetryKey, IncrementRetryCount, Finished, Goto,
        Fault, NoFault
  <2>5. QED BY <2>1, <2>2, <2>3, <2>4, TypePartsNext
<1>5. StagesTrue'
  BY <1>1, <1>2, <1>3
  DEF StagesTrue, WorkersOK, Settle, DeleteRetryKey, IncrementRetryCount, Finished,
      Goto, Fault, NoFault
<1>6. CallersTrue'
  BY <1>1, <1>2, <1>3
  DEF CallersTrue, StagesTrue, RedisOK, WorkersOK, CallsOK, BoundsOK, Settle,
      DeleteRetryKey, IncrementRetryCount, Finished, Goto, Fault, NoFault
<1>7. SuccessIsPublished'
  BY <1>1, <1>2
  DEF SuccessIsPublished, StagesTrue, RedisOK, WorkersOK, Settle, DeleteRetryKey,
      IncrementRetryCount, Finished, Goto, Fault, NoFault
<1>8. ResultsKept'
  BY <1>1, <1>2
  DEF ResultsKept, StagesTrue, RedisOK, WorkersOK, BoundsOK, Settle, DeleteRetryKey,
      IncrementRetryCount, Finished, Goto, Fault, NoFault
<1>9. AttemptsBounded'
  <2> DEFINE q == cur[g]
  <2>1. q \in Requests /\ g \in counting /\ pc[g] # "idle"
    BY <1>1 DEF Settle, WorkersOK, StagesTrue
  <2>2. \A r \in Requests : Attempts(r)' \subseteq Attempts(r)
    BY <1>1, <2>1 DEF Attempts, WorkersOK, Settle, Finished
  <2>3. CASE \A r \in Requests : retries'[r] <= retries[r]
    BY <1>1, <1>4, <2>2, <2>3, AttemptsKept
  <2>4. CASE retries' = [retries EXCEPT ![q] = retries[q] + 1]
    <3> SUFFICES ASSUME NEW r \in Requests
                 PROVE  retries'[r] + Cardinality(Attempts(r)') <= MaxRetries - 1 + Cardinality(DLQ)
      BY DEF AttemptsBounded
    <3>1. /\ retries[r] + Cardinality(Attempts(r)) <= MaxRetries - 1 + Cardinality(DLQ)
          /\ retries[r] \in Nat /\ Cardinality(Attempts(r)) \in Nat /\ Cardinality(DLQ) \in Nat
          /\ IsFiniteSet(Attempts(r))
      BY <1>1, AttemptsFinite DEF AttemptsBounded, RedisOK
    <3>2. Cardinality(Attempts(r)') \in Nat /\ Cardinality(Attempts(r)') <= Cardinality(Attempts(r))
      BY <2>2, <3>1, FS_Subset, FS_CardinalityType
    <3>3. CASE r # q
      <4>1. retries'[r] = retries[r] BY <1>1, <2>4, <3>3 DEF RedisOK
      <4>2. QED BY <3>1, <3>2, <4>1
    <3>4. CASE r = q
      <4>1. retries'[r] = retries[r] + 1 BY <1>1, <2>4, <3>4 DEF RedisOK
      <4>2. Attempts(r)' \subseteq Attempts(r) \ {g} /\ g \in Attempts(r)
        BY <1>1, <2>1, <2>2, <3>4 DEF Attempts, Settle, Finished
      <4>3. Cardinality(Attempts(r) \ {g}) = Cardinality(Attempts(r)) - 1
            /\ IsFiniteSet(Attempts(r) \ {g})
        BY <3>1, <4>2, FS_RemoveElement
      <4>4. Cardinality(Attempts(r)') <= Cardinality(Attempts(r) \ {g})
        BY <4>2, <4>3, FS_Subset
      <4>5. Cardinality(Attempts(r)') <= Cardinality(Attempts(r)) - 1 BY <4>3, <4>4
      <4>6. QED BY <3>1, <3>2, <4>1, <4>5
    <3>5. QED BY <3>3, <3>4
  <2>5. QED
    BY <1>1, <2>1, <2>3, <2>4
    DEF Settle, DeleteRetryKey, IncrementRetryCount, RedisOK
<1>10. QED BY <1>4, <1>5, <1>6, <1>7, <1>8, <1>9 DEF IInv

-----------------------------------------------------------------------------
LEMMA StepIInv == IInv /\ [Next]_vars => IInv'
<1> SUFFICES ASSUME IInv, [Next]_vars PROVE IInv' OBVIOUS
<1>1. CASE UNCHANGED vars
  BY <1>1 DEF IInv, TypeOK, StagesTrue, CallersTrue, SuccessIsPublished, ResultsKept,
       AttemptsBounded, Attempts, Written, vars, stores, worker, history
<1>2. CASE \E r \in Requests : Service(r) \/ Expire(r)
  BY <1>2, WriteMessageIInv, RecordQueuedIInv, PollIInv, ExpireIInv DEF Service
<1>3. ASSUME NEW g \in Groups, Worker(g) \/ Commit(g) \/ Crash(g) PROVE IInv'
  BY <1>3, ReadIInv, CommitIInv, CrashIInv, GetRetryCountIInv, SendToDLQIInv,
     DropRetriesIInv, MarkFailedIInv, SkipIInv, StartXXIInv, StartImageIInv, RunIInv,
     StoreResultIInv, StoreOutcomeIInv, SettleIInv
  DEF Worker, Route, Work
<1>4. QED BY <1>1, <1>2, <1>3 DEF Next

LEMMA Invariance == Spec => []IInv
BY InitIInv, StepIInv, PTL DEF Spec

\* The type invariant holds for any requests, workers, limits and bounds.
THEOREM TypeCorrect == Spec => []TypeOK
<1>1. IInv => TypeOK BY DEF IInv
<1>2. QED BY <1>1, Invariance, PTL

\* No status is reported for a request that no worker will see, in whatever order
\* the service and the workers write.
THEOREM StatusesAreWritten == Spec => []StatusIsWritten
<1>1. IInv => StatusIsWritten BY DEF IInv, CallersTrue, StatusIsWritten
<1>2. QED BY <1>1, Invariance, PTL

\* "success" is reported only of what was published, over redeliveries, retries,
\* dead letters and crashes.
THEOREM SuccessesArePublished == Spec => []SuccessIsPublished
<1>1. IInv => SuccessIsPublished BY DEF IInv
<1>2. QED BY <1>1, Invariance, PTL

\* A caller that sees "success" finds the result, unless a call to Redis failed or
\* a key expired.
THEOREM ResultsBeforeSuccess == Spec => []ResultBeforeSuccess
<1>1. IInv => ResultBeforeSuccess BY DEF IInv, CallersTrue, ResultBeforeSuccess
<1>2. QED BY <1>1, Invariance, PTL

\* The retry count passes the limit by less than the number of workers that share
\* it, although each tests and increments it in separate steps.
THEOREM RetriesAreBounded == Spec => []RetriesBounded
<1>1. IInv => RetriesBounded
  <2> SUFFICES ASSUME IInv, NEW r \in Requests
               PROVE  retries[r] < MaxRetries + Cardinality(DLQ)
    BY DEF RetriesBounded
  <2>1. /\ retries[r] + Cardinality(Attempts(r)) <= MaxRetries - 1 + Cardinality(DLQ)
        /\ retries[r] \in Nat
    BY DEF IInv, AttemptsBounded, TypeOK
  <2>2. Cardinality(Attempts(r)) \in Nat /\ Cardinality(DLQ) \in Nat
    BY AttemptsFinite DEF IInv
  <2>3. MaxRetries \in Nat BY PublisherAssumption DEF PublisherAssumption
  <2>4. QED BY <2>1, <2>2, <2>3
<1>2. QED BY <1>1, Invariance, PTL

-----------------------------------------------------------------------------
(* The order of the statuses of a request. *)

Early   == {"none", "queued"}
Before  == {"count", "dead", "drop", "mark", "handle"}
Working == {"run", "store", "finish"}

\* How far the status of r may be while its worker has r in hand.
Behind(r) ==
  LET g == Target[r] IN
  /\ delivered[r] = 0 => cur[g] # r /\ status[r] \in Early
  /\ cur[g] = r /\ pc[g] \in Before => status[r] \in Early
  /\ cur[g] = r /\ pc[g] \in Working => status[r] \in Early \cup {"processing"}

StatusesBehind == \A r \in Requests : delivered[r] <= 1 /\ ~GivenUp(r) => Behind(r)

\* A worker that routes a request to the dead letters has given it up.
MarksTrue == \A g \in Groups : pc[g] \in {"drop", "mark"} => GivenUp(cur[g])

OrderInv == IInv /\ StatusesBehind /\ MarksTrue

LEMMA RankOf ==
  /\ Rank("none") = 0 /\ Rank("queued") = 1 /\ Rank("processing") = 2
  /\ \A s \in Final : Rank(s) = 3
BY DEF Rank, Final

LEMMA TargetIn == \A r \in Requests : Target[r] \in Groups
BY PublisherAssumption DEF PublisherAssumption

GivenUpNext(r) == DLQ # {} /\ r \in dead' \cup failed'

\* Giving up is for ever.
LEMMA GivenUpStays ==
  ASSUME dead \subseteq dead', failed \subseteq failed', NEW r
  PROVE  GivenUp(r) => GivenUp(r)'
BY DEF GivenUp

\* What does not store an outcome and does not hand the request to its worker.
Calm(r) ==
  LET g == Target[r] IN
  /\ delivered'[r] = delivered[r]
  /\ \/ status'[r] \in {status[r], "none"}
     \/ status[r] = "none" /\ status'[r] = "queued"
  /\ cur'[g] = r =>
       /\ cur[g] = r
       /\ pc'[g] \in Before => pc[g] \in Before
       /\ pc'[g] \in Working => pc[g] \in Before \cup Working

LEMMA CalmBehind == ASSUME NEW r \in Requests, Behind(r), Calm(r) PROVE Behind(r)'
BY DEF Behind, Calm, Early, Before, Working

LEMMA CalmForward == ASSUME NEW r \in Requests, Calm(r) PROVE Forward(r)
BY RankOf DEF Calm, Forward

\* A step that is calm for every request.
LEMMA AllCalm ==
  ASSUME OrderInv, dead \subseteq dead', failed \subseteq failed',
         \A r \in Requests : Calm(r), MarksTrue'
  PROVE  StatusesBehind' /\ MarksTrue' /\ \A r \in Requests : Forward(r)
<1>1. ASSUME NEW r \in Requests, delivered'[r] <= 1, ~GivenUp(r)' PROVE Behind(r)'
  <2>1. delivered[r] <= 1 /\ ~GivenUp(r) BY <1>1, GivenUpStays DEF Calm
  <2>2. Behind(r) BY <2>1 DEF OrderInv, StatusesBehind
  <2>3. QED BY <2>2, CalmBehind
<1>2. QED BY <1>1, CalmForward DEF StatusesBehind

Ordered == StatusesBehind' /\ MarksTrue' /\ \A r \in Requests : Forward(r)

\* MarksTrue where a worker neither starts to mark nor changes its request.
LEMMA MarksStay ==
  ASSUME OrderInv, dead \subseteq dead', failed \subseteq failed', NEW g \in Groups,
         \A h \in Groups : h # g => pc'[h] = pc[h] /\ cur'[h] = cur[h],
         pc'[g] \in {"drop", "mark"} =>
           \/ GivenUpNext(cur'[g])
           \/ pc[g] \in {"drop", "mark"} /\ cur'[g] = cur[g]
  PROVE  MarksTrue'
<1>1. ASSUME NEW h \in Groups, pc'[h] \in {"drop", "mark"} PROVE GivenUpNext(cur'[h])
  <2>1. CASE pc[h] \in {"drop", "mark"} /\ cur'[h] = cur[h]
    <3>1. GivenUp(cur[h]) BY <2>1 DEF OrderInv, MarksTrue
    <3>2. QED BY <2>1, <3>1 DEF GivenUp, GivenUpNext
  <2>2. QED BY <1>1, <2>1
<1>2. QED BY <1>1 DEF MarksTrue, GivenUp, GivenUpNext

LEMMA ServiceOrder ==
  ASSUME OrderInv, NEW q \in Requests, Service(q) \/ Expire(q)
  PROVE  Ordered
<1>1. RedisOK BY TypeParts DEF OrderInv, IInv
<1>2. UNCHANGED <<dead, pc, cur, delivered, failed>>
  BY DEF Service, WriteMessage, RecordQueued, Poll, Expire, stores, worker, history
<1>3. \A r \in Requests :
        \/ status'[r] \in {status[r], "none"}
        \/ status[r] = "none" /\ status'[r] = "queued"
  BY <1>1
  DEF RedisOK, Service, WriteMessage, RecordQueued, QueuedStatus, Poll, Expire, stores
<1>4. \A r \in Requests : Calm(r) BY <1>2, <1>3 DEF Calm
<1>5. MarksTrue' BY <1>2 DEF OrderInv, MarksTrue, GivenUp
<1>6. QED BY <1>2, <1>4, <1>5, AllCalm DEF Ordered

\* The steps of a worker that store no status and read no message.
LEMMA QuietOrder ==
  ASSUME OrderInv, NEW g \in Groups, UNCHANGED <<status, delivered>>,
         dead \subseteq dead', failed \subseteq failed',
         \A h \in Groups : h # g => pc'[h] = pc[h] /\ cur'[h] = cur[h],
         \/ cur'[g] = Null
         \/ /\ cur'[g] = cur[g]
            /\ pc'[g] \in Before => pc[g] \in Before
            /\ pc'[g] \in Working => pc[g] \in Before \cup Working,
         pc'[g] \in {"drop", "mark"} =>
           \/ GivenUpNext(cur'[g])
           \/ pc[g] \in {"drop", "mark"} /\ cur'[g] = cur[g]
  PROVE  Ordered
<1>1. \A r \in Requests : r # Null /\ Target[r] \in Groups
  BY TargetIn, PublisherAssumption DEF PublisherAssumption
<1>2. ASSUME NEW r \in Requests PROVE Calm(r)
  <2>1. CASE Target[r] = g BY <1>1, <2>1 DEF Calm
  <2>2. CASE Target[r] # g BY <1>1, <2>2 DEF Calm, Before, Working
  <2>3. QED BY <2>1, <2>2
<1>3. MarksTrue' BY MarksStay
<1>4. QED BY <1>2, <1>3, AllCalm DEF Ordered

LEMMA QuietStepsOrder ==
  ASSUME OrderInv, NEW g \in Groups,
         \/ Commit(g) \/ Crash(g) \/ GetRetryCount(g) \/ SendToDLQ(g) \/ DropRetries(g)
         \/ Skip(g) \/ Run(g) \/ StoreResult(g) \/ Settle(g)
  PROVE  Ordered
<1>1. WorkersOK BY TypeParts DEF OrderInv, IInv
<1>2. CASE Commit(g)
  BY <1>2, QuietOrder DEF Commit, stores, worker, history
<1>3. CASE Crash(g)
  BY <1>1, <1>3, QuietOrder DEF WorkersOK, Crash, Goto, stores, history
<1>4. CASE GetRetryCount(g)
  BY <1>1, <1>4, QuietOrder DEF WorkersOK, GetRetryCount, Goto, Before, Working, stores, history
<1>5. CASE SendToDLQ(g)
  <2>1. DLQ # {} BY <1>5 DEF OrderInv, IInv, StagesTrue, SendToDLQ
  <2>2. cur' = cur /\ cur[g] \in dead' \cup failed' BY <1>5 DEF SendToDLQ
  <2>3. GivenUpNext(cur'[g]) BY <2>1, <2>2 DEF GivenUpNext
  <2>4. QED
    BY <1>1, <1>5, <2>3, QuietOrder DEF WorkersOK, SendToDLQ, Goto, Before, Working
<1>6. CASE DropRetries(g)
  BY <1>1, <1>6, QuietOrder DEF WorkersOK, DropRetries, Goto, Before, Working, history
<1>7. CASE Skip(g)
  BY <1>1, <1>7, QuietOrder DEF WorkersOK, Skip, ReturnResult, Goto, Before, Working, stores, history
<1>8. CASE Run(g)
  BY <1>1, <1>8, QuietOrder DEF WorkersOK, Run, Goto, Before, Working, stores
<1>9. CASE StoreResult(g)
  BY <1>1, <1>9, QuietOrder DEF WorkersOK, StoreResult, Goto, Before, Working, history
<1>10. CASE Settle(g)
  BY <1>1, <1>10, QuietOrder DEF WorkersOK, Settle, Finished, Goto, history
<1>11. QED BY <1>2, <1>3, <1>4, <1>5, <1>6, <1>7, <1>8, <1>9, <1>10

\* The worker that is handed its own request has seen it before, or its status is
\* still the service's.
LEMMA ReadOrder ==
  ASSUME OrderInv, NEW g \in Groups, Read(g)
  PROVE  Ordered
<1> DEFINE m == topic[read[g] + 1]
<1>1. WorkersOK /\ HistoryOK BY TypeParts DEF OrderInv, IInv
<1>2. UNCHANGED <<status, dead, failed>> BY DEF Read, stores
<1>3. /\ pc' = [pc EXCEPT ![g] = IF g \in DLQ THEN "count" ELSE "handle"]
      /\ cur' = [cur EXCEPT ![g] = m]
      /\ delivered' = [delivered EXCEPT ![m] = IF Target[m] = g /\ @ < 2 THEN @ + 1 ELSE @]
  BY DEF Read, Goto
<1>4. \A h \in Groups : h # g => pc'[h] = pc[h] /\ cur'[h] = cur[h]
  BY <1>1, <1>3 DEF WorkersOK
<1>5. pc'[g] \in {"count", "handle"} /\ cur'[g] = m BY <1>1, <1>3 DEF WorkersOK
<1>6. MarksTrue' BY <1>2, <1>4, <1>5, MarksStay
<1>7. ASSUME NEW r \in Requests, delivered'[r] <= 1, ~GivenUp(r)' PROVE Behind(r)'
  <2>1. ~GivenUp(r) BY <1>2, <1>7 DEF GivenUp
  <2>2. CASE Target[r] = g /\ r = m
    <3>1. delivered[r] = 0 /\ delivered'[r] = 1
      BY <1>1, <1>3, <1>7, <2>2 DEF HistoryOK
    <3>2. status[r] \in Early BY <2>1, <3>1 DEF OrderInv, StatusesBehind, Behind
    <3>3. QED BY <1>2, <1>5, <2>2, <3>1, <3>2 DEF Behind, Early, Working
  <2>3. CASE ~(Target[r] = g /\ r = m)
    <3>1. delivered'[r] = delivered[r] BY <1>1, <1>3, <2>3 DEF HistoryOK
    <3>2. Calm(r) BY <1>2, <1>4, <1>5, <2>3, <3>1, TargetIn DEF Calm, Before, Working
    <3>3. Behind(r) BY <1>7, <2>1, <3>1 DEF OrderInv, StatusesBehind
    <3>4. QED BY <3>2, <3>3, CalmBehind
  <2>4. QED BY <2>2, <2>3
<1>8. \A r \in Requests : Forward(r) BY <1>2 DEF Forward
<1>9. QED BY <1>6, <1>7, <1>8 DEF Ordered, StatusesBehind

\* The steps of a worker that store the status of the request in its hands and of
\* no other.
LEMMA StoringOrder ==
  ASSUME OrderInv, NEW g \in Groups, NEW q \in Requests, cur[g] = q,
         UNCHANGED delivered, dead \subseteq dead', failed \subseteq failed',
         \A h \in Groups : h # g => pc'[h] = pc[h] /\ cur'[h] = cur[h],
         cur'[g] \in {q, Null}, pc'[g] \notin {"drop", "mark"},
         \A r \in Requests : r # q => status'[r] = status[r],
         Forward(q),
         delivered[q] <= 1 /\ ~GivenUp(q) => Behind(q)'
  PROVE  Ordered
<1>1. MarksTrue' BY MarksStay
<1>2. ASSUME NEW r \in Requests, r # q PROVE Calm(r)
  <2>1. r # Null /\ Target[r] \in Groups
    BY TargetIn, PublisherAssumption DEF PublisherAssumption
  <2>2. CASE Target[r] = g BY <1>2, <2>1, <2>2 DEF Calm
  <2>3. CASE Target[r] # g BY <1>2, <2>1, <2>3 DEF Calm, Before, Working
  <2>4. QED BY <2>2, <2>3
<1>3. ASSUME NEW r \in Requests, delivered'[r] <= 1, ~GivenUp(r)' PROVE Behind(r)'
  <2>1. delivered[r] <= 1 /\ ~GivenUp(r) BY <1>3, GivenUpStays
  <2>2. CASE r = q BY <2>1, <2>2
  <2>3. CASE r # q
    <3>1. Behind(r) BY <2>1 DEF OrderInv, StatusesBehind
    <3>2. QED BY <1>2, <2>3, <3>1, CalmBehind
  <2>4. QED BY <2>2, <2>3
<1>4. \A r \in Requests : Forward(r) BY <1>2, CalmForward
<1>5. QED BY <1>1, <1>3, <1>4 DEF Ordered, StatusesBehind

LEMMA MarkFailedOrder ==
  ASSUME OrderInv, NEW g \in Groups, MarkFailed(g)
  PROVE  Ordered
<1>1. RedisOK /\ WorkersOK BY TypeParts DEF OrderInv, IInv
<1>2. PICK q \in Requests : q = cur[g] /\ GivenUp(q)
  BY <1>1, Held DEF OrderInv, MarksTrue, MarkFailed
<1>3. UNCHANGED <<dead, failed, delivered>>
  BY DEF MarkFailed, Finished, history
<1>4. /\ \A h \in Groups : h # g => pc'[h] = pc[h] /\ cur'[h] = cur[h]
      /\ pc'[g] = "idle" /\ cur'[g] = Null
  BY <1>1 DEF WorkersOK, MarkFailed, Finished, Goto
<1>5. /\ \A r \in Requests : r # q => status'[r] = status[r]
      /\ status'[q] \in {status[q], "failed"}
  BY <1>1, <1>2 DEF RedisOK, MarkFailed, StoreXX, StatusXX
<1>6. Forward(q) BY <1>2, <1>5 DEF Forward
<1>7. QED BY <1>2, <1>3, <1>4, <1>5, <1>6, StoringOrder

\* A worker starts on a request while its status is still the service's.
LEMMA StartOrder ==
  ASSUME OrderInv, NEW g \in Groups, StartXX(g) \/ StartImage(g)
  PROVE  Ordered
<1>1. RedisOK /\ WorkersOK BY TypeParts DEF OrderInv, IInv
<1>2. PICK q \in Requests : q = cur[g] /\ Target[q] = g /\ pc[g] = "handle"
  BY <1>1, Held DEF StartXX, StartImage
<1>3. UNCHANGED <<dead, delivered>> /\ failed \subseteq failed'
  BY DEF StartXX, StartImage, InvalidData
<1>4. /\ \A h \in Groups : h # g => pc'[h] = pc[h] /\ cur'[h] = cur[h]
      /\ pc'[g] \in {"run", "idle", "settle"} /\ cur'[g] \in {q, Null}
      /\ pc'[g] = "idle" => cur'[g] = Null
  BY <1>1, <1>2 DEF WorkersOK, StartXX, StartImage, InvalidData, ReturnResult, Goto
<1>5. /\ \A r \in Requests : r # q => status'[r] = status[r]
      /\ status'[q] \in {status[q], "processing"}
  BY <1>1, <1>2
  DEF RedisOK, StartXX, StartImage, InvalidData, StoreXX, StatusXX
<1>6. ASSUME delivered[q] <= 1, ~GivenUp(q)
      PROVE  delivered[q] # 0 /\ status[q] \in Early
  BY <1>2, <1>6 DEF OrderInv, StatusesBehind, Behind, Before
<1>7. Forward(q)
  <2>1. delivered[q] <= 1 \/ delivered[q] > 1
    <3>1. HistoryOK BY TypeParts DEF OrderInv, IInv
    <3>2. QED BY <1>2, <3>1 DEF HistoryOK
  <2>2. QED BY <1>5, <1>6, <2>1, RankOf DEF Forward, Early
<1>8. delivered[q] <= 1 /\ ~GivenUp(q) => Behind(q)'
  BY <1>2, <1>3, <1>4, <1>5, <1>6 DEF Behind, Early, Before, Working
<1>9. QED BY <1>2, <1>3, <1>4, <1>5, <1>7, <1>8, StoringOrder

\* It ends while the status is at most "processing".
LEMMA OutcomeOrder ==
  ASSUME OrderInv, NEW g \in Groups, StoreOutcome(g)
  PROVE  Ordered
<1>1. RedisOK /\ WorkersOK /\ HistoryOK BY TypeParts DEF OrderInv, IInv
<1>2. PICK q \in Requests : q = cur[g] /\ Target[q] = g /\ pc[g] = "finish"
  BY <1>1, Held DEF OrderInv, IInv, StagesTrue, StoreOutcome
<1>3. UNCHANGED <<dead, delivered, failed>> BY DEF StoreOutcome, history
<1>4. /\ \A h \in Groups : h # g => pc'[h] = pc[h] /\ cur'[h] = cur[h]
      /\ pc'[g] \in {"idle", "settle"} /\ cur'[g] \in {q, Null}
  BY <1>1, <1>2 DEF WorkersOK, StoreOutcome, ReturnResult, Goto
<1>5. FinalStatus(res[g]) \in Final BY DEF FinalStatus, Final
<1>6. /\ \A r \in Requests : r # q => status'[r] = status[r]
      /\ status'[q] \in {status[q]} \cup Final
  BY <1>1, <1>2, <1>5 DEF RedisOK, StoreOutcome, Store, StoreXX, StatusXX
<1>7. ASSUME delivered[q] <= 1, ~GivenUp(q)
      PROVE  delivered[q] # 0 /\ status[q] \in Early \cup {"processing"}
  BY <1>2, <1>7 DEF OrderInv, StatusesBehind, Behind, Working
<1>8. Forward(q)
  <2>1. delivered[q] <= 1 \/ delivered[q] > 1 BY <1>1, <1>2 DEF HistoryOK
  <2>2. "queued" \notin Final BY DEF Final
  <2>3. QED BY <1>6, <1>7, <2>1, <2>2, RankOf DEF Forward, Early
<1>9. delivered[q] <= 1 /\ ~GivenUp(q) => Behind(q)'
  BY <1>2, <1>3, <1>4, <1>7 DEF Behind, Before, Working
<1>10. QED BY <1>2, <1>3, <1>4, <1>6, <1>8, <1>9, StoringOrder

LEMMA StepOrder ==
  ASSUME OrderInv, [Next]_vars
  PROVE  StatusesBehind' /\ MarksTrue' /\ [\A r \in Requests : Forward(r)]_vars
<1>1. CASE UNCHANGED vars
  BY <1>1
  DEF OrderInv, StatusesBehind, Behind, MarksTrue, GivenUp, vars, stores, worker, history
<1>2. CASE \E r \in Requests : Service(r) \/ Expire(r)
  BY <1>2, ServiceOrder DEF Ordered
<1>3. ASSUME NEW g \in Groups, Worker(g) \/ Commit(g) \/ Crash(g) PROVE Ordered
  BY <1>3, QuietStepsOrder, ReadOrder, MarkFailedOrder, StartOrder, OutcomeOrder
  DEF Worker, Route, Work
<1>4. QED BY <1>1, <1>2, <1>3 DEF Next, Ordered

LEMMA InitOrder == Init => StatusesBehind /\ MarksTrue
<1> SUFFICES ASSUME Init PROVE StatusesBehind /\ MarksTrue OBVIOUS
<1>1. \A r \in Requests : r # Null /\ Target[r] \in Groups
  BY TargetIn, PublisherAssumption DEF PublisherAssumption
<1>2. StatusesBehind BY <1>1 DEF Init, StatusesBehind, Behind, Early
<1>3. MarksTrue BY DEF Init, MarksTrue
<1>4. QED BY <1>2, <1>3

\* The status that a caller polls never goes back, whatever order the service and
\* the workers write in, before a second delivery or a dead letter; and never to
\* "queued" (SetNX in the services).
THEOREM StatusesGoForward == Spec => ForwardOnly
<1>1. Init => StatusesBehind /\ MarksTrue BY InitOrder
<1>2. IInv /\ StatusesBehind /\ MarksTrue /\ [Next]_vars
      => StatusesBehind' /\ MarksTrue' /\ [\A r \in Requests : Forward(r)]_vars
  BY StepOrder DEF OrderInv
<1>3. QED BY <1>1, <1>2, Invariance, PTL DEF Spec, ForwardOnly

-----------------------------------------------------------------------------
(* The delivery of the requests of the topic. *)

\* What is over for a request that its worker lets go: it is published, failed or
\* dead-lettered, and the collection's caller finds a final status.
Handled(r) == r \in published \cup failed \cup dead \/ Lossy(r)
Settled(r) ==
  Kind[Target[r]] = "image" /\ faults = 0 /\ crashes = 0
    => status[r] \in Final \/ r \in dead
LetGo(r) == Handled(r) /\ Settled(r)

\* What the late stages of a worker say of the request in its hands.
Stage(g) ==
  /\ pc[g] \in {"drop", "mark"} =>
       cur[g] \in dead \cup failed /\ (faults = 0 => cur[g] \in dead)
  /\ pc[g] \in {"store", "finish"} => cur[g] \in published \cup failed
  /\ pc[g] = "settle" /\ Target[cur[g]] = g => LetGo(cur[g])

Fresh(r)   == Written(r) => Ahead(r) \/ delivered[r] > 0
Dealt(r)   == delivered[r] > 0 => InHand(r) \/ LetGo(r)
Waiting(r) ==
  /\ caller[r] = "waiting" => Written(r) /\ (faults = 0 => status[r] # "none")
  /\ caller[r] = "expired" => faults > 0

DeliveryInv ==
  /\ \A r \in Requests : Fresh(r) /\ Dealt(r) /\ Waiting(r)
  /\ \A g \in Groups : Stage(g)

\* Histories grow.
Grow ==
  /\ published \subseteq published' /\ failed \subseteq failed' /\ dead \subseteq dead'
  /\ faults' \in Nat /\ faults' >= faults
  /\ crashes' \in Nat /\ crashes' >= crashes

\* A request that was let go stays so, unless its status is overwritten.
LEMMA LetGoStays ==
  ASSUME IInv, Grow, NEW r \in Requests, LetGo(r),
         status[r] \in Final => status'[r] \in Final
  PROVE  LetGo(r)'
<1>1. /\ faults \in Nat /\ faults' \in Nat /\ faults' >= faults
      /\ crashes \in Nat /\ crashes' \in Nat /\ crashes' >= crashes
  BY PublisherAssumption DEF IInv, TypeOK, Grow, PublisherAssumption
<1>2. Handled(r)' BY <1>1 DEF LetGo, Handled, Lossy, Grow
<1>3. faults' = 0 /\ crashes' = 0 => faults = 0 /\ crashes = 0
  <2> SUFFICES ASSUME faults' = 0, crashes' = 0 PROVE faults = 0 /\ crashes = 0 OBVIOUS
  <2>1. faults <= 0 /\ crashes <= 0 BY <1>1
  <2>2. QED BY <1>1, <2>1
<1>4. Settled(r)' BY <1>3 DEF LetGo, Settled, Grow
<1>5. QED BY <1>2, <1>4 DEF LetGo

\* The steps of a worker after it has read a message: it keeps the request or lets
\* it go, and stores at most the status of that request.
LEMMA Move ==
  ASSUME IInv, DeliveryInv, Grow, NEW g \in Groups, NEW q \in Requests, cur[g] = q,
         UNCHANGED <<topic, read, caller, delivered>>,
         \A h \in Groups : h # g => pc'[h] = pc[h] /\ cur'[h] = cur[h],
         cur'[g] \in {q, Null},
         \A r \in Requests : r # q => status'[r] = status[r],
         status[q] # "none" => status'[q] # "none",
         status[q] \in Final => status'[q] \in Final \/ Target[q] = g,
         Target[q] = g => cur'[g] = q \/ LetGo(q)',
         Stage(g)'
  PROVE  DeliveryInv'
<1>1. \A r \in Requests : r # Null /\ Target[r] \in Groups
  BY PublisherAssumption DEF PublisherAssumption
<1>2. ASSUME NEW r \in Requests PROVE Fresh(r)'
  BY DEF DeliveryInv, Fresh, Written, Ahead
<1>3. ASSUME NEW r \in Requests PROVE Waiting(r)'
  <2>1. faults' = 0 => faults = 0
    BY PublisherAssumption DEF IInv, TypeOK, Grow, PublisherAssumption
  <2>2. faults > 0 => faults' > 0
    BY PublisherAssumption DEF IInv, TypeOK, Grow, PublisherAssumption
  <2>3. Waiting(r) BY DEF DeliveryInv
  <2>4. QED BY <2>1, <2>2, <2>3 DEF Waiting, Written
<1>4. ASSUME NEW r \in Requests, delivered'[r] > 0 PROVE InHand(r)' \/ LetGo(r)'
  <2>1. InHand(r) \/ LetGo(r) BY <1>4 DEF DeliveryInv, Dealt
  <2>2. CASE r = q /\ Target[q] = g BY <2>2 DEF InHand
  <2>3. CASE ~(r = q /\ Target[q] = g)
    <3>1. InHand(r) => InHand(r)' BY <1>1, <2>3 DEF InHand
    <3>2. status[r] \in Final => status'[r] \in Final BY <2>3
    <3>3. QED BY <2>1, <3>1, <3>2, LetGoStays
  <2>4. QED BY <2>2, <2>3
<1>5. ASSUME NEW h \in Groups, h # g PROVE Stage(h)'
  <2>1. pc'[h] = pc[h] /\ cur'[h] = cur[h] /\ Stage(h) BY <1>5 DEF DeliveryInv
  <2>2. faults' = 0 => faults = 0
    BY PublisherAssumption DEF IInv, TypeOK, Grow, PublisherAssumption
  <2>3. ASSUME pc[h] = "settle", Target[cur[h]] = h PROVE (LetGo(cur[h]))'
    <3>1. PICK r \in Requests : r = cur[h] BY <2>3 DEF IInv, TypeOK
    <3>2. LetGo(r) BY <2>1, <2>3, <3>1 DEF Stage
    <3>3. status[r] \in Final => status'[r] \in Final BY <1>5, <2>3, <3>1
    <3>4. LetGo(r)' BY <3>2, <3>3, LetGoStays
    <3>5. QED BY <2>1, <3>1, <3>4
  <2>4. QED BY <2>1, <2>2, <2>3 DEF Stage, Grow
<1>6. QED BY <1>2, <1>3, <1>4, <1>5 DEF DeliveryInv, Dealt

LEMMA InitDelivery == Init => DeliveryInv
<1> SUFFICES ASSUME Init PROVE DeliveryInv OBVIOUS
<1>1. \A r \in Requests : ~Written(r) BY DEF Init, Written
<1>2. \A r \in Requests : Fresh(r) /\ Dealt(r) /\ Waiting(r)
  BY <1>1 DEF Init, Fresh, Dealt, Waiting
<1>3. \A g \in Groups : Stage(g) BY DEF Init, Stage
<1>4. QED BY <1>2, <1>3 DEF DeliveryInv

\* A request that is appended to the topic is ahead of its worker.
LEMMA WriteMessageDelivery ==
  ASSUME IInv, DeliveryInv, NEW q \in Requests, WriteMessage(q)
  PROVE  DeliveryInv'
<1>1. LogOK /\ CallsOK /\ BoundsOK BY TypeParts DEF IInv
<1>2. UNCHANGED <<read, status, dead, pc, cur, published, failed, delivered, crashes>>
  BY DEF WriteMessage, stores, worker, history
<1>3. Grow BY <1>1, <1>2 DEF WriteMessage, NoFault, Fault, Grow, BoundsOK
<1>4. /\ Len(topic) \in Nat /\ Len(topic') \in Nat /\ Len(topic') >= Len(topic)
      /\ \A i \in 1..Len(topic) : topic'[i] = topic[i]
  <2>1. topic \in Seq(Requests) /\ Len(topic) \in Nat BY <1>1 DEF LogOK
  <2>2. \/ topic' = topic \/ topic' = Append(topic, q) \/ topic' = topic \o <<q, q>>
    BY DEF WriteMessage
  <2>3. /\ Len(Append(topic, q)) = Len(topic) + 1
        /\ \A i \in 1..Len(topic) : Append(topic, q)[i] = topic[i]
    BY <2>1, AppendKeeps
  <2>4. /\ Len(topic \o <<q, q>>) = Len(topic) + 2
        /\ \A i \in 1..Len(topic) : (topic \o <<q, q>>)[i] = topic[i]
    BY <2>1, AppendTwiceKeeps
  <2>5. QED BY <2>1, <2>2, <2>3, <2>4
<1>5. \A r \in Requests : Written(r) => Written(r)' BY <1>4 DEF Written
<1>6. ASSUME NEW r \in Requests PROVE Fresh(r)'
  <2> SUFFICES ASSUME Written(r)' PROVE Ahead(r)' \/ delivered'[r] > 0 BY DEF Fresh
  <2>1. PICK i \in 1..Len(topic') : topic'[i] = r BY DEF Written
  <2>2. read[Target[r]] \in Nat /\ read[Target[r]] <= Len(topic)
    BY <1>1, TargetIn DEF LogOK
  <2>3. CASE i <= Len(topic)
    <3>1. Written(r) BY <1>4, <2>1, <2>3 DEF Written
    <3>2. Ahead(r) \/ delivered[r] > 0 BY <3>1 DEF DeliveryInv, Fresh
    <3>3. QED BY <1>2, <1>4, <3>2 DEF Ahead
  <2>4. CASE ~(i <= Len(topic))
    <3>1. i > read[Target[r]] BY <1>4, <2>1, <2>2, <2>4
    <3>2. QED BY <1>2, <2>1, <3>1 DEF Ahead
  <2>5. QED BY <2>3, <2>4
<1>7. ASSUME NEW r \in Requests PROVE Waiting(r)' /\ Dealt(r)'
  <2>1. caller'[r] \in {"waiting", "expired"} => caller'[r] = caller[r]
    BY <1>1 DEF WriteMessage, Call, CallsOK
  <2>2. /\ faults' = 0 => faults = 0
        /\ faults > 0 => faults' > 0
    BY <1>1, <1>3 DEF Grow, BoundsOK
  <2>3. Waiting(r)' BY <1>2, <1>5, <2>1, <2>2 DEF DeliveryInv, Waiting
  <2>4. LetGo(r) => LetGo(r)' BY <1>2, <1>3, LetGoStays
  <2>5. QED BY <1>2, <2>3, <2>4 DEF DeliveryInv, Dealt, InHand
<1>8. ASSUME NEW g \in Groups PROVE Stage(g)'
  <2>1. Stage(g) BY DEF DeliveryInv
  <2>2. faults' = 0 => faults = 0 BY <1>1, <1>3 DEF Grow, BoundsOK
  <2>3. ASSUME pc[g] = "settle", Target[cur[g]] = g PROVE (LetGo(cur[g]))'
    <3>1. PICK r \in Requests : r = cur[g] BY <2>3 DEF IInv, TypeOK
    <3>2. LetGo(r)' BY <1>2, <1>3, <2>1, <2>3, <3>1, LetGoStays DEF Stage
    <3>3. QED BY <1>2, <3>1, <3>2
  <2>4. QED BY <1>2, <2>1, <2>2, <2>3 DEF Stage
<1>9. QED BY <1>6, <1>7, <1>8 DEF DeliveryInv

\* The steps of a service and of Redis that leave the topic and the workers alone.
LEMMA QuietDelivery ==
  ASSUME IInv, DeliveryInv, Grow,
         UNCHANGED <<topic, read, pc, cur, delivered>>,
         faults' = 0 => \A r \in Requests : status[r] \in Final => status'[r] \in Final,
         \A r \in Requests : Waiting(r)'
  PROVE  DeliveryInv'
<1>1. faults' = 0 => faults = 0
  BY PublisherAssumption DEF IInv, TypeOK, Grow, PublisherAssumption
<1>2. ASSUME NEW r \in Requests, LetGo(r) PROVE LetGo(r)'
  <2>1. CASE faults' = 0 BY <1>2, <2>1, LetGoStays
  <2>2. CASE faults' # 0
    <3>1. Settled(r)' BY <2>2 DEF Settled
    <3>2. /\ faults \in Nat /\ faults' \in Nat /\ faults' >= faults
          /\ crashes \in Nat /\ crashes' \in Nat /\ crashes' >= crashes
      BY PublisherAssumption DEF IInv, TypeOK, Grow, PublisherAssumption
    <3>3. Handled(r)' BY <1>2, <3>2 DEF LetGo, Handled, Lossy, Grow
    <3>4. QED BY <3>1, <3>3 DEF LetGo
  <2>3. QED BY <2>1, <2>2
<1>3. ASSUME NEW r \in Requests PROVE Fresh(r)' /\ Dealt(r)'
  BY <1>2 DEF DeliveryInv, Fresh, Written, Ahead, Dealt, InHand
<1>4. ASSUME NEW g \in Groups PROVE Stage(g)'
  <2>1. Stage(g) BY DEF DeliveryInv
  <2>2. ASSUME pc[g] = "settle", Target[cur[g]] = g PROVE (LetGo(cur[g]))'
    <3>1. PICK r \in Requests : r = cur[g] BY <2>2 DEF IInv, TypeOK
    <3>2. LetGo(r)' BY <1>2, <2>1, <2>2, <3>1 DEF Stage
    <3>3. QED BY <3>1, <3>2
  <2>3. QED BY <1>1, <2>1, <2>2 DEF Stage, Grow
<1>5. QED BY <1>3, <1>4 DEF DeliveryInv

LEMMA RedisDelivery ==
  ASSUME IInv, DeliveryInv, NEW q \in Requests,
         RecordQueued(q) \/ Poll(q) \/ Expire(q)
  PROVE  DeliveryInv'
<1>1. RedisOK /\ CallsOK /\ BoundsOK BY TypeParts DEF IInv
<1>2. UNCHANGED <<topic, read, dead, pc, cur, published, failed, delivered, crashes>>
  BY DEF RecordQueued, Poll, Expire, stores, worker, history
<1>3. /\ faults' \in Nat /\ faults' >= faults
      /\ faults' = 0 => faults = 0 /\ ~Expire(q)
      /\ faults > 0 => faults' > 0
  BY <1>1 DEF RecordQueued, Poll, Expire, NoFault, Fault, BoundsOK
<1>4. Grow BY <1>1, <1>2, <1>3 DEF Grow, BoundsOK
<1>5. ASSUME NEW r \in Requests, ~Expire(q), status[r] # "none"
      PROVE  status'[r] = status[r]
  BY <1>1, <1>5 DEF RedisOK, RecordQueued, QueuedStatus, Poll, stores
<1>6. ASSUME NEW r \in Requests PROVE Waiting(r)'
  <2>1. Waiting(r) BY DEF DeliveryInv
  <2>2. CASE caller'[r] = caller[r] \/ caller'[r] \notin {"waiting", "expired"}
    BY <1>2, <1>3, <1>5, <2>1, <2>2 DEF Waiting, Written
  <2>3. CASE caller'[r] # caller[r] /\ caller'[r] = "waiting"
    <3>1. caller[r] = "written" /\ r = q /\ status' = QueuedStatus(q)
      BY <1>1, <2>3 DEF RecordQueued, Poll, Expire, Call, CallsOK
    <3>2. status'[r] # "none" BY <1>1, <3>1 DEF RedisOK, QueuedStatus
    <3>3. Written(r) BY <3>1 DEF IInv, CallersTrue
    <3>4. QED BY <1>2, <2>3, <3>2, <3>3 DEF Waiting, Written
  <2>4. CASE caller'[r] # caller[r] /\ caller'[r] = "expired"
    <3>1. caller[r] = "waiting" /\ status[r] = "none"
      BY <1>1, <2>4 DEF RecordQueued, Poll, Expire, Call, CallsOK
    <3>2. faults # 0 BY <2>1, <3>1 DEF Waiting
    <3>3. faults' > 0 BY <1>1, <1>3, <3>2 DEF BoundsOK
    <3>4. QED BY <2>4, <3>3 DEF Waiting
  <2>5. QED BY <2>2, <2>3, <2>4
<1>7. faults' = 0 => \A r \in Requests : status[r] \in Final => status'[r] \in Final
  BY <1>3, <1>5 DEF Final
<1>8. QED BY <1>2, <1>4, <1>6, <1>7, QuietDelivery

\* The message that a worker reads is in its hands, or it is not its own.
LEMMA ReadDelivery ==
  ASSUME IInv, DeliveryInv, NEW g \in Groups, Read(g)
  PROVE  DeliveryInv'
<1> DEFINE m == topic[read[g] + 1]
<1>1. LogOK /\ WorkersOK /\ HistoryOK BY TypeParts DEF IInv
<1>2. UNCHANGED <<topic, status, dead, caller, published, failed, faults, crashes>>
  BY DEF Read, stores
<1>3. /\ pc' = [pc EXCEPT ![g] = IF g \in DLQ THEN "count" ELSE "handle"]
      /\ cur' = [cur EXCEPT ![g] = m]
      /\ read' = [read EXCEPT ![g] = @ + 1]
      /\ delivered' = [delivered EXCEPT ![m] = IF Target[m] = g /\ @ < 2 THEN @ + 1 ELSE @]
  BY DEF Read, Goto
<1>4. pc[g] = "idle" /\ cur[g] = Null BY <1>1 DEF Read, WorkersOK
<1>5. \A r \in Requests : r # Null /\ Target[r] \in Groups
  BY PublisherAssumption DEF PublisherAssumption
<1>6. m \in Requests
  <2>1. read[g] \in Nat /\ read[g] < Len(topic) /\ Len(topic) \in Nat
    BY <1>1 DEF Read, LogOK
  <2>2. QED BY <1>1, <2>1, ElementOfSeq DEF LogOK
<1>7. \A r \in Requests : LetGo(r) => LetGo(r)'
  BY <1>2 DEF LetGo, Handled, Settled, Lossy
<1>8. ASSUME NEW r \in Requests PROVE Fresh(r)' /\ Dealt(r)' /\ Waiting(r)'
  <2>1. Fresh(r) /\ Dealt(r) /\ Waiting(r) BY DEF DeliveryInv
  <2>2. Waiting(r)' BY <1>2, <2>1 DEF Waiting, Written
  <2>3. CASE r = m /\ Target[r] = g
    <3>1. delivered'[r] > 0 BY <1>1, <1>3, <1>6, <2>3 DEF HistoryOK
    <3>2. InHand(r)' BY <1>1, <1>3, <2>3 DEF InHand, WorkersOK
    <3>3. QED BY <2>2, <3>1, <3>2 DEF Fresh, Dealt
  <2>4. CASE ~(r = m /\ Target[r] = g)
    <3>1. delivered'[r] = delivered[r] BY <1>1, <1>3, <1>6, <2>4 DEF HistoryOK
    <3>2. InHand(r) => InHand(r)' BY <1>1, <1>3, <1>4, <1>5 DEF InHand, WorkersOK
    <3>3. Dealt(r)' BY <1>7, <2>1, <3>1, <3>2 DEF Dealt
    <3>4. Ahead(r) => Ahead(r)'
      <4> SUFFICES ASSUME Ahead(r) PROVE Ahead(r)' OBVIOUS
      <4>1. PICK i \in 1..Len(topic) : i > read[Target[r]] /\ topic[i] = r BY DEF Ahead
      <4>2. CASE Target[r] = g
        <5>1. i # read[g] + 1 BY <2>4, <4>1, <4>2
        <5>2. read'[g] = read[g] + 1 /\ read[g] \in Nat BY <1>1, <1>3 DEF LogOK
        <5>3. i > read'[g] BY <4>1, <4>2, <5>1, <5>2
        <5>4. QED BY <1>2, <4>1, <4>2, <5>3 DEF Ahead
      <4>3. CASE Target[r] # g
        <5>1. read'[Target[r]] = read[Target[r]] BY <1>1, <1>3, <1>5, <4>3 DEF LogOK
        <5>2. QED BY <1>2, <4>1, <5>1 DEF Ahead
      <4>4. QED BY <4>2, <4>3
    <3>5. Fresh(r)' BY <1>2, <2>1, <3>1, <3>4 DEF Fresh, Written
    <3>6. QED BY <2>2, <3>3, <3>5
  <2>5. QED BY <2>3, <2>4
<1>9. ASSUME NEW h \in Groups PROVE Stage(h)'
  <2>1. CASE h = g BY <1>1, <1>3, <2>1 DEF Stage, WorkersOK
  <2>2. CASE h # g
    <3>1. pc'[h] = pc[h] /\ cur'[h] = cur[h] /\ Stage(h)
      BY <1>1, <1>3, <2>2 DEF WorkersOK, DeliveryInv
    <3>2. QED BY <1>2, <3>1 DEF Stage, LetGo, Handled, Settled, Lossy
  <2>3. QED BY <2>1, <2>2
<1>10. QED BY <1>8, <1>9 DEF DeliveryInv

\* A crash takes a worker back to an offset it had read: what was ahead stays so.
LEMMA CrashDelivery ==
  ASSUME IInv, DeliveryInv, NEW g \in Groups, Crash(g) \/ Commit(g)
  PROVE  DeliveryInv'
<1>1. LogOK /\ WorkersOK /\ BoundsOK BY TypeParts DEF IInv
<1>2. UNCHANGED <<topic, caller, status, dead, published, failed, delivered, faults>>
  BY DEF Crash, Commit, stores, worker, history
<1>3. CASE Commit(g)
  BY <1>2, <1>3 DEF Commit, worker, DeliveryInv, Fresh, Written, Ahead, Dealt, InHand,
     LetGo, Handled, Settled, Lossy, Waiting, Stage
<1>4. CASE Crash(g)
  <2>1. crashes' > 0 BY <1>1, <1>4 DEF Crash, BoundsOK
  <2>2. \A r \in Requests : LetGo(r)' BY <2>1 DEF LetGo, Handled, Settled, Lossy
  <2>3. \A h \in Groups : read'[h] <= read[h] /\ read'[h] \in Nat /\ read[h] \in Nat
    BY <1>1, <1>4 DEF Crash, LogOK
  <2>4. ASSUME NEW r \in Requests PROVE Fresh(r)' /\ Dealt(r)' /\ Waiting(r)'
    <3>1. Fresh(r) /\ Waiting(r) BY DEF DeliveryInv
    <3>2. Ahead(r) => Ahead(r)' BY <1>2, <2>3, TargetIn DEF Ahead
    <3>3. QED BY <1>2, <2>2, <3>1, <3>2 DEF Fresh, Dealt, Waiting, Written
  <2>5. ASSUME NEW h \in Groups PROVE Stage(h)'
    <3>1. CASE h = g BY <1>1, <1>4, <3>1 DEF Crash, Goto, WorkersOK, Stage
    <3>2. CASE h # g
      <4>1. pc'[h] = pc[h] /\ cur'[h] = cur[h] /\ Stage(h)
        BY <1>1, <1>4, <3>2 DEF Crash, Goto, WorkersOK, DeliveryInv
      <4>2. QED BY <1>2, <2>1, <4>1 DEF Stage, LetGo, Handled, Settled, Lossy
    <3>3. QED BY <3>1, <3>2
  <2>6. QED BY <2>4, <2>5 DEF DeliveryInv
<1>5. QED BY <1>3, <1>4

\* The steps of the RetryableConsumer.
LEMMA RouteDelivery ==
  ASSUME IInv, DeliveryInv, NEW g \in Groups, Route(g) \/ Settle(g)
  PROVE  DeliveryInv'
<1>1. RedisOK /\ WorkersOK /\ BoundsOK BY TypeParts DEF IInv
<1>2. PICK q \in Requests : q = cur[g]
  BY <1>1, Held DEF Route, GetRetryCount, SendToDLQ, DropRetries, MarkFailed, Settle
<1>3. UNCHANGED <<topic, read, caller, delivered, published, crashes>>
  BY DEF Route, GetRetryCount, SendToDLQ, DropRetries, MarkFailed, Settle, Finished, history
<1>4. Grow
  BY <1>1, <1>3 DEF Route, GetRetryCount, SendToDLQ, DropRetries, MarkFailed, Settle,
     Finished, stores, history, DeleteRetryKey, IncrementRetryCount, StoreXX, Fault, NoFault,
     Grow, BoundsOK
<1>5. \A h \in Groups : h # g => pc'[h] = pc[h] /\ cur'[h] = cur[h]
  BY <1>1 DEF Route, GetRetryCount, SendToDLQ, DropRetries, MarkFailed, Settle, Finished,
     Goto, WorkersOK
<1>6. Stage(g) BY DEF DeliveryInv
<1>7. faults' = 0 => faults = 0 BY <1>1, <1>4 DEF Grow, BoundsOK
<1>8. CASE GetRetryCount(g)
  <2>1. UNCHANGED <<status, cur>> /\ pc'[g] \in {"handle", "dead"}
    BY <1>1, <1>8 DEF GetRetryCount, Goto, WorkersOK, stores
  <2>2. Stage(g)' BY <2>1 DEF Stage
  <2>3. QED BY <1>2, <1>3, <1>4, <1>5, <2>1, <2>2, Move
<1>9. CASE SendToDLQ(g)
  <2>1. UNCHANGED <<status, cur>> /\ pc'[g] \in {"drop", "mark"}
    BY <1>1, <1>9 DEF SendToDLQ, Goto, WorkersOK
  <2>2. q \in dead' \/ (q \in failed' /\ faults' # 0)
    BY <1>1, <1>2, <1>9 DEF SendToDLQ, Fault, BoundsOK
  <2>3. Stage(g)' BY <1>2, <2>1, <2>2 DEF Stage
  <2>4. QED BY <1>2, <1>3, <1>4, <1>5, <2>1, <2>3, Move
<1>10. CASE DropRetries(g)
  <2>1. UNCHANGED <<status, cur>> /\ pc[g] = "drop" /\ pc'[g] = "mark"
    BY <1>1, <1>10 DEF DropRetries, Goto, WorkersOK
  <2>2. Stage(g)' BY <1>4, <1>6, <1>7, <2>1 DEF Stage, Grow
  <2>3. QED BY <1>2, <1>3, <1>4, <1>5, <2>1, <2>2, Move
<1>11. CASE MarkFailed(g)
  <2>1. pc[g] = "mark" /\ pc'[g] = "idle" /\ cur'[g] = Null
    BY <1>1, <1>11 DEF MarkFailed, Finished, Goto, WorkersOK
  <2>2. /\ \A r \in Requests : r # q => status'[r] = status[r]
        /\ status[q] # "none" => status'[q] # "none"
        /\ status[q] \in Final => status'[q] \in Final
    BY <1>1, <1>2, <1>11 DEF MarkFailed, StoreXX, StatusXX, RedisOK, Final
  <2>3. LetGo(q)'
    BY <1>2, <1>4, <1>6, <1>7, <2>1 DEF Stage, LetGo, Handled, Settled, Grow
  <2>4. Stage(g)' BY <2>1 DEF Stage
  <2>5. QED BY <1>2, <1>3, <1>4, <1>5, <2>1, <2>2, <2>3, <2>4, Move
<1>12. CASE Settle(g)
  <2>1. pc[g] = "settle" /\ pc'[g] = "idle" /\ cur'[g] = Null /\ UNCHANGED status
    BY <1>1, <1>12 DEF Settle, Finished, Goto, WorkersOK
  <2>2. Target[q] = g => LetGo(q)' BY <1>2, <1>4, <1>6, <2>1, LetGoStays DEF Stage
  <2>3. Stage(g)' BY <2>1 DEF Stage
  <2>4. QED BY <1>2, <1>3, <1>4, <1>5, <2>1, <2>2, <2>3, Move
<1>13. QED BY <1>8, <1>9, <1>10, <1>11, <1>12 DEF Route

\* How the worker returns a request that may be let go, to the loop or to the
\* RetryableConsumer.
LEMMA ReturnDelivery ==
  ASSUME IInv, NEW g \in Groups, NEW q \in Requests, NEW o, cur[g] = q,
         ReturnResult(g, o), Target[q] = g => LetGo(q)'
  PROVE  /\ \A h \in Groups : h # g => pc'[h] = pc[h] /\ cur'[h] = cur[h]
         /\ cur'[g] \in {q, Null}
         /\ Stage(g)'
<1>1. WorkersOK BY TypeParts DEF IInv
<1>2. /\ \A h \in Groups : h # g => pc'[h] = pc[h] /\ cur'[h] = cur[h]
      /\ pc'[g] = "idle" \/ (pc'[g] = "settle" /\ cur'[g] = q)
      /\ cur'[g] \in {q, Null}
  BY <1>1 DEF ReturnResult, Goto, WorkersOK
<1>3. Stage(g)' BY <1>2 DEF Stage
<1>4. QED BY <1>2, <1>3

\* The steps of Handle.
LEMMA WorkDelivery ==
  ASSUME IInv, DeliveryInv, NEW g \in Groups, Work(g)
  PROVE  DeliveryInv'
<1>1. RedisOK /\ WorkersOK /\ BoundsOK BY TypeParts DEF IInv
<1>2. PICK q \in Requests : q = cur[g]
  BY <1>1, Held DEF Work, Skip, StartXX, StartImage, Run, StoreResult, StoreOutcome
<1>3. UNCHANGED <<topic, read, caller, delivered, dead, crashes>>
  BY DEF Work, Skip, StartXX, StartImage, Run, StoreResult, StoreOutcome, stores, history
<1>4. Grow
  <2>1. CASE Skip(g) BY <1>1, <2>1 DEF Skip, stores, history, Grow, BoundsOK
  <2>2. CASE StartXX(g) \/ StartImage(g)
    BY <1>1, <2>2 DEF StartXX, StartImage, StoreXX, InvalidData, Fault, NoFault, Grow, BoundsOK
  <2>3. CASE Run(g) BY <1>1, <2>3 DEF Run, stores, Grow, BoundsOK
  <2>4. CASE StoreResult(g)
    BY <1>1, <2>4 DEF StoreResult, Fault, NoFault, history, Grow, BoundsOK
  <2>5. CASE StoreOutcome(g)
    BY <1>1, <2>5 DEF StoreOutcome, Store, StoreXX, Fault, NoFault, history, Grow, BoundsOK
  <2>6. QED BY <2>1, <2>2, <2>3, <2>4, <2>5 DEF Work
<1>5. Stage(g) BY DEF DeliveryInv
<1>6. /\ faults' = 0 => faults = 0
      /\ faults' = faults + 1 => faults' > 0
  BY <1>1, <1>4 DEF Grow, BoundsOK
<1>7. CASE Skip(g)
  <2>1. Target[q] # g /\ ReturnResult(g, "skip") /\ UNCHANGED status
    BY <1>2, <1>7 DEF Skip, stores
  <2>2. /\ \A h \in Groups : h # g => pc'[h] = pc[h] /\ cur'[h] = cur[h]
        /\ cur'[g] \in {q, Null}
        /\ Stage(g)'
    BY <1>2, <2>1, ReturnDelivery
  <2>3. QED BY <1>2, <1>3, <1>4, <2>1, <2>2, Move
<1>8. CASE StartXX(g) \/ StartImage(g)
  <2>1. Target[q] = g /\ pc[g] = "handle" /\ Kind[g] \in {"tiup", "fs", "image"}
    BY <1>2, <1>8 DEF StartXX, StartImage
  <2>2. /\ \A r \in Requests : r # q => status'[r] = status[r]
        /\ status[q] # "none" => status'[q] # "none"
    BY <1>1, <1>2, <1>8 DEF StartXX, StartImage, InvalidData, StoreXX, StatusXX, RedisOK
  <2>3. CASE pc' = [pc EXCEPT ![g] = "run"] /\ UNCHANGED cur
    <3>1. /\ \A h \in Groups : h # g => pc'[h] = pc[h] /\ cur'[h] = cur[h]
          /\ cur'[g] = q /\ pc'[g] = "run"
      BY <1>1, <1>2, <2>3 DEF WorkersOK
    <3>2. Stage(g)' BY <3>1 DEF Stage
    <3>3. QED BY <1>2, <1>3, <1>4, <2>1, <2>2, <3>1, <3>2, Move
  <2>4. ASSUME NEW o, ReturnResult(g, o), faults' = faults + 1,
               q \in failed' \/ Kind[g] = "image"
        PROVE  DeliveryInv'
    <3>1. LetGo(q)'
      BY <1>6, <2>1, <2>4 DEF LetGo, Handled, Settled, Lossy
    <3>2. /\ \A h \in Groups : h # g => pc'[h] = pc[h] /\ cur'[h] = cur[h]
          /\ cur'[g] \in {q, Null}
          /\ Stage(g)'
      BY <1>2, <2>4, <3>1, ReturnDelivery
    <3>3. QED BY <1>2, <1>3, <1>4, <2>1, <2>2, <3>1, <3>2, Move
  <2>5. QED
    BY <1>2, <1>8, <2>3, <2>4 DEF StartXX, StartImage, InvalidData, Fault, Goto
<1>9. CASE Run(g)
  <2>1. UNCHANGED <<status, cur>> /\ pc'[g] \in {"store", "finish"}
        /\ \A h \in Groups : h # g => pc'[h] = pc[h]
    BY <1>1, <1>9 DEF Run, Goto, WorkersOK, stores
  <2>2. q \in published' \cup failed' BY <1>2, <1>9 DEF Run
  <2>3. Stage(g)' BY <1>2, <2>1, <2>2 DEF Stage
  <2>4. QED BY <1>2, <1>3, <1>4, <2>1, <2>3, Move
<1>10. CASE StoreResult(g)
  <2>1. UNCHANGED <<status, cur>> /\ pc[g] = "store" /\ pc'[g] = "finish"
        /\ \A h \in Groups : h # g => pc'[h] = pc[h]
    BY <1>1, <1>10 DEF StoreResult, Goto, WorkersOK
  <2>2. Stage(g)' BY <1>4, <1>5, <2>1 DEF Stage, Grow
  <2>3. QED BY <1>2, <1>3, <1>4, <2>1, <2>2, Move
<1>11. CASE StoreOutcome(g)
  <2>1. Target[q] = g /\ pc[g] = "finish"
    BY <1>2, <1>11 DEF StoreOutcome, IInv, StagesTrue
  <2>2. q \in published' \cup failed' BY <1>2, <1>4, <1>5, <2>1 DEF Stage, Grow
  <2>3. FinalStatus(res[g]) \in Final /\ "none" \notin Final BY DEF FinalStatus, Final
  <2>4. /\ \A r \in Requests : r # q => status'[r] = status[r]
        /\ status[q] # "none" => status'[q] # "none"
        /\ Kind[g] = "image" => status'[q] \in Final \/ faults' = faults + 1
    BY <1>1, <1>2, <1>11, <2>3 DEF StoreOutcome, Store, StoreXX, StatusXX, Fault, RedisOK
  <2>5. LetGo(q)' BY <1>6, <2>1, <2>2, <2>4 DEF LetGo, Handled, Settled
  <2>6. PICK o \in Results : ReturnResult(g, o)
    BY <1>1, <1>11 DEF StoreOutcome, WorkersOK, Results
  <2>7. /\ \A h \in Groups : h # g => pc'[h] = pc[h] /\ cur'[h] = cur[h]
        /\ cur'[g] \in {q, Null}
        /\ Stage(g)'
    BY <1>2, <2>5, <2>6, ReturnDelivery
  <2>8. QED BY <1>2, <1>3, <1>4, <2>1, <2>4, <2>5, <2>7, Move
<1>12. QED BY <1>7, <1>8, <1>9, <1>10, <1>11 DEF Work

LEMMA StepDelivery == IInv /\ DeliveryInv /\ [Next]_vars => DeliveryInv'
<1> SUFFICES ASSUME IInv, DeliveryInv, [Next]_vars PROVE DeliveryInv' OBVIOUS
<1>1. CASE UNCHANGED vars
  BY <1>1 DEF vars, stores, worker, history, DeliveryInv, Fresh, Written, Ahead, Dealt,
     InHand, LetGo, Handled, Settled, Lossy, Waiting, Stage
<1>2. CASE \E r \in Requests : Service(r) \/ Expire(r)
  BY <1>2, WriteMessageDelivery, RedisDelivery DEF Service
<1>3. ASSUME NEW g \in Groups, Worker(g) \/ Commit(g) \/ Crash(g) PROVE DeliveryInv'
  BY <1>3, ReadDelivery, CrashDelivery, RouteDelivery, WorkDelivery DEF Worker
<1>4. QED BY <1>1, <1>2, <1>3 DEF Next

LEMMA DeliveryInvariance == Spec => []DeliveryInv
BY InitDelivery, StepDelivery, Invariance, PTL DEF Spec

\* No crash, repeated write or background commit makes a worker pass over a request
\* that it has not seen yet.
THEOREM NothingSkipped == Spec => []NothingIsSkipped
<1>1. DeliveryInv => NothingIsSkipped BY DEF DeliveryInv, Fresh, NothingIsSkipped
<1>2. QED BY <1>1, DeliveryInvariance, PTL

\* A request that reached its worker is in its hands, published, failed or
\* dead-lettered; only a crash, or for an image a failed call, loses it.
THEOREM DeliveredAreHandled == Spec => []DeliveredIsHandled
<1>1. DeliveryInv => DeliveredIsHandled
  BY DEF DeliveryInv, Dealt, LetGo, Handled, DeliveredIsHandled
<1>2. QED BY <1>1, DeliveryInvariance, PTL

\* While no call has failed, a caller that waits for a collection finds its status,
\* and its worker has it ahead, in hand, or has left the answer (or a dead letter).
THEOREM WaitersAreServed == Spec => []NobodyWaitsInVain
<1>1. IInv /\ DeliveryInv => NobodyWaitsInVain
  <2> SUFFICES ASSUME IInv, DeliveryInv, NEW r \in Requests, faults = 0
               PROVE  /\ caller[r] = "waiting" => status[r] # "none"
                      /\ caller[r] = "waiting" =>
                           \/ Ahead(r) \/ InHand(r) \/ CanAnswer(r)
                           \/ r \in dead \/ crashes > 0
                      /\ caller[r] # "expired"
    BY DEF NobodyWaitsInVain
  <2>1. Fresh(r) /\ Dealt(r) /\ Waiting(r) BY DEF DeliveryInv
  <2>2. ASSUME caller[r] = "waiting", ~Ahead(r), ~InHand(r), r \notin dead, ~(crashes > 0)
        PROVE  CanAnswer(r)
    <3>1. Kind[Target[r]] = "image"
      BY <2>2, PublisherAssumption DEF IInv, CallersTrue, PublisherAssumption
    <3>2. Settled(r) BY <2>1, <2>2 DEF Fresh, Dealt, Waiting, LetGo
    <3>3. crashes = 0
      BY <2>2, PublisherAssumption DEF IInv, TypeOK, PublisherAssumption
    <3>4. QED BY <2>2, <3>1, <3>2, <3>3 DEF Settled, CanAnswer, IInv, ResultsKept
  <2>3. QED BY <2>1, <2>2 DEF Waiting
<1>2. QED BY <1>1, Invariance, DeliveryInvariance, PTL

=============================================================================
