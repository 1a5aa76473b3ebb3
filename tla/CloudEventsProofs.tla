------------------------- MODULE CloudEventsProofs -------------------------
(***************************************************************************)
(* Proofs about CloudEvents for any events, topics, routes, handlers, failed *)
(* calls and ends of the process.                                            *)
(***************************************************************************)
EXTENDS CloudEvents, SequenceTheorems, FiniteSetTheorems, TLAPS

\* Only routed events are written, each to its topic.
RoutesKept ==
  /\ \A e \in buffer : Route[e] \in Topics
  /\ \A t \in Topics : \A i \in 1..Len(topic[t]) : Route[topic[t][i]] = t

\* A reader is never behind its committed offset.
ReadsAhead == \A t \in Topics : committed[t] <= read[t]

\* What a consumer has taken is in its hands, on its way to the dead letters, or
\* has ended: of the messages behind the committed offset and of those whose
\* commit failed.
Settled(t, e) == cur[t] = e \/ e \in letters \/ Ended(e)
ReadIsSettled == \A t \in Topics : \A i \in 1..read[t] : Settled(t, topic[t][i])

\* A turn that has found no failure has had the handlers that it did not leave
\* deal with the event, or one has swallowed its failure.
TurnIsTrue ==
  \A t \in Topics : cur[t] # Null =>
    /\ Route[cur[t]] = t
    /\ left[t] \subseteq HandlersOf[cur[t]]
    /\ \/ bad[t]
       \/ /\ HandlersOf[cur[t]] # {}
          /\ cur[t] \in excused \/ HandlersOf[cur[t]] \ left[t] \subseteq done[cur[t]]

\* The messages of an event that have been committed pay for the calls of its
\* handlers, the one that is still to come included.
Taken(e) == {i \in 1..committed[Route[e]] : topic[Route[e]][i] = e}
Owed(e, h) == IF cur[Route[e]] = e /\ h \in left[Route[e]] THEN 1 ELSE 0
CallsArePaid ==
  \A e \in Events, h \in Handlers :
    IF Route[e] = Null THEN runs[e][h] = 0
    ELSE runs[e][h] + Owed(e, h) <= Cardinality(Taken(e))

IInv == /\ TypeOK /\ RoutesKept /\ ReadsAhead
        /\ AckedIsKept /\ ReadIsSettled /\ TurnIsTrue /\ CallsArePaid

-----------------------------------------------------------------------------
(* TypeOK in parts: an action disturbs few of them. *)

CallersOK == caller \in [Events -> {"new", "acked", "refused"}]
LogsOK ==
  /\ topic \in [Topics -> Seq(Events)]
  /\ read \in [Topics -> Nat]
  /\ committed \in [Topics -> Nat]
  /\ \A t \in Topics : committed[t] <= Len(topic[t]) /\ read[t] <= Len(topic[t])
TurnsOK ==
  /\ cur \in [Topics -> Events \cup {Null}]
  /\ left \in [Topics -> SUBSET Handlers]
  /\ bad \in [Topics -> BOOLEAN]
  /\ \A t \in Topics : cur[t] = Null => left[t] = {} /\ ~bad[t]
SetsOK ==
  /\ buffer \subseteq Events /\ letters \subseteq Events /\ dead \subseteq Events
  /\ closed \subseteq Topics /\ excused \subseteq Events
  /\ open \in BOOLEAN /\ phase \in {"up", "stopping", "down"}
CallsOK ==
  /\ done \in [Events -> SUBSET Handlers]
  /\ runs \in [Events -> [Handlers -> 0..2]]
BoundsOK == faults \in 0..MaxFaults /\ stops \in 0..MaxStops

LEMMA TypeParts ==
  TypeOK <=> CallersOK /\ LogsOK /\ TurnsOK /\ SetsOK /\ CallsOK /\ BoundsOK
BY DEF TypeOK, CallersOK, LogsOK, TurnsOK, SetsOK, CallsOK, BoundsOK

LEMMA TypePartsNext ==
  TypeOK' <=> CallersOK' /\ LogsOK' /\ TurnsOK' /\ SetsOK' /\ CallsOK' /\ BoundsOK'
BY DEF TypeOK, CallersOK, LogsOK, TurnsOK, SetsOK, CallsOK, BoundsOK

-----------------------------------------------------------------------------
(* Facts about topics and about what has ended. *)

LEMMA MessagesAreEvents ==
  ASSUME TypeOK, NEW t \in Topics, NEW i \in 1..Len(topic[t])
  PROVE  topic[t][i] \in Events
BY DEF TypeOK

\* A function of flags stays one.
LEMMA FlagChanged ==
  ASSUME NEW S, NEW f \in [S -> BOOLEAN], NEW s \in S, NEW v \in BOOLEAN
  PROVE  [f EXCEPT ![s] = v] \in [S -> BOOLEAN]
BY Zenon

\* What has ended stays ended while the history and the dead letters only grow.
LEMMA EndedKept ==
  ASSUME excused \subseteq excused', dead \subseteq dead',
         \A e \in Events : done[e] \subseteq done'[e], NEW e \in Events, Ended(e)
  PROVE  Ended(e)'
BY DEF Ended

\* A topic only grows, at its end, by copies of one event.
Grows(s, z, e) ==
  /\ z \in Seq(Events) /\ Len(s) <= Len(z)
  /\ \A i \in 1..Len(s) : z[i] = s[i]
  /\ \A i \in 1..Len(z) : i \notin 1..Len(s) => z[i] = e

LEMMA AppendGrows ==
  ASSUME NEW s \in Seq(Events), NEW e \in Events
  PROVE  Grows(s, Append(s, e), e) /\ Append(s, e)[Len(s) + 1] = e
         /\ Len(Append(s, e)) = Len(s) + 1
BY AppendProperties DEF Grows

LEMMA AppendTwiceGrows ==
  ASSUME NEW s \in Seq(Events), NEW e \in Events
  PROVE  Grows(s, s \o <<e, e>>, e) /\ (s \o <<e, e>>)[Len(s) + 1] = e
         /\ Len(s \o <<e, e>>) = Len(s) + 2
<1>1. <<e, e>> \in Seq(Events) /\ Len(<<e, e>>) = 2 /\ <<e, e>>[1] = e /\ <<e, e>>[2] = e
  OBVIOUS
<1>2. /\ s \o <<e, e>> \in Seq(Events)
      /\ Len(s \o <<e, e>>) = Len(s) + 2
      /\ \A i \in 1..Len(s) + 2 :
           (s \o <<e, e>>)[i] = IF i <= Len(s) THEN s[i] ELSE <<e, e>>[i - Len(s)]
  BY <1>1, ConcatProperties
<1>3. Len(s) \in Nat OBVIOUS
<1>4. \A i \in 1..Len(s) + 2 : i \notin 1..Len(s) => (s \o <<e, e>>)[i] = e
  <2> TAKE i \in 1..Len(s) + 2
  <2> HAVE i \notin 1..Len(s)
  <2>1. i - Len(s) = 1 \/ i - Len(s) = 2 BY <1>3
  <2>2. ~(i <= Len(s)) BY <1>3
  <2>3. QED BY <1>1, <1>2, <2>1, <2>2
<1>5. QED BY <1>2, <1>3, <1>4 DEF Grows

-----------------------------------------------------------------------------
LEMMA InitIInv == Init => IInv
<1> USE CloudEventsAssumption DEF CloudEventsAssumption
<1> SUFFICES ASSUME Init PROVE IInv OBVIOUS
<1>1. TypeOK BY DEF Init, TypeOK
<1>2. RoutesKept /\ ReadsAhead /\ AckedIsKept /\ ReadIsSettled /\ TurnIsTrue
  BY DEF Init, RoutesKept, ReadsAhead, AckedIsKept, ReadIsSettled, TurnIsTrue
<1>3. CallsArePaid
  <2> SUFFICES ASSUME NEW e \in Events, NEW h \in Handlers, Route[e] # Null
               PROVE  runs[e][h] + Owed(e, h) <= Cardinality(Taken(e))
    BY DEF CallsArePaid, Init
  <2>1. runs[e][h] = 0 /\ Owed(e, h) = 0 BY DEF Init, Owed
  <2>2. Taken(e) = {} BY DEF Init, Taken
  <2>3. QED BY <2>1, <2>2, FS_EmptySet
<1>4. QED BY <1>1, <1>2, <1>3 DEF IInv

\* What has been taken of an event is a finite set of offsets.
LEMMA TakenIsFinite ==
  ASSUME TypeOK, NEW e \in Events, Route[e] # Null
  PROVE  IsFiniteSet(Taken(e)) /\ Cardinality(Taken(e)) \in Nat
<1>1. Route[e] \in Topics BY CloudEventsAssumption DEF CloudEventsAssumption
<1>2. committed[Route[e]] \in Nat BY <1>1 DEF TypeOK
<1>3. IsFiniteSet(1..committed[Route[e]]) BY <1>2, FS_Interval
<1>4. Taken(e) \subseteq 1..committed[Route[e]] BY DEF Taken
<1>5. QED BY <1>3, <1>4, FS_Subset, FS_CardinalityType

\* A step that calls no handler, commits nothing and takes up no event leaves the
\* calls paid.
LEMMA PaidKept ==
  ASSUME IInv, UNCHANGED <<committed, runs>>,
         \A t \in Topics : \A i \in 1..committed[t] : topic'[t][i] = topic[t][i],
         \A t \in Topics : cur'[t] # Null => cur'[t] = cur[t] /\ left'[t] \subseteq left[t]
  PROVE  CallsArePaid'
<1> SUFFICES ASSUME NEW e \in Events, NEW h \in Handlers
             PROVE  IF Route[e] = Null THEN runs[e][h] = 0
                    ELSE runs[e][h] + Owed(e, h)' <= Cardinality(Taken(e)')
  BY DEF CallsArePaid
<1>1. CASE Route[e] = Null BY <1>1 DEF IInv, CallsArePaid
<1>2. CASE Route[e] # Null
  <2>1. Route[e] \in Topics /\ e # Null
    BY <1>2, CloudEventsAssumption DEF CloudEventsAssumption
  <2>2. Taken(e)' = Taken(e) BY <2>1 DEF Taken
  <2>3. Owed(e, h)' <= Owed(e, h) BY <2>1 DEF Owed
  <2>4. runs[e][h] + Owed(e, h) <= Cardinality(Taken(e))
    BY <1>2 DEF IInv, CallsArePaid
  <2>5. Cardinality(Taken(e)) \in Nat BY <1>2, TakenIsFinite DEF IInv
  <2>6. runs[e][h] \in 0..2 BY DEF IInv, TypeOK
  <2>7. Owed(e, h) \in 0..1 /\ Owed(e, h)' \in 0..1 BY DEF Owed
  <2>8. QED BY <1>2, <2>2, <2>3, <2>4, <2>5, <2>6, <2>7
<1>3. QED BY <1>1, <1>2

-----------------------------------------------------------------------------
(* The producer *)

LEMMA PostIInv ==
  ASSUME IInv, NEW x \in Events, Post(x)
  PROVE  IInv'
<1> USE CloudEventsAssumption DEF CloudEventsAssumption
<1>1. TypeOK /\ RoutesKept /\ ReadsAhead /\ AckedIsKept /\ ReadIsSettled /\ TurnIsTrue
  BY DEF IInv
<1>2. UNCHANGED <<topic, committed, dead, read, cur, left, bad, letters, done, runs, excused>>
  BY DEF Post, kafka, reader, writer, history
<1>3. TypeOK'
  <2>1. CallersOK' /\ SetsOK'
    BY <1>1, <1>2, TypeParts DEF CallersOK, SetsOK, Post, writer, process
  <2>2. LogsOK' /\ TurnsOK' /\ CallsOK'
    BY <1>1, <1>2, TypeParts DEF LogsOK, TurnsOK, CallsOK
  <2>3. BoundsOK'
    BY <1>1, TypeParts DEF BoundsOK, Post, NoFault, bounds, Fault
  <2>4. QED BY <2>1, <2>2, <2>3, TypePartsNext
<1>4. RoutesKept' BY <1>1, <1>2 DEF RoutesKept, Post
<1>5. ReadsAhead' BY <1>1, <1>2 DEF ReadsAhead
<1>6. AckedIsKept'
  <2>1. \A e \in Events : InTopic(e) => InTopic(e)' BY <1>2 DEF InTopic
  <2>2. \A e \in Events : e # x => caller'[e] = caller[e] BY <1>1 DEF Post, TypeOK
  <2>3. buffer \subseteq buffer' BY DEF Post
  <2>4. caller'[x] = "acked" /\ Route[x] # Null => x \in buffer'
    BY <1>1 DEF Post, TypeOK
  <2>5. QED BY <1>1, <1>2, <2>1, <2>2, <2>3, <2>4 DEF AckedIsKept
<1>7. ReadIsSettled' BY <1>1, <1>2 DEF ReadIsSettled, Settled, Ended
<1>8. TurnIsTrue' BY <1>1, <1>2 DEF TurnIsTrue
<1>9. CallsArePaid' BY <1>2, PaidKept
<1>10. QED BY <1>3, <1>4, <1>5, <1>6, <1>7, <1>8, <1>9 DEF IInv

LEMMA FlushIInv ==
  ASSUME IInv, NEW x \in Events, Flush(x)
  PROVE  IInv'
<1> USE CloudEventsAssumption DEF CloudEventsAssumption
<1> DEFINE r == Route[x]
<1>1. TypeOK /\ RoutesKept /\ ReadsAhead /\ AckedIsKept /\ ReadIsSettled /\ TurnIsTrue
  BY DEF IInv
<1>2. UNCHANGED <<committed, dead, read, cur, left, bad, letters, done, runs>>
  BY DEF Flush, reader, writer, history, Excuse
<1>3. r \in Topics BY <1>1 DEF Flush, RoutesKept
<1>4. topic[r] \in Seq(Events) BY <1>1, <1>3 DEF TypeOK
<1>5. \/ topic' = [topic EXCEPT ![r] = Append(topic[r], x)]
      \/ topic' = [topic EXCEPT ![r] = topic[r] \o <<x, x>>]
      \/ topic' = topic /\ excused' = excused \cup {x}
  BY DEF Flush, Excuse
<1>6. excused \subseteq excused' /\ excused' \subseteq Events /\ buffer' = buffer \ {x}
  BY <1>1 DEF Flush, Excuse, history, TypeOK
<1>7. \/ topic' = topic
      \/ /\ Grows(topic[r], topic'[r], x) /\ InTopic(x)'
         /\ topic' = [topic EXCEPT ![r] = topic'[r]]
  <2>1. CASE topic' = [topic EXCEPT ![r] = Append(topic[r], x)]
    <3>1. topic'[r] = Append(topic[r], x) BY <1>1, <1>3, <2>1 DEF TypeOK
    <3>2. Grows(topic[r], topic'[r], x) /\ topic'[r][Len(topic[r]) + 1] = x
          /\ Len(topic'[r]) = Len(topic[r]) + 1
      BY <1>4, <3>1, AppendGrows
    <3>3. Len(topic[r]) + 1 \in 1..Len(topic'[r]) BY <1>4, <3>2
    <3>4. QED BY <1>3, <2>1, <3>1, <3>2, <3>3 DEF InTopic
  <2>2. CASE topic' = [topic EXCEPT ![r] = topic[r] \o <<x, x>>]
    <3>1. topic'[r] = topic[r] \o <<x, x>> BY <1>1, <1>3, <2>2 DEF TypeOK
    <3>2. Grows(topic[r], topic'[r], x) /\ topic'[r][Len(topic[r]) + 1] = x
          /\ Len(topic'[r]) = Len(topic[r]) + 2
      BY <1>4, <3>1, AppendTwiceGrows
    <3>3. Len(topic[r]) + 1 \in 1..Len(topic'[r]) BY <1>4, <3>2
    <3>4. QED BY <1>3, <2>2, <3>1, <3>2, <3>3 DEF InTopic
  <2>3. QED BY <1>5, <2>1, <2>2
<1>8. \A t \in Topics :
        /\ topic'[t] \in Seq(Events) /\ Len(topic[t]) <= Len(topic'[t])
        /\ \A i \in 1..Len(topic[t]) : topic'[t][i] = topic[t][i]
        /\ \A i \in 1..Len(topic'[t]) : i \notin 1..Len(topic[t]) => t = r /\ topic'[t][i] = x
  <2> SUFFICES ASSUME NEW t \in Topics
      PROVE  /\ topic'[t] \in Seq(Events) /\ Len(topic[t]) <= Len(topic'[t])
             /\ \A i \in 1..Len(topic[t]) : topic'[t][i] = topic[t][i]
             /\ \A i \in 1..Len(topic'[t]) : i \notin 1..Len(topic[t]) => t = r /\ topic'[t][i] = x
    OBVIOUS
  <2>1. topic[t] \in Seq(Events) /\ Len(topic[t]) \in Nat BY <1>1 DEF TypeOK
  <2>2. CASE topic'[t] = topic[t] BY <2>1, <2>2
  <2>3. CASE t = r /\ Grows(topic[r], topic'[r], x) BY <2>3 DEF Grows
  <2>4. topic'[t] = topic[t] \/ (t = r /\ Grows(topic[r], topic'[r], x))
    BY <1>1, <1>7 DEF TypeOK
  <2>5. QED BY <2>2, <2>3, <2>4
<1>9. TypeOK'
  <2>1. topic' \in [Topics -> Seq(Events)]
    <3>1. topic' = [t \in Topics |-> topic'[t]] BY <1>1, <1>7 DEF TypeOK
    <3>2. QED BY <1>8, <3>1
  <2>2. \A t \in Topics : committed'[t] <= Len(topic'[t]) /\ read'[t] <= Len(topic'[t])
    <3> TAKE t \in Topics
    <3>1. /\ committed[t] \in Nat /\ read[t] \in Nat /\ Len(topic[t]) \in Nat
          /\ committed[t] <= Len(topic[t]) /\ read[t] <= Len(topic[t])
      BY <1>1 DEF TypeOK
    <3>2. Len(topic'[t]) \in Nat /\ Len(topic[t]) <= Len(topic'[t]) BY <1>8
    <3>3. QED BY <1>2, <3>1, <3>2
  <2>3. LogsOK' BY <1>1, <1>2, <2>1, <2>2, TypeParts DEF LogsOK
  <2>4. CallersOK' /\ SetsOK'
    BY <1>1, <1>2, <1>6, TypeParts DEF CallersOK, SetsOK, Flush, writer, process
  <2>5. TurnsOK' /\ CallsOK' BY <1>1, <1>2, TypeParts DEF TurnsOK, CallsOK
  <2>6. BoundsOK' BY <1>1, TypeParts DEF BoundsOK, Flush, NoFault, bounds, Fault
  <2>7. QED BY <2>3, <2>4, <2>5, <2>6, TypePartsNext
<1>10. RoutesKept'
  BY <1>1, <1>6, <1>8 DEF RoutesKept
<1>11. ReadsAhead' BY <1>1, <1>2 DEF ReadsAhead
<1>12. AckedIsKept'
  <2> SUFFICES ASSUME NEW e \in Events, caller[e] = "acked", Route[e] # Null
               PROVE  e \in buffer' \/ InTopic(e)' \/ e \in excused'
    BY DEF AckedIsKept, Flush
  <2>1. e \in buffer \/ InTopic(e) \/ e \in excused BY <1>1 DEF AckedIsKept
  <2>2. InTopic(e) => InTopic(e)'
    <3> HAVE InTopic(e)
    <3>1. PICK t \in Topics : \E i \in 1..Len(topic[t]) : topic[t][i] = e BY DEF InTopic
    <3>2. PICK i \in 1..Len(topic[t]) : topic[t][i] = e BY <3>1
    <3>3. Len(topic[t]) \in Nat /\ Len(topic'[t]) \in Nat BY <1>1, <1>8 DEF TypeOK
    <3>4. i \in 1..Len(topic'[t]) /\ topic'[t][i] = e BY <1>8, <3>2, <3>3
    <3>5. QED BY <3>4 DEF InTopic
  <2>3. InTopic(x)' \/ x \in excused'
    BY <1>1, <1>3, <1>5, <1>7 DEF Flush, TypeOK, Excuse
  <2>4. QED BY <1>6, <2>1, <2>2, <2>3
<1>13. ReadIsSettled'
  <2> SUFFICES ASSUME NEW t \in Topics, NEW i \in 1..read[t]
               PROVE  Settled(t, topic[t][i])'
    BY <1>2 DEF ReadIsSettled
  <2>1. i \in 1..Len(topic[t]) BY <1>1 DEF TypeOK
  <2>2. topic'[t][i] = topic[t][i] BY <1>8, <2>1
  <2>3. topic[t][i] \in Events BY <1>1, <2>1, MessagesAreEvents
  <2>4. Settled(t, topic[t][i]) BY <1>1 DEF ReadIsSettled
  <2>5. QED BY <1>2, <1>6, <2>2, <2>4 DEF Settled, Ended
<1>14. TurnIsTrue' BY <1>1, <1>2, <1>6 DEF TurnIsTrue
<1>15. CallsArePaid'
  <2>1. \A t \in Topics : \A i \in 1..committed[t] : i \in 1..Len(topic[t])
    BY <1>1 DEF TypeOK
  <2>2. QED BY <1>2, <1>8, <2>1, PaidKept
<1>16. QED BY <1>9, <1>10, <1>11, <1>12, <1>13, <1>14, <1>15 DEF IInv

-----------------------------------------------------------------------------
(* What a step of a consumer, a writer or the process has to keep. *)

\* Events leave the memory of the producer only as excused.
LEMMA ProducerKept ==
  ASSUME RoutesKept, AckedIsKept, UNCHANGED <<caller, topic>>, buffer' \subseteq buffer,
         buffer \subseteq buffer' \cup excused', excused \subseteq excused'
  PROVE  RoutesKept' /\ AckedIsKept'
BY DEF RoutesKept, AckedIsKept, InTopic

\* What leaves a consumer's hands or the letters has ended.
LEMMA SettledKept ==
  ASSUME TypeOK, ReadIsSettled, UNCHANGED topic,
         \A t \in Topics : read'[t] <= read[t] /\ read'[t] \in Nat,
         excused \subseteq excused', dead \subseteq dead',
         \A e \in Events : done[e] \subseteq done'[e],
         letters \subseteq letters' \cup dead' \cup excused',
         \A t \in Topics : \A e \in Events : cur[t] = e =>
           cur'[t] = e \/ e \in letters' \/ Ended(e)'
  PROVE  ReadIsSettled'
<1> SUFFICES ASSUME NEW t \in Topics, NEW i \in 1..read'[t]
             PROVE  Settled(t, topic[t][i])'
  BY DEF ReadIsSettled
<1>1. read[t] \in Nat /\ read[t] <= Len(topic[t]) /\ Len(topic[t]) \in Nat
  BY DEF TypeOK
<1>2. i \in 1..read[t] /\ i \in 1..Len(topic[t]) BY <1>1
<1>3. topic[t][i] \in Events BY <1>2, MessagesAreEvents
<1>4. topic[t][i] # Null BY <1>3, CloudEventsAssumption DEF CloudEventsAssumption
<1>5. Settled(t, topic[t][i]) BY <1>2 DEF ReadIsSettled
<1>6. CASE cur[t] = topic[t][i] BY <1>3, <1>6 DEF Settled
<1>7. CASE topic[t][i] \in letters BY <1>7 DEF Settled, Ended
<1>8. CASE Ended(topic[t][i]) BY <1>3, <1>8, EndedKept DEF Settled
<1>9. QED BY <1>5, <1>6, <1>7, <1>8 DEF Settled

\* A turn goes on as it was, or ends.
LEMMA TurnKept ==
  ASSUME TypeOK, TurnIsTrue, excused \subseteq excused',
         \A e \in Events : done[e] \subseteq done'[e],
         \A t \in Topics : \/ cur'[t] = Null
                           \/ cur'[t] = cur[t] /\ left'[t] = left[t] /\ bad'[t] = bad[t]
  PROVE  TurnIsTrue'
<1> SUFFICES ASSUME NEW t \in Topics, cur'[t] # Null
             PROVE  /\ Route[cur'[t]] = t
                    /\ left'[t] \subseteq HandlersOf[cur'[t]]
                    /\ \/ bad'[t]
                       \/ /\ HandlersOf[cur'[t]] # {}
                          /\ \/ cur'[t] \in excused'
                             \/ HandlersOf[cur'[t]] \ left'[t] \subseteq done'[cur'[t]]
  BY DEF TurnIsTrue
<1>1. cur'[t] = cur[t] /\ left'[t] = left[t] /\ bad'[t] = bad[t] OBVIOUS
<1>2. cur[t] \in Events BY <1>1 DEF TypeOK
<1>3. done[cur[t]] \subseteq done'[cur[t]] BY <1>2
<1>4. QED BY <1>1, <1>2, <1>3 DEF TurnIsTrue

-----------------------------------------------------------------------------
(* The dead letter writer and the process *)

LEMMA FlushLetterIInv ==
  ASSUME IInv, NEW x \in Events, FlushLetter(x)
  PROVE  IInv'
<1>1. TypeOK /\ RoutesKept /\ ReadsAhead /\ AckedIsKept /\ ReadIsSettled /\ TurnIsTrue
  BY DEF IInv
<1>2. UNCHANGED <<caller, buffer, topic, committed, read, cur, left, bad, open, phase,
                  closed, done, runs>>
  BY DEF FlushLetter, callers, reader, process, history, Excuse
<1>3. excused \subseteq excused' /\ dead \subseteq dead' /\ excused' \subseteq Events
      /\ dead' \subseteq Events /\ letters' \subseteq letters
      /\ letters \subseteq letters' \cup dead' \cup excused'
  BY <1>1 DEF FlushLetter, history, Excuse, TypeOK
<1>4. TypeOK'
  <2>1. CallersOK' /\ SetsOK' BY <1>1, <1>2, <1>3, TypeParts DEF CallersOK, SetsOK
  <2>2. LogsOK' /\ TurnsOK' /\ CallsOK'
    BY <1>1, <1>2, TypeParts DEF LogsOK, TurnsOK, CallsOK
  <2>3. BoundsOK' BY <1>1, TypeParts, CloudEventsAssumption
    DEF BoundsOK, FlushLetter, NoFault, bounds, Fault, CloudEventsAssumption
  <2>4. QED BY <2>1, <2>2, <2>3, TypePartsNext
<1>5. RoutesKept' /\ AckedIsKept' BY <1>1, <1>2, <1>3, ProducerKept
<1>6. ReadsAhead' BY <1>1, <1>2 DEF ReadsAhead
<1>7. ReadIsSettled'
  <2>1. \A t \in Topics : read'[t] <= read[t] /\ read'[t] \in Nat BY <1>1, <1>2 DEF TypeOK
  <2>2. QED BY <1>1, <1>2, <1>3, <2>1, SettledKept
<1>8. TurnIsTrue' BY <1>1, <1>2, <1>3, TurnKept
<1>9. CallsArePaid' BY <1>2, PaidKept
<1>10. QED BY <1>4, <1>5, <1>6, <1>7, <1>8, <1>9 DEF IInv

LEMMA CloseIInv ==
  ASSUME IInv, NEW s \in Topics, Close(s)
  PROVE  IInv'
<1>1. TypeOK /\ RoutesKept /\ ReadsAhead /\ AckedIsKept /\ ReadIsSettled /\ TurnIsTrue
  BY DEF IInv
<1>2. UNCHANGED <<caller, buffer, topic, committed, read, cur, left, bad, phase,
                  done, runs, excused, faults, stops>>
  BY DEF Close, callers, reader, history, bounds
<1>3. letters' = {} /\ dead' = dead \cup letters /\ open' = FALSE /\ closed' = closed \cup {s}
  BY DEF Close
<1>4. TypeOK'
  <2>1. CallersOK' /\ SetsOK' BY <1>1, <1>2, <1>3, TypeParts DEF CallersOK, SetsOK
  <2>2. LogsOK' /\ TurnsOK' /\ CallsOK' /\ BoundsOK'
    BY <1>1, <1>2, TypeParts DEF LogsOK, TurnsOK, CallsOK, BoundsOK
  <2>3. QED BY <2>1, <2>2, TypePartsNext
<1>5. RoutesKept' /\ AckedIsKept' BY <1>1, <1>2, ProducerKept
<1>6. ReadsAhead' BY <1>1, <1>2 DEF ReadsAhead
<1>7. ReadIsSettled'
  <2>1. \A t \in Topics : read'[t] <= read[t] /\ read'[t] \in Nat BY <1>1, <1>2 DEF TypeOK
  <2>2. QED BY <1>1, <1>2, <1>3, <2>1, SettledKept
<1>8. TurnIsTrue' BY <1>1, <1>2, TurnKept
<1>9. CallsArePaid' BY <1>2, PaidKept
<1>10. QED BY <1>4, <1>5, <1>6, <1>7, <1>8, <1>9 DEF IInv

\* What the process held when it ended is excused.
LEMMA EndIInv ==
  ASSUME IInv, End, faults' \in 0..MaxFaults /\ stops' \in 0..MaxStops
  PROVE  IInv'
<1>1. TypeOK /\ RoutesKept /\ ReadsAhead /\ AckedIsKept /\ ReadIsSettled /\ TurnIsTrue
  BY DEF IInv
<1>2. UNCHANGED <<caller, topic, committed, dead, read, open, closed, done, runs>>
  BY DEF End, kafka, Excuse
<1>3. /\ buffer' = {} /\ letters' = {} /\ phase' = "down"
      /\ \A t \in Topics : cur'[t] = Null /\ left'[t] = {} /\ bad'[t] = FALSE
      /\ excused' = excused \cup (buffer \cup letters \cup ({cur[t] : t \in Topics} \ {Null}))
  BY DEF End, Excuse
<1>4. \A t \in Topics : cur[t] # Null => cur[t] \in excused' BY <1>3
<1>5. TypeOK'
  <2>1. excused' \subseteq Events BY <1>1, <1>3 DEF TypeOK
  <2>2. CallersOK' /\ SetsOK' BY <1>1, <1>2, <1>3, <2>1, TypeParts DEF CallersOK, SetsOK
  <2>3. LogsOK' /\ CallsOK'
    BY <1>1, <1>2, TypeParts DEF LogsOK, CallsOK
  <2>4. bad' \in [Topics -> BOOLEAN] BY Zenon DEF End
  <2>5. TurnsOK' BY <1>3, <2>4 DEF TurnsOK, End
  <2>6. BoundsOK' BY DEF BoundsOK
  <2>7. QED BY <2>2, <2>3, <2>5, <2>6, TypePartsNext
<1>6. RoutesKept' /\ AckedIsKept'
  <2>1. buffer' \subseteq buffer /\ buffer \subseteq buffer' \cup excused'
        /\ excused \subseteq excused'
    BY <1>3
  <2>2. QED BY <1>1, <1>2, <2>1, ProducerKept
<1>7. ReadsAhead' BY <1>1, <1>2 DEF ReadsAhead
<1>8. ReadIsSettled'
  <2>1. \A t \in Topics : read'[t] <= read[t] /\ read'[t] \in Nat BY <1>1, <1>2 DEF TypeOK
  <2>2. excused \subseteq excused' /\ letters \subseteq letters' \cup dead' \cup excused'
    BY <1>3
  <2>3. \A t \in Topics : \A e \in Events : cur[t] = e => Ended(e)'
    BY <1>4, CloudEventsAssumption DEF Ended, CloudEventsAssumption
  <2>4. QED BY <1>1, <1>2, <2>1, <2>2, <2>3, SettledKept
<1>9. TurnIsTrue' BY <1>3 DEF TurnIsTrue
<1>10. CallsArePaid' BY <1>2, <1>3, PaidKept
<1>11. QED BY <1>5, <1>6, <1>7, <1>8, <1>9, <1>10 DEF IInv

\* A signal changes nothing that is kept, and a start goes back to the committed
\* offsets.
LEMMA StopStartIInv ==
  ASSUME IInv, Stop \/ Start
  PROVE  IInv'
<1>1. TypeOK /\ RoutesKept /\ ReadsAhead /\ AckedIsKept /\ ReadIsSettled /\ TurnIsTrue
  BY DEF IInv
<1>2. UNCHANGED <<caller, buffer, topic, committed, dead, cur, left, bad, letters,
                  done, runs, excused>>
  BY DEF Stop, Start, callers, kafka, reader, writer, history
<1>3. read' = read \/ read' = committed BY DEF Stop, Start, reader
<1>4. \A t \in Topics : committed[t] <= read'[t] /\ read'[t] <= read[t] /\ read'[t] \in Nat
  BY <1>1, <1>3 DEF TypeOK, ReadsAhead
<1>5. TypeOK'
  <2>1. CallersOK' /\ TurnsOK' /\ CallsOK'
    BY <1>1, <1>2, TypeParts DEF CallersOK, TurnsOK, CallsOK
  <2>2. SetsOK' BY <1>1, <1>2, TypeParts DEF SetsOK, Stop, Start, writer
  <2>3. LogsOK' BY <1>1, <1>2, <1>3, TypeParts DEF LogsOK
  <2>4. BoundsOK' BY <1>1, TypeParts, CloudEventsAssumption
    DEF BoundsOK, Stop, Start, bounds, CloudEventsAssumption
  <2>5. QED BY <2>1, <2>2, <2>3, <2>4, TypePartsNext
<1>6. RoutesKept' /\ AckedIsKept' BY <1>1, <1>2, ProducerKept
<1>7. ReadsAhead' BY <1>2, <1>4 DEF ReadsAhead
<1>8. ReadIsSettled' BY <1>1, <1>2, <1>4, SettledKept
<1>9. TurnIsTrue' BY <1>1, <1>2, TurnKept
<1>10. CallsArePaid' BY <1>2, PaidKept
<1>11. QED BY <1>5, <1>6, <1>7, <1>8, <1>9, <1>10 DEF IInv

-----------------------------------------------------------------------------
(* The consumers *)

LEMMA SettleIInv ==
  ASSUME IInv, NEW s \in Topics, Settle(s)
  PROVE  IInv'
<1> USE CloudEventsAssumption DEF CloudEventsAssumption
<1>1. TypeOK /\ RoutesKept /\ ReadsAhead /\ AckedIsKept /\ ReadIsSettled /\ TurnIsTrue
  BY DEF IInv
<1>2. UNCHANGED <<caller, buffer, topic, committed, dead, read, left, open, phase, closed,
                  done, runs>>
  BY DEF Settle, callers, kafka, process, history, Excuse
<1>3. cur[s] \in Events /\ left[s] = {} /\ cur' = [cur EXCEPT ![s] = Null]
      /\ bad' = [bad EXCEPT ![s] = FALSE]
  BY <1>1 DEF Settle, Idle, TypeOK
<1>4. \/ ~bad[s] /\ letters' = letters /\ excused' = excused
      \/ letters' = letters \cup {cur[s]} /\ excused' = excused
      \/ excused' = excused \cup {cur[s]} /\ letters' = letters
  BY DEF Settle, history, Excuse
<1>5. excused \subseteq excused' /\ letters \subseteq letters'
      /\ excused' \subseteq Events /\ letters' \subseteq Events
  BY <1>1, <1>3, <1>4 DEF TypeOK
<1>6. TypeOK'
  <2>1. CallersOK' /\ SetsOK' BY <1>1, <1>2, <1>5, TypeParts DEF CallersOK, SetsOK
  <2>2. LogsOK' /\ CallsOK' BY <1>1, <1>2, TypeParts DEF LogsOK, CallsOK
  <2>3. bad' \in [Topics -> BOOLEAN]
    <3>1. bad \in [Topics -> BOOLEAN] BY <1>1 DEF TypeOK
    <3>2. QED BY <1>3, <3>1, Zenon
  <2>4. cur' \in [Topics -> Events \cup {Null}] BY <1>1, <1>3 DEF TypeOK
  <2>5. \A t \in Topics : cur'[t] = Null => left'[t] = {} /\ ~bad'[t]
    <3> SUFFICES ASSUME NEW t \in Topics, cur'[t] = Null
                 PROVE  left'[t] = {} /\ ~bad'[t]
      OBVIOUS
    <3>1. cur \in [Topics -> Events \cup {Null}] /\ bad \in [Topics -> BOOLEAN]
      BY <1>1 DEF TypeOK
    <3>2. CASE t = s BY <1>2, <1>3, <3>1, <3>2
    <3>3. CASE t # s
      <4>1. cur[t] = Null /\ bad'[t] = bad[t] BY <1>3, <3>1, <3>3
      <4>2. QED BY <1>1, <1>2, <4>1 DEF TypeOK
    <3>4. QED BY <3>2, <3>3
  <2>6. left' \in [Topics -> SUBSET Handlers] BY <1>1, <1>2 DEF TypeOK
  <2>7. TurnsOK' BY <2>3, <2>4, <2>5, <2>6 DEF TurnsOK
  <2>8. BoundsOK' BY <1>1, TypeParts DEF BoundsOK, Settle, NoFault, bounds, Fault
  <2>9. QED BY <2>1, <2>2, <2>7, <2>8, TypePartsNext
<1>7. RoutesKept' /\ AckedIsKept' BY <1>1, <1>2, <1>5, ProducerKept
<1>8. ReadsAhead' BY <1>1, <1>2 DEF ReadsAhead
<1>9. ReadIsSettled'
  <2>1. \A t \in Topics : read'[t] <= read[t] /\ read'[t] \in Nat BY <1>1, <1>2 DEF TypeOK
  <2>2. cur[s] \in letters' \/ Ended(cur[s])
        \/ (excused' = excused \cup {cur[s]} /\ cur[s] \in excused')
    <3>1. CASE ~bad[s]
      BY <1>1, <1>3, <3>1 DEF TurnIsTrue, Ended
    <3>2. CASE bad[s] BY <1>4, <3>2
    <3>3. QED BY <3>1, <3>2
  <2>3. \A t \in Topics : \A e \in Events : cur[t] = e =>
          cur'[t] = e \/ e \in letters' \/ Ended(e)'
    <3> SUFFICES ASSUME NEW t \in Topics, cur[t] \in Events
                 PROVE  \A e \in Events : cur[t] = e =>
                          cur'[t] = e \/ e \in letters' \/ Ended(e)'
      OBVIOUS
    <3>1. CASE t # s BY <1>1, <1>3, <3>1 DEF TypeOK
    <3>2. CASE t = s /\ cur[s] \in letters' BY <3>2
    <3>3. CASE t = s /\ Ended(cur[s])
      BY <1>2, <1>5, <3>3 DEF Ended
    <3>4. CASE t = s /\ cur[s] \in excused' BY <3>4 DEF Ended
    <3>5. QED BY <2>2, <3>1, <3>2, <3>3, <3>4
  <2>4. QED BY <1>1, <1>2, <1>5, <2>1, <2>3, SettledKept
<1>10. TurnIsTrue'
  <2>1. \A t \in Topics : \/ cur'[t] = Null
                          \/ cur'[t] = cur[t] /\ left'[t] = left[t] /\ bad'[t] = bad[t]
    <3>1. cur \in [Topics -> Events \cup {Null}] /\ bad \in [Topics -> BOOLEAN]
      BY <1>1 DEF TypeOK
    <3>2. QED BY <1>2, <1>3, <3>1
  <2>2. QED BY <1>1, <1>2, <1>5, <2>1, TurnKept
<1>11. CallsArePaid'
  <2>1. \A t \in Topics : cur'[t] # Null => cur'[t] = cur[t] /\ left'[t] \subseteq left[t]
    BY <1>1, <1>2, <1>3 DEF TypeOK
  <2>2. QED BY <1>2, <2>1, PaidKept
<1>12. QED BY <1>6, <1>7, <1>8, <1>9, <1>10, <1>11 DEF IInv

LEMMA HandleIInv ==
  ASSUME IInv, NEW s \in Topics, Handle(s)
  PROVE  IInv'
<1> USE CloudEventsAssumption DEF CloudEventsAssumption
<1> DEFINE x == cur[s]
<1>1. TypeOK /\ RoutesKept /\ ReadsAhead /\ AckedIsKept /\ ReadIsSettled /\ TurnIsTrue
      /\ CallsArePaid
  BY DEF IInv
<1>2. PICK h \in left[s] :
        /\ left' = [left EXCEPT ![s] = left[s] \ {h}]
        /\ runs' = [runs EXCEPT ![x][h] = IF runs[x][h] < 2 THEN runs[x][h] + 1 ELSE runs[x][h]]
        /\ \/ /\ done' = [done EXCEPT ![x] = done[x] \cup {h}]
              /\ UNCHANGED <<bad, excused>> /\ NoFault
           \/ /\ bad' = [bad EXCEPT ![s] = bad[s] \/ ~Acknowledges(h)]
              /\ excused' = IF Acknowledges(h) THEN excused \cup {x} ELSE excused
              /\ UNCHANGED done /\ Fault
        /\ UNCHANGED <<callers, kafka, read, cur, writer, process>>
  BY DEF Handle
<1>3. UNCHANGED <<caller, buffer, topic, committed, dead, read, cur, letters, open, phase,
                  closed>>
  BY <1>2 DEF callers, kafka, writer, process
<1>4. x \in Events /\ h \in Handlers /\ x # Null BY <1>1, <1>2 DEF TypeOK
<1>5. /\ excused \subseteq excused' /\ excused' \subseteq Events
      /\ done' \in [Events -> SUBSET Handlers]
      /\ \A e \in Events : done[e] \subseteq done'[e]
  <2>1. done \in [Events -> SUBSET Handlers] /\ excused \subseteq Events BY <1>1 DEF TypeOK
  <2>2. \/ done' = [done EXCEPT ![x] = done[x] \cup {h}] /\ excused' = excused
        \/ done' = done /\ excused' \in {excused, excused \cup {x}}
    BY <1>2
  <2> HIDE DEF x
  <2>3. QED BY <1>4, <2>1, <2>2
<1>6. TypeOK'
  <2>1. CallersOK' /\ SetsOK' BY <1>1, <1>3, <1>5, TypeParts DEF CallersOK, SetsOK
  <2>2. LogsOK' BY <1>1, <1>3, TypeParts DEF LogsOK
  <2>3. CallsOK'
    <3>1. runs \in [Events -> [Handlers -> 0..2]] BY <1>1 DEF TypeOK
    <3>2. runs' \in [Events -> [Handlers -> 0..2]] BY <1>2, <1>4, <3>1
    <3>3. QED BY <1>5, <3>2 DEF CallsOK
  <2>4. bad' \in [Topics -> BOOLEAN]
    <3>1. bad \in [Topics -> BOOLEAN] BY <1>1 DEF TypeOK
    <3>2. CASE bad' = bad BY <3>1, <3>2
    <3>3. CASE bad' = [bad EXCEPT ![s] = bad[s] \/ ~Acknowledges(h)] BY <3>1, <3>3, Zenon
    <3>4. QED BY <1>2, <3>2, <3>3
  <2>5. left' \in [Topics -> SUBSET Handlers] BY <1>1, <1>2 DEF TypeOK
  <2>6. \A t \in Topics : cur'[t] = Null => left'[t] = {} /\ ~bad'[t]
    <3> SUFFICES ASSUME NEW t \in Topics, cur[t] = Null
                 PROVE  left'[t] = {} /\ ~bad'[t]
      BY <1>3
    <3>1. t # s BY <1>4
    <3>2. left'[t] = left[t] BY <1>1, <1>2, <3>1 DEF TypeOK
    <3>3. bad \in [Topics -> BOOLEAN] BY <1>1 DEF TypeOK
    <3>4. bad'[t] = bad[t]
      <4>1. CASE bad' = bad BY <4>1
      <4>2. CASE bad' = [bad EXCEPT ![s] = bad[s] \/ ~Acknowledges(h)]
        BY <3>1, <3>3, <4>2, Zenon
      <4>3. QED BY <1>2, <4>1, <4>2
    <3>5. QED BY <1>1, <3>2, <3>4 DEF TypeOK
  <2>7. TurnsOK' BY <1>1, <1>3, <2>4, <2>5, <2>6 DEF TurnsOK, TypeOK
  <2>8. BoundsOK' BY <1>1, <1>2, TypeParts DEF BoundsOK, NoFault, bounds, Fault
  <2>9. QED BY <2>1, <2>2, <2>3, <2>7, <2>8, TypePartsNext
<1>7. RoutesKept' /\ AckedIsKept' BY <1>1, <1>3, <1>5, ProducerKept
<1>8. ReadsAhead' BY <1>1, <1>3 DEF ReadsAhead
<1>9. ReadIsSettled'
  <2>1. \A t \in Topics : read'[t] <= read[t] /\ read'[t] \in Nat BY <1>1, <1>3 DEF TypeOK
  <2>2. QED BY <1>1, <1>3, <1>5, <2>1, SettledKept
<1>10. TurnIsTrue'
  <2> SUFFICES ASSUME NEW t \in Topics, cur[t] # Null
               PROVE  /\ Route[cur[t]] = t
                      /\ left'[t] \subseteq HandlersOf[cur[t]]
                      /\ \/ bad'[t]
                         \/ /\ HandlersOf[cur[t]] # {}
                            /\ \/ cur[t] \in excused'
                               \/ HandlersOf[cur[t]] \ left'[t] \subseteq done'[cur[t]]
    BY <1>3 DEF TurnIsTrue
  <2>1. /\ Route[cur[t]] = t /\ left[t] \subseteq HandlersOf[cur[t]]
        /\ \/ bad[t]
           \/ /\ HandlersOf[cur[t]] # {}
              /\ \/ cur[t] \in excused
                 \/ HandlersOf[cur[t]] \ left[t] \subseteq done[cur[t]]
    BY <1>1 DEF TurnIsTrue
  <2>2. left \in [Topics -> SUBSET Handlers] /\ bad \in [Topics -> BOOLEAN]
        /\ done \in [Events -> SUBSET Handlers] /\ cur[t] \in Events
    BY <1>1 DEF TypeOK
  <2>3. left'[t] \subseteq left[t] BY <1>2, <2>2
  <2>4. CASE t # s
    <3>1. left'[t] = left[t] BY <1>2, <2>2, <2>4
    <3>2. bad'[t] = bad[t]
      <4>1. CASE bad' = bad BY <4>1
      <4>2. CASE bad' = [bad EXCEPT ![s] = bad[s] \/ ~Acknowledges(h)]
        BY <2>2, <2>4, <4>2, Zenon
      <4>3. QED BY <1>2, <4>1, <4>2
    <3>3. done[cur[t]] \subseteq done'[cur[t]] BY <1>5, <2>2
    <3>4. QED BY <1>5, <2>1, <3>1, <3>2, <3>3
  <2>5. CASE t = s /\ done' = [done EXCEPT ![x] = done[x] \cup {h}]
                   /\ UNCHANGED <<bad, excused>>
    <3>1. done'[x] = done[x] \cup {h} /\ left'[s] = left[s] \ {h} BY <1>2, <2>2, <2>5
    <3>2. QED BY <2>1, <2>3, <2>5, <3>1
  <2>6. CASE t = s /\ bad' = [bad EXCEPT ![s] = bad[s] \/ ~Acknowledges(h)]
                   /\ excused' = (IF Acknowledges(h) THEN excused \cup {x} ELSE excused)
    <3>1. bad'[s] <=> (bad[s] \/ ~Acknowledges(h)) BY <2>2, <2>6, Zenon
    <3>2. CASE Acknowledges(h)
      <4>1. x \in excused' BY <2>6, <3>2
      <4>2. QED BY <2>1, <2>3, <2>6, <3>1, <4>1
    <3>3. CASE ~Acknowledges(h) BY <2>1, <2>3, <2>6, <3>1, <3>3
    <3>4. QED BY <3>2, <3>3
  <2>7. QED BY <1>2, <2>4, <2>5, <2>6
<1>11. CallsArePaid'
  <2> SUFFICES ASSUME NEW e \in Events, NEW k \in Handlers
               PROVE  IF Route[e] = Null THEN runs'[e][k] = 0
                      ELSE runs'[e][k] + Owed(e, k)' <= Cardinality(Taken(e)')
    BY DEF CallsArePaid
  <2>1. runs \in [Events -> [Handlers -> 0..2]] /\ left \in [Topics -> SUBSET Handlers]
    BY <1>1 DEF TypeOK
  <2>2. Route[x] = s BY <1>1, <1>4 DEF TurnIsTrue
  <2>3. Taken(e)' = Taken(e) BY <1>3 DEF Taken
  <2>4. CASE e = x /\ k = h
    <3>1. runs'[e][k] <= runs[e][k] + 1 /\ runs'[e][k] \in 0..2
      BY <1>2, <1>4, <2>1, <2>4
    <3>2. Owed(e, k) = 1 BY <2>2, <2>4 DEF Owed
    <3>3. Owed(e, k)' = 0 BY <1>2, <1>3, <2>1, <2>2, <2>4 DEF Owed
    <3>4. Route[e] # Null BY <2>2, <2>4
    <3>5. runs[e][k] + Owed(e, k) <= Cardinality(Taken(e)) BY <1>1, <3>4 DEF CallsArePaid
    <3>6. Cardinality(Taken(e)) \in Nat /\ runs[e][k] \in 0..2
      BY <1>1, <2>1, <3>4, TakenIsFinite
    <3>7. QED BY <2>3, <3>1, <3>2, <3>3, <3>4, <3>5, <3>6
  <2>5. CASE ~(e = x /\ k = h)
    <3>1. runs'[e][k] = runs[e][k] BY <1>2, <1>4, <2>1, <2>5
    <3>2. CASE Route[e] = Null BY <1>1, <3>1, <3>2 DEF CallsArePaid
    <3>3. CASE Route[e] # Null
      <4>1. Route[e] \in Topics BY <3>3
      <4>2. Owed(e, k)' <= Owed(e, k) BY <1>2, <1>3, <2>1, <4>1 DEF Owed
      <4>3. runs[e][k] + Owed(e, k) <= Cardinality(Taken(e)) BY <1>1, <3>3 DEF CallsArePaid
      <4>4. Cardinality(Taken(e)) \in Nat /\ runs[e][k] \in 0..2
        BY <1>1, <2>1, <3>3, TakenIsFinite
      <4>5. Owed(e, k) \in 0..1 /\ Owed(e, k)' \in 0..1 BY DEF Owed
      <4>6. QED BY <2>3, <3>1, <3>3, <4>2, <4>3, <4>4, <4>5
    <3>4. QED BY <3>2, <3>3
  <2>6. QED BY <2>4, <2>5
<1>12. QED BY <1>1, <1>6, <1>7, <1>8, <1>9, <1>10, <1>11 DEF IInv

LEMMA ReadIInv ==
  ASSUME IInv, NEW s \in Topics, Read(s)
  PROVE  IInv'
<1> USE CloudEventsAssumption DEF CloudEventsAssumption
<1> DEFINE x == topic[s][read[s] + 1]
<1>1. TypeOK /\ RoutesKept /\ ReadsAhead /\ AckedIsKept /\ ReadIsSettled /\ TurnIsTrue
      /\ CallsArePaid
  BY DEF IInv
<1>2. UNCHANGED <<caller, buffer, topic, dead, letters, open, phase, closed, done, runs>>
  BY DEF Read, callers, writer, process, history, Excuse
<1>3. /\ cur[s] = Null /\ read[s] < Len(topic[s])
      /\ read' = [read EXCEPT ![s] = read[s] + 1]
  BY DEF Read, Idle
<1>4. \/ /\ committed' = [committed EXCEPT ![s] = read[s] + 1]
         /\ cur' = [cur EXCEPT ![s] = x]
         /\ left' = [left EXCEPT ![s] = HandlersOf[x]]
         /\ bad' = [bad EXCEPT ![s] = Unhandled(x)]
         /\ excused' = excused /\ NoFault
      \/ /\ committed' \in {committed, [committed EXCEPT ![s] = read[s] + 1]}
         /\ UNCHANGED <<cur, left, bad>>
         /\ excused' = excused \cup {x} /\ Fault
  BY DEF Read, history, Excuse
<1>5. /\ read \in [Topics -> Nat] /\ committed \in [Topics -> Nat]
      /\ topic \in [Topics -> Seq(Events)]
      /\ cur \in [Topics -> Events \cup {Null}] /\ left \in [Topics -> SUBSET Handlers]
      /\ bad \in [Topics -> BOOLEAN]
      /\ \A t \in Topics : read[t] <= Len(topic[t]) /\ committed[t] <= Len(topic[t])
  BY <1>1 DEF TypeOK
<1>6. read[s] \in Nat /\ Len(topic[s]) \in Nat /\ read[s] + 1 \in 1..Len(topic[s])
  BY <1>3, <1>5
<1>7. x \in Events /\ x # Null /\ Route[x] = s /\ Route[x] # Null
  BY <1>1, <1>5, <1>6, MessagesAreEvents DEF RoutesKept
<1> HIDE DEF x
<1>8. excused \subseteq excused' /\ excused' \subseteq Events
  BY <1>1, <1>4, <1>7 DEF TypeOK
<1>9. /\ committed' \in [Topics -> Nat] /\ read' \in [Topics -> Nat]
      /\ \A t \in Topics : /\ committed[t] <= committed'[t] /\ committed'[t] <= read'[t]
                           /\ read[t] <= read'[t] /\ read'[t] <= Len(topic[t])
  <2>1. \/ committed' = committed
        \/ committed' = [committed EXCEPT ![s] = read[s] + 1]
    BY <1>4
  <2>2. \A t \in Topics : read[t] \in Nat /\ committed[t] \in Nat /\ committed[t] <= read[t]
    BY <1>1, <1>5 DEF ReadsAhead
  <2>3. committed' \in [Topics -> Nat] /\ read' \in [Topics -> Nat]
    BY <1>3, <1>5, <1>6, <2>1
  <2>4. ASSUME NEW t \in Topics
        PROVE  /\ committed[t] <= committed'[t] /\ committed'[t] <= read'[t]
               /\ read[t] <= read'[t] /\ read'[t] <= Len(topic[t])
    <3>1. CASE t # s
      <4>1. committed'[t] = committed[t] /\ read'[t] = read[t] BY <1>3, <1>5, <2>1, <3>1
      <4>2. QED BY <1>5, <2>2, <4>1
    <3>2. CASE t = s
      <4>1. committed'[t] \in {committed[t], read[t] + 1} /\ read'[t] = read[t] + 1
        BY <1>3, <1>5, <2>1, <3>2
      <4>2. QED BY <1>6, <2>2, <3>2, <4>1
    <3>3. QED BY <3>1, <3>2
  <2>5. QED BY <2>3, <2>4
<1>10. TypeOK'
  <2>1. CallersOK' /\ SetsOK' BY <1>1, <1>2, <1>8, TypeParts DEF CallersOK, SetsOK
  <2>2. LogsOK'
    <3>1. \A t \in Topics : committed'[t] <= Len(topic[t])
      <4> TAKE t \in Topics
      <4>1. committed'[t] \in Nat /\ read'[t] \in Nat /\ Len(topic[t]) \in Nat
        BY <1>5, <1>9
      <4>2. QED BY <1>9, <4>1
    <3>2. QED BY <1>2, <1>5, <1>9, <3>1 DEF LogsOK
  <2>3. CallsOK' BY <1>1, <1>2, TypeParts DEF CallsOK
  <2>4. bad' \in [Topics -> BOOLEAN]
    <3>1. Unhandled(x) \in BOOLEAN BY DEF Unhandled
    <3>2. CASE bad' = bad BY <1>5, <3>2
    <3>3. CASE bad' = [bad EXCEPT ![s] = Unhandled(x)]
      BY <1>5, <3>1, <3>3, FlagChanged
    <3>4. QED BY <1>4, <3>2, <3>3
  <2>5. cur' \in [Topics -> Events \cup {Null}] /\ left' \in [Topics -> SUBSET Handlers]
    <3>1. HandlersOf[x] \in SUBSET Handlers BY <1>7
    <3>2. CASE UNCHANGED <<cur, left>> BY <1>5, <3>2
    <3>3. CASE cur' = [cur EXCEPT ![s] = x] /\ left' = [left EXCEPT ![s] = HandlersOf[x]]
      BY <1>5, <1>7, <3>1, <3>3
    <3>4. QED BY <1>4, <3>2, <3>3
  <2>6. \A t \in Topics : cur'[t] = Null => left'[t] = {} /\ ~bad'[t]
    <3> SUFFICES ASSUME NEW t \in Topics, cur'[t] = Null
                 PROVE  left'[t] = {} /\ ~bad'[t]
      OBVIOUS
    <3>1. CASE UNCHANGED <<cur, left, bad>> BY <1>1, <3>1 DEF TypeOK
    <3>2. CASE t # s
      <4>1. cur'[t] = cur[t] /\ left'[t] = left[t] BY <1>4, <1>5, <3>2
      <4>2. bad'[t] = bad[t] BY <1>4, <1>5, <3>2, Zenon
      <4>3. QED BY <1>1, <4>1, <4>2 DEF TypeOK
    <3>3. CASE t = s /\ cur' = [cur EXCEPT ![s] = x] BY <1>5, <1>7, <3>3
    <3>4. QED BY <1>4, <3>1, <3>2, <3>3
  <2>7. TurnsOK' BY <2>4, <2>5, <2>6 DEF TurnsOK
  <2>8. BoundsOK' BY <1>1, <1>4, TypeParts DEF BoundsOK, NoFault, bounds, Fault
  <2>9. QED BY <2>1, <2>2, <2>3, <2>7, <2>8, TypePartsNext
<1>11. RoutesKept' /\ AckedIsKept' BY <1>1, <1>2, <1>8, ProducerKept
<1>12. ReadsAhead' BY <1>9 DEF ReadsAhead
<1>13. ReadIsSettled'
  <2> SUFFICES ASSUME NEW t \in Topics, NEW i \in 1..read'[t]
               PROVE  Settled(t, topic[t][i])'
    BY <1>2 DEF ReadIsSettled
  <2>1. CASE i \in 1..read[t]
    <3>1. i \in 1..Len(topic[t]) BY <1>5, <2>1
    <3>2. topic[t][i] \in Events BY <1>1, <3>1, MessagesAreEvents
    <3>3. Settled(t, topic[t][i]) BY <1>1, <2>1 DEF ReadIsSettled
    <3>4. cur[t] = topic[t][i] => cur'[t] = cur[t]
      BY <1>3, <1>4, <1>5, <3>2
    <3>5. QED BY <1>2, <1>8, <3>3, <3>4 DEF Settled, Ended
  <2>2. CASE i \notin 1..read[t]
    <3>1. t = s /\ i = read[s] + 1 BY <1>3, <1>5, <1>6, <2>2
    <3>2. topic[t][i] = x BY <3>1 DEF x
    <3>3. cur'[s] = x \/ x \in excused' BY <1>4, <1>5
    <3>4. QED BY <1>2, <3>1, <3>2, <3>3 DEF Settled, Ended
  <2>3. QED BY <2>1, <2>2
<1>14. TurnIsTrue'
  <2>1. CASE UNCHANGED <<cur, left, bad>>
    BY <1>1, <1>2, <1>8, <2>1, TurnKept
  <2>2. CASE /\ cur' = [cur EXCEPT ![s] = x]
             /\ left' = [left EXCEPT ![s] = HandlersOf[x]]
             /\ bad' = [bad EXCEPT ![s] = Unhandled(x)]
    <3> SUFFICES ASSUME NEW t \in Topics, cur'[t] # Null
                 PROVE  /\ Route[cur'[t]] = t
                        /\ left'[t] \subseteq HandlersOf[cur'[t]]
                        /\ \/ bad'[t]
                           \/ /\ HandlersOf[cur'[t]] # {}
                              /\ \/ cur'[t] \in excused'
                                 \/ HandlersOf[cur'[t]] \ left'[t] \subseteq done'[cur'[t]]
      BY DEF TurnIsTrue
    <3>1. CASE t = s
      <4>1. cur'[t] = x /\ left'[t] = HandlersOf[x] BY <1>5, <2>2, <3>1
      <4>2. bad'[t] <=> HandlersOf[x] = {} BY <1>5, <2>2, <3>1, Zenon DEF Unhandled
      <4>3. QED BY <1>7, <3>1, <4>1, <4>2
    <3>2. CASE t # s
      <4>1. cur'[t] = cur[t] /\ left'[t] = left[t] BY <1>5, <2>2, <3>2
      <4>2. bad'[t] = bad[t] BY <1>5, <2>2, <3>2, Zenon
      <4>3. QED BY <1>1, <1>2, <1>8, <4>1, <4>2 DEF TurnIsTrue
    <3>3. QED BY <3>1, <3>2
  <2>3. QED BY <1>4, <2>1, <2>2
<1>15. CallsArePaid'
  <2> SUFFICES ASSUME NEW e \in Events, NEW k \in Handlers, Route[e] # Null
               PROVE  runs[e][k] + Owed(e, k)' <= Cardinality(Taken(e)')
    BY <1>1, <1>2 DEF CallsArePaid
  <2>1. Route[e] \in Topics OBVIOUS
  <2>2. /\ runs[e][k] + Owed(e, k) <= Cardinality(Taken(e))
        /\ runs[e][k] \in 0..2 /\ IsFiniteSet(Taken(e)) /\ Cardinality(Taken(e)) \in Nat
    BY <1>1, TakenIsFinite DEF CallsArePaid, TypeOK
  <2>3. IsFiniteSet(Taken(e)') /\ Cardinality(Taken(e)') \in Nat
    <3>1. IsFiniteSet(1..committed'[Route[e]]) BY <1>9, <2>1, FS_Interval
    <3>2. Taken(e)' \subseteq 1..committed'[Route[e]] BY DEF Taken
    <3>3. QED BY <3>1, <3>2, FS_Subset, FS_CardinalityType
  <2>4. Taken(e) \subseteq Taken(e)' BY <1>2, <1>5, <1>9, <2>1 DEF Taken
  <2>5. Owed(e, k) \in 0..1 /\ Owed(e, k)' \in 0..1 BY DEF Owed
  <2>6. CASE Owed(e, k)' <= Owed(e, k)
    <3>1. Cardinality(Taken(e)) <= Cardinality(Taken(e)') BY <2>3, <2>4, FS_Subset
    <3>2. QED BY <2>2, <2>3, <2>5, <2>6, <3>1
  <2>7. CASE ~(Owed(e, k)' <= Owed(e, k))
    <3>1. e = x /\ committed' = [committed EXCEPT ![s] = read[s] + 1]
      <4>1. cur'[Route[e]] = e /\ ~UNCHANGED <<cur, left>>
        BY <2>7 DEF Owed
      <4>2. Route[e] = s
        <5>1. SUFFICES ASSUME Route[e] # s PROVE FALSE OBVIOUS
        <5>2. cur'[Route[e]] = cur[Route[e]] /\ left'[Route[e]] = left[Route[e]]
          BY <1>4, <1>5, <2>1, <5>1
        <5>3. QED BY <2>7, <5>2 DEF Owed
      <4>3. QED BY <1>4, <1>5, <4>1, <4>2
    <3>2. read[s] + 1 \in Taken(e)'
      BY <1>2, <1>5, <1>6, <1>7, <3>1 DEF Taken, x
    <3>3. read[s] + 1 \notin Taken(e)
      <4>1. committed[s] \in Nat /\ committed[s] <= read[s] BY <1>1, <1>5 DEF ReadsAhead
      <4>2. QED BY <1>6, <1>7, <3>1, <4>1 DEF Taken
    <3>4. Cardinality(Taken(e) \cup {read[s] + 1}) = Cardinality(Taken(e)) + 1
      BY <2>2, <3>3, FS_AddElement
    <3>5. Cardinality(Taken(e) \cup {read[s] + 1}) <= Cardinality(Taken(e)')
      BY <2>3, <2>4, <3>2, FS_Subset
    <3>6. Cardinality(Taken(e)) + 1 <= Cardinality(Taken(e)') BY <3>4, <3>5
    <3>7. QED BY <2>2, <2>3, <2>5, <3>6
  <2>8. QED BY <2>6, <2>7
<1>16. QED BY <1>10, <1>11, <1>12, <1>13, <1>14, <1>15 DEF IInv

-----------------------------------------------------------------------------
LEMMA StepIInv == IInv /\ [Next]_vars => IInv'
<1> SUFFICES ASSUME IInv, [Next]_vars PROVE IInv' OBVIOUS
<1>1. CASE UNCHANGED vars
  <2>1. UNCHANGED <<caller, buffer, topic, read, committed, cur, left, bad, letters, open,
                    dead, phase, closed, done, runs, excused, faults, stops>>
    BY <1>1 DEF vars, callers, kafka, reader, writer, process, history, bounds
  <2>2. TypeOK' /\ RoutesKept' /\ ReadsAhead' /\ AckedIsKept' /\ TurnIsTrue'
    BY <2>1 DEF IInv, TypeOK, RoutesKept, ReadsAhead, AckedIsKept, InTopic, TurnIsTrue
  <2>3. ReadIsSettled' BY <2>1 DEF IInv, ReadIsSettled, Settled, Ended
  <2>4. CallsArePaid' BY <2>1, PaidKept
  <2>5. QED BY <2>2, <2>3, <2>4 DEF IInv
<1>2. CASE \E e \in Events : Post(e) \/ Flush(e) \/ FlushLetter(e)
  BY <1>2, PostIInv, FlushIInv, FlushLetterIInv
<1>3. CASE \E t \in Topics : Consumer(t) \/ Close(t)
  BY <1>3, ReadIInv, HandleIInv, SettleIInv, CloseIInv DEF Consumer
<1>4. CASE Stop \/ Start BY <1>4, StopStartIInv
<1>5. CASE Exit \/ Crash
  <2>1. faults' \in 0..MaxFaults /\ stops' \in 0..MaxStops
    BY <1>5, CloudEventsAssumption
    DEF IInv, TypeOK, Exit, Crash, End, bounds, CloudEventsAssumption
  <2>2. QED BY <1>5, <2>1, EndIInv DEF Exit, Crash
<1>6. QED BY <1>1, <1>2, <1>3, <1>4, <1>5 DEF Next

LEMMA Invariance == Spec => []IInv
BY InitIInv, StepIInv, PTL DEF Spec

\* The type invariant holds for any events, topics, handlers and bounds.
THEOREM TypeCorrect == Spec => []TypeOK
<1>1. IInv => TypeOK BY DEF IInv
<1>2. QED BY <1>1, Invariance, PTL

\* An event whose sender was told that it is accepted is in the producer's memory
\* or in its topic, unless a failed write or the end of the process took it.
THEOREM AckedAreKept == Spec => []AckedIsKept
<1>1. IInv => AckedIsKept BY DEF IInv
<1>2. QED BY <1>1, Invariance, PTL

\* Every message behind a committed offset was dealt with, became a dead letter,
\* or was given up in one of the ways the code knows.
THEOREM PassedAreSettled == Spec => []PassedIsSettled
<1>1. IInv => PassedIsSettled
  <2> SUFFICES ASSUME IInv, NEW t \in Topics, NEW i \in 1..committed[t]
               PROVE  cur[t] = topic[t][i] \/ topic[t][i] \in letters \/ Ended(topic[t][i])
    BY DEF PassedIsSettled
  <2>1. i \in 1..read[t]
    <3>1. committed[t] <= read[t] /\ committed[t] \in Nat /\ read[t] \in Nat
      BY DEF IInv, ReadsAhead, TypeOK
    <3>2. QED BY <3>1
  <2>2. QED BY <2>1 DEF IInv, ReadIsSettled, Settled
<1>2. QED BY <1>1, Invariance, PTL

\* No handler is called for an event more often than the event is in its topic,
\* although readers go back to the committed offset whenever a process starts.
THEOREM HandledOnceEach == Spec => []HandledOnce
<1>1. IInv => HandledOnce
  <2> SUFFICES ASSUME IInv, NEW e \in Events, NEW h \in Handlers
               PROVE  runs[e][h] <= Copies(e)
    BY DEF HandledOnce
  <2>1. CASE Route[e] = Null BY <2>1 DEF IInv, CallsArePaid, Copies
  <2>2. CASE Route[e] # Null
    <3> DEFINE all == {i \in 1..Len(topic[Route[e]]) : topic[Route[e]][i] = e}
    <3>1. Route[e] \in Topics
      BY <2>2, CloudEventsAssumption DEF CloudEventsAssumption
    <3>2. /\ Len(topic[Route[e]]) \in Nat /\ committed[Route[e]] \in Nat
          /\ committed[Route[e]] <= Len(topic[Route[e]])
      BY <3>1 DEF IInv, TypeOK
    <3>3. IsFiniteSet(all) /\ Cardinality(all) \in Nat
      <4>1. IsFiniteSet(1..Len(topic[Route[e]])) BY <3>2, FS_Interval
      <4>2. all \subseteq 1..Len(topic[Route[e]]) OBVIOUS
      <4>3. QED BY <4>1, <4>2, FS_Subset, FS_CardinalityType
    <3>4. Taken(e) \subseteq all BY <3>2 DEF Taken
    <3>5. Cardinality(Taken(e)) <= Cardinality(all) BY <3>3, <3>4, FS_Subset
    <3>6. runs[e][h] + Owed(e, h) <= Cardinality(Taken(e)) /\ runs[e][h] \in 0..2
      BY <2>2 DEF IInv, CallsArePaid, TypeOK
    <3>7. Cardinality(Taken(e)) \in Nat /\ Owed(e, h) \in 0..1
      BY <2>2, TakenIsFinite DEF IInv, Owed
    <3>8. Copies(e) = Cardinality(all) BY <2>2 DEF Copies
    <3> HIDE DEF all
    <3>9. QED BY <3>3, <3>5, <3>6, <3>7, <3>8
  <2>3. QED BY <2>1, <2>2
<1>2. QED BY <1>1, Invariance, PTL

\* An event whose sender was told that it is accepted is somewhere from where it
\* goes on, until it has ended: what AckedEnds needs besides fairness.
THEOREM AckedGoOn == Spec => []AckedIsOnItsWay
<1>1. IInv => AckedIsOnItsWay
  <2> SUFFICES ASSUME IInv, NEW e \in Events, caller[e] = "acked", Route[e] # Null,
                      e \notin buffer, ~Ended(e)
               PROVE  Coming(e)
    BY DEF AckedIsOnItsWay, Coming
  <2>1. InTopic(e)
    BY DEF IInv, AckedIsKept, Ended
  <2>2. PICK t \in Topics : \E i \in 1..Len(topic[t]) : topic[t][i] = e
    BY <2>1 DEF InTopic
  <2>3. PICK i \in 1..Len(topic[t]) : topic[t][i] = e
    BY <2>2
  <2>4. Route[e] = t
    BY <2>3 DEF IInv, RoutesKept
  <2>5. read[t] \in Nat /\ Len(topic[t]) \in Nat
    BY DEF IInv, TypeOK
  <2>6. CASE i \in 1..read[t]
    <3>1. Settled(t, topic[t][i])
      BY <2>6 DEF IInv, ReadIsSettled
    <3>2. QED BY <2>3, <2>4, <3>1 DEF Settled, Coming
  <2>7. CASE i \in (read[t] + 1)..Len(topic[t])
    BY <2>3, <2>4, <2>7 DEF Coming
  <2>8. QED BY <2>5, <2>6, <2>7
<1>2. QED BY <1>1, Invariance, PTL

-----------------------------------------------------------------------------
(* A graceful stop. *)

\* Consumers end with empty hands, the first of them closes the dead letter
\* writer, and a closed writer holds nothing.
Shut ==
  /\ phase = "up" => closed = {} /\ open
  /\ closed # {} => ~open
  /\ ~open => letters = {}
  /\ letters # {} => Topics # {}
  /\ \A t \in closed : cur[t] = Null

LEMMA ShutNext == ASSUME IInv, Shut, [Next]_vars PROVE Shut'
<1>1. TypeOK BY DEF IInv
<1>2. CASE UNCHANGED vars
  BY <1>2 DEF Shut, vars, callers, kafka, reader, writer, process, history, bounds
<1>3. ASSUME NEW e \in Events, Post(e) \/ Flush(e) PROVE Shut'
  BY <1>3 DEF Post, Flush, Shut, reader, writer, process
<1>4. ASSUME NEW e \in Events, FlushLetter(e) PROVE Shut'
  <2>1. letters' \subseteq letters /\ UNCHANGED <<cur, open, phase, closed>>
    BY <1>4 DEF FlushLetter, reader, process
  <2>2. QED BY <2>1 DEF Shut
<1>5. ASSUME NEW t \in Topics, Read(t) PROVE Shut'
  BY <1>5 DEF Read, Shut, writer, process
<1>6. ASSUME NEW t \in Topics, Handle(t) PROVE Shut'
  BY <1>6 DEF Handle, Shut, writer, process
<1>7. ASSUME NEW t \in Topics, Settle(t) PROVE Shut'
  <2>1. /\ cur' = [cur EXCEPT ![t] = Null]
        /\ letters' = letters \/ (open /\ Topics # {})
        /\ UNCHANGED <<open, phase, closed>>
    BY <1>7 DEF Settle, process
  <2>2. closed \subseteq Topics /\ \A s \in Topics : cur'[s] \in {cur[s], Null}
    BY <1>1, <2>1 DEF TypeOK
  <2>3. QED BY <2>1, <2>2 DEF Shut
<1>8. ASSUME NEW t \in Topics, Close(t) PROVE Shut'
  BY <1>8 DEF Close, Idle, Shut, reader
<1>9. CASE Stop
  BY <1>9 DEF Stop, Shut, reader, writer
<1>10. ASSUME End PROVE Shut'
  <2>1. /\ phase' = "down" /\ letters' = {} /\ UNCHANGED <<open, closed>>
        /\ cur' = [t \in Topics |-> Null]
    BY <1>10 DEF End
  <2>2. QED BY <1>1, <2>1 DEF Shut, TypeOK
<1>11. CASE Start
  BY <1>11 DEF Start, Shut
<1>12. QED
  BY <1>2, <1>3, <1>4, <1>5, <1>6, <1>7, <1>8, <1>9, <1>10, <1>11
     DEF Next, Consumer, Exit, Crash

\* A stop waits for what the consumers and the dead letter writer hold, for any
\* number of consumers that end one by one.
THEOREM StopsDropUnsentOnly == Spec => ExitDropsUnsentOnly
<1>1. Init => Shut
  BY DEF Init, Shut
<1>2. IInv /\ Shut /\ [Next]_vars => Shut'
  BY ShutNext
<1>3. IInv /\ Shut /\ [Next]_vars => [Ends => excused' = excused \cup buffer]_vars
  <2> SUFFICES ASSUME IInv, Shut, Next, Ends PROVE excused' = excused \cup buffer
    OBVIOUS
  <2>1. TypeOK BY DEF IInv
  <2>2. Exit
    <3>1. ~Start /\ ~Stop
      BY DEF Ends, Start, Stop
    <3>2. \A e \in Events : ~Post(e) /\ ~Flush(e) /\ ~FlushLetter(e)
      BY DEF Ends, Post, Flush, FlushLetter, process
    <3>3. \A t \in Topics : ~Read(t) /\ ~Handle(t) /\ ~Settle(t) /\ ~Close(t)
      BY DEF Ends, Read, Handle, Settle, Close, process
    <3>4. ~Crash
      <4>1. stops \in Nat
        BY <2>1, CloudEventsAssumption DEF TypeOK, CloudEventsAssumption
      <4>2. QED BY <4>1 DEF Ends, Crash
    <3>5. QED BY <3>1, <3>2, <3>3, <3>4 DEF Next, Consumer
  <2>3. letters = {} /\ \A t \in Topics : cur[t] = Null
    BY <2>2 DEF Exit, Shut
  <2>4. excused' = excused \cup (buffer \cup letters \cup ({cur[t] : t \in Topics} \ {Null}))
    BY <2>2 DEF Exit, End, Excuse
  <2>5. QED BY <2>3, <2>4
<1>4. QED BY <1>1, <1>2, <1>3, Invariance, PTL DEF Spec, ExitDropsUnsentOnly

=============================================================================
