---------------------------- MODULE CloudEvents ----------------------------
(***************************************************************************)
(* The cloudevents-server: events arrive over HTTP and are written to a      *)
(* Kafka topic by an asynchronous producer.  One consumer for each topic     *)
(* reads them back, gives each to all handlers of its type and writes what   *)
(* was not acknowledged to a dead letter topic, with one asynchronous writer *)
(* that all consumers share.  A process stops on a signal or crashes, and is *)
(* started again.                                                            *)
(***************************************************************************)
EXTENDS Naturals, Sequences, FiniteSets

CONSTANTS
  Events,      \* one CloudEvent each
  Topics,      \* topics with a consumer
  Null,        \* no event, and the topic of events that are ignored
  Handlers,
  Route,       \* Route[e]: the topic its type is mapped to, or Null
  HandlersOf,  \* HandlersOf[e]: the handlers registered for its type
  Swallows,    \* handlers that acknowledge what they failed to do
  MaxFaults,   \* bound on failed calls
  MaxStops     \* bound on ends of the process

ASSUME CloudEventsAssumption ==
  /\ Null \notin Events /\ Null \notin Topics
  /\ Route \in [Events -> Topics \cup {Null}]
  /\ HandlersOf \in [Events -> SUBSET Handlers]
  /\ Swallows \subseteq Handlers
  /\ MaxFaults \in Nat /\ MaxStops \in Nat

VARIABLES
  caller,     \* caller[e]: what the sender of e was told
  buffer,     \* events in the memory of the producer's writer
  topic,      \* topic[t]: the log of t
  read,       \* read[t]: messages the reader of t has taken
  committed,  \* committed[t]: messages whose offset is committed
  cur,        \* cur[t]: the event in the hands of the consumer of t
  left,       \* left[t]: its handlers that have not run
  bad,        \* bad[t]: whether one of them has not acknowledged it
  letters,    \* events in the memory of the dead letter writer
  open,       \* whether the dead letter writer is open
  dead,       \* events in the dead letter topic
  phase,      \* the process
  closed,     \* topics whose consumer has ended
  done,       \* history: done[e]: the handlers that have dealt with e
  runs,       \* history: runs[e]: the handlers called for e, twice if so
  excused,    \* history: events that were given up in a way the code allows
  faults, stops

callers == <<caller, buffer>>
kafka   == <<topic, committed, dead>>
reader  == <<read, cur, left, bad>>
writer  == <<letters, open>>
process == <<phase, closed>>
history == <<done, runs, excused>>
bounds  == <<faults, stops>>
vars    == <<callers, kafka, reader, writer, process, history, bounds>>

Init ==
  /\ caller = [e \in Events |-> "new"]
  /\ buffer = {} /\ letters = {} /\ dead = {}
  /\ topic = [t \in Topics |-> << >>]
  /\ read = [t \in Topics |-> 0]
  /\ committed = [t \in Topics |-> 0]
  /\ cur = [t \in Topics |-> Null]
  /\ left = [t \in Topics |-> {}]
  /\ bad = [t \in Topics |-> FALSE]
  /\ open = TRUE
  /\ phase = "up"
  /\ closed = {}
  /\ done = [e \in Events |-> {}]
  /\ runs = [e \in Events |-> [h \in Handlers |-> 0]]
  /\ excused = {}
  /\ faults = 0 /\ stops = 0

Fault == faults < MaxFaults /\ faults' = faults + 1 /\ UNCHANGED stops
NoFault == UNCHANGED bounds
Excuse(E) == excused' = excused \cup E /\ UNCHANGED <<done, runs>>

-----------------------------------------------------------------------------
(* The producer: EventProducer.HandleCloudEvent. *)

\* Mutant: an event whose write failed is acknowledged.
PostAnyway(e) ==
  /\ phase # "down" /\ caller[e] \in {"new", "refused"}
  /\ caller' = [caller EXCEPT ![e] = "acked"]
  /\ \/ /\ buffer' = IF Route[e] = Null THEN buffer ELSE buffer \cup {e}
        /\ NoFault
     \/ UNCHANGED buffer /\ Fault
  /\ UNCHANGED <<kafka, reader, writer, process, history>>

\* An event of no topic is acknowledged and dropped.  For any other, the writer
\* returns once the event is in its memory.  HTTP is served until the process
\* ends; the sender of an event that was refused may try again.
Post(e) ==
  /\ phase # "down"
  /\ caller[e] \in {"new", "refused"}
  /\ \/ /\ caller' = [caller EXCEPT ![e] = "acked"]
        /\ buffer' = IF Route[e] = Null THEN buffer ELSE buffer \cup {e}
        /\ NoFault
     \/ /\ Route[e] # Null
        /\ caller' = [caller EXCEPT ![e] = "refused"]
        /\ UNCHANGED buffer /\ Fault
  /\ UNCHANGED <<kafka, reader, writer, process, history>>

\* The writer sends in the background: once, twice when it does not see the
\* answer, or, when it has tried often enough, not at all.
Flush(e) ==
  /\ e \in buffer
  /\ buffer' = buffer \ {e}
  /\ LET t == Route[e] IN
     \/ /\ topic' = [topic EXCEPT ![t] = Append(@, e)]
        /\ NoFault /\ UNCHANGED history
     \/ /\ topic' = [topic EXCEPT ![t] = @ \o <<e, e>>]
        /\ Fault /\ UNCHANGED history
     \/ UNCHANGED topic /\ Fault /\ Excuse({e})
  /\ UNCHANGED <<caller, committed, dead, reader, writer, process>>

-----------------------------------------------------------------------------
(* EventConsumer.Start, one for each topic. *)

Idle(t) == cur[t] = Null

\* Mutant: an event without a handler is acknowledged.
UnhandledIsFine(e) == FALSE

\* Without a handler there is no acknowledgement.
Unhandled(e) == HandlersOf[e] = {}

\* Mutant: the offset is committed when the event has been handled.
ReadBeforeCommit(t) ==
  /\ phase = "up" /\ Idle(t)
  /\ read[t] < Len(topic[t])
  /\ read' = [read EXCEPT ![t] = @ + 1]
  /\ LET e == topic[t][read[t] + 1] IN
       /\ cur' = [cur EXCEPT ![t] = e]
       /\ left' = [left EXCEPT ![t] = HandlersOf[e]]
       /\ bad' = [bad EXCEPT ![t] = Unhandled(e)]
  /\ NoFault
  /\ UNCHANGED <<callers, kafka, writer, process, history>>

\* ReadMessage commits the offset of the message before it returns it.  If the
\* commit fails, or the message is no CloudEvent, the loop goes on to the next
\* message.
Read(t) ==
  /\ phase = "up" /\ Idle(t)
  /\ read[t] < Len(topic[t])
  /\ read' = [read EXCEPT ![t] = @ + 1]
  /\ LET e == topic[t][read[t] + 1] IN
     \/ /\ committed' = [committed EXCEPT ![t] = read[t] + 1]
        /\ cur' = [cur EXCEPT ![t] = e]
        /\ left' = [left EXCEPT ![t] = HandlersOf[e]]
        /\ bad' = [bad EXCEPT ![t] = Unhandled(e)]
        /\ NoFault /\ UNCHANGED history
     \/ /\ committed' \in {committed, [committed EXCEPT ![t] = read[t] + 1]}
        /\ UNCHANGED <<cur, left, bad>>
        /\ Fault /\ Excuse({e})
  /\ UNCHANGED <<callers, topic, dead, writer, process>>

\* The handler's result when it fails: an insert that fails and a call of Lark
\* that fails are acknowledged.
Acknowledges(h) == h \in Swallows

\* Mutant: the result of the last handler counts.
HandleLast(t) ==
  \E h \in left[t] :
    /\ left' = [left EXCEPT ![t] = @ \ {h}]
    /\ runs' = [runs EXCEPT ![cur[t]][h] = IF @ < 2 THEN @ + 1 ELSE @]
    /\ \/ /\ done' = [done EXCEPT ![cur[t]] = @ \cup {h}]
          /\ bad' = [bad EXCEPT ![t] = FALSE]
          /\ UNCHANGED excused /\ NoFault
       \/ /\ bad' = [bad EXCEPT ![t] = ~Acknowledges(h)]
          /\ excused' = IF Acknowledges(h) THEN excused \cup {cur[t]} ELSE excused
          /\ UNCHANGED done /\ Fault
    /\ UNCHANGED <<callers, kafka, read, cur, writer, process>>

\* CompositeEventHandler.Handle: all handlers are called, whatever the others
\* return.
Handle(t) ==
  \E h \in left[t] :
    /\ left' = [left EXCEPT ![t] = @ \ {h}]
    /\ runs' = [runs EXCEPT ![cur[t]][h] = IF @ < 2 THEN @ + 1 ELSE @]
    /\ \/ /\ done' = [done EXCEPT ![cur[t]] = @ \cup {h}]
          /\ UNCHANGED <<bad, excused>> /\ NoFault
       \/ /\ bad' = [bad EXCEPT ![t] = @ \/ ~Acknowledges(h)]
          /\ excused' = IF Acknowledges(h) THEN excused \cup {cur[t]} ELSE excused
          /\ UNCHANGED done /\ Fault
    /\ UNCHANGED <<callers, kafka, read, cur, writer, process>>

\* Mutant: the result of one turn is still there in the next.
SettleKept(t) ==
  /\ ~Idle(t) /\ left[t] = {}
  /\ cur' = [cur EXCEPT ![t] = Null]
  /\ \/ ~bad[t] /\ UNCHANGED <<letters, history>> /\ NoFault
     \/ /\ bad[t] /\ open
        /\ letters' = letters \cup {cur[t]}
        /\ UNCHANGED history /\ NoFault
     \/ /\ bad[t] /\ phase = "stopping"
        /\ Excuse({cur[t]})
        /\ UNCHANGED letters /\ NoFault
     \/ /\ bad[t] /\ phase = "up"
        /\ Excuse({cur[t]})
        /\ UNCHANGED letters /\ Fault
  /\ UNCHANGED <<callers, kafka, read, left, bad, open, process>>

\* Mutant: the write waits for an open writer.
SettleOpen(t) ==
  /\ ~Idle(t) /\ left[t] = {}
  /\ cur' = [cur EXCEPT ![t] = Null]
  /\ bad' = [bad EXCEPT ![t] = FALSE]
  /\ \/ ~bad[t] /\ UNCHANGED <<letters, history>> /\ NoFault
     \/ /\ bad[t] /\ open
        /\ letters' = letters \cup {cur[t]}
        /\ UNCHANGED history /\ NoFault
     \/ /\ bad[t] /\ phase = "up"
        /\ Excuse({cur[t]})
        /\ UNCHANGED letters /\ Fault
  /\ UNCHANGED <<callers, kafka, read, left, open, process>>

\* The end of a turn.  The error of the dead letter writer is ignored: it may be
\* closed, and the context of the write is cancelled when the process stops.
Settle(t) ==
  /\ ~Idle(t) /\ left[t] = {}
  /\ cur' = [cur EXCEPT ![t] = Null]
  /\ bad' = [bad EXCEPT ![t] = FALSE]
  /\ \/ ~bad[t] /\ UNCHANGED <<letters, history>> /\ NoFault
     \/ /\ bad[t] /\ open
        /\ letters' = letters \cup {cur[t]}
        /\ UNCHANGED history /\ NoFault
     \/ /\ bad[t] /\ phase = "stopping"
        /\ Excuse({cur[t]})
        /\ UNCHANGED letters /\ NoFault
     \/ /\ bad[t] /\ phase = "up"
        /\ Excuse({cur[t]})
        /\ UNCHANGED letters /\ Fault
  /\ UNCHANGED <<callers, kafka, read, left, open, process>>

\* The dead letter writer sends in the background too.
FlushLetter(e) ==
  /\ e \in letters
  /\ letters' = letters \ {e}
  /\ \/ dead' = dead \cup {e} /\ UNCHANGED history /\ NoFault
     \/ UNCHANGED dead /\ Excuse({e}) /\ Fault
  /\ UNCHANGED <<callers, topic, committed, reader, open, process>>

Consumer(t) == Read(t) \/ Handle(t) \/ Settle(t)

-----------------------------------------------------------------------------
(* startServices: the end of a process and the start of the next. *)

Stop ==
  /\ phase = "up" /\ stops < MaxStops
  /\ phase' = "stopping" /\ stops' = stops + 1
  /\ UNCHANGED <<callers, kafka, reader, writer, closed, history, faults>>

\* A consumer that ends closes the writer of all; Close waits until what is in
\* its memory has been sent.
Close(t) ==
  /\ phase = "stopping" /\ Idle(t) /\ t \notin closed
  /\ closed' = closed \cup {t}
  /\ dead' = dead \cup letters
  /\ letters' = {} /\ open' = FALSE
  /\ UNCHANGED <<callers, topic, committed, reader, phase, history, bounds>>

\* What the process has in memory is gone; the producer is never closed.
End ==
  /\ phase' = "down"
  /\ buffer' = {} /\ letters' = {}
  /\ cur' = [t \in Topics |-> Null]
  /\ left' = [t \in Topics |-> {}]
  /\ bad' = [t \in Topics |-> FALSE]
  /\ Excuse(buffer \cup letters \cup ({cur[t] : t \in Topics} \ {Null}))
  /\ UNCHANGED <<caller, kafka, read, open, closed>>

\* All consumers have ended, and then the HTTP server.
Exit == phase = "stopping" /\ closed = Topics /\ End /\ UNCHANGED bounds

Crash ==
  /\ phase # "down" /\ stops < MaxStops /\ stops' = stops + 1
  /\ End /\ UNCHANGED faults

\* The readers resume at the committed offsets.
Start ==
  /\ phase = "down" /\ phase' = "up"
  /\ read' = committed
  /\ open' = TRUE /\ closed' = {}
  /\ UNCHANGED <<callers, kafka, cur, left, bad, letters, history, bounds>>

-----------------------------------------------------------------------------
Next ==
  \/ \E e \in Events : Post(e) \/ Flush(e) \/ FlushLetter(e)
  \/ \E t \in Topics : Consumer(t) \/ Close(t)
  \/ Stop \/ Exit \/ Crash \/ Start

Spec == Init /\ [][Next]_vars

\* The writers send what they hold, handlers return, consumers go on, a shutdown
\* that has begun goes on and Kubernetes starts the process again.
FairSpec ==
  /\ Spec
  /\ \A e \in Events : WF_vars(Flush(e)) /\ WF_vars(FlushLetter(e))
  /\ \A t \in Topics : WF_vars(Consumer(t)) /\ WF_vars(Close(t))
  /\ WF_vars(Exit) /\ WF_vars(Start)

-----------------------------------------------------------------------------
(* Properties *)

TypeOK ==
  /\ caller \in [Events -> {"new", "acked", "refused"}]
  /\ buffer \subseteq Events /\ letters \subseteq Events /\ dead \subseteq Events
  /\ topic \in [Topics -> Seq(Events)]
  /\ read \in [Topics -> Nat]
  /\ committed \in [Topics -> Nat]
  /\ \A t \in Topics : committed[t] <= Len(topic[t]) /\ read[t] <= Len(topic[t])
  /\ cur \in [Topics -> Events \cup {Null}]
  /\ left \in [Topics -> SUBSET Handlers]
  /\ bad \in [Topics -> BOOLEAN]
  /\ \A t \in Topics : cur[t] = Null => left[t] = {} /\ ~bad[t]
  /\ open \in BOOLEAN
  /\ phase \in {"up", "stopping", "down"}
  /\ closed \subseteq Topics
  /\ done \in [Events -> SUBSET Handlers]
  /\ runs \in [Events -> [Handlers -> 0..2]]
  /\ excused \subseteq Events
  /\ faults \in 0..MaxFaults /\ stops \in 0..MaxStops

InTopic(e) == \E t \in Topics : \E i \in 1..Len(topic[t]) : topic[t][i] = e

Ended(e) ==
  \/ HandlersOf[e] # {} /\ HandlersOf[e] \subseteq done[e]
  \/ e \in dead \/ e \in excused

\* An acknowledged event is not lost without a trace: it is in memory, in its
\* topic, or a write of the producer failed or the process ended with it.
AckedIsKept ==
  \A e \in Events :
    caller[e] = "acked" /\ Route[e] # Null =>
      e \in buffer \/ InTopic(e) \/ e \in excused

\* An event that a consumer has passed was dealt with by all its handlers, or is
\* a dead letter, unless it was given up in one of the ways the code knows.
PassedIsSettled ==
  \A t \in Topics : \A i \in 1..committed[t] :
    LET e == topic[t][i] IN cur[t] = e \/ e \in letters \/ Ended(e)

\* What is still to come for an event that was acknowledged: from every place it
\* can be in, something goes on with it, although a commit may fail, and a
\* restart may or may not go back to it.  What AckedEnds lives on.
Coming(e) ==
  LET t == Route[e] IN
  \/ e \in buffer
  \/ \E i \in (read[t] + 1)..Len(topic[t]) : topic[t][i] = e
  \/ cur[t] = e \/ e \in letters

AckedIsOnItsWay ==
  \A e \in Events :
    caller[e] = "acked" /\ Route[e] # Null => Coming(e) \/ Ended(e)

\* The end of a process that was told to stop gives up what the producer has in
\* memory, and that only: every consumer has settled its event, and the letters were
\* sent although the first consumer that ended closed the writer of all.
Ends == phase = "stopping" /\ phase' = "down" /\ UNCHANGED stops
ExitDropsUnsentOnly == [][Ends => excused' = excused \cup buffer]_vars

Copies(e) ==
  IF Route[e] = Null THEN 0
  ELSE Cardinality({i \in 1..Len(topic[Route[e]]) : topic[Route[e]][i] = e})

\* Handlers send messages and insert records and are not idempotent: none is
\* called for an event more often than the event is in its topic, over failed
\* commits, crashes and restarts.
HandledOnce ==
  \A e \in Events, h \in Handlers : runs[e][h] <= Copies(e)

\* An event that is acknowledged ends: handled, dead, or given up as above.
AckedEnds ==
  \A e \in Events : caller[e] = "acked" /\ Route[e] # Null ~> Ended(e)

\* startServices: "Workers are gracefully stopped", whatever they hold.
StopEnds == phase = "stopping" ~> phase = "down"
=============================================================================
