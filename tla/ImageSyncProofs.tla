--------------------------- MODULE ImageSyncProofs ---------------------------
(***************************************************************************)
(* Proofs about ImageSync for any replicas, number of tasks, batch size,     *)
(* number of tries, faults and stops.                                        *)
(***************************************************************************)
EXTENDS ImageSync, TLAPS

\* A task that is not final has tries left, so that a claim reads a count that
\* can still be raised.
RetriesLeft == \A t \in Tasks : status[t] \notin Final => retry[t] < MaxRetries

\* No count exceeds the copies that have failed: not the one in the table, not
\* the one a worker has read, and not the one it is about to store.
CountsAreTrue ==
  /\ \A t \in Tasks : retry[t] <= failures[t]
  /\ \A r \in Replicas : InFlight(r) => tried[r] <= failures[task[r]]
  /\ \A r \in Replicas :
       pc[r] = "save" /\ ~copied[r] => tried[r] + 1 <= failures[task[r]]

IInv == TypeOK /\ RetriesLeft /\ CountsAreTrue /\ TriesBeforeFailed /\ NoOrphans

-----------------------------------------------------------------------------
\* What the counts say of the worker of q is as before.
SameTry(q) == /\ pc'[q] = pc[q] /\ task'[q] = task[q]
              /\ tried'[q] = tried[q] /\ copied'[q] = copied[q]

\* The counts stay true when the table's and the other workers' do not change,
\* and r has none.
LEMMA CountsKept ==
  ASSUME CountsAreTrue, NEW r \in Replicas, UNCHANGED <<retry, failures>>,
         ~InFlight(r)', \A q \in Replicas \ {r} : SameTry(q)
  PROVE  CountsAreTrue'
BY DEF CountsAreTrue, InFlight, SameTry

\* No orphan appears where every changed row is excused or out of processing, the
\* claims stay and what was to restart still is.
LEMMA OrphansKept ==
  ASSUME NoOrphans,
         \A t \in Tasks : status'[t] = "PROCESSING" =>
           t \in lost' \/ (status[t] = "PROCESSING" /\ (t \in lost => t \in lost')),
         \A q \in Replicas : task'[q] = task[q] /\ (Restarting(q) => Restarting(q)')
  PROVE  NoOrphans'
BY DEF NoOrphans

\* A new task is pending and untried.
LEMMA SyncImageInvariant ==
  ASSUME IInv, NEW t \in Tasks, SyncImage(t)
  PROVE  IInv'
<1> USE SyncAssumption DEF SyncAssumption, TypeOK, columns, locals, past, bounds,
    Statuses, Final, Stages, Stops, InFlight, Goto, Fault, NoFault, Tasks, NoTask,
    SyncImage
<1>1. TypeOK /\ RetriesLeft /\ CountsAreTrue /\ TriesBeforeFailed /\ NoOrphans
  BY DEF IInv
<1>2. TypeOK' BY <1>1
<1>3. RetriesLeft' BY <1>1, <1>2 DEF RetriesLeft
<1>4. CountsAreTrue' BY <1>1, <1>2 DEF CountsAreTrue
<1>5. TriesBeforeFailed' BY <1>1, <1>2 DEF TriesBeforeFailed, CountsAreTrue
<1>6. NoOrphans' BY <1>1, <1>2 DEF NoOrphans, Restarting
<1>7. QED BY <1>2, <1>3, <1>4, <1>5, <1>6 DEF IInv

\* A start touches no task.
LEMMA StartUpInvariant ==
  ASSUME IInv, NEW r \in Replicas, StartUp(r)
  PROVE  IInv'
<1> USE SyncAssumption DEF SyncAssumption, TypeOK, columns, locals, past, bounds,
    Statuses, Final, Stages, Stops, InFlight, Goto, Fault, NoFault, Tasks, NoTask,
    StartUp
<1>1. TypeOK /\ RetriesLeft /\ CountsAreTrue /\ TriesBeforeFailed /\ NoOrphans
  BY DEF IInv
<1>2. TypeOK' BY <1>1
<1>3. RetriesLeft' BY <1>1, <1>2 DEF RetriesLeft
<1>4. CountsAreTrue' BY <1>1, <1>2 DEF CountsAreTrue
<1>5. TriesBeforeFailed' BY <1>1, <1>2 DEF TriesBeforeFailed, CountsAreTrue
<1>6. NoOrphans'
  <2>1. UNCHANGED <<status, lost, task>>
    OBVIOUS
  <2>2. \A q \in Replicas : Restarting(q) => Restarting(q)'
    BY <1>1 DEF Restarting
  <2>3. NoOrphans BY <1>1
  <2> HIDE DEF StartUp, TypeOK, Tasks
  <2>4. QED BY <2>1, <2>2, <2>3, OrphansKept
<1>7. QED BY <1>2, <1>3, <1>4, <1>5, <1>6 DEF IInv

\* A reclaimed task is not final and keeps its count.
LEMMA ReclaimInvariant ==
  ASSUME IInv, NEW r \in Replicas, Reclaim(r)
  PROVE  IInv'
<1> USE SyncAssumption DEF SyncAssumption, TypeOK, columns, locals, past, bounds,
    Statuses, Final, Stages, Stops, InFlight, Goto, Fault, NoFault, Tasks, NoTask,
    Reclaim, Processing
<1>1. TypeOK /\ RetriesLeft /\ CountsAreTrue /\ TriesBeforeFailed /\ NoOrphans
  BY DEF IInv
<1>2. TypeOK'
  <2>1. status' \in [Tasks -> Statuses] /\ retry' \in [Tasks -> 0..MaxRetries]
    <3>1. status \in [Tasks -> Statuses] /\ retry \in [Tasks -> 0..MaxRetries]
      BY <1>1
    <3>2. /\ UNCHANGED retry
          /\ UNCHANGED status \/ status' = [t \in Tasks |-> IF status[t] = "PROCESSING"
                                                THEN "PENDING" ELSE status[t]]
      OBVIOUS
    <3> HIDE DEF Reclaim, TypeOK, Tasks
    <3>3. QED BY <3>1, <3>2
  <2>2. pc' \in [Replicas -> Stages] /\ stop' \in [Replicas -> Stops]
    BY <1>1
  <2>3. batch' \in [Replicas -> SUBSET Tasks]
    BY <1>1
  <2>4. task' \in [Replicas -> Tasks \cup {NoTask}]
    BY <1>1
  <2>5. \A q \in Replicas : InFlight(q)' <=> task'[q] # NoTask
    BY <1>1
  <2>6. tried' \in [Replicas -> 0..MaxRetries-1]
    BY <1>1 DEF RetriesLeft
  <2>7. copied' \in [Replicas -> BOOLEAN]
    BY <1>1, Zenon
  <2>8. failures' \in [Tasks -> 0..MaxRetries] /\ lost' \subseteq Tasks
    BY <1>1
  <2>9. faults' \in 0..MaxFaults /\ stops' \in 0..MaxStops
    BY <1>1
  <2>10. QED BY <2>1, <2>2, <2>3, <2>4, <2>5, <2>6, <2>7, <2>8, <2>9
<1>3. RetriesLeft'
  <2>1. \A u \in Tasks : status'[u] \notin Final => status[u] \notin Final
    BY <1>1
  <2>2. QED BY <1>1, <2>1 DEF RetriesLeft
<1>4. CountsAreTrue'
  <2>1. ~InFlight(r)' /\ UNCHANGED <<retry, failures>>
    BY <1>1
  <2>2. \A q \in Replicas \ {r} : SameTry(q)
    BY <1>1 DEF SameTry
  <2>3. QED BY <1>1, <2>1, <2>2, CountsKept
<1>5. TriesBeforeFailed' BY <1>1, <1>2 DEF TriesBeforeFailed, CountsAreTrue
<1>6. NoOrphans'
  <2>1. CASE \A t \in Tasks : status'[t] # "PROCESSING"
    BY <2>1 DEF NoOrphans
  <2>2. CASE stop[r] = "canceled" BY <1>1, <2>2 DEF NoOrphans, Restarting
  <2>3. CASE UNCHANGED status /\ lost' = Processing
    BY <2>3 DEF NoOrphans
  <2>4. QED BY <1>1, <2>1, <2>2, <2>3
<1>7. QED BY <1>2, <1>3, <1>4, <1>5, <1>6 DEF IInv

\* A query touches no task, and the replica is not about to end.
LEMMA PollInvariant ==
  ASSUME IInv, NEW r \in Replicas, Poll(r)
  PROVE  IInv'
<1> USE SyncAssumption DEF SyncAssumption, TypeOK, columns, locals, past, bounds,
    Statuses, Final, Stages, Stops, InFlight, Goto, Fault, NoFault, Tasks, NoTask,
    Poll, FirstOf, Pending
<1>1. TypeOK /\ RetriesLeft /\ CountsAreTrue /\ TriesBeforeFailed /\ NoOrphans
  BY DEF IInv
<1>2. TypeOK' BY <1>1
<1>3. RetriesLeft' BY <1>1, <1>2 DEF RetriesLeft
<1>4. CountsAreTrue'
  <2>1. ~InFlight(r)' /\ UNCHANGED <<retry, failures>>
    BY <1>1
  <2>2. \A q \in Replicas \ {r} : SameTry(q)
    BY <1>1 DEF SameTry
  <2>3. QED BY <1>1, <2>1, <2>2, CountsKept
<1>5. TriesBeforeFailed' BY <1>1, <1>2 DEF TriesBeforeFailed, CountsAreTrue
<1>6. NoOrphans'
  <2>1. \A q \in Replicas : Restarting(q) => Restarting(q)'
    BY <1>1 DEF Restarting
  <2>2. UNCHANGED <<status, task, lost>>
    OBVIOUS
  <2>3. QED BY <1>1, <2>1, <2>2 DEF NoOrphans
<1>7. QED BY <1>2, <1>3, <1>4, <1>5, <1>6 DEF IInv

\* A claimed task has tries left and becomes the claiming worker's.
LEMMA ClaimInvariant ==
  ASSUME IInv, NEW r \in Replicas, NEW t \in Tasks, Claim(r, t)
  PROVE  IInv'
<1> USE SyncAssumption DEF SyncAssumption, TypeOK, columns, locals, past, bounds,
    Statuses, Final, Stages, Stops, InFlight, Goto, Fault, NoFault, Tasks, NoTask,
    Claim, Take
<1>1. TypeOK /\ RetriesLeft /\ CountsAreTrue /\ TriesBeforeFailed /\ NoOrphans
  BY DEF IInv
<1>2. TypeOK'
  <2>1. status' \in [Tasks -> Statuses] /\ retry' \in [Tasks -> 0..MaxRetries]
    BY <1>1
  <2>2. pc' \in [Replicas -> Stages] /\ stop' \in [Replicas -> Stops]
    BY <1>1
  <2>3. batch' \in [Replicas -> SUBSET Tasks]
    BY <1>1
  <2>4. task' \in [Replicas -> Tasks \cup {NoTask}]
    BY <1>1
  <2>5. \A q \in Replicas : InFlight(q)' <=> task'[q] # NoTask
    BY <1>1
  <2>6. tried' \in [Replicas -> 0..MaxRetries-1]
    <3>1. retry[t] \in 0..MaxRetries /\ retry[t] < MaxRetries
      BY <1>1 DEF RetriesLeft
    <3>2. QED BY <1>1, <3>1
  <2>7. copied' \in [Replicas -> BOOLEAN]
    BY <1>1, Zenon
  <2>8. failures' \in [Tasks -> 0..MaxRetries] /\ lost' \subseteq Tasks
    BY <1>1
  <2>9. faults' \in 0..MaxFaults /\ stops' \in 0..MaxStops
    BY <1>1
  <2>10. QED BY <2>1, <2>2, <2>3, <2>4, <2>5, <2>6, <2>7, <2>8, <2>9
<1>3. RetriesLeft' BY <1>1, <1>2 DEF RetriesLeft
<1>4. CountsAreTrue'
  <2>1. \A u \in Tasks : retry'[u] <= failures'[u]
    BY <1>1 DEF CountsAreTrue
  <2>2. \A q \in Replicas \ {r} : SameTry(q)
    BY <1>1 DEF SameTry
  <2>3. pc'[r] = "copy" /\ task'[r] = t /\ tried'[r] = retry[t] /\ UNCHANGED failures
    BY <1>1
  <2>4. \A q \in Replicas : InFlight(q)' => tried'[q] <= failures'[task'[q]]
    BY <1>1, <2>1, <2>2, <2>3 DEF CountsAreTrue, SameTry
  <2>5. \A q \in Replicas :
          pc'[q] = "save" /\ ~copied'[q] => tried'[q] + 1 <= failures'[task'[q]]
    BY <1>1, <2>2, <2>3 DEF CountsAreTrue, SameTry
  <2>6. QED BY <2>1, <2>4, <2>5 DEF CountsAreTrue
<1>5. TriesBeforeFailed' BY <1>1, <1>2 DEF TriesBeforeFailed, CountsAreTrue
<1>6. NoOrphans'
  <2>1. task'[r] = t /\ \A q \in Replicas \ {r} : task'[q] = task[q]
    BY <1>1
  <2>2. \A q \in Replicas : Restarting(q) => Restarting(q)' /\ q # r
    BY <1>1 DEF Restarting
  <2>3. task[r] = NoTask
    BY <1>1
  <2>4. \A u \in Tasks \ {t} : status'[u] = status[u] /\ (u \in lost => u \in lost')
    BY <1>1
  <2>5. QED BY <1>1, <2>1, <2>2, <2>3, <2>4 DEF NoOrphans
<1>7. QED BY <1>2, <1>3, <1>4, <1>5, <1>6 DEF IInv

\* A claim that takes effect without being reported is a fault.
LEMMA ClaimFailsInvariant ==
  ASSUME IInv, NEW r \in Replicas, NEW t \in Tasks, ClaimFails(r, t)
  PROVE  IInv'
<1> USE SyncAssumption DEF SyncAssumption, TypeOK, columns, locals, past, bounds,
    Statuses, Final, Stages, Stops, InFlight, Goto, Fault, NoFault, Tasks, NoTask,
    ClaimFails, Take
<1>1. TypeOK /\ RetriesLeft /\ CountsAreTrue /\ TriesBeforeFailed /\ NoOrphans
  BY DEF IInv
<1>2. TypeOK'
  <2>1. status' \in [Tasks -> Statuses] /\ retry' \in [Tasks -> 0..MaxRetries]
    BY <1>1
  <2>2. pc' \in [Replicas -> Stages] /\ stop' \in [Replicas -> Stops]
    BY <1>1
  <2>3. batch' \in [Replicas -> SUBSET Tasks]
    BY <1>1
  <2>4. task' \in [Replicas -> Tasks \cup {NoTask}]
    BY <1>1
  <2>5. \A q \in Replicas : InFlight(q)' <=> task'[q] # NoTask
    BY <1>1
  <2>6. tried' \in [Replicas -> 0..MaxRetries-1]
    BY <1>1 DEF RetriesLeft
  <2>7. copied' \in [Replicas -> BOOLEAN]
    BY <1>1, Zenon
  <2>8. failures' \in [Tasks -> 0..MaxRetries] /\ lost' \subseteq Tasks
    BY <1>1
  <2>9. faults' \in 0..MaxFaults /\ stops' \in 0..MaxStops
    <3>1. faults \in 0..MaxFaults /\ stops \in 0..MaxStops
      BY <1>1
    <3>2. UNCHANGED stops /\ (UNCHANGED faults \/ Fault)
      OBVIOUS
    <3> HIDE DEF ClaimFails, Tasks
    <3>3. QED BY <3>1, <3>2
  <2>10. QED BY <2>1, <2>2, <2>3, <2>4, <2>5, <2>6, <2>7, <2>8, <2>9
<1>3. RetriesLeft'
  <2>1. \A u \in Tasks : status'[u] \notin Final => status[u] \notin Final
    BY <1>1
  <2>2. QED BY <1>1, <2>1 DEF RetriesLeft
<1>4. CountsAreTrue'
  <2>1. ~InFlight(r)' /\ UNCHANGED <<retry, failures>>
    BY <1>1
  <2>2. \A q \in Replicas \ {r} : SameTry(q)
    BY <1>1 DEF SameTry
  <2>3. CountsAreTrue
    BY <1>1
  <2> HIDE DEF ClaimFails, Take, TypeOK
  <2>4. QED BY <2>1, <2>2, <2>3, CountsKept
<1>5. TriesBeforeFailed'
  <2>1. \A u \in Tasks : status'[u] = "FAILED" => status[u] = "FAILED"
    BY <1>1
  <2>2. UNCHANGED failures OBVIOUS
  <2>3. TriesBeforeFailed BY <1>1
  <2> HIDE DEF ClaimFails, Take, TypeOK
  <2>4. QED BY <2>1, <2>2, <2>3 DEF TriesBeforeFailed
<1>6. NoOrphans'
  <2>1. \A u \in Tasks : status'[u] = "PROCESSING" =>
          u \in lost' \/ (status[u] = "PROCESSING" /\ (u \in lost => u \in lost'))
    BY <1>1
  <2>2. \A q \in Replicas : task'[q] = task[q] /\ (Restarting(q) => Restarting(q)')
    BY <1>1 DEF Restarting
  <2>3. NoOrphans BY <1>1
  <2> HIDE DEF ClaimFails, Take, TypeOK, Tasks
  <2>4. QED BY <2>1, <2>2, <2>3, OrphansKept
<1>7. QED BY <1>2, <1>3, <1>4, <1>5, <1>6 DEF IInv

\* The end of a batch touches no task.
LEMMA EndBatchInvariant ==
  ASSUME IInv, NEW r \in Replicas, EndBatch(r)
  PROVE  IInv'
<1> USE SyncAssumption DEF SyncAssumption, TypeOK, columns, locals, past, bounds,
    Statuses, Final, Stages, Stops, InFlight, Goto, Fault, NoFault, Tasks, NoTask,
    EndBatch
<1>1. TypeOK /\ RetriesLeft /\ CountsAreTrue /\ TriesBeforeFailed /\ NoOrphans
  BY DEF IInv
<1>2. TypeOK' BY <1>1
<1>3. RetriesLeft' BY <1>1, <1>2 DEF RetriesLeft
<1>4. CountsAreTrue' BY <1>1, <1>2 DEF CountsAreTrue
<1>5. TriesBeforeFailed' BY <1>1, <1>2 DEF TriesBeforeFailed, CountsAreTrue
<1>6. NoOrphans'
  <2>1. UNCHANGED <<status, lost, task>>
    OBVIOUS
  <2>2. \A q \in Replicas : Restarting(q) => Restarting(q)'
    BY <1>1 DEF Restarting
  <2>3. NoOrphans BY <1>1
  <2> HIDE DEF EndBatch, TypeOK, Tasks
  <2>4. QED BY <2>1, <2>2, <2>3, OrphansKept
<1>7. QED BY <1>2, <1>3, <1>4, <1>5, <1>6 DEF IInv

\* A failed copy makes room for the count that will be stored.
LEMMA CopyInvariant ==
  ASSUME IInv, NEW r \in Replicas, Copy(r)
  PROVE  IInv'
<1> USE SyncAssumption DEF SyncAssumption, TypeOK, columns, locals, past, bounds,
    Statuses, Final, Stages, Stops, InFlight, Goto, Fault, NoFault, Tasks, NoTask,
    Copy
<1>1. TypeOK /\ RetriesLeft /\ CountsAreTrue /\ TriesBeforeFailed /\ NoOrphans
  BY DEF IInv
<1>1a. task[r] \in Tasks BY <1>1
<1>1b. failures[task[r]] \in 0..MaxRetries BY <1>1, <1>1a
<1>1c. \A u \in Tasks :
         \/ failures'[u] = failures[u]
         \/ u = task[r] /\ failures[u] < MaxRetries /\ failures'[u] = failures[u] + 1
  <2>1. CASE UNCHANGED failures BY <2>1
  <2>2. CASE failures' = [failures EXCEPT ![task[r]] =
                            IF @ < MaxRetries THEN @ + 1 ELSE @]
    BY <1>1, <1>1a, <1>1b, <2>2
  <2>3. QED BY <2>1, <2>2
<1>2. TypeOK'
  <2>1. status' \in [Tasks -> Statuses] /\ retry' \in [Tasks -> 0..MaxRetries]
    BY <1>1
  <2>2. pc' \in [Replicas -> Stages] /\ stop' \in [Replicas -> Stops]
    BY <1>1
  <2>3. batch' \in [Replicas -> SUBSET Tasks]
    BY <1>1
  <2>4. task' \in [Replicas -> Tasks \cup {NoTask}]
    BY <1>1
  <2>5. \A q \in Replicas : InFlight(q)' <=> task'[q] # NoTask
    BY <1>1
  <2>6. tried' \in [Replicas -> 0..MaxRetries-1]
    BY <1>1 DEF RetriesLeft
  <2>7. copied' \in [Replicas -> BOOLEAN]
    BY <1>1, Zenon
  <2>8. failures' \in [Tasks -> 0..MaxRetries] /\ lost' \subseteq Tasks
    <3>1. failures \in [Tasks -> 0..MaxRetries] /\ UNCHANGED lost /\ lost \subseteq Tasks
      BY <1>1
    <3>2. UNCHANGED failures \/ failures' = [failures EXCEPT ![task[r]] =
                                  IF @ < MaxRetries THEN @ + 1 ELSE @]
      OBVIOUS
    <3> HIDE DEF Copy, TypeOK, Tasks
    <3>3. QED BY <1>1a, <1>1b, <3>1, <3>2
  <2>9. faults' \in 0..MaxFaults /\ stops' \in 0..MaxStops
    BY <1>1
  <2>10. QED BY <2>1, <2>2, <2>3, <2>4, <2>5, <2>6, <2>7, <2>8, <2>9
<1>3. RetriesLeft' BY <1>1, <1>2 DEF RetriesLeft
<1>4. CountsAreTrue'
  <2>1. \A u \in Tasks : /\ failures[u] \in Nat /\ failures'[u] \in Nat
                         /\ failures'[u] >= failures[u] /\ retry[u] \in Nat
    <3>1. \A u \in Tasks : failures[u] \in Nat /\ retry[u] \in Nat
      BY <1>1
    <3> HIDE DEF Copy, TypeOK, Tasks
    <3>2. QED BY <1>1c, <3>1
  <2>2. tried[r] <= failures[task[r]] /\ tried[r] \in 0..MaxRetries-1
    BY <1>1 DEF CountsAreTrue
  <2>3. ~copied'[r] => tried[r] + 1 <= failures'[task[r]]
    <3>1. copied'[r] \/ failures' = [failures EXCEPT ![task[r]] =
                                        IF @ < MaxRetries THEN @ + 1 ELSE @]
      BY <1>1
    <3>2. failures \in [Tasks -> 0..MaxRetries]
      BY <1>1
    <3> HIDE DEF Copy, TypeOK, Tasks
    <3>3. QED BY <1>1a, <1>1b, <2>2, <3>1, <3>2
  <2>4. \A u \in Tasks : retry'[u] <= failures'[u]
    <3>1. UNCHANGED retry /\ \A u \in Tasks : retry[u] <= failures[u]
      BY <1>1 DEF CountsAreTrue
    <3> HIDE DEF Copy, TypeOK, Tasks
    <3>2. QED BY <2>1, <3>1
  <2>5. \A q \in Replicas : InFlight(q)' =>
          /\ InFlight(q)
          /\ task'[q] = task[q] /\ task[q] \in Tasks
          /\ tried'[q] = tried[q] /\ tried[q] \in Nat
    BY <1>1
  <2>6. \A q \in Replicas : InFlight(q)' => tried'[q] <= failures'[task'[q]]
    <3> SUFFICES ASSUME NEW q \in Replicas, InFlight(q)'
                 PROVE  tried'[q] <= failures'[task'[q]]
      OBVIOUS
    <3>1. tried[q] <= failures[task[q]]
      BY <1>1, <2>5 DEF CountsAreTrue
    <3>2. QED BY <2>1, <2>5, <3>1
  <2>7. \A q \in Replicas :
          pc'[q] = "save" /\ ~copied'[q] => tried'[q] + 1 <= failures'[task'[q]]
    <3> SUFFICES ASSUME NEW q \in Replicas, pc'[q] = "save", ~copied'[q]
                 PROVE  tried'[q] + 1 <= failures'[task'[q]]
      OBVIOUS
    <3>1. CASE q = r
      BY <2>3, <2>5, <3>1
    <3>2. CASE q # r
      <4>1. pc[q] = "save" /\ ~copied[q]
        BY <1>1, <3>2
      <4>2. tried[q] + 1 <= failures[task[q]]
        BY <1>1, <4>1 DEF CountsAreTrue
      <4>3. QED BY <2>1, <2>5, <4>2
    <3>3. QED BY <3>1, <3>2
  <2>8. QED BY <2>4, <2>6, <2>7 DEF CountsAreTrue
<1>5. TriesBeforeFailed'
  <2>1. \A u \in Tasks : status[u] = "FAILED" => failures[u] = MaxRetries
    BY <1>1 DEF TriesBeforeFailed
  <2>2. \A u \in Tasks : failures[u] = MaxRetries => failures'[u] = MaxRetries
    BY <1>1c
  <2>3. UNCHANGED status
    OBVIOUS
  <2>4. QED BY <2>1, <2>2, <2>3 DEF TriesBeforeFailed
<1>6. NoOrphans' BY <1>1, <1>2 DEF NoOrphans, Restarting
<1>7. QED BY <1>2, <1>3, <1>4, <1>5, <1>6 DEF IInv

\* The stored count has been failed for; the task is not in processing any more.
LEMMA SaveInvariant ==
  ASSUME IInv, NEW r \in Replicas, Save(r)
  PROVE  IInv'
<1> USE SyncAssumption DEF SyncAssumption, Statuses, Final, Stages, Stops,
    InFlight, Tasks, NoTask
<1>1. TypeOK /\ RetriesLeft /\ CountsAreTrue /\ TriesBeforeFailed /\ NoOrphans
  BY DEF IInv
<1>2. /\ task[r] \in Tasks /\ tried[r] \in 0..MaxRetries-1
      /\ pc[r] = "save" /\ UNCHANGED <<batch, failures, stops>>
  BY <1>1 DEF Save, TypeOK
<1>3. /\ pc' = [pc EXCEPT ![r] = "batch"]
      /\ stop' = [stop EXCEPT ![r] = IF @ = "waiting" THEN "stopped" ELSE @]
      /\ task' = [task EXCEPT ![r] = NoTask]
      /\ tried' = [tried EXCEPT ![r] = 0]
      /\ copied' = [copied EXCEPT ![r] = FALSE]
  BY DEF Save, Done, Goto
<1>4. \/ StoreOutcome(r) /\ UNCHANGED faults /\ lost' = lost \ {task[r]}
      \/ /\ UNCHANGED columns /\ faults < MaxFaults /\ faults' = faults + 1
         /\ lost' = lost \cup ({task[r]} \cap Processing)
  BY DEF Save, Fault, NoFault
<1>5. \A u \in Tasks \ {task[r]} : status'[u] = status[u] /\ retry'[u] = retry[u]
  BY <1>1, <1>2, <1>4 DEF StoreOutcome, columns, TypeOK
<1>6. \/ status'[task[r]] = status[task[r]] /\ retry'[task[r]] = retry[task[r]]
      \/ /\ copied[r] /\ status'[task[r]] = "SUCCEEDED"
         /\ retry'[task[r]] = retry[task[r]]
      \/ /\ ~copied[r] /\ retry'[task[r]] = tried[r] + 1
         /\ \/ status'[task[r]] = "PENDING" /\ tried[r] + 1 < MaxRetries
            \/ status'[task[r]] = "FAILED" /\ tried[r] + 1 >= MaxRetries
  <2>1. CASE UNCHANGED columns BY <2>1 DEF columns
  <2>2. CASE StoreOutcome(r)
    <3>1. /\ status'[task[r]] = Outcome(r)
          /\ retry'[task[r]] = IF copied[r] THEN retry[task[r]] ELSE tried[r] + 1
      BY <1>1, <1>2, <2>2 DEF StoreOutcome, TypeOK
    <3>2. QED BY <1>2, <3>1 DEF Outcome
  <2>3. QED BY <1>4, <2>1, <2>2
<1>7. TypeOK'
  <2>1. status' \in [Tasks -> Statuses] /\ retry' \in [Tasks -> 0..MaxRetries]
    <3>1. CASE UNCHANGED columns BY <1>1, <3>1 DEF TypeOK, columns
    <3>2. CASE StoreOutcome(r)
      <4>1. Outcome(r) \in Statuses
        BY DEF Outcome
      <4>2. (IF copied[r] THEN retry[task[r]] ELSE tried[r] + 1) \in 0..MaxRetries
        BY <1>1, <1>2 DEF TypeOK
      <4>3. QED BY <1>1, <1>2, <3>2, <4>1, <4>2 DEF StoreOutcome, TypeOK
    <3>3. QED BY <1>4, <3>1, <3>2
  <2>2. pc' \in [Replicas -> Stages] /\ stop' \in [Replicas -> Stops]
    BY <1>1, <1>3 DEF TypeOK
  <2>3. task' \in [Replicas -> Tasks \cup {NoTask}] /\ tried' \in [Replicas -> 0..MaxRetries-1]
    BY <1>1, <1>3 DEF TypeOK
  <2>4. \A q \in Replicas : InFlight(q)' <=> task'[q] # NoTask
    BY <1>1, <1>3 DEF TypeOK
  <2>5. copied' \in [Replicas -> BOOLEAN]
    BY <1>1, <1>3, Zenon DEF TypeOK
  <2>6. faults' \in 0..MaxFaults
    BY <1>1, <1>4 DEF TypeOK
  <2>7. lost' \subseteq Tasks
    <3>1. lost \subseteq Tasks BY <1>1 DEF TypeOK
    <3> HIDE DEF Tasks
    <3>2. QED BY <1>2, <1>4, <3>1
  <2>8. QED BY <1>1, <1>2, <2>1, <2>2, <2>3, <2>4, <2>5, <2>6, <2>7 DEF TypeOK
<1>8. RetriesLeft'
  <2>1. \A u \in Tasks : status[u] \notin Final => retry[u] < MaxRetries
    BY <1>1 DEF RetriesLeft
  <2>2. QED BY <1>5, <1>6, <2>1 DEF RetriesLeft
<1>9. CountsAreTrue'
  <2>1. \A u \in Tasks : retry[u] <= failures[u]
    BY <1>1 DEF CountsAreTrue
  <2>2. ~copied[r] => tried[r] + 1 <= failures[task[r]]
    BY <1>1, <1>2 DEF CountsAreTrue
  <2>3. \A u \in Tasks : retry'[u] <= failures'[u]
    BY <1>2, <1>5, <1>6, <2>1, <2>2
  <2>4. \A q \in Replicas \ {r} : /\ pc'[q] = pc[q] /\ task'[q] = task[q]
                                /\ tried'[q] = tried[q] /\ copied'[q] = copied[q]
    BY <1>1, <1>3 DEF TypeOK
  <2>5. pc'[r] = "batch"
    BY <1>1, <1>3 DEF TypeOK
  <2>6. QED BY <1>1, <1>2, <2>3, <2>4, <2>5 DEF CountsAreTrue
<1>10. TriesBeforeFailed'
  <2>1. \A u \in Tasks : failures[u] \in 0..MaxRetries
    BY <1>1 DEF TypeOK
  <2>2. ~copied[r] => tried[r] + 1 <= failures[task[r]]
    BY <1>1, <1>2 DEF CountsAreTrue
  <2>3. \A u \in Tasks : status[u] = "FAILED" => failures[u] = MaxRetries
    BY <1>1 DEF TriesBeforeFailed
  <2>4. \A u \in Tasks : status'[u] = "FAILED" => failures[u] = MaxRetries
    BY <1>2, <1>5, <1>6, <2>1, <2>2, <2>3
  <2>5. QED BY <1>2, <2>4 DEF TriesBeforeFailed
<1>11. NoOrphans'
  <2>1. SUFFICES ASSUME NEW u \in Tasks, status'[u] = "PROCESSING", u \notin lost'
                 PROVE  \E q \in Replicas : task'[q] = u \/ Restarting(q)'
    BY DEF NoOrphans
  <2>2. u # task[r]
    <3>1. CASE StoreOutcome(r)
      <4>1. status'[task[r]] = Outcome(r)
        BY <1>1, <1>2, <3>1 DEF StoreOutcome, TypeOK
      <4>2. QED BY <2>1, <4>1 DEF Outcome
    <3>2. CASE UNCHANGED columns /\ lost' = lost \cup ({task[r]} \cap Processing)
      BY <2>1, <3>2 DEF columns, Processing
    <3>3. QED BY <1>4, <3>1, <3>2
  <2>3. status[u] = "PROCESSING" /\ u \notin lost
    BY <1>4, <1>5, <2>1, <2>2
  <2>4. PICK q \in Replicas : task[q] = u \/ Restarting(q)
    BY <1>1, <2>3 DEF NoOrphans
  <2>5. q # r
    BY <1>2, <2>2, <2>4 DEF Restarting
  <2>6. pc'[q] = pc[q] /\ stop'[q] = stop[q] /\ task'[q] = task[q]
    BY <1>1, <1>3, <2>5 DEF TypeOK
  <2>7. QED BY <2>4, <2>6 DEF Restarting
<1>12. QED BY <1>7, <1>8, <1>9, <1>10, <1>11 DEF IInv

\* A signal touches no task.
LEMMA TerminateInvariant ==
  ASSUME IInv, NEW r \in Replicas, Terminate(r)
  PROVE  IInv'
<1> USE SyncAssumption DEF SyncAssumption, TypeOK, columns, locals, past, bounds,
    Statuses, Final, Stages, Stops, InFlight, Goto, Fault, NoFault, Tasks, NoTask,
    Terminate
<1>1. TypeOK /\ RetriesLeft /\ CountsAreTrue /\ TriesBeforeFailed /\ NoOrphans
  BY DEF IInv
<1>2. TypeOK'
  <2>1. stop' \in [Replicas -> Stops]
    BY <1>1
  <2>2. stops' \in 0..MaxStops
    BY <1>1
  <2>3. QED BY <1>1, <2>1, <2>2
<1>3. RetriesLeft' BY <1>1, <1>2 DEF RetriesLeft
<1>4. CountsAreTrue' BY <1>1, <1>2 DEF CountsAreTrue
<1>5. TriesBeforeFailed' BY <1>1, <1>2 DEF TriesBeforeFailed, CountsAreTrue
<1>6. NoOrphans' BY <1>1, <1>2 DEF NoOrphans, Restarting
<1>7. QED BY <1>2, <1>3, <1>4, <1>5, <1>6 DEF IInv

\* A canceled context touches no task.
LEMMA CancelInvariant ==
  ASSUME IInv, NEW r \in Replicas, Cancel(r)
  PROVE  IInv'
<1> USE SyncAssumption DEF SyncAssumption, TypeOK, columns, locals, past, bounds,
    Statuses, Final, Stages, Stops, InFlight, Goto, Fault, NoFault, Tasks, NoTask,
    Cancel
<1>1. TypeOK /\ RetriesLeft /\ CountsAreTrue /\ TriesBeforeFailed /\ NoOrphans
  BY DEF IInv
<1>2. TypeOK' BY <1>1
<1>3. RetriesLeft' BY <1>1, <1>2 DEF RetriesLeft
<1>4. CountsAreTrue' BY <1>1, <1>2 DEF CountsAreTrue
<1>5. TriesBeforeFailed' BY <1>1, <1>2 DEF TriesBeforeFailed, CountsAreTrue
<1>6. NoOrphans'
  <2>1. UNCHANGED <<status, lost, task>>
    OBVIOUS
  <2>2. \A q \in Replicas : Restarting(q) => Restarting(q)'
    BY <1>1 DEF Restarting
  <2>3. NoOrphans BY <1>1
  <2> HIDE DEF Cancel, TypeOK, Tasks
  <2>4. QED BY <2>1, <2>2, <2>3, OrphansKept
<1>7. QED BY <1>2, <1>3, <1>4, <1>5, <1>6 DEF IInv

\* A replica that ends is started again.
LEMMA ExitInvariant ==
  ASSUME IInv, NEW r \in Replicas, Exit(r)
  PROVE  IInv'
<1> USE SyncAssumption DEF SyncAssumption, TypeOK, columns, locals, past, bounds,
    Statuses, Final, Stages, Stops, InFlight, Goto, Fault, NoFault, Tasks, NoTask,
    Exit
<1>1. TypeOK /\ RetriesLeft /\ CountsAreTrue /\ TriesBeforeFailed /\ NoOrphans
  BY DEF IInv
<1>2. TypeOK' BY <1>1
<1>3. RetriesLeft' BY <1>1, <1>2 DEF RetriesLeft
<1>4. CountsAreTrue' BY <1>1, <1>2 DEF CountsAreTrue
<1>5. TriesBeforeFailed' BY <1>1, <1>2 DEF TriesBeforeFailed, CountsAreTrue
<1>6. NoOrphans'
  <2>1. UNCHANGED <<status, lost, task>>
    OBVIOUS
  <2>2. \A q \in Replicas : Restarting(q) => Restarting(q)'
    BY <1>1 DEF Restarting
  <2>3. NoOrphans BY <1>1
  <2> HIDE DEF Exit, TypeOK, Tasks
  <2>4. QED BY <2>1, <2>2, <2>3, OrphansKept
<1>7. QED BY <1>2, <1>3, <1>4, <1>5, <1>6 DEF IInv

\* A replica that has crashed is started again and reclaims.
LEMMA CrashInvariant ==
  ASSUME IInv, NEW r \in Replicas, Crash(r)
  PROVE  IInv'
<1> USE SyncAssumption DEF SyncAssumption, TypeOK, columns, locals, past, bounds,
    Statuses, Final, Stages, Stops, InFlight, Goto, Fault, NoFault, Tasks, NoTask,
    Crash
<1>1. TypeOK /\ RetriesLeft /\ CountsAreTrue /\ TriesBeforeFailed /\ NoOrphans
  BY DEF IInv
<1>2. TypeOK'
  <2>1. UNCHANGED <<status, retry, failures, lost, faults>> /\ stops' \in 0..MaxStops
    BY <1>1
  <2>2. pc' \in [Replicas -> Stages] /\ stop' \in [Replicas -> Stops]
    BY <1>1
  <2>3. /\ batch' \in [Replicas -> SUBSET Tasks]
        /\ task' \in [Replicas -> Tasks \cup {NoTask}]
    BY <1>1
  <2>4. \A q \in Replicas : InFlight(q)' <=> task'[q] # NoTask
    BY <1>1
  <2>5. tried' \in [Replicas -> 0..MaxRetries-1]
    BY <1>1
  <2>6. copied' \in [Replicas -> BOOLEAN]
    BY <1>1, Zenon
  <2>7. TypeOK BY <1>1
  <2> HIDE DEF Crash, InFlight, Tasks, Stages, Stops, Statuses
  <2>8. QED BY <2>1, <2>2, <2>3, <2>4, <2>5, <2>6, <2>7
<1>3. RetriesLeft' BY <1>1, <1>2 DEF RetriesLeft
<1>4. CountsAreTrue'
  <2>1. ~InFlight(r)' /\ UNCHANGED <<retry, failures>>
    BY <1>1
  <2>2. \A q \in Replicas \ {r} : SameTry(q)
    BY <1>1 DEF SameTry
  <2>3. QED BY <1>1, <2>1, <2>2, CountsKept
<1>5. TriesBeforeFailed' BY <1>1, <1>2 DEF TriesBeforeFailed, CountsAreTrue
<1>6. NoOrphans' BY <1>1, <1>2 DEF NoOrphans, Restarting
<1>7. QED BY <1>2, <1>3, <1>4, <1>5, <1>6 DEF IInv

-----------------------------------------------------------------------------
\* The invariant holds initially.
LEMMA InitInvariant == Init => IInv
BY SyncAssumption DEF SyncAssumption, Init, IInv, TypeOK, RetriesLeft, CountsAreTrue,
   TriesBeforeFailed, NoOrphans, InFlight, Statuses, Final, Stages, Stops, Tasks, NoTask

\* Every step keeps it.
LEMMA NextInvariant == IInv /\ [Next]_vars => IInv'
<1> SUFFICES ASSUME IInv, [Next]_vars PROVE IInv'
  OBVIOUS
<1>1. CASE \E t \in Tasks : SyncImage(t)
  BY <1>1, SyncImageInvariant
<1>2. ASSUME NEW r \in Replicas, Work(r) PROVE IInv'
  BY <1>2, ReclaimInvariant, PollInvariant, ClaimInvariant, ClaimFailsInvariant,
     EndBatchInvariant, CopyInvariant, SaveInvariant DEF Work
<1>3. ASSUME NEW r \in Replicas, StartUp(r) \/ Shutdown(r) \/ Terminate(r) \/ Crash(r)
      PROVE IInv'
  BY <1>3, StartUpInvariant, CancelInvariant, ExitInvariant, TerminateInvariant,
     CrashInvariant DEF Shutdown
<1>4. CASE UNCHANGED vars
  BY <1>4 DEF IInv, TypeOK, RetriesLeft, CountsAreTrue, TriesBeforeFailed, NoOrphans,
     Restarting, InFlight, vars, columns, locals, past, bounds
<1>5. QED BY <1>1, <1>2, <1>3, <1>4 DEF Next

\* The inductive invariant holds in every reachable state.
THEOREM Invariance == Spec => []IInv
<1>1. QED BY InitInvariant, NextInvariant, PTL DEF Spec

\* The types, for any constants: no claim ever reads a count of tries that is
\* used up.
THEOREM TypeCorrect == Spec => []TypeOK
<1>1. IInv => TypeOK BY DEF IInv
<1>2. QED BY <1>1, Invariance, PTL

\* A task is given up only after MaxRetries failed copies, for any number of
\* replicas that reclaim, copy and overwrite each other's tasks.
THEOREM TriedBeforeFailed == Spec => []TriesBeforeFailed
<1>1. IInv => TriesBeforeFailed BY DEF IInv
<1>2. QED BY <1>1, Invariance, PTL

\* Stops leave no task in processing behind, for any number of replicas and stops;
\* of failed updates only the one of that very task does, until some replica starts.
THEOREM NoneIsOrphaned == Spec => []NoOrphans
<1>1. IInv => NoOrphans BY DEF IInv
<1>2. QED BY <1>1, Invariance, PTL

-----------------------------------------------------------------------------
(* One replica implements SyncTask. *)

OneReplica == \A p, q \in Replicas : p = q

\* The task a worker has claimed is in processing, and its count is the one that
\* the worker has read.  Replicas that overlap break this: see ImageSyncOverlap.
OwnTask ==
  \A r \in Replicas : task[r] # NoTask =>
    status[task[r]] = "PROCESSING" /\ tried[r] = retry[task[r]]

\* The actions that change neither the table nor a claim.
Internal(r) == \/ StartUp(r) \/ Poll(r) \/ EndBatch(r) \/ Copy(r)
               \/ Shutdown(r) \/ Terminate(r)

LEMMA InternalKeeps ==
  ASSUME NEW r \in Replicas, Internal(r)
  PROVE  UNCHANGED <<status, retry, task, tried>>
BY DEF Internal, StartUp, Poll, EndBatch, Copy, Shutdown, Cancel, Exit, Terminate,
   columns, locals

\* What the update at the end of a copy does to the row of a task in processing.
LEMMA StoreOutcomeLives ==
  ASSUME TypeOK, NEW r \in Replicas, task[r] \in Tasks,
         status[task[r]] = "PROCESSING", tried[r] = retry[task[r]], StoreOutcome(r)
  PROVE  Life!Succeed(task[r]) \/ Life!TryAgain(task[r]) \/ Life!GiveUp(task[r])
<1>1. /\ tried[r] \in 0..MaxRetries-1 /\ retry \in [Tasks -> 0..MaxRetries]
      /\ MaxRetries \in Nat \ {0}
  BY SyncAssumption DEF TypeOK, SyncAssumption
<1>2. CASE copied[r]
  <2>1. status' = [status EXCEPT ![task[r]] = "SUCCEEDED"] /\ retry' = retry
    BY <1>1, <1>2 DEF StoreOutcome, Outcome
  <2>2. QED BY <2>1 DEF Life!Succeed, Life!Move
<1>3. CASE ~copied[r]
  <2>1. retry' = [retry EXCEPT ![task[r]] = @ + 1]
    BY <1>1, <1>3 DEF StoreOutcome
  <2>2. CASE tried[r] + 1 < MaxRetries
    BY <1>3, <2>1, <2>2
       DEF StoreOutcome, Outcome, Life!TryAgain, Life!Move, Life!CountTry
  <2>3. CASE ~(tried[r] + 1 < MaxRetries)
    <3>1. tried[r] + 1 = MaxRetries
      BY <1>1, <2>3
    <3>2. QED
      BY <1>3, <2>1, <2>3, <3>1
         DEF StoreOutcome, Outcome, Life!GiveUp, Life!Move, Life!CountTry
  <2>4. QED BY <2>2, <2>3
<1>4. QED BY <1>2, <1>3

\* A claimed task stays its worker's: nobody else takes it back or stores an
\* outcome for it.
LEMMA OwnTaskNext ==
  ASSUME OneReplica, IInv, OwnTask, [Next]_vars
  PROVE  OwnTask'
<1>1. TypeOK BY DEF IInv
<1>2. CASE UNCHANGED vars
  BY <1>2 DEF OwnTask, vars, columns, locals
<1>3. ASSUME NEW t \in Tasks, SyncImage(t) PROVE OwnTask'
  BY <1>1, <1>3 DEF SyncImage, OwnTask, TypeOK, locals, Tasks, NoTask
<1>4. ASSUME NEW r \in Replicas, Internal(r) PROVE OwnTask'
  BY <1>4, InternalKeeps DEF OwnTask
<1>5. ASSUME NEW r \in Replicas, task'[r] = NoTask PROVE OwnTask'
  BY <1>5 DEF OwnTask, OneReplica
<1>6. ASSUME NEW r \in Replicas, Reclaim(r) \/ Save(r) \/ Crash(r) PROVE OwnTask'
  <2>1. task'[r] = NoTask
    BY <1>1, <1>6 DEF Reclaim, Save, Done, Crash, TypeOK, InFlight, locals
  <2>2. QED BY <1>5, <2>1
<1>7. ASSUME NEW r \in Replicas, NEW t \in Tasks, Claim(r, t) PROVE OwnTask'
  <2>1. /\ task'[r] = t /\ tried'[r] = retry[t] /\ UNCHANGED retry
        /\ status'[t] = "PROCESSING"
    BY <1>1, <1>7 DEF Claim, TypeOK
  <2>2. QED BY <2>1 DEF OwnTask, OneReplica
<1>8. ASSUME NEW r \in Replicas, NEW t \in Tasks, ClaimFails(r, t) PROVE OwnTask'
  <2>1. task'[r] = NoTask
    BY <1>1, <1>8 DEF ClaimFails, Take, TypeOK, InFlight
  <2>2. QED BY <1>5, <2>1
<1>9. QED
  BY <1>2, <1>3, <1>4, <1>6, <1>7, <1>8 DEF Next, Work, Internal

\* Every step is a step of SyncTask or changes nothing that a client sees.
LEMMA LifeNext ==
  ASSUME OneReplica, IInv, OwnTask, [Next]_vars
  PROVE  [Life!Next]_<<status, retry>>
<1>1. TypeOK BY DEF IInv
<1>2. CASE UNCHANGED vars
  BY <1>2 DEF vars, columns
<1>3. ASSUME NEW t \in Tasks, SyncImage(t) PROVE Life!Create(t)
  BY <1>3 DEF SyncImage, Life!Create, Life!Move
<1>4. ASSUME NEW r \in Replicas, Internal(r) PROVE UNCHANGED <<status, retry>>
  BY <1>4, InternalKeeps
<1>5. ASSUME NEW r \in Replicas, Reclaim(r)
      PROVE  Life!Interrupt \/ UNCHANGED <<status, retry>>
  BY <1>5 DEF Reclaim, Life!Interrupt
<1>6. ASSUME NEW r \in Replicas, NEW t \in Tasks, Claim(r, t) PROVE Life!Begin(t)
  BY <1>6 DEF Claim, Life!Begin, Life!Move
<1>7. ASSUME NEW r \in Replicas, NEW t \in Tasks, ClaimFails(r, t)
      PROVE  Life!Begin(t) \/ UNCHANGED <<status, retry>>
  BY <1>7 DEF ClaimFails, Life!Begin, Life!Move
<1>8. ASSUME NEW r \in Replicas, Save(r)
      PROVE  UNCHANGED <<status, retry>> \/ Life!Next
  <2>1. task[r] # NoTask /\ task[r] \in Tasks
    BY <1>1, <1>8 DEF Save, TypeOK, InFlight
  <2>2. status[task[r]] = "PROCESSING" /\ tried[r] = retry[task[r]]
    BY <2>1 DEF OwnTask
  <2>3. CASE StoreOutcome(r)
    BY <1>1, <2>1, <2>2, <2>3, StoreOutcomeLives DEF Life!Next
  <2>4. QED BY <1>8, <2>3 DEF Save, columns
<1>9. ASSUME NEW r \in Replicas, Crash(r) PROVE UNCHANGED <<status, retry>>
  BY <1>9 DEF Crash, columns
<1>10. QED
  BY <1>2, <1>3, <1>4, <1>5, <1>6, <1>7, <1>8, <1>9
     DEF Next, Work, Internal, Life!Next

\* One replica implements the life of a task that the API describes, for any
\* number of tasks, tries, batches, stops, crashes and failed calls: a task that
\* has ended is never touched again, every count is that of one more failed copy,
\* and only restarts give a task another try for free.
THEOREM TasksLive == ASSUME OneReplica PROVE Spec => LifeCycle
<1>1. Init => OwnTask /\ Life!Init
  BY DEF Init, OwnTask, Life!Init
<1>2. IInv /\ OwnTask /\ [Next]_vars => OwnTask'
  BY OwnTaskNext
<1>3. IInv /\ OwnTask /\ [Next]_vars => [Life!Next]_<<status, retry>>
  BY LifeNext
<1>4. QED BY <1>1, <1>2, <1>3, Invariance, PTL DEF Spec, LifeCycle, Life!Spec

=============================================================================
