-------------------------- MODULE TiupMirrorProofs --------------------------
(***************************************************************************)
(* Proofs about TiupMirror for any workers, packages, interval, expiry of    *)
(* the mutex, tries, faults and resets, and tiup commands of any length.     *)
(***************************************************************************)
EXTENDS TiupMirror, TLAPS

\* A counter is a nightly's; where there is none, the interval since the last
\* nightly has passed or a reset has ended it; and none expires before that.
CountersAreTrue ==
  /\ \A p \in Packages : count[p] > 0 => p \in Nightly
  /\ \A p \in Packages : count[p] = 0 => since[p] = Interval
  /\ \A p \in Packages : ttl[p] # Nil => since[p] + ttl[p] >= Interval

\* Between two attempts a worker's command has not run.
RunsAreNew == \A w \in Workers : pc[w] \notin {"command", "check"} => ran[w] = 0

\* Who runs a command owns the mutex, and the lease has lost no more ticks than
\* the command has run; or the command has run for all of them.
LeaseCovers ==
  \A w \in Workers : pc[w] = "command" =>
    (holder = w /\ ran[w] + lease >= Expiry) \/ ran[w] = Expiry

IInv == TypeOK /\ CountersAreTrue
LeaseInv == IInv /\ RunsAreNew /\ LeaseCovers

-----------------------------------------------------------------------------
(* TypeOK and CountersAreTrue *)

LEMMA InitIInv == Init => IInv
<1> SUFFICES ASSUME Init PROVE IInv OBVIOUS
<1>1. kept \in BOOLEAN BY DEF Init
<1>2. QED
  BY <1>1, MirrorAssumption
  DEF Init, IInv, TypeOK, CountersAreTrue, MirrorAssumption, Stages, Nil

\* The workers' part of TypeOK, which most actions alone disturb.
WorkersOK ==
  /\ pc \in [Workers -> Stages]
  /\ pkg \in [Workers -> Packages \cup {Null}]
  /\ \A w \in Workers : pc[w] = "idle" <=> pkg[w] = Null
  /\ tries \in [Workers -> 0..Tries-1]
  /\ ran \in [Workers -> 0..Expiry]

\* The part about the mutex.
MutexOK ==
  /\ holder \in Workers \cup {Null}
  /\ lease \in 0..Expiry
  /\ holder = Null <=> lease = 0
  /\ kept \in BOOLEAN

\* The part about the rate limit.
LimitsOK ==
  /\ count \in [Packages -> 0..2]
  /\ ttl \in [Packages -> {Nil} \cup 1..Interval]
  /\ \A p \in Packages : ttl[p] # Nil => count[p] > 0
  /\ lost \subseteq {p \in Packages : count[p] > 0}
  /\ scanned \subseteq Nightly
  /\ since \in [Packages -> 0..Interval]
  /\ CountersAreTrue

BoundsOK == faults \in 0..MaxFaults /\ resets \in 0..MaxResets

LEMMA IInvParts == IInv <=> WorkersOK /\ MutexOK /\ LimitsOK /\ BoundsOK
BY DEF IInv, TypeOK, WorkersOK, MutexOK, LimitsOK, BoundsOK

LEMMA IInvPartsNext == IInv' <=> WorkersOK' /\ MutexOK' /\ LimitsOK' /\ BoundsOK'
BY DEF IInv, TypeOK, WorkersOK, MutexOK, LimitsOK, BoundsOK

\* Stop leaves the worker idle and forgets what it did.
LEMMA StopWorkers ==
  ASSUME WorkersOK, NEW w \in Workers, Stop(w)
  PROVE  WorkersOK'
BY MirrorAssumption DEF MirrorAssumption, WorkersOK, Stop, Goto, Stages

\* A package's Begin.
LEMMA BeginWorkers ==
  ASSUME WorkersOK, NEW w \in Workers, NEW p \in Packages,
         NEW s \in {"first", "download"}, Begin(w, p, s)
  PROVE  WorkersOK'
BY MirrorAssumption DEF MirrorAssumption, WorkersOK, Begin, Goto, Stages

\* A step of a worker between two stages in which it keeps its package.
LEMMA GotoWorkers ==
  ASSUME WorkersOK, NEW w \in Workers, NEW s \in Stages \ {"idle"}, pc[w] # "idle",
         Goto(w, s), UNCHANGED <<pkg, tries, ran>>
  PROVE  WorkersOK'
BY DEF WorkersOK, Goto, Stages

LEMMA TickIInv ==
  ASSUME IInv, Tick
  PROVE  IInv'
<1> USE MirrorAssumption DEF MirrorAssumption
<1>1. WorkersOK /\ MutexOK /\ LimitsOK /\ BoundsOK BY IInvParts
<1>2. WorkersOK'
  BY <1>1 DEF WorkersOK, Tick, Stages
<1>3. MutexOK'
  BY <1>1 DEF MutexOK, Tick, LeaseRuns
<1>4. LimitsOK'
  <2> USE DEF LimitsOK, CountersAreTrue, Tick, Nil
  <2>1. count' \in [Packages -> 0..2] BY <1>1
  <2>2. ttl' \in [Packages -> {Nil} \cup 1..Interval] BY <1>1
  <2>3. since' \in [Packages -> 0..Interval] BY <1>1
  <2>4. \A p \in Packages : ttl'[p] # Nil => count'[p] > 0 BY <1>1
  <2>5. \A p \in Packages : ttl'[p] # Nil => since'[p] + ttl'[p] >= Interval BY <1>1
  <2>6. \A p \in Packages : count'[p] = 0 => since'[p] = Interval BY <1>1
  <2>7. \A p \in Packages : count'[p] > 0 => p \in Nightly BY <1>1
  <2>8. lost' \subseteq {p \in Packages : count'[p] > 0} BY <1>1
  <2>9. QED BY <1>1, <2>1, <2>2, <2>3, <2>4, <2>5, <2>6, <2>7, <2>8
<1>5. BoundsOK' BY <1>1 DEF BoundsOK, Tick, bounds
<1>6. QED BY <1>2, <1>3, <1>4, <1>5, IInvPartsNext

LEMMA RateLimitIInv ==
  ASSUME IInv, NEW w \in Workers, RateLimit(w)
  PROVE  IInv'
<1> USE MirrorAssumption DEF MirrorAssumption
<1>1. WorkersOK /\ MutexOK /\ LimitsOK /\ BoundsOK BY IInvParts
<1>2. CASE SetExpiry(w)
  <2>1. WorkersOK' BY <1>1, <1>2 DEF WorkersOK, SetExpiry, Goto, Stages
  <2>2. MutexOK' BY <1>1, <1>2 DEF MutexOK, SetExpiry, mutex
  <2>3. LimitsOK'
    <3>1. pkg[w] \in Packages BY <1>1, <1>2 DEF WorkersOK, SetExpiry
    <3>2. CASE ExpireKey(pkg[w]) /\ lost' = lost \ {pkg[w]}
      BY <1>1, <1>2, <3>1, <3>2 DEF LimitsOK, CountersAreTrue, SetExpiry, ExpireKey, Nil
    <3>3. CASE Leaves(w) /\ UNCHANGED ttl
      BY <1>1, <1>2, <3>1, <3>3 DEF LimitsOK, CountersAreTrue, SetExpiry, Leaves
    <3>4. QED BY <1>2, <3>2, <3>3 DEF SetExpiry
  <2>4. BoundsOK' BY <1>1, <1>2 DEF BoundsOK, SetExpiry, Fault
  <2>5. QED BY <2>1, <2>2, <2>3, <2>4, IInvPartsNext
<1>3. CASE IncrFails(w)
  <2>1. WorkersOK' /\ MutexOK' /\ LimitsOK'
    BY <1>1, <1>3 DEF WorkersOK, MutexOK, LimitsOK, CountersAreTrue, IncrFails, mutex, limits
  <2>2. BoundsOK' BY <1>1, <1>3 DEF BoundsOK, IncrFails, Fault
  <2>3. QED BY <2>1, <2>2, IInvPartsNext
<1>4. ASSUME NEW p \in Packages, BeginUnlimited(w, p) PROVE IInv'
  <2>1. WorkersOK' BY <1>1, <1>4, BeginWorkers DEF BeginUnlimited
  <2>2. MutexOK' /\ LimitsOK' /\ BoundsOK'
    BY <1>1, <1>4
    DEF MutexOK, LimitsOK, CountersAreTrue, BoundsOK, BeginUnlimited, Begin, mutex, limits
  <2>3. QED BY <2>1, <2>2, IInvPartsNext
<1>5. ASSUME NEW p \in Packages, BeginFirst(w, p) PROVE IInv'
  <2>1. WorkersOK' BY <1>1, <1>5, BeginWorkers DEF BeginFirst
  <2>2. MutexOK' /\ BoundsOK'
    BY <1>1, <1>5 DEF MutexOK, BoundsOK, BeginFirst, Begin, mutex
  <2>3. LimitsOK'
    BY <1>1, <1>5 DEF LimitsOK, CountersAreTrue, BeginFirst, Begin, Nil
  <2>4. QED BY <2>1, <2>2, <2>3, IInvPartsNext
<1>6. ASSUME NEW p \in Packages, Cancel(w, p) PROVE IInv'
  <2>1. WorkersOK' /\ MutexOK' /\ BoundsOK'
    BY <1>1, <1>6 DEF WorkersOK, MutexOK, BoundsOK, Cancel, mutex, bounds
  <2>2. LimitsOK'
    BY <1>1, <1>6 DEF LimitsOK, CountersAreTrue, Cancel, Nil
  <2>3. QED BY <2>1, <2>2, IInvPartsNext
<1>7. QED BY <1>2, <1>3, <1>4, <1>5, <1>6 DEF RateLimit

LEMMA ResetIInv ==
  ASSUME IInv, Scan \/ Delete
  PROVE  IInv'
<1> USE MirrorAssumption DEF MirrorAssumption
<1>1. WorkersOK /\ MutexOK /\ LimitsOK /\ BoundsOK BY IInvParts
<1>2. WorkersOK' /\ MutexOK'
  BY <1>1 DEF WorkersOK, MutexOK, Scan, Delete, mutex
<1>3. LimitsOK'
  <2>1. CASE Scan
    BY <1>1, <2>1 DEF LimitsOK, CountersAreTrue, Scan, limits
  <2>2. CASE Delete
    BY <1>1, <2>2 DEF LimitsOK, CountersAreTrue, Delete, Nil
  <2>3. QED BY <2>1, <2>2
<1>4. BoundsOK' BY <1>1 DEF BoundsOK, Scan, Delete, bounds
<1>5. QED BY <1>2, <1>3, <1>4, IInvPartsNext

LEMMA PublishIInv ==
  ASSUME IInv, NEW w \in Workers, Publish(w) \/ Crash(w)
  PROVE  IInv'
<1> USE MirrorAssumption DEF MirrorAssumption
<1>1. WorkersOK /\ MutexOK /\ LimitsOK /\ BoundsOK BY IInvParts
<1>2. LimitsOK' /\ BoundsOK'
  <2>1. CASE Publish(w)
    BY <1>1, <2>1 DEF LimitsOK, CountersAreTrue, BoundsOK, Publish, Download, Obtain,
       Refused, CommandEnds, Release, PostCheck, limits, bounds, Fault
  <2>2. CASE Crash(w)
    <3>1. lost' \subseteq {p \in Packages : count[p] > 0}
      BY <1>1, <2>2 DEF LimitsOK, WorkersOK, Crash, Leaves
    <3>2. QED
      BY <1>1, <2>2, <3>1 DEF LimitsOK, CountersAreTrue, BoundsOK, Crash, Fault
  <2>3. QED BY <2>1, <2>2
<1>3. MutexOK'
  <2>1. kept' = FALSE \/ kept' = kept \/ kept' = (kept \/ holder = w)
    BY DEF Publish, Crash, Download, Obtain, Refused, CommandEnds, PostCheck,
       Release, mutex
  <2>2. kept' \in BOOLEAN BY <1>1, <2>1 DEF MutexOK
  <2>3. QED
    BY <1>1, <2>2 DEF MutexOK, Publish, Crash, Download, Obtain, Refused, CommandEnds,
       PostCheck, Release, mutex
<1>4. WorkersOK'
  <2>1. CASE Stop(w) BY <1>1, <2>1, StopWorkers
  <2>2. CASE Download(w) /\ ~Stop(w)
    BY <1>1, <2>2, GotoWorkers DEF Download, Stages
  <2>3. CASE Obtain(w)
    BY <1>1, <2>3, GotoWorkers DEF Obtain, Stages
  <2>4. CASE Refused(w) /\ ~Stop(w)
    BY <1>1, <2>4 DEF WorkersOK, Refused, Goto, Stages
  <2>5. CASE CommandEnds(w) /\ ~Stop(w)
    BY <1>1, <2>5, GotoWorkers DEF CommandEnds, Stages
  <2>6. QED BY <2>1, <2>2, <2>3, <2>4, <2>5 DEF Publish, Crash, PostCheck
<1>5. QED BY <1>2, <1>3, <1>4, IInvPartsNext

LEMMA StepIInv == IInv /\ [Next]_vars => IInv'
<1> SUFFICES ASSUME IInv, [Next]_vars PROVE IInv' OBVIOUS
<1>1. CASE UNCHANGED vars
  BY <1>1 DEF IInv, TypeOK, CountersAreTrue, vars, mutex, limits, bounds
<1>2. CASE Next
  BY <1>2, TickIInv, RateLimitIInv, ResetIInv, PublishIInv DEF Next
<1>3. QED BY <1>1, <1>2

LEMMA Invariance == Spec => []IInv
BY InitIInv, StepIInv, PTL DEF Spec

\* The type invariant holds for any workers, packages, times and bounds.
THEOREM TypeCorrect == Spec => []TypeOK
<1>1. IInv => TypeOK BY DEF IInv
<1>2. QED BY <1>1, Invariance, PTL

\* A nightly package is let through at most once an interval, whatever the order
\* in which workers, expiries, resets, crashes and failed commands to Redis reach
\* its counter.
THEOREM NightliesAreLimited == Spec => NightlyIsLimited
<1> DEFINE Limited ==
      \A p \in Packages : count[p] = 0 /\ count'[p] = 1 => since[p] = Interval
<1>1. IInv => Limited BY DEF IInv, CountersAreTrue
<1>2. IInv /\ [Next]_vars => [Limited]_vars BY <1>1
<1> HIDE DEF Limited
<1>3. Spec => [][Limited]_vars BY <1>2, Invariance, PTL DEF Spec
<1>4. QED BY <1>3 DEF NightlyIsLimited, Limited

-----------------------------------------------------------------------------
(* LeaseExcludes *)

LEMMA TickLease ==
  ASSUME LeaseInv, Tick
  PROVE  RunsAreNew' /\ LeaseCovers'
<1> USE MirrorAssumption DEF MirrorAssumption
<1>1. WorkersOK /\ MutexOK BY IInvParts DEF LeaseInv
<1>2. RunsAreNew'
  BY <1>1 DEF LeaseInv, RunsAreNew, Tick, WorkersOK
<1>3. ASSUME NEW w \in Workers, pc'[w] = "command"
      PROVE  (holder' = w /\ ran'[w] + lease' >= Expiry) \/ ran'[w] = Expiry
  <2>1. pc[w] = "command" BY <1>1, <1>3 DEF Tick, WorkersOK
  <2>2. ran[w] \in 0..Expiry /\ lease \in Nat BY <1>1 DEF WorkersOK, MutexOK
  <2>3. CASE ran[w] = Expiry
    BY <1>1, <2>3 DEF Tick, WorkersOK
  <2>4. CASE ran[w] < Expiry
    <3>1. ran'[w] = ran[w] + 1 BY <1>1, <2>1, <2>4 DEF Tick, WorkersOK
    <3>2. holder = w /\ ran[w] + lease >= Expiry
      BY <2>1, <2>2, <2>4 DEF LeaseInv, LeaseCovers
    <3>3. CASE lease <= 1
      BY <2>2, <2>4, <3>1, <3>2, <3>3
    <3>4. CASE lease > 1
      <4>1. lease' = lease - 1 /\ holder' = holder
        BY <2>2, <3>4 DEF Tick, LeaseRuns
      <4>2. QED BY <2>2, <3>1, <3>2, <4>1
    <3>5. QED BY <2>2, <3>3, <3>4
  <2>5. QED BY <2>2, <2>3, <2>4
<1>4. QED BY <1>2, <1>3 DEF LeaseCovers

\* A step of one worker outside the mutex.
LEMMA OutsideLease ==
  ASSUME RunsAreNew, LeaseCovers, WorkersOK, NEW w \in Workers,
         UNCHANGED <<holder, lease>>,
         \/ Stop(w)
         \/ \E s \in Stages \ {"command", "check"} :
              pc[w] \notin {"command", "check"} /\ Goto(w, s) /\ UNCHANGED ran
         \/ UNCHANGED <<pc, ran>>
  PROVE  RunsAreNew' /\ LeaseCovers'
BY MirrorAssumption
DEF MirrorAssumption, RunsAreNew, LeaseCovers, WorkersOK, Stop, Goto, Stages

LEMMA WorkerLease ==
  ASSUME LeaseInv, NEW w \in Workers, RateLimit(w) \/ Publish(w) \/ Crash(w)
  PROVE  RunsAreNew' /\ LeaseCovers'
<1> USE MirrorAssumption DEF MirrorAssumption
<1>1. WorkersOK /\ MutexOK /\ RunsAreNew /\ LeaseCovers BY IInvParts DEF LeaseInv
<1>2. CASE RateLimit(w) \/ Download(w) \/ Refused(w) \/ PostCheck(w) \/ Crash(w)
  <2>1. UNCHANGED <<holder, lease>>
    BY <1>2 DEF RateLimit, SetExpiry, IncrFails, BeginUnlimited, BeginFirst, Begin,
         Cancel, Download, Refused, PostCheck, Crash, mutex
  <2>2. \/ Stop(w)
        \/ \E s \in Stages \ {"command", "check"} :
             pc[w] \notin {"command", "check"} /\ Goto(w, s) /\ UNCHANGED ran
        \/ UNCHANGED <<pc, ran>>
    BY <1>2 DEF RateLimit, SetExpiry, IncrFails, BeginUnlimited, BeginFirst, Begin,
         Cancel, Download, Refused, PostCheck, Crash, Stages
  <2>3. QED BY <1>1, <2>1, <2>2, OutsideLease
<1>3. CASE Obtain(w)
  BY <1>1, <1>3 DEF Obtain, Goto, RunsAreNew, LeaseCovers, WorkersOK
<1>4. CASE CommandEnds(w)
  BY <1>1, <1>4
  DEF CommandEnds, Release, Stop, Goto, RunsAreNew, LeaseCovers, WorkersOK,
      MutexOK, mutex
<1>5. QED BY <1>2, <1>3, <1>4 DEF Publish

LEMMA StepLease == LeaseInv /\ [Next]_vars => LeaseInv'
<1> SUFFICES ASSUME LeaseInv, [Next]_vars PROVE LeaseInv' OBVIOUS
<1>1. IInv' BY StepIInv DEF LeaseInv
<1>2. RunsAreNew' /\ LeaseCovers'
  <2>1. CASE UNCHANGED vars
    BY <2>1 DEF LeaseInv, RunsAreNew, LeaseCovers, vars, mutex
  <2>2. CASE Scan \/ Delete
    BY <2>2 DEF LeaseInv, RunsAreNew, LeaseCovers, Scan, Delete, mutex
  <2>3. QED BY <2>1, <2>2, TickLease, WorkerLease DEF Next
<1>3. QED BY <1>1, <1>2 DEF LeaseInv

\* However long tiup commands run, one that has not outlived the lease runs under
\* the mutex: two commands at a time only if one has run for a whole lease.
THEOREM LeaseAlwaysExcludes == Spec => []LeaseExcludes
<1>1. Init => LeaseInv
  BY InitIInv DEF Init, LeaseInv, RunsAreNew, LeaseCovers
<1>2. LeaseInv => LeaseExcludes
  BY MirrorAssumption DEF MirrorAssumption, LeaseInv, LeaseCovers, LeaseExcludes
<1>3. QED BY <1>1, <1>2, StepLease, PTL DEF Spec

-----------------------------------------------------------------------------
(* The counters that expire and the mutex that is given back *)

UsedInv == IInv /\ CountersExpire /\ MutexIsInUse

LEMMA TickUsed ==
  ASSUME UsedInv, Tick
  PROVE  CountersExpire' /\ MutexIsInUse'
<1> USE MirrorAssumption DEF MirrorAssumption
<1>1. WorkersOK /\ MutexOK /\ LimitsOK BY IInvParts DEF UsedInv
<1>2. /\ pkg' = pkg
      /\ \A w \in Workers : pc[w] \in {"first", "command"} => pc'[w] = pc[w]
  BY <1>1 DEF Tick, WorkersOK
<1>3. ASSUME NEW p \in Packages, count'[p] > 0, ttl'[p] = Nil
      PROVE  count[p] > 0 /\ ttl[p] = Nil /\ (p \in lost => p \in lost')
  BY <1>1, <1>3 DEF Tick, LimitsOK, Nil
<1>4. CountersExpire' BY <1>2, <1>3 DEF UsedInv, CountersExpire
<1>5. holder' # Null => holder' = holder /\ kept' = kept
  BY <1>1 DEF Tick, LeaseRuns, MutexOK
<1>6. MutexIsInUse' BY <1>1, <1>2, <1>5 DEF UsedInv, MutexIsInUse, MutexOK
<1>7. QED BY <1>4, <1>6

\* A step that keeps the mutex and who runs a command.
LEMMA SameUse ==
  ASSUME MutexIsInUse, MutexOK, UNCHANGED mutex,
         \A v \in Workers : pc[v] = "command" => pc'[v] = "command"
  PROVE  MutexIsInUse'
BY DEF MutexIsInUse, MutexOK, mutex

LEMMA RateLimitUsed ==
  ASSUME UsedInv, NEW w \in Workers, RateLimit(w)
  PROVE  CountersExpire' /\ MutexIsInUse'
<1> USE MirrorAssumption DEF MirrorAssumption
<1>1. WorkersOK /\ MutexOK /\ LimitsOK BY IInvParts DEF UsedInv
<1>2. MutexIsInUse'
  <2>1. /\ UNCHANGED mutex
        /\ \A v \in Workers : pc[v] = "command" => pc'[v] = "command"
    BY <1>1 DEF RateLimit, SetExpiry, IncrFails, BeginUnlimited, BeginFirst, Begin, Cancel,
       Goto, WorkersOK
  <2>2. QED BY <1>1, <2>1, SameUse DEF UsedInv
<1>3. CASE SetExpiry(w)
  <2>1. /\ UNCHANGED <<pkg, count>>
        /\ pc[w] = "first" /\ pc' = [pc EXCEPT ![w] = "download"]
    BY <1>3 DEF SetExpiry, Goto
  <2>2. ASSUME NEW p \in Packages, count[p] > 0, ttl'[p] = Nil
        PROVE  /\ ttl[p] = Nil
               /\ p \in lost => p \in lost'
               /\ p = pkg[w] => p \in lost'
    <3>1. CASE ExpireKey(pkg[w]) /\ lost' = lost \ {pkg[w]}
      BY <1>1, <2>2, <3>1 DEF ExpireKey, LimitsOK, Nil
    <3>2. CASE Leaves(w) /\ UNCHANGED ttl
      BY <2>1, <2>2, <3>2 DEF Leaves
    <3>3. QED BY <1>3, <3>1, <3>2 DEF SetExpiry
  <2>3. CountersExpire'
    BY <1>1, <2>1, <2>2 DEF UsedInv, CountersExpire, WorkersOK
  <2>4. QED BY <1>2, <2>3
<1>4. CASE IncrFails(w)
  BY <1>2, <1>4 DEF IncrFails, UsedInv, CountersExpire, limits
<1>5. ASSUME NEW p \in Packages, BeginUnlimited(w, p) PROVE CountersExpire'
  BY <1>1, <1>5 DEF BeginUnlimited, Begin, Goto, limits, UsedInv, CountersExpire, WorkersOK
<1>6. ASSUME NEW p \in Packages, BeginFirst(w, p) PROVE CountersExpire'
  BY <1>1, <1>6 DEF BeginFirst, Begin, Goto, UsedInv, CountersExpire, WorkersOK, LimitsOK
<1>7. ASSUME NEW p \in Packages, Cancel(w, p) PROVE CountersExpire'
  BY <1>1, <1>7 DEF Cancel, UsedInv, CountersExpire, LimitsOK
<1>8. QED BY <1>2, <1>3, <1>4, <1>5, <1>6, <1>7 DEF RateLimit

LEMMA ResetUsed ==
  ASSUME UsedInv, Scan \/ Delete
  PROVE  CountersExpire' /\ MutexIsInUse'
<1>1. LimitsOK BY IInvParts DEF UsedInv
<1>2. /\ UNCHANGED <<pc, pkg, mutex>>
      /\ \A p \in Packages : count'[p] > 0 /\ ttl'[p] = Nil
           => count[p] > 0 /\ ttl[p] = Nil /\ (p \in lost => p \in lost')
  BY <1>1 DEF Scan, Delete, mutex, limits, LimitsOK
<1>3. QED BY <1>2 DEF UsedInv, CountersExpire, MutexIsInUse, mutex

LEMMA CrashUsed ==
  ASSUME UsedInv, NEW w \in Workers, Crash(w)
  PROVE  CountersExpire' /\ MutexIsInUse'
<1> USE MirrorAssumption DEF MirrorAssumption
<1>1. WorkersOK /\ MutexOK BY IInvParts DEF UsedInv
<1>2. /\ UNCHANGED <<holder, count, ttl>> /\ Leaves(w)
      /\ kept' = (kept \/ holder = w)
      /\ \A v \in Workers : v # w => pc'[v] = pc[v] /\ pkg'[v] = pkg[v]
  BY <1>1 DEF Crash, Stop, Goto, WorkersOK
<1>3. CountersExpire'
  BY <1>1, <1>2 DEF UsedInv, CountersExpire, Leaves
<1>4. MutexIsInUse'
  BY <1>1, <1>2 DEF UsedInv, MutexIsInUse, MutexOK
<1>5. QED BY <1>3, <1>4

LEMMA PublishUsed ==
  ASSUME UsedInv, NEW w \in Workers, Publish(w)
  PROVE  CountersExpire' /\ MutexIsInUse'
<1> USE MirrorAssumption DEF MirrorAssumption
<1>1. WorkersOK /\ MutexOK BY IInvParts DEF UsedInv
<1>2. /\ UNCHANGED limits
      /\ pc[w] \in {"download", "lock", "command", "check"}
      /\ \A v \in Workers : v # w => pc'[v] = pc[v] /\ pkg'[v] = pkg[v]
  BY <1>1 DEF Publish, Download, Obtain, Refused, CommandEnds, PostCheck,
     Stop, Goto, WorkersOK
<1>3. CountersExpire' BY <1>2 DEF UsedInv, CountersExpire, limits
<1>4. MutexIsInUse'
  <2>1. CASE Obtain(w)
    BY <1>1, <2>1 DEF Obtain, Goto, MutexIsInUse, WorkersOK
  <2>2. CASE CommandEnds(w)
    <3>1. \/ holder' = Null
          \/ holder' = holder /\ (kept' = kept \/ kept')  /\ (holder = w => kept')
      BY <1>1, <2>2 DEF CommandEnds, Release, mutex, MutexOK
    <3>2. QED BY <1>1, <1>2, <3>1 DEF UsedInv, MutexIsInUse, MutexOK
  <2>3. CASE Download(w) \/ Refused(w) \/ PostCheck(w)
    <3>1. pc[w] # "command" /\ UNCHANGED mutex
      BY <2>3 DEF Download, Refused, PostCheck
    <3>2. QED BY <1>1, <1>2, <3>1, SameUse DEF UsedInv
  <2>4. QED BY <2>1, <2>2, <2>3 DEF Publish
<1>5. QED BY <1>3, <1>4

LEMMA StepUsed == UsedInv /\ [Next]_vars => UsedInv'
<1> SUFFICES ASSUME UsedInv, [Next]_vars PROVE UsedInv' OBVIOUS
<1>1. IInv' BY StepIInv DEF UsedInv
<1>2. CountersExpire' /\ MutexIsInUse'
  <2>1. CASE UNCHANGED vars
    BY <2>1 DEF UsedInv, CountersExpire, MutexIsInUse, vars, mutex, limits
  <2>2. CASE Next
    BY <2>2, TickUsed, RateLimitUsed, ResetUsed, PublishUsed, CrashUsed DEF Next
  <2>3. QED BY <2>1, <2>2
<1>3. QED BY <1>1, <1>2 DEF UsedInv

LEMMA UsedInvariance == Spec => []UsedInv
<1>1. Init => UsedInv
  BY InitIInv DEF Init, UsedInv, CountersExpire, MutexIsInUse
<1>2. QED BY <1>1, StepUsed, PTL DEF Spec

\* A counter without an expiry has a worker about to set it, or its own Expire was
\* lost, however resets delete counters in between and whatever else fails.
THEOREM CountersAlwaysExpire == Spec => []CountersExpire
<1>1. UsedInv => CountersExpire BY DEF UsedInv
<1>2. QED BY <1>1, UsedInvariance, PTL

\* The mutex belongs to a worker whose tiup command runs, unless its owner died or
\* could not release it, however long commands outlive their leases.
THEOREM MutexIsGivenBack == Spec => []MutexIsInUse
<1>1. UsedInv => MutexIsInUse BY DEF UsedInv
<1>2. QED BY <1>1, UsedInvariance, PTL

=============================================================================
