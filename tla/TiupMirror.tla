----------------------------- MODULE TiupMirror -----------------------------
(***************************************************************************)
(* What the tiup workers share while they publish: the rate limit of nightly *)
(* packages, a Redis counter with a time to live, and the mutex around "tiup *)
(* mirror publish", a Redis lease that all mirrors share.  TiupMirror refines *)
(* what the step Run of Publisher leaves open.                               *)
(*                                                                           *)
(* Time is counted in ticks; a worker tries the mutex at most once a tick.   *)
(***************************************************************************)
EXTENDS Integers

CONSTANTS
  Workers,      \* tiup workers, of any mirror
  Packages,     \* package, os and arch: what one rate limit key stands for
  Nightly,      \* the packages that are published as nightlies
  Null,         \* nobody
  Interval,     \* options.NightlyInterval
  Expiry,       \* tiupPublishingMutexExpiry
  Tries,        \* tiupPublishingMutexTries
  MaxFaults,    \* bound on crashes and failed commands to Redis
  MaxResets     \* bound on calls of ResetRateLimit

Nil == -1

ASSUME MirrorAssumption ==
  /\ Null \notin Workers \cup Packages
  /\ Nightly \subseteq Packages
  /\ Interval \in Nat \ {0} /\ Expiry \in Nat \ {0} /\ Tries \in Nat \ {0}
  /\ MaxFaults \in Nat /\ MaxResets \in Nat

VARIABLES
  pc,      \* pc[w]: where worker w is
  pkg,     \* pkg[w]: what it publishes
  tries,   \* tries[w]: failed attempts at the mutex
  ran,     \* ran[w]: ticks its tiup command has run (saturates at Expiry)
  holder,  \* the owner of the value of the mutex key, or Null
  lease,   \* ticks until the mutex key expires
  kept,    \* history: the owner died, or could not release it
  count,   \* count[p]: the rate limit counter
  ttl,     \* ttl[p]: ticks until it expires, or Nil
  lost,    \* history: the counters whose Expire failed or died with its worker
  scanned, \* the keys ResetRateLimit has found and not deleted yet
  since,   \* history: ticks since p was last let through (saturates); Interval
           \* again after a reset that found the counter
  faults, resets

limits == <<count, ttl, lost>>
mutex  == <<holder, lease, kept>>
bounds == <<faults, resets>>
vars   == <<pc, pkg, tries, ran, mutex, limits, scanned, since, bounds>>

Stages == {"idle", "first", "download", "lock", "delay", "command", "check"}

Init ==
  /\ pc = [w \in Workers |-> "idle"]
  /\ pkg = [w \in Workers |-> Null]
  /\ tries = [w \in Workers |-> 0]
  /\ ran = [w \in Workers |-> 0]
  /\ holder = Null
  /\ lease = 0
  /\ kept = FALSE
  /\ count = [p \in Packages |-> 0]
  /\ ttl = [p \in Packages |-> Nil]
  /\ lost = {}
  /\ scanned = {}
  /\ since = [p \in Packages |-> Interval]
  /\ faults = 0
  /\ resets = 0

Fault == faults < MaxFaults /\ faults' = faults + 1

Goto(w, s) == pc' = [pc EXCEPT ![w] = s]

-----------------------------------------------------------------------------
(* Time: keys expire, a delayed worker tries the mutex again.                *)

\* Mutant: the mutex key has no expiry.
LeaseKept == UNCHANGED mutex

\* The mutex key expires.
LeaseRuns ==
  /\ lease' = IF lease = 0 THEN 0 ELSE lease - 1
  /\ holder' = IF lease <= 1 THEN Null ELSE holder
  /\ kept' = (kept /\ lease > 1)

\* A tiup command has no deadline.
Tick ==
  /\ ran' = [w \in Workers |-> IF pc[w] = "command" /\ ran[w] < Expiry
                                 THEN ran[w] + 1 ELSE ran[w]]
  /\ pc' = [w \in Workers |-> IF pc[w] = "delay" THEN "lock" ELSE pc[w]]
  /\ LeaseRuns
  /\ ttl' = [p \in Packages |-> IF ttl[p] \in {Nil, 1} THEN Nil ELSE ttl[p] - 1]
  /\ count' = [p \in Packages |-> IF ttl[p] = 1 THEN 0 ELSE count[p]]
  /\ lost' = {p \in lost : ttl[p] # 1}
  /\ since' = [p \in Packages |-> IF since[p] < Interval THEN since[p] + 1 ELSE since[p]]
  /\ UNCHANGED <<pkg, tries, scanned, bounds>>

-----------------------------------------------------------------------------
(* rateLimit *)

Begin(w, p, s) ==
  /\ pc[w] = "idle"
  /\ Goto(w, s)
  /\ pkg' = [pkg EXCEPT ![w] = p]
  /\ UNCHANGED <<tries, ran, mutex, scanned, resets>>

\* No nightly: no limit.
BeginUnlimited(w, p) ==
  /\ p \notin Nightly
  /\ Begin(w, p, "download")
  /\ UNCHANGED <<limits, since, faults>>

\* Incr on a counter that is not there: the package is let through.
BeginFirst(w, p) ==
  /\ p \in Nightly /\ count[p] = 0
  /\ Begin(w, p, "first")
  /\ count' = [count EXCEPT ![p] = 1]
  /\ since' = [since EXCEPT ![p] = 0]
  /\ UNCHANGED <<ttl, lost, faults>>

\* Mutant: every request renews the expiry of the counter.
CancelRenews(w, p) ==
  /\ p \in Nightly /\ count[p] > 0
  /\ pc[w] = "idle"
  /\ count' = [count EXCEPT ![p] = IF @ < 2 THEN @ + 1 ELSE @]
  /\ ttl' = [ttl EXCEPT ![p] = Interval]
  /\ UNCHANGED <<pc, pkg, tries, ran, mutex, lost, scanned, since, bounds>>

\* Incr on one that is there (counted to 2): the request is canceled.
Cancel(w, p) ==
  /\ p \in Nightly /\ count[p] > 0
  /\ pc[w] = "idle"
  /\ count' = [count EXCEPT ![p] = IF @ < 2 THEN @ + 1 ELSE @]
  /\ UNCHANGED <<pc, pkg, tries, ran, mutex, ttl, lost, scanned, since, bounds>>

\* Incr fails: the request fails.
IncrFails(w) ==
  /\ pc[w] = "idle" /\ Nightly # {}
  /\ Fault
  /\ UNCHANGED <<pc, pkg, tries, ran, mutex, limits, scanned, since, resets>>

\* Mutant: the counter lives one tick too short.
ExpireKeyShort(p) ==
  ttl' = [ttl EXCEPT ![p] = IF count[p] = 0 THEN @ ELSE Interval - 1]

\* Mutant: a key without a counter is given an expiry.
ExpireKeyBlind(p) == ttl' = [ttl EXCEPT ![p] = Interval]

\* Expire on a key that ResetRateLimit has deleted does nothing.
ExpireKey(p) == ttl' = [ttl EXCEPT ![p] = IF count[p] = 0 THEN @ ELSE Interval]

\* History: w will not set the expiry of the counter it began.
Leaves(w) == lost' = lost \cup {p \in {pkg[w]} : pc[w] = "first" /\ count[p] > 0}

\* The error of Expire is ignored.
SetExpiry(w) ==
  /\ pc[w] = "first"
  /\ \/ ExpireKey(pkg[w]) /\ lost' = lost \ {pkg[w]} /\ UNCHANGED faults
     \/ Fault /\ Leaves(w) /\ UNCHANGED ttl
  /\ Goto(w, "download")
  /\ UNCHANGED <<pkg, tries, ran, mutex, count, scanned, since, resets>>

RateLimit(w) == \/ SetExpiry(w)
                \/ IncrFails(w)
                \/ \E p \in Packages : \/ BeginUnlimited(w, p)
                                       \/ BeginFirst(w, p)
                                       \/ Cancel(w, p)

-----------------------------------------------------------------------------
(* ResetRateLimit of the service: the keys are scanned, then deleted.        *)

Scan ==
  /\ resets < MaxResets /\ resets' = resets + 1
  /\ scanned' = {p \in Packages : count[p] > 0}
  /\ UNCHANGED <<pc, pkg, tries, ran, mutex, limits, since, faults>>

Delete ==
  /\ scanned # {}
  /\ scanned' = {}
  /\ count' = [p \in Packages |-> IF p \in scanned THEN 0 ELSE count[p]]
  /\ ttl' = [p \in Packages |-> IF p \in scanned THEN Nil ELSE ttl[p]]
  /\ lost' = lost \ scanned
  /\ since' = [p \in Packages |-> IF p \in scanned /\ count[p] > 0
                                    THEN Interval ELSE since[p]]
  /\ UNCHANGED <<pc, pkg, tries, ran, mutex, bounds>>

-----------------------------------------------------------------------------
(* handle and publish *)

Stop(w) ==
  /\ Goto(w, "idle")
  /\ pkg' = [pkg EXCEPT ![w] = Null]
  /\ tries' = [tries EXCEPT ![w] = 0]
  /\ ran' = [ran EXCEPT ![w] = 0]

Download(w) ==
  /\ pc[w] = "download"
  /\ \/ Goto(w, "lock") /\ UNCHANGED <<pkg, tries, ran>>
     \/ Stop(w)
  /\ UNCHANGED <<mutex, limits, scanned, since, bounds>>

\* redsync: set the key to a value of the worker's own unless it exists.
Obtain(w) ==
  /\ pc[w] = "lock" /\ holder = Null
  /\ holder' = w /\ lease' = Expiry /\ kept' = FALSE
  /\ Goto(w, "command")
  /\ UNCHANGED <<pkg, tries, ran, limits, scanned, since, bounds>>

\* The key is there, or the command to Redis fails: an attempt is lost.
Refused(w) ==
  /\ pc[w] = "lock"
  /\ \/ holder # Null /\ UNCHANGED faults
     \/ Fault
  /\ IF tries[w] + 1 < Tries
       THEN /\ Goto(w, "delay")
            /\ tries' = [tries EXCEPT ![w] = @ + 1]
            /\ UNCHANGED <<pkg, ran>>
       ELSE Stop(w)
  /\ UNCHANGED <<mutex, limits, scanned, since, resets>>

\* Mutant: whoever has the mutex by now loses it.
ReleaseAny(w) ==
  \/ holder' = Null /\ lease' = 0 /\ kept' = FALSE /\ UNCHANGED faults
  \/ kept' = (kept \/ holder = w) /\ Fault /\ UNCHANGED <<holder, lease>>

\* The mutex is released only by the owner of its value; the error of a release
\* that fails is ignored.
Release(w) ==
  \/ /\ IF holder = w THEN holder' = Null /\ lease' = 0 /\ kept' = FALSE
                       ELSE UNCHANGED mutex
     /\ UNCHANGED faults
  \/ kept' = (kept \/ holder = w) /\ Fault /\ UNCHANGED <<holder, lease>>

\* Mutant: a command that fails returns before the mutex is released.
CommandEndsHolding(w) ==
  /\ pc[w] = "command"
  /\ \/ Release(w) /\ Goto(w, "check") /\ UNCHANGED <<pkg, tries, ran>>
     \/ Stop(w) /\ UNCHANGED <<mutex, faults>>
  /\ UNCHANGED <<limits, scanned, since, resets>>

\* The tiup command ends, well or badly.
CommandEnds(w) ==
  /\ pc[w] = "command"
  /\ Release(w)
  /\ \/ Goto(w, "check") /\ UNCHANGED <<pkg, tries, ran>>
     \/ Stop(w)
  /\ UNCHANGED <<limits, scanned, since, resets>>

PostCheck(w) ==
  /\ pc[w] = "check"
  /\ Stop(w)
  /\ UNCHANGED <<mutex, limits, scanned, since, bounds>>

Publish(w) == Download(w) \/ Obtain(w) \/ Refused(w) \/ CommandEnds(w) \/ PostCheck(w)

\* The worker dies: nothing it holds is given back.
Crash(w) ==
  /\ Fault
  /\ pc[w] # "idle"
  /\ Stop(w)
  /\ kept' = (kept \/ holder = w)
  /\ Leaves(w)
  /\ UNCHANGED <<holder, lease, count, ttl, scanned, since, resets>>

-----------------------------------------------------------------------------
Next ==
  \/ Tick
  \/ \E w \in Workers : RateLimit(w) \/ Publish(w) \/ Crash(w)
  \/ Scan
  \/ Delete

Spec == Init /\ [][Next]_vars

\* Time passes, and a worker that has counted its request goes on to Expire.
\* Nothing is assumed of the tiup commands.
FairSpec == Spec /\ WF_vars(Tick) /\ \A w \in Workers : WF_vars(SetExpiry(w))

-----------------------------------------------------------------------------
(* Properties *)

TypeOK ==
  /\ pc \in [Workers -> Stages]
  /\ pkg \in [Workers -> Packages \cup {Null}]
  /\ \A w \in Workers : pc[w] = "idle" <=> pkg[w] = Null
  /\ tries \in [Workers -> 0..Tries-1]
  /\ ran \in [Workers -> 0..Expiry]
  /\ holder \in Workers \cup {Null}
  /\ lease \in 0..Expiry
  /\ holder = Null <=> lease = 0
  /\ kept \in BOOLEAN
  /\ count \in [Packages -> 0..2]
  /\ ttl \in [Packages -> {Nil} \cup 1..Interval]
  /\ \A p \in Packages : ttl[p] # Nil => count[p] > 0
  /\ lost \subseteq {p \in Packages : count[p] > 0}
  /\ scanned \subseteq Nightly
  /\ since \in [Packages -> 0..Interval]
  /\ faults \in 0..MaxFaults /\ resets \in 0..MaxResets

\* A nightly package is let through at most once an interval, unless a reset
\* deleted its counter: in whatever order workers, expiry and resets touch the
\* counter, and whether Expire fails or finds a counter that is not its own.
NightlyIsLimited ==
  [][\A p \in Packages : count[p] = 0 /\ count'[p] = 1 => since[p] = Interval]_vars

\* A worker whose command has not outlived the lease of the mutex owns the mutex,
\* so that of two commands at a time one has run for a whole lease.  Nobody takes
\* the mutex away before: neither a worker that comes back from a command that has
\* outlived its lease and unlocks, nor one that is refused, gives up or crashes.
LeaseExcludes ==
  \A w \in Workers : pc[w] = "command" => holder = w \/ ran[w] >= Expiry

\* worker.go:213-215, publish: "After this is successful, no one else can obtain
\* the same lock (the same mutex name) until we unlock it": one tiup command at a
\* time.
OneCommand ==
  \A w1, w2 \in Workers : pc[w1] = "command" /\ pc[w2] = "command" => w1 = w2

\* A worker that crashes with the mutex, or fails to release it, does not keep it
\* from the others; nor does one whose tiup command never ends.
MutexIsFreed == holder # Null ~> holder = Null

\* Nobody keeps the mutex when its tiup command is over, even if the lease ran out
\* under it and others have taken the mutex since, but for an owner that crashed or
\* whose call to release it failed: the safety core of MutexIsFreed.
MutexIsInUse == holder # Null => pc[holder] = "command" \/ kept

\* A nightly package can be published again some day, however often it is asked
\* for and whatever else fails: only the counter whose own Expire failed, or whose
\* worker died before it, stays without an expiry, until a reset.
LimitEnds == \A p \in Nightly : count[p] > 0 ~> count[p] = 0 \/ p \in lost

\* A counter without an expiry is one whose worker is about to set it, or whose own
\* Expire was lost: the safety core of LimitEnds, over resets that delete a counter
\* under the worker that made it.
CountersExpire ==
  \A p \in Packages : count[p] > 0 /\ ttl[p] = Nil =>
    p \in lost \/ \E w \in Workers : pc[w] = "first" /\ pkg[w] = p

=============================================================================
