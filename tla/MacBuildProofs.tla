--------------------------- MODULE MacBuildProofs ---------------------------
(***************************************************************************)
(* Proofs about MacBuild for any agents, builds, architectures, timeout,     *)
(* TTLs and number of faults.                                                *)
(***************************************************************************)
EXTENDS MacBuild, TLAPS

\* What an agent holds in the middle of a reconcile: it claims and runs only
\* builds of its own architecture.
JobsMatchArch ==
  \A a \in Agents : op[a] \in Running \cup {"Claim"} => MatchesArch(a, task[a])

\* A finished status, current or cached, is no older than the first end of its
\* build.
DoneSince(b, s) ==
  s.phase \in Terminal => firstDone[b] # Nil /\ firstDone[b] >= s.done

DoneIsRemembered ==
  /\ \A b \in Builds : DoneSince(b, api[b])
  /\ \A r \in Readers, b \in Builds : DoneSince(b, cache[r][b])

IInv == TypeOK /\ StatusConsistent /\ JobsMatchArch /\ DoneIsRemembered

-----------------------------------------------------------------------------
(* Ageing *)

\* Ageing keeps an age an age, never makes it Nil and never makes it younger.
LEMMA OlderAge ==
  ASSUME NEW age \in Nat \cup {Nil}, NEW cap \in Int
  PROVE  /\ Older(age, cap) \in Nat \cup {Nil}
         /\ Older(age, cap) = Nil <=> age = Nil
BY DEF Older, Nil

\* Ageing under one cap preserves the order of two ages.
LEMMA OlderMonotone ==
  ASSUME NEW s \in Nat \cup {Nil}, NEW t \in Nat \cup {Nil}, NEW cap \in Int,
         s # Nil, t # Nil, t >= s
  PROVE  Older(t, cap) >= Older(s, cap)
BY DEF Older, Nil

LEMMA DoneCapInt == \A b \in Builds : DoneCap(b) \in Int
BY ConstantsAssumption DEF DoneCap, Nil

\* A status is still a well-formed and consistent status one tick later.
LEMMA AgedStatus ==
  ASSUME NEW b \in Builds, NEW s \in Status
  PROVE  /\ Aged(b, s) \in Status
         /\ Aged(b, s).phase = s.phase
         /\ Aged(b, s).worker = s.worker
         /\ Aged(b, s).start = Nil <=> s.start = Nil
         /\ Aged(b, s).done = Nil <=> s.done = Nil
         /\ Aged(b, s).done = Older(s.done, DoneCap(b))
         /\ Consistent(b, s) => Consistent(b, Aged(b, s))
<1>1. StartCap \in Int
  BY ConstantsAssumption DEF StartCap
<1>2. /\ Older(s.start, StartCap) \in Nat \cup {Nil}
      /\ Older(s.start, StartCap) = Nil <=> s.start = Nil
  BY <1>1, OlderAge DEF Status
<1>3. /\ Older(s.done, DoneCap(b)) \in Nat \cup {Nil}
      /\ Older(s.done, DoneCap(b)) = Nil <=> s.done = Nil
  BY DoneCapInt, OlderAge DEF Status
<1>4. /\ Aged(b, s) \in Status
      /\ Aged(b, s).phase = s.phase
      /\ Aged(b, s).worker = s.worker
      /\ Aged(b, s).start = Older(s.start, StartCap)
      /\ Aged(b, s).done = Older(s.done, DoneCap(b))
  BY <1>2, <1>3 DEF Aged, Status
<1>5. QED
  BY <1>2, <1>3, <1>4 DEF Consistent

-----------------------------------------------------------------------------
(* The updates *)

\* Every update an agent makes, of whatever status it finds, writes a
\* well-formed, consistent status, and a finished one is new.
LEMMA WrittenStatus ==
  ASSUME NEW a \in Agents, NEW b \in Builds, NEW s \in Status,
         Consistent(b, s)
  PROVE  /\ Pended(s) \in Status /\ Consistent(b, Pended(s))
         /\ Pended(s).phase = "Pending"
         /\ \A p \in Terminal : /\ Finished(p, s) \in Status
                                /\ Consistent(b, Finished(p, s))
                                /\ Finished(p, s).phase = p
                                /\ Finished(p, s).done = 0
         /\ MatchesArch(a, b) =>
              /\ Claimed(a, s) \in Status /\ Consistent(b, Claimed(a, s))
              /\ Claimed(a, s).phase = "Preparing"
              /\ \A p \in Active : /\ Reported(a, p, s) \in Status
                                   /\ Consistent(b, Reported(a, p, s))
                                   /\ Reported(a, p, s).phase = p
<1>1. /\ Pended(s) \in Status /\ Consistent(b, Pended(s))
      /\ Pended(s).phase = "Pending"
  BY DEF Pended, Status, Consistent, Phases, Active, Terminal
<1>2. ASSUME NEW p \in Terminal
      PROVE  /\ Finished(p, s) \in Status
             /\ Consistent(b, Finished(p, s))
             /\ Finished(p, s).phase = p
             /\ Finished(p, s).done = 0
  <2>1. p \in Phases /\ p \notin Active
    BY <1>2 DEF Phases, Active, Terminal
  <2>2. Finished(p, s) \in Status
    BY <2>1 DEF Finished, Status
  <2>3. /\ Finished(p, s).phase = p
        /\ Finished(p, s).worker = s.worker
        /\ Finished(p, s).done = 0
    BY DEF Finished, Status
  <2>4. QED
    BY <2>1, <2>2, <2>3 DEF Consistent, Nil
<1>3. ASSUME MatchesArch(a, b)
      PROVE  /\ Claimed(a, s) \in Status /\ Consistent(b, Claimed(a, s))
             /\ Claimed(a, s).phase = "Preparing"
  <2>1. "Preparing" \in Phases /\ "Preparing" \notin Terminal
    BY DEF Phases, Active, Terminal
  <2>2. Claimed(a, s) \in Status
    BY <2>1 DEF Claimed, Status
  <2>3. /\ Claimed(a, s).phase = "Preparing"
        /\ Claimed(a, s).worker = a
        /\ Claimed(a, s).start = 0
        /\ Claimed(a, s).done = Nil
    BY DEF Claimed, Status
  <2>4. QED
    BY <1>3, <2>1, <2>2, <2>3, ConstantsAssumption DEF Consistent, Nil
<1>4. ASSUME MatchesArch(a, b), NEW p \in Active
      PROVE  /\ Reported(a, p, s) \in Status
             /\ Consistent(b, Reported(a, p, s))
             /\ Reported(a, p, s).phase = p
  <2> DEFINE st == IF s.start = Nil THEN 0 ELSE s.start
  <2>1. p \in Phases /\ p \notin Terminal
    BY <1>4 DEF Phases, Active, Terminal
  <2>2. st \in Nat
    BY DEF Status
  <2>3. Reported(a, p, s) = [s EXCEPT !.phase = p, !.worker = a,
                                      !.start = st, !.done = Nil]
    BY DEF Reported
  <2> HIDE DEF st
  <2>4. Reported(a, p, s) \in Status
    BY <2>1, <2>2, <2>3 DEF Status
  <2>5. /\ Reported(a, p, s).phase = p
        /\ Reported(a, p, s).worker = a
        /\ Reported(a, p, s).start = st
        /\ Reported(a, p, s).done = Nil
    BY <2>3 DEF Status
  <2>6. QED
    BY <1>4, <2>1, <2>2, <2>4, <2>5, ConstantsAssumption DEF Consistent, Nil
<1>5. QED
  BY <1>1, <1>2, <1>3, <1>4

-----------------------------------------------------------------------------
(* The inductive invariant *)

LEMMA InitInvariant == Init => IInv
<1> SUFFICES ASSUME Init PROVE IInv
  OBVIOUS
<1>1. /\ Submitted \in Status /\ Submitted.phase = "New"
      /\ Submitted.worker = Null
      /\ Absent \in Status /\ Absent.phase = "Absent" /\ Absent.worker = Null
  BY DEF Submitted, Absent, Status, Phases
<1>2. \A b \in Builds : Consistent(b, Submitted) /\ Consistent(b, Absent)
  BY <1>1 DEF Consistent, Active, Terminal
<1>3. \A b \in Builds : DoneSince(b, Submitted) /\ DoneSince(b, Absent)
  BY <1>1 DEF DoneSince, Terminal
<1> HIDE DEF Submitted, Absent
<1>4. TypeOK
  BY <1>1, ConstantsAssumption DEF Init, TypeOK, Ops
<1>5. StatusConsistent
  BY <1>2 DEF Init, StatusConsistent
<1>6. JobsMatchArch
  BY DEF Init, JobsMatchArch, Running
<1>7. DoneIsRemembered
  BY <1>3 DEF Init, DoneIsRemembered
<1>8. QED
  BY <1>4, <1>5, <1>6, <1>7 DEF IInv

LEMMA TickInvariant == IInv /\ Tick => IInv'
<1> SUFFICES ASSUME IInv, Tick PROVE IInv'
  OBVIOUS
<1>1. \A b \in Builds : api'[b] = Aged(b, api[b])
  BY DEF Tick
<1>2. \A r \in Readers, b \in Builds : cache'[r][b] = Aged(b, cache[r][b])
  BY DEF Tick
<1>3. \A b \in Builds : firstDone'[b] = Older(firstDone[b], DoneCap(b))
  BY DEF Tick
<1>4. /\ \A b \in Builds : api[b] \in Status
      /\ \A r \in Readers, b \in Builds : cache[r][b] \in Status
      /\ \A b \in Builds : firstDone[b] \in Nat \cup {Nil}
  BY DEF IInv, TypeOK
<1>5. TypeOK'
  <2>1. api' \in [Builds -> Status]
    BY <1>4, AgedStatus DEF Tick
  <2>2. cache' \in [Readers -> [Builds -> Status]]
    BY <1>4, AgedStatus DEF Tick
  <2>3. firstDone' \in [Builds -> Nat \cup {Nil}]
    BY <1>4, OlderAge, DoneCapInt DEF Tick
  <2>4. QED
    BY <2>1, <2>2, <2>3 DEF Tick, IInv, TypeOK
<1>6. StatusConsistent'
  BY <1>1, <1>2, <1>4, AgedStatus DEF IInv, StatusConsistent, Consistent,
     MatchesArch
<1>7. JobsMatchArch'
  BY DEF Tick, IInv, JobsMatchArch, MatchesArch
<1>8. ASSUME NEW b \in Builds, NEW s \in Status, DoneSince(b, s),
             Consistent(b, s)
      PROVE  DoneSince(b, Aged(b, s))'
  <2> SUFFICES ASSUME s.phase \in Terminal
               PROVE  /\ firstDone'[b] # Nil
                      /\ firstDone'[b] >= Aged(b, s).done
    BY AgedStatus DEF DoneSince
  <2>1. /\ s.done \in Nat \cup {Nil} /\ s.done # Nil
        /\ firstDone[b] \in Nat \cup {Nil} /\ firstDone[b] # Nil
        /\ firstDone[b] >= s.done
    BY <1>4, <1>8 DEF DoneSince, Consistent, Status
  <2>2. firstDone'[b] >= Older(s.done, DoneCap(b))
    BY <1>3, <2>1, OlderMonotone, DoneCapInt
  <2>3. firstDone'[b] # Nil
    BY <1>3, <2>1, OlderAge, DoneCapInt
  <2>4. QED
    BY <2>2, <2>3, AgedStatus
<1>9. DoneIsRemembered'
  BY <1>1, <1>2, <1>4, <1>8 DEF IInv, StatusConsistent, DoneIsRemembered
<1>10. QED
  BY <1>5, <1>6, <1>7, <1>9 DEF IInv

LEMMA ObserveInvariant ==
  ASSUME NEW r \in Readers, NEW b \in Builds
  PROVE  IInv /\ Observe(r, b) => IInv'
<1> SUFFICES ASSUME IInv, Observe(r, b) PROVE IInv'
  OBVIOUS
<1>1. \A r1 \in Readers, b1 \in Builds :
        cache'[r1][b1] = cache[r1][b1] \/ cache'[r1][b1] = api[b1]
  BY DEF Observe, IInv, TypeOK
<1>2. TypeOK'
  BY DEF Observe, IInv, TypeOK
<1>3. StatusConsistent'
  BY <1>1 DEF Observe, IInv, StatusConsistent, Consistent, MatchesArch
<1>4. JobsMatchArch'
  BY DEF Observe, IInv, JobsMatchArch, MatchesArch
<1>5. DoneIsRemembered'
  BY <1>1 DEF Observe, IInv, DoneIsRemembered, DoneSince
<1>6. QED
  BY <1>2, <1>3, <1>4, <1>5 DEF IInv

LEMMA ReconcileInvariant ==
  ASSUME NEW a \in Agents, NEW b \in Builds
  PROVE  IInv /\ Reconcile(a, b) => IInv'
<1> SUFFICES ASSUME IInv, Reconcile(a, b) PROVE IInv'
  OBVIOUS
<1>1. /\ Take(a, b)
      /\ \/ UNCHANGED <<op, task>>
         \/ \E o \in {"Init", "Claim", "Fail", "Prepare"} :
              /\ op' = [op EXCEPT ![a] = o]
              /\ task' = [task EXCEPT ![a] = b]
              /\ o \in {"Claim", "Prepare"} => MatchesArch(a, b)
  <2>1. CASE NothingToDo(a, b)
    BY <2>1 DEF NothingToDo
  <2>2. CASE BeginInit(a, b)
    BY <2>2 DEF BeginInit, Begin
  <2>3. CASE BeginClaim(a, b)
    BY <2>3 DEF BeginClaim, Begin
  <2>4. CASE BeginFail(a, b)
    BY <2>4 DEF BeginFail, Begin
  <2>5. CASE BeginRun(a, b)
    <3>1. MatchesArch(a, b)
      BY <2>5, ConstantsAssumption
         DEF BeginRun, IInv, StatusConsistent, Consistent, Readers
    <3>2. QED
      BY <2>5, <3>1 DEF BeginRun, Begin
  <2>6. QED
    BY <2>1, <2>2, <2>3, <2>4, <2>5 DEF Reconcile
<1>2. UNCHANGED <<api, cache, news, faults, firstDone>>
  BY <1>1 DEF Take
<1>3. TypeOK'
  <2>1. queue' \in [Readers -> SUBSET Builds]
    BY <1>1 DEF Take, IInv, TypeOK
  <2>2. /\ op' \in [Agents -> Ops]
        /\ task' \in [Agents -> Builds \cup {Null}]
        /\ \A x \in Agents : op'[x] = "Idle" <=> task'[x] = Null
    BY <1>1, ConstantsAssumption DEF IInv, TypeOK, Ops, Updating, Running
  <2>3. QED
    BY <1>2, <2>1, <2>2 DEF IInv, TypeOK
<1>4. StatusConsistent'
  BY <1>2 DEF IInv, StatusConsistent, Consistent, MatchesArch
<1>5. JobsMatchArch'
  BY <1>1 DEF IInv, TypeOK, JobsMatchArch, Running, MatchesArch
<1>6. DoneIsRemembered'
  BY <1>2 DEF IInv, DoneIsRemembered, DoneSince
<1>7. QED
  BY <1>3, <1>4, <1>5, <1>6 DEF IInv

\* The common part of the steps that leave statuses alone and move one agent to
\* an operation that needs no architecture, or leave it where it was.
LEMMA JobStep ==
  ASSUME NEW a \in Agents, NEW o \in Ops, NEW t \in Builds \cup {Null},
         IInv,
         op' = [op EXCEPT ![a] = o],
         task' = [task EXCEPT ![a] = t],
         o = "Idle" <=> t = Null,
         o \in Running \cup {"Claim"} => MatchesArch(a, t)
  PROVE  /\ op' \in [Agents -> Ops]
         /\ task' \in [Agents -> Builds \cup {Null}]
         /\ \A x \in Agents : op'[x] = "Idle" <=> task'[x] = Null
         /\ JobsMatchArch'
BY DEF IInv, TypeOK, JobsMatchArch, MatchesArch

LEMMA RunCommandInvariant ==
  ASSUME NEW a \in Agents
  PROVE  IInv /\ RunCommand(a) => IInv'
<1> SUFFICES ASSUME IInv, RunCommand(a) PROVE IInv'
  OBVIOUS
<1>1. PICK o \in {"ToBuilding", "ToPublishing", "Succeed", "Fail"} : Goto(a, o)
  BY DEF RunCommand, Prepare, ExecuteBuild, ExecutePublish
<1>2. op[a] \in Running /\ op[a] # "Idle"
  BY DEF RunCommand, Prepare, ExecuteBuild, ExecutePublish, Running
<1>3. MatchesArch(a, task[a]) /\ task[a] \in Builds /\ task[a] # Null
  BY <1>2, ConstantsAssumption DEF IInv, TypeOK, JobsMatchArch
<1>4. task' = [task EXCEPT ![a] = task[a]]
  BY <1>1 DEF Goto, IInv, TypeOK
<1>5. /\ op' \in [Agents -> Ops]
      /\ task' \in [Agents -> Builds \cup {Null}]
      /\ \A x \in Agents : op'[x] = "Idle" <=> task'[x] = Null
      /\ JobsMatchArch'
  <2>1. o \in Ops /\ o # "Idle"
    BY <1>1 DEF Ops, Updating
  <2>2. op' = [op EXCEPT ![a] = o]
    BY <1>1 DEF Goto
  <2>3. QED
    BY <1>3, <1>4, <2>1, <2>2, JobStep
<1>6. TypeOK'
  BY <1>1, <1>5 DEF Goto, IInv, TypeOK
<1>7. StatusConsistent' /\ DoneIsRemembered'
  BY <1>1 DEF Goto, IInv, StatusConsistent, Consistent, MatchesArch,
     DoneIsRemembered, DoneSince
<1>8. QED
  BY <1>5, <1>6, <1>7 DEF IInv

\* An update of b to a consistent status s that is new if it is finished.
LEMMA WriteInvariant ==
  ASSUME NEW a \in Agents, NEW b \in Builds, NEW s \in Status,
         IInv, Write(a, b, s), Consistent(b, s),
         s.phase \in Terminal => s.done = 0
  PROVE  /\ api' \in [Builds -> Status]
         /\ cache' \in [Readers -> [Builds -> Status]]
         /\ news' \subseteq Readers \X Builds
         /\ faults' \in 0..MaxFaults
         /\ firstDone' \in [Builds -> Nat \cup {Nil}]
         /\ StatusConsistent'
         /\ DoneIsRemembered'
<1>1. /\ api' \in [Builds -> Status]
      /\ cache' \in [Readers -> [Builds -> Status]]
      /\ news' \subseteq Readers \X Builds
      /\ faults' \in 0..MaxFaults
      /\ firstDone' \in [Builds -> Nat \cup {Nil}]
  BY DEF Write, IInv, TypeOK
<1>2. \A b1 \in Builds : Consistent(b1, api'[b1])
  BY DEF Write, IInv, TypeOK, StatusConsistent
<1>3. StatusConsistent'
  BY <1>2 DEF Write, IInv, StatusConsistent, Consistent, MatchesArch
<1>4. \A b1 \in Builds : /\ firstDone[b1] # Nil => firstDone'[b1] = firstDone[b1]
                         /\ api'[b1] = api[b1] \/ (b1 = b /\ api'[b1] = s)
  BY DEF Write, IInv, TypeOK
<1>5. s.phase \in Terminal => firstDone'[b] # Nil /\ firstDone'[b] >= s.done
  BY DEF Write, IInv, TypeOK, Nil
<1>6. \A b1 \in Builds : DoneSince(b1, api[b1])
  BY DEF IInv, DoneIsRemembered
<1>7. \A r \in Readers, b1 \in Builds : DoneSince(b1, cache[r][b1])
  BY DEF IInv, DoneIsRemembered
<1>8. DoneIsRemembered'
  <2>1. \A b1 \in Builds : DoneSince(b1, api[b1])'
    BY <1>4, <1>5, <1>6 DEF DoneSince
  <2>2. \A r \in Readers, b1 \in Builds : DoneSince(b1, cache[r][b1])'
    BY <1>4, <1>7 DEF DoneSince, Write
  <2>3. QED
    BY <2>1, <2>2 DEF DoneIsRemembered
<1>9. QED
  BY <1>1, <1>3, <1>8

\* How an update ends, whatever becomes of the statuses.
LEMMA ReturnInvariant ==
  ASSUME NEW a \in Agents, NEW o \in Ops, NEW again \in BOOLEAN,
         IInv, op[a] \in Updating, Return(a, o, again),
         o \in Running \cup {"Claim"} => op[a] \in Running
  PROVE  /\ queue' \in [Readers -> SUBSET Builds]
         /\ op' \in [Agents -> Ops]
         /\ task' \in [Agents -> Builds \cup {Null}]
         /\ \A x \in Agents : op'[x] = "Idle" <=> task'[x] = Null
         /\ JobsMatchArch'
<1> DEFINE t == IF o = "Idle" THEN Null ELSE task[a]
<1>1. task[a] \in Builds /\ task[a] # Null
  BY ConstantsAssumption DEF Updating, IInv, TypeOK
<1>2. queue' \in [Readers -> SUBSET Builds]
  BY <1>1 DEF Return, IInv, TypeOK, Readers
<1>3. op[a] \in Running => MatchesArch(a, task[a])
  BY DEF IInv, JobsMatchArch
<1>4. /\ t \in Builds \cup {Null}
      /\ o = "Idle" <=> t = Null
      /\ o \in Running \cup {"Claim"} => MatchesArch(a, t)
  BY <1>1, <1>3 DEF Running
<1>5. op' = [op EXCEPT ![a] = o] /\ task' = [task EXCEPT ![a] = t]
  BY DEF Return, IInv, TypeOK
<1> HIDE DEF t
<1>6. QED
  BY <1>2, <1>4, <1>5, JobStep

\* One successful update of the build the agent is busy with.
LEMMA UpdateStep ==
  ASSUME NEW a \in Agents, NEW s \in Status, NEW o \in Ops,
         NEW again \in BOOLEAN,
         IInv, op[a] \in Updating,
         Write(a, task[a], s), Return(a, o, again),
         Consistent(task[a], s),
         s.phase \in Terminal => s.done = 0,
         o \in Running \cup {"Claim"} => op[a] \in Running
  PROVE  IInv'
<1>1. task[a] \in Builds
  BY DEF Updating, IInv, TypeOK
<1>2. /\ api' \in [Builds -> Status]
      /\ cache' \in [Readers -> [Builds -> Status]]
      /\ news' \subseteq Readers \X Builds
      /\ faults' \in 0..MaxFaults
      /\ firstDone' \in [Builds -> Nat \cup {Nil}]
      /\ StatusConsistent'
      /\ DoneIsRemembered'
  BY <1>1, WriteInvariant
<1>3. /\ queue' \in [Readers -> SUBSET Builds]
      /\ op' \in [Agents -> Ops]
      /\ task' \in [Agents -> Builds \cup {Null}]
      /\ \A x \in Agents : op'[x] = "Idle" <=> task'[x] = Null
      /\ JobsMatchArch'
  BY ReturnInvariant
<1>4. QED
  BY <1>2, <1>3 DEF IInv, TypeOK

\* An update that writes w, leaves the reconcile at o and keeps the invariant.
Updated(a, w, o, again) ==
  /\ Write(a, task[a], w) /\ Return(a, o, again)
  /\ Consistent(task[a], w)
  /\ w.phase # "Absent"
  /\ w.phase \in Terminal => w.done = 0
  /\ o \in Running \cup {"Claim"} => op[a] \in Running

LEMMA UpdateWrites ==
  ASSUME NEW a \in Agents, IInv, UpdateStatus(a)
  PROVE  \E w \in Status, o \in Ops, again \in BOOLEAN : Updated(a, w, o, again)
<1> DEFINE b == task[a]
           s == api[task[a]]
<1>1. op[a] \in Updating
  BY DEF UpdateStatus, Updating
<1>2. b \in Builds /\ s \in Status /\ Consistent(b, s)
  BY <1>1 DEF Updating, IInv, TypeOK, StatusConsistent
<1>3. op[a] \in {"Claim", "ToBuilding", "ToPublishing"} => MatchesArch(a, b)
  BY DEF IInv, JobsMatchArch, Running
<1>4. /\ {"Idle", "Build", "Publish"} \subseteq Ops
      /\ {"ToBuilding", "ToPublishing"} \subseteq Running
      /\ "Idle" \notin Running \cup {"Claim"}
  BY DEF Ops, Running
<1>5. /\ "Pending" \notin Terminal
      /\ \A p \in Active : p \notin Terminal
      /\ {"Preparing", "Building", "Publishing"} \subseteq Active
      /\ {"Succeeded", "Failed"} \subseteq Terminal
  BY DEF Active, Terminal
<1>6. CASE op[a] = "Init"
  <2> DEFINE w == Pended(s)
  <2>1. Write(a, b, w) /\ Return(a, "Idle", TRUE)
    BY <1>6 DEF UpdateStatus
  <2>2. w \in Status /\ Consistent(b, w) /\ w.phase \notin Terminal \cup {"Absent"}
    BY <1>2, <1>5, WrittenStatus
  <2> HIDE DEF w
  <2>3. QED
    BY <1>4, <1>6, <2>1, <2>2 DEF Updated
<1>7. CASE op[a] = "Claim"
  <2> DEFINE w == Claimed(a, s)
  <2>1. Write(a, b, w) /\ Return(a, "Idle", TRUE)
    BY <1>7 DEF UpdateStatus
  <2>2. w \in Status /\ Consistent(b, w) /\ w.phase \notin Terminal \cup {"Absent"}
    BY <1>2, <1>3, <1>5, <1>7, WrittenStatus
  <2> HIDE DEF w
  <2>3. QED
    BY <1>4, <1>7, <2>1, <2>2 DEF Updated
<1>8. CASE op[a] = "ToBuilding"
  <2> DEFINE w == Reported(a, "Building", s)
  <2>1. Write(a, b, w) /\ Return(a, "Build", FALSE)
    BY <1>8 DEF UpdateStatus
  <2>2. MatchesArch(a, b) /\ "Building" \in Active
    BY <1>3, <1>5, <1>8
  <2>3. w \in Status /\ Consistent(b, w) /\ w.phase = "Building"
    BY <1>2, <2>2, WrittenStatus
  <2> HIDE DEF w
  <2>4. QED
    BY <1>4, <1>5, <1>8, <2>1, <2>2, <2>3 DEF Updated
<1>9. CASE op[a] = "ToPublishing"
  <2> DEFINE w == Reported(a, "Publishing", s)
  <2>1. Write(a, b, w) /\ Return(a, "Publish", FALSE)
    BY <1>9 DEF UpdateStatus
  <2>2. MatchesArch(a, b) /\ "Publishing" \in Active
    BY <1>3, <1>5, <1>9
  <2>3. w \in Status /\ Consistent(b, w) /\ w.phase = "Publishing"
    BY <1>2, <2>2, WrittenStatus
  <2> HIDE DEF w
  <2>4. QED
    BY <1>4, <1>5, <1>9, <2>1, <2>2, <2>3 DEF Updated
<1>10. CASE op[a] = "Succeed"
  <2> DEFINE w == Finished("Succeeded", s)
  <2>1. Write(a, b, w) /\ Return(a, "Idle", FALSE)
    BY <1>10 DEF UpdateStatus
  <2>2. w \in Status /\ Consistent(b, w) /\ w.phase # "Absent" /\ w.done = 0
    BY <1>2, <1>5, WrittenStatus
  <2> HIDE DEF w
  <2>3. QED
    BY <1>4, <1>10, <2>1, <2>2 DEF Updated
<1>11. CASE op[a] = "Fail"
  <2> DEFINE w == Finished("Failed", s)
  <2>1. Write(a, b, w) /\ Return(a, "Idle", FALSE)
    BY <1>11 DEF UpdateStatus
  <2>2. w \in Status /\ Consistent(b, w) /\ w.phase # "Absent" /\ w.done = 0
    BY <1>2, <1>5, WrittenStatus
  <2> HIDE DEF w
  <2>3. QED
    BY <1>4, <1>11, <2>1, <2>2 DEF Updated
<1>12. QED
  BY <1>1, <1>6, <1>7, <1>8, <1>9, <1>10, <1>11 DEF Updating

LEMMA UpdateStatusInvariant ==
  ASSUME NEW a \in Agents
  PROVE  IInv /\ UpdateStatus(a) => IInv'
<1> SUFFICES ASSUME IInv, UpdateStatus(a) PROVE IInv'
  OBVIOUS
<1>1. PICK w \in Status, o \in Ops, again \in BOOLEAN : Updated(a, w, o, again)
  BY UpdateWrites
<1>2. op[a] \in Updating
  BY DEF UpdateStatus, Updating
<1>3. QED
  BY <1>1, <1>2, UpdateStep DEF Updated

LEMMA UpdateFailsInvariant ==
  ASSUME NEW a \in Agents
  PROVE  IInv /\ UpdateFails(a) => IInv'
<1> SUFFICES ASSUME IInv, UpdateFails(a) PROVE IInv'
  OBVIOUS
<1>1. PICK o \in {"Fail", "Idle"}, again \in BOOLEAN : Return(a, o, again)
  BY DEF UpdateFails
<1>2. o \in Ops /\ o \notin Running \cup {"Claim"}
  BY <1>1 DEF Ops, Updating, Running
<1>3. op[a] \in Updating
  BY DEF UpdateFails
<1>4. /\ queue' \in [Readers -> SUBSET Builds]
      /\ op' \in [Agents -> Ops]
      /\ task' \in [Agents -> Builds \cup {Null}]
      /\ \A x \in Agents : op'[x] = "Idle" <=> task'[x] = Null
      /\ JobsMatchArch'
  BY <1>1, <1>2, <1>3, ReturnInvariant
<1>5. faults' \in 0..MaxFaults
  BY ConstantsAssumption DEF UpdateFails, IInv, TypeOK
<1>6. UNCHANGED <<api, cache, news, firstDone>>
  BY DEF UpdateFails
<1>7. StatusConsistent' /\ DoneIsRemembered'
  BY <1>6 DEF IInv, StatusConsistent, Consistent, MatchesArch,
     DoneIsRemembered, DoneSince
<1>8. QED
  BY <1>4, <1>5, <1>6, <1>7 DEF IInv, TypeOK

LEMMA CrashInvariant ==
  ASSUME NEW a \in Agents
  PROVE  IInv /\ Crash(a) => IInv'
<1> SUFFICES ASSUME IInv, Crash(a) PROVE IInv'
  OBVIOUS
<1>1. /\ Absent \in Status
      /\ \A b \in Builds : Consistent(b, Absent)
      /\ Absent.phase \notin Terminal
  BY DEF Absent, Submitted, Status, Phases, Consistent, Active, Terminal
<1> HIDE DEF Absent
<1>2. \A r \in Readers, b \in Builds :
        cache'[r][b] = cache[r][b] \/ cache'[r][b] = Absent
  BY DEF Crash, IInv, TypeOK
<1>3. /\ op' \in [Agents -> Ops]
      /\ task' \in [Agents -> Builds \cup {Null}]
      /\ \A x \in Agents : op'[x] = "Idle" <=> task'[x] = Null
      /\ JobsMatchArch'
  <2>1. /\ "Idle" \in Ops
        /\ "Idle" \notin Running \cup {"Claim"}
    BY DEF Ops, Running
  <2>2. op' = [op EXCEPT ![a] = "Idle"] /\ task' = [task EXCEPT ![a] = Null]
    BY DEF Crash
  <2>3. QED
    BY <2>1, <2>2, JobStep
<1>4. /\ cache' \in [Readers -> [Builds -> Status]]
      /\ queue' \in [Readers -> SUBSET Builds]
      /\ faults' \in 0..MaxFaults
  <2>1. [b \in Builds |-> Absent] \in [Builds -> Status]
    BY <1>1
  <2>2. cache' \in [Readers -> [Builds -> Status]]
    BY <2>1 DEF Crash, IInv, TypeOK
  <2>3. queue' \in [Readers -> SUBSET Builds]
    BY DEF Crash, IInv, TypeOK
  <2>4. faults' \in 0..MaxFaults
    BY ConstantsAssumption DEF Crash, IInv, TypeOK
  <2>5. QED
    BY <2>2, <2>3, <2>4
<1>5. StatusConsistent'
  BY <1>1, <1>2 DEF Crash, IInv, StatusConsistent, Consistent, MatchesArch
<1>6. DoneIsRemembered'
  BY <1>1, <1>2 DEF Crash, IInv, DoneIsRemembered, DoneSince
<1>7. QED
  BY <1>3, <1>4, <1>5, <1>6 DEF Crash, IInv, TypeOK

LEMMA CollectInvariant ==
  ASSUME NEW b \in Builds
  PROVE  IInv /\ Collect(b) => IInv'
<1> SUFFICES ASSUME IInv, Collect(b) PROVE IInv'
  OBVIOUS
<1>1. /\ Absent \in Status
      /\ \A x \in Builds : Consistent(x, Absent)
      /\ Absent.phase \notin Terminal
  BY DEF Absent, Submitted, Status, Phases, Consistent, Active, Terminal
<1> HIDE DEF Absent
<1>2. /\ GcTake(b)
      /\ \/ UNCHANGED api
         \/ api' = [api EXCEPT ![b] = Absent]
      /\ news' \subseteq Readers \X Builds
  BY DEF Collect, GcSkip, GcDelete, IInv, TypeOK
<1>3. TypeOK'
  <2>1. api' \in [Builds -> Status]
    BY <1>1, <1>2 DEF IInv, TypeOK
  <2>2. queue' \in [Readers -> SUBSET Builds]
    BY <1>2 DEF GcTake, IInv, TypeOK
  <2>3. QED
    BY <1>2, <2>1, <2>2 DEF GcTake, IInv, TypeOK
<1>4. \A x \in Builds : api'[x] = api[x] \/ api'[x] = Absent
  BY <1>2 DEF IInv, TypeOK
<1>5. StatusConsistent'
  BY <1>1, <1>2, <1>4 DEF GcTake, IInv, StatusConsistent, Consistent,
     MatchesArch
<1>6. JobsMatchArch'
  BY <1>2 DEF GcTake, IInv, JobsMatchArch, MatchesArch
<1>7. DoneIsRemembered'
  BY <1>1, <1>2, <1>4 DEF GcTake, IInv, DoneIsRemembered, DoneSince
<1>8. QED
  BY <1>3, <1>5, <1>6, <1>7 DEF IInv

LEMMA NextInvariant == IInv /\ [Next]_vars => IInv'
<1> SUFFICES ASSUME IInv, [Next]_vars PROVE IInv'
  OBVIOUS
<1>1. CASE UNCHANGED vars
  BY <1>1 DEF vars, IInv, TypeOK, StatusConsistent, Consistent, MatchesArch,
     JobsMatchArch, DoneIsRemembered, DoneSince
<1>2. CASE Next
  BY <1>2, TickInvariant, ObserveInvariant, ReconcileInvariant,
     RunCommandInvariant, UpdateStatusInvariant, UpdateFailsInvariant,
     CrashInvariant, CollectInvariant DEF Next
<1>3. QED
  BY <1>1, <1>2

-----------------------------------------------------------------------------
(* Theorems *)

\* The invariant that every reachable state satisfies.
THEOREM Invariance == Spec => []IInv
BY InitInvariant, NextInvariant, PTL DEF Spec

\* Every variable keeps its type.
THEOREM TypeCorrect == Spec => []TypeOK
<1>1. IInv => TypeOK
  BY DEF IInv
<1>2. QED
  BY <1>1, Invariance, PTL

\* No interleaving of agents, stale caches, crashes and failed updates leaves a
\* half-filled status: updateBuildStatus never records an active phase without
\* an owner and a start time, nor an end without a completion time.
THEOREM StatusIsConsistent == Spec => []StatusConsistent
<1>1. IInv => StatusConsistent
  BY DEF IInv
<1>2. QED
  BY <1>1, Invariance, PTL

\* A worker runs only builds of its own architecture, although Reconcile checks
\* the architecture of Pending builds only.
THEOREM RunsItsArch == Spec => []RunsOnMatchingArch
<1>1. IInv => RunsOnMatchingArch
  BY DEF IInv, JobsMatchArch, RunsOnMatchingArch
<1>2. QED
  BY <1>1, Invariance, PTL

-----------------------------------------------------------------------------
(* No wake-up is lost *)

WakeInv == CacheIsCurrent /\ NoBuildIsForgotten /\ FinishedIsWatched

\* What is left to do depends on the phase of a build alone.
LEMMA SamePhaseSameWork ==
  ASSUME NEW a \in Agents, NEW b \in Builds,
         api'[b].phase = api[b].phase, NothingLeft(a, b)
  PROVE  NothingLeft(a, b)'
BY DEF NothingLeft, MatchesArch

LEMMA InitWake == Init => WakeInv
BY DEF Init, WakeInv, CacheIsCurrent, NoBuildIsForgotten, FinishedIsWatched,
   Readers

LEMMA TickWake == IInv /\ WakeInv /\ Tick => WakeInv'
<1> SUFFICES ASSUME IInv, WakeInv, Tick PROVE WakeInv'
  OBVIOUS
<1>1. /\ \A b \in Builds : api'[b] = Aged(b, api[b])
      /\ \A r \in Readers, b \in Builds : cache'[r][b] = Aged(b, cache[r][b])
      /\ UNCHANGED <<news, queue, task>>
  BY DEF Tick
<1>2. \A b \in Builds : api'[b].phase = api[b].phase
  BY <1>1, AgedStatus DEF IInv, TypeOK
<1>3. CacheIsCurrent'
  BY <1>1 DEF WakeInv, CacheIsCurrent
<1>4. NoBuildIsForgotten'
  BY <1>1, <1>2, SamePhaseSameWork DEF WakeInv, NoBuildIsForgotten
<1>5. FinishedIsWatched'
  BY <1>1, <1>2 DEF WakeInv, FinishedIsWatched
<1>6. QED
  BY <1>3, <1>4, <1>5 DEF WakeInv

LEMMA ObserveWake ==
  ASSUME NEW r \in Readers, NEW b \in Builds
  PROVE  IInv /\ WakeInv /\ Observe(r, b) => WakeInv'
<1> SUFFICES ASSUME IInv, WakeInv, Observe(r, b) PROVE WakeInv'
  OBVIOUS
<1>1. /\ news' = news \ {<<r, b>>}
      /\ UNCHANGED <<api, task>>
      /\ \A x \in Readers : queue[x] \subseteq queue'[x]
      /\ b \in queue'[r]
      /\ cache'[r][b] = api[b]
      /\ \A x \in Readers, y \in Builds :
           <<x, y>> # <<r, b>> => cache'[x][y] = cache[x][y]
  BY DEF Observe, IInv, TypeOK
<1>2. CacheIsCurrent'
  BY <1>1 DEF WakeInv, CacheIsCurrent
<1>3. NoBuildIsForgotten'
  BY <1>1, SamePhaseSameWork DEF WakeInv, NoBuildIsForgotten, Readers
<1>4. FinishedIsWatched'
  BY <1>1 DEF WakeInv, FinishedIsWatched, Readers
<1>5. QED
  BY <1>2, <1>3, <1>4 DEF WakeInv

\* The agent takes b into its hands, or what it sees says that nothing is left.
LEMMA ReconcileWake ==
  ASSUME NEW a \in Agents, NEW b \in Builds
  PROVE  IInv /\ WakeInv /\ Reconcile(a, b) => WakeInv'
<1> SUFFICES ASSUME IInv, WakeInv, Reconcile(a, b) PROVE WakeInv'
  OBVIOUS
<1>1. /\ op[a] = "Idle"
      /\ queue' = [queue EXCEPT ![a] = @ \ {b}]
      /\ UNCHANGED <<api, cache, news>>
      /\ \/ task' = [task EXCEPT ![a] = b]
         \/ NothingToDo(a, b) /\ UNCHANGED task
  BY DEF Reconcile, NothingToDo, BeginInit, BeginClaim, BeginFail, BeginRun,
     Begin, Take
<1>2. a # GC /\ GC \in Readers /\ a \in Readers
  BY ConstantsAssumption DEF Readers
<1>3. CacheIsCurrent'
  BY <1>1 DEF WakeInv, CacheIsCurrent
<1>4. FinishedIsWatched'
  BY <1>1, <1>2 DEF WakeInv, FinishedIsWatched, IInv, TypeOK
<1>5. ASSUME NEW x \in Agents, NEW y \in Builds,
             <<x, y>> \notin news', y \notin queue'[x], task'[x] # y
      PROVE  NothingLeft(x, y)'
  <2>1. CASE x = a /\ y = b
    <3>1. NothingToDo(a, b)
      BY <1>1, <1>5, <2>1 DEF IInv, TypeOK
    <3>2. cache[a][b] = api[b]
      BY <1>1, <1>2, <1>5, <2>1 DEF WakeInv, CacheIsCurrent
    <3>3. QED
      BY <1>1, <2>1, <3>1, <3>2 DEF NothingToDo, NothingLeft, MatchesArch
  <2>2. CASE ~(x = a /\ y = b)
    <3>1. y \notin queue[x]
      BY <1>1, <1>2, <1>5, <2>2 DEF IInv, TypeOK, Readers
    <3>2. task[x] # y
      BY <1>1, <1>5, <2>2, ConstantsAssumption DEF IInv, TypeOK
    <3>3. NothingLeft(x, y)
      BY <1>1, <1>5, <3>1, <3>2 DEF WakeInv, NoBuildIsForgotten
    <3>4. QED
      BY <1>1, <3>3, SamePhaseSameWork
  <2>3. QED
    BY <2>1, <2>2
<1>6. NoBuildIsForgotten'
  BY <1>5 DEF NoBuildIsForgotten
<1>7. QED
  BY <1>3, <1>4, <1>6 DEF WakeInv

LEMMA RunCommandWake ==
  ASSUME NEW a \in Agents
  PROVE  WakeInv /\ RunCommand(a) => WakeInv'
<1> SUFFICES ASSUME WakeInv, RunCommand(a) PROVE WakeInv'
  OBVIOUS
<1>1. UNCHANGED <<api, cache, news, queue, task>>
  BY DEF RunCommand, Prepare, ExecuteBuild, ExecutePublish, Goto
<1>2. QED
  BY <1>1 DEF WakeInv, CacheIsCurrent, NoBuildIsForgotten, NothingLeft,
     MatchesArch, FinishedIsWatched

\* A step after which the informers owe everyone news of b, and which takes
\* only b out of queues and hands, loses no wake-up.
LEMMA NewsWake ==
  ASSUME NEW b \in Builds, IInv, WakeInv,
         news' = news \cup (Readers \X {b}),
         cache' = cache,
         \A y \in Builds : y # b => api'[y] = api[y],
         \A r \in Readers : \A y \in queue[r] : y # b => y \in queue'[r],
         \A x \in Agents : task[x] \notin {b, Null} => task'[x] = task[x]
  PROVE  WakeInv'
<1>1. CacheIsCurrent'
  BY DEF WakeInv, CacheIsCurrent
<1>2. NoBuildIsForgotten'
  <2> SUFFICES ASSUME NEW x \in Agents, NEW y \in Builds,
                      <<x, y>> \notin news', y \notin queue'[x], task'[x] # y
               PROVE  NothingLeft(x, y)'
    BY DEF NoBuildIsForgotten
  <2>1. y # b /\ <<x, y>> \notin news /\ x \in Readers
    BY DEF Readers
  <2>2. y \notin queue[x] /\ task[x] # y
    BY <2>1, ConstantsAssumption
  <2>3. NothingLeft(x, y)
    BY <2>1, <2>2 DEF WakeInv, NoBuildIsForgotten
  <2>4. QED
    BY <2>1, <2>3, SamePhaseSameWork
<1>3. FinishedIsWatched'
  BY DEF WakeInv, FinishedIsWatched, Readers
<1>4. QED
  BY <1>1, <1>2, <1>3 DEF WakeInv

LEMMA UpdateStatusWake ==
  ASSUME NEW a \in Agents
  PROVE  IInv /\ WakeInv /\ UpdateStatus(a) => WakeInv'
<1> SUFFICES ASSUME IInv, WakeInv, UpdateStatus(a) PROVE WakeInv'
  OBVIOUS
<1>1. PICK w \in Status, o \in Ops, again \in BOOLEAN : Updated(a, w, o, again)
  BY UpdateWrites
<1>2. task[a] \in Builds
  BY DEF UpdateStatus, IInv, TypeOK
<1>3. /\ news' = news \cup (Readers \X {task[a]})
      /\ cache' = cache
      /\ \A y \in Builds : y # task[a] => api'[y] = api[y]
  BY <1>1, <1>2 DEF Updated, Write, IInv, TypeOK
<1>4. /\ \A r \in Readers : queue[r] \subseteq queue'[r]
      /\ \A x \in Agents : x # a => task'[x] = task[x]
  BY <1>1, <1>2 DEF Updated, Return, IInv, TypeOK
<1>5. QED
  BY <1>2, <1>3, <1>4, NewsWake

\* A failed update puts the build back into the queue, or keeps it in hand to
\* record the failure of the job.
LEMMA UpdateFailsWake ==
  ASSUME NEW a \in Agents
  PROVE  IInv /\ WakeInv /\ UpdateFails(a) => WakeInv'
<1> SUFFICES ASSUME IInv, WakeInv, UpdateFails(a) PROVE WakeInv'
  OBVIOUS
<1>1. UNCHANGED <<api, cache, news>>
  BY DEF UpdateFails
<1>2. task[a] \in Builds /\ a \in Readers
  BY DEF UpdateFails, IInv, TypeOK, Updating, Readers
<1>3. /\ \A r \in Readers : queue[r] \subseteq queue'[r]
      /\ \A x \in Agents : x # a => task'[x] = task[x]
      /\ task'[a] = task[a] \/ task[a] \in queue'[a]
  BY <1>2 DEF UpdateFails, Return, IInv, TypeOK
<1>4. CacheIsCurrent' /\ FinishedIsWatched'
  BY <1>1, <1>3 DEF WakeInv, CacheIsCurrent, FinishedIsWatched, Readers
<1>5. NoBuildIsForgotten'
  BY <1>1, <1>2, <1>3, SamePhaseSameWork
     DEF WakeInv, NoBuildIsForgotten, Readers
<1>6. QED
  BY <1>4, <1>5 DEF WakeInv

\* A restarted agent lists every build again.
LEMMA CrashWake ==
  ASSUME NEW a \in Agents
  PROVE  IInv /\ WakeInv /\ Crash(a) => WakeInv'
<1> SUFFICES ASSUME IInv, WakeInv, Crash(a) PROVE WakeInv'
  OBVIOUS
<1>1. /\ news' = news \cup ({a} \X Builds)
      /\ api' = api
      /\ \A r \in Readers : r # a => /\ queue'[r] = queue[r]
                                     /\ cache'[r] = cache[r]
      /\ \A x \in Agents : x # a => task'[x] = task[x]
  BY DEF Crash, IInv, TypeOK
<1>2. a # GC /\ GC \in Readers /\ a \in Readers
  BY ConstantsAssumption DEF Readers
<1>3. CacheIsCurrent'
  BY <1>1 DEF WakeInv, CacheIsCurrent
<1>4. FinishedIsWatched'
  BY <1>1, <1>2 DEF WakeInv, FinishedIsWatched
<1>5. NoBuildIsForgotten'
  BY <1>1, SamePhaseSameWork DEF WakeInv, NoBuildIsForgotten, Readers
<1>6. QED
  BY <1>3, <1>4, <1>5 DEF WakeInv

\* The collector drops a build only when it deletes it or when what it sees is
\* not a finished build, which then is not finished: a finished status always
\* has a completion time.
LEMMA CollectWake ==
  ASSUME NEW b \in Builds
  PROVE  IInv /\ WakeInv /\ Collect(b) => WakeInv'
<1> SUFFICES ASSUME IInv, WakeInv, Collect(b) PROVE WakeInv'
  OBVIOUS
<1>1. GC \in Readers /\ \A a \in Agents : a # GC
  BY ConstantsAssumption DEF Readers
<1>2. /\ queue' = [queue EXCEPT ![GC] = @ \ {b}]
      /\ UNCHANGED <<cache, task>>
  BY DEF Collect, GcSkip, GcDelete, GcTake
<1>3. CASE GcDelete(b)
  <2>1. /\ news' = news \cup (Readers \X {b})
        /\ \A y \in Builds : y # b => api'[y] = api[y]
    BY <1>3 DEF GcDelete, IInv, TypeOK
  <2>2. \A r \in Readers : \A y \in queue[r] : y # b => y \in queue'[r]
    BY <1>1, <1>2 DEF IInv, TypeOK
  <2>3. QED
    BY <1>2, <2>1, <2>2, NewsWake
<1>4. CASE GcSkip(b)
  <2>1. UNCHANGED <<api, news>> /\ ~Collectable(b, cache[GC][b])
    BY <1>4 DEF GcSkip
  <2>2. CacheIsCurrent'
    BY <1>2, <2>1 DEF WakeInv, CacheIsCurrent
  <2>3. NoBuildIsForgotten'
    BY <1>1, <1>2, <2>1, SamePhaseSameWork
       DEF WakeInv, NoBuildIsForgotten, IInv, TypeOK, Readers
  <2>4. ASSUME TTL[b] # Nil, api[b].phase \in Terminal
        PROVE  <<GC, b>> \in news
    <3>1. SUFFICES ASSUME <<GC, b>> \notin news PROVE FALSE
      OBVIOUS
    <3>2. cache[GC][b] = api[b]
      BY <1>1, <3>1 DEF WakeInv, CacheIsCurrent
    <3>3. api[b].done # Nil
      BY <2>4 DEF IInv, StatusConsistent, Consistent
    <3>4. QED
      BY <2>1, <2>4, <3>2, <3>3 DEF Collectable
  <2>5. FinishedIsWatched'
    BY <1>1, <1>2, <2>1, <2>4 DEF WakeInv, FinishedIsWatched, IInv, TypeOK
  <2>6. QED
    BY <2>2, <2>3, <2>5 DEF WakeInv
<1>5. QED
  BY <1>3, <1>4 DEF Collect

LEMMA NextWake == IInv /\ WakeInv /\ [Next]_vars => WakeInv'
<1> SUFFICES ASSUME IInv, WakeInv, [Next]_vars PROVE WakeInv'
  OBVIOUS
<1>1. CASE UNCHANGED vars
  BY <1>1 DEF vars, WakeInv, CacheIsCurrent, NoBuildIsForgotten, NothingLeft,
     MatchesArch, FinishedIsWatched
<1>2. CASE Next
  BY <1>2, TickWake, ObserveWake, ReconcileWake, RunCommandWake,
     UpdateStatusWake, UpdateFailsWake, CrashWake, CollectWake DEF Next
<1>3. QED
  BY <1>1, <1>2

LEMMA WakeInvariance == Spec => []WakeInv
BY InitWake, NextWake, Invariance, PTL DEF Spec

\* A reader to whom no news is due sees the API server's version of a build,
\* although every update goes through a cache that lags.
THEOREM CachesCatchUp == Spec => []CacheIsCurrent
<1>1. WakeInv => CacheIsCurrent
  BY DEF WakeInv
<1>2. QED
  BY <1>1, WakeInvariance, PTL

\* Whatever crashes, failed updates, conflicts and stale decisions there are, an
\* agent that drops a build has nothing left to do for it: no requeue of
\* Reconcile is missing.
THEOREM NoAgentForgets == Spec => []NoBuildIsForgotten
<1>1. WakeInv => NoBuildIsForgotten
  BY DEF WakeInv
<1>2. QED
  BY <1>1, WakeInvariance, PTL

\* The collector never drops a finished build with a TTL before it deletes it.
THEOREM CollectorWatches == Spec => []FinishedIsWatched
<1>1. WakeInv => FinishedIsWatched
  BY DEF WakeInv
<1>2. QED
  BY <1>1, WakeInvariance, PTL

-----------------------------------------------------------------------------
(* Builds at rest *)

LEMMA TickRest ==
  ASSUME IInv, Tick, NEW b \in Builds, AtRest(b)
  PROVE  AtRest(b)' /\ api'[b].phase = api[b].phase
<1>1. \A s \in Status : Aged(b, s).phase = s.phase BY DEF Aged, Status
<1>2. api[b] \in Status /\ \A a \in Agents : cache[a][b] \in Status
  BY DEF IInv, TypeOK, Readers
<1>3. /\ api'[b] = Aged(b, api[b]) /\ task' = task
      /\ \A a \in Agents : cache'[a][b] = Aged(b, cache[a][b])
  BY DEF Tick, Readers
<1>4. QED BY <1>1, <1>2, <1>3 DEF AtRest

LEMMA ObserveRest ==
  ASSUME IInv, NEW r \in Readers, NEW c \in Builds, Observe(r, c),
         NEW b \in Builds, AtRest(b)
  PROVE  AtRest(b)' /\ api' = api
<1>1. /\ api' = api /\ task' = task
      /\ cache' = [cache EXCEPT ![r] = [@ EXCEPT ![c] = api[c]]]
  BY DEF Observe
<1>2. cache \in [Readers -> [Builds -> Status]] BY DEF IInv, TypeOK
<1>3. \A a \in Readers : cache'[a][b] \in {cache[a][b], api[b]} BY <1>1, <1>2
<1>4. \A a \in Agents : a \in Readers BY DEF Readers
<1>5. QED BY <1>1, <1>3, <1>4 DEF AtRest

\* A reconcile of a build at rest has nothing to do.
LEMMA ReconcileRest ==
  ASSUME IInv, NEW a \in Agents, NEW c \in Builds, Reconcile(a, c),
         NEW b \in Builds, AtRest(b)
  PROVE  AtRest(b)' /\ api' = api
<1>1. api' = api /\ cache' = cache
  BY DEF Reconcile, NothingToDo, BeginInit, BeginClaim, BeginFail, BeginRun, Begin, Take
<1>2. task' = task \/ (c # b /\ task' = [task EXCEPT ![a] = c])
  <2>1. CASE NothingToDo(a, c) BY <2>1 DEF NothingToDo
  <2>2. CASE BeginInit(a, c) \/ BeginClaim(a, c) \/ BeginFail(a, c) \/ BeginRun(a, c)
    <3>1. cache[a][c].phase \in {"New", "Pending"} \cup Active
      BY <2>2 DEF BeginInit, BeginClaim, BeginFail, BeginRun
    <3>2. cache[a][b].phase \notin {"New", "Pending"} \cup Active
      BY DEF AtRest, Terminal, Active
    <3>3. task' = [task EXCEPT ![a] = c]
      BY <2>2 DEF BeginInit, BeginClaim, BeginFail, BeginRun, Begin
    <3>4. QED BY <3>1, <3>2, <3>3
  <2>3. QED BY <2>1, <2>2 DEF Reconcile
<1>3. task \in [Agents -> Builds \cup {Null}] BY DEF IInv, TypeOK
<1>4. QED BY <1>1, <1>2, <1>3 DEF AtRest

\* An update is one of the build the worker has in hand.
LEMMA UpdateRest ==
  ASSUME IInv, NEW a \in Agents, UpdateStatus(a) \/ UpdateFails(a),
         NEW b \in Builds, AtRest(b)
  PROVE  AtRest(b)' /\ api'[b] = api[b]
<1>1. api \in [Builds -> Status] /\ task \in [Agents -> Builds \cup {Null}] /\ b # Null
  BY ConstantsAssumption DEF IInv, TypeOK
<1>2. task[a] # b BY DEF AtRest
<1>3. CASE UpdateStatus(a)
  <2>1. PICK w \in Status, o \in Ops, again \in BOOLEAN : Updated(a, w, o, again)
    BY <1>3, UpdateWrites
  <2>2. /\ api' = [api EXCEPT ![task[a]] = w] /\ cache' = cache
        /\ task' = [task EXCEPT ![a] = IF o = "Idle" THEN Null ELSE @]
    BY <2>1 DEF Updated, Write, Return
  <2>3. QED BY <1>1, <1>2, <2>2 DEF AtRest
<1>4. CASE UpdateFails(a)
  <2>1. /\ api' = api /\ cache' = cache
        /\ \E o \in {"Fail", "Idle"} :
             task' = [task EXCEPT ![a] = IF o = "Idle" THEN Null ELSE @]
    BY <1>4 DEF UpdateFails, Return
  <2>2. QED BY <1>1, <2>1 DEF AtRest
<1>5. QED BY <1>3, <1>4

LEMMA CrashRest ==
  ASSUME IInv, NEW a \in Agents, Crash(a), NEW b \in Builds, AtRest(b)
  PROVE  AtRest(b)' /\ api' = api
<1>1. /\ api' = api /\ task' = [task EXCEPT ![a] = Null]
      /\ cache' = [cache EXCEPT ![a] = [c \in Builds |-> Absent]]
  BY DEF Crash
<1>2. /\ cache \in [Readers -> [Builds -> Status]] /\ b # Null
      /\ task \in [Agents -> Builds \cup {Null}] /\ Absent.phase = "Absent"
  BY ConstantsAssumption DEF IInv, TypeOK, Absent, Submitted
<1>3. \A x \in Agents : cache'[x][b] \in {cache[x][b], Absent} BY <1>1, <1>2 DEF Readers
<1>4. \A x \in Agents : task'[x] \in {task[x], Null} BY <1>1, <1>2
<1>5. QED BY <1>1, <1>2, <1>3, <1>4 DEF AtRest

LEMMA RestNext ==
  ASSUME IInv, [Next]_vars, NEW b \in Builds, AtRest(b)
  PROVE  AtRest(b)' /\ api'[b].phase \in {api[b].phase, "Absent"}
<1>1. CASE UNCHANGED vars BY <1>1 DEF vars, AtRest
<1>2. CASE Tick BY <1>2, TickRest
<1>3. ASSUME NEW r \in Readers, NEW c \in Builds, Observe(r, c)
      PROVE  AtRest(b)' /\ api'[b].phase \in {api[b].phase, "Absent"}
  BY <1>3, ObserveRest
<1>4. ASSUME NEW a \in Agents, NEW c \in Builds, Reconcile(a, c)
      PROVE  AtRest(b)' /\ api'[b].phase \in {api[b].phase, "Absent"}
  BY <1>4, ReconcileRest
<1>5. ASSUME NEW a \in Agents, RunCommand(a)
      PROVE  AtRest(b)' /\ api'[b].phase \in {api[b].phase, "Absent"}
  BY <1>5 DEF RunCommand, Prepare, ExecuteBuild, ExecutePublish, Goto, AtRest
<1>6. ASSUME NEW a \in Agents, UpdateStatus(a) \/ UpdateFails(a)
      PROVE  AtRest(b)' /\ api'[b].phase \in {api[b].phase, "Absent"}
  BY <1>6, UpdateRest
<1>7. ASSUME NEW a \in Agents, Crash(a)
      PROVE  AtRest(b)' /\ api'[b].phase \in {api[b].phase, "Absent"}
  BY <1>7, CrashRest
<1>8. ASSUME NEW c \in Builds, Collect(c)
      PROVE  AtRest(b)' /\ api'[b].phase \in {api[b].phase, "Absent"}
  <2>1. cache' = cache /\ task' = task BY <1>8 DEF Collect, GcSkip, GcDelete, GcTake
  <2>2. api' = api \/ api' = [api EXCEPT ![c] = Absent]
    BY <1>8 DEF Collect, GcSkip, GcDelete
  <2>3. api \in [Builds -> Status] /\ Absent.phase = "Absent"
    BY DEF IInv, TypeOK, Absent, Submitted
  <2>4. QED BY <2>1, <2>2, <2>3 DEF AtRest
<1>9. QED BY <1>1, <1>2, <1>3, <1>4, <1>5, <1>6, <1>7, <1>8 DEF Next

\* The end of a build is final once every worker knows of it: what takes a build out
\* of a terminal phase is a reconcile that began before, never a crash or a restart.
THEOREM KnownEndsAreFinal == Spec => RestIsFinal
<1>1. IInv /\ [Next]_vars =>
        [\A b \in Builds : AtRest(b) => StaysAtRest(b)]_vars
  BY RestNext DEF StaysAtRest
<1>2. QED BY <1>1, Invariance, PTL DEF Spec, RestIsFinal

-----------------------------------------------------------------------------
(* The retention promise *)

\* Every step of the operator is a step of Retention or a stutter.
LEMMA PromiseStep == IInv /\ [Next]_vars => [Promise!Next]_(Promise!vars)
<1> SUFFICES ASSUME IInv, [Next]_vars PROVE [Promise!Next]_(Promise!vars)
  OBVIOUS
<1> DEFINE gone == [b \in Builds |-> api[b].phase = "Absent"]
<1> USE DEF Promise!vars
<1>1. CASE /\ firstDone' = firstDone
           /\ \A b \in Builds :
                (api'[b].phase = "Absent") <=> (api[b].phase = "Absent")
  BY <1>1
<1>2. CASE Tick
  <2>1. firstDone' = [b \in Builds |-> Promise!Elapsed(b)]
    BY <1>2 DEF Tick, Older, DoneCap, Promise!Elapsed, Nil, Promise!Nil
  <2>2. \A b \in Builds : api'[b].phase = api[b].phase
    BY <1>2, AgedStatus DEF Tick, IInv, TypeOK
  <2>3. gone' = gone
    BY <2>2
  <2>4. QED
    BY <2>1, <2>3 DEF Promise!Next, Promise!Tick
<1>3. ASSUME NEW a \in Agents, NEW b \in Builds, NEW s \in Status,
             Write(a, b, s), s.phase # "Absent"
      PROVE  [Promise!Next]_(Promise!vars)
  <2>1. \A x \in Builds :
          (api'[x].phase = "Absent") <=> (api[x].phase = "Absent")
    BY <1>3 DEF Write, IInv, TypeOK
  <2>2. gone' = gone
    BY <2>1
  <2>3. CASE firstDone[b] = Nil /\ s.phase \in Terminal
    <3>1. firstDone' = [firstDone EXCEPT ![b] = 0]
      BY <1>3, <2>3 DEF Write, IInv, TypeOK
    <3>2. ~gone[b]
      BY <1>3 DEF Write
    <3>3. Promise!Finish(b)
      BY <2>2, <2>3, <3>1, <3>2 DEF Promise!Finish, Nil, Promise!Nil
    <3>4. QED
      BY <3>3 DEF Promise!Next
  <2>4. CASE ~(firstDone[b] = Nil /\ s.phase \in Terminal)
    BY <1>3, <2>1, <2>4, <1>1 DEF Write, IInv, TypeOK
  <2>5. QED
    BY <2>3, <2>4
<1>4. ASSUME NEW b \in Builds, GcDelete(b)
      PROVE  [Promise!Next]_(Promise!vars)
  <2> DEFINE c == cache[GC][b]
  <2>1. c.phase \in Terminal /\ c.done > TTL[b] /\ TTL[b] # Nil
    BY <1>4 DEF GcDelete, Collectable
  <2>2. c \in Status /\ firstDone[b] \in Nat \cup {Nil} /\ DoneSince(b, c)
    BY <1>4 DEF IInv, TypeOK, Readers, DoneIsRemembered
  <2>3. c.done \in Int /\ firstDone[b] \in Int /\ TTL[b] \in Int
    BY <2>2, ConstantsAssumption DEF Status, Nil
  <2> HIDE DEF c
  <2>4. firstDone[b] > TTL[b]
    BY <2>1, <2>2, <2>3 DEF DoneSince
  <2>5. Absent.phase = "Absent"
    BY DEF Absent, Submitted
  <2> HIDE DEF Absent
  <2>6. /\ api' = [api EXCEPT ![b] = Absent]
        /\ api \in [Builds -> Status]
        /\ UNCHANGED firstDone
    BY <1>4 DEF GcDelete, GcTake, IInv, TypeOK
  <2>7. gone' = [gone EXCEPT ![b] = TRUE]
    <3>1. \A x \in Builds : (api'[x].phase = "Absent")
                              = (x = b \/ api[x].phase = "Absent")
      BY <2>5, <2>6
    <3>2. QED
      BY <3>1, Zenon
  <2>8. Promise!Delete(b)
    BY <2>1, <2>4, <2>6, <2>7, Zenon DEF Promise!Delete, Nil, Promise!Nil
  <2>9. QED
    BY <2>8 DEF Promise!Next
<1>5. CASE UNCHANGED <<api, firstDone>>
  BY <1>5
<1>6. ASSUME NEW a \in Agents, UpdateStatus(a)
      PROVE  [Promise!Next]_(Promise!vars)
  <2>1. PICK w \in Status, o \in Ops, again \in BOOLEAN :
          Updated(a, w, o, again)
    BY <1>6, UpdateWrites
  <2>2. task[a] \in Builds
    BY <1>6 DEF UpdateStatus, IInv, TypeOK
  <2>3. QED
    BY <1>3, <2>1, <2>2 DEF Updated
<1>7. ASSUME NEW a \in Agents,
             \/ \E b \in Builds : Reconcile(a, b)
             \/ RunCommand(a) \/ UpdateFails(a) \/ Crash(a)
      PROVE  UNCHANGED <<api, firstDone>>
  BY <1>7 DEF Reconcile, NothingToDo, BeginInit, BeginClaim, BeginFail,
     BeginRun, Begin, Take, RunCommand, Prepare, ExecuteBuild,
     ExecutePublish, Goto, UpdateFails, Crash
<1>8. ASSUME NEW b \in Builds,
             GcSkip(b) \/ \E r \in Readers : Observe(r, b)
      PROVE  UNCHANGED <<api, firstDone>>
  BY <1>8 DEF GcSkip, GcTake, Observe
<1>9. CASE UNCHANGED vars
  BY <1>5, <1>9 DEF vars
<1> HIDE DEF Promise!vars
<1>10. QED
  BY <1>2, <1>4, <1>5, <1>6, <1>7, <1>8, <1>9 DEF Next, Collect

LEMMA PromiseInit == Init => Promise!Init
<1> SUFFICES ASSUME Init PROVE Promise!Init
  OBVIOUS
<1>1. \A b \in Builds : api[b].phase # "Absent"
  BY DEF Init, Submitted
<1>2. [b \in Builds |-> api[b].phase = "Absent"] = [b \in Builds |-> FALSE]
  BY <1>1
<1>3. QED
  BY <1>2 DEF Init, Promise!Init, Nil, Promise!Nil

\* The operator implements Retention: whatever the collector's stale cache and
\* the racing agents do, a build disappears only when its TTL has run out since
\* it first finished, and never if it has no TTL.
THEOREM RetentionHolds == Spec => Retained
BY PromiseInit, PromiseStep, Invariance, PTL
   DEF Spec, Retained, Promise!Spec

=============================================================================
