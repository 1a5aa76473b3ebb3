--------------------------- MODULE DevBuildProofs ---------------------------
(***************************************************************************)
(* Proofs about DevBuild for any builds, replicas and numbers of platforms.  *)
(***************************************************************************)
EXTENDS DevBuild, TLAPS

\* What a row without a request, and the request of a row, say of it.
RequestTrue(b) ==
  /\ ~row[b].there =>
       /\ caller[b] = "none" /\ sent[b] = {} /\ b \notin touched
       /\ row[b].status = "PENDING" /\ row[b].ids = {}
       /\ \A r \in Replicas : ~snap[r][b].there
  /\ caller[b] = "none" => ~row[b].there
  /\ sent[b] # {} \/ caller[b] = "storing" => OnTekton(b)
  /\ caller[b] \in {"queued", "watching"} => origin[b] = "jenkins" /\ job[b] # "none"
  /\ sent[b] # got[b] => faults > 0

\* Event ids come from the handler, and a cycle holds only rows with ids.
IdsTrue(b) ==
  /\ row[b].ids \subseteq got[b]
  /\ \A r \in Replicas : /\ snap[r][b].ids \subseteq got[b]
                         /\ snap[r][b].there => snap[r][b].ids # {}

\* Runs come from events, and a finished run that a replica was told is finished.
RunsTrue(b) ==
  \A e \in EventsOf(b) :
    /\ run[b][e] # "none" => e \in sent[b]
    /\ \A r \in Replicas :
         seen[r][b][e] \in {"success", "failure"} => run[b][e] = seen[r][b][e]

\* The ids of a row are stored once, before any cycle reads the row.
KeptIds(b) ==
  b \notin touched =>
    /\ row[b].ids # {} => caller[b] = "answered" /\ row[b].ids = got[b]
    /\ \A r \in Replicas : snap[r][b].there => snap[r][b].ids = row[b].ids
    /\ caller[b] = "answered" /\ OnTekton(b) =>
         row[b].ids = got[b] \/ (faults > 0 /\ origin[b] = "rerun")

\* The row of a job that is not known to have ended has no finished status.
JobTrue(b) ==
  /\ b \notin touched /\ ~OnTekton(b)
  /\ caller[b] \in {"none", "sending", "queued", "watching"}
  => row[b].status \notin terminalStatuses

EarnedTrue(b) ==
  b \notin touched =>
    IF ~OnTekton(b)
      THEN row[b].status \in terminalStatuses =>
             JobIsTold(b) \/ (row[b].status = "ERROR" /\ b \in guessed)
      ELSE /\ row[b].status = "SUCCESS" =>
                \A e \in EventsOf(b) \ unseen[b] : run[b][e] = "success"
           /\ row[b].status = "FAILURE" =>
                \E e \in EventsOf(b) : run[b][e] = "failure"

BuildTrue(b) == /\ RequestTrue(b) /\ IdsTrue(b) /\ RunsTrue(b)
                /\ KeptIds(b) /\ JobTrue(b) /\ EarnedTrue(b)

-----------------------------------------------------------------------------
(* TypeOK in parts, with the domains of the functions. *)

Rows == [status : Statuses, ids : SUBSET Nat, old : BOOLEAN, there : BOOLEAN]

RowsOK ==
  /\ row \in [Builds -> Rows]
  /\ \A b \in Builds : row[b].ids \subseteq EventsOf(b)
CallsOK ==
  /\ caller \in [Builds -> Callers]
  /\ origin \in [Builds -> Origins]
  /\ home \in [Builds -> Replicas \cup {Null}]
  /\ DOMAIN sent = Builds /\ DOMAIN got = Builds
  /\ \A b \in Builds : got[b] \subseteq sent[b] /\ sent[b] \subseteq EventsOf(b)
OutsideOK ==
  /\ DOMAIN run = Builds
  /\ \A b \in Builds : run[b] \in [EventsOf(b) -> RunStates]
  /\ job \in [Builds -> JobStates]
CyclesOK ==
  /\ snap \in [Replicas -> [Builds -> Rows]]
  /\ \A r \in Replicas, b \in Builds : snap[r][b].ids \subseteq EventsOf(b)
  /\ DOMAIN todo = Replicas
  /\ \A r \in Replicas : todo[r] \subseteq AllEvents
  /\ DOMAIN seen = Replicas
  /\ \A r \in Replicas : DOMAIN seen[r] = Builds
  /\ \A r \in Replicas, b \in Builds : seen[r][b] \in [EventsOf(b) -> RunStates]
PastOK ==
  /\ touched \subseteq Builds /\ guessed \subseteq Builds
  /\ DOMAIN unseen = Builds
  /\ \A b \in Builds : unseen[b] \subseteq EventsOf(b)
BoundsOK == updates \in 0..MaxUpdates /\ faults \in 0..MaxFaults

Types == RowsOK /\ CallsOK /\ OutsideOK /\ CyclesOK /\ PastOK /\ BoundsOK

IInv == Types /\ \A b \in Builds : BuildTrue(b)

LEMMA EventsAreNat == \A b \in Builds : EventsOf(b) \subseteq Nat
BY DevBuildAssumption DEF DevBuildAssumption, EventsOf

LEMMA NoRowOK == NoRow \in Rows /\ NoRow.ids = {} /\ NoRow.status = "PENDING" /\ NoRow.there = FALSE
BY DEF NoRow, Rows, Statuses

LEMMA PairsAreEvents ==
  /\ \A q \in AllEvents : q[1] \in Builds /\ q[2] \in EventsOf(q[1])
  /\ \A b \in Builds : \A e \in EventsOf(b) : <<b, e>> \in AllEvents
BY DEF AllEvents

LEMMA TypesGiveTypeOK == Types => TypeOK
<1> SUFFICES ASSUME Types PROVE TypeOK OBVIOUS
<1>1. /\ \A b \in Builds : RowOK(b, row[b])
      /\ \A r \in Replicas, b \in Builds : RowOK(b, snap[r][b])
  BY DEF Types, RowsOK, CyclesOK, Rows, RowOK
<1>2. QED
  BY <1>1 DEF Types, CallsOK, OutsideOK, CyclesOK, PastOK, BoundsOK, TypeOK

\* Builds do not meet: a step keeps what is true of a build that it leaves alone.
LEMMA Apart ==
  ASSUME BoundsOK, BoundsOK', faults' >= faults,
         NEW b \in Builds, BuildTrue(b),
         row'[b] = row[b], caller'[b] = caller[b], origin'[b] = origin[b],
         sent'[b] = sent[b], got'[b] = got[b], run'[b] = run[b], job'[b] = job[b],
         unseen'[b] = unseen[b], b \in touched' <=> b \in touched,
         b \in guessed' <=> b \in guessed,
         \A r \in Replicas : snap'[r][b] = snap[r][b] /\ seen'[r][b] = seen[r][b]
  PROVE  BuildTrue(b)'
<1> USE DevBuildAssumption DEF DevBuildAssumption
<1>1. faults \in Nat /\ faults' \in Nat BY DEF BoundsOK
<1>2. RequestTrue(b)' BY <1>1 DEF BuildTrue, RequestTrue, OnTekton
<1>3. IdsTrue(b)' BY DEF BuildTrue, IdsTrue
<1>4. RunsTrue(b)' BY DEF BuildTrue, RunsTrue
<1>5. KeptIds(b)' BY <1>1 DEF BuildTrue, KeptIds, OnTekton
<1>6. JobTrue(b)' BY DEF BuildTrue, JobTrue, OnTekton
<1>7. EarnedTrue(b)' BY DEF BuildTrue, EarnedTrue, JobIsTold, statusOf, OnTekton
<1>8. QED BY <1>2, <1>3, <1>4, <1>5, <1>6, <1>7 DEF BuildTrue

LEMMA InitIInv == Init => IInv
<1> SUFFICES ASSUME Init PROVE IInv OBVIOUS
<1> USE DevBuildAssumption DEF DevBuildAssumption
<1>1. NoRow \in Rows /\ NoRow.ids = {} /\ NoRow.status = "PENDING" /\ NoRow.there = FALSE
  BY NoRowOK
<1>2. Types
  <2>1. RowsOK BY <1>1 DEF Init, RowsOK
  <2>2. CallsOK BY DEF Init, CallsOK, Callers, Origins
  <2>3. OutsideOK BY DEF Init, OutsideOK, Unknown, RunStates, JobStates, JobResults
  <2>4. CyclesOK BY <1>1 DEF Init, CyclesOK, Unknown, RunStates
  <2>5. PastOK /\ BoundsOK BY DEF Init, PastOK, BoundsOK
  <2>6. QED BY <2>1, <2>2, <2>3, <2>4, <2>5 DEF Types
<1>3. ASSUME NEW b \in Builds PROVE BuildTrue(b)
  <2>1. RequestTrue(b) BY <1>1 DEF Init, RequestTrue
  <2>2. IdsTrue(b) BY <1>1 DEF Init, IdsTrue
  <2>3. RunsTrue(b) BY DEF Init, RunsTrue, Unknown
  <2>4. KeptIds(b) BY <1>1 DEF Init, KeptIds
  <2>5. JobTrue(b) BY <1>1 DEF Init, JobTrue, terminalStatuses
  <2>6. EarnedTrue(b) BY <1>1 DEF Init, EarnedTrue, terminalStatuses
  <2>7. QED BY <2>1, <2>2, <2>3, <2>4, <2>5, <2>6 DEF BuildTrue
<1>4. QED BY <1>2, <1>3 DEF IInv

-----------------------------------------------------------------------------
(* Requests *)

LEMMA InsertIInv ==
  ASSUME IInv, NEW r \in Replicas, NEW b \in Builds, NEW o \in Origins, Insert(r, b, o)
  PROVE  IInv'
<1> USE DevBuildAssumption DEF DevBuildAssumption
<1>1. /\ RowsOK /\ CallsOK /\ OutsideOK /\ CyclesOK /\ PastOK /\ BoundsOK
      /\ \A x \in Builds : BuildTrue(x)
  BY DEF IInv, Types
<1>2. UNCHANGED <<sent, got, run, job, snap, todo, seen, touched, guessed, unseen,
                  updates, faults>>
  BY DEF Insert, Call, NewRow, NoRow, table, request, outside, cycle, bounds
<1>4. Types'
  <2>1. OutsideOK' /\ CyclesOK' /\ PastOK' /\ BoundsOK'
    BY <1>1, <1>2 DEF OutsideOK, CyclesOK, PastOK, BoundsOK
  <2>2. RowsOK'
    BY <1>1, <1>2, EventsAreNat
    DEF RowsOK, Rows, Statuses, Insert, Call, NewRow, NoRow
  <2>3. CallsOK'
    BY <1>1, <1>2
    DEF CallsOK, Callers, Origins, Insert, Call, NewRow, NoRow
  <2>4. QED BY <2>1, <2>2, <2>3 DEF Types
<1>5. faults' >= faults /\ BoundsOK'
  BY <1>1, <1>2, <1>4 DEF Types, BoundsOK
<1>6. ASSUME NEW x \in Builds, x # b PROVE BuildTrue(x)'
  <2>1. BuildTrue(x) BY <1>1
  <2>2. QED BY <1>1, <1>2, <1>5, <1>6, <2>1, Apart
      DEF RowsOK, CallsOK, OutsideOK, CyclesOK, PastOK, Insert, Call, NewRow, NoRow
<1>7. BuildTrue(b)'
  <2>a. /\ RowsOK /\ CallsOK /\ OutsideOK /\ CyclesOK /\ PastOK /\ BoundsOK
        /\ RequestTrue(b) /\ IdsTrue(b) /\ RunsTrue(b) /\ KeptIds(b) /\ JobTrue(b)
        /\ EarnedTrue(b)
    BY <1>1 DEF BuildTrue
  <2> USE <2>a, <1>2, <1>5 DEF RowsOK, CallsOK, OutsideOK, CyclesOK, PastOK,
         BoundsOK, Rows, OnTekton, terminalStatuses
  <2>1. RequestTrue(b)'
    BY DEF RequestTrue, Insert, Call, NewRow, NoRow
  <2>2. IdsTrue(b)'
    BY DEF IdsTrue, RequestTrue, Insert, Call, NewRow, NoRow
  <2>3. RunsTrue(b)'
    BY DEF RunsTrue, RequestTrue, Insert, Call, NewRow, NoRow
  <2>4. KeptIds(b)'
    BY DEF KeptIds, RequestTrue, Insert, Call, NewRow, NoRow
  <2>5. JobTrue(b)'
    BY DEF JobTrue, RequestTrue, Insert, Call, NewRow, NoRow
  <2>6. EarnedTrue(b)'
    BY DEF EarnedTrue, JobIsTold, statusOf, RequestTrue, Insert, Call, NewRow, NoRow
  <2>7. QED BY <2>1, <2>2, <2>3, <2>4, <2>5, <2>6 DEF BuildTrue
<1>8. QED BY <1>4, <1>6, <1>7 DEF IInv

LEMMA SendEventIInv ==
  ASSUME IInv, NEW b \in Builds, SendEvent(b)
  PROVE  IInv'
<1> USE DevBuildAssumption DEF DevBuildAssumption
<1>1. /\ RowsOK /\ CallsOK /\ OutsideOK /\ CyclesOK /\ PastOK /\ BoundsOK
      /\ \A x \in Builds : BuildTrue(x)
  BY DEF IInv, Types
<1>2. UNCHANGED <<row, origin, home, run, job, snap, todo, seen, touched, guessed,
                  unseen>>
  BY DEF SendEvent, Call, Fault, NoFault, bounds, table, request, outside, cycle
<1>3. /\ caller[b] = "sending" /\ OnTekton(b)
      /\ caller' = [caller EXCEPT ![b] = caller'[b]]
      /\ caller'[b] \in {"sending", "answered", "storing", "refused"}
      /\ caller'[b] = "answered" => got'[b] = {}
      /\ DOMAIN sent' = Builds /\ \A x \in Builds : x # b => sent'[x] = sent[x]
      /\ DOMAIN got' = Builds /\ \A x \in Builds : x # b => got'[x] = got[x]
      /\ sent[b] \subseteq sent'[b] /\ sent'[b] \subseteq EventsOf(b)
      /\ got[b] \subseteq got'[b] /\ got'[b] \subseteq sent'[b]
      /\ (sent[b] # got[b] => faults > 0) => (sent'[b] # got'[b] => faults' > 0)
  <2>1. caller[b] = "sending" /\ OnTekton(b) BY DEF SendEvent
  <2>2. PICK e \in EventsOf(b) :
          \/ /\ sent' = [sent EXCEPT ![b] = @ \cup {e}]
             /\ \/ got' = [got EXCEPT ![b] = @ \cup {e}] /\ NoFault
                \/ UNCHANGED got /\ Fault
             /\ Call(b, "sending", IF sent'[b] # EventsOf(b) THEN "sending"
                                   ELSE IF got'[b] = {} THEN "answered" ELSE "storing")
          \/ /\ sent' \in {sent, [sent EXCEPT ![b] = @ \cup {e}]}
             /\ Call(b, "sending", "refused")
             /\ UNCHANGED got /\ Fault
    BY DEF SendEvent
  <2>3. faults \in Nat BY <1>1 DEF BoundsOK
  <2>4. CASE /\ sent' = [sent EXCEPT ![b] = @ \cup {e}]
             /\ got' = [got EXCEPT ![b] = @ \cup {e}] /\ NoFault
             /\ Call(b, "sending", IF sent'[b] # EventsOf(b) THEN "sending"
                                   ELSE IF got'[b] = {} THEN "answered" ELSE "storing")
    BY <1>1, <2>1, <2>3, <2>4 DEF CallsOK, Call, NoFault, bounds
  <2>5. CASE /\ sent' = [sent EXCEPT ![b] = @ \cup {e}]
             /\ UNCHANGED got /\ Fault
             /\ Call(b, "sending", IF sent'[b] # EventsOf(b) THEN "sending"
                                   ELSE IF got'[b] = {} THEN "answered" ELSE "storing")
    BY <1>1, <2>1, <2>3, <2>5 DEF CallsOK, Call, Fault
  <2>6. CASE /\ sent' \in {sent, [sent EXCEPT ![b] = @ \cup {e}]}
             /\ Call(b, "sending", "refused")
             /\ UNCHANGED got /\ Fault
    BY <1>1, <2>1, <2>3, <2>6 DEF CallsOK, Call, Fault
  <2>7. QED BY <2>2, <2>4, <2>5, <2>6
<1>b. NoFault \/ Fault
  BY DEF SendEvent, Call, NoFault
<1>4. Types'
  <2>1. RowsOK' /\ OutsideOK' /\ CyclesOK' /\ PastOK'
    BY <1>1, <1>2 DEF RowsOK, OutsideOK, CyclesOK, PastOK
  <2>2. CallsOK'
    BY <1>1, <1>2, <1>3
    DEF CallsOK, Callers, Origins, Fault, NoFault, bounds
  <2>3. BoundsOK'
    BY <1>1, <1>2, <1>b DEF BoundsOK, Fault, NoFault, bounds
  <2>4. QED BY <2>1, <2>2, <2>3 DEF Types
<1>5. faults' >= faults /\ BoundsOK'
  BY <1>1, <1>2, <1>4, <1>b DEF Types, BoundsOK, Fault, NoFault, bounds
<1>6. ASSUME NEW x \in Builds, x # b PROVE BuildTrue(x)'
  <2>1. BuildTrue(x) BY <1>1
  <2>2. QED BY <1>1, <1>2, <1>5, <1>6, <2>1, Apart, <1>3
      DEF RowsOK, CallsOK, OutsideOK, CyclesOK, PastOK, Fault, NoFault, bounds
<1>7. BuildTrue(b)'
  <2>a. /\ RowsOK /\ CallsOK /\ OutsideOK /\ CyclesOK /\ PastOK /\ BoundsOK
        /\ RequestTrue(b) /\ IdsTrue(b) /\ RunsTrue(b) /\ KeptIds(b) /\ JobTrue(b)
        /\ EarnedTrue(b)
    BY <1>1 DEF BuildTrue
  <2> USE <2>a, <1>2, <1>3, <1>5 DEF RowsOK, CallsOK, OutsideOK, CyclesOK, PastOK,
         BoundsOK, OnTekton, terminalStatuses
  <2>1. RequestTrue(b)'
    BY DEF RequestTrue, Fault, NoFault, bounds
  <2>2. IdsTrue(b)'
    BY DEF IdsTrue, RequestTrue, Fault, NoFault, bounds
  <2>3. RunsTrue(b)'
    BY DEF RunsTrue, RequestTrue, Fault, NoFault, bounds
  <2>4. KeptIds(b)'
    BY DEF KeptIds, RequestTrue, Fault, NoFault, bounds
  <2>5. JobTrue(b)'
    BY DEF JobTrue, RequestTrue, Fault, NoFault, bounds
  <2>6. EarnedTrue(b)'
    BY DEF EarnedTrue, JobIsTold, statusOf, RequestTrue, Fault, NoFault, bounds
  <2>7. QED BY <2>1, <2>2, <2>3, <2>4, <2>5, <2>6 DEF BuildTrue
<1>8. QED BY <1>4, <1>6, <1>7 DEF IInv

LEMMA StoreEventIdsIInv ==
  ASSUME IInv, NEW b \in Builds, StoreEventIds(b)
  PROVE  IInv'
<1> USE DevBuildAssumption DEF DevBuildAssumption
<1>1. /\ RowsOK /\ CallsOK /\ OutsideOK /\ CyclesOK /\ PastOK /\ BoundsOK
      /\ \A x \in Builds : BuildTrue(x)
  BY DEF IInv, Types
<1>2. UNCHANGED <<origin, home, sent, got, run, job, snap, todo, seen, touched,
                  guessed, unseen>>
  BY DEF StoreEventIds, Call, Fault, NoFault, bounds, table, request, outside, cycle
<1>3. /\ caller[b] = "storing" /\ got[b] \subseteq EventsOf(b) /\ row'[b] \in Rows
      /\ caller' = [caller EXCEPT ![b] = caller'[b]] /\ caller'[b] \in {"answered", "broken"}
      /\ DOMAIN row' = Builds /\ \A x \in Builds : x # b => row'[x] = row[x]
      /\ row' = [x \in Builds |-> row'[x]]
      /\ row'[b].status = row[b].status /\ row'[b].there = row[b].there
      /\ \/ row'[b].ids = got[b] /\ caller'[b] = "answered"
         \/ row'[b].ids = row[b].ids /\ faults' > 0 /\ (caller'[b] = "answered" => origin[b] = "rerun")
  <2>1. caller[b] = "storing" BY DEF StoreEventIds, Call
  <2>2. got[b] \subseteq EventsOf(b) /\ got[b] \in SUBSET Nat
    BY <1>1, EventsAreNat DEF CallsOK
  <2>3. row[b] \in Rows /\ faults \in Nat BY <1>1 DEF RowsOK, BoundsOK
  <2>4. CASE Call(b, "storing", "answered") /\ row' = [row EXCEPT ![b].ids = got[b]]
    <3>1. /\ row'[b] = [row[b] EXCEPT !.ids = got[b]] /\ row' = [x \in Builds |-> row'[x]]
          /\ DOMAIN row' = Builds /\ \A x \in Builds : x # b => row'[x] = row[x]
      BY <1>1, <2>4 DEF RowsOK
    <3>2. /\ row'[b] \in Rows /\ row'[b].ids = got[b]
          /\ row'[b].status = row[b].status /\ row'[b].there = row[b].there
      BY <2>2, <2>3, <3>1 DEF Rows
    <3>3. caller' = [caller EXCEPT ![b] = "answered"] BY <2>4 DEF Call
    <3>4. QED BY <1>1, <2>1, <2>2, <3>1, <3>2, <3>3 DEF CallsOK
  <2>5. CASE /\ Call(b, "storing", IF origin[b] = "rerun" THEN "answered" ELSE "broken")
             /\ UNCHANGED row /\ Fault
    BY <1>1, <2>1, <2>2, <2>3, <2>5 DEF RowsOK, Call, Fault, CallsOK
  <2>6. QED BY <2>4, <2>5 DEF StoreEventIds
<1>b. NoFault \/ Fault
  BY DEF StoreEventIds, Call, NoFault
<1>4. Types'
  <2>1. OutsideOK' /\ CyclesOK' /\ PastOK'
    BY <1>1, <1>2 DEF OutsideOK, CyclesOK, PastOK
  <2>2. RowsOK'
    BY <1>1, <1>2, <1>3, EventsAreNat
    DEF RowsOK, CyclesOK, Fault, NoFault, bounds
  <2>3. CallsOK'
    BY <1>1, <1>2, <1>3
    DEF CallsOK, Callers, Origins, Fault, NoFault, bounds
  <2>4. BoundsOK'
    BY <1>1, <1>2, <1>b DEF BoundsOK, Fault, NoFault, bounds
  <2>5. QED BY <2>1, <2>2, <2>3, <2>4 DEF Types
<1>5. faults' >= faults /\ BoundsOK'
  BY <1>1, <1>2, <1>4, <1>b DEF Types, BoundsOK, Fault, NoFault, bounds
<1>6. ASSUME NEW x \in Builds, x # b PROVE BuildTrue(x)'
  <2>1. BuildTrue(x) BY <1>1
  <2>2. QED BY <1>1, <1>2, <1>5, <1>6, <2>1, Apart, <1>3
      DEF RowsOK, CallsOK, OutsideOK, CyclesOK, PastOK, Fault, NoFault, bounds
<1>7. BuildTrue(b)'
  <2>a. /\ RowsOK /\ CallsOK /\ OutsideOK /\ CyclesOK /\ PastOK /\ BoundsOK
        /\ RequestTrue(b) /\ IdsTrue(b) /\ RunsTrue(b) /\ KeptIds(b) /\ JobTrue(b)
        /\ EarnedTrue(b)
    BY <1>1 DEF BuildTrue
  <2> USE <2>a, <1>2, <1>3, <1>5 DEF RowsOK, CallsOK, OutsideOK, CyclesOK, PastOK,
         BoundsOK, OnTekton, terminalStatuses
  <2>1. RequestTrue(b)'
    BY DEF RequestTrue, Fault, NoFault, bounds
  <2>2. IdsTrue(b)'
    BY DEF IdsTrue, RequestTrue, Fault, NoFault, bounds
  <2>3. RunsTrue(b)'
    BY DEF RunsTrue, RequestTrue, Fault, NoFault, bounds
  <2>4. KeptIds(b)'
    BY DEF KeptIds, RequestTrue, IdsTrue, Fault, NoFault, bounds
  <2>5. JobTrue(b)'
    BY DEF JobTrue, RequestTrue, Fault, NoFault, bounds
  <2>6. EarnedTrue(b)'
    BY DEF EarnedTrue, JobIsTold, statusOf, RequestTrue, Fault, NoFault, bounds
  <2>7. QED BY <2>1, <2>2, <2>3, <2>4, <2>5, <2>6 DEF BuildTrue
<1>8. QED BY <1>4, <1>6, <1>7 DEF IInv

LEMMA TriggerJenkinsIInv ==
  ASSUME IInv, NEW b \in Builds, TriggerJenkins(b)
  PROVE  IInv'
<1> USE DevBuildAssumption DEF DevBuildAssumption
<1>1. /\ RowsOK /\ CallsOK /\ OutsideOK /\ CyclesOK /\ PastOK /\ BoundsOK
      /\ \A x \in Builds : BuildTrue(x)
  BY DEF IInv, Types
<1>2. UNCHANGED <<row, origin, home, sent, got, run, snap, todo, seen, touched,
                  guessed, unseen>>
  BY DEF TriggerJenkins, Call, Fault, NoFault, bounds, table, request, outside, cycle
<1>b. NoFault \/ Fault
  BY DEF TriggerJenkins, Call, NoFault
<1>4. Types'
  <2>1. RowsOK' /\ CyclesOK' /\ PastOK'
    BY <1>1, <1>2 DEF RowsOK, CyclesOK, PastOK
  <2>2. CallsOK'
    BY <1>1, <1>2
    DEF CallsOK, Callers, Origins, TriggerJenkins, Call, Fault, NoFault, bounds
  <2>3. OutsideOK'
    BY <1>1, <1>2
    DEF OutsideOK, RunStates, JobStates, JobResults, TriggerJenkins, Call, Fault, NoFault, bounds
  <2>4. BoundsOK'
    BY <1>1, <1>2, <1>b DEF BoundsOK, Fault, NoFault, bounds
  <2>5. QED BY <2>1, <2>2, <2>3, <2>4 DEF Types
<1>5. faults' >= faults /\ BoundsOK'
  BY <1>1, <1>2, <1>4, <1>b DEF Types, BoundsOK, Fault, NoFault, bounds
<1>6. ASSUME NEW x \in Builds, x # b PROVE BuildTrue(x)'
  <2>1. BuildTrue(x) BY <1>1
  <2>2. QED BY <1>1, <1>2, <1>5, <1>6, <2>1, Apart
      DEF RowsOK, CallsOK, OutsideOK, CyclesOK, PastOK, TriggerJenkins, Call, Fault,
          NoFault, bounds
<1>7. BuildTrue(b)'
  <2>a. /\ RowsOK /\ CallsOK /\ OutsideOK /\ CyclesOK /\ PastOK /\ BoundsOK
        /\ RequestTrue(b) /\ IdsTrue(b) /\ RunsTrue(b) /\ KeptIds(b) /\ JobTrue(b)
        /\ EarnedTrue(b)
    BY <1>1 DEF BuildTrue
  <2> USE <2>a, <1>2, <1>5 DEF RowsOK, CallsOK, OutsideOK, CyclesOK, PastOK,
         BoundsOK, Rows, OnTekton, terminalStatuses
  <2>1. RequestTrue(b)'
    BY DEF RequestTrue, TriggerJenkins, Call, Fault, NoFault, bounds
  <2>2. IdsTrue(b)'
    BY DEF IdsTrue, RequestTrue, TriggerJenkins, Call, Fault, NoFault, bounds
  <2>3. RunsTrue(b)'
    BY DEF RunsTrue, RequestTrue, TriggerJenkins, Call, Fault, NoFault, bounds
  <2>4. KeptIds(b)'
    BY DEF KeptIds, RequestTrue, TriggerJenkins, Call, Fault, NoFault, bounds
  <2>5. JobTrue(b)'
    BY DEF JobTrue, RequestTrue, TriggerJenkins, Call, Fault, NoFault, bounds
  <2>6. EarnedTrue(b)'
    BY DEF EarnedTrue, JobIsTold, statusOf, JobTrue, RequestTrue, TriggerJenkins, Call, Fault, NoFault,
           bounds
  <2>7. QED BY <2>1, <2>2, <2>3, <2>4, <2>5, <2>6 DEF BuildTrue
<1>8. QED BY <1>4, <1>6, <1>7 DEF IInv

LEMMA MarkProcessingIInv ==
  ASSUME IInv, NEW b \in Builds, MarkProcessing(b)
  PROVE  IInv'
<1> USE DevBuildAssumption DEF DevBuildAssumption
<1>1. /\ RowsOK /\ CallsOK /\ OutsideOK /\ CyclesOK /\ PastOK /\ BoundsOK
      /\ \A x \in Builds : BuildTrue(x)
  BY DEF IInv, Types
<1>2. UNCHANGED <<origin, home, sent, got, run, job, snap, todo, seen, touched,
                  guessed, unseen>>
  BY DEF MarkProcessing, Call, Fault, NoFault, bounds, table, request, outside, cycle
<1>3. /\ caller[b] = "queued" 
      /\ caller' = [caller EXCEPT ![b] = caller'[b]] /\ caller'[b] \in {"watching", "refused"}
      /\ row'[b] \in Rows /\ row' = [x \in Builds |-> row'[x]]
      /\ \A x \in Builds : x # b => row'[x] = row[x]
      /\ row'[b].ids = row[b].ids /\ row'[b].there = row[b].there
      /\ row'[b].status \in {row[b].status, "PROCESSING"}
  <2>1. CASE UNCHANGED row
    BY <1>1, <2>1 DEF MarkProcessing, Call, CallsOK, RowsOK
  <2>2. CASE row' = [row EXCEPT ![b].status = "PROCESSING"]
    <3>1. /\ row'[b] = [row[b] EXCEPT !.status = "PROCESSING"]
          /\ row' = [x \in Builds |-> row'[x]] /\ row[b] \in Rows
          /\ \A x \in Builds : x # b => row'[x] = row[x]
      BY <1>1, <2>2 DEF RowsOK
    <3>2. /\ row'[b] \in Rows /\ row'[b].status = "PROCESSING"
          /\ row'[b].ids = row[b].ids /\ row'[b].there = row[b].there
      BY <3>1 DEF Rows, Statuses
    <3>3. QED BY <1>1, <3>1, <3>2 DEF MarkProcessing, Call, CallsOK
  <2>3. QED BY <2>1, <2>2 DEF MarkProcessing
<1>b. NoFault \/ Fault
  BY DEF MarkProcessing, Call, NoFault
<1>4. Types'
  <2>1. OutsideOK' /\ CyclesOK' /\ PastOK'
    BY <1>1, <1>2 DEF OutsideOK, CyclesOK, PastOK
  <2>2. RowsOK'
    BY <1>1, <1>2, <1>3, EventsAreNat
    DEF RowsOK, CyclesOK, Fault, NoFault, bounds
  <2>3. CallsOK'
    BY <1>1, <1>2, <1>3
    DEF CallsOK, Callers, Origins, Fault, NoFault, bounds
  <2>4. BoundsOK'
    BY <1>1, <1>2, <1>b DEF BoundsOK, Fault, NoFault, bounds
  <2>5. QED BY <2>1, <2>2, <2>3, <2>4 DEF Types
<1>5. faults' >= faults /\ BoundsOK'
  BY <1>1, <1>2, <1>4, <1>b DEF Types, BoundsOK, Fault, NoFault, bounds
<1>6. ASSUME NEW x \in Builds, x # b PROVE BuildTrue(x)'
  <2>1. BuildTrue(x) BY <1>1
  <2>2. QED BY <1>1, <1>2, <1>5, <1>6, <2>1, Apart, <1>3
      DEF RowsOK, CallsOK, OutsideOK, CyclesOK, PastOK, Fault, NoFault, bounds
<1>7. BuildTrue(b)'
  <2>a. /\ RowsOK /\ CallsOK /\ OutsideOK /\ CyclesOK /\ PastOK /\ BoundsOK
        /\ RequestTrue(b) /\ IdsTrue(b) /\ RunsTrue(b) /\ KeptIds(b) /\ JobTrue(b)
        /\ EarnedTrue(b)
    BY <1>1 DEF BuildTrue
  <2> USE <2>a, <1>2, <1>3, <1>5 DEF RowsOK, CallsOK, OutsideOK, CyclesOK, PastOK,
         BoundsOK, OnTekton, terminalStatuses
  <2>1. RequestTrue(b)'
    BY DEF RequestTrue, Fault, NoFault, bounds
  <2>2. IdsTrue(b)'
    BY DEF IdsTrue, RequestTrue, Fault, NoFault, bounds
  <2>3. RunsTrue(b)'
    BY DEF RunsTrue, RequestTrue, Fault, NoFault, bounds
  <2>4. KeptIds(b)'
    BY DEF KeptIds, RequestTrue, Fault, NoFault, bounds
  <2>5. JobTrue(b)'
    BY DEF JobTrue, RequestTrue, Fault, NoFault, bounds
  <2>6. EarnedTrue(b)'
    BY DEF EarnedTrue, JobIsTold, statusOf, RequestTrue, Fault, NoFault, bounds
  <2>7. QED BY <2>1, <2>2, <2>3, <2>4, <2>5, <2>6 DEF BuildTrue
<1>8. QED BY <1>4, <1>6, <1>7 DEF IInv

LEMMA StoreJobResultIInv ==
  ASSUME IInv, NEW b \in Builds, StoreJobResult(b)
  PROVE  IInv'
<1> USE DevBuildAssumption DEF DevBuildAssumption
<1>1. /\ RowsOK /\ CallsOK /\ OutsideOK /\ CyclesOK /\ PastOK /\ BoundsOK
      /\ \A x \in Builds : BuildTrue(x)
  BY DEF IInv, Types
<1>2. UNCHANGED <<origin, home, sent, got, run, job, snap, todo, seen, touched,
                  unseen>>
  BY DEF StoreJobResult, Call, Fault, NoFault, bounds, table, request, outside, cycle
<1>3. /\ caller[b] = "watching" /\ job[b] \in JobResults \cup {"running"}
      /\ caller' = [caller EXCEPT ![b] = caller'[b]] /\ caller'[b] \in {"answered"}
      /\ row'[b] \in Rows /\ row' = [x \in Builds |-> row'[x]]
      /\ \A x \in Builds : x # b => row'[x] = row[x]
      /\ row'[b].ids = row[b].ids /\ row'[b].there = row[b].there
      /\ guessed' \in {guessed, guessed \cup {b}}
      /\ \/ row'[b].status = row[b].status
         \/ row'[b].status = statusOf(job[b]) /\ job[b] \in JobResults
         \/ row'[b].status = "ERROR" /\ b \in guessed'
  <2>1. /\ job[b] \in JobResults \cup {"running"}
        /\ caller[b] = "watching" /\ caller' = [caller EXCEPT ![b] = "answered"]
    BY <1>1 DEF BuildTrue, RequestTrue, OutsideOK, JobStates, StoreJobResult, Call
  <2>2. CASE UNCHANGED <<row, guessed>> BY <1>1, <2>1, <2>2 DEF CallsOK, RowsOK
  <2>3. ASSUME NEW s \in {"ERROR", statusOf(job[b])},
               row' = [row EXCEPT ![b].status = s],
               \/ job[b] # "running" /\ s = statusOf(job[b]) /\ UNCHANGED guessed
               \/ guessed' = guessed \cup {b}
        PROVE  /\ row'[b] \in Rows /\ row' = [x \in Builds |-> row'[x]]
               /\ \A x \in Builds : x # b => row'[x] = row[x]
               /\ row'[b].ids = row[b].ids /\ row'[b].there = row[b].there
               /\ guessed' \in {guessed, guessed \cup {b}}
               /\ \/ row'[b].status = statusOf(job[b]) /\ job[b] \in JobResults
                  \/ row'[b].status = "ERROR" /\ b \in guessed'
    <3>1. /\ row'[b] = [row[b] EXCEPT !.status = s]
          /\ row' = [x \in Builds |-> row'[x]] /\ row[b] \in Rows
          /\ \A x \in Builds : x # b => row'[x] = row[x]
      BY <1>1, <2>3 DEF RowsOK
    <3>2. s \in Statuses BY DEF statusOf, Statuses
    <3>3. /\ row'[b] \in Rows /\ row'[b].status = s
          /\ row'[b].ids = row[b].ids /\ row'[b].there = row[b].there
      BY <3>1, <3>2 DEF Rows
    <3>4. \/ row'[b].status = statusOf(job[b]) /\ job[b] \in JobResults
          \/ row'[b].status = "ERROR" /\ b \in guessed'
      BY <2>1, <2>3, <3>3 DEF statusOf
    <3>5. guessed' \in {guessed, guessed \cup {b}} BY <2>3
    <3>6. QED BY <3>1, <3>3, <3>4, <3>5
  <2>4. caller[b] = "watching" /\ caller' = [caller EXCEPT ![b] = caller'[b]]
        /\ caller'[b] \in {"answered"}
    BY <1>1, <2>1 DEF CallsOK
  <2>5. \/ UNCHANGED <<row, guessed>>
        \/ \E s \in {"ERROR", statusOf(job[b])} :
             /\ row' = [row EXCEPT ![b].status = s]
             /\ \/ job[b] # "running" /\ s = statusOf(job[b]) /\ UNCHANGED guessed
                \/ guessed' = guessed \cup {b}
    BY DEF StoreJobResult
  <2>6. QED BY <2>1, <2>2, <2>3, <2>4, <2>5
<1>b. NoFault \/ Fault
  BY DEF StoreJobResult, Call, NoFault
<1>4. Types'
  <2>1. OutsideOK' /\ CyclesOK' /\ PastOK'
    BY <1>1, <1>2, <1>3 DEF OutsideOK, CyclesOK, PastOK
  <2>2. RowsOK'
    BY <1>1, <1>2, <1>3, EventsAreNat
    DEF RowsOK, CyclesOK, Fault, NoFault, bounds
  <2>3. CallsOK'
    BY <1>1, <1>2, <1>3
    DEF CallsOK, Callers, Origins, Fault, NoFault, bounds
  <2>4. BoundsOK'
    BY <1>1, <1>2, <1>b DEF BoundsOK, Fault, NoFault, bounds
  <2>5. QED BY <2>1, <2>2, <2>3, <2>4 DEF Types
<1>5. faults' >= faults /\ BoundsOK'
  BY <1>1, <1>2, <1>4, <1>b DEF Types, BoundsOK, Fault, NoFault, bounds
<1>6. ASSUME NEW x \in Builds, x # b PROVE BuildTrue(x)'
  <2>1. BuildTrue(x) BY <1>1
  <2>2. QED BY <1>1, <1>2, <1>5, <1>6, <2>1, Apart, <1>3
      DEF RowsOK, CallsOK, OutsideOK, CyclesOK, PastOK, Fault, NoFault, bounds
<1>7. BuildTrue(b)'
  <2>a. /\ RowsOK /\ CallsOK /\ OutsideOK /\ CyclesOK /\ PastOK /\ BoundsOK
        /\ RequestTrue(b) /\ IdsTrue(b) /\ RunsTrue(b) /\ KeptIds(b) /\ JobTrue(b)
        /\ EarnedTrue(b)
    BY <1>1 DEF BuildTrue
  <2> USE <2>a, <1>2, <1>3, <1>5 DEF RowsOK, CallsOK, OutsideOK, CyclesOK, PastOK,
         BoundsOK, OnTekton, terminalStatuses
  <2>1. RequestTrue(b)'
    BY DEF RequestTrue, Fault, NoFault, bounds
  <2>2. IdsTrue(b)'
    BY DEF IdsTrue, RequestTrue, Fault, NoFault, bounds
  <2>3. RunsTrue(b)'
    BY DEF RunsTrue, RequestTrue, Fault, NoFault, bounds
  <2>4. KeptIds(b)'
    BY DEF KeptIds, RequestTrue, Fault, NoFault, bounds
  <2>5. JobTrue(b)'
    BY DEF JobTrue, RequestTrue, Fault, NoFault, bounds
  <2>6. EarnedTrue(b)'
    BY DEF EarnedTrue, JobIsTold, statusOf, RequestTrue, Fault, NoFault, bounds
  <2>7. QED BY <2>1, <2>2, <2>3, <2>4, <2>5, <2>6 DEF BuildTrue
<1>8. QED BY <1>4, <1>6, <1>7 DEF IInv

LEMMA UpdateIInv ==
  ASSUME IInv, NEW b \in Builds, NEW s \in ApiStatuses, NEW ids \in {row[b].ids, {}}, Update(b, s, ids)
  PROVE  IInv'
<1> USE DevBuildAssumption DEF DevBuildAssumption
<1>1. /\ RowsOK /\ CallsOK /\ OutsideOK /\ CyclesOK /\ PastOK /\ BoundsOK
      /\ \A x \in Builds : BuildTrue(x)
  BY DEF IInv, Types
<1>2. UNCHANGED <<caller, origin, home, sent, got, run, job, snap, todo, seen,
                  guessed, unseen, faults>>
  BY DEF Update, table, request, outside, cycle, bounds
<1>4. Types'
  <2>1. CallsOK' /\ OutsideOK' /\ CyclesOK'
    BY <1>1, <1>2 DEF CallsOK, OutsideOK, CyclesOK
  <2>2. RowsOK'
    <3>1. /\ row'[b] = [row[b] EXCEPT !.status = s, !.ids = ids]
          /\ row' = [x \in Builds |-> row'[x]] /\ row[b] \in Rows
          /\ \A x \in Builds : x # b => row'[x] = row[x]
          /\ \A x \in Builds : row[x] \in Rows /\ row[x].ids \subseteq EventsOf(x)
      BY <1>1 DEF RowsOK, Update
    <3>2. ids \subseteq EventsOf(b) /\ ids \in SUBSET Nat /\ s \in Statuses
      BY <3>1, EventsAreNat
    <3>3. row'[b] \in Rows /\ row'[b].ids = ids
      BY <3>1, <3>2 DEF Rows
    <3>4. row' \in [Builds -> Rows] BY <3>1, <3>3
    <3>5. QED BY <3>1, <3>2, <3>3, <3>4 DEF RowsOK
  <2>3. PastOK'
    BY <1>1, <1>2
    DEF PastOK, Update
  <2>4. BoundsOK'
    BY <1>1, <1>2
    DEF BoundsOK, Fault, NoFault, bounds, Update
  <2>5. QED BY <2>1, <2>2, <2>3, <2>4 DEF Types
<1>5. faults' >= faults /\ BoundsOK'
  BY <1>1, <1>2, <1>4 DEF Types, BoundsOK
<1>6. ASSUME NEW x \in Builds, x # b PROVE BuildTrue(x)'
  <2>1. BuildTrue(x) BY <1>1
  <2>2. QED BY <1>1, <1>2, <1>5, <1>6, <2>1, Apart
      DEF RowsOK, CallsOK, OutsideOK, CyclesOK, PastOK, Update
<1>7. BuildTrue(b)'
  <2>a. /\ RowsOK /\ CallsOK /\ OutsideOK /\ CyclesOK /\ PastOK /\ BoundsOK
        /\ RequestTrue(b) /\ IdsTrue(b) /\ RunsTrue(b) /\ KeptIds(b) /\ JobTrue(b)
        /\ EarnedTrue(b)
    BY <1>1 DEF BuildTrue
  <2> USE <2>a, <1>2, <1>5 DEF RowsOK, CallsOK, OutsideOK, CyclesOK, PastOK,
         BoundsOK, Rows, OnTekton, terminalStatuses
  <2>1. RequestTrue(b)'
    BY DEF RequestTrue, Update
  <2>2. IdsTrue(b)'
    BY DEF IdsTrue, RequestTrue, Update
  <2>3. RunsTrue(b)'
    BY DEF RunsTrue, RequestTrue, Update
  <2>4. KeptIds(b)'
    BY DEF KeptIds, RequestTrue, Update
  <2>5. JobTrue(b)'
    BY DEF JobTrue, RequestTrue, Update
  <2>6. EarnedTrue(b)'
    BY DEF EarnedTrue, JobIsTold, statusOf, RequestTrue, Update
  <2>7. QED BY <2>1, <2>2, <2>3, <2>4, <2>5, <2>6 DEF BuildTrue
<1>8. QED BY <1>4, <1>6, <1>7 DEF IInv

-----------------------------------------------------------------------------
(* Tekton, Jenkins and time *)

LEMMA RunStepIInv ==
  ASSUME IInv, NEW b \in Builds, NEW e \in EventsOf(b), RunStep(b, e)
  PROVE  IInv'
<1> USE DevBuildAssumption DEF DevBuildAssumption
<1>1. /\ RowsOK /\ CallsOK /\ OutsideOK /\ CyclesOK /\ PastOK /\ BoundsOK
      /\ \A x \in Builds : BuildTrue(x)
  BY DEF IInv, Types
<1>2. UNCHANGED <<row, caller, origin, home, sent, got, job, snap, todo, seen,
                  touched, guessed, unseen, updates, faults>>
  BY DEF RunStep, table, request, outside, cycle, bounds
<1>4. Types'
  <2>1. RowsOK' /\ CallsOK' /\ CyclesOK' /\ PastOK' /\ BoundsOK'
    BY <1>1, <1>2 DEF RowsOK, CallsOK, CyclesOK, PastOK, BoundsOK
  <2>2. OutsideOK'
    BY <1>1, <1>2
    DEF OutsideOK, RunStates, JobStates, RunStep
  <2>3. QED BY <2>1, <2>2 DEF Types
<1>5. faults' >= faults /\ BoundsOK'
  BY <1>1, <1>2, <1>4 DEF Types, BoundsOK
<1>6. ASSUME NEW x \in Builds, x # b PROVE BuildTrue(x)'
  <2>1. BuildTrue(x) BY <1>1
  <2>2. QED BY <1>1, <1>2, <1>5, <1>6, <2>1, Apart
      DEF RowsOK, CallsOK, OutsideOK, CyclesOK, PastOK, RunStep
<1>7. BuildTrue(b)'
  <2>a. /\ RowsOK /\ CallsOK /\ OutsideOK /\ CyclesOK /\ PastOK /\ BoundsOK
        /\ RequestTrue(b) /\ IdsTrue(b) /\ RunsTrue(b) /\ KeptIds(b) /\ JobTrue(b)
        /\ EarnedTrue(b)
    BY <1>1 DEF BuildTrue
  <2> USE <2>a, <1>2, <1>5 DEF RowsOK, CallsOK, OutsideOK, CyclesOK, PastOK,
         BoundsOK, Rows, OnTekton, terminalStatuses
  <2>1. RequestTrue(b)'
    BY DEF RequestTrue, RunStep
  <2>2. IdsTrue(b)'
    BY DEF IdsTrue, RequestTrue, RunStep
  <2>3. RunsTrue(b)'
    BY DEF RunsTrue, RequestTrue, RunStep
  <2>4. KeptIds(b)'
    BY DEF KeptIds, RequestTrue, RunStep
  <2>5. JobTrue(b)'
    BY DEF JobTrue, RequestTrue, RunStep
  <2>6. EarnedTrue(b)'
    BY DEF EarnedTrue, JobIsTold, statusOf, RequestTrue, RunStep
  <2>7. QED BY <2>1, <2>2, <2>3, <2>4, <2>5, <2>6 DEF BuildTrue
<1>8. QED BY <1>4, <1>6, <1>7 DEF IInv

LEMMA JobStepIInv ==
  ASSUME IInv, NEW b \in Builds, JobStep(b)
  PROVE  IInv'
<1> USE DevBuildAssumption DEF DevBuildAssumption
<1>1. /\ RowsOK /\ CallsOK /\ OutsideOK /\ CyclesOK /\ PastOK /\ BoundsOK
      /\ \A x \in Builds : BuildTrue(x)
  BY DEF IInv, Types
<1>2. UNCHANGED <<row, caller, origin, home, sent, got, run, snap, todo, seen,
                  touched, guessed, unseen, updates, faults>>
  BY DEF JobStep, table, request, outside, cycle, bounds
<1>4. Types'
  <2>1. RowsOK' /\ CallsOK' /\ CyclesOK' /\ PastOK' /\ BoundsOK'
    BY <1>1, <1>2 DEF RowsOK, CallsOK, CyclesOK, PastOK, BoundsOK
  <2>2. OutsideOK'
    BY <1>1, <1>2
    DEF OutsideOK, RunStates, JobStates, JobResults, JobStep
  <2>3. QED BY <2>1, <2>2 DEF Types
<1>5. faults' >= faults /\ BoundsOK'
  BY <1>1, <1>2, <1>4 DEF Types, BoundsOK
<1>6. ASSUME NEW x \in Builds, x # b PROVE BuildTrue(x)'
  <2>1. BuildTrue(x) BY <1>1
  <2>2. QED BY <1>1, <1>2, <1>5, <1>6, <2>1, Apart
      DEF RowsOK, CallsOK, OutsideOK, CyclesOK, PastOK, JobStep
<1>7. BuildTrue(b)'
  <2>a. /\ RowsOK /\ CallsOK /\ OutsideOK /\ CyclesOK /\ PastOK /\ BoundsOK
        /\ RequestTrue(b) /\ IdsTrue(b) /\ RunsTrue(b) /\ KeptIds(b) /\ JobTrue(b)
        /\ EarnedTrue(b)
    BY <1>1 DEF BuildTrue
  <2> USE <2>a, <1>2, <1>5 DEF RowsOK, CallsOK, OutsideOK, CyclesOK, PastOK,
         BoundsOK, Rows, OnTekton, terminalStatuses
  <2>1. RequestTrue(b)'
    BY DEF RequestTrue, JobResults, JobStep
  <2>2. IdsTrue(b)'
    BY DEF IdsTrue, RequestTrue, JobStep
  <2>3. RunsTrue(b)'
    BY DEF RunsTrue, RequestTrue, JobStep
  <2>4. KeptIds(b)'
    BY DEF KeptIds, RequestTrue, JobStep
  <2>5. JobTrue(b)'
    BY DEF JobTrue, RequestTrue, JobStep
  <2>6. EarnedTrue(b)'
    BY DEF EarnedTrue, JobIsTold, statusOf, JobResults, RequestTrue, JobStep
  <2>7. QED BY <2>1, <2>2, <2>3, <2>4, <2>5, <2>6 DEF BuildTrue
<1>8. QED BY <1>4, <1>6, <1>7 DEF IInv

LEMMA OutgrowIInv ==
  ASSUME IInv, NEW b \in Builds, Outgrow(b)
  PROVE  IInv'
<1> USE DevBuildAssumption DEF DevBuildAssumption
<1>1. /\ RowsOK /\ CallsOK /\ OutsideOK /\ CyclesOK /\ PastOK /\ BoundsOK
      /\ \A x \in Builds : BuildTrue(x)
  BY DEF IInv, Types
<1>2. UNCHANGED <<caller, origin, home, sent, got, run, job, snap, todo, seen,
                  touched, guessed, unseen>>
  BY DEF Outgrow, Fault, NoFault, bounds, table, request, outside, cycle
<1>b. NoFault \/ Fault
  BY DEF Outgrow, NoFault
<1>4. Types'
  <2>1. CallsOK' /\ OutsideOK' /\ CyclesOK' /\ PastOK'
    BY <1>1, <1>2 DEF CallsOK, OutsideOK, CyclesOK, PastOK
  <2>2. RowsOK'
    <3>1. /\ row'[b] = [row[b] EXCEPT !.old = TRUE]
          /\ row' = [x \in Builds |-> row'[x]] /\ row[b] \in Rows
          /\ \A x \in Builds : x # b => row'[x] = row[x]
          /\ \A x \in Builds : row[x] \in Rows /\ row[x].ids \subseteq EventsOf(x)
      BY <1>1 DEF RowsOK, Outgrow
    <3>2. row[b].ids \subseteq EventsOf(b) BY <3>1
    <3>3. row'[b] \in Rows /\ row'[b].ids = row[b].ids
      BY <3>1, <3>2 DEF Rows
    <3>4. row' \in [Builds -> Rows] BY <3>1, <3>3
    <3>5. QED BY <3>1, <3>2, <3>3, <3>4 DEF RowsOK
  <2>3. BoundsOK'
    BY <1>1, <1>2, <1>b DEF BoundsOK, Fault, NoFault, bounds
  <2>4. QED BY <2>1, <2>2, <2>3 DEF Types
<1>5. faults' >= faults /\ BoundsOK'
  BY <1>1, <1>2, <1>4, <1>b DEF Types, BoundsOK, Fault, NoFault, bounds
<1>6. ASSUME NEW x \in Builds, x # b PROVE BuildTrue(x)'
  <2>1. BuildTrue(x) BY <1>1
  <2>2. QED BY <1>1, <1>2, <1>5, <1>6, <2>1, Apart
      DEF RowsOK, CallsOK, OutsideOK, CyclesOK, PastOK, Outgrow, Fault, NoFault, bounds
<1>7. BuildTrue(b)'
  <2>a. /\ RowsOK /\ CallsOK /\ OutsideOK /\ CyclesOK /\ PastOK /\ BoundsOK
        /\ RequestTrue(b) /\ IdsTrue(b) /\ RunsTrue(b) /\ KeptIds(b) /\ JobTrue(b)
        /\ EarnedTrue(b)
    BY <1>1 DEF BuildTrue
  <2> USE <2>a, <1>2, <1>5 DEF RowsOK, CallsOK, OutsideOK, CyclesOK, PastOK,
         BoundsOK, Rows, OnTekton, terminalStatuses
  <2>1. RequestTrue(b)'
    BY DEF RequestTrue, Outgrow, Fault, NoFault, bounds
  <2>2. IdsTrue(b)'
    BY DEF IdsTrue, RequestTrue, Outgrow, Fault, NoFault, bounds
  <2>3. RunsTrue(b)'
    BY DEF RunsTrue, RequestTrue, Outgrow, Fault, NoFault, bounds
  <2>4. KeptIds(b)'
    BY DEF KeptIds, RequestTrue, Outgrow, Fault, NoFault, bounds
  <2>5. JobTrue(b)'
    BY DEF JobTrue, RequestTrue, Outgrow, Fault, NoFault, bounds
  <2>6. EarnedTrue(b)'
    BY DEF EarnedTrue, JobIsTold, statusOf, RequestTrue, Outgrow, Fault, NoFault, bounds
  <2>7. QED BY <2>1, <2>2, <2>3, <2>4, <2>5, <2>6 DEF BuildTrue
<1>8. QED BY <1>4, <1>6, <1>7 DEF IInv

-----------------------------------------------------------------------------
(* The reconciler *)

LEMMA BeginCycleIInv ==
  ASSUME IInv, NEW r \in Replicas, BeginCycle(r)
  PROVE  IInv'
<1> USE DevBuildAssumption DEF DevBuildAssumption
<1>1. /\ RowsOK /\ CallsOK /\ OutsideOK /\ CyclesOK /\ PastOK /\ BoundsOK
      /\ \A x \in Builds : BuildTrue(x)
  BY DEF IInv, Types
<1>2. UNCHANGED <<row, caller, origin, home, sent, got, run, job, seen, touched,
                  guessed, unseen, updates, faults>>
  BY DEF BeginCycle, Idle, InScope, NoRow, table, request, outside, cycle, bounds
<1>3. /\ snap' = [snap EXCEPT ![r] = snap'[r]] /\ todo' = [todo EXCEPT ![r] = todo'[r]]
      /\ snap'[r] \in [Builds -> Rows] /\ todo'[r] \subseteq AllEvents
      /\ \A s \in Replicas, x \in Builds :
           \/ snap'[s][x] = snap[s][x]
           \/ snap'[s][x].ids = {} /\ snap'[s][x].there = FALSE
           \/ snap'[s][x] = row[x] /\ row[x].ids # {} /\ row[x].there
  <2> DEFINE scope == {x \in Builds : InScope(x) /\ row[x].ids # {}}
  <2>1. /\ snap' = [snap EXCEPT ![r] = [x \in Builds |-> IF x \in scope THEN row[x] ELSE NoRow]]
        /\ todo' = [todo EXCEPT ![r] = UNION {{x} \X row[x].ids : x \in scope}]
    BY DEF BeginCycle
  <2>2. /\ snap'[r] = [x \in Builds |-> IF x \in scope THEN row[x] ELSE NoRow]
        /\ todo'[r] = UNION {{x} \X row[x].ids : x \in scope}
    BY <1>1, <2>1 DEF CyclesOK
  <2>3. \A x \in scope : x \in Builds /\ row[x].ids # {} /\ row[x].there BY DEF InScope
  <2>4. todo'[r] \subseteq AllEvents
    <3> SUFFICES ASSUME NEW x \in scope, NEW q \in {x} \X row[x].ids
                 PROVE  q \in AllEvents
      BY <2>2
    <3>1. q = <<x, q[2]>> /\ q[2] \in row[x].ids OBVIOUS
    <3>2. QED BY <1>1, <2>3, <3>1, PairsAreEvents DEF RowsOK
  <2> HIDE DEF scope
  <2>5. snap'[r] \in [Builds -> Rows] BY <1>1, <2>2, NoRowOK DEF RowsOK
  <2>6. snap' = [snap EXCEPT ![r] = snap'[r]] /\ todo' = [todo EXCEPT ![r] = todo'[r]]
    BY <1>1, <2>1, <2>2 DEF CyclesOK
  <2>7. \A s \in Replicas : s # r => snap'[s] = snap[s] BY <1>1, <2>1 DEF CyclesOK
  <2>8. ASSUME NEW x \in Builds
        PROVE  \/ snap'[r][x].ids = {} /\ snap'[r][x].there = FALSE
               \/ snap'[r][x] = row[x] /\ row[x].ids # {} /\ row[x].there
    <3>1. CASE x \in scope BY <2>2, <2>3, <3>1
    <3>2. CASE x \notin scope
      <4>1. snap'[r][x] = NoRow BY <2>2, <3>2
      <4>2. QED BY <4>1, NoRowOK
    <3>3. QED BY <3>1, <3>2
  <2>9. QED BY <2>4, <2>5, <2>6, <2>7, <2>8
<1>4. Types'
  <2>1. RowsOK' /\ CallsOK' /\ OutsideOK' /\ PastOK' /\ BoundsOK'
    BY <1>1, <1>2 DEF RowsOK, CallsOK, OutsideOK, PastOK, BoundsOK
  <2>2. CyclesOK'
    <3>1. snap' \in [Replicas -> [Builds -> Rows]] BY <1>1, <1>3 DEF CyclesOK
    <3>2. ASSUME NEW s \in Replicas, NEW x \in Builds
          PROVE  snap'[s][x].ids \subseteq EventsOf(x)
      BY <1>1, <1>3 DEF CyclesOK, RowsOK
    <3>3. \A s \in Replicas : todo'[s] \subseteq AllEvents BY <1>1, <1>3 DEF CyclesOK
    <3>4. QED BY <1>1, <1>2, <1>3, <3>1, <3>2, <3>3 DEF CyclesOK
  <2>3. QED BY <2>1, <2>2 DEF Types
<1>5. faults' >= faults /\ BoundsOK'
  BY <1>1, <1>2, <1>4 DEF Types, BoundsOK
<1>7. ASSUME NEW b \in Builds PROVE BuildTrue(b)'
  <2>a. /\ RowsOK /\ CallsOK /\ OutsideOK /\ CyclesOK /\ PastOK /\ BoundsOK
        /\ RequestTrue(b) /\ IdsTrue(b) /\ RunsTrue(b) /\ KeptIds(b) /\ JobTrue(b)
        /\ EarnedTrue(b)
    BY <1>1 DEF BuildTrue
  <2> USE <2>a, <1>2, <1>3, <1>5 DEF RowsOK, CallsOK, OutsideOK, CyclesOK, PastOK,
         BoundsOK, OnTekton, terminalStatuses
  <2>1. RequestTrue(b)'
    BY DEF RequestTrue
  <2>2. IdsTrue(b)'
    <3> SUFFICES ASSUME NEW s \in Replicas
                 PROVE  /\ snap'[s][b].ids \subseteq got[b]
                        /\ snap'[s][b].there => snap'[s][b].ids # {}
      BY DEF IdsTrue
    <3>1. CASE snap'[s][b] = snap[s][b] BY <3>1 DEF IdsTrue
    <3>2. CASE snap'[s][b].ids = {} /\ snap'[s][b].there = FALSE BY <3>2
    <3>3. CASE snap'[s][b] = row[b] /\ row[b].ids # {} BY <3>3 DEF IdsTrue
    <3>4. QED BY <1>3, <3>1, <3>2, <3>3
  <2>3. RunsTrue(b)'
    BY DEF RunsTrue, RequestTrue
  <2>4. KeptIds(b)'
    <3>1. \A s \in Replicas :
            b \notin touched /\ snap'[s][b].there => snap'[s][b].ids = row[b].ids
      <4> SUFFICES ASSUME NEW s \in Replicas, b \notin touched, snap'[s][b].there
                   PROVE  snap'[s][b].ids = row[b].ids
        OBVIOUS
      <4>1. CASE snap'[s][b] = snap[s][b] BY <4>1 DEF KeptIds
      <4>2. CASE snap'[s][b] = row[b] BY <4>2
      <4>3. QED BY <1>3, <4>1, <4>2
    <3>2. QED BY <3>1 DEF KeptIds
  <2>5. JobTrue(b)'
    BY DEF JobTrue, RequestTrue
  <2>6. EarnedTrue(b)'
    BY DEF EarnedTrue, JobIsTold, statusOf, RequestTrue
  <2>7. QED BY <2>1, <2>2, <2>3, <2>4, <2>5, <2>6 DEF BuildTrue
<1>8. QED BY <1>4, <1>7 DEF IInv

LEMMA QueryIInv ==
  ASSUME IInv, NEW r \in Replicas, Query(r)
  PROVE  IInv'
<1> USE DevBuildAssumption DEF DevBuildAssumption
<1>1. /\ RowsOK /\ CallsOK /\ OutsideOK /\ CyclesOK /\ PastOK /\ BoundsOK
      /\ \A x \in Builds : BuildTrue(x)
  BY DEF IInv, Types
<1>2. UNCHANGED <<row, caller, origin, home, sent, got, run, job, snap, touched,
                  guessed, unseen>>
  BY DEF Query, Fault, NoFault, bounds, table, request, outside, cycle
<1>3. /\ todo' = [todo EXCEPT ![r] = todo'[r]] /\ todo'[r] \subseteq todo[r]
      /\ DOMAIN seen' = Replicas /\ \A s \in Replicas : DOMAIN seen'[s] = Builds
      /\ \A s \in Replicas, x \in Builds :
           /\ seen'[s][x] \in [EventsOf(x) -> RunStates]
           /\ \A e \in EventsOf(x) : seen'[s][x][e] \in {seen[s][x][e], run[x][e]}
  <2>1. PICK q \in todo[r] :
          /\ todo' = [todo EXCEPT ![r] = @ \ {q}]
          /\ \/ seen' = [seen EXCEPT ![r][q[1]][q[2]] = run[q[1]][q[2]]]
             \/ UNCHANGED seen
    BY DEF Query
  <2>2. q[1] \in Builds /\ q[2] \in EventsOf(q[1]) BY <1>1, PairsAreEvents DEF CyclesOK
  <2>3. todo' = [todo EXCEPT ![r] = todo'[r]] /\ todo'[r] \subseteq todo[r]
    BY <1>1, <2>1 DEF CyclesOK
  <2>4. CASE UNCHANGED seen BY <1>1, <2>3, <2>4 DEF CyclesOK
  <2>5. CASE seen' = [seen EXCEPT ![r][q[1]][q[2]] = run[q[1]][q[2]]]
    <3> DEFINE c == q[1]
               d == q[2]
    <3>1. c \in Builds /\ d \in EventsOf(c) BY <2>2
    <3>2. seen' = [seen EXCEPT ![r] =
                   [seen[r] EXCEPT ![c] = [seen[r][c] EXCEPT ![d] = run[c][d]]]]
      BY <2>5
    <3> HIDE DEF c, d
    <3>3. run[c][d] \in RunStates BY <1>1, <3>1 DEF OutsideOK
    <3>4. [seen[r][c] EXCEPT ![d] = run[c][d]] \in [EventsOf(c) -> RunStates]
      BY <1>1, <3>1, <3>3 DEF CyclesOK
    <3>5. /\ DOMAIN seen' = Replicas
          /\ seen'[r] = [seen[r] EXCEPT ![c] = [seen[r][c] EXCEPT ![d] = run[c][d]]]
          /\ \A s \in Replicas : s # r => seen'[s] = seen[s]
      BY <1>1, <3>2 DEF CyclesOK
    <3>6. /\ DOMAIN seen'[r] = Builds
          /\ seen'[r][c] = [seen[r][c] EXCEPT ![d] = run[c][d]]
          /\ \A x \in Builds : x # c => seen'[r][x] = seen[r][x]
      BY <1>1, <3>1, <3>5 DEF CyclesOK
    <3>7. \A e \in EventsOf(c) : seen'[r][c][e] \in {seen[r][c][e], run[c][e]}
      BY <1>1, <3>1, <3>6 DEF CyclesOK
    <3>8. ASSUME NEW s \in Replicas, NEW x \in Builds
          PROVE  /\ seen'[s][x] \in [EventsOf(x) -> RunStates]
                 /\ \A e \in EventsOf(x) : seen'[s][x][e] \in {seen[s][x][e], run[x][e]}
      <4>1. CASE s = r /\ x = c BY <3>4, <3>6, <3>7, <4>1
      <4>2. CASE s # r \/ x # c
        <5>1. seen'[s][x] = seen[s][x] BY <3>5, <3>6, <4>2
        <5>2. QED BY <1>1, <5>1 DEF CyclesOK
      <4>3. QED BY <4>1, <4>2
    <3>9. \A s \in Replicas : DOMAIN seen'[s] = Builds BY <1>1, <3>5, <3>6 DEF CyclesOK
    <3>10. QED BY <2>3, <3>5, <3>8, <3>9
  <2>6. QED BY <2>1, <2>4, <2>5
<1>b. NoFault \/ Fault
  BY DEF Query, NoFault
<1>4. Types'
  <2>1. RowsOK' /\ CallsOK' /\ OutsideOK' /\ PastOK'
    BY <1>1, <1>2 DEF RowsOK, CallsOK, OutsideOK, PastOK
  <2>2. CyclesOK'
    BY <1>1, <1>2, <1>3, EventsAreNat
    DEF CyclesOK, RunStates, RowsOK, Fault, NoFault, bounds
  <2>3. BoundsOK'
    BY <1>1, <1>2, <1>b DEF BoundsOK, Fault, NoFault, bounds
  <2>4. QED BY <2>1, <2>2, <2>3 DEF Types
<1>5. faults' >= faults /\ BoundsOK'
  BY <1>1, <1>2, <1>4, <1>b DEF Types, BoundsOK, Fault, NoFault, bounds
<1>7. ASSUME NEW b \in Builds PROVE BuildTrue(b)'
  <2>a. /\ RowsOK /\ CallsOK /\ OutsideOK /\ CyclesOK /\ PastOK /\ BoundsOK
        /\ RequestTrue(b) /\ IdsTrue(b) /\ RunsTrue(b) /\ KeptIds(b) /\ JobTrue(b)
        /\ EarnedTrue(b)
    BY <1>1 DEF BuildTrue
  <2> USE <2>a, <1>2, <1>3, <1>5 DEF RowsOK, CallsOK, OutsideOK, CyclesOK, PastOK,
         BoundsOK, OnTekton, terminalStatuses
  <2>1. RequestTrue(b)'
    BY DEF RequestTrue, Fault, NoFault, bounds
  <2>2. IdsTrue(b)'
    BY DEF IdsTrue, RequestTrue, Fault, NoFault, bounds
  <2>3. RunsTrue(b)'
    BY DEF RunsTrue, RequestTrue, Fault, NoFault, bounds
  <2>4. KeptIds(b)'
    BY DEF KeptIds, RequestTrue, Fault, NoFault, bounds
  <2>5. JobTrue(b)'
    BY DEF JobTrue, RequestTrue, Fault, NoFault, bounds
  <2>6. EarnedTrue(b)'
    BY DEF EarnedTrue, JobIsTold, statusOf, RequestTrue, Fault, NoFault, bounds
  <2>7. QED BY <2>1, <2>2, <2>3, <2>4, <2>5, <2>6 DEF BuildTrue
<1>8. QED BY <1>4, <1>7 DEF IInv

LEMMA UpdateBuildIInv ==
  ASSUME IInv, NEW r \in Replicas, NEW b \in Builds, UpdateBuild(r, b)
  PROVE  IInv'
<1> USE DevBuildAssumption DEF DevBuildAssumption
<1>1. /\ RowsOK /\ CallsOK /\ OutsideOK /\ CyclesOK /\ PastOK /\ BoundsOK
      /\ \A x \in Builds : BuildTrue(x)
  BY DEF IInv, Types
<1>2. UNCHANGED <<caller, origin, home, sent, got, run, job, todo, touched, guessed>>
  BY DEF UpdateBuild, NoRow, Fault, NoFault, bounds, table, request, outside, cycle
<1>3. /\ snap[r][b].there /\ row'[b] \in Rows /\ row' = [x \in Builds |-> row'[x]]
      /\ \A x \in Builds : x # b => row'[x] = row[x]
      /\ row'[b].there = row[b].there /\ row'[b].ids \subseteq EventsOf(b)
      /\ DOMAIN unseen' = Builds /\ \A x \in Builds : x # b => unseen'[x] = unseen[x]
      /\ \/ row'[b] = row[b] /\ unseen'[b] = unseen[b]
         \/ /\ row'[b].ids = snap[r][b].ids
            /\ unseen'[b] = {e \in EventsOf(b) : seen[r][b][e] = "none"}
            /\ row'[b].status = "SUCCESS" =>
                 \A e \in EventsOf(b) : seen[r][b][e] \in {"none", "success"}
            /\ row'[b].status = "FAILURE" => \E e \in EventsOf(b) : seen[r][b][e] = "failure"
            /\ row'[b].status \in {"SUCCESS", "FAILURE", "PROCESSING"}
  <2>1. /\ row[b] \in Rows /\ snap[r][b] \in Rows /\ snap[r][b].there
        /\ row[b].ids \subseteq EventsOf(b) /\ snap[r][b].ids \subseteq EventsOf(b)
    <3>1. /\ row[b] \in Rows /\ snap[r][b] \in Rows
          /\ row[b].ids \subseteq EventsOf(b) /\ snap[r][b].ids \subseteq EventsOf(b)
      BY <1>1 DEF RowsOK, CyclesOK
    <3>2. snap[r][b].there BY DEF UpdateBuild
    <3>3. QED BY <3>1, <3>2
  <2>2. CASE row' = row /\ unseen' = unseen BY <1>1, <2>1, <2>2 DEF RowsOK, PastOK
  <2>3. CASE /\ determineStatus(r, b) # ""
             /\ row' = [row EXCEPT ![b] = WrittenRow(r, b)]
             /\ unseen' = [unseen EXCEPT ![b] = {e \in EventsOf(b) : seen[r][b][e] = "none"}]
    <3> DEFINE d == determineStatus(r, b)
    <3>1. d \in {"SUCCESS", "FAILURE", "PROCESSING"} BY <2>3 DEF determineStatus
    <3>2. d = "SUCCESS" => \A e \in EventsOf(b) : seen[r][b][e] \in {"none", "success"}
      <4>1. \A e \in EventsOf(b) : seen[r][b][e] \in RunStates BY <1>1 DEF CyclesOK
      <4>2. QED BY <4>1 DEF determineStatus, Among, RunStates
    <3>3. d = "FAILURE" => \E e \in EventsOf(b) : seen[r][b][e] = "failure"
      BY DEF determineStatus, Among
    <3>4. WrittenRow(r, b) = [row[b] EXCEPT !.status = d, !.ids = snap[r][b].ids]
      BY DEF WrittenRow
    <3> HIDE DEF d
    <3>5. /\ WrittenRow(r, b) \in Rows /\ WrittenRow(r, b).there = row[b].there
          /\ WrittenRow(r, b).ids = snap[r][b].ids /\ WrittenRow(r, b).status = d
      BY <2>1, <3>1, <3>4 DEF Rows, Statuses
    <3>6. /\ row'[b] = WrittenRow(r, b) /\ row' = [x \in Builds |-> row'[x]]
          /\ \A x \in Builds : x # b => row'[x] = row[x]
      BY <1>1, <2>3 DEF RowsOK
    <3>7. /\ unseen'[b] = {e \in EventsOf(b) : seen[r][b][e] = "none"}
          /\ DOMAIN unseen' = Builds /\ \A x \in Builds : x # b => unseen'[x] = unseen[x]
      BY <1>1, <2>3 DEF PastOK
    <3>8. QED BY <2>1, <3>1, <3>2, <3>3, <3>5, <3>6, <3>7
  <2>4. QED BY <2>2, <2>3 DEF UpdateBuild
<1>u. /\ snap' = [snap EXCEPT ![r] = [@ EXCEPT ![b] = NoRow]]
      /\ seen' = [seen EXCEPT ![r] = [@ EXCEPT ![b] = [e \in EventsOf(b) |-> "none"]]]
      /\ NoRow \in Rows /\ NoRow.ids = {} /\ NoRow.there = FALSE
  BY NoRowOK DEF UpdateBuild
<1>b. NoFault \/ Fault
  BY DEF UpdateBuild, NoRow, NoFault
<1>4. Types'
  <2>1. CallsOK' /\ OutsideOK'
    BY <1>1, <1>2 DEF CallsOK, OutsideOK
  <2>2. RowsOK'
    <3>1. ASSUME NEW x \in Builds PROVE row'[x] \in Rows /\ row'[x].ids \subseteq EventsOf(x)
      <4>1. CASE x = b BY <1>3, <4>1
      <4>2. CASE x # b BY <1>1, <1>3, <4>2 DEF RowsOK
      <4>3. QED BY <4>1, <4>2
    <3>2. row' = [x \in Builds |-> row'[x]] BY <1>3
    <3>3. row' \in [Builds -> Rows] BY <3>1, <3>2
    <3>4. QED BY <3>1, <3>3 DEF RowsOK
  <2>3. CyclesOK'
    BY <1>1, <1>2, <1>3, <1>u, EventsAreNat
    DEF CyclesOK, RunStates, RowsOK, Fault, NoFault, bounds
  <2>4. PastOK'
    BY <1>1, <1>2, <1>3, <1>u
    DEF PastOK, Fault, NoFault, bounds
  <2>5. BoundsOK'
    BY <1>1, <1>2, <1>b DEF BoundsOK, Fault, NoFault, bounds
  <2>6. QED BY <2>1, <2>2, <2>3, <2>4, <2>5 DEF Types
<1>5. faults' >= faults /\ BoundsOK'
  BY <1>1, <1>2, <1>4, <1>b DEF Types, BoundsOK, Fault, NoFault, bounds
<1>6. ASSUME NEW x \in Builds, x # b PROVE BuildTrue(x)'
  <2>1. BuildTrue(x) BY <1>1
  <2>2. QED BY <1>1, <1>2, <1>5, <1>6, <2>1, Apart, <1>3, <1>u
      DEF RowsOK, CallsOK, OutsideOK, CyclesOK, PastOK, Fault, NoFault, bounds
<1>7. BuildTrue(b)'
  <2>a. /\ RowsOK /\ CallsOK /\ OutsideOK /\ CyclesOK /\ PastOK /\ BoundsOK
        /\ RequestTrue(b) /\ IdsTrue(b) /\ RunsTrue(b) /\ KeptIds(b) /\ JobTrue(b)
        /\ EarnedTrue(b)
    BY <1>1 DEF BuildTrue
  <2> USE <2>a, <1>2, <1>3, <1>u, <1>5 DEF RowsOK, CallsOK, OutsideOK, CyclesOK, PastOK,
         BoundsOK, OnTekton, terminalStatuses
  <2>1. RequestTrue(b)'
    BY DEF RequestTrue, IdsTrue, Fault, NoFault, bounds
  <2>2. IdsTrue(b)'
    BY DEF IdsTrue, RequestTrue, Fault, NoFault, bounds
  <2>3. RunsTrue(b)'
    BY DEF RunsTrue, RequestTrue, Fault, NoFault, bounds
  <2>4. KeptIds(b)'
    BY DEF KeptIds, RequestTrue, IdsTrue, Fault, NoFault, bounds
  <2>5. JobTrue(b)'
    BY DEF JobTrue, RequestTrue, IdsTrue, Fault, NoFault, bounds
  <2>6. EarnedTrue(b)'
    BY DEF EarnedTrue, JobIsTold, statusOf, RequestTrue, IdsTrue, RunsTrue, Fault, NoFault, bounds
  <2>7. QED BY <2>1, <2>2, <2>3, <2>4, <2>5, <2>6 DEF BuildTrue
<1>8. QED BY <1>4, <1>6, <1>7 DEF IInv

LEMMA CrashIInv ==
  ASSUME IInv, NEW r \in Replicas, Crash(r)
  PROVE  IInv'
<1> USE DevBuildAssumption DEF DevBuildAssumption
<1>1. /\ RowsOK /\ CallsOK /\ OutsideOK /\ CyclesOK /\ PastOK /\ BoundsOK
      /\ \A x \in Builds : BuildTrue(x)
  BY DEF IInv, Types
<1>2. UNCHANGED <<row, origin, home, sent, got, run, job, touched, guessed, unseen>>
  BY DEF Crash, NoRow, Unknown, Fault, NoFault, bounds, table, request, outside, cycle
<1>b. NoFault \/ Fault
  BY DEF Crash, NoRow, Unknown, NoFault
<1>4. Types'
  <2>1. RowsOK' /\ OutsideOK' /\ PastOK'
    BY <1>1, <1>2 DEF RowsOK, OutsideOK, PastOK
  <2>2. CallsOK'
    BY <1>1, <1>2
    DEF CallsOK, Callers, Origins, Crash, NoRow, Unknown, Fault, NoFault, bounds
  <2>3. CyclesOK'
    BY <1>1, <1>2, EventsAreNat
    DEF CyclesOK, Rows, Statuses, RunStates, Crash, NoRow, Unknown, Fault, NoFault,
        bounds
  <2>4. BoundsOK'
    BY <1>1, <1>2, <1>b DEF BoundsOK, Fault, NoFault, bounds
  <2>5. QED BY <2>1, <2>2, <2>3, <2>4 DEF Types
<1>5. faults' >= faults /\ BoundsOK'
  BY <1>1, <1>2, <1>4, <1>b DEF Types, BoundsOK, Fault, NoFault, bounds
<1>7. ASSUME NEW b \in Builds PROVE BuildTrue(b)'
  <2>a. /\ RowsOK /\ CallsOK /\ OutsideOK /\ CyclesOK /\ PastOK /\ BoundsOK
        /\ RequestTrue(b) /\ IdsTrue(b) /\ RunsTrue(b) /\ KeptIds(b) /\ JobTrue(b)
        /\ EarnedTrue(b)
    BY <1>1 DEF BuildTrue
  <2> USE <2>a, <1>2, <1>5 DEF RowsOK, CallsOK, OutsideOK, CyclesOK, PastOK,
         BoundsOK, Rows, OnTekton, terminalStatuses
  <2>1. RequestTrue(b)'
    BY DEF RequestTrue, Crash, NoRow, Unknown, Fault, NoFault, bounds
  <2>2. IdsTrue(b)'
    BY DEF IdsTrue, RequestTrue, Crash, NoRow, Unknown, Fault, NoFault, bounds
  <2>3. RunsTrue(b)'
    BY DEF RunsTrue, RequestTrue, Crash, NoRow, Unknown, Fault, NoFault, bounds
  <2>4. KeptIds(b)'
    BY DEF KeptIds, RequestTrue, Crash, NoRow, Unknown, Fault, NoFault, bounds
  <2>5. JobTrue(b)'
    BY DEF JobTrue, RequestTrue, Crash, NoRow, Unknown, Fault, NoFault, bounds
  <2>6. EarnedTrue(b)'
    BY DEF EarnedTrue, JobIsTold, statusOf, RequestTrue, Crash, NoRow, Unknown, Fault, NoFault, bounds
  <2>7. QED BY <2>1, <2>2, <2>3, <2>4, <2>5, <2>6 DEF BuildTrue
<1>8. QED BY <1>4, <1>7 DEF IInv

-----------------------------------------------------------------------------
LEMMA StepIInv == IInv /\ [Next]_vars => IInv'
<1> SUFFICES ASSUME IInv, [Next]_vars PROVE IInv' OBVIOUS
<1>1. CASE UNCHANGED vars
  <2>1. UNCHANGED <<row, caller, origin, home, sent, got, run, job, snap, todo, seen,
                    touched, guessed, unseen, updates, faults>>
    BY <1>1 DEF vars, table, request, outside, cycle, bounds
  <2>2. Types' BY <2>1 DEF IInv, Types, RowsOK, CallsOK, OutsideOK, CyclesOK, PastOK, BoundsOK
  <2>3. ASSUME NEW b \in Builds PROVE BuildTrue(b)'
    BY <2>1, <2>3
    DEF IInv, BuildTrue, RequestTrue, IdsTrue, RunsTrue, KeptIds, JobTrue, EarnedTrue,
        JobIsTold, statusOf, OnTekton
  <2>4. QED BY <2>2, <2>3 DEF IInv
<1>2. ASSUME NEW b \in Builds, NEW r \in Replicas, NEW o \in Origins, Insert(r, b, o)
      PROVE  IInv'
  BY <1>2, InsertIInv
<1>3. ASSUME NEW b \in Builds, Handler(b) PROVE IInv'
  BY <1>3, SendEventIInv, StoreEventIdsIInv, TriggerJenkinsIInv, MarkProcessingIInv,
     StoreJobResultIInv
  DEF Handler
<1>4. ASSUME NEW b \in Builds, NEW s \in ApiStatuses, NEW ids \in {row[b].ids, {}},
             Update(b, s, ids)
      PROVE  IInv'
  BY <1>4, UpdateIInv
<1>5. ASSUME NEW b \in Builds, NEW e \in EventsOf(b), RunStep(b, e) PROVE IInv'
  BY <1>5, RunStepIInv
<1>6. ASSUME NEW b \in Builds, JobStep(b) \/ Outgrow(b) PROVE IInv'
  BY <1>6, JobStepIInv, OutgrowIInv
<1>7. ASSUME NEW r \in Replicas, Reconcile(r) \/ Crash(r) PROVE IInv'
  BY <1>7, BeginCycleIInv, QueryIInv, UpdateBuildIInv, CrashIInv DEF Reconcile
<1>8. QED BY <1>1, <1>2, <1>3, <1>4, <1>5, <1>6, <1>7 DEF Next

LEMMA Invariance == Spec => []IInv
BY InitIInv, StepIInv, PTL DEF Spec

\* The type invariant holds for any builds, replicas and platforms.
THEOREM TypeCorrect == Spec => []TypeOK
<1>1. IInv => TypeOK BY TypesGiveTypeOK DEF IInv
<1>2. QED BY <1>1, Invariance, PTL

\* A finished status is true of the runs that the decision saw, although any number
\* of replicas decide on rows they read long ago and write without a condition, and
\* of the result of the job, but for the ERROR of a watch that lost sight of it.
THEOREM VerdictsAreEarned == Spec => []VerdictIsEarned
<1>1. IInv => VerdictIsEarned
  BY DEF IInv, BuildTrue, EarnedTrue, VerdictIsEarned
<1>2. QED BY <1>1, Invariance, PTL

\* No write of a reconciler loses an event id: a run that nobody will look for is of
\* a request that was not answered, of a rerun, or of an event without an id.
THEOREM RunsStayTracked == Spec => []RunsAreTracked
<1>1. IInv => RunsAreTracked
  <2> SUFFICES ASSUME IInv, NEW b \in Builds \ touched, NEW e \in EventsOf(b),
                      run[b][e] # "none", e \notin row[b].ids,
                      caller[b] \notin {"sending", "storing", "refused", "broken", "lost"}
               PROVE  faults > 0 /\ (origin[b] = "rerun" \/ e \notin got[b])
    BY DEF RunsAreTracked
  <2>1. RequestTrue(b) /\ RunsTrue(b) /\ KeptIds(b) /\ caller[b] \in Callers /\ faults \in Nat
    BY DevBuildAssumption DEF IInv, BuildTrue, Types, CallsOK, BoundsOK,
       DevBuildAssumption
  <2>2. e \in sent[b] /\ OnTekton(b) BY <2>1 DEF RunsTrue, RequestTrue
  <2>3. caller[b] = "answered" BY <2>1, <2>2 DEF RequestTrue, Callers, OnTekton
  <2>4. row[b].ids = got[b] \/ (faults > 0 /\ origin[b] = "rerun")
    BY <2>1, <2>2, <2>3 DEF KeptIds
  <2>5. QED BY <2>1, <2>2, <2>4 DEF RequestTrue
<1>2. QED BY <1>1, Invariance, PTL

-----------------------------------------------------------------------------
(* One replica *)

\* One replica of the service runs at a time.
OneReplica == \A p, q \in Replicas : p = q

\* A row that only this service writes is as the cycle that holds it read it.
OneView ==
  \A b \in Builds \ touched : \A r \in Replicas :
    snap[r][b].there => /\ row[b].status = snap[r][b].status
                        /\ row[b].status \notin terminalStatuses

\* What a step does to a row: its status stays, and the cycles that hold the row
\* have that status, or it was not finished and no cycle holds the row any more.
Ordered(b) ==
  /\ b \notin touched
  /\ \/ /\ row'[b].status = row[b].status
        /\ \A r \in Replicas :
             \/ snap'[r][b] = snap[r][b]
             \/ ~snap'[r][b].there
             \/ snap'[r][b].status = row[b].status /\ row[b].status \notin terminalStatuses
     \/ /\ row[b].status \notin terminalStatuses
        /\ \A r \in Replicas : ~snap'[r][b].there

LEMMA OrderedView ==
  ASSUME OneView, \A b \in Builds \ touched' : Ordered(b)
  PROVE  /\ OneView'
         /\ \A b \in Builds \ touched' :
              row[b].status \in terminalStatuses => row'[b].status = row[b].status
BY DEF OneView, Ordered

\* Steps that change no status and that begin no cycle.
LEMMA QuietOrdered ==
  ASSUME UNCHANGED <<touched, snap>>, NEW b \in Builds \ touched',
         row'[b].status = row[b].status
  PROVE  Ordered(b)
BY DEF Ordered

\* The build of a job has no event ids: no cycle holds its row.
LEMMA JobsNotHeld ==
  ASSUME IInv, NEW b \in Builds, caller[b] \in {"queued", "watching"}
  PROVE  \A r \in Replicas : ~snap[r][b].there
<1>1. RequestTrue(b) /\ IdsTrue(b) /\ got[b] \subseteq sent[b]
  BY DEF IInv, BuildTrue, Types, CallsOK
<1>2. origin[b] = "jenkins" BY <1>1 DEF RequestTrue
<1>3. sent[b] = {} BY <1>1, <1>2 DEF RequestTrue, OnTekton
<1>4. QED BY <1>1, <1>3 DEF IdsTrue

LEMMA HandlerOrdered ==
  ASSUME IInv, NEW b \in Builds, Handler(b), NEW c \in Builds \ touched'
  PROVE  Ordered(c)
<1>1. touched' = touched /\ snap' = snap
  BY DEF Handler, SendEvent, StoreEventIds, TriggerJenkins, MarkProcessing, StoreJobResult,
         table, cycle
<1>2. row \in [Builds -> Rows] BY DEF IInv, Types, RowsOK
<1>3. CASE SendEvent(b) \/ TriggerJenkins(b)
  <2>1. row' = row BY <1>3 DEF SendEvent, TriggerJenkins, table
  <2>2. QED BY <1>1, <2>1, QuietOrdered
<1>4. CASE StoreEventIds(b)
  <2>1. row' = row \/ row' = [row EXCEPT ![b].ids = got[b]] BY <1>4 DEF StoreEventIds
  <2>2. row'[c].status = row[c].status BY <1>2, <2>1 DEF Rows
  <2>3. QED BY <1>1, <2>2, QuietOrdered
<1>5. CASE MarkProcessing(b) \/ StoreJobResult(b)
  <2>1. /\ caller[b] \in {"queued", "watching"}
        /\ row' = row \/ \E s \in Statuses : row' = [row EXCEPT ![b].status = s]
    <3>1. CASE MarkProcessing(b) BY <3>1 DEF MarkProcessing, Call, Statuses
    <3>2. CASE StoreJobResult(b)
      <4>1. statusOf(job[b]) \in Statuses /\ "ERROR" \in Statuses BY DEF statusOf, Statuses
      <4>2. QED BY <3>2, <4>1 DEF StoreJobResult, Call
    <3>3. QED BY <1>5, <3>1, <3>2
  <2>2. CASE c # b \/ row' = row
    <3>1. row'[c].status = row[c].status BY <1>2, <2>1, <2>2
    <3>2. QED BY <1>1, <3>1, QuietOrdered
  <2>3. CASE c = b
    <3>1. \A r \in Replicas : ~snap[r][b].there BY <2>1, JobsNotHeld
    <3>2. RequestTrue(b) /\ JobTrue(b) /\ b \notin touched
      BY <1>1, <2>3 DEF IInv, BuildTrue
    <3>3. origin[b] = "jenkins" BY <2>1, <3>2 DEF RequestTrue
    <3>4. row[b].status \notin terminalStatuses
      BY <2>1, <3>2, <3>3 DEF JobTrue, OnTekton
    <3>5. QED BY <1>1, <2>3, <3>1, <3>2, <3>4 DEF Ordered
  <2>4. QED BY <2>2, <2>3
<1>6. QED BY <1>3, <1>4, <1>5 DEF Handler

LEMMA InsertOrdered ==
  ASSUME IInv, NEW r \in Replicas, NEW b \in Builds, NEW o \in Origins, Insert(r, b, o),
         NEW c \in Builds \ touched'
  PROVE  Ordered(c)
<1>1. /\ touched' = touched /\ snap' = snap /\ ~row[b].there
      /\ row' = [row EXCEPT ![b] = NewRow]
  BY DEF Insert, cycle
<1>2. row \in [Builds -> Rows] /\ RequestTrue(b) BY DEF IInv, Types, RowsOK, BuildTrue
<1>3. row[b].status = "PENDING" BY <1>1, <1>2 DEF RequestTrue
<1>4. NewRow.status = "PENDING" BY DEF NewRow, NoRow
<1>5. row'[c].status = row[c].status BY <1>1, <1>2, <1>3, <1>4
<1>6. QED BY <1>1, <1>5, QuietOrdered

LEMMA BeginCycleOrdered ==
  ASSUME IInv, NEW r \in Replicas, BeginCycle(r), NEW c \in Builds \ touched'
  PROVE  Ordered(c)
<1> DEFINE scope == {b \in Builds : InScope(b) /\ row[b].ids # {}}
<1>1. /\ touched' = touched /\ row' = row
      /\ snap' = [snap EXCEPT ![r] = [b \in Builds |-> IF b \in scope THEN row[b] ELSE NoRow]]
  BY DEF BeginCycle, table
<1>2. snap \in [Replicas -> [Builds -> Rows]] BY DEF IInv, Types, CyclesOK
<1>3. c \in scope => row[c].status \notin terminalStatuses BY DEF InScope
<1> HIDE DEF scope
<1>4. snap'[r][c] = IF c \in scope THEN row[c] ELSE NoRow BY <1>1, <1>2
<1>5. \A s \in Replicas : s # r => snap'[s][c] = snap[s][c] BY <1>1, <1>2
<1>6. NoRow.there = FALSE BY NoRowOK
<1>7. QED BY <1>1, <1>3, <1>4, <1>5, <1>6 DEF Ordered

\* The only replica drops its copy of the row with the write.
LEMMA UpdateBuildOrdered ==
  ASSUME OneReplica, IInv, OneView, NEW r \in Replicas, NEW b \in Builds,
         UpdateBuild(r, b), NEW c \in Builds \ touched'
  PROVE  Ordered(c)
<1>1. /\ touched' = touched /\ snap[r][b].there
      /\ snap' = [snap EXCEPT ![r] = [@ EXCEPT ![b] = NoRow]]
      /\ row' = row \/ row' = [row EXCEPT ![b] = WrittenRow(r, b)]
  BY DEF UpdateBuild
<1>2. /\ snap \in [Replicas -> [Builds -> Rows]] /\ row \in [Builds -> Rows]
      /\ NoRow.there = FALSE
  BY NoRowOK DEF IInv, Types, RowsOK, CyclesOK
<1>3. CASE c = b
  <2>1. row[b].status \notin terminalStatuses BY <1>1, <1>3 DEF OneView
  <2>2. \A s \in Replicas : snap'[s][b] = NoRow BY <1>1, <1>2 DEF OneReplica
  <2>3. QED BY <1>1, <1>2, <1>3, <2>1, <2>2 DEF Ordered
<1>4. CASE c # b
  <2>1. row'[c] = row[c] BY <1>1, <1>2, <1>4
  <2>2. \A s \in Replicas : snap'[s][c] = snap[s][c] BY <1>1, <1>2, <1>4
  <2>3. QED BY <1>1, <2>1, <2>2 DEF Ordered
<1>5. QED BY <1>3, <1>4

LEMMA CrashOrdered ==
  ASSUME IInv, NEW r \in Replicas, Crash(r), NEW c \in Builds \ touched'
  PROVE  Ordered(c)
<1>1. /\ touched' = touched /\ row' = row
      /\ snap' = [snap EXCEPT ![r] = [b \in Builds |-> NoRow]]
  BY DEF Crash, table
<1>2. snap \in [Replicas -> [Builds -> Rows]] /\ NoRow.there = FALSE
  BY NoRowOK DEF IInv, Types, CyclesOK
<1>3. \A s \in Replicas : snap'[s][c] \in {snap[s][c], NoRow} BY <1>1, <1>2
<1>4. QED BY <1>1, <1>2, <1>3 DEF Ordered

LEMMA OthersOrdered ==
  ASSUME IInv, NEW c \in Builds \ touched',
         \/ \E b \in Builds, s \in ApiStatuses : \E ids \in {row[b].ids, {}} : Update(b, s, ids)
         \/ \E b \in Builds : \E e \in EventsOf(b) : RunStep(b, e)
         \/ \E b \in Builds : JobStep(b) \/ Outgrow(b)
         \/ \E r \in Replicas : Query(r)
         \/ UNCHANGED vars
  PROVE  Ordered(c)
<1>1. row \in [Builds -> Rows] BY DEF IInv, Types, RowsOK
<1>2. ASSUME NEW b \in Builds, NEW s \in ApiStatuses, NEW ids \in {row[b].ids, {}},
             Update(b, s, ids)
      PROVE  Ordered(c)
  <2>1. /\ c \notin touched /\ c # b /\ snap' = snap
        /\ row' = [row EXCEPT ![b].status = s, ![b].ids = ids]
    BY <1>2 DEF Update, cycle
  <2>2. row'[c] = row[c] BY <1>1, <2>1
  <2>3. QED BY <2>1, <2>2 DEF Ordered
<1>3. CASE \/ \E b \in Builds : JobStep(b) \/ \E e \in EventsOf(b) : RunStep(b, e)
           \/ \E r \in Replicas : Query(r)
           \/ UNCHANGED vars
  <2>1. touched' = touched /\ snap' = snap /\ row' = row
    BY <1>3 DEF JobStep, RunStep, Query, vars, table, cycle
  <2>2. QED BY <2>1, QuietOrdered
<1>4. ASSUME NEW b \in Builds, Outgrow(b) PROVE Ordered(c)
  <2>1. touched' = touched /\ snap' = snap /\ row' = [row EXCEPT ![b].old = TRUE]
    BY <1>4 DEF Outgrow, cycle
  <2>2. row'[c].status = row[c].status BY <1>1, <2>1 DEF Rows
  <2>3. QED BY <2>1, <2>2, QuietOrdered
<1>5. QED BY <1>2, <1>3, <1>4

LEMMA OneViewNext ==
  ASSUME OneReplica, IInv, OneView, [Next]_vars
  PROVE  /\ OneView'
         /\ \A b \in Builds \ touched' :
              row[b].status \in terminalStatuses => row'[b].status = row[b].status
<1>1. ASSUME NEW c \in Builds \ touched' PROVE Ordered(c)
  <2>1. ASSUME NEW r \in Replicas, NEW b \in Builds, NEW o \in Origins, Insert(r, b, o)
        PROVE  Ordered(c)
    BY <2>1, InsertOrdered
  <2>2. ASSUME NEW b \in Builds, Handler(b) PROVE Ordered(c) BY <2>2, HandlerOrdered
  <2>3. ASSUME NEW r \in Replicas, BeginCycle(r) PROVE Ordered(c)
    BY <2>3, BeginCycleOrdered
  <2>4. ASSUME NEW r \in Replicas, NEW b \in Builds, UpdateBuild(r, b) PROVE Ordered(c)
    BY <2>4, UpdateBuildOrdered
  <2>5. ASSUME NEW r \in Replicas, Crash(r) PROVE Ordered(c) BY <2>5, CrashOrdered
  <2>6. QED BY <2>1, <2>2, <2>3, <2>4, <2>5, OthersOrdered DEF Next, Reconcile
<1>2. QED BY <1>1, OrderedView

\* With one replica at a time a finished status that no caller of Update has changed
\* is final: neither a cycle that read the row before nor the watch of a job takes it
\* back, whatever fails or crashes in between.
THEOREM FinishedIsFinal ==
  ASSUME OneReplica PROVE Spec => FinishedStays
<1>1. Init => OneView
  BY NoRowOK DEF Init, OneView
<1>2. IInv /\ OneView /\ [Next]_vars => OneView' BY OneViewNext
<1>3. IInv /\ OneView /\ [Next]_vars =>
        [\A b \in Builds \ touched' :
           row[b].status \in terminalStatuses => row'[b].status = row[b].status]_vars
  BY OneViewNext
<1>4. QED BY <1>1, <1>2, <1>3, Invariance, PTL DEF Spec, FinishedStays

-----------------------------------------------------------------------------
(* Builds whose runs have ended *)

\* Tekton is sent no more events of such a build, and its request writes no row.
LEMMA RequestIsOver ==
  ASSUME IInv, NEW b \in Builds, Over(b)
  PROVE  /\ caller[b] \notin {"none", "sending", "storing", "queued", "watching"}
         /\ row[b].there
<1>1. RequestTrue(b) BY DEF IInv, BuildTrue
<1>2. QED BY <1>1 DEF RequestTrue, Over, OnTekton

\* A step that leaves the row, the runs and what the cycles were told of b alone.
LEMMA KeptOver ==
  ASSUME NEW b \in Builds, Over(b), origin'[b] = origin[b], sent'[b] = sent[b],
         caller'[b] \in {caller[b], "lost"}, run'[b] = run[b],
         row'[b].status = row[b].status,
         \A r \in Replicas : ~Among("running", r, b)'
  PROVE  StaysOver(b)
BY DEF Over, OnTekton, StaysOver

LEMMA SameSeen ==
  ASSUME NEW b \in Builds, Over(b), \A r \in Replicas : seen'[r][b] = seen[r][b]
  PROVE  \A r \in Replicas : ~Among("running", r, b)'
BY DEF Over, Among

LEMMA HandlerOver ==
  ASSUME IInv, NEW c \in Builds, Handler(c), NEW b \in Builds, Over(b)
  PROVE  StaysOver(b)
<1> USE DEF Handler, SendEvent, StoreEventIds, TriggerJenkins, MarkProcessing,
            StoreJobResult
<1>1. UNCHANGED <<origin, run, seen>> BY DEF outside, cycle
<1>2. c # b BY RequestIsOver DEF Call
<1>3. caller'[b] = caller[b] BY <1>2 DEF Call, IInv, Types, CallsOK
<1>4. sent'[b] = sent[b] BY <1>2 DEF IInv, Types, CallsOK
<1>5. row'[b] = row[b] BY <1>2 DEF IInv, Types, RowsOK, table
<1>6. QED BY <1>1, <1>3, <1>4, <1>5, KeptOver, SameSeen

LEMMA InsertOver ==
  ASSUME IInv, NEW r \in Replicas, NEW c \in Builds, NEW o \in Origins, Insert(r, c, o),
         NEW b \in Builds, Over(b)
  PROVE  StaysOver(b)
<1>1. c # b BY RequestIsOver DEF Insert
<1>2. /\ UNCHANGED <<sent, run, seen>> /\ row' = [row EXCEPT ![c] = NewRow]
      /\ origin' = [origin EXCEPT ![c] = o]
  BY DEF Insert, outside, cycle
<1>3. caller'[b] = caller[b] BY <1>1 DEF Insert, Call, IInv, Types, CallsOK
<1>4. origin'[b] = origin[b] /\ row'[b] = row[b]
  BY <1>1, <1>2 DEF IInv, Types, CallsOK, RowsOK
<1>5. QED BY <1>2, <1>3, <1>4, KeptOver, SameSeen

LEMMA UpdateOver ==
  ASSUME IInv, NEW c \in Builds, NEW s \in ApiStatuses, NEW ids \in {row[c].ids, {}},
         Update(c, s, ids), NEW b \in Builds, Over(b)
  PROVE  StaysOver(b)
<1>1. UNCHANGED <<caller, origin, sent, run, seen>> /\ updates' = updates + 1
  BY DEF Update, request, outside, cycle
<1>2. updates \in Nat BY DEF IInv, Types, BoundsOK
<1>3. \A r \in Replicas : ~Among("running", r, b)' BY <1>1, SameSeen
<1>4. updates' > updates BY <1>1, <1>2
<1>5. QED BY <1>1, <1>3, <1>4 DEF StaysOver, Over, OnTekton

\* All that can run has ended: a run that has not begun has no event.
LEMMA RunsOver ==
  ASSUME IInv, NEW b \in Builds, Over(b)
  PROVE  \A e \in EventsOf(b) : run[b][e] # "running" /\ (run[b][e] = "none" => e \notin sent[b])
<1>1. RunsTrue(b) BY DEF IInv, BuildTrue
<1>2. QED BY <1>1 DEF RunsTrue, Over

LEMMA RunStepOver ==
  ASSUME IInv, NEW c \in Builds, NEW e \in EventsOf(c), RunStep(c, e),
         NEW b \in Builds, Over(b)
  PROVE  StaysOver(b)
<1>1. UNCHANGED <<row, caller, origin, sent, seen>>
  BY DEF RunStep, table, request, cycle
<1>2. c # b BY RunsOver DEF RunStep
<1>3. \E s \in RunStates : run' = [run EXCEPT ![c] = [@ EXCEPT ![e] = s]]
  BY DEF RunStep, RunStates
<1>4. run'[b] = run[b] BY <1>2, <1>3 DEF IInv, Types, OutsideOK
<1>5. QED BY <1>1, <1>4, KeptOver, SameSeen

LEMMA QueryOver ==
  ASSUME IInv, NEW r \in Replicas, Query(r), NEW b \in Builds, Over(b)
  PROVE  StaysOver(b)
<1>1. UNCHANGED <<row, caller, origin, sent, run>>
  BY DEF Query, table, request, outside
<1>2. CASE UNCHANGED seen BY <1>1, <1>2, KeptOver, SameSeen
<1>3. ASSUME NEW q \in AllEvents,
             seen' = [seen EXCEPT ![r][q[1]][q[2]] = run[q[1]][q[2]]]
      PROVE  StaysOver(b)
  <2> DEFINE c == q[1]
             d == q[2]
  <2>1. c \in Builds /\ d \in EventsOf(c) BY PairsAreEvents
  <2>2. seen' = [seen EXCEPT ![r] =
                 [seen[r] EXCEPT ![c] = [seen[r][c] EXCEPT ![d] = run[c][d]]]]
    BY <1>3
  <2> HIDE DEF c, d
  <2>3. /\ DOMAIN seen = Replicas /\ \A s \in Replicas : DOMAIN seen[s] = Builds
        /\ \A s \in Replicas, x \in Builds : seen[s][x] \in [EventsOf(x) -> RunStates]
    BY DEF IInv, Types, CyclesOK
  <2>4. \A s \in Replicas : s # r => seen'[s] = seen[s] BY <2>2, <2>3
  <2>5. /\ seen'[r][c] = [seen[r][c] EXCEPT ![d] = run[c][d]]
        /\ \A x \in Builds : x # c => seen'[r][x] = seen[r][x]
    BY <2>1, <2>2, <2>3
  <2>6. ASSUME NEW s \in Replicas, NEW e \in EventsOf(b)
        PROVE  seen'[s][b][e] \in {seen[s][b][e], run[b][e]}
    <3>1. CASE s = r /\ b = c BY <2>3, <2>5, <3>1
    <3>2. CASE s # r \/ b # c BY <2>4, <2>5, <3>2
    <3>3. QED BY <3>1, <3>2
  <2>7. \A s \in Replicas : ~Among("running", s, b)'
    BY <2>6, RunsOver DEF Over, Among, EventsOf
  <2>8. QED BY <1>1, <2>7, KeptOver
<1>4. QED
  <2>1. todo[r] \subseteq AllEvents BY DEF IInv, Types, CyclesOK
  <2>2. QED BY <1>2, <1>3, <2>1 DEF Query

\* A cycle that was told of no running run decides for SUCCESS or FAILURE.
LEMMA UpdateBuildOver ==
  ASSUME IInv, NEW r \in Replicas, NEW c \in Builds, UpdateBuild(r, c),
         NEW b \in Builds, Over(b)
  PROVE  StaysOver(b)
<1>1. UNCHANGED <<caller, origin, sent, run>>
  BY DEF UpdateBuild, request, outside
<1>2. /\ seen' = [seen EXCEPT ![r] = [@ EXCEPT ![c] = [e \in EventsOf(c) |-> "none"]]]
      /\ \/ row' = row
         \/ /\ row' = [row EXCEPT ![c] = WrittenRow(r, c)]
            /\ determineStatus(r, c) # ""
  BY DEF UpdateBuild
<1>3. /\ DOMAIN seen = Replicas /\ \A s \in Replicas : DOMAIN seen[s] = Builds
      /\ row \in [Builds -> Rows]
  BY DEF IInv, Types, CyclesOK, RowsOK
<1>4. \A s \in Replicas : \A e \in EventsOf(b) :
        seen'[s][b][e] = seen[s][b][e] \/ seen'[s][b][e] = "none"
  <2>1. CASE c = b
    <3>1. \A s \in Replicas : seen'[s][b] = IF s = r THEN [e \in EventsOf(c) |-> "none"]
                                                   ELSE seen[s][b]
      BY <1>2, <1>3, <2>1
    <3>2. QED BY <2>1, <3>1
  <2>2. CASE c # b
    <3>1. \A s \in Replicas : seen'[s][b] = seen[s][b] BY <1>2, <1>3, <2>2
    <3>2. QED BY <3>1
  <2>3. QED BY <2>1, <2>2
<1>5. \A s \in Replicas : ~Among("running", s, b)' BY <1>4 DEF Over, Among, EventsOf
<1>6. row'[b].status = row[b].status \/ row'[b].status \in terminalStatuses
  <2>1. CASE row' = row BY <2>1
  <2>2. CASE c # b BY <1>2, <1>3, <2>2
  <2>3. CASE c = b /\ row' = [row EXCEPT ![c] = WrittenRow(r, c)] /\ determineStatus(r, c) # ""
    <3>1. determineStatus(r, c) \in {"SUCCESS", "FAILURE"}
      BY <2>3 DEF determineStatus, Over
    <3>2. row'[c].status = determineStatus(r, c) BY <1>3, <2>3 DEF WrittenRow, Rows
    <3>3. QED BY <2>3, <3>1, <3>2 DEF terminalStatuses
  <2>4. QED BY <1>2, <2>1, <2>2, <2>3
<1>7. QED BY <1>1, <1>5, <1>6 DEF StaysOver, Over, OnTekton

LEMMA CrashOver ==
  ASSUME IInv, NEW r \in Replicas, Crash(r), NEW b \in Builds, Over(b)
  PROVE  StaysOver(b)
<1>1. UNCHANGED <<row, origin, sent, run>> /\ seen' = [seen EXCEPT ![r] = Unknown]
  BY DEF Crash, table, outside
<1>2. caller'[b] \in {caller[b], "lost"} BY DEF Crash
<1>3. DOMAIN seen = Replicas BY DEF IInv, Types, CyclesOK
<1>4. \A s \in Replicas : seen'[s][b] = seen[s][b] \/ seen'[s][b] = Unknown[b]
  BY <1>1, <1>3
<1>5. \A e \in EventsOf(b) : Unknown[b][e] = "none" BY DEF Unknown
<1>6. \A s \in Replicas : ~Among("running", s, b)'
  BY <1>4, <1>5 DEF Over, Among, EventsOf
<1>7. QED BY <1>1, <1>2, <1>6, KeptOver

LEMMA OverNext ==
  ASSUME IInv, [Next]_vars, NEW b \in Builds, Over(b)
  PROVE  StaysOver(b)
<1>1. CASE UNCHANGED vars
  <2>1. UNCHANGED <<row, caller, origin, sent, run, seen>>
    BY <1>1 DEF vars, table, request, outside, cycle
  <2>2. QED BY <2>1, KeptOver, SameSeen
<1>2. ASSUME NEW c \in Builds, NEW r \in Replicas, NEW o \in Origins, Insert(r, c, o)
      PROVE  StaysOver(b)
  BY <1>2, InsertOver
<1>3. ASSUME NEW c \in Builds, Handler(c) PROVE StaysOver(b) BY <1>3, HandlerOver
<1>4. ASSUME NEW c \in Builds, NEW s \in ApiStatuses, NEW ids \in {row[c].ids, {}},
             Update(c, s, ids)
      PROVE  StaysOver(b)
  BY <1>4, UpdateOver
<1>5. ASSUME NEW c \in Builds, NEW e \in EventsOf(c), RunStep(c, e) PROVE StaysOver(b)
  BY <1>5, RunStepOver
<1>6. ASSUME NEW c \in Builds, JobStep(c) \/ Outgrow(c) PROVE StaysOver(b)
  <2>1. UNCHANGED <<caller, origin, sent, run, seen>>
    BY <1>6 DEF JobStep, Outgrow, request, outside, cycle
  <2>2. row' = row \/ row' = [row EXCEPT ![c].old = TRUE]
    BY <1>6 DEF JobStep, Outgrow, table
  <2>3. row'[b].status = row[b].status BY <2>2 DEF IInv, Types, RowsOK, Rows
  <2>4. QED BY <2>1, <2>3, KeptOver, SameSeen
<1>7. ASSUME NEW r \in Replicas, BeginCycle(r) PROVE StaysOver(b)
  <2>1. UNCHANGED <<row, caller, origin, sent, run, seen>>
    BY <1>7 DEF BeginCycle, table, request, outside
  <2>2. QED BY <2>1, KeptOver, SameSeen
<1>8. ASSUME NEW r \in Replicas, Query(r) \/ Crash(r) PROVE StaysOver(b)
  BY <1>8, QueryOver, CrashOver
<1>9. ASSUME NEW r \in Replicas, NEW c \in Builds, UpdateBuild(r, c) PROVE StaysOver(b)
  BY <1>9, UpdateBuildOver
<1>10. QED
  BY <1>1, <1>2, <1>3, <1>4, <1>5, <1>6, <1>7, <1>8, <1>9 DEF Next, Reconcile

\* Any number of replicas may write old copies of a row back: once its runs have ended
\* and no cycle knows one that ran, they write only finished statuses.
THEOREM StaleWritesFade == Spec => OverIsOver
<1>1. IInv /\ [Next]_vars => [\A b \in Builds : Over(b) => StaysOver(b)]_vars
  BY OverNext
<1>2. QED BY <1>1, Invariance, PTL DEF Spec, OverIsOver

=============================================================================
