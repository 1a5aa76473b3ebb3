----------------------------- MODULE Retention -----------------------------
(***************************************************************************)
(* What spec.ttlSecondsAfterFinished promises of a MacBuild                  *)
(* (api/v1alpha1/macbuild_types.go): "Seconds to retain the build resource   *)
(* after it has finished (succeeded or failed). After this time, it will be  *)
(* automatically deleted. If unset, it will be kept indefinitely."           *)
(*                                                                           *)
(* age[b] is the time since b first finished, Nil before; it saturates one   *)
(* tick after the TTL.                                                       *)
(***************************************************************************)
EXTENDS Integers

CONSTANTS Builds, TTL
VARIABLES age, gone

vars == <<age, gone>>

Nil == -1

Init ==
  /\ age = [b \in Builds |-> Nil]
  /\ gone = [b \in Builds |-> FALSE]

Elapsed(b) == IF age[b] = Nil \/ age[b] >= TTL[b] + 1 THEN age[b] ELSE age[b] + 1

Tick ==
  /\ age' = [b \in Builds |-> Elapsed(b)]
  /\ UNCHANGED gone

Finish(b) ==
  /\ ~gone[b]
  /\ age[b] = Nil
  /\ age' = [age EXCEPT ![b] = 0]
  /\ UNCHANGED gone

Delete(b) ==
  /\ TTL[b] # Nil
  /\ age[b] > TTL[b]
  /\ gone' = [gone EXCEPT ![b] = TRUE]
  /\ UNCHANGED age

Next == Tick \/ \E b \in Builds : Finish(b) \/ Delete(b)

Spec == Init /\ [][Next]_vars

=============================================================================
