----------------------------- MODULE SyncTask ------------------------------
(***************************************************************************)
(* What a client of the API is told of image sync tasks: their statuses      *)
(* (internal/database/schema/imagesynctask.go: "Task status: PENDING,        *)
(* PROCESSING, SUCCEEDED, FAILED") and retry counts ("Number of times the    *)
(* task has been retried").  A task that has ended has ended for good, and   *)
(* one that has failed was tried MaxRetries times.                           *)
(***************************************************************************)
EXTENDS Naturals

CONSTANTS Tasks, MaxRetries
VARIABLES status, retry

Init ==
  /\ status = [t \in Tasks |-> "NONE"]
  /\ retry = [t \in Tasks |-> 0]

Move(t, from, to) ==
  /\ status[t] = from
  /\ status' = [status EXCEPT ![t] = to]

Create(t)  == Move(t, "NONE", "PENDING") /\ UNCHANGED retry
Begin(t)   == Move(t, "PENDING", "PROCESSING") /\ UNCHANGED retry
Succeed(t) == Move(t, "PROCESSING", "SUCCEEDED") /\ UNCHANGED retry

CountTry(t) == retry' = [retry EXCEPT ![t] = @ + 1]

TryAgain(t) ==
  /\ retry[t] + 1 < MaxRetries
  /\ Move(t, "PROCESSING", "PENDING") /\ CountTry(t)

GiveUp(t) ==
  /\ retry[t] + 1 = MaxRetries
  /\ Move(t, "PROCESSING", "FAILED") /\ CountTry(t)

\* A restart: what was in processing is pending again, and that was no try.
Interrupt ==
  /\ status' = [t \in Tasks |-> IF status[t] = "PROCESSING"
                                  THEN "PENDING" ELSE status[t]]
  /\ UNCHANGED retry

Next ==
  \/ Interrupt
  \/ \E t \in Tasks : Create(t) \/ Begin(t) \/ Succeed(t) \/ TryAgain(t) \/ GiveUp(t)

Spec == Init /\ [][Next]_<<status, retry>>

=============================================================================
