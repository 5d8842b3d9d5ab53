--------------------------- MODULE InvocationContract ---------------------------
(***************************************************************************)
(* What the platform promises about an invocation, without queues, workers *)
(* or recovery: it is queued once accepted, executed at most MaxAttempts   *)
(* times, one execution at a time, and ends with exactly one outcome.      *)
(* Several invocations may move in one step, because recovery commits the  *)
(* fate of all attempts of the lost workers together.                      *)
(***************************************************************************)
EXTENDS Naturals

CONSTANTS Invocation, MaxAttempts

VARIABLES status, attempt_count

vars == <<status, attempt_count>>

Init ==
  /\ status = [i \in Invocation |-> "ABSENT"]
  /\ attempt_count = [i \in Invocation |-> 0]

Goes(i, from, to) == status[i] \in from /\ status'[i] \in to

Accept(i) == Goes(i, {"ABSENT"}, {"QUEUED"}) /\ attempt_count'[i] = attempt_count[i]

Start(i) ==
  /\ Goes(i, {"QUEUED", "RETRYING"}, {"RUNNING"})
  /\ attempt_count[i] < MaxAttempts
  /\ attempt_count'[i] = attempt_count[i] + 1

Retry(i) ==
  /\ Goes(i, {"RUNNING"}, {"RETRYING"})
  /\ attempt_count[i] < MaxAttempts
  /\ attempt_count'[i] = attempt_count[i]

Finish(i) ==
  /\ Goes(i, {"RUNNING"}, {"SUCCEEDED", "FAILED", "TIMEOUT"})
  /\ attempt_count'[i] = attempt_count[i]

Expire(i) ==
  /\ Goes(i, {"QUEUED", "RETRYING"}, {"TIMEOUT"})
  /\ attempt_count'[i] = attempt_count[i]

Stays(i) == status'[i] = status[i] /\ attempt_count'[i] = attempt_count[i]

Next ==
  \A i \in Invocation :
    Accept(i) \/ Start(i) \/ Retry(i) \/ Finish(i) \/ Expire(i) \/ Stays(i)

Spec == Init /\ [][Next]_vars
================================================================================
