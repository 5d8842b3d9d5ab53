------------------------------- MODULE Monitoring -------------------------------
(***************************************************************************)
(* What an operator of the platform sees: the summary of the invocations   *)
(* and the row of a worker.  The two share no state, so that a behaviour   *)
(* moves one of them and leaves the other as it was: what is watched.      *)
(***************************************************************************)
EXTENDS WorkerHeartbeat, PlatformMetrics

VARIABLE watched

vars == <<watched, heartbeatVars, metricsVars>>

Init ==
  /\ watched \in {"worker", "invocations"}
  /\ HeartbeatInit
  /\ MetricsInit

WorkerMoves(A) == watched = "worker" /\ A /\ UNCHANGED <<watched, metricsVars>>

Next ==
  \/ WorkerMoves(HeartbeatNext)
  \/ watched = "invocations" /\ MetricsNext /\ UNCHANGED <<watched, heartbeatVars>>

(* The event loop of a worker runs its heartbeat, and time passes. *)
Fairness ==
  /\ WF_vars(WorkerMoves(heartbeat_begins))
  /\ WF_vars(WorkerMoves(heartbeat_loads))
  /\ WF_vars(WorkerMoves(record_heartbeat))
  /\ WF_vars(WorkerMoves(Tick))

Spec == Init /\ [][Next]_vars /\ Fairness
================================================================================
