------------------------------ MODULE Environment ------------------------------
(***************************************************************************)
(* What surrounds the code: the worker processes there can be and the      *)
(* faults that may strike them.  A run of the model checker chooses which  *)
(* kinds of fault happen and how many in all.                              *)
(***************************************************************************)
EXTENDS Naturals

CONSTANTS Worker,      \* worker processes; a restarted worker is a new one
          NoWorker,    \* the absence of a worker
          FaultKinds,  \* the kinds of fault that may happen
          MaxFaults    \* bound of the model: faults in one behaviour

(* "crash"      a worker process dies                                      *)
(* "stop"       a worker is interrupted (SIGINT) and shuts down            *)
(* "call"       a database or Redis call of a worker raises                *)
(* "heartbeat"  record_heartbeat raises, which ends the heartbeat loop     *)
(* "stall"      a live worker's heartbeat is older than the stale cutoff   *)
(* "publish"    XADD raises in the dispatcher                              *)
(* "dispatcher" the dispatcher dies or its transaction fails               *)
AllFaultKinds ==
  {"crash", "stop", "call", "heartbeat", "stall", "publish", "dispatcher"}

ASSUME EnvironmentAssumption ==
  /\ NoWorker \notin Worker
  /\ FaultKinds \subseteq AllFaultKinds
  /\ MaxFaults \in Nat

VARIABLE faults   \* how many faults have happened

fault(kind) ==
  /\ kind \in FaultKinds
  /\ faults < MaxFaults
  /\ faults' = faults + 1
================================================================================
