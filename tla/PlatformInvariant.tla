--------------------------- MODULE PlatformInvariant ---------------------------
(***************************************************************************)
(* The inductive invariants from which PlatformProofs derives the          *)
(* properties of Platform.  LedgerInvariant holds whatever faults happen;  *)
(* OwnershipInvariant while no live worker is taken for dead;              *)
(* BatchInvariant while, besides, no call fails in the middle of a batch;  *)
(* CrashInvariant while workers only crash; CarryInvariant while, besides, *)
(* no two of them recover the same dead worker at a time.                  *)
(***************************************************************************)
EXTENDS Platform

(* A message that was delivered is in the stream; a task works on a        *)
(* delivered message, and once it runs it has an attempt of its invocation.*)
TaskFits(t) ==
  /\ t.msg <= cursor
  /\ t.at \in {"running", "executed"} => t.attempt \in 1..attempt_count[InvocationOf(t)]
  /\ t.at = "executed" => t.result # "NONE"

TaskShape ==
  /\ \A m \in MessageId : pending[m] # NoWorker => m <= cursor
  /\ \A w \in Worker : \A t \in tasks[w] : TaskFits(t)

(* An outbox row is for an attempt that was started, or for the next one   *)
(* while none is running.                                                  *)
OutboxShape ==
  \A i \in Invocation, n \in AttemptNumber :
    dispatches[<<i, n>>] # "NONE" =>
      /\ status[i] # "ABSENT"
      /\ n <= attempt_count[i] + 1
      /\ status[i] = "RUNNING" => n <= attempt_count[i]

(* Every message, and every row a dispatcher holds, has its outbox row; a  *)
(* row marked as sent is in the stream.                                    *)
StreamShape ==
  /\ \A m \in Message : dispatches[stream[m]] # "NONE"
  /\ \A d \in DispatcherId :
       /\ \A r \in held[d] \cup batch[d] \cup sent[d] : dispatches[r] # "NONE"
       /\ \A r \in sent[d] : \E m \in Message : stream[m] = r

(* The attempts a recovery has selected exist. *)
LostExist ==
  \A w \in Worker : \A v \in lost[w] : attempt_status[v.row] # "NONE"

LedgerInvariant ==
  /\ TypeOK
  /\ TaskShape
  /\ AttemptLedger
  /\ OutboxShape
  /\ StreamShape
  /\ PublishedIsInStream
  /\ LostExist

--------------------------------------------------------------------------------
(* No live worker is taken for dead. *)
Timely == "stall" \notin FaultKinds /\ "heartbeat" \notin FaultKinds

(* Only dead workers are stale, and a dead worker has no tasks. *)
OnlyDeadAreStale ==
  \A w \in Worker :
    /\ Up(w) => beating[w]
    /\ ~Up(w) => tasks[w] = {}
    /\ worker_status[w] = "ABSENT" <=> pc[w] = "new"
    /\ worker_status[w] = "ONLINE" /\ ~fresh[w] => pc[w] = "down"
    /\ \A v \in stale[w] : pc[v] = "down"

(* Open recovery transactions lock different workers, and what they have   *)
(* read of the attempts of these workers is still true.                    *)
InRecovery(w) == pc[w] \in {"load", "commit"}

RecoveryIsolated ==
  \A w \in Worker :
    /\ ~InRecovery(w) => lost[w] = {}
    /\ InRecovery(w) =>
         /\ \A x \in Worker :
              x # w /\ InRecovery(x) => stale[x] \cap stale[w] = {}
         /\ \A v \in lost[w] :
              /\ attempt_status[v.row] = "RUNNING"
              /\ attempt_worker[v.row] \in stale[w]
              /\ pc[w] = "commit" =>
                   (v.exhausted <=> attempt_count[v.row[1]] >= MaxAttempts)

(* A task that executes owns the running attempt of its invocation, and no *)
(* other task of the worker does.                                          *)
TasksOwnAttempts ==
  \A w \in Worker : \A t \in tasks[w] :
    t.at \in {"running", "executed"} =>
      /\ attempt_status[<<InvocationOf(t), t.attempt>>] = "RUNNING"
      /\ attempt_worker[<<InvocationOf(t), t.attempt>>] = w
      /\ \A u \in Executing(w, InvocationOf(t)) : u = t

(* Only an invocation with attempts left waits for one. *)
AttemptsLeft ==
  \A i \in Invocation :
    /\ attempt_count[i] <= MaxAttempts
    /\ status[i] \in {"ABSENT", "QUEUED", "RETRYING"} => attempt_count[i] < MaxAttempts

OwnershipInvariant ==
  /\ LedgerInvariant
  /\ OnlyDeadAreStale
  /\ RunningAttemptIsLast
  /\ RecoveryIsolated
  /\ TasksOwnAttempts
  /\ AttemptsLeft
  /\ CompletedIffTerminal
--------------------------------------------------------------------------------
(* No call of a live worker fails. *)
CallsSucceed == "call" \notin FaultKinds

(* The batch of worker w: every task of it is awaited, it exists only      *)
(* between the claim or the read and the end of gather, a claim call never *)
(* asks for more than claim_count leaves, and the tasks in hand are those  *)
(* the call has counted.                                                   *)
BatchFits(w) ==
  /\ IsFiniteSet(tasks[w])
  /\ \A t \in tasks[w] : t.awaited
  /\ tasks[w] # {} => pc[w] \in {"claim", "xclaim", "process"}
  /\ pc[w] \in {"load", "commit", "claim", "xclaim"} => stale[w] # {}
  /\ claimed[w] # 0 => pc[w] \in {"claim", "xclaim"} \/ (pc[w] = "process" /\ stale[w] # {})
  /\ claimed[w] <= claim_count
  /\ pc[w] \in {"claim", "xclaim"} => Cardinality(tasks[w]) <= claimed[w]
  /\ listed[w] # {} => pc[w] = "xclaim" /\ claimed[w] + Cardinality(listed[w]) <= claim_count
  /\ pc[w] = "process" => Cardinality(tasks[w]) <= MaxConcurrency

BatchInvariant == \A w \in Worker : BatchFits(w)

--------------------------------------------------------------------------------
(* The faults a worker pool is built for: crashes of workers and           *)
(* dispatchers and failed publishes.                                       *)
CrashesOnly == FaultKinds \subseteq {"crash", "publish", "dispatcher"}

(* Only dead workers are OFFLINE; a worker outside the recovery of others  *)
(* has selected none; no attempt of a stale worker is RUNNING after the    *)
(* commit, nor before it, but for those the transaction has selected.      *)
RecoverySettled(w) ==
  /\ worker_status[w] = "OFFLINE" => pc[w] = "down"
  /\ pc[w] # "stopping"
  /\ pc[w] \in {"new", "top", "read", "down"} => stale[w] = {}
  /\ IF InRecovery(w)
     THEN find_running_attempts(stale[w]) \subseteq {v.row : v \in lost[w]}
     ELSE find_running_attempts(stale[w]) = {}

(* A running invocation has an attempt. *)
RunningIsNumbered ==
  \A i \in Invocation : status[i] = "RUNNING" => attempt_count[i] \in AttemptNumber

CrashInvariant ==
  /\ OwnershipInvariant
  /\ AcknowledgedAreServed
  /\ \A w \in Worker : RecoverySettled(w)
  /\ RunningIsNumbered
  /\ RunningIsOwned

--------------------------------------------------------------------------------
(* No two workers recover the same dead worker at the same time. *)
Undisputed ==
  \A x, y \in Worker : x # y => stale[x] \cap stale[y] = {}

(* A task holds the message it works on, alone; a pending message is held  *)
(* by a task of its live consumer, or its consumer is dead and recovery    *)
(* will look at it.                                                        *)
HoldsOwn(w) ==
  \A t \in tasks[w] : /\ pending[t.msg] = w
                      /\ \A u \in tasks[w] : u.msg = t.msg => u = t

HeldBy(m, w) ==
  IF Up(w) THEN \E t \in tasks[w] : t.msg = m
           ELSE pc[w] = "down" /\ worker_status[w] = "ONLINE"

MessagesHeld ==
  /\ \A w \in Worker : HoldsOwn(w)
  /\ \A m \in MessageId, w \in Worker : pending[m] = w => HeldBy(m, w)

(* The recovery of worker w has left no message behind that it has passed: *)
(* a claim call that is not full has all the messages of the consumers it  *)
(* has visited, and before the workers are marked OFFLINE they have none.  *)
RecoveryComplete(w) ==
  /\ names[w] \subseteq stale[w]
  /\ \A m \in listed[w] : pending[m] \in stale[w]
  /\ pc[w] \in {"claim", "xclaim"} =>
       \A v \in stale[w] \ names[w] :
         claimed[w] + Cardinality(listed[w]) < claim_count => PendingOf(v) \subseteq listed[w]
  /\ pc[w] = "offline" \/ (pc[w] = "process" /\ claimed[w] < claim_count) =>
       \A v \in stale[w] : PendingOf(v) = {}

(* An invocation that waits for an attempt has its outbox row, or a        *)
(* message that mark_running will accept as a reclaimed one.               *)
Reclaimable(i) ==
  \E m \in MessageId, w \in Worker :
    /\ pending[m] = w /\ stream[m][1] = i
    /\ \/ pc[w] = "down"
       \/ \E t \in tasks[w] : t.msg = m /\ t.recovered /\ t.at = "received"

WaiterIsCalled(i) ==
  /\ status[i] = "ABSENT" => attempt_count[i] = 0
  /\ status[i] \in {"QUEUED", "RETRYING"} => scheduled_retry(i) \/ Reclaimable(i)

(* The attempt of a running invocation has a message, which is in the      *)
(* hands of its worker.                                                    *)
RunnerHasMessage(i) ==
  \E m \in MessageId, w \in Worker :
    /\ attempt_worker[<<i, attempt_count[i]>>] = w
    /\ pending[m] = w /\ stream[m][1] = i
    /\ \/ pc[w] = "down"
       \/ \E t \in tasks[w] : t.msg = m /\ t.at \in {"running", "executed"}

RunnerIsHeld(i) == status[i] = "RUNNING" => RunnerHasMessage(i)

CarryInvariant ==
  /\ CrashInvariant
  /\ BatchInvariant
  /\ MessagesHeld
  /\ \A w \in Worker : RecoveryComplete(w)
  /\ \A i \in Invocation : WaiterIsCalled(i) /\ RunnerIsHeld(i)
================================================================================
