-------------------------------- MODULE Platform --------------------------------
(***************************************************************************)
(* The invocation path of the platform: clients create invocations,        *)
(* dispatchers publish outbox rows to the Redis Stream, workers consume    *)
(* the stream, execute, retry and recover the work of lost workers.        *)
(***************************************************************************)
EXTENDS Dispatcher, Worker

vars == <<storeVars, streamVars, dispatcherVars, workerVars, faults>>

Init ==
  /\ StoreInit
  /\ StreamInit
  /\ DispatcherInit
  /\ WorkerInit
  /\ faults = 0

(* Requests and the passing of time. *)
ClientStep ==
  /\ \E i \in Invocation : create_invocation(i) \/ deadline_passes(i)
  /\ UNCHANGED <<streamVars, dispatcherVars, workerVars, faults>>

BackoffStep ==
  /\ \E r \in AttemptRow : backoff_elapses(r)
  /\ UNCHANGED <<streamVars, dispatcherVars, workerVars, faults>>

WorkerStep(w) ==
  /\ \/ register_worker(w)
     \/ record_heartbeat(w)
     \/ heartbeat_ages(w)
     \/ LoopStep(w)
     \/ \E t \in tasks[w] : TaskStep(w, t)
     \/ WorkerFault(w)
  /\ UNCHANGED dispatcherVars

Next ==
  \/ ClientStep
  \/ BackoffStep
  \/ \E d \in DispatcherId :
       (DispatcherStep(d) \/ DispatcherFault(d)) /\ UNCHANGED workerVars
  \/ \E w \in Worker : WorkerStep(w)

Spec == Init /\ [][Next]_vars

(* What the scheduling guarantees: the dispatcher process and the loops    *)
(* and tasks of a live worker keep running, its heartbeat is written, the  *)
(* heartbeat of a dead worker ages, backoff delays elapse.  Nothing is     *)
(* promised about clients, deadlines or faults.                            *)
Fairness ==
  /\ WF_vars(BackoffStep)
  /\ \A d \in DispatcherId : WF_vars(DispatcherStep(d) /\ UNCHANGED workerVars)
  /\ \A w \in Worker :
       /\ WF_vars(register_worker(w) /\ UNCHANGED dispatcherVars)
       /\ WF_vars(record_heartbeat(w) /\ UNCHANGED dispatcherVars)
       /\ WF_vars(~Up(w) /\ heartbeat_ages(w) /\ UNCHANGED dispatcherVars)
       /\ WF_vars(LoopStep(w) /\ UNCHANGED dispatcherVars)
       /\ WF_vars((\E t \in tasks[w] : TaskStep(w, t)) /\ UNCHANGED dispatcherVars)

FairSpec == Spec /\ Fairness

--------------------------------------------------------------------------------
TypeOK ==
  /\ StoreTypeOK
  /\ StreamTypeOK(AttemptRow)
  /\ DispatcherTypeOK
  /\ WorkerTypeOK
  /\ faults \in 0..MaxFaults

--------------------------------------------------------------------------------
(* Properties that hold whatever faults happen. *)

(* The attempt rows of an invocation are numbered 1 to attempt_count       *)
(* without gap: the insert of mark_running never meets the unique          *)
(* constraint on (invocation_id, attempt_number).                          *)
AttemptLedger ==
  \A i \in Invocation, n \in AttemptNumber :
    attempt_status[<<i, n>>] # "NONE" <=> n <= attempt_count[i]

(* No task runs ahead of its invocation: a task never names an attempt     *)
(* that mark_running would refuse by raising, which would leave the        *)
(* message in the pending list of a live worker.                           *)
NoFutureTask ==
  \A w \in Worker : \A t \in tasks[w] :
    t.at = "received" => TaskVerdict(t) # "raise"

(* The outbox is truthful: a row says published only if its message is in  *)
(* the stream, although the dispatcher publishes a whole batch before it   *)
(* commits and any publish may fail.                                       *)
PublishedIsInStream ==
  \A r \in AttemptRow :
    dispatches[r] = "published" => \E m \in 1..Len(stream) : stream[m] = r

--------------------------------------------------------------------------------
(* Properties that hold while no live worker is taken for dead: the kinds  *)
(* "stall" and "heartbeat" do not happen.                                  *)

(* The invocation row and its attempt rows agree: an attempt is RUNNING    *)
(* exactly when it is the last one and its invocation is RUNNING.          *)
RunningAttemptIsLast ==
  \A i \in Invocation, n \in AttemptNumber :
    attempt_status[<<i, n>>] = "RUNNING"
      <=> status[i] = "RUNNING" /\ n = attempt_count[i]

(* mark_running has no limit of its own, yet no invocation is started more *)
(* often than max_attempts: the retry policy and the recovery together     *)
(* keep the count.                                                         *)
AttemptBudget == \A i \in Invocation : attempt_count[i] <= MaxAttempts

(* Duplicate deliveries and reclaims never lead to two executions of one   *)
(* invocation at the same time, which would share its input, result and    *)
(* log files.                                                              *)
Executing(w, i) ==
  {t \in tasks[w] : t.at \in {"running", "executed"} /\ InvocationOf(t) = i}

ExclusiveExecution ==
  \A v, w \in Worker, i \in Invocation :
    \A t \in Executing(v, i), u \in Executing(w, i) : v = w /\ t = u

(* completed_at, on which the metrics rely, is set exactly on the          *)
(* invocations that ended.                                                 *)
CompletedIffTerminal ==
  \A i \in Invocation : completed_at[i] <=> is_terminal_status(status[i])

(* The status a client has read as final never changes again. *)
TerminalIsFinal ==
  [][\A i \in Invocation : is_terminal_status(status[i]) => status'[i] = status[i]]_vars

(* The platform keeps the contract of InvocationContract: the columns      *)
(* status and attempt_count that clients see move only as it allows.       *)
Contract == INSTANCE InvocationContract

KeepsContract == Contract!Spec

(* Delivery is at least once: a message leaves the pending list, or its    *)
(* task passes mark_running, only when its invocation has ended or has     *)
(* started the attempt the message is for.                                 *)
Message == 1..Len(stream)

Served(m) ==
  \/ is_terminal_status(status[stream[m][1]])
  \/ stream[m][2] <= attempt_count[stream[m][1]]

AcknowledgedAreServed ==
  /\ \A m \in Message : m <= cursor /\ pending[m] = NoWorker => Served(m)
  /\ \A w \in Worker : \A t \in tasks[w] : t.at # "received" => Served(t.msg)

--------------------------------------------------------------------------------
(* Properties about losing work, for the faults a worker pool is built for:*)
(* crashes of workers and dispatchers and failed publishes.                *)

(* No invocation hangs in RUNNING, however many workers recover at a time: *)
(* the worker of its attempt executes it, or is dead with a row that       *)
(* recovery will select.                                                   *)
RunningIsOwned ==
  \A i \in Invocation :
    status[i] = "RUNNING" =>
      \E w \in Worker :
        /\ attempt_worker[<<i, attempt_count[i]>>] = w
        /\ \/ \E t \in Executing(w, i) : t.attempt = attempt_count[i]
           \/ ~Up(w) /\ worker_status[w] = "ONLINE"

(* What will bring invocation i to its next step: an unpublished outbox    *)
(* row for its next attempt, an undelivered message for it, or a pending   *)
(* message that a task of its consumer is working on or that recovery will *)
(* find, because the consumer is dead and its row is not OFFLINE.          *)
Carried(i) ==
  LET next == <<i, attempt_count[i] + 1>>
  IN  \/ next \in AttemptRow /\ dispatches[next] \in {"delayed", "available"}
      \/ \E m \in Undelivered : stream[m] = next
      \/ \E m \in MessageId, w \in Worker :
           /\ pending[m] = w
           /\ stream[m][1] = i
           /\ \/ \E t \in tasks[w] : t.msg = m
              \/ ~Up(w) /\ worker_status[w] = "ONLINE"

(* No accepted invocation is stranded, at any moment. *)
NothingStranded ==
  \A i \in Invocation :
    status[i] \in {"QUEUED", "RUNNING", "RETRYING"} => Carried(i)

(* Weaker, for pools in which two workers recover the same dead worker:    *)
(* something that can still act refers to every accepted invocation.       *)
NothingForgotten ==
  \A i \in Invocation :
    status[i] \in {"QUEUED", "RUNNING", "RETRYING"} =>
      \/ \E n \in AttemptNumber : dispatches[<<i, n>>] \in {"delayed", "available"}
      \/ \E m \in Undelivered : stream[m][1] = i
      \/ \E m \in MessageId : pending[m] # NoWorker /\ stream[m][1] = i
      \/ \E w \in Worker : \E t \in tasks[w] : InvocationOf(t) = i

(* Once a worker is marked OFFLINE, and so invisible to recovery, it has   *)
(* neither a pending message nor a RUNNING attempt left.                   *)
OfflineMeansRecovered ==
  \A w \in Worker :
    worker_status[w] = "OFFLINE" =>
      PendingOf(w) = {} /\ find_running_attempts({w}) = {}

(* A worker never has more than max_concurrency tasks in hand, new and     *)
(* reclaimed ones together.                                                *)
BoundedConcurrency ==
  \A w \in Worker : Cardinality(tasks[w]) <= MaxConcurrency

(* Every accepted invocation ends. *)
EveryInvocationEnds ==
  \A i \in Invocation : status[i] = "QUEUED" ~> is_terminal_status(status[i])

(* Every message leaves the pending list. *)
PendingDrains ==
  \A m \in MessageId : pending[m] # NoWorker ~> pending[m] = NoWorker

(* Every outbox row is published in the end, also that of an invocation    *)
(* that has ended in the meantime.                                         *)
OutboxDrains ==
  \A r \in AttemptRow : dispatches[r] = "available" ~> dispatches[r] = "published"
================================================================================
