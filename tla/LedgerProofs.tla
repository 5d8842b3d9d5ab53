----------------------------- MODULE LedgerProofs ------------------------------
(***************************************************************************)
(* Lemmas about Platform, for every number of invocations, workers,        *)
(* dispatchers, attempts, messages and faults: every operation keeps the   *)
(* types of the variables, and LedgerInvariant is inductive.               *)
(***************************************************************************)
EXTENDS StepFacts

(* More time for every leaf than the default: the proof manager itself     *)
(* takes part of it.                                                       *)
USE SMTT(15), ZenonT(20), SMTT(30), Z3T(30)

(* Each database transaction keeps the types of the rows. *)

(* The insert of a new invocation and its outbox row is well typed. *)
LEMMA create_invocation_Type ==
  ASSUME NEW i \in Invocation, StoreTypeOK, create_invocation(i)
  PROVE  StoreTypeOK'
BY StoreAssumption DEF StoreTypeOK, create_invocation, InvocationStatus, DispatchState,
  AttemptRow, AttemptNumber

(* A passing deadline changes no type. *)
LEMMA deadline_passes_Type ==
  ASSUME NEW i \in Invocation, StoreTypeOK, deadline_passes(i)
  PROVE  StoreTypeOK'
BY DEF StoreTypeOK, deadline_passes

(* A row whose available_at is reached stays a row. *)
LEMMA backoff_elapses_Type ==
  ASSUME NEW r \in AttemptRow, StoreTypeOK, backoff_elapses(r)
  PROVE  StoreTypeOK'
BY DEF StoreTypeOK, backoff_elapses, DispatchState

(* mark_running writes a status, a count and an attempt of their types. *)
LEMMA mark_running_Type ==
  ASSUME NEW i \in Invocation, NEW w \in Worker, StoreTypeOK, mark_running(i, w)
  PROVE  StoreTypeOK'
BY StoreAssumption DEF StoreTypeOK, mark_running, InvocationStatus,
  InvocationAttemptStatus, AttemptRow, AttemptNumber

(* An expired invocation gets a status of InvocationStatus. *)
LEMMA mark_expired_Type ==
  ASSUME NEW i \in Invocation, StoreTypeOK, mark_expired(i)
  PROVE  StoreTypeOK'
BY DEF StoreTypeOK, mark_expired, InvocationStatus, TERMINAL_INVOCATION_STATUSES

(* mark_finished translates the result to a status of each enumeration. *)
LEMMA mark_finished_Type ==
  ASSUME NEW i \in Invocation, NEW n \in 0..AttemptBound, NEW result \in ExecutionResult \cup {"NONE"},
         StoreTypeOK, mark_finished(i, n, result), result # "NONE"
  PROVE  StoreTypeOK'
BY StoreAssumption, ZenonT(60) DEF StoreTypeOK, mark_finished, should_retry, AttemptStatusOf,
  ExecutionResult, InvocationStatus, TERMINAL_INVOCATION_STATUSES,
  InvocationAttemptStatus, DispatchState, AttemptRow, AttemptNumber

(* Recovery writes statuses of the two enumerations. *)
LEMMA write_lost_attempts_Type ==
  ASSUME NEW S, StoreTypeOK, write_lost_attempts(S)
  PROVE  StoreTypeOK'
BY DEF StoreTypeOK, write_lost_attempts, InvocationStatus, TERMINAL_INVOCATION_STATUSES,
  InvocationAttemptStatus

(* XREADGROUP moves the cursor within the stream. *)
LEMMA xreadgroup_Type ==
  ASSUME NEW w \in Worker, NEW k \in Nat, StreamTypeOK(AttemptRow), xreadgroup(w, k)
  PROVE  StreamTypeOK(AttemptRow)'
BY StreamAssumption DEF StreamTypeOK, xreadgroup, last_read

(* XACK removes a pending entry. *)
LEMMA xack_Type ==
  ASSUME NEW m \in MessageId, StreamTypeOK(AttemptRow), xack(m)
  PROVE  StreamTypeOK(AttemptRow)'
BY DEF StreamTypeOK, xack

(* XCLAIM gives entries to a worker. *)
LEMMA xclaim_Type ==
  ASSUME NEW w \in Worker, NEW M, StreamTypeOK(AttemptRow), xclaim(w, M)
  PROVE  StreamTypeOK(AttemptRow)'
BY DEF StreamTypeOK, xclaim

(* register_worker inserts a well-typed row. *)
LEMMA register_worker_Type ==
  ASSUME NEW w \in Worker, WorkerTypeOK, register_worker(w)
  PROVE  WorkerTypeOK'
BY DEF WorkerTypeOK, register_worker, LoopPoint

(* Heartbeats, late ones included, keep the types of the workers. *)
LEMMA heartbeat_Type ==
  ASSUME NEW w \in Worker, WorkerTypeOK,
         record_heartbeat(w) \/ heartbeat_ages(w) \/ heartbeat_loop_dies(w)
  PROVE  WorkerTypeOK'
BY ZenonT(60) DEF WorkerTypeOK, record_heartbeat, heartbeat_ages, heartbeat_loop_dies, loopVars, rowVars

(* A lost attempt pairs an attempt row with a decision. *)
LEMMA LostRecord ==
  ASSUME NEW r \in AttemptRow, NEW b \in BOOLEAN
  PROVE  [row |-> r, exhausted |-> b] \in [row : AttemptRow, exhausted : BOOLEAN]
BY Zenon

(* find_stale_workers and find_running_attempts select rows. *)
LEMMA recover_select_Type ==
  ASSUME NEW w \in Worker, WorkerTypeOK, recover_select(w)
  PROVE  WorkerTypeOK'
<1> DEFINE S == find_stale_workers
           L == {[row |-> r, exhausted |-> FALSE] : r \in find_running_attempts(S)}
<1>1. S \in SUBSET Worker
  BY DEF find_stale_workers
<1>2. find_running_attempts(S) \in SUBSET AttemptRow
  BY DEF find_running_attempts
<1>3. L \in SUBSET [row : AttemptRow, exhausted : BOOLEAN]
  BY <1>2, LostRecord, ZenonT(60)
<1>4. /\ pc' = [pc EXCEPT ![w] = "load"]
      /\ stale' = [stale EXCEPT ![w] = S]
      /\ lost' = [lost EXCEPT ![w] = L]
      /\ UNCHANGED <<worker_status, fresh, beating, tasks, names, listed, claimed, recovered_any>>
  BY DEF recover_select, rowVars
<1> HIDE DEF S, L
<1>. QED
  BY <1>1, <1>3, <1>4 DEF WorkerTypeOK, LoopPoint

(* The loop over the lost attempts decides on each of them. *)
LEMMA recover_load_Type ==
  ASSUME NEW w \in Worker, WorkerTypeOK, recover_load(w)
  PROVE  WorkerTypeOK'
<1> DEFINE R == {v.row : v \in lost[w]}
           L == lost_attempts(R)
<1>1. R \in SUBSET AttemptRow
  BY DEF WorkerTypeOK
<1>2. L \in SUBSET [row : AttemptRow, exhausted : BOOLEAN]
  <2> SUFFICES ASSUME NEW r \in R
               PROVE  [row |-> r, exhausted |-> attempt_count[r[1]] >= MaxAttempts]
                        \in [row : AttemptRow, exhausted : BOOLEAN]
    BY Zenon DEF lost_attempts
  <2>1. (attempt_count[r[1]] >= MaxAttempts) \in BOOLEAN
    OBVIOUS
  <2>. QED
    BY <1>1, <2>1, LostRecord
<1>3. /\ pc' = [pc EXCEPT ![w] = "commit"]
      /\ lost' = [lost EXCEPT ![w] = L]
      /\ UNCHANGED <<worker_status, fresh, beating, tasks, stale, names, listed, claimed,
                     recovered_any>>
  BY DEF recover_load, rowVars
<1> HIDE DEF L
<1>. QED
  BY <1>2, <1>3 DEF WorkerTypeOK, LoopPoint

(* The commit of recovery leaves the worker at a known place. *)
LEMMA recover_commit_Type ==
  ASSUME NEW w \in Worker, WorkerTypeOK, recover_commit(w)
  PROVE  WorkerTypeOK'
BY DEF WorkerTypeOK, recover_commit, rowVars, LoopPoint

(* XPENDING lists messages. *)
LEMMA claim_list_Type ==
  ASSUME NEW w \in Worker, WorkerTypeOK, claim_list(w)
  PROVE  WorkerTypeOK'
BY DEF WorkerTypeOK, claim_list, rowVars, LoopPoint, Oldest, PendingOf

(* parse_invocation_task makes tasks of messages. *)
LEMMA NewTask_Type ==
  ASSUME NEW M \in SUBSET MessageId, NEW b \in BOOLEAN
  PROVE  {NewTask(m, b) : m \in M} \in SUBSET Task
<1>1. 0 \in 0..AttemptBound
  BY StoreAssumption
<1> SUFFICES ASSUME NEW m \in MessageId PROVE NewTask(m, b) \in Task
  BY Zenon
<1>. QED
  BY <1>1, Zenon DEF NewTask, Task

(* Claimed messages become tasks. *)
LEMMA claim_take_Type ==
  ASSUME Counting, NEW w \in Worker, WorkerTypeOK, claim_take(w)
  PROVE  WorkerTypeOK'
<1> DEFINE M == claimable(listed[w])
           N == {NewTask(m, TRUE) : m \in M}
<1>1. M \in SUBSET MessageId
  BY DEF WorkerTypeOK, claimable
<1>2. Cardinality(M) \in Nat
  BY <1>1 DEF Counting
<1>3. N \in SUBSET Task
  BY <1>1, NewTask_Type, ZenonT(60)
<1>4. /\ pc' = [pc EXCEPT ![w] = "claim"]
      /\ tasks' = [tasks EXCEPT ![w] = tasks[w] \cup N]
      /\ claimed' = [claimed EXCEPT ![w] = claimed[w] + Cardinality(M)]
      /\ listed' = [listed EXCEPT ![w] = {}]
      /\ UNCHANGED <<worker_status, fresh, beating, stale, lost, names, recovered_any>>
  BY DEF claim_take, rowVars, WorkerTypeOK
<1> HIDE DEF M, N
<1>. QED
  BY <1>2, <1>3, <1>4 DEF WorkerTypeOK, LoopPoint

(* The steps that only move the loop of a worker keep its types. *)
LEMMA loop_only_Type ==
  ASSUME NEW w \in Worker, WorkerTypeOK,
         \/ recover_nothing(w) \/ claim_return(w) \/ recovered_batch_done(w)
         \/ read_nothing(w) \/ new_batch_done(w)
  PROVE  WorkerTypeOK'
<1>1. CASE recover_nothing(w)
  BY <1>1 DEF WorkerTypeOK, recover_nothing, rowVars, LoopPoint
<1>2. CASE claim_return(w)
  BY <1>2 DEF WorkerTypeOK, claim_return, rowVars, LoopPoint
<1>3. CASE recovered_batch_done(w)
  BY <1>3 DEF WorkerTypeOK, recovered_batch_done, rowVars, LoopPoint
<1>4. CASE read_nothing(w)
  BY <1>4 DEF WorkerTypeOK, read_nothing, rowVars, LoopPoint
<1>5. CASE new_batch_done(w)
  BY <1>5 DEF WorkerTypeOK, new_batch_done, rowVars, LoopPoint
<1>. QED
  BY <1>1, <1>2, <1>3, <1>4, <1>5

(* mark_workers_offline keeps the types of the workers. *)
LEMMA mark_workers_offline_Type ==
  ASSUME NEW w \in Worker, WorkerTypeOK, mark_workers_offline(w)
  PROVE  WorkerTypeOK'
BY DEF WorkerTypeOK, mark_workers_offline, EndIteration, LoopPoint

(* Messages that are read become tasks. *)
LEMMA read_new_tasks_Type ==
  ASSUME NEW w \in Worker, WorkerTypeOK, read_new_tasks(w)
  PROVE  WorkerTypeOK'
<1> DEFINE N == {NewTask(m, FALSE) : m \in next_messages(MaxConcurrency)}
<1>1. next_messages(MaxConcurrency) \in SUBSET MessageId
  BY DEF next_messages
<1>2. N \in SUBSET Task
  BY <1>1, NewTask_Type, ZenonT(60)
<1>3. /\ pc' = [pc EXCEPT ![w] = "process"]
      /\ tasks' = [tasks EXCEPT ![w] = tasks[w] \cup N]
      /\ UNCHANGED <<worker_status, fresh, beating, stale, lost, names, listed, claimed,
                     recovered_any>>
  BY DEF read_new_tasks, rowVars, WorkerTypeOK
<1> HIDE DEF N
<1>. QED
  BY <1>2, <1>3 DEF WorkerTypeOK, LoopPoint

(* A task that moves on is still a task of its worker. *)
LEMMA Becomes_Type ==
  ASSUME NEW w \in Worker, NEW t \in tasks[w], NEW u \in Task, WorkerTypeOK,
         Becomes(w, t, u), UNCHANGED <<rowVars, beating, loopVars>>
  PROVE  WorkerTypeOK'
BY DEF WorkerTypeOK, Becomes, rowVars, loopVars

(* What the steps of a task make of it is a task again. *)
LEMMA TaskUpdates ==
  ASSUME NEW t \in Task, NEW n \in 0..AttemptBound, NEW result \in ExecutionResult
  PROVE  /\ [t EXCEPT !.at = "ack"] \in Task
         /\ [t EXCEPT !.at = "running", !.attempt = n] \in Task
         /\ [t EXCEPT !.at = "executed", !.result = result] \in Task
         /\ [t EXCEPT !.awaited = FALSE] \in Task
BY ZenonT(60) DEF Task

(* Tasks that gather has abandoned are still tasks. *)
LEMMA Unawaited_Type ==
  ASSUME NEW S \in SUBSET Task
  PROVE  Unawaited(S) \in SUBSET Task
<1> SUFFICES ASSUME NEW x \in S PROVE [x EXCEPT !.awaited = FALSE] \in Task
  BY Zenon DEF Unawaited
<1>. QED
  BY ZenonT(60) DEF Task

(* A task that raises leaves tasks behind. *)
LEMMA Raise_Type ==
  ASSUME NEW w \in Worker, NEW t \in tasks[w], WorkerTypeOK, Raise(w, t)
  PROVE  WorkerTypeOK'
<1>1. tasks[w] \in SUBSET Task
  BY DEF WorkerTypeOK
<1>2. Unawaited(tasks[w] \ {t}) \in SUBSET Task
  BY <1>1, Unawaited_Type
<1>3. UNCHANGED <<worker_status, fresh, beating>>
  BY DEF Raise, rowVars
<1>4. CASE /\ tasks' = [tasks EXCEPT ![w] = Unawaited(tasks[w] \ {t})]
           /\ EndIteration(w, "top")
  BY <1>2, <1>3, <1>4, ZenonT(60) DEF WorkerTypeOK, EndIteration, LoopPoint
<1>5. CASE /\ tasks' = [tasks EXCEPT ![w] = tasks[w] \ {t}]
           /\ UNCHANGED loopVars
  BY <1>1, <1>3, <1>5 DEF WorkerTypeOK, loopVars
<1>. QED
  BY <1>4, <1>5, Zenon DEF Raise

(* Faults of the loop of a worker keep its types. *)
LEMMA loop_faults_Type ==
  ASSUME NEW w \in Worker, WorkerTypeOK,
         \/ loop_call_fails(w) \/ read_reply_lost(w) \/ crash(w) \/ interrupt(w)
         \/ mark_worker_offline(w)
  PROVE  WorkerTypeOK'
<1>1. CASE loop_call_fails(w)
  BY <1>1 DEF WorkerTypeOK, loop_call_fails, EndIteration, rowVars, LoopPoint
<1>2. CASE read_reply_lost(w)
  BY <1>2 DEF WorkerTypeOK, read_reply_lost, EndIteration, rowVars, LoopPoint
<1>3. CASE crash(w)
  BY <1>3 DEF WorkerTypeOK, crash, EndIteration, rowVars, LoopPoint
<1>4. CASE interrupt(w)
  BY <1>4, ZenonT(60) DEF WorkerTypeOK, interrupt, EndIteration, rowVars, LoopPoint
<1>5. CASE mark_worker_offline(w)
  BY <1>5 DEF WorkerTypeOK, mark_worker_offline, EndIteration, LoopPoint
<1>. QED
  BY <1>1, <1>2, <1>3, <1>4, <1>5, ZenonT(60)

(* Every step of a dispatcher keeps its types. *)
LEMMA dispatcher_Type ==
  ASSUME NEW d \in DispatcherId, DispatcherTypeOK, DispatcherStep(d) \/ DispatcherFault(d)
  PROVE  DispatcherTypeOK'
<1>1. CASE dispatch_select(d)
  BY <1>1 DEF DispatcherTypeOK, dispatch_select, due_rows
<1>2. ASSUME NEW r \in AttemptRow, publish_invocation(d, r) \/ publish_fails(d, r)
      PROVE  DispatcherTypeOK'
  BY <1>2 DEF DispatcherTypeOK, publish_invocation, publish_fails
<1>3. CASE dispatch_commit(d) \/ dispatch_abort(d)
  BY <1>3 DEF DispatcherTypeOK, dispatch_commit, dispatch_abort
<1>. QED
  BY <1>1, <1>2, <1>3 DEF DispatcherStep, DispatcherFault

(* LedgerInvariant is inductive.  First the initial states and the frame   *)
(* lemmas, then one lemma per group of actions.                            *)

(* The budget of faults is never exceeded. *)
LEMMA FaultCount ==
  ASSUME faults \in 0..MaxFaults, (\E kind \in AllFaultKinds : fault(kind)) \/ UNCHANGED faults
  PROVE  faults' \in 0..MaxFaults
BY EnvironmentAssumption DEF fault

(* LedgerInvariant holds at the start. *)
LEMMA Init_Ledger ==
  ASSUME Init
  PROVE  LedgerInvariant
<1> USE DEF Init, StoreInit, StreamInit, DispatcherInit, WorkerInit
<1>1. StoreTypeOK
  BY StoreAssumption DEF StoreTypeOK, InvocationStatus, InvocationAttemptStatus, DispatchState
<1>2. StreamTypeOK(AttemptRow)
  BY StreamAssumption DEF StreamTypeOK
<1>3. DispatcherTypeOK
  BY DEF DispatcherTypeOK
<1>4. WorkerTypeOK
  BY DEF WorkerTypeOK, LoopPoint
<1>5. TypeOK
  BY <1>1, <1>2, <1>3, <1>4, EnvironmentAssumption DEF TypeOK
<1>6. TaskShape /\ LostExist
  BY DEF TaskShape, LostExist
<1>7. AttemptLedger /\ OutboxShape /\ PublishedIsInStream
  BY DEF AttemptLedger, OutboxShape, PublishedIsInStream, AttemptRow, AttemptNumber
<1>8. StreamShape
  BY DEF StreamShape, Message
<1>. QED
  BY <1>5, <1>6, <1>7, <1>8, ZenonT(60) DEF LedgerInvariant

(* A step that leaves the rows, the stream and the dispatchers alone only  *)
(* has to account for the tasks and the lost attempts it makes.            *)
LEMMA WorkerOnly_Ledger ==
  ASSUME LedgerInvariant, WorkerTypeOK', faults' \in 0..MaxFaults,
         UNCHANGED <<storeVars, streamVars, dispatcherVars>>,
         \A w \in Worker : \A t \in tasks'[w] : TaskFits(t),
         \A w \in Worker : \A v \in lost'[w] : attempt_status[v.row] # "NONE"
  PROVE  LedgerInvariant'
<1>1. TypeOK'
  BY ZenonT(60) DEF LedgerInvariant, TypeOK, StoreTypeOK, StreamTypeOK, DispatcherTypeOK, storeVars,
    streamVars, dispatcherVars
<1>2. TaskShape'
  BY ZenonT(60) DEF LedgerInvariant, TaskShape, TaskFits, InvocationOf, storeVars, streamVars
<1>3. AttemptLedger' /\ OutboxShape' /\ PublishedIsInStream'
  BY DEF LedgerInvariant, AttemptLedger, OutboxShape, PublishedIsInStream, storeVars, streamVars
<1>4. StreamShape'
  BY DEF LedgerInvariant, StreamShape, Message, storeVars, streamVars, dispatcherVars
<1>5. LostExist'
  BY DEF LostExist, storeVars
<1>. QED
  BY <1>1, <1>2, <1>3, <1>4, <1>5, ZenonT(60) DEF LedgerInvariant

(* In particular, tasks and lost attempts may disappear. *)
LEMMA Shrinking_Ledger ==
  ASSUME LedgerInvariant, WorkerTypeOK', faults' \in 0..MaxFaults,
         UNCHANGED <<storeVars, streamVars, dispatcherVars>>,
         \A w \in Worker : tasks'[w] \subseteq tasks[w] /\ lost'[w] \subseteq lost[w]
  PROVE  LedgerInvariant'
BY WorkerOnly_Ledger DEF LedgerInvariant, TaskShape, LostExist

(* A step that only delivers, claims or acknowledges messages.             *)
LEMMA Delivery_Ledger ==
  ASSUME LedgerInvariant, WorkerTypeOK', faults' \in 0..MaxFaults,
         UNCHANGED <<storeVars, stream, dispatcherVars>>,
         \A w \in Worker : lost'[w] \subseteq lost[w],
         StreamTypeOK(AttemptRow)', cursor <= cursor',
         \A m \in MessageId : pending'[m] # NoWorker => m <= cursor',
         \A w \in Worker : \A t \in tasks'[w] :
           t \in tasks[w] \/ (t.at = "received" /\ t.msg <= cursor')
  PROVE  LedgerInvariant'
<1>1. TypeOK'
  BY ZenonT(60) DEF LedgerInvariant, TypeOK, StoreTypeOK, DispatcherTypeOK, storeVars, dispatcherVars
<1>2. TaskShape'
  <2>1. ASSUME NEW w \in Worker, NEW t \in tasks'[w]
        PROVE  TaskFits(t)'
    <3>1. CASE t \in tasks[w]
      <4>1. t \in Task /\ TaskFits(t)
        BY <3>1, ZenonT(60) DEF LedgerInvariant, TaskShape, TypeOK, WorkerTypeOK
      <4>2. t.msg \in Nat
        BY <4>1 DEF Task, MessageId
      <4>3. cursor \in Nat /\ cursor' \in Nat
        BY DEF LedgerInvariant, TypeOK, StreamTypeOK
      <4>. QED
        BY <4>1, <4>2, <4>3 DEF TaskFits, InvocationOf, storeVars
    <3>2. CASE t.at = "received" /\ t.msg <= cursor'
      BY <3>2, ZenonT(60) DEF TaskFits
    <3>. QED
      BY <3>1, <3>2, ZenonT(60)
  <2>. QED
    BY <2>1 DEF TaskShape
<1>3. AttemptLedger' /\ OutboxShape' /\ PublishedIsInStream' /\ LostExist'
  BY ZenonT(60) DEF LedgerInvariant, AttemptLedger, OutboxShape, PublishedIsInStream, LostExist, storeVars
<1>4. StreamShape'
  BY ZenonT(60) DEF LedgerInvariant, StreamShape, Message, storeVars, dispatcherVars
<1>. QED
  BY <1>1, <1>2, <1>3, <1>4, ZenonT(60) DEF LedgerInvariant

(* Steps of a worker that change neither rows nor messages keep the ledger. *)
LEMMA Quiet_Ledger ==
  ASSUME NEW w \in Worker, LedgerInvariant, QuietStep(w), UNCHANGED dispatcherVars
  PROVE  LedgerInvariant'
<1> DEFINE Shrinks == \A x \in Worker : tasks'[x] \subseteq tasks[x] /\ lost'[x] \subseteq lost[x]
           Faults == (\E kind \in AllFaultKinds : fault(kind)) \/ UNCHANGED faults
           Frame == UNCHANGED <<storeVars, streamVars>>
<1>1. WorkerTypeOK
  BY DEF LedgerInvariant, TypeOK
<1>2. WorkerTypeOK'
  BY <1>1, register_worker_Type, heartbeat_Type, loop_only_Type, claim_list_Type,
    mark_workers_offline_Type, loop_faults_Type, ZenonT(60) DEF QuietStep
<1>3. ASSUME register_worker(w) PROVE Shrinks /\ Faults /\ Frame
  BY <1>1, <1>3 DEF register_worker, WorkerTypeOK
<1>4. ASSUME record_heartbeat(w) PROVE Shrinks /\ Faults /\ Frame
  BY <1>1, <1>4, ZenonT(60) DEF record_heartbeat, loopVars, WorkerTypeOK
<1>5. ASSUME heartbeat_ages(w) PROVE Shrinks /\ Faults /\ Frame
  BY <1>1, <1>5, ZenonT(60) DEF heartbeat_ages, loopVars, AllFaultKinds, WorkerTypeOK
<1>6. ASSUME heartbeat_loop_dies(w) PROVE Shrinks /\ Faults /\ Frame
  BY <1>1, <1>6 DEF heartbeat_loop_dies, loopVars, AllFaultKinds, WorkerTypeOK
<1>7. ASSUME recover_nothing(w) PROVE Shrinks /\ Faults /\ Frame
  BY <1>1, <1>7, ZenonT(60) DEF recover_nothing, WorkerTypeOK
<1>8. ASSUME claim_list(w) PROVE Shrinks /\ Faults /\ Frame
  BY <1>1, <1>8, ZenonT(60) DEF claim_list, WorkerTypeOK
<1>9. ASSUME claim_return(w) PROVE Shrinks /\ Faults /\ Frame
  BY <1>1, <1>9 DEF claim_return, WorkerTypeOK
<1>10. ASSUME recovered_batch_done(w) PROVE Shrinks /\ Faults /\ Frame
  BY <1>1, <1>10, ZenonT(60) DEF recovered_batch_done, WorkerTypeOK
<1>11. ASSUME mark_workers_offline(w) PROVE Shrinks /\ Faults /\ Frame
  BY <1>1, <1>11, ZenonT(60) DEF mark_workers_offline, EndIteration, WorkerTypeOK
<1>12. ASSUME read_nothing(w) PROVE Shrinks /\ Faults /\ Frame
  BY <1>1, <1>12, ZenonT(60) DEF read_nothing, WorkerTypeOK
<1>13. ASSUME new_batch_done(w) PROVE Shrinks /\ Faults /\ Frame
  BY <1>1, <1>13, ZenonT(60) DEF new_batch_done, WorkerTypeOK
<1>14. ASSUME loop_call_fails(w) PROVE Shrinks /\ Faults /\ Frame
  BY <1>1, <1>14, ZenonT(60) DEF loop_call_fails, EndIteration, AllFaultKinds, WorkerTypeOK
<1>15. ASSUME crash(w) PROVE Shrinks /\ Faults /\ Frame
  BY <1>1, <1>15, ZenonT(60) DEF crash, EndIteration, AllFaultKinds, WorkerTypeOK
<1>16. ASSUME interrupt(w) PROVE Shrinks /\ Faults /\ Frame
  BY <1>1, <1>16 DEF interrupt, EndIteration, AllFaultKinds, WorkerTypeOK
<1>17. ASSUME mark_worker_offline(w) PROVE Shrinks /\ Faults /\ Frame
  BY <1>1, <1>17, ZenonT(60) DEF mark_worker_offline, EndIteration, WorkerTypeOK
<1>18. Shrinks /\ Faults /\ Frame
  BY <1>3, <1>4, <1>5, <1>6, <1>7, <1>8, <1>9, <1>10, <1>11, <1>12, <1>13, <1>14, <1>15, <1>16, <1>17, ZenonT(60) DEF QuietStep
<1> HIDE DEF Shrinks, Faults, Frame
<1>19. faults' \in 0..MaxFaults
  BY <1>18, FaultCount DEF Faults, LedgerInvariant, TypeOK
<1>. QED
  BY <1>2, <1>18, <1>19, Shrinking_Ledger DEF Shrinks, Frame

(* Selecting the attempts of stale workers keeps the ledger. *)
LEMMA recover_select_Ledger ==
  ASSUME NEW w \in Worker, LedgerInvariant, recover_select(w), UNCHANGED dispatcherVars
  PROVE  LedgerInvariant'
<1>1. WorkerTypeOK'
  BY recover_select_Type DEF LedgerInvariant, TypeOK
<1>2. \A x \in Worker : \A v \in lost'[x] : attempt_status[v.row] # "NONE"
  <2>1. /\ lost \in [Worker -> SUBSET [row : AttemptRow, exhausted : BOOLEAN]]
        /\ \A x \in Worker : \A v \in lost[x] : attempt_status[v.row] # "NONE"
    BY ZenonT(60) DEF LedgerInvariant, LostExist, TypeOK, WorkerTypeOK
  <2> DEFINE taken == {[row |-> r, exhausted |-> FALSE] :
                         r \in find_running_attempts(find_stale_workers)}
  <2>2. lost' = [lost EXCEPT ![w] = taken]
    BY DEF recover_select
  <2>3. \A v \in taken : attempt_status[v.row] # "NONE"
    <3>1. \A r \in find_running_attempts(find_stale_workers) : attempt_status[r] # "NONE"
      BY DEF find_running_attempts
    <3>2. ASSUME NEW v \in taken PROVE attempt_status[v.row] # "NONE"
      <4>1. PICK r \in find_running_attempts(find_stale_workers) :
              v = [row |-> r, exhausted |-> FALSE]
        BY Zenon
      <4>2. v.row = r
        BY <4>1
      <4>. QED
        BY <3>1, <4>2
    <3>. QED
      BY <3>2, ZenonT(60)
  <2> HIDE DEF taken
  <2>4. \A x \in Worker : lost'[x] = taken \/ lost'[x] = lost[x]
    BY <2>1, <2>2, ZenonT(60)
  <2>. QED
    BY <2>1, <2>3, <2>4
<1>3. faults' \in 0..MaxFaults /\ UNCHANGED <<storeVars, streamVars, tasks>>
  BY ZenonT(60) DEF recover_select, LedgerInvariant, TypeOK
<1>. QED
  BY <1>1, <1>2, <1>3, WorkerOnly_Ledger, ZenonT(60) DEF LedgerInvariant, TaskShape

(* Deciding on the lost attempts keeps the ledger. *)
LEMMA recover_load_Ledger ==
  ASSUME NEW w \in Worker, LedgerInvariant, recover_load(w), UNCHANGED dispatcherVars
  PROVE  LedgerInvariant'
<1>1. WorkerTypeOK'
  BY recover_load_Type DEF LedgerInvariant, TypeOK
<1>2. \A v \in lost_attempts({u.row : u \in lost[w]}) : attempt_status[v.row] # "NONE"
  BY DEF lost_attempts, LedgerInvariant, LostExist
<1>3. \A x \in Worker : \A v \in lost'[x] : attempt_status[v.row] # "NONE"
  BY <1>2, ZenonT(60) DEF recover_load, LedgerInvariant, LostExist, TypeOK, WorkerTypeOK
<1>4. faults' \in 0..MaxFaults /\ UNCHANGED <<storeVars, streamVars, tasks>>
  BY DEF recover_load, LedgerInvariant, TypeOK
<1>. QED
  BY <1>1, <1>3, <1>4, WorkerOnly_Ledger, ZenonT(60) DEF LedgerInvariant, TaskShape

(* Writing the lost attempts keeps the ledger. *)
LEMMA recover_commit_Ledger ==
  ASSUME NEW w \in Worker, LedgerInvariant, recover_commit(w), UNCHANGED dispatcherVars
  PROVE  LedgerInvariant'
<1>1. write_lost_attempts(lost[w]) /\ UNCHANGED <<streamVars, tasks, faults>>
  BY DEF recover_commit
<1>2. UNCHANGED <<attempt_count, expired, attempt_worker, dispatches>>
  BY <1>1 DEF write_lost_attempts
<1>3. TypeOK'
  BY <1>1, recover_commit_Type, write_lost_attempts_Type, ZenonT(60)
  DEF LedgerInvariant, TypeOK, StreamTypeOK, DispatcherTypeOK, streamVars, dispatcherVars
<1>4. TaskShape'
  BY <1>1, <1>2, ZenonT(60) DEF LedgerInvariant, TaskShape, TaskFits, InvocationOf, streamVars
<1>5. \A r \in AttemptRow : attempt_status'[r] # "NONE" <=> attempt_status[r] # "NONE"
  BY <1>1 DEF write_lost_attempts, LedgerInvariant, LostExist
<1>6. AttemptLedger'
  BY <1>2, <1>5, ZenonT(60) DEF LedgerInvariant, AttemptLedger, AttemptRow
<1>7. OutboxShape'
  <2>1. ASSUME NEW i \in Invocation
        PROVE  status'[i] = status[i] \/ status'[i] \in {"FAILED", "RETRYING"}
    BY <1>1, ZenonT(60) DEF write_lost_attempts
  <2>. QED
    BY <1>2, <2>1 DEF LedgerInvariant, OutboxShape
<1>8. StreamShape' /\ PublishedIsInStream'
  BY <1>1, <1>2 DEF LedgerInvariant, StreamShape, PublishedIsInStream, Message, streamVars,
    dispatcherVars
<1>9. LostExist'
  <2>1. \A x \in Worker : lost'[x] \subseteq lost[x]
    BY DEF recover_commit, LedgerInvariant, TypeOK, WorkerTypeOK
  <2>2. \A x \in Worker : \A v \in lost[x] : v.row \in AttemptRow
    BY DEF LedgerInvariant, TypeOK, WorkerTypeOK
  <2>. QED
    BY <1>5, <2>1, <2>2 DEF LedgerInvariant, LostExist
<1>. QED
  BY <1>3, <1>4, <1>6, <1>7, <1>8, <1>9, ZenonT(60) DEF LedgerInvariant

(* Claiming the messages of a dead consumer keeps the ledger. *)
LEMMA claim_take_Ledger ==
  ASSUME Counting, NEW w \in Worker, LedgerInvariant, claim_take(w), UNCHANGED dispatcherVars
  PROVE  LedgerInvariant'
<1>1. WorkerTypeOK /\ StreamTypeOK(AttemptRow) /\ listed[w] \subseteq MessageId
  BY DEF LedgerInvariant, TypeOK, WorkerTypeOK
<1>2. xclaim(w, listed[w]) /\ UNCHANGED <<storeVars, lost, faults>>
  BY DEF claim_take
<1>3. WorkerTypeOK' /\ StreamTypeOK(AttemptRow)' /\ faults' \in 0..MaxFaults
  BY <1>1, <1>2, claim_take_Type, xclaim_Type, ZenonT(60) DEF LedgerInvariant, TypeOK
<1>4. UNCHANGED <<stream, cursor>> /\ cursor <= cursor'
  BY <1>1, <1>2 DEF xclaim, StreamTypeOK
<1>5. \A m \in MessageId : pending[m] # NoWorker => m <= cursor'
  BY <1>4 DEF LedgerInvariant, TaskShape
<1>6. \A m \in MessageId : pending'[m] # NoWorker => m <= cursor'
  BY <1>2, <1>5, ZenonT(60) DEF xclaim, claimable
<1>7. ASSUME NEW x \in Worker, NEW t \in tasks'[x]
      PROVE  t \in tasks[x] \/ (t.at = "received" /\ t.msg <= cursor')
  <2>1. \/ t \in tasks[x]
        \/ \E m \in claimable(listed[w]) : t = NewTask(m, TRUE)
    BY <1>1, ZenonT(60) DEF claim_take, WorkerTypeOK
  <2>. QED
    BY <1>1, <1>5, <2>1 DEF NewTask, claimable
<1>. QED
  BY <1>2, <1>3, <1>4, <1>6, <1>7, Delivery_Ledger, ZenonT(60)

(* XREADGROUP delivers entries of the stream and changes nothing else. *)
LEMMA xreadgroup_Delivery ==
  ASSUME NEW w \in Worker, LedgerInvariant, xreadgroup(w, MaxConcurrency)
  PROVE  /\ StreamTypeOK(AttemptRow)' /\ UNCHANGED stream /\ cursor <= cursor'
         /\ \A m \in MessageId : pending'[m] # NoWorker => m <= cursor'
         /\ \A m \in next_messages(MaxConcurrency) : m <= cursor'
<1>1. StreamTypeOK(AttemptRow)
  BY DEF LedgerInvariant, TypeOK
<1>2. StreamTypeOK(AttemptRow)' /\ UNCHANGED stream
  BY <1>1, xreadgroup_Type, WorkerAssumption, ZenonT(60) DEF xreadgroup
<1>3. cursor \in Nat /\ cursor' \in Nat /\ cursor <= cursor' /\ cursor' = last_read(MaxConcurrency)
  BY <1>1, WorkerAssumption DEF xreadgroup, last_read, StreamTypeOK
<1>4. \A m \in next_messages(MaxConcurrency) : m <= cursor'
  BY <1>3 DEF next_messages
<1>5. \A m \in MessageId : pending[m] # NoWorker => m <= cursor'
  BY <1>3 DEF LedgerInvariant, TaskShape, MessageId
<1>6. \A m \in MessageId : pending'[m] # NoWorker => m <= cursor'
  BY <1>4, <1>5, ZenonT(60) DEF xreadgroup
<1>. QED
  BY <1>2, <1>3, <1>4, <1>6

(* Reading new messages keeps the ledger. *)
LEMMA read_new_tasks_Ledger ==
  ASSUME NEW w \in Worker, LedgerInvariant, read_new_tasks(w), UNCHANGED dispatcherVars
  PROVE  LedgerInvariant'
<1>1. xreadgroup(w, MaxConcurrency) /\ UNCHANGED <<storeVars, lost, faults>>
  BY DEF read_new_tasks
<1>2. WorkerTypeOK' /\ faults' \in 0..MaxFaults
  BY <1>1, read_new_tasks_Type, ZenonT(60) DEF LedgerInvariant, TypeOK
<1>3. ASSUME NEW x \in Worker, NEW t \in tasks'[x]
      PROVE  t \in tasks[x] \/ (t.at = "received" /\ t.msg <= cursor')
  <2>1. \/ t \in tasks[x]
        \/ \E m \in next_messages(MaxConcurrency) : t = NewTask(m, FALSE)
    BY ZenonT(60) DEF read_new_tasks, WorkerTypeOK, LedgerInvariant, TypeOK
  <2>. QED
    BY <1>1, <2>1, xreadgroup_Delivery DEF NewTask
<1>. QED
  BY <1>1, <1>2, <1>3, xreadgroup_Delivery, Delivery_Ledger, ZenonT(60)

(* A lost reply of XREADGROUP keeps the ledger. *)
LEMMA read_reply_lost_Ledger ==
  ASSUME NEW w \in Worker, LedgerInvariant, read_reply_lost(w), UNCHANGED dispatcherVars
  PROVE  LedgerInvariant'
<1>1. xreadgroup(w, MaxConcurrency) /\ UNCHANGED <<storeVars, tasks>> /\ fault("call")
  BY DEF read_reply_lost
<1>2. WorkerTypeOK' /\ faults' \in 0..MaxFaults
  BY <1>1, loop_faults_Type, FaultCount, ZenonT(60) DEF LedgerInvariant, TypeOK, AllFaultKinds
<1>3. \A x \in Worker : lost'[x] \subseteq lost[x]
  BY DEF read_reply_lost, EndIteration, LedgerInvariant, TypeOK, WorkerTypeOK
<1>. QED
  BY <1>1, <1>2, <1>3, xreadgroup_Delivery, Delivery_Ledger

(* A step of one task that moves it on and leaves the stream and the       *)
(* dispatchers alone.                                                      *)
LEMMA Becomes_Shape ==
  ASSUME LedgerInvariant, NEW w \in Worker, NEW t \in tasks[w], NEW u \in Task,
         Becomes(w, t, u), UNCHANGED streamVars, u.msg = t.msg, TaskFits(u)',
         \A i \in Invocation : attempt_count'[i] \in Nat /\ attempt_count[i] <= attempt_count'[i]
  PROVE  TaskShape'
<1>1. ASSUME NEW x \in Worker, NEW y \in tasks'[x]
      PROVE  TaskFits(y)'
  <2>1. y \in tasks[x] \/ y = u
    BY ZenonT(60) DEF Becomes, LedgerInvariant, TypeOK, WorkerTypeOK
  <2>2. CASE y \in tasks[x]
    <3>1. TaskFits(y) /\ InvocationOf(y) \in Invocation
      <4>1. TaskShape
        BY DEF LedgerInvariant
      <4>2. TaskFits(y)
        BY <2>2, <4>1 DEF TaskShape
      <4>. QED
        BY <2>2, <4>2, TaskMessage, ZenonT(60)
    <3>2. attempt_count[InvocationOf(y)] \in Nat
      <4>1. attempt_count \in [Invocation -> 0..AttemptBound]
        BY DEF LedgerInvariant, TypeOK, StoreTypeOK
      <4>. QED
        BY <3>1, <4>1
    <3>3. /\ InvocationOf(y)' = InvocationOf(y)
          /\ cursor' = cursor
      BY ZenonT(60) DEF InvocationOf, streamVars
    <3>4. /\ attempt_count'[InvocationOf(y)] \in Nat
          /\ attempt_count[InvocationOf(y)] <= attempt_count'[InvocationOf(y)]
      BY <3>1, ZenonT(60)
    <3>5. \A k \in 1..attempt_count[InvocationOf(y)] : k \in 1..attempt_count'[InvocationOf(y)]
      BY <3>2, <3>4
    <3>. QED
      BY <3>1, <3>3, <3>5, ZenonT(60) DEF TaskFits
  <2>. QED
    BY <2>1, <2>2, ZenonT(60)
<1>. QED
  BY <1>1, ZenonT(60) DEF TaskShape, LedgerInvariant, streamVars

(* mark_running numbers the new attempt so that the ledger is kept. *)
LEMMA task_starts_Ledger ==
  ASSUME NEW w \in Worker, NEW t \in tasks[w], LedgerInvariant, task_starts(w, t),
         UNCHANGED dispatcherVars
  PROVE  LedgerInvariant'
<1> PICK i \in Invocation : i = InvocationOf(t)
  BY TaskMessage
<1> PICK n : n = attempt_count[i] + 1
  OBVIOUS
<1> PICK u : u = [t EXCEPT !.at = "running", !.attempt = n]
  OBVIOUS
<1>1. t \in Task /\ i \in Invocation
  BY TaskMessage
<1>2. mark_running(i, w) /\ Becomes(w, t, u) /\ UNCHANGED <<rowVars, beating, loopVars, streamVars, faults>>
  BY DEF task_starts
<1>3. /\ n \in AttemptNumber /\ n = attempt_count[i] + 1
      /\ attempt_count' = [attempt_count EXCEPT ![i] = n]
      /\ attempt_status' = [attempt_status EXCEPT ![<<i, n>>] = "RUNNING"]
      /\ status' = [status EXCEPT ![i] = "RUNNING"]
      /\ UNCHANGED dispatches
  BY <1>2 DEF mark_running
<1>4. n \in 0..AttemptBound /\ n \in Nat /\ n \in 1..n
  BY <1>3 DEF AttemptNumber
<1>5. u \in Task
  BY <1>1, <1>4, TaskUpdates, ZenonT(60) DEF ExecutionResult
<1>6. u.msg = t.msg /\ u.at = "running" /\ u.attempt = n
  BY <1>1 DEF Task
<1>7. StoreTypeOK /\ WorkerTypeOK
  BY DEF LedgerInvariant, TypeOK
<1>8. TypeOK'
  <2>1. StoreTypeOK'
    BY <1>1, <1>2, <1>7, mark_running_Type
  <2>2. WorkerTypeOK'
    BY <1>2, <1>5, <1>7, Becomes_Type
  <2>. QED
    BY <1>2, <2>1, <2>2 DEF LedgerInvariant, TypeOK, StreamTypeOK, DispatcherTypeOK, streamVars,
      dispatcherVars
<1>9. TaskShape'
  <2>1. TaskFits(u)'
    <3>1. InvocationOf(u)' = i
      BY <1>2, <1>6 DEF InvocationOf, streamVars
    <3>2. attempt_count'[i] = n
      BY <1>1, <1>3, <1>7 DEF StoreTypeOK
    <3>3. t.msg <= cursor'
      BY <1>2 DEF LedgerInvariant, TaskShape, TaskFits, streamVars
    <3>. QED
      BY <1>4, <1>6, <3>1, <3>2, <3>3, ZenonT(60) DEF TaskFits
  <2>2. \A j \in Invocation : attempt_count'[j] \in Nat /\ attempt_count[j] <= attempt_count'[j]
    BY <1>1, <1>3, <1>4, <1>7 DEF StoreTypeOK
  <2>. QED
    BY <1>2, <1>5, <1>6, <2>1, <2>2, Becomes_Shape, ZenonT(60)
<1>10. AttemptLedger'
  <2>1. ASSUME NEW j \in Invocation, NEW k \in AttemptNumber
        PROVE  attempt_status'[<<j, k>>] # "NONE" <=> k <= attempt_count'[j]
    <3>1. attempt_status[<<j, k>>] # "NONE" <=> k <= attempt_count[j]
      BY DEF LedgerInvariant, AttemptLedger
    <3>2. k \in Nat /\ attempt_count[j] \in Nat /\ <<j, k>> \in AttemptRow
      BY <1>7 DEF StoreTypeOK, AttemptNumber, AttemptRow
    <3>3. CASE j = i /\ k = n
      BY <1>3, <1>4, <1>7, <3>2, <3>3 DEF StoreTypeOK
    <3>4. CASE ~(j = i /\ k = n)
      <4>1. attempt_status'[<<j, k>>] = attempt_status[<<j, k>>]
        BY <1>3, <1>7, <3>2, <3>4 DEF StoreTypeOK
      <4>2. k <= attempt_count'[j] <=> k <= attempt_count[j]
        BY <1>3, <1>4, <1>7, <3>2, <3>4 DEF StoreTypeOK
      <4>. QED
        BY <3>1, <4>1, <4>2
    <3>. QED
      BY <3>3, <3>4
  <2>. QED
    BY <2>1, ZenonT(60) DEF AttemptLedger
<1>11. OutboxShape'
  BY <1>1, <1>3, <1>7 DEF LedgerInvariant, OutboxShape, StoreTypeOK, AttemptRow, AttemptNumber
<1>12. StreamShape' /\ PublishedIsInStream'
  BY <1>2, <1>3 DEF LedgerInvariant, StreamShape, PublishedIsInStream, Message, streamVars,
    dispatcherVars
<1>13. LostExist'
  <2>1. \A r \in AttemptRow : attempt_status[r] # "NONE" => attempt_status'[r] # "NONE"
    BY <1>3, <1>7 DEF StoreTypeOK
  <2>2. \A x \in Worker : \A v \in lost[x] : v.row \in AttemptRow
    BY <1>7 DEF WorkerTypeOK
  <2>. QED
    BY <1>2, <2>1, <2>2 DEF LedgerInvariant, LostExist, loopVars
<1>. QED
  BY <1>8, <1>9, <1>10, <1>11, <1>12, <1>13, ZenonT(60) DEF LedgerInvariant

(* Ending an expired invocation keeps the ledger. *)
LEMMA task_expires_Ledger ==
  ASSUME NEW w \in Worker, NEW t \in tasks[w], LedgerInvariant, task_expires(w, t),
         UNCHANGED dispatcherVars
  PROVE  LedgerInvariant'
<1> PICK i \in Invocation : i = InvocationOf(t)
  BY TaskMessage
<1> PICK u : u = [t EXCEPT !.at = "ack"]
  BY ZenonT(60)
<1>1. StoreTypeOK /\ WorkerTypeOK /\ t \in Task
  BY TaskMessage DEF LedgerInvariant, TypeOK
<1>2. mark_expired(i) /\ Becomes(w, t, u) /\ UNCHANGED <<rowVars, beating, loopVars, streamVars, faults>>
  BY DEF task_expires
<1>3. /\ status' = [status EXCEPT ![i] = "TIMEOUT"]
      /\ UNCHANGED <<attempt_count, expired, attempt_status, attempt_worker, dispatches>>
  BY <1>2 DEF mark_expired
<1>4. u \in Task /\ u.msg = t.msg /\ u.at = "ack"
  BY <1>1 DEF Task
<1>5. StoreTypeOK' /\ WorkerTypeOK'
  BY <1>1, <1>2, <1>4, mark_expired_Type, Becomes_Type
<1>6. TypeOK'
  BY <1>2, <1>5 DEF LedgerInvariant, TypeOK, StreamTypeOK, DispatcherTypeOK, streamVars,
    dispatcherVars
<1>7. TaskShape'
  <2>1. TaskFits(u)'
    BY <1>2, <1>4 DEF LedgerInvariant, TaskShape, TaskFits, streamVars
  <2>2. \A j \in Invocation : attempt_count'[j] \in Nat /\ attempt_count[j] <= attempt_count'[j]
    BY <1>1, <1>3 DEF StoreTypeOK
  <2>. QED
    BY <1>2, <1>4, <2>1, <2>2, Becomes_Shape, ZenonT(60)
<1>8. AttemptLedger' /\ StreamShape' /\ PublishedIsInStream' /\ LostExist'
  BY <1>2, <1>3 DEF LedgerInvariant, AttemptLedger, StreamShape, PublishedIsInStream, LostExist,
    Message, streamVars, dispatcherVars, loopVars
<1>9. OutboxShape'
  BY <1>1, <1>3, ZenonT(60) DEF LedgerInvariant, OutboxShape, StoreTypeOK
<1>. QED
  BY <1>6, <1>7, <1>8, <1>9 DEF LedgerInvariant

(* Refusing or executing a task keeps the ledger. *)
LEMMA task_refused_or_executed_Ledger ==
  ASSUME NEW w \in Worker, NEW t \in tasks[w], LedgerInvariant,
         task_is_refused(w, t) \/ execute(w, t), UNCHANGED dispatcherVars
  PROVE  LedgerInvariant'
<1>1. WorkerTypeOK /\ t \in Task /\ TaskFits(t)
  BY TaskMessage DEF LedgerInvariant, TypeOK, TaskShape
<1>2. /\ UNCHANGED <<rowVars, beating, loopVars, storeVars, streamVars, faults>>
      /\ \E u \in Task : Becomes(w, t, u) /\ TaskFits(u)
  <2>1. CASE task_is_refused(w, t)
    BY <1>1, <2>1 DEF task_is_refused, TaskFits, Task
  <2>2. CASE execute(w, t)
    <3>1. UNCHANGED <<rowVars, beating, loopVars, storeVars, streamVars, faults>> /\ t.at = "running"
      BY <2>2, ZenonT(60) DEF execute
    <3>2. PICK result \in ExecutionResult :
            Becomes(w, t, [t EXCEPT !.at = "executed", !.result = result])
      BY <2>2, ZenonT(60) DEF execute, ExecutionResult
    <3> DEFINE u == [t EXCEPT !.at = "executed", !.result = result]
    <3>3. /\ u \in Task /\ u.msg = t.msg /\ u.at = "executed" /\ u.attempt = t.attempt
          /\ u.result # "NONE"
      BY <1>1, ZenonT(60) DEF Task, ExecutionResult
    <3> HIDE DEF u
    <3>4. TaskFits(u)
      BY <1>1, <3>1, <3>3, ZenonT(60) DEF TaskFits, InvocationOf
    <3>. QED
      BY <3>1, <3>2, <3>3, <3>4 DEF u
  <2>. QED
    BY <2>1, <2>2, ZenonT(60)
<1>3. PICK u \in Task : Becomes(w, t, u) /\ TaskFits(u)
  BY <1>2
<1>4. \A x \in Worker : \A y \in tasks'[x] : TaskFits(y)
  BY <1>1, <1>3 DEF Becomes, WorkerTypeOK, LedgerInvariant, TaskShape
<1>5. WorkerTypeOK'
  BY <1>1, <1>2, <1>3, Becomes_Type, ZenonT(60)
<1>. QED
  BY <1>2, <1>4, <1>5, WorkerOnly_Ledger, ZenonT(60) DEF loopVars, LedgerInvariant, LostExist, TypeOK

(* A task that raises keeps the ledger. *)
LEMMA Raise_Ledger ==
  ASSUME NEW w \in Worker, NEW t \in tasks[w], LedgerInvariant,
         task_is_rejected(w, t) \/ task_call_fails(w, t), UNCHANGED dispatcherVars
  PROVE  LedgerInvariant'
<1>1. Raise(w, t) /\ UNCHANGED <<storeVars, streamVars>>
  BY DEF task_is_rejected, task_call_fails, Raise
<1>2. WorkerTypeOK' /\ faults' \in 0..MaxFaults
  BY <1>1, Raise_Type, FaultCount, ZenonT(60) DEF LedgerInvariant, TypeOK, task_is_rejected, task_call_fails,
    AllFaultKinds
<1>3. tasks[w] \subseteq Task /\ WorkerTypeOK
  BY DEF LedgerInvariant, TypeOK, WorkerTypeOK
<1>4. ASSUME NEW y \in Unawaited(tasks[w] \ {t})
      PROVE  TaskFits(y)
  <2>1. PICK z \in tasks[w] : y = [z EXCEPT !.awaited = FALSE]
    BY Zenon DEF Unawaited
  <2>2. /\ y.msg = z.msg /\ y.at = z.at /\ y.attempt = z.attempt /\ y.result = z.result
    BY <1>3, <2>1 DEF Task
  <2>. QED
    BY <2>2, ZenonT(60) DEF LedgerInvariant, TaskShape, TaskFits, InvocationOf
<1>5. \/ tasks' = [tasks EXCEPT ![w] = Unawaited(tasks[w] \ {t})] /\ EndIteration(w, "top")
      \/ tasks' = [tasks EXCEPT ![w] = tasks[w] \ {t}] /\ UNCHANGED loopVars
  BY <1>1, Zenon DEF Raise
<1>6. \A x \in Worker : \A y \in tasks'[x] : TaskFits(y)
  BY <1>3, <1>4, <1>5, ZenonT(60) DEF WorkerTypeOK, LedgerInvariant, TaskShape
<1>7. \A x \in Worker : \A v \in lost'[x] : attempt_status[v.row] # "NONE"
  BY <1>3, <1>5 DEF WorkerTypeOK, LedgerInvariant, LostExist, EndIteration, loopVars
<1>. QED
  BY <1>1, <1>2, <1>6, <1>7, WorkerOnly_Ledger, ZenonT(60)

(* XACK keeps the ledger. *)
LEMMA acknowledge_Ledger ==
  ASSUME NEW w \in Worker, NEW t \in tasks[w], LedgerInvariant, acknowledge(w, t),
         UNCHANGED dispatcherVars
  PROVE  LedgerInvariant'
<1>1. WorkerTypeOK /\ StreamTypeOK(AttemptRow) /\ t.msg \in MessageId
  BY TaskMessage, ZenonT(60) DEF LedgerInvariant, TypeOK, Task
<1>2. /\ xack(t.msg) /\ UNCHANGED <<rowVars, beating, loopVars, storeVars, faults>>
      /\ tasks' = [tasks EXCEPT ![w] = tasks[w] \ {t}]
  BY DEF acknowledge
<1>3. WorkerTypeOK' /\ StreamTypeOK(AttemptRow)' /\ faults' \in 0..MaxFaults
  BY <1>1, <1>2, xack_Type, ZenonT(60) DEF WorkerTypeOK, rowVars, loopVars, LedgerInvariant, TypeOK
<1>4. UNCHANGED <<stream, cursor>> /\ cursor <= cursor'
  BY <1>1, <1>2 DEF xack, StreamTypeOK
<1>5. \A m \in MessageId : pending'[m] # NoWorker => m <= cursor'
  BY <1>1, <1>2, <1>4, ZenonT(60) DEF xack, StreamTypeOK, LedgerInvariant, TaskShape
<1>6. \A x \in Worker : tasks'[x] \subseteq tasks[x] /\ lost'[x] = lost[x]
  BY <1>1, <1>2 DEF WorkerTypeOK, loopVars
<1>. QED
  BY <1>2, <1>3, <1>4, <1>5, <1>6, Delivery_Ledger, ZenonT(60)

(* mark_finished schedules the next attempt so that the ledger is kept. *)
LEMMA task_finishes_Ledger ==
  ASSUME NEW w \in Worker, NEW t \in tasks[w], LedgerInvariant, task_finishes(w, t),
         UNCHANGED dispatcherVars
  PROVE  LedgerInvariant'
<1> PICK i \in Invocation : i = InvocationOf(t)
  BY TaskMessage
<1> PICK n : n = t.attempt
  OBVIOUS
<1> PICK u : u = [t EXCEPT !.at = "ack"]
  BY ZenonT(60)
<1>1. StoreTypeOK /\ WorkerTypeOK /\ t \in Task
  BY TaskMessage DEF LedgerInvariant, TypeOK
<1>2. /\ can_complete(i, n, t.result) /\ mark_finished(i, n, t.result) /\ t.at = "executed"
      /\ Becomes(w, t, u) /\ UNCHANGED <<rowVars, beating, loopVars, streamVars, faults>>
  BY DEF task_finishes
<1>3. /\ n \in 1..attempt_count[i] /\ n \in AttemptNumber /\ n \in 0..AttemptBound
      /\ t.result \in ExecutionResult
  <2>1. n \in 1..attempt_count[i] /\ t.result # "NONE"
    BY <1>2 DEF LedgerInvariant, TaskShape, TaskFits
  <2>. QED
    BY <1>1, <2>1, StoreAssumption DEF StoreTypeOK, Task, AttemptNumber
<1>4. UNCHANGED <<attempt_count, expired, attempt_worker>>
  BY <1>2 DEF mark_finished
<1>5. u \in Task /\ u.msg = t.msg /\ u.at = "ack"
  BY <1>1 DEF Task
<1>6. TypeOK'
  <2>1. StoreTypeOK'
    BY <1>1, <1>2, <1>3, mark_finished_Type DEF ExecutionResult
  <2>2. WorkerTypeOK'
    BY <1>1, <1>2, <1>5, Becomes_Type
  <2>. QED
    BY <1>2, <2>1, <2>2, ZenonT(60) DEF LedgerInvariant, TypeOK, StreamTypeOK, DispatcherTypeOK, streamVars,
      dispatcherVars
<1>7. TaskShape'
  <2>1. TaskFits(u)'
    BY <1>2, <1>5 DEF LedgerInvariant, TaskShape, TaskFits, streamVars
  <2>2. \A j \in Invocation : attempt_count'[j] \in Nat /\ attempt_count[j] <= attempt_count'[j]
    BY <1>1, <1>4 DEF StoreTypeOK
  <2>. QED
    BY <1>2, <1>5, <2>1, <2>2, Becomes_Shape, ZenonT(60)
<1>8. \A r \in AttemptRow : attempt_status'[r] # "NONE" <=> attempt_status[r] # "NONE"
  <2>1. attempt_status' = [attempt_status EXCEPT ![<<i, n>>] = AttemptStatusOf(t.result)]
    BY <1>2 DEF mark_finished
  <2>2. AttemptStatusOf(t.result) # "NONE"
    BY <1>3 DEF AttemptStatusOf, ExecutionResult
  <2>3. attempt_status[<<i, n>>] # "NONE"
    BY <1>3 DEF LedgerInvariant, AttemptLedger
  <2>. QED
    BY <1>1, <2>1, <2>2, <2>3 DEF StoreTypeOK
<1>9. AttemptLedger'
  BY <1>4, <1>8, ZenonT(60) DEF LedgerInvariant, AttemptLedger, AttemptRow
<1>10. LostExist'
  BY <1>1, <1>2, <1>8 DEF LedgerInvariant, LostExist, WorkerTypeOK, loopVars
<1>11. /\ \A r \in AttemptRow : /\ dispatches[r] # "NONE" => dispatches'[r] # "NONE"
                                /\ dispatches'[r] = "published" => dispatches[r] = "published"
       /\ \A r \in AttemptRow : dispatches'[r] # "NONE" =>
            \/ dispatches[r] # "NONE"
            \/ r = <<i, n + 1>> /\ status'[i] = "RETRYING"
  <2>1. CASE should_retry(n, t.result)
    <3>1. /\ dispatches' = [dispatches EXCEPT ![<<i, n + 1>>] = "delayed"]
          /\ status' = [status EXCEPT ![i] = "RETRYING"]
      BY <1>2, <2>1 DEF mark_finished
    <3>2. dispatches[<<i, n + 1>>] = "NONE"
      BY <1>2, <2>1 DEF can_complete
    <3>. QED
      BY <1>1, <3>1, <3>2 DEF StoreTypeOK
  <2>2. CASE ~should_retry(n, t.result)
    BY <1>2, <2>2 DEF mark_finished
  <2>. QED
    BY <2>1, <2>2
<1>12. status'[i] # "RUNNING" /\ status'[i] # "ABSENT" /\ \A j \in Invocation \ {i} : status'[j] = status[j]
  BY <1>1, <1>2, <1>3 DEF mark_finished, AttemptStatusOf, ExecutionResult, StoreTypeOK
<1>13. OutboxShape'
  <2>1. ASSUME NEW j \in Invocation, NEW k \in AttemptNumber, dispatches'[<<j, k>>] # "NONE"
        PROVE  /\ status'[j] # "ABSENT"
               /\ k <= attempt_count[j] + 1
               /\ status'[j] = "RUNNING" => k <= attempt_count[j]
    <3>1. CASE dispatches[<<j, k>>] # "NONE"
      BY <1>12, <3>1 DEF LedgerInvariant, OutboxShape
    <3>2. CASE j = i /\ k = n + 1
      BY <1>1, <1>3, <1>12, <3>2 DEF StoreTypeOK
    <3>3. <<j, k>> \in AttemptRow
      BY DEF AttemptRow
    <3>. QED
      BY <1>11, <2>1, <3>1, <3>2, <3>3, ZenonT(60)
  <2>. QED
    BY <1>4, <2>1 DEF OutboxShape
<1>14. StreamShape' /\ PublishedIsInStream'
  <2>1. \A m \in Message : stream[m] \in AttemptRow
    BY DEF LedgerInvariant, TypeOK, StreamTypeOK, Message
  <2>2. \A d \in DispatcherId : held[d] \cup batch[d] \cup sent[d] \subseteq AttemptRow
    BY DEF LedgerInvariant, TypeOK, DispatcherTypeOK
  <2>3. UNCHANGED <<stream, held, batch, sent>>
    BY <1>2 DEF streamVars, dispatcherVars
  <2>4. StreamShape'
    BY <1>11, <2>1, <2>2, <2>3, ZenonT(60) DEF LedgerInvariant, StreamShape, Message
  <2>5. PublishedIsInStream'
    BY <1>11, <2>3, ZenonT(60) DEF LedgerInvariant, PublishedIsInStream
  <2>. QED
    BY <2>4, <2>5
<1>. QED
  BY <1>6, <1>7, <1>9, <1>10, <1>13, <1>14, ZenonT(60) DEF LedgerInvariant

(* A step of the clients, of time or of a dispatcher: the attempts and the *)
(* workers stay as they are, outbox rows and messages may come.            *)
LEMMA Outbox_Ledger ==
  ASSUME LedgerInvariant, TypeOK', PublishedIsInStream', StreamShape',
         UNCHANGED <<attempt_count, attempt_status, cursor, pending, workerVars>>,
         \A m \in Message : stream'[m] = stream[m],
         OutboxShape'
  PROVE  LedgerInvariant'
<1>1. AttemptLedger' /\ LostExist'
  BY DEF LedgerInvariant, AttemptLedger, LostExist, workerVars, loopVars
<1>2. UNCHANGED tasks
  BY ZenonT(60) DEF workerVars
<1>3. TaskShape'
  <2>1. ASSUME NEW w \in Worker, NEW t \in tasks[w]
        PROVE  TaskFits(t)'
    <3>1. TaskFits(t) /\ InvocationOf(t)' = InvocationOf(t)
      BY TaskMessage DEF LedgerInvariant, TaskShape, InvocationOf
    <3>. QED
      BY <3>1, ZenonT(60) DEF TaskFits
  <2>. QED
    BY <1>2, <2>1, ZenonT(60) DEF LedgerInvariant, TaskShape
<1>. QED
  BY <1>1, <1>3, ZenonT(60) DEF LedgerInvariant

(* Accepting an invocation, and time, keep the ledger. *)
LEMMA ClientStep_Ledger ==
  ASSUME LedgerInvariant, ClientStep \/ BackoffStep
  PROVE  LedgerInvariant'
<1>1. UNCHANGED <<streamVars, dispatcherVars, workerVars, faults>>
  BY DEF ClientStep, BackoffStep
<1>2. StoreTypeOK
  BY DEF LedgerInvariant, TypeOK
<1>3. \A m \in Message : stream[m] \in AttemptRow
  BY DEF LedgerInvariant, TypeOK, StreamTypeOK, Message
<1>4. \A d \in DispatcherId : held[d] \cup batch[d] \cup sent[d] \subseteq AttemptRow
  BY DEF LedgerInvariant, TypeOK, DispatcherTypeOK
<1>5. ASSUME StoreTypeOK', OutboxShape', UNCHANGED <<attempt_count, attempt_status>>,
             \A r \in AttemptRow : /\ dispatches[r] # "NONE" => dispatches'[r] # "NONE"
                                   /\ dispatches'[r] = "published" => dispatches[r] = "published"
      PROVE  LedgerInvariant'
  <2>1. TypeOK'
    BY <1>1, <1>5, ZenonT(60) DEF LedgerInvariant, TypeOK, StreamTypeOK, DispatcherTypeOK, WorkerTypeOK,
      streamVars, dispatcherVars, workerVars, rowVars, loopVars
  <2>2. UNCHANGED <<stream, cursor, pending, held, batch, sent>>
    BY <1>1 DEF streamVars, dispatcherVars
  <2>3. StreamShape'
    BY <1>3, <1>4, <1>5, <2>2, ZenonT(60) DEF LedgerInvariant, StreamShape, Message
  <2>4. PublishedIsInStream'
    BY <1>5, <2>2, ZenonT(60) DEF LedgerInvariant, PublishedIsInStream
  <2>. QED
    BY <1>1, <1>5, <2>1, <2>2, <2>3, <2>4, Outbox_Ledger, ZenonT(60)
<1>6. ASSUME NEW i \in Invocation, create_invocation(i)
      PROVE  LedgerInvariant'
  <2>1. StoreTypeOK'
    BY <1>2, <1>6, create_invocation_Type, ZenonT(60)
  <2>2. /\ status[i] = "ABSENT"
        /\ status' = [status EXCEPT ![i] = "QUEUED"]
        /\ dispatches' = [dispatches EXCEPT ![<<i, 1>>] = "available"]
        /\ UNCHANGED <<attempt_count, attempt_status>>
    BY <1>6, ZenonT(60) DEF create_invocation
  <2>3. \A n \in AttemptNumber : dispatches[<<i, n>>] = "NONE"
    BY <2>2, ZenonT(60) DEF LedgerInvariant, OutboxShape
  <2>4. OutboxShape'
    BY <1>2, <2>2, <2>3 DEF LedgerInvariant, OutboxShape, StoreTypeOK, AttemptRow, AttemptNumber
  <2>5. <<i, 1>> \in AttemptRow
    BY StoreAssumption DEF AttemptRow, AttemptNumber
  <2>6. \A r \in AttemptRow : /\ dispatches[r] # "NONE" => dispatches'[r] # "NONE"
                              /\ dispatches'[r] = "published" => dispatches[r] = "published"
    BY <1>2, <2>2, <2>5 DEF StoreTypeOK
  <2>. QED
    BY <1>5, <2>1, <2>2, <2>4, <2>6, ZenonT(60)
<1>7. ASSUME NEW i \in Invocation, deadline_passes(i)
      PROVE  LedgerInvariant'
  BY <1>2, <1>5, <1>7, deadline_passes_Type, ZenonT(60) DEF deadline_passes, LedgerInvariant, OutboxShape
<1>8. ASSUME NEW r \in AttemptRow, backoff_elapses(r)
      PROVE  LedgerInvariant'
  <2>1. StoreTypeOK' /\ UNCHANGED <<attempt_count, attempt_status, status>>
    BY <1>2, <1>8, backoff_elapses_Type, ZenonT(60) DEF backoff_elapses
  <2>2. \A x \in AttemptRow : /\ dispatches[x] # "NONE" <=> dispatches'[x] # "NONE"
                              /\ dispatches'[x] = "published" => dispatches[x] = "published"
    BY <1>2, <1>8, ZenonT(60) DEF backoff_elapses, StoreTypeOK
  <2>3. OutboxShape'
    BY <2>1, <2>2 DEF LedgerInvariant, OutboxShape, AttemptRow
  <2>. QED
    BY <1>5, <2>1, <2>2, <2>3, ZenonT(60)
<1>. QED
  BY <1>6, <1>7, <1>8, ZenonT(60) DEF ClientStep, BackoffStep

(* Every step and fault of a dispatcher keeps the ledger. *)
LEMMA Dispatcher_Ledger ==
  ASSUME LedgerInvariant, NEW d \in DispatcherId, DispatcherStep(d) \/ DispatcherFault(d),
         UNCHANGED workerVars
  PROVE  LedgerInvariant'
<1>1. DispatcherTypeOK /\ DispatcherTypeOK' /\ WorkerTypeOK'
  BY dispatcher_Type, ZenonT(60) DEF LedgerInvariant, TypeOK, WorkerTypeOK, workerVars, rowVars, loopVars
<1>2. /\ \A x \in DispatcherId : held[x] \cup batch[x] \cup sent[x] \subseteq AttemptRow
      /\ \A x \in DispatcherId : \A r \in held[x] \cup batch[x] \cup sent[x] : dispatches[r] # "NONE"
      /\ \A x \in DispatcherId : \A r \in sent[x] : \E m \in Message : stream[m] = r
      /\ \A m \in Message : stream[m] \in AttemptRow /\ dispatches[stream[m]] # "NONE"
  <2>1. StreamShape /\ StreamTypeOK(AttemptRow)
    BY DEF LedgerInvariant, TypeOK
  <2>2. \A x \in DispatcherId : held[x] \cup batch[x] \cup sent[x] \subseteq AttemptRow
    BY <1>1 DEF DispatcherTypeOK
  <2>3. \A m \in Message : stream[m] \in AttemptRow
    BY <2>1 DEF StreamTypeOK, Message
  <2>. QED
    BY <2>1, <2>2, <2>3, ZenonT(60) DEF StreamShape
<1>3. ASSUME NEW r \in AttemptRow, xadd(r), r \in batch[d], UNCHANGED <<storeVars, held>>,
             batch' = [batch EXCEPT ![d] = batch[d] \ {r}], faults' \in 0..MaxFaults,
             sent' = sent \/ sent' = [sent EXCEPT ![d] = sent[d] \cup {r}]
      PROVE  LedgerInvariant'
  <2>1. TypeOK'
    BY <1>1, <1>3, xadd_Keeps, ZenonT(60) DEF LedgerInvariant, TypeOK, StoreTypeOK, storeVars
  <2>2. PublishedIsInStream'
    BY <1>3, xadd_Keeps, ZenonT(60) DEF LedgerInvariant, PublishedIsInStream, storeVars, Message
  <2>3. OutboxShape'
    BY <1>3, ZenonT(60) DEF LedgerInvariant, OutboxShape, storeVars
  <2>4. StreamShape'
    <3>1. \A m \in Message' : dispatches'[stream'[m]] # "NONE"
      <4>1. /\ \A m \in Message : m \in Message' /\ stream'[m] = stream[m]
            /\ \A m \in Message' : m \in Message \/ stream'[m] = r
        BY <1>3, xadd_Keeps, ZenonT(60)
      <4>2. dispatches' = dispatches
        BY <1>3 DEF storeVars
      <4>3. dispatches[r] # "NONE"
        BY <1>2, <1>3, ZenonT(60)
      <4>. QED
        BY <1>2, <4>1, <4>2, <4>3, ZenonT(60)
    <3>2. ASSUME NEW x \in DispatcherId
          PROVE  /\ held'[x] = held[x] /\ batch'[x] \subseteq batch[x]
                 /\ sent'[x] \subseteq sent[x] \cup {r}
      BY <1>1, <1>3, ZenonT(60) DEF DispatcherTypeOK
    <3>3. dispatches' = dispatches
      BY <1>3 DEF storeVars
    <3>4. ASSUME NEW x \in DispatcherId
          PROVE  /\ \A y \in held'[x] \cup batch'[x] \cup sent'[x] : dispatches'[y] # "NONE"
                 /\ \A y \in sent'[x] : \E m \in Message' : stream'[m] = y
      <4>1. /\ \A m \in Message : m \in Message' /\ stream'[m] = stream[m]
            /\ \E m \in Message' : stream'[m] = r
        BY <1>3, xadd_Keeps, ZenonT(60)
      <4>2. dispatches[r] # "NONE"
        BY <1>2, <1>3
      <4>3. \A y \in held'[x] \cup batch'[x] \cup sent'[x] : dispatches'[y] # "NONE"
        BY <1>2, <3>2, <3>3, <3>4, <4>2, ZenonT(60)
      <4>4. \A y \in sent'[x] : \E m \in Message' : stream'[m] = y
        BY <1>2, <3>2, <3>4, <4>1
      <4>. QED
        BY <4>3, <4>4, ZenonT(60)
    <3>. QED
      BY <3>1, <3>4, ZenonT(60) DEF StreamShape
  <2>5. UNCHANGED <<attempt_count, attempt_status>>
    BY <1>3, ZenonT(60) DEF storeVars
  <2>. QED
    BY <1>3, <2>1, <2>2, <2>3, <2>4, <2>5, xadd_Keeps, Outbox_Ledger, ZenonT(60)
<1>4. ASSUME UNCHANGED <<storeVars, streamVars>>, faults' \in 0..MaxFaults,
             \A x \in DispatcherId : /\ sent'[x] \subseteq sent[x]
                                     /\ \A r \in held'[x] \cup batch'[x] : dispatches[r] # "NONE"
      PROVE  LedgerInvariant'
  <2>1. TypeOK'
    BY <1>1, <1>4, ZenonT(60) DEF LedgerInvariant, TypeOK, StoreTypeOK, StreamTypeOK, storeVars, streamVars
  <2>2. PublishedIsInStream' /\ OutboxShape'
    BY <1>4 DEF LedgerInvariant, PublishedIsInStream, OutboxShape, storeVars, streamVars
  <2>3. StreamShape'
    BY <1>2, <1>4, ZenonT(60) DEF LedgerInvariant, StreamShape, Message, storeVars, streamVars
  <2>. QED
    BY <1>4, <2>1, <2>2, <2>3, Outbox_Ledger, ZenonT(60) DEF storeVars, streamVars
<1>5. CASE dispatch_select(d)
  <2>1. UNCHANGED <<storeVars, streamVars, faults, sent>>
    BY <1>5 DEF dispatch_select
  <2>2. PICK rows \in SUBSET due_rows : /\ held' = [held EXCEPT ![d] = rows]
                                        /\ batch' = [batch EXCEPT ![d] = rows]
    BY <1>5, ZenonT(60) DEF dispatch_select
  <2>3. \A x \in DispatcherId : \A r \in held'[x] \cup batch'[x] : dispatches[r] # "NONE"
    BY <1>1, <1>2, <2>2, ZenonT(60) DEF due_rows, DispatcherTypeOK
  <2>. QED
    BY <1>4, <2>1, <2>3, ZenonT(60) DEF LedgerInvariant, TypeOK
<1>6. ASSUME NEW r \in AttemptRow, publish_invocation(d, r)
      PROVE  LedgerInvariant'
  BY <1>3, <1>6, ZenonT(60) DEF publish_invocation, LedgerInvariant, TypeOK
<1>7. ASSUME NEW r \in AttemptRow, publish_fails(d, r)
      PROVE  LedgerInvariant'
  <2>1. faults' \in 0..MaxFaults
    BY <1>7, FaultCount DEF publish_fails, LedgerInvariant, TypeOK, AllFaultKinds
  <2>2. CASE xadd(r)
    BY <1>3, <1>7, <2>1, <2>2, ZenonT(60) DEF publish_fails
  <2>3. CASE UNCHANGED streamVars
    <3>1. UNCHANGED <<storeVars, streamVars, sent, held>>
      BY <1>7, <2>3 DEF publish_fails
    <3>2. \A x \in DispatcherId : batch'[x] \subseteq batch[x]
      BY <1>1, <1>7, ZenonT(60) DEF publish_fails, DispatcherTypeOK
    <3>. QED
      BY <1>2, <1>4, <2>1, <3>1, <3>2, ZenonT(60)
  <2>. QED
    BY <1>7, <2>2, <2>3, ZenonT(60) DEF publish_fails
<1>8. CASE dispatch_abort(d)
  <2>1. faults' \in 0..MaxFaults
    BY <1>8, FaultCount, ZenonT(60) DEF dispatch_abort, LedgerInvariant, TypeOK, AllFaultKinds
  <2>2. \A x \in DispatcherId : /\ sent'[x] \subseteq sent[x] /\ held'[x] \subseteq held[x]
                                /\ batch'[x] \subseteq batch[x]
    BY <1>1, <1>8 DEF dispatch_abort, DispatcherTypeOK
  <2>. QED
    BY <1>2, <1>4, <1>8, <2>1, <2>2, ZenonT(60) DEF dispatch_abort
<1>9. CASE dispatch_commit(d)
  <2>1. /\ dispatches' = [r \in AttemptRow |-> IF r \in sent[d] THEN "published" ELSE dispatches[r]]
        /\ UNCHANGED <<batch, status, attempt_count, completed_at, expired, attempt_status,
                       attempt_worker, stream, cursor, pending, faults>>
    BY <1>9 DEF dispatch_commit, streamVars
  <2>2. \A r \in AttemptRow : /\ dispatches[r] # "NONE" <=> dispatches'[r] # "NONE"
                              /\ dispatches'[r] = "published" =>
                                   dispatches[r] = "published" \/ r \in sent[d]
    BY <1>2, <2>1, ZenonT(60)
  <2>3. TypeOK'
    BY <1>1, <2>1, ZenonT(60) DEF LedgerInvariant, TypeOK, StoreTypeOK, StreamTypeOK, DispatchState
  <2>4. PublishedIsInStream'
    BY <1>2, <2>1, <2>2, ZenonT(60) DEF LedgerInvariant, PublishedIsInStream, Message
  <2>5. OutboxShape'
    BY <2>1, <2>2 DEF LedgerInvariant, OutboxShape, AttemptRow
  <2>6. \A x \in DispatcherId : held'[x] \subseteq held[x] /\ sent'[x] \subseteq sent[x]
    BY <1>1, <1>9, ZenonT(60) DEF dispatch_commit, DispatcherTypeOK
  <2>7. StreamShape'
    BY <1>2, <2>1, <2>2, <2>6 DEF StreamShape, Message
  <2>. QED
    BY <2>1, <2>3, <2>4, <2>5, <2>7, Outbox_Ledger, ZenonT(60)
<1>. QED
  BY <1>5, <1>6, <1>7, <1>8, <1>9, ZenonT(60) DEF DispatcherStep, DispatcherFault

(* Every step and fault of a worker keeps the ledger. *)
LEMMA WorkerStep_Ledger ==
  ASSUME Counting, LedgerInvariant, NEW w \in Worker, WorkerStep(w)
  PROVE  LedgerInvariant'
<1>1. UNCHANGED dispatcherVars
  BY DEF WorkerStep
<1>2. CASE QuietStep(w)
  BY <1>1, <1>2, Quiet_Ledger
<1>3. CASE \/ recover_select(w) \/ recover_load(w) \/ recover_commit(w)
           \/ claim_take(w) \/ read_new_tasks(w) \/ read_reply_lost(w)
  BY <1>1, <1>3, recover_select_Ledger, recover_load_Ledger, recover_commit_Ledger,
    claim_take_Ledger, read_new_tasks_Ledger, read_reply_lost_Ledger, ZenonT(60)
<1>4. ASSUME NEW t \in tasks[w], TaskStep(w, t) \/ task_call_fails(w, t)
      PROVE  LedgerInvariant'
  BY <1>1, <1>4, task_starts_Ledger, task_expires_Ledger, task_refused_or_executed_Ledger,
    task_finishes_Ledger, Raise_Ledger, acknowledge_Ledger, ZenonT(60) DEF TaskStep
<1>. QED
  BY <1>2, <1>3, <1>4, ZenonT(60) DEF WorkerStep, LoopStep, WorkerFault, QuietStep

(* So does a step that changes nothing. *)
LEMMA Stutter_Ledger ==
  ASSUME LedgerInvariant, UNCHANGED vars
  PROVE  LedgerInvariant'
<1>1. /\ UNCHANGED <<storeVars, streamVars, dispatcherVars, faults>>
      /\ UNCHANGED <<worker_status, fresh, beating, tasks>> /\ UNCHANGED loopVars
  BY ZenonT(60) DEF vars, workerVars, rowVars
<1>2. WorkerTypeOK' /\ faults' \in 0..MaxFaults
  BY <1>1, ZenonT(60) DEF LedgerInvariant, TypeOK, WorkerTypeOK, loopVars
<1>. QED
  BY <1>1, <1>2, Shrinking_Ledger, ZenonT(60) DEF loopVars

(* LedgerInvariant is inductive. *)
LEMMA Next_Ledger ==
  ASSUME Counting, LedgerInvariant, [Next]_vars
  PROVE  LedgerInvariant'
BY ClientStep_Ledger, Dispatcher_Ledger, WorkerStep_Ledger, Stutter_Ledger DEF Next
================================================================================
