------------------------------- MODULE StepFacts -------------------------------
(***************************************************************************)
(* Lemmas about the steps of Platform, for every number of invocations,    *)
(* workers, dispatchers, attempts, messages and faults: which rows a step  *)
(* writes, which message a task stands for, how the loop of a worker       *)
(* moves, which tasks a delivery makes, who holds a pending message.  The  *)
(* proofs of the invariants rest on them.                                  *)
(***************************************************************************)
EXTENDS PlatformInvariant, TLAPS

(* More time for every leaf than the default: the proof manager itself     *)
(* takes part of it.                                                       *)
USE SMTT(15), ZenonT(20), SMTT(30), Z3T(30)

(* What the lemmas need to know of the sizes of sets of messages, XPENDING *)
(* with a count included: it returns at most that many messages, and all   *)
(* of them when it returns fewer.  Every lemma that counts assumes it; it  *)
(* is a theorem, MessagesCount of PlatformProofs.                          *)
Counting ==
  /\ Cardinality({}) = 0
  /\ \A M \in SUBSET MessageId : Cardinality(M) \in Nat
  /\ \A M \in SUBSET MessageId : \A k \in Nat :
       /\ Oldest(M, k) \subseteq M /\ Cardinality(Oldest(M, k)) <= k
       /\ Cardinality(Oldest(M, k)) < k => Oldest(M, k) = M

(* XADD appends an entry. *)
LEMMA xadd_Type ==
  ASSUME NEW r \in AttemptRow, StreamTypeOK(AttemptRow), xadd(r)
  PROVE  StreamTypeOK(AttemptRow)'
BY StreamAssumption DEF StreamTypeOK, xadd

(* The steps of a worker after which it has no task and no lost attempt    *)
(* that it did not have before.                                            *)
QuietStep(w) ==
  \/ register_worker(w) \/ record_heartbeat(w) \/ heartbeat_ages(w)
  \/ heartbeat_loop_dies(w) \/ recover_nothing(w) \/ claim_list(w) \/ claim_return(w)
  \/ recovered_batch_done(w) \/ mark_workers_offline(w) \/ read_nothing(w)
  \/ new_batch_done(w) \/ loop_call_fails(w) \/ crash(w) \/ interrupt(w)
  \/ mark_worker_offline(w)

(* A row of the outbox, or of the attempts, is an invocation and a number. *)
LEMMA RowParts ==
  ASSUME NEW r \in AttemptRow
  PROVE  r[1] \in Invocation /\ r[2] \in AttemptNumber /\ r = <<r[1], r[2]>>
BY DEF AttemptRow

(* A task works on a message of the stream, which names an attempt row     *)
(* with an outbox row.                                                     *)
LEMMA TaskMessage ==
  ASSUME LedgerInvariant, NEW w \in Worker, NEW t \in tasks[w]
  PROVE  /\ t \in Task
         /\ t.msg \in Message
         /\ stream[t.msg] \in AttemptRow
         /\ InvocationOf(t) \in Invocation
         /\ stream[t.msg][2] \in AttemptNumber
         /\ stream[t.msg] = <<InvocationOf(t), stream[t.msg][2]>>
         /\ dispatches[stream[t.msg]] # "NONE"
<1>1. t \in Task /\ TaskFits(t)
  BY ZenonT(60) DEF LedgerInvariant, TypeOK, WorkerTypeOK, TaskShape
<1>2. StreamTypeOK(AttemptRow)
  BY DEF LedgerInvariant, TypeOK
<1>3. t.msg \in Message
  <2>1. t.msg \in Nat /\ t.msg >= 1
    BY <1>1 DEF Task, MessageId
  <2>2. t.msg <= cursor
    BY <1>1, ZenonT(60) DEF TaskFits
  <2>3. cursor \in Nat /\ Len(stream) \in Nat /\ cursor <= Len(stream)
    BY <1>2 DEF StreamTypeOK
  <2>. QED
    BY <2>1, <2>2, <2>3 DEF Message
<1>4. stream[t.msg] \in AttemptRow
  BY <1>2, <1>3 DEF StreamTypeOK, Message
<1>5. dispatches[stream[t.msg]] # "NONE"
  BY <1>3 DEF LedgerInvariant, StreamShape
<1>6. /\ stream[t.msg][1] \in Invocation
      /\ stream[t.msg][2] \in AttemptNumber
      /\ stream[t.msg] = <<stream[t.msg][1], stream[t.msg][2]>>
  BY <1>4, RowParts
<1>7. InvocationOf(t) = stream[t.msg][1]
  BY DEF InvocationOf
<1>. QED
  BY <1>1, <1>3, <1>4, <1>5, <1>6, <1>7, ZenonT(60)

(* XADD leaves the earlier entries as they are. *)
LEMMA xadd_Keeps ==
  ASSUME LedgerInvariant, NEW r \in AttemptRow, xadd(r)
  PROVE  /\ StreamTypeOK(AttemptRow)' /\ UNCHANGED <<cursor, pending>>
         /\ \A m \in Message : m \in Message' /\ stream'[m] = stream[m]
         /\ \E m \in Message' : stream'[m] = r
         /\ \A m \in Message' : m \in Message \/ stream'[m] = r
<1>1. StreamTypeOK(AttemptRow)
  BY DEF LedgerInvariant, TypeOK
<1>2. stream' = Append(stream, r) /\ Len(stream) \in Nat /\ Len(stream') = Len(stream) + 1
  BY <1>1 DEF xadd, StreamTypeOK
<1>3. stream'[Len(stream) + 1] = r /\ \A m \in 1..Len(stream) : stream'[m] = stream[m]
  BY <1>1, <1>2 DEF StreamTypeOK
<1>. QED
  BY <1>1, <1>2, <1>3, xadd_Type DEF xadd, Message

(* No task runs ahead of its invocation: its message has an outbox row, for *)
(* an attempt that was started or for the next one.                        *)
LEMMA Ledger_NoFuture ==
  ASSUME LedgerInvariant
  PROVE  NoFutureTask
<1> SUFFICES ASSUME NEW w \in Worker, NEW t \in tasks[w]
             PROVE  TaskVerdict(t) # "raise"
  BY DEF NoFutureTask
<1> DEFINE i == InvocationOf(t)
           n == stream[t.msg][2]
<1>1. i \in Invocation /\ n \in AttemptNumber /\ dispatches[<<i, n>>] # "NONE"
  BY TaskMessage
<1> HIDE DEF i, n
<1>2. /\ status[i] # "ABSENT" /\ n <= attempt_count[i] + 1
      /\ status[i] = "RUNNING" => n <= attempt_count[i]
  BY <1>1, ZenonT(60) DEF LedgerInvariant, OutboxShape
<1>3. n \in Nat /\ attempt_count[i] \in Nat /\ status[i] \in InvocationStatus
  BY <1>1 DEF LedgerInvariant, TypeOK, StoreTypeOK, AttemptNumber
<1>4. start_verdict(i, n, t.recovered) # "raise"
  BY <1>2, <1>3 DEF start_verdict, is_terminal_status, InvocationStatus,
    TERMINAL_INVOCATION_STATUSES
<1>. QED
  BY <1>4 DEF TaskVerdict, i, n

--------------------------------------------------------------------------------
(* Which steps write the rows of invocations and attempts. *)
RowsUnchanged ==
  UNCHANGED <<status, attempt_count, completed_at, attempt_status, attempt_worker>>

(* The loop of a worker writes no invocation and no attempt itself. *)
LEMMA LoopStep_Rows ==
  ASSUME NEW w \in Worker, QuietStep(w) \/ recover_select(w) \/ recover_load(w)
           \/ claim_take(w) \/ read_new_tasks(w) \/ read_reply_lost(w)
  PROVE  RowsUnchanged
<1>1. UNCHANGED storeVars
  BY ZenonT(60) DEF QuietStep, recover_select, recover_load, claim_take, read_new_tasks, read_reply_lost,
    register_worker, record_heartbeat, heartbeat_ages, heartbeat_loop_dies, recover_nothing,
    claim_list, claim_return, recovered_batch_done, mark_workers_offline, read_nothing,
    new_batch_done, loop_call_fails, crash, interrupt, mark_worker_offline
<1>. QED
  BY <1>1 DEF RowsUnchanged, storeVars

(* Only five operations change the rows of invocations and attempts. *)
LEMMA RowChanges ==
  ASSUME [Next]_vars
  PROVE  \/ RowsUnchanged
         \/ \E i \in Invocation : create_invocation(i)
         \/ \E w \in Worker : recover_commit(w)
         \/ \E w \in Worker : \E t \in tasks[w] :
              task_starts(w, t) \/ task_expires(w, t) \/ task_finishes(w, t)
<1>1. CASE UNCHANGED vars
  BY <1>1 DEF vars, storeVars, RowsUnchanged
<1>2. CASE ClientStep \/ BackoffStep
  BY <1>2 DEF ClientStep, BackoffStep, deadline_passes, backoff_elapses, RowsUnchanged
<1>3. ASSUME NEW d \in DispatcherId, DispatcherStep(d) \/ DispatcherFault(d)
      PROVE  RowsUnchanged
  BY <1>3 DEF DispatcherStep, DispatcherFault, dispatch_select, publish_invocation, publish_fails,
    dispatch_commit, dispatch_abort, storeVars, RowsUnchanged
<1>4. ASSUME NEW w \in Worker, NEW t \in tasks[w],
             \/ task_is_refused(w, t) \/ execute(w, t) \/ task_is_rejected(w, t)
             \/ acknowledge(w, t) \/ task_call_fails(w, t)
      PROVE  RowsUnchanged
  BY <1>4, ZenonT(60) DEF task_is_refused, execute, task_is_rejected, acknowledge, task_call_fails, Raise,
    storeVars, RowsUnchanged
<1>5. ASSUME NEW w \in Worker, WorkerStep(w)
      PROVE  \/ RowsUnchanged
             \/ recover_commit(w)
             \/ \E t \in tasks[w] : task_starts(w, t) \/ task_expires(w, t) \/ task_finishes(w, t)
  BY <1>4, <1>5, LoopStep_Rows DEF WorkerStep, LoopStep, TaskStep, WorkerFault, QuietStep
<1>. QED
  BY <1>1, <1>2, <1>3, <1>5 DEF Next

--------------------------------------------------------------------------------
(* What the writing steps do to the rows, given the invariant. *)

(* mark_running starts the next attempt of an invocation that waits. *)
LEMMA task_starts_Effect ==
  ASSUME OwnershipInvariant, NEW w \in Worker, NEW t \in tasks[w], task_starts(w, t)
  PROVE  \E i \in Invocation, n \in AttemptNumber :
           /\ i = InvocationOf(t)
           /\ n = attempt_count[i] + 1
           /\ status[i] \in {"QUEUED", "RETRYING"}
           /\ status' = [status EXCEPT ![i] = "RUNNING"]
           /\ attempt_count' = [attempt_count EXCEPT ![i] = n]
           /\ attempt_status' = [attempt_status EXCEPT ![<<i, n>>] = "RUNNING"]
           /\ attempt_worker' = [attempt_worker EXCEPT ![<<i, n>>] = w]
           /\ attempt_status[<<i, n>>] = "NONE"
           /\ UNCHANGED completed_at
<1> PICK i \in Invocation : i = InvocationOf(t)
  BY TaskMessage DEF OwnershipInvariant
<1>1. start_verdict(i, stream[t.msg][2], t.recovered) = "start" /\ mark_running(i, w)
  BY DEF task_starts, TaskVerdict
<1>2. status[i] \in {"QUEUED", "RETRYING"}
  BY <1>1 DEF start_verdict
<1>3. attempt_count[i] \in Nat
  BY DEF OwnershipInvariant, LedgerInvariant, TypeOK, StoreTypeOK
<1>4. attempt_count[i] + 1 \in AttemptNumber
  BY <1>1 DEF mark_running
<1>5. attempt_status[<<i, attempt_count[i] + 1>>] = "NONE"
  BY <1>3, <1>4 DEF OwnershipInvariant, LedgerInvariant, AttemptLedger
<1>. QED
  BY <1>1, <1>2, <1>4, <1>5, ZenonT(60) DEF mark_running

(* mark_running ends an expired invocation that waits. *)
LEMMA task_expires_Effect ==
  ASSUME OwnershipInvariant, NEW w \in Worker, NEW t \in tasks[w], task_expires(w, t)
  PROVE  \E i \in Invocation :
           /\ status[i] \in {"QUEUED", "RETRYING"}
           /\ status' = [status EXCEPT ![i] = "TIMEOUT"]
           /\ completed_at' = [completed_at EXCEPT ![i] = TRUE]
           /\ UNCHANGED <<attempt_count, attempt_status, attempt_worker>>
<1> PICK i \in Invocation : i = InvocationOf(t)
  BY TaskMessage DEF OwnershipInvariant
<1> PICK n \in AttemptNumber : n = stream[t.msg][2]
  BY TaskMessage DEF OwnershipInvariant
<1>1. start_verdict(i, n, t.recovered) = "expire" /\ mark_expired(i)
  BY DEF task_expires, TaskVerdict
<1>2. dispatches[<<i, n>>] # "NONE"
  BY TaskMessage DEF OwnershipInvariant
<1>3. status[i] # "ABSENT" /\ (status[i] = "RUNNING" => n <= attempt_count[i])
  BY <1>2 DEF OwnershipInvariant, LedgerInvariant, OutboxShape
<1>4. status[i] \in InvocationStatus
  BY DEF OwnershipInvariant, LedgerInvariant, TypeOK, StoreTypeOK
<1>5. status[i] \in {"QUEUED", "RETRYING"}
  BY <1>1, <1>3, <1>4 DEF start_verdict, is_terminal_status, InvocationStatus
<1>. QED
  BY <1>1, <1>5, ZenonT(60) DEF mark_expired

(* mark_finished ends the last attempt of a running invocation, and makes  *)
(* the invocation wait only if attempts are left.                          *)
LEMMA task_finishes_Effect ==
  ASSUME OwnershipInvariant, NEW w \in Worker, NEW t \in tasks[w], task_finishes(w, t)
  PROVE  \E i \in Invocation, n \in AttemptNumber,
            s \in {"RETRYING", "SUCCEEDED", "FAILED", "TIMEOUT"},
            a \in {"SUCCEEDED", "FAILED", "TIMEOUT"} :
           /\ i = InvocationOf(t) /\ n = t.attempt /\ n = attempt_count[i]
           /\ status[i] = "RUNNING"
           /\ attempt_status[<<i, n>>] = "RUNNING"
           /\ attempt_worker[<<i, n>>] = w
           /\ s = "RETRYING" => attempt_count[i] < MaxAttempts
           /\ status' = [status EXCEPT ![i] = s]
           /\ completed_at' = [completed_at EXCEPT ![i] = (s # "RETRYING")]
           /\ attempt_status' = [attempt_status EXCEPT ![<<i, n>>] = a]
           /\ UNCHANGED <<attempt_count, attempt_worker>>
<1> PICK i \in Invocation : i = InvocationOf(t)
  BY TaskMessage DEF OwnershipInvariant
<1> PICK n : n = t.attempt
  OBVIOUS
<1>1. t.at = "executed" /\ can_complete(i, n, t.result) /\ mark_finished(i, n, t.result)
  BY DEF task_finishes
<1>2. n \in 1..attempt_count[i] /\ t.result # "NONE" /\ t \in Task
  BY <1>1, TaskMessage, ZenonT(60) DEF OwnershipInvariant, LedgerInvariant, TaskShape, TaskFits
<1>3. n \in AttemptNumber
  <2>1. attempt_count[i] \in 0..AttemptBound
    BY DEF OwnershipInvariant, LedgerInvariant, TypeOK, StoreTypeOK
  <2>. QED
    BY <1>2, <2>1, StoreAssumption DEF AttemptNumber
<1>4. attempt_status[<<i, n>>] = "RUNNING" /\ attempt_worker[<<i, n>>] = w
  BY <1>1 DEF OwnershipInvariant, TasksOwnAttempts
<1>5. n = attempt_count[i] /\ status[i] = "RUNNING"
  BY <1>3, <1>4 DEF OwnershipInvariant, RunningAttemptIsLast
<1> DEFINE retry == should_retry(n, t.result)
           s == IF retry THEN "RETRYING" ELSE AttemptStatusOf(t.result)
           a == AttemptStatusOf(t.result)
<1>6. t.result \in ExecutionResult
  BY <1>2 DEF Task
<1>7. a \in {"SUCCEEDED", "FAILED", "TIMEOUT"}
  BY <1>6 DEF AttemptStatusOf, ExecutionResult
<1>8. /\ s \in {"RETRYING", "SUCCEEDED", "FAILED", "TIMEOUT"}
      /\ (s # "RETRYING") = ~retry
      /\ s = "RETRYING" => attempt_count[i] < MaxAttempts
  BY <1>5, <1>7 DEF TERMINAL_INVOCATION_STATUSES, should_retry
<1>9. /\ status' = [status EXCEPT ![i] = s]
      /\ completed_at' = [completed_at EXCEPT ![i] = ~retry]
      /\ attempt_status' = [attempt_status EXCEPT ![<<i, n>>] = a]
      /\ UNCHANGED <<attempt_count, attempt_worker>>
  BY <1>1 DEF mark_finished
<1> HIDE DEF retry, s, a
<1>. QED
  BY <1>3, <1>4, <1>5, <1>7, <1>8, <1>9, ZenonT(60)

(* The commit of a recovery ends the last attempts of running invocations  *)
(* that belong to the workers it has locked, and nothing else.             *)
LEMMA recover_commit_Effect ==
  ASSUME OwnershipInvariant, NEW w \in Worker, recover_commit(w)
  PROVE  /\ UNCHANGED <<attempt_count, attempt_worker>>
         /\ \A r \in AttemptRow :
              \/ attempt_status'[r] = attempt_status[r]
              \/ /\ attempt_status[r] = "RUNNING" /\ attempt_status'[r] = "FAILED"
                 /\ attempt_worker[r] \in stale[w]
         /\ \A i \in Invocation :
              \/ /\ status'[i] = status[i] /\ completed_at'[i] = completed_at[i]
                 /\ \A n \in AttemptNumber : attempt_status'[<<i, n>>] = attempt_status[<<i, n>>]
              \/ /\ status[i] = "RUNNING"
                 /\ attempt_count[i] < MaxAttempts
                 /\ status'[i] = "RETRYING" /\ completed_at'[i] = completed_at[i]
                 /\ \A n \in AttemptNumber : attempt_status'[<<i, n>>] # "RUNNING"
              \/ /\ status[i] = "RUNNING"
                 /\ attempt_count[i] >= MaxAttempts
                 /\ status'[i] = "FAILED" /\ completed_at'[i] = TRUE
                 /\ \A n \in AttemptNumber : attempt_status'[<<i, n>>] # "RUNNING"
<1>1. write_lost_attempts(lost[w]) /\ pc[w] = "commit"
  BY DEF recover_commit
<1>2. ASSUME NEW v \in lost[w]
      PROVE  /\ v.row \in AttemptRow
             /\ attempt_status[v.row] = "RUNNING" /\ attempt_worker[v.row] \in stale[w]
             /\ v.exhausted <=> attempt_count[v.row[1]] >= MaxAttempts
  BY <1>1 DEF OwnershipInvariant, RecoveryIsolated, InRecovery, LedgerInvariant, TypeOK, WorkerTypeOK
<1>3. UNCHANGED <<attempt_count, attempt_worker>>
  BY <1>1 DEF write_lost_attempts
<1>4. \A r \in AttemptRow : attempt_status'[r] =
        IF \E v \in lost[w] : v.row = r THEN "FAILED" ELSE attempt_status[r]
  BY <1>1 DEF write_lost_attempts
<1>5. ASSUME NEW i \in Invocation
      PROVE  \/ /\ status'[i] = status[i] /\ completed_at'[i] = completed_at[i]
                /\ \A n \in AttemptNumber : attempt_status'[<<i, n>>] = attempt_status[<<i, n>>]
             \/ /\ status[i] = "RUNNING"
                /\ attempt_count[i] < MaxAttempts
                /\ status'[i] = "RETRYING" /\ completed_at'[i] = completed_at[i]
                /\ \A n \in AttemptNumber : attempt_status'[<<i, n>>] # "RUNNING"
             \/ /\ status[i] = "RUNNING"
                /\ attempt_count[i] >= MaxAttempts
                /\ status'[i] = "FAILED" /\ completed_at'[i] = TRUE
                /\ \A n \in AttemptNumber : attempt_status'[<<i, n>>] # "RUNNING"
  <2> DEFINE E == \E v \in lost[w] : v.row[1] = i /\ v.exhausted
             R == \E v \in lost[w] : v.row[1] = i /\ ~v.exhausted
  <2>1. /\ status'[i] = IF E THEN "FAILED" ELSE IF R THEN "RETRYING" ELSE status[i]
        /\ completed_at'[i] = (E \/ completed_at[i])
    BY <1>1 DEF write_lost_attempts
  <2>2. completed_at[i] \in BOOLEAN
    BY DEF OwnershipInvariant, LedgerInvariant, TypeOK, StoreTypeOK
  <2>3. ASSUME NEW v \in lost[w], v.row[1] = i
        PROVE  /\ status[i] = "RUNNING"
               /\ \A n \in AttemptNumber : attempt_status'[<<i, n>>] # "RUNNING"
    <3>1. v.row \in AttemptRow /\ attempt_status[v.row] = "RUNNING"
      BY <1>2
    <3>2. PICK k \in AttemptNumber : v.row = <<i, k>>
      BY <2>3, <3>1 DEF AttemptRow
    <3>3. status[i] = "RUNNING" /\ k = attempt_count[i]
      BY <3>1, <3>2 DEF OwnershipInvariant, RunningAttemptIsLast
    <3>4. ASSUME NEW n \in AttemptNumber
          PROVE  attempt_status'[<<i, n>>] # "RUNNING"
      <4>1. <<i, n>> \in AttemptRow
        BY DEF AttemptRow
      <4>2. CASE n = k
        BY <1>4, <3>2, <4>1, <4>2, ZenonT(60)
      <4>3. CASE n # k
        BY <1>4, <3>3, <4>1, <4>3 DEF OwnershipInvariant, RunningAttemptIsLast
      <4>. QED
        BY <4>2, <4>3
    <3>. QED
      BY <3>3, <3>4
  <2>4. CASE E
    <3>1. attempt_count[i] >= MaxAttempts
      BY <1>2, <2>4, ZenonT(60)
    <3>. QED
      BY <2>1, <2>3, <2>4, <3>1, ZenonT(60)
  <2>5. CASE ~E /\ R
    <3>1. ~(attempt_count[i] >= MaxAttempts)
      BY <1>2, <2>5
    <3>2. attempt_count[i] < MaxAttempts
      BY <3>1, StoreAssumption DEF OwnershipInvariant, LedgerInvariant, TypeOK, StoreTypeOK
    <3>. QED
      BY <2>1, <2>2, <2>3, <2>5, <3>2, ZenonT(60)
  <2>6. CASE ~E /\ ~R
    <3>1. \A v \in lost[w] : v.row[1] # i
      BY <2>6
    <3>2. \A n \in AttemptNumber : attempt_status'[<<i, n>>] = attempt_status[<<i, n>>]
      BY <1>4, <3>1 DEF AttemptRow
    <3>. QED
      BY <2>1, <2>2, <2>6, <3>2
  <2>. QED
    BY <2>4, <2>5, <2>6, ZenonT(60)
<1>6. ASSUME NEW r \in AttemptRow
      PROVE  \/ attempt_status'[r] = attempt_status[r]
             \/ /\ attempt_status[r] = "RUNNING" /\ attempt_status'[r] = "FAILED"
                /\ attempt_worker[r] \in stale[w]
  <2>1. CASE \E v \in lost[w] : v.row = r
    BY <1>2, <1>4, <2>1
  <2>2. CASE ~\E v \in lost[w] : v.row = r
    BY <1>4, <2>2
  <2>. QED
    BY <2>1, <2>2
<1>. QED
  BY <1>3, <1>5, <1>6, ZenonT(60)

(* A task that executes owns the running attempt of its invocation. *)
Executes(t) == t.at \in {"running", "executed"}

(* What the invariant says of one worker with tasks T. *)
Owns(w, T) ==
  \A t \in T : Executes(t) =>
    /\ attempt_status[<<InvocationOf(t), t.attempt>>] = "RUNNING"
    /\ attempt_worker[<<InvocationOf(t), t.attempt>>] = w
    /\ \A u \in T : Executes(u) /\ InvocationOf(u) = InvocationOf(t) => u = t

(* Ownership, worker by worker. *)
LEMMA OwnsAll ==
  TasksOwnAttempts <=> \A w \in Worker : Owns(w, tasks[w])
BY DEF TasksOwnAttempts, Owns, Executes, Executing

(* An executing task: its attempt row, which is RUNNING and the last one   *)
(* of an invocation that is RUNNING.                                       *)
LEMMA ExecutingRow ==
  ASSUME OwnershipInvariant, NEW w \in Worker, NEW t \in tasks[w], Executes(t)
  PROVE  /\ InvocationOf(t) \in Invocation /\ t.attempt \in AttemptNumber
         /\ <<InvocationOf(t), t.attempt>> \in AttemptRow
         /\ attempt_status[<<InvocationOf(t), t.attempt>>] = "RUNNING"
         /\ attempt_worker[<<InvocationOf(t), t.attempt>>] = w
         /\ status[InvocationOf(t)] = "RUNNING"
         /\ Up(w)
<1>1. InvocationOf(t) \in Invocation
  BY TaskMessage DEF OwnershipInvariant
<1>2. t.attempt \in 1..attempt_count[InvocationOf(t)]
  BY DEF Executes, OwnershipInvariant, LedgerInvariant, TaskShape, TaskFits
<1>3. attempt_count[InvocationOf(t)] \in 0..AttemptBound
  BY <1>1 DEF OwnershipInvariant, LedgerInvariant, TypeOK, StoreTypeOK
<1>4. t.attempt \in AttemptNumber
  BY <1>2, <1>3, StoreAssumption DEF AttemptNumber
<1>5. /\ attempt_status[<<InvocationOf(t), t.attempt>>] = "RUNNING"
      /\ attempt_worker[<<InvocationOf(t), t.attempt>>] = w
  BY OwnsAll DEF OwnershipInvariant, Owns
<1>6. status[InvocationOf(t)] = "RUNNING"
  BY <1>1, <1>4, <1>5 DEF OwnershipInvariant, RunningAttemptIsLast
<1>7. Up(w)
  BY DEF OwnershipInvariant, OnlyDeadAreStale
<1>. QED
  BY <1>1, <1>4, <1>5, <1>6, <1>7, ZenonT(60) DEF AttemptRow

--------------------------------------------------------------------------------
(* What the contract allows to happen to one invocation in one step. *)
AllowedStep(i) ==
  \/ Contract!Accept(i) \/ Contract!Start(i) \/ Contract!Retry(i)
  \/ Contract!Finish(i) \/ Contract!Expire(i) \/ Contract!Stays(i)

(* Every step of the platform is one that InvocationContract allows. *)
LEMMA Step_Allowed ==
  ASSUME OwnershipInvariant, [Next]_vars, NEW i \in Invocation
  PROVE  AllowedStep(i)
<1> USE DEF AllowedStep, Contract!Goes, Contract!Accept, Contract!Start, Contract!Retry,
            Contract!Finish, Contract!Expire, Contract!Stays
<1>1. StoreTypeOK /\ AttemptsLeft
  BY DEF OwnershipInvariant, LedgerInvariant, TypeOK
<1>2. CASE RowsUnchanged
  BY <1>2 DEF RowsUnchanged
<1>3. ASSUME NEW j \in Invocation, create_invocation(j)
      PROVE  AllowedStep(i)
  BY <1>1, <1>3 DEF create_invocation, StoreTypeOK
<1>4. ASSUME NEW w \in Worker, recover_commit(w)
      PROVE  AllowedStep(i)
  BY <1>4, recover_commit_Effect, ZenonT(60)
<1>5. ASSUME NEW w \in Worker, NEW t \in tasks[w], task_starts(w, t)
      PROVE  AllowedStep(i)
  <2>1. PICK j \in Invocation, n \in AttemptNumber :
           /\ j = InvocationOf(t)
           /\ n = attempt_count[j] + 1
           /\ status[j] \in {"QUEUED", "RETRYING"}
           /\ status' = [status EXCEPT ![j] = "RUNNING"]
           /\ attempt_count' = [attempt_count EXCEPT ![j] = n]
           /\ attempt_status' = [attempt_status EXCEPT ![<<j, n>>] = "RUNNING"]
           /\ attempt_worker' = [attempt_worker EXCEPT ![<<j, n>>] = w]
           /\ attempt_status[<<j, n>>] = "NONE"
           /\ UNCHANGED completed_at
    BY <1>5, task_starts_Effect, ZenonT(60)
  <2>2. attempt_count[j] < MaxAttempts
    BY <1>1, <2>1 DEF AttemptsLeft
  <2>3. CASE i = j
    BY <1>1, <2>1, <2>2, <2>3 DEF StoreTypeOK
  <2>4. CASE i # j
    BY <1>1, <2>1, <2>4, ZenonT(60) DEF StoreTypeOK
  <2>. QED
    BY <2>3, <2>4, ZenonT(60)
<1>6. ASSUME NEW w \in Worker, NEW t \in tasks[w], task_expires(w, t)
      PROVE  AllowedStep(i)
  BY <1>1, <1>6, task_expires_Effect DEF StoreTypeOK
<1>7. ASSUME NEW w \in Worker, NEW t \in tasks[w], task_finishes(w, t)
      PROVE  AllowedStep(i)
  <2>1. PICK j \in Invocation, n \in AttemptNumber,
            s \in {"RETRYING", "SUCCEEDED", "FAILED", "TIMEOUT"},
            a \in {"SUCCEEDED", "FAILED", "TIMEOUT"} :
           /\ j = InvocationOf(t) /\ n = t.attempt /\ n = attempt_count[j]
           /\ status[j] = "RUNNING"
           /\ attempt_status[<<j, n>>] = "RUNNING"
           /\ attempt_worker[<<j, n>>] = w
           /\ s = "RETRYING" => attempt_count[j] < MaxAttempts
           /\ status' = [status EXCEPT ![j] = s]
           /\ completed_at' = [completed_at EXCEPT ![j] = (s # "RETRYING")]
           /\ attempt_status' = [attempt_status EXCEPT ![<<j, n>>] = a]
           /\ UNCHANGED <<attempt_count, attempt_worker>>
    BY <1>7, task_finishes_Effect, ZenonT(60)
  <2>. QED
    BY <1>1, <2>1, ZenonT(60) DEF StoreTypeOK, TERMINAL_INVOCATION_STATUSES
<1>. QED
  BY <1>2, <1>3, <1>4, <1>5, <1>6, <1>7, RowChanges, ZenonT(60)

(* The columns of one invocation. *)
LEMMA ColumnTypes ==
  ASSUME StoreTypeOK, NEW i \in Invocation
  PROVE  /\ status[i] \in InvocationStatus /\ attempt_count[i] \in Nat
         /\ \A n \in AttemptNumber : n \in Nat
BY DEF StoreTypeOK, AttemptNumber

(* An invocation that has ended, or has started its n-th attempt, stays so. *)
LEMMA Allowed_Served ==
  ASSUME StoreTypeOK, StoreTypeOK', NEW i \in Invocation, NEW n \in AttemptNumber, AllowedStep(i),
         is_terminal_status(status[i]) \/ n <= attempt_count[i]
  PROVE  is_terminal_status(status'[i]) \/ n <= attempt_count'[i]
<1>1. /\ status[i] \in InvocationStatus /\ attempt_count[i] \in Nat /\ attempt_count'[i] \in Nat
  BY DEF StoreTypeOK
<1>. QED
  BY <1>1 DEF AllowedStep, AttemptNumber, is_terminal_status, TERMINAL_INVOCATION_STATUSES,
    Contract!Goes, Contract!Accept, Contract!Start, Contract!Retry, Contract!Finish,
    Contract!Expire, Contract!Stays

--------------------------------------------------------------------------------
(* What a step of worker w does to its own loop and tasks; the loops and   *)
(* tasks of the others stay as they are.                                   *)
Moves(w, p, T, s, n, l, c) ==
  /\ pc'[w] = p /\ tasks'[w] = T /\ stale'[w] = s
  /\ names'[w] = n /\ listed'[w] = l /\ claimed'[w] = c
  /\ \A x \in Worker \ {w} :
       /\ pc'[x] = pc[x] /\ tasks'[x] = tasks[x] /\ stale'[x] = stale[x]
       /\ names'[x] = names[x] /\ listed'[x] = listed[x] /\ claimed'[x] = claimed[x]

(* A step that leaves the loop and the tasks of w alone as well. *)
Rests(w) == Moves(w, pc[w], tasks[w], stale[w], names[w], listed[w], claimed[w])

(* The main loop goes to another place. *)
LEMMA Goes_Moves ==
  ASSUME WorkerTypeOK, NEW w \in Worker, NEW p, pc' = [pc EXCEPT ![w] = p],
         UNCHANGED <<tasks, stale, names, listed, claimed>>
  PROVE  Moves(w, p, tasks[w], stale[w], names[w], listed[w], claimed[w])
BY DEF Moves, WorkerTypeOK

(* The iteration ends and the tasks become T. *)
LEMMA Ends_Moves ==
  ASSUME WorkerTypeOK, NEW w \in Worker, NEW p, EndIteration(w, p),
         NEW T, tasks' = [tasks EXCEPT ![w] = T] \/ (UNCHANGED tasks /\ T = tasks[w])
  PROVE  Moves(w, p, T, {}, {}, {}, 0)
BY DEF Moves, WorkerTypeOK, EndIteration

(* A task step leaves the loop alone. *)
LEMMA Tasks_Moves ==
  ASSUME WorkerTypeOK, NEW w \in Worker, NEW T, tasks' = [tasks EXCEPT ![w] = T],
         UNCHANGED <<pc, stale, names, listed, claimed>>
  PROVE  Moves(w, pc[w], T, stale[w], names[w], listed[w], claimed[w])
BY ZenonT(60) DEF Moves, WorkerTypeOK

(* The steps of recovery up to its commit. *)
LEMMA Recover_Moves ==
  ASSUME WorkerTypeOK, NEW w \in Worker
  PROVE  /\ recover_select(w) =>
              Moves(w, "load", tasks[w], find_stale_workers, names[w], listed[w], claimed[w])
         /\ recover_load(w) =>
              Moves(w, "commit", tasks[w], stale[w], names[w], listed[w], claimed[w])
         /\ recover_commit(w) =>
              Moves(w, "claim", tasks[w], stale[w], stale[w], listed[w], claimed[w])
<1>1. ASSUME recover_select(w)
      PROVE  Moves(w, "load", tasks[w], find_stale_workers, names[w], listed[w], claimed[w])
  <2> PICK S : S = find_stale_workers
    OBVIOUS
  <2>. QED
    BY <1>1 DEF recover_select, Moves, WorkerTypeOK
<1>2. ASSUME recover_load(w)
      PROVE  Moves(w, "commit", tasks[w], stale[w], names[w], listed[w], claimed[w])
  BY <1>2, Goes_Moves, ZenonT(60) DEF recover_load
<1>3. ASSUME recover_commit(w)
      PROVE  Moves(w, "claim", tasks[w], stale[w], stale[w], listed[w], claimed[w])
  BY <1>3 DEF recover_commit, Moves, WorkerTypeOK
<1>. QED
  BY <1>1, <1>2, <1>3, ZenonT(60)

(* The steps of the claim call. *)
LEMMA Claim_Moves ==
  ASSUME WorkerTypeOK, NEW w \in Worker
  PROVE  /\ claim_list(w) => \E v, M :
              /\ v \in names[w] /\ M = Oldest(PendingOf(v), claim_count - claimed[w])
              /\ Moves(w, IF M = {} THEN "claim" ELSE "xclaim", tasks[w], stale[w],
                       names[w] \ {v}, M, claimed[w])
         /\ claim_take(w) => \E M, N :
              /\ M = claimable(listed[w]) /\ N = {NewTask(m, TRUE) : m \in M}
              /\ Moves(w, "claim", tasks[w] \cup N, stale[w], names[w], {},
                       claimed[w] + Cardinality(M))
         /\ claim_return(w) =>
              Moves(w, IF claimed[w] = 0 THEN "offline" ELSE "process", tasks[w], stale[w],
                    names[w], listed[w], claimed[w])
         /\ recovered_batch_done(w) =>
              Moves(w, IF claimed[w] < claim_count THEN "offline" ELSE "claim", tasks[w],
                    stale[w], stale[w], listed[w], 0)
<1>1. ASSUME claim_list(w)
      PROVE  \E v, M :
              /\ v \in names[w] /\ M = Oldest(PendingOf(v), claim_count - claimed[w])
              /\ Moves(w, IF M = {} THEN "claim" ELSE "xclaim", tasks[w], stale[w],
                       names[w] \ {v}, M, claimed[w])
  <2>1. PICK v \in names[w] :
          LET M == Oldest(PendingOf(v), claim_count - claimed[w])
          IN  /\ names' = [names EXCEPT ![w] = @ \ {v}]
              /\ listed' = [listed EXCEPT ![w] = M]
              /\ pc' = [pc EXCEPT ![w] = IF M = {} THEN "claim" ELSE "xclaim"]
    BY <1>1, ZenonT(60) DEF claim_list
  <2> PICK M : M = Oldest(PendingOf(v), claim_count - claimed[w])
    OBVIOUS
  <2>2. UNCHANGED <<tasks, stale, claimed>>
    BY <1>1 DEF claim_list
  <2>3. Moves(w, IF M = {} THEN "claim" ELSE "xclaim", tasks[w], stale[w],
              names[w] \ {v}, M, claimed[w])
    BY <2>1, <2>2 DEF Moves, WorkerTypeOK
  <2>. QED
    BY <2>3, ZenonT(60)
<1>2. ASSUME claim_take(w)
      PROVE  \E M, N :
              /\ M = claimable(listed[w]) /\ N = {NewTask(m, TRUE) : m \in M}
              /\ Moves(w, "claim", tasks[w] \cup N, stale[w], names[w], {},
                       claimed[w] + Cardinality(M))
  <2> PICK M : M = claimable(listed[w])
    OBVIOUS
  <2> PICK N : N = {NewTask(m, TRUE) : m \in M}
    BY Zenon
  <2>1. tasks' = [tasks EXCEPT ![w] = tasks[w] \cup N]
    BY <1>2, Zenon DEF claim_take
  <2>2. /\ claimed' = [claimed EXCEPT ![w] = claimed[w] + Cardinality(M)]
        /\ listed' = [listed EXCEPT ![w] = {}]
        /\ pc' = [pc EXCEPT ![w] = "claim"]
        /\ UNCHANGED <<stale, names>>
    BY <1>2 DEF claim_take
  <2>3. Moves(w, "claim", tasks[w] \cup N, stale[w], names[w], {}, claimed[w] + Cardinality(M))
    BY <2>1, <2>2 DEF Moves, WorkerTypeOK
  <2>. QED
    BY <2>3, ZenonT(60)
<1>3. ASSUME claim_return(w)
      PROVE  Moves(w, IF claimed[w] = 0 THEN "offline" ELSE "process", tasks[w], stale[w],
                   names[w], listed[w], claimed[w])
  BY <1>3, Goes_Moves, ZenonT(60) DEF claim_return
<1>4. ASSUME recovered_batch_done(w)
      PROVE  Moves(w, IF claimed[w] < claim_count THEN "offline" ELSE "claim", tasks[w],
                   stale[w], stale[w], listed[w], 0)
  BY <1>4 DEF recovered_batch_done, Moves, WorkerTypeOK
<1>. QED
  BY <1>1, <1>2, <1>3, <1>4, ZenonT(60)

(* The other steps of the main loop, and the ends of a process. *)
LEMMA Loop_Moves ==
  ASSUME WorkerTypeOK, NEW w \in Worker
  PROVE  /\ register_worker(w) =>
              Moves(w, "top", tasks[w], stale[w], names[w], listed[w], claimed[w])
         /\ recover_nothing(w) =>
              Moves(w, "read", tasks[w], stale[w], names[w], listed[w], claimed[w])
         /\ mark_workers_offline(w) =>
              \E p \in {"top", "read"} : Moves(w, p, tasks[w], {}, {}, {}, 0)
         /\ read_new_tasks(w) => \E N :
              /\ N = {NewTask(m, FALSE) : m \in next_messages(MaxConcurrency)}
              /\ Moves(w, "process", tasks[w] \cup N, stale[w], names[w], listed[w], claimed[w])
         /\ read_nothing(w) \/ new_batch_done(w) =>
              Moves(w, "top", tasks[w], stale[w], names[w], listed[w], claimed[w])
         /\ crash(w) \/ mark_worker_offline(w) => Moves(w, "down", {}, {}, {}, {}, 0)
         /\ interrupt(w) => Moves(w, "stopping", {t \in tasks[w] : ~t.awaited}, {}, {}, {}, 0)
         /\ record_heartbeat(w) \/ heartbeat_ages(w) => Rests(w)
<1>1. ASSUME register_worker(w)
      PROVE  Moves(w, "top", tasks[w], stale[w], names[w], listed[w], claimed[w])
  BY <1>1, Goes_Moves, ZenonT(60) DEF register_worker
<1>2. ASSUME recover_nothing(w)
      PROVE  Moves(w, "read", tasks[w], stale[w], names[w], listed[w], claimed[w])
  BY <1>2, Goes_Moves, ZenonT(60) DEF recover_nothing
<1>3. ASSUME mark_workers_offline(w)
      PROVE  \E p \in {"top", "read"} : Moves(w, p, tasks[w], {}, {}, {}, 0)
  <2>1. PICK p \in {"top", "read"} : EndIteration(w, p)
    BY <1>3 DEF mark_workers_offline
  <2>2. UNCHANGED tasks
    BY <1>3 DEF mark_workers_offline
  <2>3. Moves(w, p, tasks[w], {}, {}, {}, 0)
    BY <2>1, <2>2, Ends_Moves
  <2>. QED
    BY <2>3, ZenonT(60)
<1>4. ASSUME read_new_tasks(w)
      PROVE  \E N :
               /\ N = {NewTask(m, FALSE) : m \in next_messages(MaxConcurrency)}
               /\ Moves(w, "process", tasks[w] \cup N, stale[w], names[w], listed[w], claimed[w])
  <2> PICK N : N = {NewTask(m, FALSE) : m \in next_messages(MaxConcurrency)}
    BY Zenon
  <2>1. tasks' = [tasks EXCEPT ![w] = tasks[w] \cup N]
    BY <1>4, Zenon DEF read_new_tasks
  <2>2. pc' = [pc EXCEPT ![w] = "process"] /\ UNCHANGED <<stale, names, listed, claimed>>
    BY <1>4 DEF read_new_tasks
  <2>3. Moves(w, "process", tasks[w] \cup N, stale[w], names[w], listed[w], claimed[w])
    BY <2>1, <2>2 DEF Moves, WorkerTypeOK
  <2>. QED
    BY <2>3, ZenonT(60)
<1>5. ASSUME read_nothing(w) \/ new_batch_done(w)
      PROVE  Moves(w, "top", tasks[w], stale[w], names[w], listed[w], claimed[w])
  <2>1. pc' = [pc EXCEPT ![w] = "top"] /\ UNCHANGED <<tasks, stale, names, listed, claimed>>
    BY <1>5 DEF read_nothing, new_batch_done
  <2>. QED
    BY <2>1, Goes_Moves, ZenonT(60)
<1>6. ASSUME crash(w) \/ mark_worker_offline(w)
      PROVE  Moves(w, "down", {}, {}, {}, {}, 0)
  <2>1. EndIteration(w, "down") /\ tasks' = [tasks EXCEPT ![w] = {}]
    BY <1>6 DEF crash, mark_worker_offline
  <2>. QED
    BY <2>1, Ends_Moves, ZenonT(60)
<1>7. ASSUME interrupt(w)
      PROVE  Moves(w, "stopping", {t \in tasks[w] : ~t.awaited}, {}, {}, {}, 0)
  <2> PICK T : T = {t \in tasks[w] : ~t.awaited}
    BY Zenon
  <2>1. EndIteration(w, "stopping") /\ tasks' = [tasks EXCEPT ![w] = T]
    BY <1>7, ZenonT(60) DEF interrupt
  <2>. QED
    BY <2>1, Ends_Moves
<1>8. ASSUME record_heartbeat(w) \/ heartbeat_ages(w)
      PROVE  Rests(w)
  <2>1. UNCHANGED <<pc, tasks, stale, names, listed, claimed>>
    BY <1>8 DEF record_heartbeat, heartbeat_ages, loopVars
  <2>. QED
    BY <2>1, ZenonT(60) DEF Rests, Moves
<1>. QED
  BY <1>1, <1>2, <1>3, <1>4, <1>5, <1>6, <1>7, <1>8, ZenonT(60)

(* Task t of worker w is at l now; its message and its origin stay. *)
TaskGoes(w, t, l) ==
  \E u : /\ u.msg = t.msg /\ u.recovered = t.recovered /\ u.awaited = t.awaited /\ u.at = l
         /\ Moves(w, pc[w], (tasks[w] \ {t}) \cup {u}, stale[w], names[w], listed[w], claimed[w])

(* Such a step makes no task but that one. *)
LEMMA TaskGoes_Tasks ==
  ASSUME NEW w \in Worker, NEW t \in tasks[w], NEW l, TaskGoes(w, t, l)
  PROVE  \E u : u.msg = t.msg /\ \A x \in Worker : \A y \in tasks'[x] : y \in tasks[x] \/ y = u
<1>1. PICK u :
        /\ u.msg = t.msg
        /\ Moves(w, pc[w], (tasks[w] \ {t}) \cup {u}, stale[w], names[w], listed[w], claimed[w])
  BY ZenonT(60) DEF TaskGoes
<1>2. \A x \in Worker : \A y \in tasks'[x] : y \in tasks[x] \/ y = u
  BY <1>1 DEF Moves
<1>. QED
  BY <1>1, <1>2, ZenonT(60)

(* A task moves on to its next await, or ends. *)
LEMMA Task_Moves ==
  ASSUME WorkerTypeOK, NEW w \in Worker, NEW t \in tasks[w]
  PROVE  /\ task_starts(w, t) => TaskGoes(w, t, "running")
         /\ execute(w, t) => TaskGoes(w, t, "executed")
         /\ task_expires(w, t) \/ task_is_refused(w, t) \/ task_finishes(w, t) =>
              TaskGoes(w, t, "ack")
         /\ acknowledge(w, t) =>
              Moves(w, pc[w], tasks[w] \ {t}, stale[w], names[w], listed[w], claimed[w])
<1>1. t \in Task
  BY DEF WorkerTypeOK
<1>2. ASSUME NEW u, Becomes(w, t, u), UNCHANGED loopVars
      PROVE  Moves(w, pc[w], (tasks[w] \ {t}) \cup {u}, stale[w], names[w], listed[w], claimed[w])
  <2>1. UNCHANGED <<pc, stale, names, listed, claimed>>
    BY <1>2 DEF loopVars
  <2>2. tasks' = [tasks EXCEPT ![w] = (tasks[w] \ {t}) \cup {u}]
    BY <1>2 DEF Becomes
  <2> PICK T : T = (tasks[w] \ {t}) \cup {u}
    BY ZenonT(60)
  <2>. QED
    BY <2>1, <2>2, Tasks_Moves, ZenonT(60)
<1>3. ASSUME task_starts(w, t)
      PROVE  TaskGoes(w, t, "running")
  <2> PICK u : u = [t EXCEPT !.at = "running", !.attempt = attempt_count[InvocationOf(t)] + 1]
    BY Zenon
  <2>1. Becomes(w, t, u) /\ UNCHANGED loopVars
    BY <1>3, ZenonT(60) DEF task_starts
  <2>2. u.msg = t.msg /\ u.recovered = t.recovered /\ u.awaited = t.awaited /\ u.at = "running"
    BY <1>1 DEF Task
  <2>. QED
    BY <1>2, <2>1, <2>2, ZenonT(60) DEF TaskGoes
<1>4. ASSUME execute(w, t)
      PROVE  TaskGoes(w, t, "executed")
  <2>1. PICK result : Becomes(w, t, [t EXCEPT !.at = "executed", !.result = result])
    BY <1>4, ZenonT(60) DEF execute
  <2> PICK u : u = [t EXCEPT !.at = "executed", !.result = result]
    BY Zenon
  <2>2. Becomes(w, t, u) /\ UNCHANGED loopVars
    BY <1>4, <2>1, ZenonT(60) DEF execute
  <2>3. u.msg = t.msg /\ u.recovered = t.recovered /\ u.awaited = t.awaited /\ u.at = "executed"
    BY <1>1 DEF Task
  <2>. QED
    BY <1>2, <2>2, <2>3, ZenonT(60) DEF TaskGoes
<1>5. ASSUME task_expires(w, t) \/ task_is_refused(w, t) \/ task_finishes(w, t)
      PROVE  TaskGoes(w, t, "ack")
  <2> PICK u : u = [t EXCEPT !.at = "ack"]
    BY Zenon
  <2>1. Becomes(w, t, u) /\ UNCHANGED loopVars
    BY <1>5, ZenonT(60) DEF task_expires, task_is_refused, task_finishes
  <2>2. u.msg = t.msg /\ u.recovered = t.recovered /\ u.awaited = t.awaited /\ u.at = "ack"
    BY <1>1 DEF Task
  <2>. QED
    BY <1>2, <2>1, <2>2, ZenonT(60) DEF TaskGoes
<1>6. ASSUME acknowledge(w, t)
      PROVE  Moves(w, pc[w], tasks[w] \ {t}, stale[w], names[w], listed[w], claimed[w])
  BY <1>6, Tasks_Moves, ZenonT(60) DEF acknowledge, loopVars
<1>. QED
  BY <1>3, <1>4, <1>5, <1>6, ZenonT(60)

(* Neither mark_running nor mark_finished ever raises. *)
LEMMA NotRejected ==
  ASSUME OwnershipInvariant, NEW w \in Worker, NEW t \in tasks[w]
  PROVE  ~task_is_rejected(w, t)
<1>1. ASSUME t.at = "received"
      PROVE  TaskVerdict(t) # "raise"
  BY <1>1, Ledger_NoFuture DEF OwnershipInvariant, NoFutureTask
<1>2. ASSUME t.at = "executed"
      PROVE  can_complete(InvocationOf(t), t.attempt, t.result)
  <2> PICK i \in Invocation, n \in AttemptNumber : i = InvocationOf(t) /\ n = t.attempt
    BY <1>2, ExecutingRow, ZenonT(60) DEF Executes
  <2>1. /\ attempt_status[<<i, n>>] = "RUNNING" /\ status[i] = "RUNNING"
    BY <1>2, ExecutingRow DEF Executes
  <2>2. n = attempt_count[i]
    BY <2>1 DEF OwnershipInvariant, RunningAttemptIsLast
  <2>3. ASSUME n < MaxAttempts
        PROVE  dispatches[<<i, n + 1>>] = "NONE"
    <3>1. n + 1 \in AttemptNumber /\ n \in Nat
      BY <2>3, StoreAssumption DEF AttemptNumber
    <3> PICK k \in AttemptNumber : k = n + 1
      BY <3>1
    <3>2. ~(k <= n)
      BY <3>1
    <3>3. dispatches[<<i, k>>] # "NONE" /\ status[i] = "RUNNING" => k <= attempt_count[i]
      BY ZenonT(60) DEF OwnershipInvariant, LedgerInvariant, OutboxShape
    <3>. QED
      BY <2>1, <2>2, <3>2, <3>3
  <2>4. can_complete(i, n, t.result)
    BY <2>1, <2>3 DEF can_complete, should_retry
  <2>. QED
    BY <2>4
<1>. QED
  BY <1>1, <1>2 DEF task_is_rejected

--------------------------------------------------------------------------------
(* The steps of a worker pool in which workers only crash. *)

(* The steps of worker w that concern its row and its main loop only. *)
Turn(w) ==
  \/ register_worker(w) \/ record_heartbeat(w)
  \/ recover_select(w) \/ recover_nothing(w) \/ recover_load(w) \/ recover_commit(w)
  \/ claim_list(w) \/ claim_return(w) \/ recovered_batch_done(w)
  \/ mark_workers_offline(w) \/ read_nothing(w) \/ new_batch_done(w)

(* A step of a client or a dispatcher, or time passes. *)
Outer ==
  /\ UNCHANGED <<pc, tasks, stale, lost, names, listed, claimed, worker_status, cursor, pending>>
  /\ \A m \in Message : stream'[m] = stream[m]

(* The parts of the invariants that the proofs use most. *)
LEMMA OwnershipTypes ==
  ASSUME OwnershipInvariant
  PROVE  /\ StoreTypeOK /\ WorkerTypeOK /\ StreamTypeOK(AttemptRow)
         /\ TaskShape /\ OnlyDeadAreStale /\ LedgerInvariant /\ NoWorker \notin Worker
BY EnvironmentAssumption, ZenonT(60) DEF OwnershipInvariant, LedgerInvariant, TypeOK

(* The same for CrashInvariant. *)
LEMMA CrashTypes ==
  ASSUME CrashInvariant
  PROVE  /\ StoreTypeOK /\ WorkerTypeOK /\ StreamTypeOK(AttemptRow)
         /\ TaskShape /\ OnlyDeadAreStale /\ LedgerInvariant /\ OwnershipInvariant
         /\ NoWorker \notin Worker
         /\ AcknowledgedAreServed /\ \A w \in Worker : RecoverySettled(w)
BY OwnershipTypes, ZenonT(60) DEF CrashInvariant

(* The same for CarryInvariant. *)
LEMMA CarryTypes ==
  ASSUME CarryInvariant
  PROVE  /\ StoreTypeOK /\ WorkerTypeOK /\ StreamTypeOK(AttemptRow)
         /\ TaskShape /\ OnlyDeadAreStale /\ LedgerInvariant /\ OwnershipInvariant
         /\ BatchInvariant /\ MessagesHeld /\ NoWorker \notin Worker
         /\ AcknowledgedAreServed /\ CrashInvariant
BY CrashTypes, ZenonT(60) DEF CarryInvariant

(* The stream only grows. *)
LEMMA StreamKept ==
  ASSUME LedgerInvariant, [Next]_vars
  PROVE  \A m \in Message : stream'[m] = stream[m]
<1>1. CASE ClientStep \/ BackoffStep \/ UNCHANGED vars
  BY <1>1, ZenonT(60) DEF ClientStep, BackoffStep, vars, streamVars
<1>2. ASSUME NEW d \in DispatcherId, DispatcherStep(d) \/ DispatcherFault(d)
      PROVE  \A m \in Message : stream'[m] = stream[m]
  <2>1. UNCHANGED <<stream, cursor, pending>> \/ \E r \in AttemptRow : xadd(r)
    BY <1>2, ZenonT(60) DEF DispatcherStep, DispatcherFault, dispatch_select, publish_invocation,
      publish_fails, dispatch_commit, dispatch_abort, streamVars
  <2>. QED
    BY <2>1, xadd_Keeps
<1>3. ASSUME NEW w \in Worker,
             \/ QuietStep(w) \/ recover_select(w) \/ recover_load(w) \/ recover_commit(w)
             \/ claim_take(w) \/ read_new_tasks(w) \/ read_reply_lost(w)
      PROVE  UNCHANGED stream
  BY <1>3, ZenonT(60) DEF QuietStep, recover_select, recover_load, recover_commit, claim_take,
    xclaim, read_new_tasks, read_reply_lost, xreadgroup, register_worker, record_heartbeat,
    heartbeat_ages, heartbeat_loop_dies, recover_nothing, claim_list, claim_return,
    recovered_batch_done, mark_workers_offline, read_nothing, new_batch_done, loop_call_fails,
    crash, interrupt, mark_worker_offline, streamVars
<1>4. ASSUME NEW w \in Worker, NEW t \in tasks[w], TaskStep(w, t) \/ task_call_fails(w, t)
      PROVE  UNCHANGED stream
  BY <1>4, ZenonT(60) DEF TaskStep, task_starts, task_expires, task_is_refused, execute,
    task_finishes, task_is_rejected, acknowledge, task_call_fails, Raise, xack, streamVars
<1>5. ASSUME NEW w \in Worker, WorkerStep(w)
      PROVE  UNCHANGED stream
  BY <1>3, <1>4, <1>5, ZenonT(60) DEF WorkerStep, LoopStep, WorkerFault, QuietStep
<1>. QED
  BY <1>1, <1>2, <1>5, ZenonT(60) DEF Next

(* The steps there are under the faults of CrashesOnly. *)
LEMMA CrashSteps ==
  ASSUME CrashesOnly, CrashInvariant, [Next]_vars
  PROVE  \/ Outer
         \/ \E w \in Worker : Turn(w) \/ claim_take(w) \/ read_new_tasks(w) \/ crash(w)
         \/ \E w \in Worker : \E t \in tasks[w] :
              \/ task_starts(w, t) \/ task_expires(w, t) \/ task_is_refused(w, t)
              \/ execute(w, t) \/ task_finishes(w, t) \/ acknowledge(w, t)
<1>0. \A m \in Message : stream'[m] = stream[m]
  BY CrashTypes, StreamKept, ZenonT(60)
<1>1. CASE ClientStep \/ BackoffStep \/ UNCHANGED vars
  BY <1>0, <1>1, ZenonT(60) DEF ClientStep, BackoffStep, Outer, vars, workerVars, loopVars, rowVars, streamVars
<1>2. ASSUME NEW d \in DispatcherId, DispatcherStep(d) \/ DispatcherFault(d), UNCHANGED workerVars
      PROVE  Outer
  <2>1. UNCHANGED <<stream, cursor, pending>> \/ \E r \in AttemptRow : xadd(r)
    BY <1>2, ZenonT(60) DEF DispatcherStep, DispatcherFault, dispatch_select, publish_invocation,
      publish_fails, dispatch_commit, dispatch_abort, streamVars
  <2>2. UNCHANGED <<cursor, pending>>
    BY <2>1 DEF xadd
  <2>. QED
    BY <1>0, <1>2, <2>2, ZenonT(60) DEF Outer, workerVars, loopVars, rowVars
<1>3. ASSUME NEW w \in Worker, WorkerStep(w)
      PROVE  \/ Outer \/ Turn(w) \/ claim_take(w) \/ read_new_tasks(w) \/ crash(w)
             \/ \E t \in tasks[w] :
                  \/ task_starts(w, t) \/ task_expires(w, t) \/ task_is_refused(w, t)
                  \/ execute(w, t) \/ task_finishes(w, t) \/ acknowledge(w, t)
  <2>1. /\ "call" \notin FaultKinds /\ "heartbeat" \notin FaultKinds /\ "stop" \notin FaultKinds
    BY DEF CrashesOnly
  <2>2. /\ \A t \in tasks[w] : ~task_call_fails(w, t)
        /\ ~loop_call_fails(w) /\ ~read_reply_lost(w) /\ ~heartbeat_loop_dies(w)
        /\ ~interrupt(w)
    BY <2>1, ZenonT(60) DEF task_call_fails, loop_call_fails, read_reply_lost,
      heartbeat_loop_dies, interrupt, fault
  <2>3. ~mark_worker_offline(w)
    BY CrashTypes, ZenonT(60) DEF RecoverySettled, mark_worker_offline
  <2>4. \A t \in tasks[w] : ~task_is_rejected(w, t)
    BY CrashTypes, NotRejected
  <2>5. heartbeat_ages(w) => Outer
    BY <1>0, ZenonT(60) DEF heartbeat_ages, Outer, loopVars, streamVars
  <2>. QED
    BY <1>3, <2>2, <2>3, <2>4, <2>5, ZenonT(60) DEF WorkerStep, WorkerFault, LoopStep, TaskStep, Turn
<1>. QED
  BY <1>1, <1>2, <1>3, ZenonT(60) DEF Next

(* A turn of the main loop touches neither the tasks nor the stream, and   *)
(* brings no process to life but a new one.                                *)
LEMMA TurnFacts ==
  ASSUME WorkerTypeOK, NEW w \in Worker, Turn(w)
  PROVE  /\ UNCHANGED <<tasks, stream, cursor, pending>>
         /\ pc'[w] \notin {"new", "down", "stopping"} /\ pc[w] \notin {"down", "stopping"}
         /\ pc[w] = "new" => register_worker(w)
         /\ \A x \in Worker \ {w} :
              /\ pc'[x] = pc[x] /\ stale'[x] = stale[x] /\ names'[x] = names[x]
              /\ listed'[x] = listed[x] /\ claimed'[x] = claimed[x] /\ lost'[x] = lost[x]
<1>1. UNCHANGED <<tasks, stream, cursor, pending>>
  BY ZenonT(60) DEF Turn, register_worker, record_heartbeat, recover_select,
    recover_nothing, recover_load, recover_commit, claim_list, claim_return,
    recovered_batch_done, mark_workers_offline, read_nothing, new_batch_done, streamVars
<1>2. \A x \in Worker \ {w} : lost'[x] = lost[x]
  BY ZenonT(60) DEF Turn, register_worker, record_heartbeat, recover_select,
    recover_nothing, recover_load, recover_commit, claim_list, claim_return,
    recovered_batch_done, mark_workers_offline, read_nothing, new_batch_done, loopVars,
    EndIteration, WorkerTypeOK
<1>3. pc[w] \notin {"down", "stopping"} /\ (pc[w] = "new" => register_worker(w))
  BY ZenonT(60) DEF Turn, register_worker, record_heartbeat, Up, recover_select,
    recover_nothing, recover_load, recover_commit, claim_list, claim_return,
    recovered_batch_done, mark_workers_offline, read_nothing, new_batch_done
<1>4. ASSUME NEW p, NEW T, NEW s, NEW n, NEW l, NEW c, Moves(w, p, T, s, n, l, c)
      PROVE  /\ pc'[w] = p
             /\ \A x \in Worker \ {w} :
                  /\ pc'[x] = pc[x] /\ stale'[x] = stale[x] /\ names'[x] = names[x]
                  /\ listed'[x] = listed[x] /\ claimed'[x] = claimed[x]
  BY <1>4, ZenonT(60) DEF Moves
<1>5. \E p, T, s, n, l, c : Moves(w, p, T, s, n, l, c) /\ p \notin {"new", "down", "stopping"}
  <2>1. CASE record_heartbeat(w)
    <3>1. pc[w] \notin {"new", "down", "stopping"}
      BY <2>1 DEF record_heartbeat, Up
    <3>. QED
      BY <2>1, <3>1, Loop_Moves, ZenonT(60) DEF Rests
  <2>2. CASE register_worker(w) \/ recover_nothing(w) \/ read_nothing(w) \/ new_batch_done(w)
    <3>1. \E p \in {"top", "read"} : Moves(w, p, tasks[w], stale[w], names[w], listed[w], claimed[w])
      BY <2>2, Loop_Moves, ZenonT(60)
    <3>. QED
      BY <3>1
  <2>3. CASE mark_workers_offline(w)
    <3>1. \E p \in {"top", "read"} : Moves(w, p, tasks[w], {}, {}, {}, 0)
      BY <2>3, Loop_Moves, ZenonT(60)
    <3>. QED
      BY <3>1
  <2>4. CASE recover_select(w)
    BY <2>4, Recover_Moves
  <2>5. CASE recover_load(w)
    BY <2>5, Recover_Moves
  <2>6. CASE recover_commit(w)
    BY <2>6, Recover_Moves
  <2>7. CASE claim_list(w)
    <3>1. PICK v, M :
            Moves(w, IF M = {} THEN "claim" ELSE "xclaim", tasks[w], stale[w], names[w] \ {v}, M,
                  claimed[w])
      BY <2>7, Claim_Moves, ZenonT(60)
    <3>. QED
      BY <3>1
  <2>8. CASE claim_return(w)
    <3> PICK p \in {"offline", "process"} : p = IF claimed[w] = 0 THEN "offline" ELSE "process"
      OBVIOUS
    <3>1. Moves(w, p, tasks[w], stale[w], names[w], listed[w], claimed[w])
      BY <2>8, Claim_Moves, ZenonT(60)
    <3>. QED
      BY <3>1
  <2>9. CASE recovered_batch_done(w)
    <3> PICK p \in {"offline", "claim"} :
          p = IF claimed[w] < claim_count THEN "offline" ELSE "claim"
      OBVIOUS
    <3>1. Moves(w, p, tasks[w], stale[w], stale[w], listed[w], 0)
      BY <2>9, Claim_Moves, ZenonT(60)
    <3>. QED
      BY <3>1
  <2>. QED
    BY <2>1, <2>2, <2>3, <2>4, <2>5, <2>6, <2>7, <2>8, <2>9, ZenonT(60) DEF Turn
<1>. QED
  BY <1>1, <1>2, <1>3, <1>4, <1>5

(* The main loop of worker x does not move. *)
LoopRests(x) ==
  /\ pc'[x] = pc[x] /\ stale'[x] = stale[x] /\ names'[x] = names[x]
  /\ listed'[x] = listed[x] /\ claimed'[x] = claimed[x] /\ lost'[x] = lost[x]

(* The steps in which a main loop moves. *)
LEMMA LoopMoves ==
  ASSUME CrashesOnly, CrashInvariant, [Next]_vars, NEW x \in Worker
  PROVE  LoopRests(x) \/ Turn(x) \/ claim_take(x) \/ read_new_tasks(x) \/ crash(x)
<1>0. WorkerTypeOK
  BY CrashTypes
<1>1. Outer => LoopRests(x)
  BY DEF Outer, LoopRests
<1>2. ASSUME NEW w \in Worker, w # x, Turn(w)
      PROVE  LoopRests(x)
  BY <1>0, <1>2, TurnFacts DEF LoopRests
<1>3. ASSUME NEW w \in Worker, w # x, claim_take(w) \/ read_new_tasks(w) \/ crash(w)
      PROVE  LoopRests(x)
  <2>1. CASE claim_take(w)
    BY <1>0, <1>3, <2>1, ZenonT(60) DEF LoopRests, WorkerTypeOK, claim_take
  <2>2. CASE read_new_tasks(w)
    BY <1>0, <1>3, <2>2, ZenonT(60) DEF LoopRests, WorkerTypeOK, read_new_tasks
  <2>3. CASE crash(w)
    BY <1>0, <1>3, <2>3, ZenonT(60) DEF LoopRests, WorkerTypeOK, crash, EndIteration
  <2>. QED
    BY <1>3, <2>1, <2>2, <2>3, ZenonT(60)
<1>4. ASSUME NEW w \in Worker, NEW t \in tasks[w],
             \/ task_starts(w, t) \/ task_expires(w, t) \/ task_is_refused(w, t)
             \/ execute(w, t) \/ task_finishes(w, t) \/ acknowledge(w, t)
      PROVE  LoopRests(x)
  BY <1>4, ZenonT(60) DEF LoopRests, task_starts, task_expires, task_is_refused, execute,
    task_finishes, acknowledge, loopVars
<1>. QED
  BY <1>1, <1>2, <1>3, <1>4, CrashSteps, ZenonT(60)

(* A dead process stays dead. *)
LEMMA DownStays ==
  ASSUME CrashesOnly, CrashInvariant, [Next]_vars, NEW w \in Worker, pc[w] = "down"
  PROVE  pc'[w] = "down"
<1>1. ~Turn(w)
  BY CrashTypes, TurnFacts, ZenonT(60)
<1>2. ~claim_take(w) /\ ~read_new_tasks(w) /\ ~crash(w)
  BY DEF claim_take, read_new_tasks, crash, Up
<1>. QED
  BY <1>1, <1>2, LoopMoves, ZenonT(60) DEF LoopRests

--------------------------------------------------------------------------------
(* Attempts that run. *)

(* mark_finished makes no attempt RUNNING, and its invocation stops. *)
LEMMA task_finishes_Rows ==
  ASSUME OwnershipInvariant, NEW w \in Worker, NEW t \in tasks[w], task_finishes(w, t)
  PROVE  /\ UNCHANGED attempt_worker /\ status'[InvocationOf(t)] # "RUNNING"
         /\ \A r \in AttemptRow : attempt_status'[r] = "RUNNING" => attempt_status[r] = "RUNNING"
<1>1. PICK i \in Invocation, n \in AttemptNumber,
           s \in {"RETRYING", "SUCCEEDED", "FAILED", "TIMEOUT"},
           a \in {"SUCCEEDED", "FAILED", "TIMEOUT"} :
        /\ i = InvocationOf(t) /\ n = t.attempt /\ n = attempt_count[i]
        /\ status[i] = "RUNNING"
        /\ attempt_status[<<i, n>>] = "RUNNING"
        /\ attempt_worker[<<i, n>>] = w
        /\ s = "RETRYING" => attempt_count[i] < MaxAttempts
        /\ status' = [status EXCEPT ![i] = s]
        /\ completed_at' = [completed_at EXCEPT ![i] = (s # "RETRYING")]
        /\ attempt_status' = [attempt_status EXCEPT ![<<i, n>>] = a]
        /\ UNCHANGED <<attempt_count, attempt_worker>>
  BY task_finishes_Effect, ZenonT(60)
<1>2. /\ attempt_status \in [AttemptRow -> InvocationAttemptStatus]
      /\ status \in [Invocation -> InvocationStatus]
  BY DEF OwnershipInvariant, LedgerInvariant, TypeOK, StoreTypeOK
<1>. QED
  BY <1>1, <1>2 DEF AttemptRow

(* No step makes an attempt of a dead worker RUNNING. *)
LEMMA NoneRevived ==
  ASSUME OwnershipInvariant, [Next]_vars, NEW S \in SUBSET Worker, \A v \in S : pc[v] = "down",
         NEW r \in AttemptRow, attempt_status'[r] = "RUNNING", attempt_worker'[r] \in S
  PROVE  attempt_status[r] = "RUNNING" /\ attempt_worker[r] \in S
<1>0. StoreTypeOK /\ OnlyDeadAreStale
  BY OwnershipTypes
<1>1. CASE RowsUnchanged \/ \E i \in Invocation : create_invocation(i)
  BY <1>1, ZenonT(60) DEF RowsUnchanged, create_invocation
<1>2. CASE \E w \in Worker : recover_commit(w)
  BY <1>0, <1>2, recover_commit_Effect, ZenonT(60)
<1>3. ASSUME NEW w \in Worker, NEW t \in tasks[w], task_starts(w, t)
      PROVE  attempt_status[r] = "RUNNING" /\ attempt_worker[r] \in S
  <2>1. w \notin S
    BY <1>0 DEF OnlyDeadAreStale, Up
  <2>2. PICK q \in AttemptRow :
          /\ attempt_status' = [attempt_status EXCEPT ![q] = "RUNNING"]
          /\ attempt_worker' = [attempt_worker EXCEPT ![q] = w]
    BY <1>0, <1>3, task_starts_Effect, ZenonT(60) DEF AttemptRow
  <2>3. r # q
    BY <1>0, <2>1, <2>2 DEF StoreTypeOK
  <2>. QED
    BY <1>0, <2>2, <2>3 DEF StoreTypeOK
<1>4. ASSUME NEW w \in Worker, NEW t \in tasks[w], task_expires(w, t)
      PROVE  attempt_status[r] = "RUNNING" /\ attempt_worker[r] \in S
  BY <1>0, <1>4, task_expires_Effect
<1>5. ASSUME NEW w \in Worker, NEW t \in tasks[w], task_finishes(w, t)
      PROVE  attempt_status[r] = "RUNNING" /\ attempt_worker[r] \in S
  BY <1>0, <1>5, task_finishes_Rows
<1>. QED
  BY <1>1, <1>2, <1>3, <1>4, <1>5, RowChanges, ZenonT(60)

(* The worker of a started attempt never changes. *)
LEMMA AttemptWorkerStays ==
  ASSUME OwnershipInvariant, [Next]_vars, NEW r \in AttemptRow, attempt_status[r] # "NONE"
  PROVE  attempt_worker'[r] = attempt_worker[r]
<1>0. StoreTypeOK
  BY OwnershipTypes
<1>1. CASE RowsUnchanged \/ \E i \in Invocation : create_invocation(i)
  BY <1>1, ZenonT(60) DEF RowsUnchanged, create_invocation
<1>2. CASE \E w \in Worker : recover_commit(w)
  BY <1>0, <1>2, recover_commit_Effect, ZenonT(60)
<1>3. ASSUME NEW w \in Worker, NEW t \in tasks[w], task_starts(w, t)
      PROVE  attempt_worker'[r] = attempt_worker[r]
  <2>1. PICK q \in AttemptRow :
          attempt_worker' = [attempt_worker EXCEPT ![q] = w] /\ attempt_status[q] = "NONE"
    BY <1>0, <1>3, task_starts_Effect, ZenonT(60) DEF AttemptRow
  <2>. QED
    BY <1>0, <2>1 DEF StoreTypeOK
<1>4. ASSUME NEW w \in Worker, NEW t \in tasks[w], task_expires(w, t)
      PROVE  attempt_worker'[r] = attempt_worker[r]
  BY <1>0, <1>4, task_expires_Effect, ZenonT(60)
<1>5. ASSUME NEW w \in Worker, NEW t \in tasks[w], task_finishes(w, t)
      PROVE  attempt_worker'[r] = attempt_worker[r]
  BY <1>0, <1>5, task_finishes_Rows
<1>. QED
  BY <1>1, <1>2, <1>3, <1>4, <1>5, RowChanges, ZenonT(60)

--------------------------------------------------------------------------------
(* Messages that are delivered. *)

(* The tasks N made of messages M: one for each, not yet started. *)
TasksOf(N, M, b) ==
  /\ \A t \in N : /\ t.msg \in M /\ t.at = "received" /\ t.recovered = b
                  /\ \A u \in N : u.msg = t.msg => u = t
  /\ \A m \in M : \E t \in N : t.msg = m

(* The tasks process_batch makes of a reply are such. *)
LEMMA NewTasksOf ==
  ASSUME NEW M, NEW b, NEW N, N = {NewTask(m, b) : m \in M}
  PROVE  TasksOf(N, M, b)
<1>1. ASSUME NEW t \in N
      PROVE  t.at = "received" /\ t.recovered = b /\ t.msg \in M /\ t = NewTask(t.msg, b)
  <2>1. PICK m \in M : t = NewTask(m, b)
    BY ZenonT(60)
  <2>. QED
    BY <2>1 DEF NewTask
<1>2. \A m \in M : NewTask(m, b) \in N /\ NewTask(m, b).msg = m
  <2>1. \A m \in M : NewTask(m, b) \in N
    BY ZenonT(60)
  <2>2. \A m \in M : NewTask(m, b).msg = m
    BY DEF NewTask
  <2>. QED
    BY <2>1, <2>2, ZenonT(60)
<1>3. ASSUME NEW t \in N, NEW u \in N, u.msg = t.msg
      PROVE  u = t
  <2>1. t = NewTask(t.msg, b) /\ u = NewTask(u.msg, b)
    BY <1>1, ZenonT(60)
  <2>. QED
    BY <1>3, <2>1, ZenonT(60)
<1>. QED
  BY <1>1, <1>2, <1>3, ZenonT(60) DEF TasksOf

(* A delivery to worker w: messages M, which no task holds, become pending *)
(* for w, with new tasks N for them.                                       *)
Delivery(w, M, N, b) ==
  /\ Up(w) /\ pc'[w] \notin {"new", "down", "stopping"}
  /\ M \in SUBSET MessageId /\ TasksOf(N, M, b)
  /\ tasks'[w] = tasks[w] \cup N
  /\ pending' = [m \in MessageId |-> IF m \in M THEN w ELSE pending[m]]
  /\ \A x \in Worker : \A t \in tasks[x] : t.msg \notin M
  /\ UNCHANGED <<worker_status, stream>>
  /\ \A x \in Worker \ {w} : pc'[x] = pc[x] /\ tasks'[x] = tasks[x]

(* XCLAIM delivers the listed messages of the dead consumers. *)
LEMMA claim_take_Delivery ==
  ASSUME CarryInvariant, NEW w \in Worker, claim_take(w)
  PROVE  \E M, N : /\ M = listed[w] /\ M = claimable(listed[w]) /\ Delivery(w, M, N, TRUE)
                   /\ \A m \in M : pending[m] \in stale[w]
                   /\ Moves(w, "claim", tasks[w] \cup N, stale[w], names[w], {},
                            claimed[w] + Cardinality(M))
<1>0. WorkerTypeOK /\ NoWorker \notin Worker /\ OnlyDeadAreStale /\ MessagesHeld
  BY CarryTypes
<1>1. pc[w] = "xclaim" /\ UNCHANGED <<worker_status, stream>> /\ xclaim(w, listed[w])
  BY DEF claim_take, rowVars, xclaim
<1>2. PICK M, N :
        /\ M = claimable(listed[w]) /\ N = {NewTask(m, TRUE) : m \in M}
        /\ Moves(w, "claim", tasks[w] \cup N, stale[w], names[w], {}, claimed[w] + Cardinality(M))
  BY <1>0, Claim_Moves, ZenonT(60)
<1>3. \A m \in listed[w] : pending[m] \in stale[w]
  BY DEF CarryInvariant, RecoveryComplete
<1>4. listed[w] \in SUBSET MessageId /\ stale[w] \in SUBSET Worker
  BY <1>0 DEF WorkerTypeOK
<1>5. M = listed[w]
  BY <1>0, <1>2, <1>3, <1>4, ZenonT(60) DEF claimable
<1>6. TasksOf(N, M, TRUE)
  BY <1>2, NewTasksOf, ZenonT(60)
<1>7. pending' = [m \in MessageId |-> IF m \in M THEN w ELSE pending[m]]
  BY <1>1, <1>2 DEF xclaim
<1>8. ASSUME NEW x \in Worker, NEW t \in tasks[x], t.msg \in M
      PROVE  FALSE
  <2>1. pending[t.msg] = x
    BY <1>0 DEF MessagesHeld, HoldsOwn
  <2>2. x \in stale[w]
    BY <1>3, <1>5, <1>8, <2>1
  <2>3. ~Up(x)
    BY <1>0, <2>2 DEF OnlyDeadAreStale, Up
  <2>. QED
    BY <1>0, <2>3 DEF OnlyDeadAreStale
<1>9. Up(w)
  BY <1>1 DEF Up
<1>10. Delivery(w, M, N, TRUE)
  BY <1>1, <1>2, <1>4, <1>5, <1>6, <1>7, <1>8, <1>9, ZenonT(60) DEF Delivery, Moves
<1>. QED
  BY <1>2, <1>3, <1>5, <1>10, ZenonT(60)

(* XREADGROUP delivers messages that nobody has had. *)
LEMMA read_new_tasks_Delivery ==
  ASSUME CarryInvariant, NEW w \in Worker, read_new_tasks(w)
  PROVE  \E M, N : /\ M = next_messages(MaxConcurrency) /\ Delivery(w, M, N, FALSE)
                   /\ \A m \in M : pending[m] = NoWorker /\ cursor < m
                   /\ Moves(w, "process", tasks[w] \cup N, stale[w], names[w], listed[w],
                            claimed[w])
<1>0. WorkerTypeOK /\ StreamTypeOK(AttemptRow) /\ TaskShape
  BY CarryTypes, ZenonT(60)
<1>1. /\ pc[w] = "read" /\ UNCHANGED <<worker_status, stream>>
      /\ xreadgroup(w, MaxConcurrency)
  BY DEF read_new_tasks, rowVars, xreadgroup
<1>2. PICK N :
        /\ N = {NewTask(m, FALSE) : m \in next_messages(MaxConcurrency)}
        /\ Moves(w, "process", tasks[w] \cup N, stale[w], names[w], listed[w], claimed[w])
  BY <1>0, Loop_Moves, ZenonT(60)
<1>3. \A m \in next_messages(MaxConcurrency) : m \in MessageId /\ cursor < m /\ ~(m <= cursor)
  BY <1>0 DEF next_messages, StreamTypeOK, MessageId
<1>4. TasksOf(N, next_messages(MaxConcurrency), FALSE)
  <2>1. \E M : M = next_messages(MaxConcurrency) /\ N = {NewTask(m, FALSE) : m \in M}
    BY <1>2, ZenonT(60)
  <2>2. PICK M : M = next_messages(MaxConcurrency) /\ N = {NewTask(m, FALSE) : m \in M}
    BY <2>1, ZenonT(60)
  <2>3. TasksOf(N, M, FALSE)
    BY <2>2, NewTasksOf, ZenonT(60)
  <2>. QED
    BY <2>2, <2>3, ZenonT(60)
<1> PICK M : M = next_messages(MaxConcurrency)
  OBVIOUS
<1>5. M \in SUBSET MessageId /\ TasksOf(N, M, FALSE) /\ \A m \in M : cursor < m /\ ~(m <= cursor)
  BY <1>3, <1>4, ZenonT(60)
<1>6. pending' = [m \in MessageId |-> IF m \in M THEN w ELSE pending[m]]
  BY <1>1 DEF xreadgroup
<1>7. \A m \in M : pending[m] = NoWorker
  BY <1>0, <1>5 DEF TaskShape
<1>8. \A x \in Worker : \A t \in tasks[x] : t.msg \notin M
  BY <1>0, <1>5 DEF TaskShape, TaskFits
<1>9. Up(w)
  BY <1>1 DEF Up
<1>10. Delivery(w, M, N, FALSE)
  BY <1>1, <1>2, <1>5, <1>6, <1>8, <1>9, ZenonT(60) DEF Delivery, Moves
<1>. QED
  BY <1>2, <1>5, <1>7, <1>10, ZenonT(60)

(* What has been delivered, and what the tasks that have passed            *)
(* mark_running are for.                                                   *)
LEMMA ServedFacts ==
  ASSUME LedgerInvariant, AcknowledgedAreServed
  PROVE  /\ \A m \in MessageId : m <= cursor => m \in Message
         /\ \A m \in Message : m \in MessageId /\ m \in Nat /\ m <= Len(stream)
         /\ \A w \in Worker : \A t \in tasks[w] :
              t.msg \in Message /\ (t.at # "received" => Served(t.msg))
<1>0. StreamTypeOK(AttemptRow)
  BY DEF LedgerInvariant, TypeOK
<1>1. /\ \A m \in MessageId : m <= cursor => m \in Message
      /\ \A m \in Message : m \in MessageId /\ m \in Nat /\ m <= Len(stream)
  BY <1>0, StreamAssumption DEF StreamTypeOK, MessageId, Message
<1>2. \A w \in Worker : \A t \in tasks[w] : t.msg \in Message
  BY TaskMessage, ZenonT(60)
<1>. QED
  BY <1>1, <1>2, ZenonT(60) DEF AcknowledgedAreServed

--------------------------------------------------------------------------------
(* Who holds a message. *)

(* A step of worker w keeps the messages held if it does so for w and      *)
(* takes no message from another worker that holds it.                     *)
LEMMA Held_Frame ==
  ASSUME MessagesHeld, NEW w \in Worker, HoldsOwn(w)',
         \A m \in MessageId : pending'[m] = w => HeldBy(m, w)',
         \A x \in Worker \ {w} :
           /\ pc'[x] = pc[x] /\ tasks'[x] = tasks[x]
           /\ \/ worker_status'[x] = worker_status[x]
              \/ pc[x] = "down" /\ \A m \in MessageId : pending[m] # x
           /\ \A t \in tasks[x] : pending'[t.msg] = x
           /\ \A m \in MessageId : pending'[m] = x => pending[m] = x
  PROVE  MessagesHeld'
<1>1. ASSUME NEW x \in Worker \ {w}
      PROVE  HoldsOwn(x)' /\ \A m \in MessageId : pending'[m] = x => HeldBy(m, x)'
  <2>1. HoldsOwn(x) /\ \A m \in MessageId : pending[m] = x => HeldBy(m, x)
    BY ZenonT(60) DEF MessagesHeld
  <2>2. HoldsOwn(x)'
    BY <2>1, ZenonT(60) DEF HoldsOwn
  <2>3. ASSUME NEW m \in MessageId, pending'[m] = x
        PROVE  HeldBy(m, x)'
    BY <2>1, <2>3 DEF HeldBy, Up
  <2>. QED
    BY <2>2, <2>3, ZenonT(60)
<1>. QED
  BY <1>1 DEF MessagesHeld

(* A live worker has an ONLINE row, and is not taken for dead. *)
LEMMA LiveIsOnline ==
  ASSUME CrashInvariant, NEW w \in Worker, Up(w)
  PROVE  worker_status[w] = "ONLINE" /\ \A x \in Worker : w \notin stale[x]
<1>0. WorkerTypeOK
  BY CrashTypes, ZenonT(60)
<1>1. worker_status[w] \in {"ABSENT", "ONLINE", "OFFLINE"}
  BY <1>0, ZenonT(60) DEF WorkerTypeOK
<1>2. worker_status[w] # "OFFLINE"
  BY CrashTypes DEF RecoverySettled, Up
<1>3. worker_status[w] # "ABSENT" /\ \A x \in Worker : w \notin stale[x]
  BY CrashTypes, ZenonT(60) DEF OnlyDeadAreStale, Up
<1>. QED
  BY <1>1, <1>2, <1>3

(* Clients, dispatchers and time hold nothing. *)
LEMMA Outer_Held ==
  ASSUME CarryInvariant, Outer
  PROVE  MessagesHeld'
BY CarryTypes DEF MessagesHeld, HoldsOwn, HeldBy, Up, Outer

(* What a turn does to the rows of the workers: it brings its own back, or *)
(* marks the stale ones OFFLINE.                                           *)
LEMMA Turn_Status ==
  ASSUME CrashInvariant, NEW w \in Worker, Turn(w)
  PROVE  /\ worker_status'[w] # "OFFLINE"
         /\ \A x \in Worker \ {w} :
              \/ worker_status'[x] = worker_status[x]
              \/ pc[x] = "down" /\ x \in stale[w] /\ pc[w] = "offline"
<1>0. WorkerTypeOK /\ OnlyDeadAreStale /\ RecoverySettled(w)
  BY CrashTypes, ZenonT(60)
<1>1. worker_status[w] # "OFFLINE"
  BY <1>0, TurnFacts, ZenonT(60) DEF RecoverySettled
<1>2. CASE mark_workers_offline(w)
  <2>1. /\ pc[w] = "offline"
        /\ worker_status' = [v \in Worker |-> IF v \in stale[w] THEN "OFFLINE" ELSE worker_status[v]]
    BY <1>2, ZenonT(60) DEF mark_workers_offline
  <2>2. w \notin stale[w] /\ \A x \in stale[w] : pc[x] = "down"
    BY <1>0, <2>1 DEF OnlyDeadAreStale
  <2>. QED
    BY <1>0, <1>1, <2>1, <2>2 DEF WorkerTypeOK
<1>3. CASE register_worker(w) \/ record_heartbeat(w)
  <2>1. worker_status' = [worker_status EXCEPT ![w] = "ONLINE"]
    BY <1>3 DEF register_worker, record_heartbeat
  <2>. QED
    BY <1>0, <2>1 DEF WorkerTypeOK
<1>4. CASE UNCHANGED worker_status
  BY <1>1, <1>4
<1>. QED
  BY <1>2, <1>3, <1>4, ZenonT(60) DEF Turn, recover_select, recover_nothing, recover_load,
    recover_commit, claim_list, claim_return, recovered_batch_done, read_nothing,
    new_batch_done, rowVars

(* A turn of the main loop keeps every message held. *)
LEMMA Turn_Held ==
  ASSUME CarryInvariant, NEW w \in Worker, Turn(w)
  PROVE  MessagesHeld'
<1>0. MessagesHeld /\ HoldsOwn(w) /\ \A x \in Worker : HoldsOwn(x)
  BY CarryTypes, ZenonT(60) DEF MessagesHeld
<1>1. /\ UNCHANGED <<tasks, stream, cursor, pending>>
      /\ pc'[w] \notin {"new", "down", "stopping"} /\ pc[w] \notin {"down", "stopping"}
      /\ \A x \in Worker \ {w} : pc'[x] = pc[x]
  BY CarryTypes, TurnFacts, ZenonT(60)
<1>2. HoldsOwn(w)'
  BY <1>0, <1>1, ZenonT(60) DEF HoldsOwn
<1>3. ASSUME NEW m \in MessageId, pending'[m] = w
      PROVE  HeldBy(m, w)'
  <2>1. HeldBy(m, w)
    BY <1>0, <1>1, <1>3, ZenonT(60) DEF MessagesHeld
  <2>2. \E t \in tasks[w] : t.msg = m
    BY <1>1, <2>1, ZenonT(60) DEF HeldBy
  <2>. QED
    BY <1>1, <2>2, ZenonT(60) DEF HeldBy, Up
<1>4. ASSUME NEW x \in Worker \ {w}
      PROVE  /\ pc'[x] = pc[x] /\ tasks'[x] = tasks[x]
             /\ \/ worker_status'[x] = worker_status[x]
                \/ pc[x] = "down" /\ \A m \in MessageId : pending[m] # x
             /\ \A t \in tasks[x] : pending'[t.msg] = x
             /\ \A m \in MessageId : pending'[m] = x => pending[m] = x
  <2>1. \/ worker_status'[x] = worker_status[x]
        \/ pc[x] = "down" /\ x \in stale[w] /\ pc[w] = "offline"
    BY CarryTypes, Turn_Status, ZenonT(60)
  <2>2. x \in stale[w] /\ pc[w] = "offline" => \A m \in MessageId : pending[m] # x
    BY DEF CarryInvariant, RecoveryComplete, PendingOf
  <2>. QED
    BY <1>0, <1>1, <2>1, <2>2, ZenonT(60) DEF HoldsOwn
<1>. QED
  BY <1>0, <1>2, <1>3, <1>4, Held_Frame, ZenonT(60)

(* A crash leaves the messages of the worker to its row, which is ONLINE. *)
LEMMA crash_Held ==
  ASSUME CarryInvariant, NEW w \in Worker, crash(w)
  PROVE  MessagesHeld'
<1>0. MessagesHeld /\ WorkerTypeOK /\ \A x \in Worker : HoldsOwn(x)
  BY CarryTypes DEF MessagesHeld
<1>1. UNCHANGED <<worker_status, pending>> /\ Up(w)
  BY DEF crash, rowVars, streamVars
<1>2. pc'[w] = "down" /\ tasks'[w] = {} /\ worker_status'[w] = "ONLINE"
  BY <1>0, <1>1, CarryTypes, LiveIsOnline, Loop_Moves, ZenonT(60) DEF Moves
<1>3. ASSUME NEW x \in Worker \ {w}
      PROVE  /\ pc'[x] = pc[x] /\ tasks'[x] = tasks[x]
             /\ \/ worker_status'[x] = worker_status[x]
                \/ pc[x] = "down" /\ \A m \in MessageId : pending[m] # x
             /\ \A t \in tasks[x] : pending'[t.msg] = x
             /\ \A m \in MessageId : pending'[m] = x => pending[m] = x
  <2>1. pc'[x] = pc[x] /\ tasks'[x] = tasks[x]
    BY <1>0, Loop_Moves, ZenonT(60) DEF Moves
  <2>. QED
    BY <1>0, <1>1, <2>1 DEF HoldsOwn
<1>4. HoldsOwn(w)' /\ \A m \in MessageId : pending'[m] = w => HeldBy(m, w)'
  BY <1>2 DEF HoldsOwn, HeldBy, Up
<1>. QED
  BY <1>0, <1>3, <1>4, Held_Frame, ZenonT(60)

(* Messages stay held when some are delivered. *)
LEMMA Delivery_Held ==
  ASSUME CarryInvariant, NEW w \in Worker, NEW M, NEW N, NEW b, Delivery(w, M, N, b)
  PROVE  MessagesHeld'
<1>0. MessagesHeld /\ WorkerTypeOK /\ StreamTypeOK(AttemptRow) /\ \A x \in Worker : HoldsOwn(x)
  BY CarryTypes DEF MessagesHeld
<1>1. \A x \in Worker : \A t \in tasks[x] : t.msg \in MessageId
  BY <1>0 DEF WorkerTypeOK, Task
<1>2. /\ \A m \in M : pending'[m] = w
      /\ \A m \in MessageId \ M : pending'[m] = pending[m]
  BY DEF Delivery
<1>3. ASSUME NEW x \in Worker \ {w}
      PROVE  /\ pc'[x] = pc[x] /\ tasks'[x] = tasks[x]
             /\ \/ worker_status'[x] = worker_status[x]
                \/ pc[x] = "down" /\ \A m \in MessageId : pending[m] # x
             /\ \A t \in tasks[x] : pending'[t.msg] = x
             /\ \A m \in MessageId : pending'[m] = x => pending[m] = x
  BY <1>0, <1>1, <1>2, ZenonT(60) DEF Delivery, HoldsOwn
<1>4. HoldsOwn(w)'
  <2>1. \A y \in tasks'[w] : y \in tasks[w] \/ y \in N
    BY ZenonT(60) DEF Delivery
  <2>2. \A y \in tasks[w] : /\ y.msg \notin M /\ pending'[y.msg] = w
                            /\ \A u \in tasks[w] : u.msg = y.msg => u = y
    BY <1>0, <1>1, <1>2, ZenonT(60) DEF Delivery, HoldsOwn
  <2>3. \A y \in N : y.msg \in M /\ \A u \in N : u.msg = y.msg => u = y
    BY ZenonT(60) DEF Delivery, TasksOf
  <2>4. ASSUME NEW t \in tasks'[w]
        PROVE  pending'[t.msg] = w /\ \A u \in tasks'[w] : u.msg = t.msg => u = t
    BY <1>2, <2>1, <2>2, <2>3, <2>4, ZenonT(60)
  <2>. QED
    BY <2>4, ZenonT(60) DEF HoldsOwn
<1>5. ASSUME NEW m \in MessageId, pending'[m] = w
      PROVE  HeldBy(m, w)'
  <2>1. \E t \in tasks'[w] : t.msg = m
    <3>1. CASE m \in M
      BY <3>1, ZenonT(60) DEF Delivery, TasksOf
    <3>2. CASE m \notin M
      <4>1. HeldBy(m, w) /\ Up(w)
        BY <1>0, <1>2, <1>5, <3>2 DEF MessagesHeld, Delivery
      <4>. QED
        BY <4>1, ZenonT(60) DEF HeldBy, Delivery
    <3>. QED
      BY <3>1, <3>2, ZenonT(60)
  <2>. QED
    BY <2>1 DEF HeldBy, Up, Delivery
<1>. QED
  BY <1>0, <1>3, <1>4, <1>5, Held_Frame, ZenonT(60)

(* A task that moves on keeps its message. *)
LEMMA TaskGoes_Held ==
  ASSUME CarryInvariant, NEW w \in Worker, NEW t \in tasks[w], NEW l, TaskGoes(w, t, l),
         UNCHANGED <<pending, worker_status>>
  PROVE  MessagesHeld'
<1>0. MessagesHeld /\ \A x \in Worker : HoldsOwn(x)
  BY CarryTypes, ZenonT(60) DEF MessagesHeld
<1>1. PICK u :
        /\ u.msg = t.msg
        /\ Moves(w, pc[w], (tasks[w] \ {t}) \cup {u}, stale[w], names[w], listed[w], claimed[w])
  BY ZenonT(60) DEF TaskGoes
<1>2. pc'[w] = pc[w] /\ tasks'[w] = (tasks[w] \ {t}) \cup {u}
  BY <1>1, ZenonT(60) DEF Moves
<1>3. ASSUME NEW x \in Worker \ {w}
      PROVE  /\ pc'[x] = pc[x] /\ tasks'[x] = tasks[x]
             /\ \/ worker_status'[x] = worker_status[x]
                \/ pc[x] = "down" /\ \A m \in MessageId : pending[m] # x
             /\ \A y \in tasks[x] : pending'[y.msg] = x
             /\ \A m \in MessageId : pending'[m] = x => pending[m] = x
  BY <1>0, <1>1, ZenonT(60) DEF Moves, HoldsOwn
<1>4. HoldsOwn(w)'
  <2>1. \A y \in tasks[w] : /\ pending[y.msg] = w
                            /\ \A z \in tasks[w] : z.msg = y.msg => z = y
    BY <1>0, ZenonT(60) DEF HoldsOwn
  <2>2. \A y \in tasks'[w] : y = u \/ (y \in tasks[w] /\ y # t)
    BY <1>2, ZenonT(60)
  <2>3. \A y \in tasks[w] : y # t => y.msg # u.msg
    BY <1>1, <2>1, ZenonT(60)
  <2>4. ASSUME NEW y \in tasks'[w]
        PROVE  pending[y.msg] = w
    <3>1. pending[u.msg] = w
      BY <1>1, <2>1
    <3>. QED
      BY <2>1, <2>2, <3>1, ZenonT(60)
  <2>5. ASSUME NEW y \in tasks'[w], NEW z \in tasks'[w], z.msg = y.msg
        PROVE  z = y
    <3>1. CASE y = u
      BY <2>2, <2>3, <2>5, <3>1, ZenonT(60)
    <3>2. CASE z = u
      BY <2>2, <2>3, <2>5, <3>2, ZenonT(60)
    <3>3. CASE y # u /\ z # u
      BY <2>1, <2>2, <2>5, <3>3, ZenonT(60)
    <3>. QED
      BY <3>1, <3>2, <3>3, ZenonT(60)
  <2>. QED
    BY <2>4, <2>5, ZenonT(60) DEF HoldsOwn
<1>5. ASSUME NEW m \in MessageId, pending'[m] = w
      PROVE  HeldBy(m, w)'
  <2>1. HeldBy(m, w)
    BY <1>0, <1>5 DEF MessagesHeld
  <2>. QED
    BY <1>1, <1>2, <2>1 DEF HeldBy, Up
<1>. QED
  BY <1>0, <1>3, <1>4, <1>5, Held_Frame, ZenonT(60)

(* XACK releases the message of the task that ends, and no other. *)
LEMMA acknowledge_Held ==
  ASSUME CarryInvariant, NEW w \in Worker, NEW t \in tasks[w], acknowledge(w, t)
  PROVE  MessagesHeld'
<1>0. /\ MessagesHeld /\ WorkerTypeOK /\ StreamTypeOK(AttemptRow) /\ NoWorker \notin Worker
      /\ \A x \in Worker : HoldsOwn(x)
  BY CarryTypes, ZenonT(60) DEF MessagesHeld
<1>1. UNCHANGED worker_status /\ pending' = [pending EXCEPT ![t.msg] = NoWorker]
  BY DEF acknowledge, rowVars, xack
<1>2. /\ pc'[w] = pc[w] /\ tasks'[w] = tasks[w] \ {t}
      /\ \A x \in Worker \ {w} : pc'[x] = pc[x] /\ tasks'[x] = tasks[x]
  BY <1>0, Task_Moves, ZenonT(60) DEF Moves
<1>3. \A x \in Worker : \A y \in tasks[x] : y.msg \in MessageId /\ pending[y.msg] = x
  BY <1>0 DEF WorkerTypeOK, Task, HoldsOwn
<1>4. /\ \A m \in MessageId : m # t.msg => pending'[m] = pending[m]
      /\ pending'[t.msg] = NoWorker
  BY <1>0, <1>1, <1>3, ZenonT(60) DEF StreamTypeOK
<1>5. ASSUME NEW x \in Worker \ {w}
      PROVE  /\ pc'[x] = pc[x] /\ tasks'[x] = tasks[x]
             /\ \/ worker_status'[x] = worker_status[x]
                \/ pc[x] = "down" /\ \A m \in MessageId : pending[m] # x
             /\ \A y \in tasks[x] : pending'[y.msg] = x
             /\ \A m \in MessageId : pending'[m] = x => pending[m] = x
  <2>1. ASSUME NEW y \in tasks[x]
        PROVE  y.msg # t.msg /\ y.msg \in MessageId /\ pending[y.msg] = x
    <3>1. y.msg \in MessageId /\ pending[y.msg] = x
      BY <1>3, ZenonT(60)
    <3>2. pending[t.msg] = w
      BY <1>3, ZenonT(60)
    <3>. QED
      BY <3>1, <3>2, ZenonT(60)
  <2>2. \A y \in tasks[x] : pending'[y.msg] = x
    BY <1>4, <2>1, ZenonT(60)
  <2>3. \A m \in MessageId : pending'[m] = x => pending[m] = x
    BY <1>0, <1>4, ZenonT(60)
  <2>. QED
    BY <1>1, <1>2, <2>2, <2>3, ZenonT(60)
<1>6. HoldsOwn(w)'
  BY <1>0, <1>1, <1>2, <1>3, <1>4, ZenonT(60) DEF HoldsOwn
<1>7. ASSUME NEW m \in MessageId, pending'[m] = w
      PROVE  HeldBy(m, w)'
  <2>1. HeldBy(m, w) /\ m # t.msg
    BY <1>0, <1>4, <1>7, ZenonT(60) DEF MessagesHeld
  <2>. QED
    BY <1>1, <1>2, <2>1, ZenonT(60) DEF HeldBy, Up
<1>. QED
  BY <1>0, <1>5, <1>6, <1>7, Held_Frame, ZenonT(60)

(* The messages stay held. *)
LEMMA Held_Step ==
  ASSUME CrashesOnly, CarryInvariant, [Next]_vars
  PROVE  MessagesHeld'
<1>0. WorkerTypeOK
  BY CarryTypes
<1>1. ASSUME NEW w \in Worker, claim_take(w)
      PROVE  MessagesHeld'
  <2>1. PICK M, N : Delivery(w, M, N, TRUE)
    BY <1>1, claim_take_Delivery, ZenonT(60)
  <2>. QED
    BY <2>1, Delivery_Held, ZenonT(60)
<1>2. ASSUME NEW w \in Worker, read_new_tasks(w)
      PROVE  MessagesHeld'
  <2>1. PICK M, N : Delivery(w, M, N, FALSE)
    BY <1>2, read_new_tasks_Delivery, ZenonT(60)
  <2>. QED
    BY <2>1, Delivery_Held, ZenonT(60)
<1>3. ASSUME NEW w \in Worker, NEW t \in tasks[w],
             \/ task_starts(w, t) \/ task_expires(w, t) \/ task_is_refused(w, t)
             \/ execute(w, t) \/ task_finishes(w, t)
      PROVE  MessagesHeld'
  <2>1. UNCHANGED <<pending, worker_status>>
    BY <1>3, ZenonT(60) DEF task_starts, task_expires, task_is_refused, execute, task_finishes,
      streamVars, rowVars
  <2>2. \E l : TaskGoes(w, t, l)
    BY <1>0, <1>3, Task_Moves, ZenonT(60)
  <2>. QED
    BY <2>1, <2>2, TaskGoes_Held, ZenonT(60)
<1>. QED
  BY <1>1, <1>2, <1>3, CarryTypes, CrashSteps, Outer_Held, Turn_Held, crash_Held, acknowledge_Held, ZenonT(60)
================================================================================
