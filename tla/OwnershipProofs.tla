---------------------------- MODULE OwnershipProofs ----------------------------
(***************************************************************************)
(* Lemmas about Platform while no live worker is taken for dead (Timely):  *)
(* every step keeps each part of OwnershipInvariant, and only messages     *)
(* that need no more work are acknowledged.                                *)
(***************************************************************************)
EXTENDS StepFacts

(* More time for every leaf than the default: the proof manager itself     *)
(* takes part of it.                                                       *)
USE SMTT(15), ZenonT(20), SMTT(30), Z3T(30)

(* The parts of OwnershipInvariant that speak of rows only. *)
Rows == RunningAttemptIsLast /\ AttemptsLeft /\ CompletedIffTerminal

--------------------------------------------------------------------------------
(* The rows stay consistent. *)
LEMMA Rows_Next ==
  ASSUME OwnershipInvariant, [Next]_vars
  PROVE  Rows'
<1>1. StoreTypeOK /\ Rows
  BY DEF OwnershipInvariant, LedgerInvariant, TypeOK, Rows
<1>2. CASE RowsUnchanged
  BY <1>1, <1>2 DEF RowsUnchanged, Rows, RunningAttemptIsLast, AttemptsLeft, CompletedIffTerminal
<1>3. ASSUME NEW i \in Invocation, create_invocation(i)
      PROVE  Rows'
  <2>1. /\ status[i] = "ABSENT" /\ status' = [status EXCEPT ![i] = "QUEUED"]
        /\ UNCHANGED <<attempt_count, completed_at, attempt_status, attempt_worker>>
    BY <1>3 DEF create_invocation
  <2>2. RunningAttemptIsLast' /\ AttemptsLeft'
    BY <1>1, <2>1 DEF Rows, RunningAttemptIsLast, AttemptsLeft, StoreTypeOK
  <2>3. CompletedIffTerminal'
    BY <1>1, <2>1 DEF Rows, CompletedIffTerminal, StoreTypeOK, is_terminal_status,
      TERMINAL_INVOCATION_STATUSES
  <2>. QED
    BY <2>2, <2>3 DEF Rows
<1>4. ASSUME NEW w \in Worker, recover_commit(w)
      PROVE  Rows'
  <2>1. RunningAttemptIsLast'
    <3>1. ASSUME NEW i \in Invocation, NEW n \in AttemptNumber
          PROVE  attempt_status'[<<i, n>>] = "RUNNING"
                   <=> status'[i] = "RUNNING" /\ n = attempt_count'[i]
      <4>1. attempt_status[<<i, n>>] = "RUNNING" <=> status[i] = "RUNNING" /\ n = attempt_count[i]
        BY <1>1 DEF Rows, RunningAttemptIsLast
      <4>. QED
        BY <1>4, <4>1, recover_commit_Effect, ZenonT(60)
    <3>. QED
      BY <3>1, ZenonT(60) DEF RunningAttemptIsLast
  <2>2. AttemptsLeft'
    BY <1>1, <1>4, recover_commit_Effect, ZenonT(60) DEF Rows, AttemptsLeft
  <2>3. CompletedIffTerminal'
    <3>1. ASSUME NEW i \in Invocation
          PROVE  completed_at'[i] <=> is_terminal_status(status'[i])
      <4>1. completed_at[i] <=> is_terminal_status(status[i])
        BY <1>1 DEF Rows, CompletedIffTerminal
      <4>. QED
        BY <1>4, <4>1, recover_commit_Effect, ZenonT(60) DEF is_terminal_status, TERMINAL_INVOCATION_STATUSES
    <3>. QED
      BY <3>1 DEF CompletedIffTerminal
  <2>. QED
    BY <2>1, <2>2, <2>3 DEF Rows
<1>5. ASSUME NEW w \in Worker, NEW t \in tasks[w], task_starts(w, t)
      PROVE  Rows'
  <2>1. PICK i \in Invocation, n \in AttemptNumber :
           /\ i = InvocationOf(t)
           /\ n = attempt_count[i] + 1
           /\ status[i] \in {"QUEUED", "RETRYING"}
           /\ status' = [status EXCEPT ![i] = "RUNNING"]
           /\ attempt_count' = [attempt_count EXCEPT ![i] = n]
           /\ attempt_status' = [attempt_status EXCEPT ![<<i, n>>] = "RUNNING"]
           /\ attempt_worker' = [attempt_worker EXCEPT ![<<i, n>>] = w]
           /\ attempt_status[<<i, n>>] = "NONE"
           /\ UNCHANGED completed_at
    BY <1>5, task_starts_Effect, ZenonT(60)
  <2>2. RunningAttemptIsLast'
    <3>1. ASSUME NEW j \in Invocation, NEW k \in AttemptNumber
          PROVE  attempt_status'[<<j, k>>] = "RUNNING"
                   <=> status'[j] = "RUNNING" /\ k = attempt_count'[j]
      <4>1. attempt_status[<<j, k>>] = "RUNNING" <=> status[j] = "RUNNING" /\ k = attempt_count[j]
        BY <1>1 DEF Rows, RunningAttemptIsLast
      <4>2. <<j, k>> \in AttemptRow
        BY DEF AttemptRow
      <4>3. CASE j = i /\ k = n
        BY <1>1, <2>1, <4>2, <4>3, ZenonT(60) DEF StoreTypeOK
      <4>4. CASE j = i /\ k # n
        BY <1>1, <2>1, <4>1, <4>2, <4>4, ZenonT(60) DEF StoreTypeOK
      <4>5. CASE j # i
        BY <1>1, <2>1, <4>1, <4>2, <4>5, ZenonT(60) DEF StoreTypeOK
      <4>. QED
        BY <4>3, <4>4, <4>5
    <3>. QED
      BY <3>1, ZenonT(60) DEF RunningAttemptIsLast
  <2>3. AttemptsLeft'
    BY <1>1, <2>1, StoreAssumption DEF Rows, AttemptsLeft, StoreTypeOK
  <2>4. CompletedIffTerminal'
    BY <1>1, <2>1 DEF Rows, CompletedIffTerminal, StoreTypeOK, is_terminal_status,
      TERMINAL_INVOCATION_STATUSES
  <2>. QED
    BY <2>2, <2>3, <2>4 DEF Rows
<1>6. ASSUME NEW w \in Worker, NEW t \in tasks[w], task_expires(w, t)
      PROVE  Rows'
  <2>1. PICK i \in Invocation :
           /\ status[i] \in {"QUEUED", "RETRYING"}
           /\ status' = [status EXCEPT ![i] = "TIMEOUT"]
           /\ completed_at' = [completed_at EXCEPT ![i] = TRUE]
           /\ UNCHANGED <<attempt_count, attempt_status>>
    BY <1>6, task_expires_Effect, ZenonT(60)
  <2>2. RunningAttemptIsLast' /\ AttemptsLeft'
    BY <1>1, <2>1 DEF Rows, RunningAttemptIsLast, AttemptsLeft, StoreTypeOK
  <2>3. CompletedIffTerminal'
    BY <1>1, <2>1 DEF Rows, CompletedIffTerminal, StoreTypeOK, is_terminal_status,
      TERMINAL_INVOCATION_STATUSES
  <2>. QED
    BY <2>2, <2>3 DEF Rows
<1>7. ASSUME NEW w \in Worker, NEW t \in tasks[w], task_finishes(w, t)
      PROVE  Rows'
  <2>1. PICK i \in Invocation, n \in AttemptNumber,
            s \in {"RETRYING", "SUCCEEDED", "FAILED", "TIMEOUT"},
            a \in {"SUCCEEDED", "FAILED", "TIMEOUT"} :
           /\ i = InvocationOf(t) /\ n = t.attempt /\ n = attempt_count[i]
           /\ status[i] = "RUNNING"
           /\ attempt_status[<<i, n>>] = "RUNNING"
           /\ attempt_worker[<<i, n>>] = w
           /\ s = "RETRYING" => attempt_count[i] < MaxAttempts
           /\ status' = [status EXCEPT ![i] = s]
           /\ completed_at' = [completed_at EXCEPT ![i] = (s # "RETRYING")]
           /\ attempt_status' = [attempt_status EXCEPT ![<<i, n>>] = a]
           /\ UNCHANGED <<attempt_count, attempt_worker>>
    BY <1>7, task_finishes_Effect, ZenonT(60)
  <2>2. RunningAttemptIsLast'
    <3>1. ASSUME NEW j \in Invocation, NEW k \in AttemptNumber
          PROVE  attempt_status'[<<j, k>>] = "RUNNING"
                   <=> status'[j] = "RUNNING" /\ k = attempt_count'[j]
      <4>1. attempt_status[<<j, k>>] = "RUNNING" <=> status[j] = "RUNNING" /\ k = attempt_count[j]
        BY <1>1 DEF Rows, RunningAttemptIsLast
      <4>2. <<j, k>> \in AttemptRow
        BY DEF AttemptRow
      <4>3. CASE j = i
        BY <1>1, <2>1, <4>1, <4>2, <4>3, ZenonT(60) DEF StoreTypeOK, TERMINAL_INVOCATION_STATUSES
      <4>4. CASE j # i
        BY <1>1, <2>1, <4>1, <4>2, <4>4, ZenonT(60) DEF StoreTypeOK
      <4>. QED
        BY <4>3, <4>4
    <3>. QED
      BY <3>1, ZenonT(60) DEF RunningAttemptIsLast
  <2>3. AttemptsLeft'
    BY <1>1, <2>1 DEF Rows, AttemptsLeft, StoreTypeOK, TERMINAL_INVOCATION_STATUSES
  <2>4. CompletedIffTerminal'
    <3>1. ASSUME NEW j \in Invocation
          PROVE  completed_at'[j] <=> is_terminal_status(status'[j])
      BY <1>1, <2>1, ZenonT(60) DEF Rows, CompletedIffTerminal, StoreTypeOK, is_terminal_status,
        TERMINAL_INVOCATION_STATUSES
    <3>. QED
      BY <3>1 DEF CompletedIffTerminal
  <2>. QED
    BY <2>2, <2>3, <2>4 DEF Rows
<1>. QED
  BY <1>2, <1>3, <1>4, <1>5, <1>6, <1>7, RowChanges, ZenonT(60)

--------------------------------------------------------------------------------
(* Only dead workers are stale: it takes a stall or the death of a         *)
(* heartbeat loop to make a live worker look dead.                         *)
LEMMA OnlyDead_Loop ==
  ASSUME Timely, WorkerTypeOK, OnlyDeadAreStale, NEW w \in Worker,
         QuietStep(w) \/ recover_select(w) \/ recover_load(w) \/ recover_commit(w)
           \/ claim_take(w) \/ read_new_tasks(w) \/ read_reply_lost(w)
  PROVE  OnlyDeadAreStale'
<1> USE DEF OnlyDeadAreStale, WorkerTypeOK, Up
<1>1. CASE register_worker(w)
  BY <1>1, ZenonT(60) DEF register_worker
<1>2. CASE record_heartbeat(w)
  BY <1>2, ZenonT(60) DEF record_heartbeat, loopVars
<1>3. CASE heartbeat_ages(w)
  BY <1>3 DEF heartbeat_ages, loopVars, fault, Timely
<1>4. CASE heartbeat_loop_dies(w)
  BY <1>4, ZenonT(60) DEF heartbeat_loop_dies, fault, Timely
<1>5. CASE recover_select(w)
  BY <1>5, ZenonT(60) DEF recover_select, rowVars, find_stale_workers
<1>6. CASE recover_nothing(w)
  BY <1>6, ZenonT(60) DEF recover_nothing, rowVars
<1>7. CASE recover_load(w)
  BY <1>7, ZenonT(60) DEF recover_load, rowVars
<1>8. CASE recover_commit(w)
  BY <1>8, ZenonT(60) DEF recover_commit, rowVars
<1>9. CASE claim_list(w)
  BY <1>9 DEF claim_list, rowVars
<1>10. CASE claim_take(w)
  BY <1>10, ZenonT(60) DEF claim_take, rowVars
<1>11. CASE claim_return(w)
  BY <1>11, ZenonT(60) DEF claim_return, rowVars
<1>12. CASE recovered_batch_done(w)
  BY <1>12, ZenonT(60) DEF recovered_batch_done, rowVars
<1>13. CASE mark_workers_offline(w)
  BY <1>13, ZenonT(60) DEF mark_workers_offline, EndIteration
<1>14. CASE read_new_tasks(w)
  BY <1>14, ZenonT(60) DEF read_new_tasks, rowVars
<1>15. CASE read_nothing(w)
  BY <1>15, ZenonT(60) DEF read_nothing, rowVars
<1>16. CASE new_batch_done(w)
  BY <1>16, ZenonT(60) DEF new_batch_done, rowVars
<1>17. CASE loop_call_fails(w)
  BY <1>17, ZenonT(60) DEF loop_call_fails, rowVars, EndIteration
<1>18. CASE read_reply_lost(w)
  BY <1>18, ZenonT(60) DEF read_reply_lost, rowVars, EndIteration
<1>19. CASE crash(w)
  BY <1>19, ZenonT(60) DEF crash, rowVars, EndIteration
<1>20. CASE interrupt(w)
  BY <1>20, ZenonT(60) DEF interrupt, rowVars, EndIteration
<1>21. CASE mark_worker_offline(w)
  BY <1>21, ZenonT(60) DEF mark_worker_offline, EndIteration
<1>. QED
  BY <1>1, <1>2, <1>3, <1>4, <1>5, <1>6, <1>7, <1>8, <1>9, <1>10, <1>11, <1>12, <1>13, <1>14, <1>15, <1>16, <1>17, <1>18, <1>19, <1>20, <1>21, ZenonT(60) DEF QuietStep

(* No step of a task makes a live worker look dead. *)
LEMMA OnlyDead_Task ==
  ASSUME LedgerInvariant, OnlyDeadAreStale, NEW w \in Worker, NEW t \in tasks[w],
         TaskStep(w, t) \/ task_call_fails(w, t)
  PROVE  OnlyDeadAreStale'
<1>1. WorkerTypeOK /\ Up(w)
  BY ZenonT(60) DEF LedgerInvariant, TypeOK, OnlyDeadAreStale
<1>2. CASE /\ UNCHANGED <<rowVars, beating, loopVars>>
           /\ \A x \in Worker \ {w} : tasks'[x] = tasks[x]
  BY <1>1, <1>2, ZenonT(60) DEF OnlyDeadAreStale, Up, rowVars, loopVars
<1>3. CASE /\ UNCHANGED <<rowVars, beating>> /\ EndIteration(w, "top")
           /\ \A x \in Worker \ {w} : tasks'[x] = tasks[x]
  BY <1>1, <1>3, ZenonT(60) DEF OnlyDeadAreStale, Up, rowVars, EndIteration, WorkerTypeOK
<1>4. CASE \/ task_starts(w, t) \/ task_expires(w, t) \/ task_is_refused(w, t)
           \/ execute(w, t) \/ task_finishes(w, t) \/ acknowledge(w, t)
  <2>1. \A x \in Worker \ {w} : tasks'[x] = tasks[x]
    BY <1>1, <1>4, ZenonT(60) DEF task_starts, task_expires, task_is_refused, execute, task_finishes,
      acknowledge, Becomes, WorkerTypeOK
  <2>2. UNCHANGED <<rowVars, beating, loopVars>>
    BY <1>4, ZenonT(60) DEF task_starts, task_expires, task_is_refused, execute, task_finishes, acknowledge
  <2>. QED
    BY <1>2, <2>1, <2>2
<1>5. CASE task_is_rejected(w, t) \/ task_call_fails(w, t)
  <2>1. UNCHANGED <<rowVars, beating>> /\ (EndIteration(w, "top") \/ UNCHANGED loopVars)
    BY <1>5, Zenon DEF task_is_rejected, task_call_fails, Raise
  <2>2. \E S : tasks' = [tasks EXCEPT ![w] = S]
    BY <1>5, Zenon DEF task_is_rejected, task_call_fails, Raise
  <2>3. \A x \in Worker \ {w} : tasks'[x] = tasks[x]
    BY <1>1, <2>2, ZenonT(60) DEF WorkerTypeOK
  <2>. QED
    BY <1>2, <1>3, <2>1, <2>3, ZenonT(60)
<1>. QED
  BY <1>4, <1>5, ZenonT(60) DEF TaskStep

(* While heartbeats are timely, only dead workers become stale. *)
LEMMA OnlyDead_Next ==
  ASSUME Timely, OwnershipInvariant, [Next]_vars
  PROVE  OnlyDeadAreStale'
<1>1. LedgerInvariant /\ WorkerTypeOK /\ OnlyDeadAreStale
  BY ZenonT(60) DEF OwnershipInvariant, LedgerInvariant, TypeOK
<1>2. CASE UNCHANGED workerVars
  BY <1>1, <1>2, ZenonT(60) DEF workerVars, rowVars, loopVars, OnlyDeadAreStale, Up
<1>3. ASSUME NEW w \in Worker, WorkerStep(w)
      PROVE  OnlyDeadAreStale'
  BY <1>1, <1>3, OnlyDead_Loop, OnlyDead_Task, ZenonT(60) DEF WorkerStep, LoopStep, WorkerFault, QuietStep
<1>. QED
  BY <1>2, <1>3, ZenonT(60) DEF Next, ClientStep, BackoffStep, vars

(* Open recoveries lock different workers, and nobody else writes the      *)
(* attempts of a locked worker.                                            *)
RecoveryVarsUnchanged == UNCHANGED <<attempt_count, attempt_status, attempt_worker>>

(* A worker that is outside a recovery after the step. *)
Outside(w) ==
  /\ ~InRecovery(w)' /\ lost'[w] = {}
  /\ \A x \in Worker \ {w} : pc'[x] = pc[x] /\ stale'[x] = stale[x] /\ lost'[x] = lost[x]

(* A worker outside of recovery does not disturb the recoveries of others. *)
LEMMA Outside_Isolated ==
  ASSUME RecoveryIsolated, RecoveryVarsUnchanged, NEW w \in Worker, Outside(w)
  PROVE  RecoveryIsolated'
<1> SUFFICES ASSUME NEW x \in Worker
             PROVE  /\ ~InRecovery(x)' => lost'[x] = {}
                    /\ InRecovery(x)' =>
                         /\ \A y \in Worker :
                              y # x /\ InRecovery(y)' => stale'[y] \cap stale'[x] = {}
                         /\ \A v \in lost'[x] :
                              /\ attempt_status'[v.row] = "RUNNING"
                              /\ attempt_worker'[v.row] \in stale'[x]
                              /\ pc'[x] = "commit" =>
                                   (v.exhausted <=> attempt_count'[v.row[1]] >= MaxAttempts)
  BY ZenonT(60) DEF RecoveryIsolated
<1>1. CASE x = w
  BY <1>1, ZenonT(60) DEF Outside
<1>2. CASE x # w
  BY <1>2, ZenonT(60) DEF Outside, RecoveryIsolated, RecoveryVarsUnchanged, InRecovery
<1>. QED
  BY <1>1, <1>2, ZenonT(60)

(* Nor does a step that leaves the loops of the workers alone. *)
LEMMA Unchanged_Isolated ==
  ASSUME RecoveryIsolated, RecoveryVarsUnchanged, UNCHANGED <<pc, stale, lost>>
  PROVE  RecoveryIsolated'
BY ZenonT(60) DEF RecoveryIsolated, RecoveryVarsUnchanged, InRecovery

(* A worker that is not in recovery and does not enter it. *)
LEMMA Moves_Outside ==
  ASSUME WorkerTypeOK, RecoveryIsolated, NEW w \in Worker, ~InRecovery(w),
         NEW l, l \notin {"load", "commit"},
         pc' = [pc EXCEPT ![w] = l], UNCHANGED <<stale, lost>>
  PROVE  Outside(w)
<1>1. pc'[w] = l /\ \A x \in Worker \ {w} : pc'[x] = pc[x]
  BY ZenonT(60) DEF WorkerTypeOK
<1>2. lost[w] = {}
  BY ZenonT(60) DEF RecoveryIsolated
<1>. QED
  BY <1>1, <1>2, ZenonT(60) DEF Outside, InRecovery

(* A worker whose iteration ends, wherever it was. *)
LEMMA Ends_Outside ==
  ASSUME WorkerTypeOK, NEW w \in Worker, NEW l, l \notin {"load", "commit"},
         EndIteration(w, l)
  PROVE  Outside(w)
<1>1. pc'[w] = l /\ \A x \in Worker \ {w} : pc'[x] = pc[x]
  BY ZenonT(60) DEF EndIteration, WorkerTypeOK
<1>2. lost'[w] = {} /\ \A x \in Worker \ {w} : lost'[x] = lost[x]
  BY ZenonT(60) DEF EndIteration, WorkerTypeOK
<1>3. \A x \in Worker \ {w} : stale'[x] = stale[x]
  BY DEF EndIteration, WorkerTypeOK
<1>. QED
  BY <1>1, <1>2, <1>3, ZenonT(60) DEF Outside, InRecovery

(* A worker that leaves recovery releases its locks. *)
LEMMA Leaves_Isolated ==
  ASSUME WorkerTypeOK, RecoveryIsolated, NEW w \in Worker,
         QuietStep(w) \/ claim_take(w) \/ read_new_tasks(w) \/ read_reply_lost(w)
  PROVE  RecoveryIsolated'
<1>1. RecoveryVarsUnchanged
  BY LoopStep_Rows, ZenonT(60) DEF RowsUnchanged, RecoveryVarsUnchanged
<1>2. CASE record_heartbeat(w) \/ heartbeat_ages(w) \/ heartbeat_loop_dies(w)
  BY <1>1, <1>2, Unchanged_Isolated, ZenonT(60) DEF record_heartbeat, heartbeat_ages, heartbeat_loop_dies,
    loopVars
<1>3. ASSUME register_worker(w) PROVE Outside(w)
  <2>1. /\ ~InRecovery(w) /\ UNCHANGED <<stale, lost>>
        /\ pc' = [pc EXCEPT ![w] = "top"]
    BY <1>3, ZenonT(60) DEF register_worker, InRecovery
  <2>. QED
    BY <2>1, Moves_Outside, ZenonT(60)
<1>4. ASSUME recover_nothing(w) PROVE Outside(w)
  <2>1. /\ ~InRecovery(w) /\ UNCHANGED <<stale, lost>>
        /\ pc' = [pc EXCEPT ![w] = "read"]
    BY <1>4, ZenonT(60) DEF recover_nothing, InRecovery
  <2>. QED
    BY <2>1, Moves_Outside, ZenonT(60)
<1>5. ASSUME claim_list(w) PROVE Outside(w)
  <2>1. PICK l \in {"claim", "xclaim"} : pc' = [pc EXCEPT ![w] = l]
    BY <1>5, ZenonT(60) DEF claim_list
  <2>2. ~InRecovery(w) /\ UNCHANGED <<stale, lost>>
    BY <1>5 DEF claim_list, InRecovery
  <2>. QED
    BY <2>1, <2>2, Moves_Outside, ZenonT(60)
<1>6. ASSUME claim_take(w) PROVE Outside(w)
  <2>1. /\ ~InRecovery(w) /\ UNCHANGED <<stale, lost>>
        /\ pc' = [pc EXCEPT ![w] = "claim"]
    BY <1>6, ZenonT(60) DEF claim_take, InRecovery
  <2>. QED
    BY <2>1, Moves_Outside, ZenonT(60)
<1>7. ASSUME claim_return(w) PROVE Outside(w)
  <2>1. PICK l \in {"offline", "process"} : pc' = [pc EXCEPT ![w] = l]
    BY <1>7, ZenonT(60) DEF claim_return
  <2>2. ~InRecovery(w) /\ UNCHANGED <<stale, lost>>
    BY <1>7, ZenonT(60) DEF claim_return, InRecovery
  <2>. QED
    BY <2>1, <2>2, Moves_Outside, ZenonT(60)
<1>8. ASSUME recovered_batch_done(w) PROVE Outside(w)
  <2>1. PICK l \in {"offline", "claim"} : pc' = [pc EXCEPT ![w] = l]
    BY <1>8, ZenonT(60) DEF recovered_batch_done
  <2>2. ~InRecovery(w) /\ UNCHANGED <<stale, lost>>
    BY <1>8, ZenonT(60) DEF recovered_batch_done, InRecovery
  <2>. QED
    BY <2>1, <2>2, Moves_Outside, ZenonT(60)
<1>9. ASSUME mark_workers_offline(w) PROVE Outside(w)
  <2>1. PICK l \in {"top", "read"} : EndIteration(w, l)
    BY <1>9 DEF mark_workers_offline
  <2>. QED
    BY <2>1, Ends_Outside, ZenonT(60)
<1>10. ASSUME read_new_tasks(w) PROVE Outside(w)
  <2>1. /\ ~InRecovery(w) /\ UNCHANGED <<stale, lost>>
        /\ pc' = [pc EXCEPT ![w] = "process"]
    BY <1>10, ZenonT(60) DEF read_new_tasks, InRecovery
  <2>. QED
    BY <2>1, Moves_Outside, ZenonT(60)
<1>11. ASSUME read_nothing(w) PROVE Outside(w)
  <2>1. /\ ~InRecovery(w) /\ UNCHANGED <<stale, lost>>
        /\ pc' = [pc EXCEPT ![w] = "top"]
    BY <1>11, ZenonT(60) DEF read_nothing, InRecovery
  <2>. QED
    BY <2>1, Moves_Outside, ZenonT(60)
<1>12. ASSUME new_batch_done(w) PROVE Outside(w)
  <2>1. /\ ~InRecovery(w) /\ UNCHANGED <<stale, lost>>
        /\ pc' = [pc EXCEPT ![w] = "top"]
    BY <1>12, ZenonT(60) DEF new_batch_done, InRecovery
  <2>. QED
    BY <2>1, Moves_Outside, ZenonT(60)
<1>13. ASSUME loop_call_fails(w) PROVE Outside(w)
  <2>1. EndIteration(w, "top")
    BY <1>13, ZenonT(60) DEF loop_call_fails
  <2>. QED
    BY <2>1, Ends_Outside, ZenonT(60)
<1>14. ASSUME read_reply_lost(w) PROVE Outside(w)
  <2>1. EndIteration(w, "top")
    BY <1>14, ZenonT(60) DEF read_reply_lost
  <2>. QED
    BY <2>1, Ends_Outside
<1>15. ASSUME crash(w) PROVE Outside(w)
  <2>1. EndIteration(w, "down")
    BY <1>15, ZenonT(60) DEF crash
  <2>. QED
    BY <2>1, Ends_Outside, ZenonT(60)
<1>16. ASSUME interrupt(w) PROVE Outside(w)
  <2>1. EndIteration(w, "stopping")
    BY <1>16, ZenonT(60) DEF interrupt
  <2>. QED
    BY <2>1, Ends_Outside, ZenonT(60)
<1>17. ASSUME mark_worker_offline(w) PROVE Outside(w)
  <2>1. EndIteration(w, "down")
    BY <1>17, ZenonT(60) DEF mark_worker_offline
  <2>. QED
    BY <2>1, Ends_Outside
<1>. QED
  BY <1>1, <1>2, <1>3, <1>4, <1>5, <1>6, <1>7, <1>8, <1>9, <1>10, <1>11, <1>12, <1>13, <1>14, <1>15, <1>16, <1>17, Outside_Isolated, ZenonT(60) DEF QuietStep

(* FOR UPDATE SKIP LOCKED keeps two recoveries off the same worker. *)
LEMMA recover_select_Isolated ==
  ASSUME WorkerTypeOK, RecoveryIsolated, NEW w \in Worker, recover_select(w)
  PROVE  RecoveryIsolated'
<1> DEFINE S == find_stale_workers
           L == {[row |-> r, exhausted |-> FALSE] : r \in find_running_attempts(S)}
<1>1. RecoveryVarsUnchanged
  BY LoopStep_Rows, ZenonT(60) DEF RowsUnchanged, RecoveryVarsUnchanged
<1>2. /\ pc'[w] = "load" /\ stale'[w] = S /\ lost'[w] = L /\ pc[w] = "top"
      /\ \A x \in Worker \ {w} : pc'[x] = pc[x] /\ stale'[x] = stale[x] /\ lost'[x] = lost[x]
  BY DEF recover_select, WorkerTypeOK
<1>3. \A x \in Worker : InRecovery(x) => stale[x] \cap S = {}
  BY ZenonT(60) DEF find_stale_workers, Locked, InRecovery
<1>4. \A v \in L : attempt_status[v.row] = "RUNNING" /\ attempt_worker[v.row] \in S
  BY DEF find_running_attempts
<1> HIDE DEF S, L
<1>5. ASSUME NEW x \in Worker
      PROVE  /\ ~InRecovery(x)' => lost'[x] = {}
             /\ InRecovery(x)' => \A y \in Worker :
                  y # x /\ InRecovery(y)' => stale'[y] \cap stale'[x] = {}
  BY <1>2, <1>3 DEF RecoveryIsolated, InRecovery
<1>6. ASSUME NEW x \in Worker, InRecovery(x)', NEW v \in lost'[x]
      PROVE  /\ attempt_status'[v.row] = "RUNNING"
             /\ attempt_worker'[v.row] \in stale'[x]
             /\ pc'[x] = "commit" =>
                  (v.exhausted <=> attempt_count'[v.row[1]] >= MaxAttempts)
  <2>1. CASE x = w
    BY <1>1, <1>2, <1>4, <1>6, <2>1, ZenonT(60) DEF RecoveryVarsUnchanged
  <2>2. CASE x # w
    BY <1>1, <1>2, <1>6, <2>2, ZenonT(60) DEF RecoveryVarsUnchanged, RecoveryIsolated, InRecovery
  <2>. QED
    BY <2>1, <2>2, ZenonT(60)
<1>. QED
  BY <1>5, <1>6 DEF RecoveryIsolated

(* A recovery decides only on attempts of the workers it has locked. *)
LEMMA recover_load_Isolated ==
  ASSUME WorkerTypeOK, RecoveryIsolated, NEW w \in Worker, recover_load(w)
  PROVE  RecoveryIsolated'
<1> DEFINE L == lost_attempts({u.row : u \in lost[w]})
<1>1. RecoveryVarsUnchanged
  BY LoopStep_Rows, ZenonT(60) DEF RowsUnchanged, RecoveryVarsUnchanged
<1>2. /\ pc'[w] = "commit" /\ stale' = stale /\ lost'[w] = L /\ pc[w] = "load"
      /\ \A x \in Worker \ {w} : pc'[x] = pc[x] /\ lost'[x] = lost[x]
  BY ZenonT(60) DEF recover_load, WorkerTypeOK
<1>3. ASSUME NEW v \in L
      PROVE  /\ attempt_status[v.row] = "RUNNING" /\ attempt_worker[v.row] \in stale[w]
             /\ v.exhausted <=> attempt_count[v.row[1]] >= MaxAttempts
  <2>1. PICK u \in lost[w] :
          v = [row |-> u.row, exhausted |-> attempt_count[u.row[1]] >= MaxAttempts]
    BY Zenon DEF lost_attempts
  <2>2. v.row = u.row /\ (v.exhausted <=> attempt_count[u.row[1]] >= MaxAttempts)
    BY <2>1, ZenonT(60)
  <2>. QED
    BY <1>2, <2>2 DEF RecoveryIsolated, InRecovery
<1> HIDE DEF L
<1>4. ASSUME NEW x \in Worker
      PROVE  /\ ~InRecovery(x)' => lost'[x] = {}
             /\ InRecovery(x)' => \A y \in Worker :
                  y # x /\ InRecovery(y)' => stale'[y] \cap stale'[x] = {}
  BY <1>2, ZenonT(60) DEF RecoveryIsolated, InRecovery
<1>5. ASSUME NEW x \in Worker, InRecovery(x)', NEW v \in lost'[x]
      PROVE  /\ attempt_status'[v.row] = "RUNNING"
             /\ attempt_worker'[v.row] \in stale'[x]
             /\ pc'[x] = "commit" =>
                  (v.exhausted <=> attempt_count'[v.row[1]] >= MaxAttempts)
  <2>1. CASE x = w
    BY <1>1, <1>2, <1>3, <1>5, <2>1, ZenonT(60) DEF RecoveryVarsUnchanged
  <2>2. CASE x # w
    BY <1>1, <1>2, <1>5, <2>2, ZenonT(60) DEF RecoveryVarsUnchanged, RecoveryIsolated, InRecovery
  <2>. QED
    BY <2>1, <2>2
<1>. QED
  BY <1>4, <1>5 DEF RecoveryIsolated

(* The commit of one recovery leaves the attempts of another alone. *)
LEMMA recover_commit_Isolated ==
  ASSUME OwnershipInvariant, NEW w \in Worker, recover_commit(w)
  PROVE  RecoveryIsolated'
<1>1. WorkerTypeOK /\ RecoveryIsolated
  BY ZenonT(60) DEF OwnershipInvariant, LedgerInvariant, TypeOK
<1>2. /\ pc[w] = "commit" /\ pc'[w] = "claim" /\ lost'[w] = {} /\ stale' = stale
      /\ \A x \in Worker \ {w} : pc'[x] = pc[x] /\ lost'[x] = lost[x]
  BY <1>1 DEF recover_commit, WorkerTypeOK
<1>3. UNCHANGED <<attempt_count, attempt_worker>>
  BY recover_commit_Effect, ZenonT(60)
<1>4. ASSUME NEW x \in Worker \ {w}, InRecovery(x), NEW v \in lost[x]
      PROVE  attempt_status'[v.row] = "RUNNING"
  <2>1. attempt_status[v.row] = "RUNNING" /\ attempt_worker[v.row] \in stale[x]
    BY <1>1, <1>4 DEF RecoveryIsolated
  <2>2. stale[x] \cap stale[w] = {}
    BY <1>1, <1>2, <1>4, ZenonT(60) DEF RecoveryIsolated, InRecovery
  <2>3. v.row \in AttemptRow
    BY <1>1 DEF WorkerTypeOK
  <2>. QED
    BY <2>1, <2>2, <2>3, recover_commit_Effect, ZenonT(60)
<1>5. ASSUME NEW x \in Worker
      PROVE  /\ ~InRecovery(x)' => lost'[x] = {}
             /\ InRecovery(x)' => \A y \in Worker :
                  y # x /\ InRecovery(y)' => stale'[y] \cap stale'[x] = {}
  BY <1>1, <1>2, ZenonT(60) DEF RecoveryIsolated, InRecovery
<1>6. ASSUME NEW x \in Worker, InRecovery(x)', NEW v \in lost'[x]
      PROVE  /\ attempt_status'[v.row] = "RUNNING"
             /\ attempt_worker'[v.row] \in stale'[x]
             /\ pc'[x] = "commit" =>
                  (v.exhausted <=> attempt_count'[v.row[1]] >= MaxAttempts)
  BY <1>1, <1>2, <1>3, <1>4, <1>6, ZenonT(60) DEF RecoveryIsolated, InRecovery
<1>. QED
  BY <1>5, <1>6, ZenonT(60) DEF RecoveryIsolated

(* Starting or finishing an attempt does not touch the attempts of a       *)
(* recovery: those are RUNNING and belong to dead workers.                 *)
LEMMA task_writes_Isolated ==
  ASSUME OwnershipInvariant, NEW w \in Worker, NEW t \in tasks[w],
         task_starts(w, t) \/ task_finishes(w, t)
  PROVE  RecoveryIsolated'
<1>1. WorkerTypeOK /\ StoreTypeOK /\ RecoveryIsolated
  BY DEF OwnershipInvariant, LedgerInvariant, TypeOK
<1>2. UNCHANGED <<pc, stale, lost>>
  BY ZenonT(60) DEF task_starts, task_finishes, loopVars
<1>3. ASSUME NEW x \in Worker, InRecovery(x), NEW v \in lost[x]
      PROVE  /\ attempt_status'[v.row] = "RUNNING"
             /\ attempt_worker'[v.row] = attempt_worker[v.row]
             /\ attempt_count'[v.row[1]] = attempt_count[v.row[1]]
  <2>1. PICK j \in Invocation, k \in AttemptNumber : v.row = <<j, k>>
    BY <1>1 DEF WorkerTypeOK, AttemptRow
  <2>2. /\ attempt_status[<<j, k>>] = "RUNNING" /\ attempt_worker[<<j, k>>] \in stale[x]
        /\ <<j, k>> \in AttemptRow
    BY <1>1, <1>3, <2>1 DEF RecoveryIsolated, AttemptRow
  <2>3. status[j] = "RUNNING"
    BY <2>2 DEF OwnershipInvariant, RunningAttemptIsLast
  <2>4. attempt_worker[<<j, k>>] # w
    <3>1. Up(w)
      BY DEF OwnershipInvariant, OnlyDeadAreStale
    <3>2. pc[attempt_worker[<<j, k>>]] = "down"
      BY <2>2, ZenonT(60) DEF OwnershipInvariant, OnlyDeadAreStale
    <3>. QED
      BY <3>1, <3>2, ZenonT(60) DEF Up
  <2>5. CASE task_starts(w, t)
    <3>1. PICK i \in Invocation, n \in AttemptNumber :
           /\ i = InvocationOf(t)
           /\ n = attempt_count[i] + 1
           /\ status[i] \in {"QUEUED", "RETRYING"}
           /\ status' = [status EXCEPT ![i] = "RUNNING"]
           /\ attempt_count' = [attempt_count EXCEPT ![i] = n]
           /\ attempt_status' = [attempt_status EXCEPT ![<<i, n>>] = "RUNNING"]
           /\ attempt_worker' = [attempt_worker EXCEPT ![<<i, n>>] = w]
           /\ attempt_status[<<i, n>>] = "NONE"
           /\ UNCHANGED completed_at
      BY <2>5, task_starts_Effect, ZenonT(60)
    <3>2. j # i
      BY <2>3, <3>1
    <3>3. <<j, k>> # <<i, n>>
      BY <3>2
    <3>4. /\ attempt_status'[<<j, k>>] = attempt_status[<<j, k>>]
          /\ attempt_worker'[<<j, k>>] = attempt_worker[<<j, k>>]
      BY <1>1, <2>2, <3>1, <3>3, ZenonT(60) DEF StoreTypeOK
    <3>5. attempt_count'[j] = attempt_count[j]
      BY <1>1, <3>1, <3>2, ZenonT(60) DEF StoreTypeOK
    <3>. QED
      BY <2>1, <2>2, <3>4, <3>5
  <2>6. CASE task_finishes(w, t)
    <3>1. PICK i \in Invocation, n \in AttemptNumber,
            s \in {"RETRYING", "SUCCEEDED", "FAILED", "TIMEOUT"},
            a \in {"SUCCEEDED", "FAILED", "TIMEOUT"} :
           /\ i = InvocationOf(t) /\ n = t.attempt /\ n = attempt_count[i]
           /\ status[i] = "RUNNING"
           /\ attempt_status[<<i, n>>] = "RUNNING"
           /\ attempt_worker[<<i, n>>] = w
           /\ s = "RETRYING" => attempt_count[i] < MaxAttempts
           /\ status' = [status EXCEPT ![i] = s]
           /\ completed_at' = [completed_at EXCEPT ![i] = (s # "RETRYING")]
           /\ attempt_status' = [attempt_status EXCEPT ![<<i, n>>] = a]
           /\ UNCHANGED <<attempt_count, attempt_worker>>
      BY <2>6, task_finishes_Effect, ZenonT(60)
    <3>. QED
      BY <1>1, <2>1, <2>2, <2>4, <3>1, ZenonT(60) DEF StoreTypeOK
  <2>. QED
    BY <2>5, <2>6, ZenonT(60)
<1>4. ASSUME NEW x \in Worker
      PROVE  /\ ~InRecovery(x)' => lost'[x] = {}
             /\ InRecovery(x)' => \A y \in Worker :
                  y # x /\ InRecovery(y)' => stale'[y] \cap stale'[x] = {}
  BY <1>1, <1>2, ZenonT(60) DEF RecoveryIsolated, InRecovery
<1>5. ASSUME NEW x \in Worker, InRecovery(x)', NEW v \in lost'[x]
      PROVE  /\ attempt_status'[v.row] = "RUNNING"
             /\ attempt_worker'[v.row] \in stale'[x]
             /\ pc'[x] = "commit" =>
                  (v.exhausted <=> attempt_count'[v.row[1]] >= MaxAttempts)
  BY <1>1, <1>2, <1>3, <1>5 DEF RecoveryIsolated, InRecovery
<1>. QED
  BY <1>4, <1>5 DEF RecoveryIsolated

(* Recovery transactions stay isolated. *)
LEMMA Isolated_Next ==
  ASSUME OwnershipInvariant, [Next]_vars
  PROVE  RecoveryIsolated'
<1>1. WorkerTypeOK /\ RecoveryIsolated
  BY DEF OwnershipInvariant, LedgerInvariant, TypeOK
<1>2. CASE RecoveryVarsUnchanged /\ UNCHANGED <<pc, stale, lost>>
  BY <1>1, <1>2, Unchanged_Isolated, ZenonT(60)
<1>3. ASSUME NEW w \in Worker, NEW t \in tasks[w],
             \/ task_expires(w, t) \/ task_is_refused(w, t) \/ execute(w, t) \/ acknowledge(w, t)
      PROVE  RecoveryIsolated'
  <2>1. RecoveryVarsUnchanged /\ UNCHANGED <<pc, stale, lost>>
    BY <1>3, ZenonT(60) DEF task_expires, mark_expired, task_is_refused, execute, acknowledge, storeVars,
      loopVars, RecoveryVarsUnchanged
  <2>. QED
    BY <1>2, <2>1
<1>4. ASSUME NEW w \in Worker, NEW t \in tasks[w], task_is_rejected(w, t) \/ task_call_fails(w, t)
      PROVE  RecoveryIsolated'
  <2>1. RecoveryVarsUnchanged
    BY <1>4 DEF task_is_rejected, task_call_fails, Raise, storeVars, RecoveryVarsUnchanged
  <2>2. EndIteration(w, "top") \/ UNCHANGED loopVars
    BY <1>4, Zenon DEF task_is_rejected, task_call_fails, Raise
  <2>3. CASE EndIteration(w, "top")
    BY <1>1, <2>1, <2>3, Outside_Isolated, ZenonT(60) DEF EndIteration, Outside, InRecovery, WorkerTypeOK
  <2>. QED
    BY <1>2, <2>1, <2>2, <2>3, ZenonT(60) DEF loopVars
<1>5. ASSUME NEW w \in Worker, WorkerStep(w)
      PROVE  RecoveryIsolated'
  BY <1>1, <1>3, <1>4, <1>5, Leaves_Isolated, recover_select_Isolated, recover_load_Isolated,
    recover_commit_Isolated, task_writes_Isolated, ZenonT(60)
  DEF WorkerStep, LoopStep, TaskStep, WorkerFault, QuietStep
<1>6. CASE UNCHANGED workerVars
  <2>1. UNCHANGED <<pc, stale, lost>>
    BY <1>6 DEF workerVars, loopVars
  <2>2. CASE UNCHANGED vars \/ ClientStep \/ BackoffStep
    BY <1>2, <2>1, <2>2, ZenonT(60) DEF vars, storeVars, ClientStep, BackoffStep, create_invocation,
      deadline_passes, backoff_elapses, RecoveryVarsUnchanged
  <2>3. ASSUME NEW d \in DispatcherId, DispatcherStep(d) \/ DispatcherFault(d)
        PROVE  RecoveryVarsUnchanged
    BY <2>3, ZenonT(60) DEF DispatcherStep, DispatcherFault, dispatch_select, publish_invocation,
      publish_fails, dispatch_commit, dispatch_abort, storeVars, RecoveryVarsUnchanged
  <2>. QED
    BY <1>2, <1>5, <2>1, <2>2, <2>3, ZenonT(60) DEF Next
<1>. QED
  BY <1>5, <1>6 DEF Next, ClientStep, BackoffStep, vars

(* Ownership after a step that leaves the stream alone, task by task. *)
LEMMA OwnsNext ==
  ASSUME UNCHANGED stream,
         \A x \in Worker : \A y \in tasks'[x] : Executes(y) =>
           /\ attempt_status'[<<InvocationOf(y), y.attempt>>] = "RUNNING"
           /\ attempt_worker'[<<InvocationOf(y), y.attempt>>] = x
           /\ \A z \in tasks'[x] : Executes(z) /\ InvocationOf(z) = InvocationOf(y) => z = y
  PROVE  TasksOwnAttempts'
<1>1. ASSUME NEW t
      PROVE  InvocationOf(t)' = InvocationOf(t)
  BY ZenonT(60) DEF InvocationOf
<1>. QED
  BY <1>1 DEF TasksOwnAttempts, Executing, Executes

(* A step that starts nothing and leaves the attempts alone. *)
LEMMA Owns_Frame ==
  ASSUME OwnershipInvariant, UNCHANGED <<attempt_status, attempt_worker>>,
         \A m \in Message : stream'[m] = stream[m],
         \A w \in Worker : \A t \in tasks'[w] : Executes(t) => t \in tasks[w]
  PROVE  TasksOwnAttempts'
<1>1. ASSUME NEW w \in Worker, NEW t \in tasks'[w], Executes(t)
      PROVE  /\ attempt_status'[<<InvocationOf(t)', t.attempt>>] = "RUNNING"
             /\ attempt_worker'[<<InvocationOf(t)', t.attempt>>] = w
             /\ \A u \in tasks'[w] : Executes(u) /\ InvocationOf(u)' = InvocationOf(t)' => u = t
  <2>1. \A u \in tasks[w] : InvocationOf(u)' = InvocationOf(u)
    BY TaskMessage DEF OwnershipInvariant, InvocationOf
  <2>2. Owns(w, tasks[w])
    BY OwnsAll, ZenonT(60) DEF OwnershipInvariant
  <2>. QED
    BY <1>1, <2>1, <2>2, ZenonT(60) DEF Owns
<1>. QED
  BY <1>1 DEF TasksOwnAttempts, Executing, Executes

(* A step of worker w that leaves the stream and the attempts alone and    *)
(* replaces its tasks by T.                                                *)
LEMMA Owns_Replace ==
  ASSUME OwnershipInvariant, UNCHANGED <<attempt_status, attempt_worker, stream>>,
         NEW w \in Worker, NEW T, tasks' = [tasks EXCEPT ![w] = T], Owns(w, T)
  PROVE  TasksOwnAttempts'
<1>1. tasks'[w] = T /\ \A x \in Worker \ {w} : tasks'[x] = tasks[x]
  BY DEF OwnershipInvariant, LedgerInvariant, TypeOK, WorkerTypeOK
<1>2. \A x \in Worker : Owns(x, tasks'[x])
  BY <1>1, OwnsAll DEF OwnershipInvariant
<1>. QED
  BY <1>2, OwnsNext, ZenonT(60) DEF Owns

(* A task that has executed still owns its attempt. *)
LEMMA execute_Owns ==
  ASSUME OwnershipInvariant, NEW w \in Worker, NEW t \in tasks[w], execute(w, t)
  PROVE  TasksOwnAttempts'
<1>1. t \in Task /\ Owns(w, tasks[w])
  BY OwnsAll, TaskMessage DEF OwnershipInvariant
<1>2. t.at = "running" /\ UNCHANGED <<attempt_status, attempt_worker, stream>>
  BY DEF execute, storeVars, streamVars
<1>3. PICK result : Becomes(w, t, [t EXCEPT !.at = "executed", !.result = result])
  BY ZenonT(60) DEF execute
<1> DEFINE u == [t EXCEPT !.at = "executed", !.result = result]
           T == (tasks[w] \ {t}) \cup {u}
<1>4. u.msg = t.msg /\ u.attempt = t.attempt /\ u.at = "executed"
  BY <1>1, ZenonT(60) DEF Task
<1> HIDE DEF u
<1>5. Owns(w, T)
  BY <1>1, <1>2, <1>4 DEF Owns, Executes, InvocationOf
<1>6. tasks' = [tasks EXCEPT ![w] = T]
  BY <1>3 DEF Becomes, u
<1> HIDE DEF T
<1>. QED
  BY <1>2, <1>5, <1>6, Owns_Replace, ZenonT(60)

(* A task that raises takes no attempt from another one. *)
LEMMA Raise_Owns ==
  ASSUME OwnershipInvariant, NEW w \in Worker, NEW t \in tasks[w], Raise(w, t)
  PROVE  TasksOwnAttempts'
<1>1. Owns(w, tasks[w]) /\ tasks[w] \subseteq Task
  BY OwnsAll DEF OwnershipInvariant, LedgerInvariant, TypeOK, WorkerTypeOK
<1>2. UNCHANGED <<attempt_status, attempt_worker, stream>>
  BY DEF Raise, storeVars, streamVars
<1> DEFINE T == Unawaited(tasks[w] \ {t})
<1>3. ASSUME NEW y \in T
      PROVE  \E z \in tasks[w] : y = [z EXCEPT !.awaited = FALSE]
  BY Zenon DEF Unawaited
<1>4. ASSUME NEW z \in tasks[w], NEW y, y = [z EXCEPT !.awaited = FALSE]
      PROVE  y.msg = z.msg /\ y.at = z.at /\ y.attempt = z.attempt
  BY <1>1, <1>4, ZenonT(60) DEF Task
<1>5. Owns(w, T)
  <2> HIDE DEF T
  <2> SUFFICES ASSUME NEW x \in T, Executes(x)
               PROVE  /\ attempt_status[<<InvocationOf(x), x.attempt>>] = "RUNNING"
                      /\ attempt_worker[<<InvocationOf(x), x.attempt>>] = w
                      /\ \A y \in T : Executes(y) /\ InvocationOf(y) = InvocationOf(x) => y = x
    BY DEF Owns
  <2>1. PICK z \in tasks[w] : x = [z EXCEPT !.awaited = FALSE]
    BY <1>3
  <2>2. x.msg = z.msg /\ x.at = z.at /\ x.attempt = z.attempt
    BY <1>4, <2>1, ZenonT(60)
  <2>3. Executes(z) /\ InvocationOf(x) = InvocationOf(z)
    BY <2>2 DEF Executes, InvocationOf
  <2>4. ASSUME NEW y \in T, Executes(y), InvocationOf(y) = InvocationOf(x)
        PROVE  y = x
    <3>1. PICK z2 \in tasks[w] : y = [z2 EXCEPT !.awaited = FALSE]
      BY <1>3
    <3>2. Executes(z2) /\ InvocationOf(y) = InvocationOf(z2)
      BY <1>4, <2>4, <3>1 DEF Executes, InvocationOf
    <3>3. z2 = z
      BY <1>1, <2>3, <2>4, <3>2, ZenonT(60) DEF Owns
    <3>. QED
      BY <2>1, <3>1, <3>3
  <2>. QED
    BY <1>1, <2>2, <2>3, <2>4, ZenonT(60) DEF Owns
<1>6. Owns(w, tasks[w] \ {t})
  BY <1>1 DEF Owns
<1>7. tasks' = [tasks EXCEPT ![w] = T] \/ tasks' = [tasks EXCEPT ![w] = tasks[w] \ {t}]
  BY Zenon DEF Raise
<1> HIDE DEF T
<1>. QED
  BY <1>2, <1>5, <1>6, <1>7, Owns_Replace, ZenonT(60)

(* The attempt that mark_running inserts belongs to its task alone. *)
LEMMA task_starts_Owns ==
  ASSUME OwnershipInvariant, NEW w \in Worker, NEW t \in tasks[w], task_starts(w, t)
  PROVE  TasksOwnAttempts'
<1>1. PICK i \in Invocation, n \in AttemptNumber :
           /\ i = InvocationOf(t)
           /\ n = attempt_count[i] + 1
           /\ status[i] \in {"QUEUED", "RETRYING"}
           /\ status' = [status EXCEPT ![i] = "RUNNING"]
           /\ attempt_count' = [attempt_count EXCEPT ![i] = n]
           /\ attempt_status' = [attempt_status EXCEPT ![<<i, n>>] = "RUNNING"]
           /\ attempt_worker' = [attempt_worker EXCEPT ![<<i, n>>] = w]
           /\ attempt_status[<<i, n>>] = "NONE"
           /\ UNCHANGED completed_at
  BY task_starts_Effect, ZenonT(60)
<1> PICK u : u = [t EXCEPT !.at = "running", !.attempt = n]
  OBVIOUS
<1>2. StoreTypeOK /\ WorkerTypeOK /\ t \in Task
  BY TaskMessage DEF OwnershipInvariant, LedgerInvariant, TypeOK
<1>3. Becomes(w, t, u) /\ UNCHANGED stream
  BY <1>1 DEF task_starts, streamVars
<1>4. u.msg = t.msg /\ u.attempt = n /\ InvocationOf(u) = i
  BY <1>1, <1>2 DEF Task, InvocationOf
<1>5. \A x \in Worker : \A y \in tasks'[x] : y \in tasks[x] \/ (x = w /\ y = u)
  BY <1>2, <1>3 DEF Becomes, WorkerTypeOK
<1>6. ASSUME NEW x \in Worker, NEW y \in tasks[x], Executes(y)
      PROVE  /\ InvocationOf(y) # i
             /\ attempt_status'[<<InvocationOf(y), y.attempt>>] = "RUNNING"
             /\ attempt_worker'[<<InvocationOf(y), y.attempt>>] = x
  BY <1>1, <1>2, <1>6, ExecutingRow DEF StoreTypeOK
<1>7. attempt_status'[<<i, n>>] = "RUNNING" /\ attempt_worker'[<<i, n>>] = w
  BY <1>1, <1>2 DEF StoreTypeOK, AttemptRow
<1>8. ASSUME NEW x \in Worker, NEW y \in tasks'[x], Executes(y)
      PROVE  /\ attempt_status'[<<InvocationOf(y), y.attempt>>] = "RUNNING"
             /\ attempt_worker'[<<InvocationOf(y), y.attempt>>] = x
             /\ \A z \in tasks'[x] : Executes(z) /\ InvocationOf(z) = InvocationOf(y) => z = y
  <2>1. Owns(x, tasks[x])
    BY OwnsAll DEF OwnershipInvariant
  <2>2. CASE x = w /\ y = u
    <3>1. ASSUME NEW z \in tasks'[x], Executes(z), InvocationOf(z) = InvocationOf(y)
          PROVE  z = y
      BY <1>4, <1>5, <1>6, <2>2, <3>1, ZenonT(60)
    <3>. QED
      BY <1>4, <1>7, <2>2, <3>1, ZenonT(60)
  <2>3. CASE y \in tasks[x]
    <3>1. InvocationOf(y) # i
      BY <1>6, <1>8, <2>3, ZenonT(60)
    <3>2. ASSUME NEW z \in tasks'[x], Executes(z), InvocationOf(z) = InvocationOf(y)
          PROVE  z = y
      <4>1. z \in tasks[x]
        BY <1>4, <1>5, <3>1, <3>2, ZenonT(60)
      <4>. QED
        BY <1>8, <2>1, <2>3, <3>2, <4>1, ZenonT(60) DEF Owns
    <3>. QED
      BY <1>6, <1>8, <2>3, <3>2
  <2>. QED
    BY <1>5, <2>2, <2>3, ZenonT(60)
<1>. QED
  BY <1>3, <1>8, OwnsNext

(* mark_finished ends the attempt of its own task only. *)
LEMMA task_finishes_Owns ==
  ASSUME OwnershipInvariant, NEW w \in Worker, NEW t \in tasks[w], task_finishes(w, t)
  PROVE  TasksOwnAttempts'
<1>1. PICK i \in Invocation, n \in AttemptNumber,
            s \in {"RETRYING", "SUCCEEDED", "FAILED", "TIMEOUT"},
            a \in {"SUCCEEDED", "FAILED", "TIMEOUT"} :
           /\ i = InvocationOf(t) /\ n = t.attempt /\ n = attempt_count[i]
           /\ status[i] = "RUNNING"
           /\ attempt_status[<<i, n>>] = "RUNNING"
           /\ attempt_worker[<<i, n>>] = w
           /\ s = "RETRYING" => attempt_count[i] < MaxAttempts
           /\ status' = [status EXCEPT ![i] = s]
           /\ completed_at' = [completed_at EXCEPT ![i] = (s # "RETRYING")]
           /\ attempt_status' = [attempt_status EXCEPT ![<<i, n>>] = a]
           /\ UNCHANGED <<attempt_count, attempt_worker>>
  BY task_finishes_Effect, ZenonT(60)
<1> PICK u : u = [t EXCEPT !.at = "ack"]
  BY ZenonT(60)
<1>2. StoreTypeOK /\ WorkerTypeOK /\ t \in Task
  BY TaskMessage DEF OwnershipInvariant, LedgerInvariant, TypeOK
<1>3. Becomes(w, t, u) /\ UNCHANGED stream /\ Executes(t)
  BY DEF task_finishes, streamVars, Executes
<1>4. ~Executes(u)
  BY <1>2 DEF Task, Executes
<1>5. \A x \in Worker : \A y \in tasks'[x] :
        Executes(y) => y \in tasks[x] /\ (x = w => y # t)
  BY <1>2, <1>3, <1>4, ZenonT(60) DEF Becomes, WorkerTypeOK
<1>6. ASSUME NEW x \in Worker, NEW y \in tasks'[x], Executes(y)
      PROVE  /\ attempt_status'[<<InvocationOf(y), y.attempt>>] = "RUNNING"
             /\ attempt_worker'[<<InvocationOf(y), y.attempt>>] = x
             /\ \A z \in tasks'[x] : Executes(z) /\ InvocationOf(z) = InvocationOf(y) => z = y
  <2>1. Owns(x, tasks[x]) /\ y \in tasks[x]
    BY <1>5, <1>6, OwnsAll DEF OwnershipInvariant
  <2>2. <<InvocationOf(y), y.attempt>> # <<i, n>>
    <3>1. CASE x = w
      <4>1. InvocationOf(y) # i
        BY <1>1, <1>3, <1>5, <1>6, <2>1, <3>1, ZenonT(60) DEF Owns
      <4>. QED
        BY <4>1
    <3>2. CASE x # w
      BY <1>1, <1>6, <2>1, <3>2, ZenonT(60) DEF Owns
    <3>. QED
      BY <3>1, <3>2
  <2>3. attempt_status'[<<InvocationOf(y), y.attempt>>] = attempt_status[<<InvocationOf(y), y.attempt>>]
    BY <1>1, <1>2, <1>6, <2>1, <2>2, ExecutingRow, ZenonT(60) DEF StoreTypeOK
  <2>. QED
    BY <1>1, <1>5, <1>6, <2>1, <2>3, ZenonT(60) DEF Owns
<1>. QED
  BY <1>3, <1>6, OwnsNext, ZenonT(60)

(* Recovery writes no attempt that a live task executes. *)
LEMMA recover_commit_Owns ==
  ASSUME OwnershipInvariant, NEW w \in Worker, recover_commit(w)
  PROVE  TasksOwnAttempts'
<1>1. UNCHANGED <<tasks, stream, attempt_worker>>
  BY recover_commit_Effect, ZenonT(60) DEF recover_commit, streamVars
<1>2. ASSUME NEW x \in Worker, NEW y \in tasks[x], Executes(y)
      PROVE  attempt_status'[<<InvocationOf(y), y.attempt>>] = "RUNNING"
  <2>1. x \notin stale[w]
    BY <1>2, ExecutingRow DEF OwnershipInvariant, OnlyDeadAreStale, Up
  <2> PICK r \in AttemptRow : r = <<InvocationOf(y), y.attempt>>
    BY <1>2, ExecutingRow, ZenonT(60)
  <2>2. attempt_status[r] = "RUNNING" /\ attempt_worker[r] = x
    BY <1>2, ExecutingRow, ZenonT(60)
  <2>3. attempt_status'[r] = "RUNNING"
    BY <2>1, <2>2, recover_commit_Effect, ZenonT(60)
  <2>. QED
    BY <2>3, ZenonT(60)
<1>3. \A x \in Worker : Owns(x, tasks[x])
  BY OwnsAll, ZenonT(60) DEF OwnershipInvariant
<1>4. ASSUME NEW x \in Worker, NEW y \in tasks[x], Executes(y)
      PROVE  /\ attempt_worker[<<InvocationOf(y), y.attempt>>] = x
             /\ \A z \in tasks[x] : Executes(z) /\ InvocationOf(z) = InvocationOf(y) => z = y
  BY <1>3, <1>4, ZenonT(60) DEF Owns
<1>. QED
  BY <1>1, <1>2, <1>4, OwnsNext, ZenonT(60)

(* A task that executes keeps the running attempt of its invocation. *)
LEMMA Owns_Next ==
  ASSUME OwnershipInvariant, [Next]_vars
  PROVE  TasksOwnAttempts'
<1>1. WorkerTypeOK /\ LedgerInvariant
  BY DEF OwnershipInvariant, LedgerInvariant, TypeOK
<1>2. ASSUME NEW w \in Worker,
             QuietStep(w) \/ recover_select(w) \/ recover_load(w) \/ claim_take(w)
               \/ read_new_tasks(w) \/ read_reply_lost(w)
      PROVE  TasksOwnAttempts'
  <2>1. UNCHANGED <<attempt_status, attempt_worker>>
    BY <1>2, LoopStep_Rows, ZenonT(60) DEF RowsUnchanged
  <2>2. UNCHANGED stream
    BY <1>2, ZenonT(60) DEF QuietStep, recover_select, recover_load, claim_take, read_new_tasks,
      read_reply_lost, register_worker, record_heartbeat, heartbeat_ages, heartbeat_loop_dies,
      recover_nothing, claim_list, claim_return, recovered_batch_done, mark_workers_offline,
      read_nothing, new_batch_done, loop_call_fails, crash, interrupt, mark_worker_offline,
      streamVars, xclaim, xreadgroup
  <2>3. CASE claim_take(w) \/ read_new_tasks(w)
    <3>1. \A m, b : ~Executes(NewTask(m, b))
      BY DEF NewTask, Executes
    <3>2. \E N : /\ tasks' = [tasks EXCEPT ![w] = tasks[w] \cup N]
                 /\ \A t \in N : \E m, b : t = NewTask(m, b)
      <4>1. CASE claim_take(w)
        <5> DEFINE N == {NewTask(m, TRUE) : m \in claimable(listed[w])}
        <5>1. tasks' = [tasks EXCEPT ![w] = tasks[w] \cup N]
          BY <4>1 DEF claim_take
        <5>2. \A t \in N : \E m, b : t = NewTask(m, b)
          BY Zenon
        <5> HIDE DEF N
        <5>. QED
          BY <5>1, <5>2, ZenonT(60)
      <4>2. CASE read_new_tasks(w)
        <5> DEFINE N == {NewTask(m, FALSE) : m \in next_messages(MaxConcurrency)}
        <5>1. tasks' = [tasks EXCEPT ![w] = tasks[w] \cup N]
          BY <4>2 DEF read_new_tasks
        <5>2. \A t \in N : \E m, b : t = NewTask(m, b)
          BY Zenon
        <5> HIDE DEF N
        <5>. QED
          BY <5>1, <5>2, ZenonT(60)
      <4>. QED
        BY <2>3, <4>1, <4>2
    <3>3. \A x \in Worker : \A t \in tasks'[x] : Executes(t) => t \in tasks[x]
      BY <1>1, <3>1, <3>2 DEF WorkerTypeOK
    <3>. QED
      BY <2>1, <2>2, <3>3, Owns_Frame, ZenonT(60)
  <2>4. CASE \/ QuietStep(w) \/ recover_select(w) \/ recover_load(w) \/ read_reply_lost(w)
    <3>1. \A x \in Worker : tasks'[x] \subseteq tasks[x]
      BY <1>1, <2>4, ZenonT(60) DEF QuietStep, recover_select, recover_load, read_reply_lost,
        register_worker, record_heartbeat, heartbeat_ages, heartbeat_loop_dies,
        recover_nothing, claim_list, claim_return, recovered_batch_done, mark_workers_offline,
        read_nothing, new_batch_done, loop_call_fails, crash, interrupt, mark_worker_offline,
        WorkerTypeOK
    <3>. QED
      BY <2>1, <2>2, <3>1, Owns_Frame, ZenonT(60)
  <2>. QED
    BY <1>2, <2>3, <2>4, ZenonT(60)
<1>3. ASSUME NEW w \in Worker, NEW t \in tasks[w],
             task_expires(w, t) \/ task_is_refused(w, t) \/ acknowledge(w, t)
      PROVE  TasksOwnAttempts'
  <2>1. UNCHANGED <<attempt_status, attempt_worker, stream>>
    BY <1>3 DEF task_expires, mark_expired, task_is_refused, acknowledge, xack, storeVars, streamVars
  <2>2. ~Executes([t EXCEPT !.at = "ack"])
    BY <1>1, TaskMessage DEF Task, Executes
  <2>3. \/ tasks' = [tasks EXCEPT ![w] = tasks[w] \ {t}]
        \/ tasks' = [tasks EXCEPT ![w] = (tasks[w] \ {t}) \cup {[t EXCEPT !.at = "ack"]}]
    BY <1>3 DEF task_expires, task_is_refused, acknowledge, Becomes
  <2>4. \A x \in Worker : \A y \in tasks'[x] : Executes(y) => y \in tasks[x]
    BY <1>1, <2>2, <2>3 DEF WorkerTypeOK
  <2>. QED
    BY <2>1, <2>4, Owns_Frame, ZenonT(60)
<1>4. ASSUME NEW w \in Worker, NEW t \in tasks[w], TaskStep(w, t) \/ task_call_fails(w, t)
      PROVE  TasksOwnAttempts'
  BY <1>3, <1>4, task_starts_Owns, task_finishes_Owns, execute_Owns, Raise_Owns, ZenonT(60)
  DEF TaskStep, task_is_rejected, task_call_fails
<1>5. ASSUME NEW w \in Worker, WorkerStep(w)
      PROVE  TasksOwnAttempts'
  BY <1>2, <1>4, <1>5, recover_commit_Owns, ZenonT(60) DEF WorkerStep, LoopStep, WorkerFault, QuietStep
<1>6. CASE ClientStep \/ BackoffStep \/ UNCHANGED vars
  <2>1. UNCHANGED <<attempt_status, attempt_worker, stream, tasks>>
    BY <1>6, ZenonT(60) DEF ClientStep, BackoffStep, create_invocation, deadline_passes, backoff_elapses,
      vars, storeVars, streamVars, workerVars
  <2>. QED
    BY <2>1, Owns_Frame
<1>7. ASSUME NEW d \in DispatcherId, DispatcherStep(d) \/ DispatcherFault(d), UNCHANGED workerVars
      PROVE  TasksOwnAttempts'
  <2>1. UNCHANGED <<attempt_status, attempt_worker>> /\ UNCHANGED tasks
    BY <1>7 DEF DispatcherStep, DispatcherFault, dispatch_select, publish_invocation,
      publish_fails, dispatch_commit, dispatch_abort, storeVars, workerVars
  <2>2. UNCHANGED stream \/ \E r \in AttemptRow : xadd(r)
    BY <1>7, ZenonT(60) DEF DispatcherStep, DispatcherFault, dispatch_select, publish_invocation,
      publish_fails, dispatch_commit, dispatch_abort, streamVars
  <2>3. \A m \in Message : stream'[m] = stream[m]
    BY <1>1, <2>2, xadd_Keeps
  <2>. QED
    BY <2>1, <2>3, Owns_Frame, ZenonT(60)
<1>. QED
  BY <1>5, <1>6, <1>7, ZenonT(60) DEF Next

--------------------------------------------------------------------------------
(* Messages that nobody will look at again. *)

(* A message that is served stays so. *)
LEMMA ServedStays ==
  ASSUME OwnershipInvariant, AcknowledgedAreServed, [Next]_vars,
         LedgerInvariant', NEW m \in Message, Served(m)
  PROVE  Served(m)'
<1>0. StoreTypeOK /\ StreamTypeOK(AttemptRow) /\ StoreTypeOK'
  BY OwnershipTypes, ZenonT(60) DEF LedgerInvariant, TypeOK
<1>1. stream[m] \in AttemptRow /\ stream'[m] = stream[m]
  BY <1>0, OwnershipTypes, StreamKept DEF StreamTypeOK, Message
<1> PICK r \in AttemptRow : r = stream[m]
  BY <1>1, ZenonT(60)
<1>2. r[1] \in Invocation /\ r[2] \in AttemptNumber
  BY RowParts
<1> PICK i \in Invocation, n \in AttemptNumber : i = r[1] /\ n = r[2]
  BY <1>2, ZenonT(60)
<1>3. AllowedStep(i)
  BY OwnershipTypes, Step_Allowed, ZenonT(60)
<1>4. is_terminal_status(status[i]) \/ n <= attempt_count[i]
  BY ZenonT(60) DEF Served
<1>5. is_terminal_status(status'[i]) \/ n <= attempt_count'[i]
  BY <1>0, <1>3, <1>4, Allowed_Served, ZenonT(60)
<1>. QED
  BY <1>1, <1>5, ZenonT(60) DEF Served

(* Enough to establish AcknowledgedAreServed after a step. *)
LEMMA Served_Frame ==
  ASSUME OwnershipInvariant, AcknowledgedAreServed, [Next]_vars,
         LedgerInvariant',
         \A m \in Message' : m <= cursor' /\ pending'[m] = NoWorker =>
           m \in Message /\ (Served(m) \/ (m <= cursor /\ pending[m] = NoWorker)),
         \A w \in Worker : \A t \in tasks'[w] : t.at # "received" =>
           Served(t.msg)' \/ (t.msg \in Message /\ Served(t.msg))
  PROVE  AcknowledgedAreServed'
<1>1. ASSUME NEW m \in Message', m <= cursor', pending'[m] = NoWorker
      PROVE  Served(m)'
  <2>1. m \in Message /\ Served(m)
    BY <1>1, ZenonT(60) DEF AcknowledgedAreServed
  <2>. QED
    BY <2>1, ServedStays, ZenonT(60)
<1>2. ASSUME NEW w \in Worker, NEW t \in tasks'[w], t.at # "received"
      PROVE  Served(t.msg)'
  BY <1>2, ServedStays, ZenonT(60)
<1>. QED
  BY <1>1, <1>2, ZenonT(60) DEF AcknowledgedAreServed

(* mark_running serves the message of the task, whatever it decides. *)
LEMMA Verdict_Serves ==
  ASSUME OwnershipInvariant, AcknowledgedAreServed, [Next]_vars,
         LedgerInvariant',
         NEW w \in Worker, NEW t \in tasks[w],
         task_starts(w, t) \/ task_expires(w, t) \/ task_is_refused(w, t)
  PROVE  Served(t.msg)'
<1>0. StoreTypeOK /\ LedgerInvariant
  BY OwnershipTypes, ZenonT(60)
<1>1. /\ t.msg \in Message /\ InvocationOf(t) \in Invocation /\ stream[t.msg][2] \in AttemptNumber
  BY <1>0, TaskMessage, ZenonT(60)
<1> PICK i \in Invocation, n \in AttemptNumber :
      i = InvocationOf(t) /\ n = stream[t.msg][2]
  BY <1>1, ZenonT(60)
<1>2. stream[t.msg][1] = i /\ stream'[t.msg] = stream[t.msg]
  BY <1>0, <1>1, StreamKept, ZenonT(60) DEF InvocationOf
<1>3. n \in Nat /\ attempt_count[i] \in Nat /\ status \in [Invocation -> InvocationStatus]
      /\ attempt_count \in [Invocation -> 0..AttemptBound]
  BY <1>0, ColumnTypes, ZenonT(60) DEF StoreTypeOK
<1>4. CASE task_starts(w, t)
  <2>1. TaskVerdict(t) = "start" /\ mark_running(i, w)
    BY <1>4, ZenonT(60) DEF task_starts
  <2>2. n <= attempt_count[i] + 1
    <3>1. start_verdict(i, n, t.recovered) = "start"
      BY <2>1, ZenonT(60) DEF TaskVerdict
    <3>. QED
      BY <1>3, <3>1 DEF start_verdict
  <2>3. attempt_count'[i] = attempt_count[i] + 1
    BY <1>3, <2>1, ZenonT(60) DEF mark_running
  <2>. QED
    BY <1>2, <2>2, <2>3, ZenonT(60) DEF Served
<1>5. CASE task_expires(w, t)
  <2>1. status'[i] = "TIMEOUT"
    BY <1>3, <1>5 DEF task_expires, mark_expired
  <2>. QED
    BY <1>2, <2>1, ZenonT(60) DEF Served, is_terminal_status, TERMINAL_INVOCATION_STATUSES
<1>6. CASE task_is_refused(w, t)
  <2>1. start_verdict(i, n, t.recovered) = "acknowledge"
    BY <1>6, ZenonT(60) DEF task_is_refused, TaskVerdict
  <2>2. is_terminal_status(status[i]) \/ n <= attempt_count[i]
    BY <1>3, <2>1 DEF start_verdict
  <2>3. Served(t.msg)
    BY <1>2, <2>2, ZenonT(60) DEF Served
  <2>. QED
    BY <1>1, <2>3, ServedStays, ZenonT(60)
<1>. QED
  BY <1>4, <1>5, <1>6, ZenonT(60)

(* Only what is served is acknowledged. *)
LEMMA Served_Step ==
  ASSUME OwnershipInvariant, AcknowledgedAreServed, [Next]_vars, LedgerInvariant'
  PROVE  AcknowledgedAreServed'
<1>0. /\ WorkerTypeOK /\ StreamTypeOK(AttemptRow) /\ NoWorker \notin Worker /\ TaskShape
      /\ LedgerInvariant
  BY OwnershipTypes, ZenonT(60)
<1>1. /\ \A m \in MessageId : m <= cursor => m \in Message
      /\ \A m \in Message : m \in MessageId
      /\ \A w \in Worker : \A t \in tasks[w] :
           t.msg \in Message /\ (t.at # "received" => Served(t.msg))
  BY <1>0, ServedFacts, ZenonT(60)
<1>2. \A m \in Message' : m \in MessageId
  <2>1. StreamTypeOK(AttemptRow)'
    BY ZenonT(60) DEF LedgerInvariant, TypeOK
  <2>. QED
    BY <2>1, StreamAssumption DEF StreamTypeOK, MessageId, Message
<1>3. ASSUME UNCHANGED <<cursor, pending>>
      PROVE  \A m \in Message' : m <= cursor' /\ pending'[m] = NoWorker =>
               m \in Message /\ (Served(m) \/ (m <= cursor /\ pending[m] = NoWorker))
  BY <1>1, <1>2, <1>3, ZenonT(60)
<1>4. ASSUME UNCHANGED <<cursor, pending>>, \A w \in Worker : tasks'[w] \subseteq tasks[w]
      PROVE  AcknowledgedAreServed'
  BY <1>1, <1>3, <1>4, Served_Frame, ZenonT(60)
<1>5. CASE ClientStep \/ BackoffStep \/ UNCHANGED vars
  <2>1. UNCHANGED <<cursor, pending, tasks>>
    BY <1>5, ZenonT(60) DEF ClientStep, BackoffStep, vars, streamVars, workerVars
  <2>. QED
    BY <1>4, <2>1
<1>6. ASSUME NEW d \in DispatcherId, DispatcherStep(d) \/ DispatcherFault(d), UNCHANGED workerVars
      PROVE  AcknowledgedAreServed'
  <2>1. UNCHANGED <<cursor, pending, tasks>>
    BY <1>6, ZenonT(60) DEF DispatcherStep, DispatcherFault, dispatch_select, publish_invocation,
      publish_fails, dispatch_commit, dispatch_abort, xadd, streamVars, workerVars
  <2>. QED
    BY <1>4, <2>1
<1>7. ASSUME NEW w \in Worker,
             QuietStep(w) \/ recover_select(w) \/ recover_load(w) \/ recover_commit(w)
      PROVE  AcknowledgedAreServed'
  <2>1. UNCHANGED <<cursor, pending>>
    BY <1>7, ZenonT(60) DEF QuietStep, recover_select, recover_load, recover_commit,
      register_worker, record_heartbeat, heartbeat_ages, heartbeat_loop_dies,
      recover_nothing, claim_list, claim_return, recovered_batch_done, mark_workers_offline,
      read_nothing, new_batch_done, loop_call_fails, crash, interrupt, mark_worker_offline,
      streamVars
  <2>2. \A x \in Worker : tasks'[x] \subseteq tasks[x]
    <3>1. CASE loop_call_fails(w) \/ crash(w) \/ interrupt(w) \/ mark_worker_offline(w)
      BY <1>0, <3>1 DEF loop_call_fails, crash, interrupt, mark_worker_offline, WorkerTypeOK
    <3>2. CASE UNCHANGED tasks
      BY <3>2
    <3>. QED
      BY <1>7, <3>1, <3>2, ZenonT(60) DEF QuietStep, recover_select, recover_load, recover_commit,
        register_worker, record_heartbeat, heartbeat_ages, heartbeat_loop_dies,
        recover_nothing, claim_list, claim_return, recovered_batch_done, mark_workers_offline,
        read_nothing, new_batch_done, loopVars
  <2>. QED
    BY <1>4, <2>1, <2>2
<1>8. ASSUME NEW w \in Worker, NEW M, NEW N, NEW b, TasksOf(N, M, b),
             \A x \in Worker : tasks'[x] \subseteq tasks[x] \cup N
      PROVE  \A x \in Worker : \A t \in tasks'[x] : t.at # "received" =>
               Served(t.msg)' \/ (t.msg \in Message /\ Served(t.msg))
  <2>1. \A x \in Worker : \A t \in tasks'[x] : t.at # "received" => t \in tasks[x]
    BY <1>8, ZenonT(60) DEF TasksOf
  <2>. QED
    BY <1>1, <2>1, ZenonT(60)
<1>9. ASSUME NEW w \in Worker, claim_take(w)
      PROVE  AcknowledgedAreServed'
  <2>1. PICK M, N : /\ N = {NewTask(m, TRUE) : m \in M}
                    /\ Moves(w, "claim", tasks[w] \cup N, stale[w], names[w], {},
                             claimed[w] + Cardinality(M))
    BY <1>0, <1>9, Claim_Moves, ZenonT(60)
  <2>2. TasksOf(N, M, TRUE) /\ \A x \in Worker : tasks'[x] \subseteq tasks[x] \cup N
    <3>1. TasksOf(N, M, TRUE)
      BY <2>1, NewTasksOf, ZenonT(60)
    <3>. QED
      BY <2>1, <3>1, ZenonT(60) DEF Moves
  <2>3. xclaim(w, listed[w])
    BY <1>9, ZenonT(60) DEF claim_take
  <2>4. UNCHANGED cursor /\ \A m \in MessageId : pending'[m] = NoWorker => pending[m] = NoWorker
    BY <1>0, <2>3 DEF xclaim, StreamTypeOK
  <2>. QED
    BY <1>1, <1>2, <1>8, <2>2, <2>4, Served_Frame, ZenonT(60)
<1>10. ASSUME NEW w \in Worker, xreadgroup(w, MaxConcurrency)
       PROVE  \A m \in Message' : m <= cursor' /\ pending'[m] = NoWorker =>
                m \in Message /\ (Served(m) \/ (m <= cursor /\ pending[m] = NoWorker))
  <2> PICK M : M = next_messages(MaxConcurrency)
    OBVIOUS
  <2>1. /\ cursor' = last_read(MaxConcurrency)
        /\ pending' = [m \in MessageId |-> IF m \in M THEN w ELSE pending[m]]
    BY <1>10 DEF xreadgroup
  <2>2. \A m \in MessageId : pending'[m] = NoWorker => pending[m] = NoWorker /\ m \notin M
    BY <1>0, <2>1, ZenonT(60)
  <2>3. \A m \in MessageId : m <= cursor' /\ m \notin M => m <= cursor
    BY <1>0, <2>1 DEF next_messages, StreamTypeOK, MessageId
  <2>. QED
    BY <1>1, <1>2, <2>2, <2>3, ZenonT(60)
<1>11. ASSUME NEW w \in Worker, read_new_tasks(w)
       PROVE  AcknowledgedAreServed'
  <2>1. PICK M, N : /\ M = next_messages(MaxConcurrency) /\ N = {NewTask(m, FALSE) : m \in M}
                    /\ Moves(w, "process", tasks[w] \cup N, stale[w], names[w], listed[w],
                             claimed[w])
    BY <1>0, <1>11, Loop_Moves, ZenonT(60)
  <2>2. TasksOf(N, M, FALSE) /\ \A x \in Worker : tasks'[x] \subseteq tasks[x] \cup N
    <3>1. TasksOf(N, M, FALSE)
      BY <2>1, NewTasksOf, ZenonT(60)
    <3>. QED
      BY <2>1, <3>1, ZenonT(60) DEF Moves
  <2>3. xreadgroup(w, MaxConcurrency)
    BY <1>11, ZenonT(60) DEF read_new_tasks
  <2>. QED
    BY <1>8, <1>10, <2>2, <2>3, Served_Frame, ZenonT(60)
<1>12. ASSUME NEW w \in Worker, read_reply_lost(w)
       PROVE  AcknowledgedAreServed'
  <2>1. xreadgroup(w, MaxConcurrency) /\ \A x \in Worker : tasks'[x] \subseteq tasks[x]
    BY <1>0, <1>12, ZenonT(60) DEF read_reply_lost, WorkerTypeOK
  <2>. QED
    BY <1>1, <1>10, <2>1, Served_Frame, ZenonT(60)
<1>13. ASSUME NEW w \in Worker, NEW t \in tasks[w],
              \/ task_starts(w, t) \/ task_expires(w, t) \/ task_is_refused(w, t)
              \/ execute(w, t) \/ task_finishes(w, t)
       PROVE  AcknowledgedAreServed'
  <2>1. UNCHANGED <<cursor, pending>>
    BY <1>13, ZenonT(60) DEF task_starts, task_expires, task_is_refused, execute, task_finishes,
      streamVars
  <2>2. Served(t.msg)' \/ (t.msg \in Message /\ Served(t.msg))
    <3>1. CASE task_starts(w, t) \/ task_expires(w, t) \/ task_is_refused(w, t)
      BY <3>1, Verdict_Serves, ZenonT(60)
    <3>2. CASE execute(w, t) \/ task_finishes(w, t)
      BY <1>1, <3>2, ZenonT(60) DEF execute, task_finishes
    <3>. QED
      BY <1>13, <3>1, <3>2, ZenonT(60)
  <2>3. \E l : TaskGoes(w, t, l)
    BY <1>0, <1>13, Task_Moves, ZenonT(60)
  <2>4. PICK u : u.msg = t.msg /\ \A x \in Worker : \A y \in tasks'[x] : y \in tasks[x] \/ y = u
    BY <2>3, TaskGoes_Tasks, ZenonT(60)
  <2>5. \A x \in Worker : \A y \in tasks'[x] : y.at # "received" =>
          Served(y.msg)' \/ (y.msg \in Message /\ Served(y.msg))
    BY <1>1, <2>2, <2>4, ZenonT(60)
  <2>. QED
    BY <1>3, <2>1, <2>5, Served_Frame, ZenonT(60)
<1>14. ASSUME NEW w \in Worker, NEW t \in tasks[w], acknowledge(w, t)
       PROVE  AcknowledgedAreServed'
  <2>1. t.at = "ack" /\ UNCHANGED cursor /\ pending' = [pending EXCEPT ![t.msg] = NoWorker]
    BY <1>14, ZenonT(60) DEF acknowledge, xack
  <2>2. \A m \in MessageId : m # t.msg => pending'[m] = pending[m]
    BY <1>0, <2>1, ZenonT(60) DEF StreamTypeOK
  <2>3. Served(t.msg) /\ t.msg \in Message
    BY <1>1, <2>1
  <2>4. \A x \in Worker : tasks'[x] \subseteq tasks[x]
    BY <1>0, <1>14, Task_Moves, ZenonT(60) DEF Moves
  <2>5. \A m \in Message' : m <= cursor' /\ pending'[m] = NoWorker =>
          m \in Message /\ (Served(m) \/ (m <= cursor /\ pending[m] = NoWorker))
    BY <1>1, <1>2, <2>1, <2>2, <2>3
  <2>. QED
    BY <1>1, <2>4, <2>5, Served_Frame, ZenonT(60)
<1>15. ASSUME NEW w \in Worker, NEW t \in tasks[w], Raise(w, t)
       PROVE  AcknowledgedAreServed'
  <2>1. UNCHANGED <<cursor, pending>> /\ tasks[w] \subseteq Task
    BY <1>0, <1>15 DEF Raise, streamVars, WorkerTypeOK
  <2>2. \/ tasks' = [tasks EXCEPT ![w] = Unawaited(tasks[w] \ {t})]
        \/ tasks' = [tasks EXCEPT ![w] = tasks[w] \ {t}]
    BY <1>15, Zenon DEF Raise
  <2>3. \A y \in Unawaited(tasks[w] \ {t}) : \E z \in tasks[w] : y = [z EXCEPT !.awaited = FALSE]
    BY Zenon DEF Unawaited
  <2>4. \A z \in tasks[w] : \A y : y = [z EXCEPT !.awaited = FALSE] => y.msg = z.msg /\ y.at = z.at
    BY <2>1, ZenonT(60) DEF Task
  <2>5. \A x \in Worker : \A y \in tasks'[x] : \E z \in tasks[x] : y.msg = z.msg /\ y.at = z.at
    <3>1. CASE tasks' = [tasks EXCEPT ![w] = Unawaited(tasks[w] \ {t})]
      <4>1. /\ tasks'[w] = Unawaited(tasks[w] \ {t})
            /\ \A x \in Worker \ {w} : tasks'[x] = tasks[x]
        BY <1>0, <3>1, ZenonT(60) DEF WorkerTypeOK
      <4>2. \A y \in tasks'[w] : \E z \in tasks[w] : y.msg = z.msg /\ y.at = z.at
        <5>1. ASSUME NEW y \in tasks'[w]
              PROVE  \E z \in tasks[w] : y.msg = z.msg /\ y.at = z.at
          <6>1. PICK z \in tasks[w] : y = [z EXCEPT !.awaited = FALSE]
            BY <2>3, <4>1, ZenonT(60)
          <6>2. y.msg = z.msg /\ y.at = z.at
            BY <2>4, <6>1
          <6>. QED
            BY <6>2
        <5>. QED
          BY <5>1
      <4>. QED
        BY <4>1, <4>2
    <3>2. CASE tasks' = [tasks EXCEPT ![w] = tasks[w] \ {t}]
      BY <1>0, <3>2, ZenonT(60) DEF WorkerTypeOK
    <3>. QED
      BY <2>2, <3>1, <3>2, ZenonT(60)
  <2>6. \A x \in Worker : \A y \in tasks'[x] : y.at # "received" =>
          Served(y.msg)' \/ (y.msg \in Message /\ Served(y.msg))
    <3>1. ASSUME NEW x \in Worker, NEW y \in tasks'[x], y.at # "received"
          PROVE  y.msg \in Message /\ Served(y.msg)
      <4>1. PICK z \in tasks[x] : y.msg = z.msg /\ y.at = z.at
        BY <2>5, ZenonT(60)
      <4>2. z.msg \in Message /\ Served(z.msg)
        BY <1>1, <3>1, <4>1
      <4>. QED
        BY <4>1, <4>2, ZenonT(60)
    <3>. QED
      BY <3>1, ZenonT(60)
  <2>. QED
    BY <1>3, <2>1, <2>6, Served_Frame, ZenonT(60)
<1>16. ASSUME NEW w \in Worker, NEW t \in tasks[w], TaskStep(w, t) \/ task_call_fails(w, t)
       PROVE  AcknowledgedAreServed'
  BY <1>13, <1>14, <1>15, <1>16, ZenonT(60) DEF TaskStep, task_is_rejected, task_call_fails
<1>17. ASSUME NEW w \in Worker, WorkerStep(w)
       PROVE  AcknowledgedAreServed'
  BY <1>7, <1>9, <1>11, <1>12, <1>16, <1>17, ZenonT(60)
  DEF WorkerStep, LoopStep, WorkerFault, QuietStep
<1>. QED
  BY <1>5, <1>6, <1>17 DEF Next
================================================================================
