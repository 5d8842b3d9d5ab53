------------------------------ MODULE CarryProofs ------------------------------
(***************************************************************************)
(* Lemmas about Platform under the faults a worker pool is built for       *)
(* (CrashesOnly): every step keeps CrashInvariant, as recovery overlooks   *)
(* no running attempt and each has its worker; every step keeps            *)
(* CarryInvariant, as long as no two workers recover the same dead worker  *)
(* at the same time (Undisputed); and what CarryInvariant implies.         *)
(***************************************************************************)
EXTENDS StepFacts

(* More time for every leaf than the default: the proof manager itself     *)
(* takes part of it.                                                       *)
USE SMTT(15), ZenonT(20), SMTT(30), Z3T(30)

--------------------------------------------------------------------------------
(* What the proofs below need of numbers, and of the types of tasks,       *)
(* messages and rows.                                                      *)

(* Two natural numbers. *)
LEMMA NatFacts ==
  ASSUME NEW a \in Nat, NEW b \in Nat
  PROVE  /\ a + b \in Nat /\ a + 0 = a /\ (a < b => b - a \in Nat)
         /\ (a < b \/ b <= a) /\ ~(a < b /\ a >= b) /\ ~(a + 1 <= a)
         /\ (b # 0 => 0 < b)
OBVIOUS

(* What is left of c after a has room for b. *)
LEMMA NatFits ==
  ASSUME NEW a \in Nat, NEW b \in Nat, NEW c \in Nat, a + b < c
  PROVE  a < c /\ b < c - a
OBVIOUS

(* A task is about a message. *)
LEMMA TaskMessageId ==
  ASSUME WorkerTypeOK, NEW w \in Worker, NEW t \in tasks[w]
  PROVE  t.msg \in MessageId
BY DEF WorkerTypeOK, Task

(* The cursor is a number. *)
LEMMA CursorIsNat ==
  ASSUME StreamTypeOK(AttemptRow)
  PROVE  cursor \in Nat
BY DEF StreamTypeOK

(* Every invocation may have a first attempt. *)
LEMMA FirstRow ==
  ASSUME NEW i \in Invocation
  PROVE  1 \in AttemptNumber /\ <<i, 1>> \in AttemptRow
BY StoreAssumption DEF AttemptNumber, AttemptRow

--------------------------------------------------------------------------------
(* Recovery overlooks no running attempt. *)

(* The attempt rows of a selection. *)
RowsOf(S) == {v.row : v \in S}

(* No attempt of a worker in s runs, but those selected before the commit. *)
Settled(p, s, L) ==
  \A r \in AttemptRow :
    attempt_status[r] = "RUNNING" /\ attempt_worker[r] \in s => p \in {"load", "commit"} /\ r \in L

(* The row of a selected attempt. *)
LEMMA RowsOfHas ==
  ASSUME NEW S, NEW v \in S
  PROVE  v.row \in RowsOf(S)
BY ZenonT(60) DEF RowsOf

(* What RecoverySettled says of the attempts. *)
LEMMA SettledParts ==
  ASSUME CrashInvariant, NEW w \in Worker
  PROVE  /\ Settled(pc[w], stale[w], RowsOf(lost[w]))
         /\ pc[w] \in {"new", "top", "read", "down"} => stale[w] = {}
<1>1. RecoverySettled(w)
  BY CrashTypes, ZenonT(60)
<1>. QED
  BY <1>1 DEF RecoverySettled, Settled, RowsOf, InRecovery, find_running_attempts

(* Enough to establish RecoverySettled after a step. *)
LEMMA Settled_Next ==
  ASSUME NEW w \in Worker, NEW p, NEW s, NEW L,
         pc'[w] = p, stale'[w] = s, worker_status'[w] = "OFFLINE" => p = "down",
         p # "stopping", p \in {"new", "top", "read", "down"} => s = {},
         p \in {"load", "commit"} => L \subseteq RowsOf(lost'[w]), Settled(p, s, L)'
  PROVE  RecoverySettled(w)'
<1>1. IF InRecovery(w)'
      THEN find_running_attempts(stale[w])' \subseteq {v.row : v \in lost'[w]}
      ELSE find_running_attempts(stale[w])' = {}
  <2>1. \A r \in find_running_attempts(stale[w])' : p \in {"load", "commit"} /\ r \in RowsOf(lost'[w])
    BY DEF Settled, find_running_attempts
  <2>. QED
    BY <2>1 DEF InRecovery, RowsOf
<1>. QED
  BY <1>1 DEF RecoverySettled

(* Only dead workers become OFFLINE. *)
LEMMA OnlyDeadAreOffline ==
  ASSUME CrashesOnly, CrashInvariant, [Next]_vars, NEW x \in Worker, worker_status'[x] = "OFFLINE"
  PROVE  pc'[x] = "down"
<1>1. CASE UNCHANGED worker_status
  <2>1. pc[x] = "down"
    BY <1>1, CrashTypes, ZenonT(60) DEF RecoverySettled
  <2>. QED
    BY <2>1, DownStays, ZenonT(60)
<1>2. ASSUME NEW w \in Worker, Turn(w)
      PROVE  pc'[x] = "down"
  <2>1. pc[x] = "down"
    <3>1. w # x
      BY <1>2, Turn_Status, ZenonT(60)
    <3>2. worker_status'[x] = worker_status[x] \/ pc[x] = "down"
      BY <1>2, <3>1, Turn_Status
    <3>. QED
      BY <3>2, CrashTypes, ZenonT(60) DEF RecoverySettled
  <2>. QED
    BY <2>1, DownStays, ZenonT(60)
<1>3. ASSUME NEW w \in Worker, claim_take(w) \/ read_new_tasks(w) \/ crash(w)
      PROVE  UNCHANGED worker_status
  BY <1>3, ZenonT(60) DEF claim_take, read_new_tasks, crash, rowVars
<1>4. ASSUME NEW w \in Worker, NEW t \in tasks[w],
             \/ task_starts(w, t) \/ task_expires(w, t) \/ task_is_refused(w, t)
             \/ execute(w, t) \/ task_finishes(w, t) \/ acknowledge(w, t)
      PROVE  UNCHANGED worker_status
  BY <1>4, ZenonT(60) DEF task_starts, task_expires, task_is_refused, execute, task_finishes,
    acknowledge, rowVars
<1>5. Outer => UNCHANGED worker_status
  BY DEF Outer
<1>. QED
  BY <1>1, <1>2, <1>3, <1>4, <1>5, CrashSteps, ZenonT(60)

(* What other workers do leaves the recovery of worker x settled. *)
LEMMA Others_Settled ==
  ASSUME CrashesOnly, CrashInvariant, [Next]_vars, NEW x \in Worker, LoopRests(x)
  PROVE  RecoverySettled(x)'
<1> PICK p, s, L : p = pc[x] /\ s = stale[x] /\ L = RowsOf(lost[x])
  OBVIOUS
<1>1. /\ Settled(p, s, L) /\ (p \in {"new", "top", "read", "down"} => s = {})
      /\ p # "stopping"
  BY SettledParts, CrashTypes, ZenonT(60) DEF RecoverySettled
<1>2. s \in SUBSET Worker /\ \A v \in s : pc[v] = "down"
  BY CrashTypes DEF WorkerTypeOK, OnlyDeadAreStale
<1>3. Settled(p, s, L)'
  BY <1>1, <1>2, CrashTypes, NoneRevived, ZenonT(60) DEF Settled
<1>4. pc'[x] = p /\ stale'[x] = s /\ L \subseteq RowsOf(lost'[x])
  BY ZenonT(60) DEF LoopRests
<1>5. worker_status'[x] = "OFFLINE" => p = "down"
  BY <1>4, OnlyDeadAreOffline, ZenonT(60)
<1>. QED
  BY <1>1, <1>3, <1>4, <1>5, Settled_Next, ZenonT(60)

(* recover_select selects every running attempt of the stale workers. *)
LEMMA recover_select_Settled ==
  ASSUME CrashInvariant, NEW w \in Worker, recover_select(w)
  PROVE  RecoverySettled(w)'
<1>0. WorkerTypeOK
  BY CrashTypes
<1> PICK s, L : s = find_stale_workers /\ L = find_running_attempts(s)
  OBVIOUS
<1>1. pc'[w] = "load" /\ stale'[w] = s
  BY <1>0, Recover_Moves, ZenonT(60) DEF Moves
<1>2. UNCHANGED <<attempt_status, attempt_worker>>
  BY DEF recover_select, storeVars
<1>3. Settled("load", s, L)'
  BY <1>2 DEF Settled, find_running_attempts
<1>4. lost'[w] = {[row |-> r, exhausted |-> FALSE] : r \in L}
  BY <1>0 DEF recover_select, WorkerTypeOK
<1>5. ASSUME NEW r \in L
      PROVE  r \in RowsOf(lost'[w])
  <2>1. PICK v : v = [row |-> r, exhausted |-> FALSE]
    BY ZenonT(60)
  <2>2. v \in lost'[w]
    BY <1>4, <2>1, ZenonT(60)
  <2>3. v.row = r
    BY <2>1
  <2>. QED
    BY <2>2, <2>3, RowsOfHas
<1>6. worker_status'[w] # "OFFLINE"
  BY Turn_Status, ZenonT(60) DEF Turn
<1>. QED
  BY <1>1, <1>3, <1>5, <1>6, Settled_Next

(* recover_load drops none of them: each is the last one of its            *)
(* invocation, which runs.                                                 *)
LEMMA recover_load_Settled ==
  ASSUME CrashInvariant, NEW w \in Worker, recover_load(w)
  PROVE  RecoverySettled(w)'
<1>0. WorkerTypeOK /\ OwnershipInvariant
  BY CrashTypes
<1> PICK R, s : R = RowsOf(lost[w]) /\ s = stale[w]
  OBVIOUS
<1>1. pc'[w] = "commit" /\ stale'[w] = s
  BY <1>0, Recover_Moves, ZenonT(60) DEF Moves
<1>2. pc[w] = "load" /\ UNCHANGED <<attempt_status, attempt_worker>>
  BY DEF recover_load, storeVars
<1>3. Settled("commit", s, R)'
  BY <1>2, SettledParts, ZenonT(60) DEF Settled
<1>4. lost'[w] = lost_attempts(R)
  BY <1>0 DEF recover_load, WorkerTypeOK, RowsOf
<1>5. \A r \in R : /\ r \in AttemptRow /\ status[r[1]] = "RUNNING"
                   /\ r[2] = attempt_count[r[1]]
  <2>1. ASSUME NEW v \in lost[w]
        PROVE  /\ v.row \in AttemptRow /\ status[v.row[1]] = "RUNNING"
               /\ v.row[2] = attempt_count[v.row[1]]
    <3>1. v.row \in AttemptRow
      BY <1>0 DEF WorkerTypeOK
    <3>2. attempt_status[v.row] = "RUNNING"
      BY <1>0, <1>2, ZenonT(60) DEF OwnershipInvariant, RecoveryIsolated, InRecovery
    <3> PICK r \in AttemptRow : r = v.row
      BY <3>1
    <3>3. r[1] \in Invocation /\ r[2] \in AttemptNumber /\ r = <<r[1], r[2]>>
      BY RowParts
    <3>4. status[r[1]] = "RUNNING" /\ r[2] = attempt_count[r[1]]
      BY <1>0, <3>2, <3>3, ZenonT(60) DEF OwnershipInvariant, RunningAttemptIsLast
    <3>. QED
      BY <3>1, <3>4
  <2>. QED
    BY <2>1, ZenonT(60) DEF RowsOf
<1>6. ASSUME NEW r \in R
      PROVE  r \in RowsOf(lost'[w])
  <2>1. r \in {x \in R : /\ status[x[1]] = "RUNNING"
                         /\ \A y \in R : y[1] = x[1] => x[2] <= y[2]}
    <3>1. r[2] \in Nat
      BY <1>5, RowParts DEF AttemptNumber
    <3>. QED
      BY <1>5, <3>1
  <2>2. PICK v : v = [row |-> r, exhausted |-> attempt_count[r[1]] >= MaxAttempts]
    BY ZenonT(60)
  <2>3. v \in lost'[w]
    BY <1>4, <2>1, <2>2, ZenonT(60) DEF lost_attempts
  <2>4. v.row = r
    BY <2>2
  <2>. QED
    BY <2>3, <2>4, RowsOfHas
<1>7. worker_status'[w] # "OFFLINE"
  BY Turn_Status, ZenonT(60) DEF Turn
<1>. QED
  BY <1>1, <1>3, <1>6, <1>7, Settled_Next

(* recover_commit ends every selected attempt. *)
LEMMA recover_commit_Settled ==
  ASSUME CrashInvariant, NEW w \in Worker, recover_commit(w)
  PROVE  RecoverySettled(w)'
<1>0. WorkerTypeOK
  BY CrashTypes
<1> PICK R, s : R = RowsOf(lost[w]) /\ s = stale[w]
  OBVIOUS
<1>1. pc'[w] = "claim" /\ stale'[w] = s
  BY <1>0, Recover_Moves, ZenonT(60) DEF Moves
<1>2. UNCHANGED attempt_worker
  BY DEF recover_commit, write_lost_attempts
<1>3. attempt_status' =
        [r \in AttemptRow |-> IF \E v \in lost[w] : v.row = r THEN "FAILED" ELSE attempt_status[r]]
  BY DEF recover_commit, write_lost_attempts
<1>4. \A r \in R : \E v \in lost[w] : v.row = r
  BY ZenonT(60) DEF RowsOf
<1>5. Settled("claim", s, {})'
  BY <1>2, <1>3, <1>4, SettledParts, ZenonT(60) DEF Settled
<1>6. worker_status'[w] # "OFFLINE"
  BY Turn_Status, ZenonT(60) DEF Turn
<1> PICK L : L = {}
  BY ZenonT(60)
<1>. QED
  BY <1>1, <1>5, <1>6, Settled_Next

(* A step of the main loop leaves its own recovery settled. *)
LEMMA Turn_Settled ==
  ASSUME CrashInvariant, NEW w \in Worker, Turn(w)
  PROVE  RecoverySettled(w)'
<1>0. WorkerTypeOK
  BY CrashTypes
<1>1. /\ Settled(pc[w], stale[w], RowsOf(lost[w]))
      /\ pc[w] \in {"new", "top", "read", "down"} => stale[w] = {}
  BY SettledParts, ZenonT(60)
<1>2. worker_status'[w] # "OFFLINE" /\ pc[w] \notin {"down", "stopping"}
  BY <1>0, Turn_Status, TurnFacts, ZenonT(60)
<1>3. ASSUME NEW p, NEW T, NEW s, NEW n, NEW l, NEW c, Moves(w, p, T, s, n, l, c), Settled(p, s, {}),
             p # "stopping", p \in {"new", "top", "read", "down"} => s = {},
             UNCHANGED <<attempt_status, attempt_worker>>
      PROVE  RecoverySettled(w)'
  <2>1. pc'[w] = p /\ stale'[w] = s
    BY <1>3 DEF Moves
  <2>2. Settled(p, s, {})'
    BY <1>3 DEF Settled
  <2> PICK L : L = {}
    BY ZenonT(60)
  <2>. QED
    BY <1>2, <1>3, <2>1, <2>2, Settled_Next
<1>4. ~recover_commit(w) => UNCHANGED <<attempt_status, attempt_worker>>
  BY ZenonT(60) DEF Turn, register_worker, record_heartbeat, recover_select,
    recover_nothing, recover_load, claim_list, claim_return, recovered_batch_done,
    mark_workers_offline, read_nothing, new_batch_done, storeVars
<1>5. CASE record_heartbeat(w)
  <2> PICK p, s, L : p = pc[w] /\ s = stale[w] /\ L = RowsOf(lost[w])
    OBVIOUS
  <2>1. pc'[w] = p /\ stale'[w] = s
    BY <1>0, <1>5, Loop_Moves, ZenonT(60) DEF Rests, Moves
  <2>2. lost'[w] = lost[w] /\ UNCHANGED <<attempt_status, attempt_worker>>
    BY <1>5, ZenonT(60) DEF record_heartbeat, loopVars, storeVars
  <2>3. Settled(p, s, L)' /\ L \subseteq RowsOf(lost'[w])
    BY <1>1, <2>2, ZenonT(60) DEF Settled
  <2>. QED
    BY <1>1, <1>2, <2>1, <2>3, Settled_Next, ZenonT(60)
<1>6. CASE register_worker(w) \/ recover_nothing(w) \/ read_nothing(w) \/ new_batch_done(w)
  <2>1. PICK p \in {"top", "read"} :
          Moves(w, p, tasks[w], stale[w], names[w], listed[w], claimed[w])
    BY <1>0, <1>6, Loop_Moves, ZenonT(60)
  <2>2. stale[w] = {} /\ ~recover_commit(w)
    BY <1>1, <1>6 DEF register_worker, recover_nothing, read_nothing, new_batch_done, recover_commit
  <2>3. Settled(p, stale[w], {})
    BY <2>2, ZenonT(60) DEF Settled
  <2>. QED
    BY <1>3, <1>4, <2>1, <2>2, <2>3
<1>7. CASE mark_workers_offline(w)
  <2>1. PICK p \in {"top", "read"} : Moves(w, p, tasks[w], {}, {}, {}, 0)
    BY <1>0, <1>7, Loop_Moves, ZenonT(60)
  <2>2. ~recover_commit(w)
    BY <1>7 DEF mark_workers_offline, recover_commit
  <2>3. Settled(p, {}, {})
    BY DEF Settled
  <2>. QED
    BY <1>3, <1>4, <2>1, <2>2, <2>3
<1>8. CASE claim_list(w) \/ claim_return(w) \/ recovered_batch_done(w)
  <2>1. PICK p \in {"claim", "xclaim", "offline", "process"} :
          \E n, l, c : Moves(w, p, tasks[w], stale[w], n, l, c)
    <3>1. CASE claim_list(w)
      <4>1. PICK M, n : Moves(w, IF M = {} THEN "claim" ELSE "xclaim", tasks[w], stale[w], n, M,
                              claimed[w])
        BY <1>0, <3>1, Claim_Moves, ZenonT(60)
      <4> PICK p \in {"claim", "xclaim"} : p = IF M = {} THEN "claim" ELSE "xclaim"
        OBVIOUS
      <4>2. Moves(w, p, tasks[w], stale[w], n, M, claimed[w])
        BY <4>1, ZenonT(60)
      <4>. QED
        BY <4>2, ZenonT(60)
    <3>2. CASE claim_return(w)
      <4> PICK p \in {"offline", "process"} : p = IF claimed[w] = 0 THEN "offline" ELSE "process"
        OBVIOUS
      <4>1. Moves(w, p, tasks[w], stale[w], names[w], listed[w], claimed[w])
        BY <1>0, <3>2, Claim_Moves, ZenonT(60)
      <4>. QED
        BY <4>1, ZenonT(60)
    <3>3. CASE recovered_batch_done(w)
      <4> PICK p \in {"offline", "claim"} :
            p = IF claimed[w] < claim_count THEN "offline" ELSE "claim"
        OBVIOUS
      <4>1. Moves(w, p, tasks[w], stale[w], stale[w], listed[w], 0)
        BY <1>0, <3>3, Claim_Moves, ZenonT(60)
      <4>. QED
        BY <4>1, ZenonT(60)
    <3>. QED
      BY <1>8, <3>1, <3>2, <3>3, ZenonT(60)
  <2>2. pc[w] \in {"claim", "process"} /\ ~recover_commit(w)
    BY <1>8, ZenonT(60) DEF claim_list, claim_return, recovered_batch_done, recover_commit
  <2>3. Settled(p, stale[w], {})
    BY <1>1, <2>2, ZenonT(60) DEF Settled
  <2>. QED
    BY <1>3, <1>4, <2>1, <2>2, <2>3
<1>. QED
  BY <1>5, <1>6, <1>7, <1>8, recover_select_Settled, recover_load_Settled, recover_commit_Settled,
    ZenonT(60) DEF Turn

(* Every recovery stays settled. *)
LEMMA Settled_Step ==
  ASSUME CrashesOnly, CrashInvariant, [Next]_vars, NEW x \in Worker
  PROVE  RecoverySettled(x)'
<1>0. WorkerTypeOK
  BY CrashTypes
<1>1. CASE claim_take(x)
  <2> PICK s : s = stale[x]
    OBVIOUS
  <2>1. pc[x] = "xclaim" /\ pc'[x] = "claim" /\ stale'[x] = s
    BY <1>0, <1>1, Claim_Moves, ZenonT(60) DEF Moves, claim_take
  <2>2. Settled("claim", s, {})
    BY <2>1, SettledParts, ZenonT(60) DEF Settled
  <2>3. s \in SUBSET Worker /\ \A v \in s : pc[v] = "down"
    BY CrashTypes DEF WorkerTypeOK, OnlyDeadAreStale
  <2>4. Settled("claim", s, {})'
    BY <2>2, <2>3, CrashTypes, NoneRevived, ZenonT(60) DEF Settled
  <2>5. worker_status'[x] # "OFFLINE"
    BY <2>1, OnlyDeadAreOffline
  <2> PICK L : L = {}
    BY ZenonT(60)
  <2>. QED
    BY <2>1, <2>4, <2>5, Settled_Next
<1>2. CASE read_new_tasks(x) \/ crash(x)
  <2>1. pc'[x] \in {"process", "down"} /\ stale'[x] = {}
    <3>1. CASE crash(x)
      BY <1>0, <3>1 DEF crash, EndIteration, WorkerTypeOK
    <3>2. CASE read_new_tasks(x)
      <4>1. stale[x] = {}
        BY <3>2, SettledParts DEF read_new_tasks
      <4>. QED
        BY <1>0, <3>2, <4>1, ZenonT(60) DEF read_new_tasks, WorkerTypeOK
    <3>. QED
      BY <1>2, <3>1, <3>2
  <2>2. worker_status'[x] = "OFFLINE" => pc'[x] = "down"
    BY OnlyDeadAreOffline, ZenonT(60)
  <2> PICK p, s : p = pc'[x] /\ s = {}
    BY ZenonT(60)
  <2>3. Settled(p, s, {})'
    BY DEF Settled
  <2> PICK L : L = {}
    BY ZenonT(60)
  <2>. QED
    BY <2>1, <2>2, <2>3, Settled_Next
<1>. QED
  BY <1>1, <1>2, LoopMoves, Others_Settled, Turn_Settled, ZenonT(60)

--------------------------------------------------------------------------------
(* Every running attempt has its worker. *)

(* The worker of the last attempt of i executes it, or is dead with a row  *)
(* that recovery will select.                                              *)
HasOwner(i) ==
  \E w \in Worker :
    /\ attempt_worker[<<i, attempt_count[i]>>] = w
    /\ \/ \E t \in Executing(w, i) : t.attempt = attempt_count[i]
       \/ ~Up(w) /\ worker_status[w] = "ONLINE"

(* An invocation starts to run by mark_running of one of its tasks. *)
LEMMA NewRunnerStarts ==
  ASSUME OwnershipInvariant, [Next]_vars, NEW i \in Invocation,
         status[i] # "RUNNING", status'[i] = "RUNNING"
  PROVE  \E w \in Worker : \E t \in tasks[w] :
           /\ task_starts(w, t) /\ InvocationOf(t) = i
           /\ attempt_count[i] + 1 \in AttemptNumber
           /\ attempt_count'[i] = attempt_count[i] + 1
           /\ attempt_worker'[<<i, attempt_count[i] + 1>>] = w
<1>0. StoreTypeOK
  BY OwnershipTypes
<1>1. PICK w \in Worker : \E t \in tasks[w] : task_starts(w, t)
  <2>1. CASE RowsUnchanged
    BY <2>1 DEF RowsUnchanged
  <2>2. ASSUME NEW j \in Invocation, create_invocation(j)
        PROVE  FALSE
    BY <1>0, <2>2 DEF create_invocation, StoreTypeOK
  <2>3. ASSUME NEW w \in Worker, recover_commit(w)
        PROVE  FALSE
    BY <1>0, <2>3, recover_commit_Effect, ZenonT(60)
  <2>4. ASSUME NEW w \in Worker, NEW t \in tasks[w], task_expires(w, t)
        PROVE  FALSE
    BY <1>0, <2>4 DEF task_expires, mark_expired, StoreTypeOK
  <2>5. ASSUME NEW w \in Worker, NEW t \in tasks[w], task_finishes(w, t)
        PROVE  FALSE
    <3>1. InvocationOf(t) = i
      BY <1>0, <2>5 DEF task_finishes, mark_finished, StoreTypeOK
    <3>. QED
      BY <2>5, <3>1 DEF task_finishes, can_complete
  <2>. QED
    BY <2>1, <2>2, <2>3, <2>4, <2>5, RowChanges, ZenonT(60)
<1>2. PICK t \in tasks[w] : task_starts(w, t)
  BY <1>1, ZenonT(60)
<1>3. PICK j \in Invocation, n \in AttemptNumber :
        /\ j = InvocationOf(t)
        /\ n = attempt_count[j] + 1
        /\ status[j] \in {"QUEUED", "RETRYING"}
        /\ status' = [status EXCEPT ![j] = "RUNNING"]
        /\ attempt_count' = [attempt_count EXCEPT ![j] = n]
        /\ attempt_status' = [attempt_status EXCEPT ![<<j, n>>] = "RUNNING"]
        /\ attempt_worker' = [attempt_worker EXCEPT ![<<j, n>>] = w]
        /\ attempt_status[<<j, n>>] = "NONE"
        /\ UNCHANGED completed_at
  BY <1>2, task_starts_Effect, ZenonT(60)
<1>4. j = i
  BY <1>0, <1>3, ZenonT(60) DEF StoreTypeOK
<1>5. attempt_count'[i] = n /\ attempt_worker'[<<i, n>>] = w
  BY <1>0, <1>3, <1>4, ZenonT(60) DEF StoreTypeOK, AttemptRow
<1>. QED
  BY <1>2, <1>3, <1>4, <1>5, ZenonT(60)

(* The worker that starts an attempt owns it. *)
LEMMA NewOwner ==
  ASSUME OwnershipInvariant, [Next]_vars, NEW i \in Invocation,
         status[i] # "RUNNING", status'[i] = "RUNNING"
  PROVE  HasOwner(i)'
<1>1. PICK w \in Worker : \E t \in tasks[w] :
        /\ task_starts(w, t) /\ InvocationOf(t) = i
        /\ attempt_count'[i] = attempt_count[i] + 1
        /\ attempt_worker'[<<i, attempt_count[i] + 1>>] = w
  BY NewRunnerStarts, ZenonT(60)
<1>2. PICK t \in tasks[w] :
        /\ task_starts(w, t) /\ InvocationOf(t) = i
        /\ attempt_count'[i] = attempt_count[i] + 1
        /\ attempt_worker'[<<i, attempt_count[i] + 1>>] = w
  BY <1>1, ZenonT(60)
<1> PICK n : n = attempt_count[i] + 1
  OBVIOUS
<1>3. WorkerTypeOK /\ t \in Task
  BY OwnershipTypes DEF WorkerTypeOK
<1> PICK u : u = [t EXCEPT !.at = "running", !.attempt = n]
  OBVIOUS
<1>4. u.at = "running" /\ u.attempt = n /\ u.msg = t.msg
  BY <1>3 DEF Task
<1>5. tasks' = [tasks EXCEPT ![w] = (tasks[w] \ {t}) \cup {u}] /\ UNCHANGED stream
  BY <1>2, ZenonT(60) DEF task_starts, Becomes, streamVars
<1>6. u \in tasks'[w]
  BY <1>3, <1>5 DEF WorkerTypeOK
<1>7. InvocationOf(u)' = i
  BY <1>2, <1>4, <1>5, ZenonT(60) DEF InvocationOf
<1>8. u \in Executing(w, i)'
  BY <1>4, <1>6, <1>7, ZenonT(60) DEF Executing
<1>. QED
  BY <1>2, <1>4, <1>8, ZenonT(60) DEF HasOwner

(* No step numbers a running invocation anew. *)
LEMMA RunningCountStays ==
  ASSUME OwnershipInvariant, [Next]_vars, NEW i \in Invocation,
         status[i] = "RUNNING", status'[i] = "RUNNING"
  PROVE  attempt_count'[i] = attempt_count[i]
<1>1. AllowedStep(i)
  BY Step_Allowed
<1>. QED
  BY <1>1 DEF AllowedStep, Contract!Goes, Contract!Accept, Contract!Start, Contract!Retry,
    Contract!Finish, Contract!Expire, Contract!Stays

(* A running invocation keeps a number. *)
LEMMA Numbered_Step ==
  ASSUME OwnershipInvariant, RunningIsNumbered, [Next]_vars
  PROVE  RunningIsNumbered'
<1> SUFFICES ASSUME NEW i \in Invocation, status'[i] = "RUNNING"
             PROVE  attempt_count'[i] \in AttemptNumber
  BY DEF RunningIsNumbered, AttemptNumber
<1>1. CASE status[i] # "RUNNING"
  BY <1>1, NewRunnerStarts, ZenonT(60)
<1>2. CASE status[i] = "RUNNING"
  BY <1>2, RunningCountStays, ZenonT(60) DEF RunningIsNumbered
<1>. QED
  BY <1>1, <1>2

(* The owner of a running attempt keeps it, dies with it, or had died with *)
(* it; it is not marked OFFLINE before recovery has ended the attempt.     *)
LEMMA KeptOwner ==
  ASSUME CrashesOnly, CrashInvariant, [Next]_vars, NEW i \in Invocation,
         status[i] = "RUNNING", status'[i] = "RUNNING"
  PROVE  HasOwner(i)'
<1>0. /\ WorkerTypeOK /\ OnlyDeadAreStale /\ LedgerInvariant /\ OwnershipInvariant
  BY CrashTypes, ZenonT(60)
<1>1. /\ attempt_count'[i] = attempt_count[i] /\ attempt_count[i] \in AttemptNumber
      /\ HasOwner(i)
  <2>1. attempt_count'[i] = attempt_count[i]
    BY <1>0, RunningCountStays, ZenonT(60)
  <2>. QED
    BY <2>1 DEF CrashInvariant, RunningIsNumbered, RunningIsOwned, HasOwner
<1> PICK n \in AttemptNumber : n = attempt_count[i]
  BY <1>1
<1> PICK r \in AttemptRow : r = <<i, n>>
  BY ZenonT(60) DEF AttemptRow
<1>2. attempt_status[r] = "RUNNING"
  BY <1>0, ZenonT(60) DEF OwnershipInvariant, RunningAttemptIsLast
<1>3. PICK w \in Worker :
        /\ attempt_worker[r] = w
        /\ \/ \E t \in Executing(w, i) : t.attempt = n
           \/ ~Up(w) /\ worker_status[w] = "ONLINE"
  BY <1>1, ZenonT(60) DEF HasOwner
<1>4. attempt_worker'[r] = w
  BY <1>0, <1>2, <1>3, AttemptWorkerStays, ZenonT(60)
<1>5. ASSUME \/ \E u \in tasks'[w] : /\ u.at \in {"running", "executed"} /\ u.attempt = n
                                     /\ InvocationOf(u)' = i
             \/ pc'[w] = "down" /\ worker_status'[w] = "ONLINE"
      PROVE  HasOwner(i)'
  BY <1>1, <1>4, <1>5 DEF HasOwner, Executing, Up
<1>6. ASSUME NEW t \in tasks[w], t.at \in {"running", "executed"}, t.attempt = n,
             InvocationOf(t) = i
      PROVE  HasOwner(i)'
  <2>1. Up(w) /\ t.msg \in Message /\ stream'[t.msg][1] = i
    <3>1. Up(w) /\ t.msg \in Message
      BY <1>0, TaskMessage DEF OnlyDeadAreStale
    <3>. QED
      BY <1>0, <1>6, <3>1, StreamKept, ZenonT(60) DEF InvocationOf
  <2>2. CASE t \in tasks'[w]
    <3>1. InvocationOf(t)' = i
      BY <2>1 DEF InvocationOf
    <3>. QED
      BY <1>5, <1>6, <2>2, <3>1, ZenonT(60)
  <2>3. ASSUME NEW x \in Worker, crash(x)
        PROVE  HasOwner(i)'
    <3>1. Moves(x, "down", {}, {}, {}, {}, 0) /\ UNCHANGED worker_status
      BY <1>0, <2>3, Loop_Moves, ZenonT(60) DEF crash, rowVars
    <3>2. CASE x = w
      BY <1>5, <2>1, <3>1, <3>2, LiveIsOnline, ZenonT(60) DEF Moves
    <3>3. CASE x # w
      BY <2>2, <3>1, <3>3, ZenonT(60) DEF Moves
    <3>. QED
      BY <3>2, <3>3
  <2>4. ASSUME NEW x \in Worker, NEW y \in tasks[x], y # t \/ x # w,
               \/ task_starts(x, y) \/ task_expires(x, y) \/ task_is_refused(x, y)
               \/ execute(x, y) \/ task_finishes(x, y) \/ acknowledge(x, y)
        PROVE  t \in tasks'[w]
    <3>1. /\ tasks[x] \ {y} \subseteq tasks'[x]
          /\ \A z \in Worker \ {x} : tasks'[z] = tasks[z]
      <4>1. CASE acknowledge(x, y)
        BY <1>0, <4>1, Task_Moves, ZenonT(60) DEF Moves
      <4>2. CASE ~acknowledge(x, y)
        <5>1. \E l : TaskGoes(x, y, l)
          BY <1>0, <2>4, <4>2, Task_Moves, ZenonT(60)
        <5>. QED
          BY <5>1, ZenonT(60) DEF TaskGoes, Moves
      <4>. QED
        BY <4>1, <4>2
    <3>. QED
      BY <2>4, <3>1, ZenonT(60)
  <2>5. ~task_starts(w, t) /\ ~task_expires(w, t) /\ ~task_is_refused(w, t) /\ ~acknowledge(w, t)
    BY <1>6 DEF task_starts, task_expires, task_is_refused, acknowledge
  <2>6. ~task_finishes(w, t)
    <3>1. ASSUME task_finishes(w, t)
          PROVE  FALSE
      BY <1>0, <1>6, <3>1, task_finishes_Rows, ZenonT(60)
    <3>. QED
      BY <3>1
  <2>7. CASE execute(w, t)
    <3>1. PICK result : Becomes(w, t, [t EXCEPT !.at = "executed", !.result = result])
      BY <2>7, ZenonT(60) DEF execute
    <3> PICK u : u = [t EXCEPT !.at = "executed", !.result = result]
      OBVIOUS
    <3>2. t \in Task
      BY <1>0 DEF WorkerTypeOK
    <3>3. u.at = "executed" /\ u.attempt = n /\ u.msg = t.msg
      BY <1>6, <3>2 DEF Task
    <3>4. u \in tasks'[w]
      BY <1>0, <3>1 DEF Becomes, WorkerTypeOK
    <3>5. InvocationOf(u)' = i
      BY <2>1, <3>3 DEF InvocationOf
    <3>. QED
      BY <1>5, <3>3, <3>4, <3>5, ZenonT(60)
  <2>8. ASSUME NEW x \in Worker, Turn(x) \/ claim_take(x) \/ read_new_tasks(x)
        PROVE  t \in tasks'[w]
    <3>1. CASE Turn(x)
      BY <1>0, <3>1, TurnFacts, ZenonT(60)
    <3>2. CASE claim_take(x)
      <4>1. PICK N : tasks' = [tasks EXCEPT ![x] = tasks[x] \cup N]
        BY <3>2, ZenonT(60) DEF claim_take
      <4>. QED
        BY <1>0, <4>1 DEF WorkerTypeOK
    <3>3. CASE read_new_tasks(x)
      <4>1. PICK N : tasks' = [tasks EXCEPT ![x] = tasks[x] \cup N]
        BY <3>3, ZenonT(60) DEF read_new_tasks
      <4>. QED
        BY <1>0, <4>1 DEF WorkerTypeOK
    <3>. QED
      BY <2>8, <3>1, <3>2, <3>3
  <2>9. Outer => t \in tasks'[w]
    BY ZenonT(60) DEF Outer
  <2>. QED
    BY <2>2, <2>3, <2>4, <2>5, <2>6, <2>7, <2>8, <2>9, CrashSteps, ZenonT(60)
<1>7. CASE ~Up(w) /\ worker_status[w] = "ONLINE"
  <2>1. pc[w] = "down"
    BY <1>0, <1>7, ZenonT(60) DEF OnlyDeadAreStale, Up
  <2>2. pc'[w] = "down"
    BY <2>1, DownStays
  <2>3. worker_status'[w] = worker_status[w]
    <3>1. ASSUME NEW x \in Worker, Turn(x)
          PROVE  worker_status'[w] = worker_status[w]
      <4>1. x # w
        BY <1>0, <2>1, <3>1, TurnFacts, ZenonT(60)
      <4>2. ASSUME w \in stale[x], pc[x] = "offline"
            PROVE  FALSE
        BY <1>2, <1>3, <4>2, SettledParts, ZenonT(60) DEF Settled
      <4>. QED
        BY <3>1, <4>1, <4>2, Turn_Status, ZenonT(60)
    <3>2. ASSUME NEW x \in Worker, claim_take(x) \/ read_new_tasks(x) \/ crash(x)
          PROVE  UNCHANGED worker_status
      BY <3>2, ZenonT(60) DEF claim_take, read_new_tasks, crash, rowVars
    <3>3. ASSUME NEW x \in Worker, NEW t \in tasks[x],
                 \/ task_starts(x, t) \/ task_expires(x, t) \/ task_is_refused(x, t)
                 \/ execute(x, t) \/ task_finishes(x, t) \/ acknowledge(x, t)
          PROVE  UNCHANGED worker_status
      BY <3>3, ZenonT(60) DEF task_starts, task_expires, task_is_refused, execute, task_finishes,
        acknowledge, rowVars
    <3>4. Outer => UNCHANGED worker_status
      BY DEF Outer
    <3>. QED
      BY <3>1, <3>2, <3>3, <3>4, CrashSteps, ZenonT(60)
  <2>. QED
    BY <1>5, <1>7, <2>2, <2>3, ZenonT(60)
<1>. QED
  BY <1>3, <1>6, <1>7, ZenonT(60) DEF Executing

(* Every running attempt keeps an owner. *)
LEMMA Owned_Step ==
  ASSUME CrashesOnly, CrashInvariant, [Next]_vars
  PROVE  RunningIsOwned'
<1> SUFFICES ASSUME NEW i \in Invocation, status'[i] = "RUNNING"
             PROVE  HasOwner(i)'
  BY ZenonT(60) DEF RunningIsOwned, HasOwner
<1>1. CASE status[i] # "RUNNING"
  BY <1>1, CrashTypes, NewOwner, ZenonT(60)
<1>2. CASE status[i] = "RUNNING"
  BY <1>2, KeptOwner, ZenonT(60)
<1>. QED
  BY <1>1, <1>2, ZenonT(60)

--------------------------------------------------------------------------------
(* Recovery leaves nothing behind. *)

(* RecoveryComplete for a loop at p with the given local variables. *)
Drained(p, s, n, l, c) ==
  /\ n \subseteq s
  /\ \A m \in l : pending[m] \in s
  /\ p \in {"claim", "xclaim"} => \A v \in s \ n : c + Cardinality(l) < claim_count =>
       \A m \in MessageId : pending[m] = v => m \in l
  /\ p = "offline" \/ (p = "process" /\ c < claim_count) =>
       \A v \in s, m \in MessageId : pending[m] # v

(* What the invariant says of worker w. *)
LEMMA CompleteParts ==
  ASSUME CarryInvariant, NEW w \in Worker
  PROVE  /\ Drained(pc[w], stale[w], names[w], listed[w], claimed[w])
         /\ pc[w] \in {"new", "top", "read", "down"} => stale[w] = {}
<1>1. RecoveryComplete(w)
  BY DEF CarryInvariant
<1>2. pc[w] \in {"new", "top", "read", "down"} => stale[w] = {}
  BY CarryTypes, SettledParts, ZenonT(60)
<1>. QED
  BY <1>1, <1>2, ZenonT(60) DEF RecoveryComplete, Drained, PendingOf

(* A claim call that returns short of claim_count has drained all its      *)
(* consumers.                                                              *)
LEMMA Return_Drained ==
  ASSUME NEW s, NEW n, NEW c \in Nat, NEW p \in {"offline", "process"}, claim_count \in Nat,
         Cardinality({}) = 0, Drained("claim", s, n, {}, c), c >= claim_count \/ n = {},
         p = "offline" => c < claim_count
  PROVE  Drained(p, s, n, {}, c)
<1>1. ASSUME c < claim_count, NEW v \in s, NEW m \in MessageId
      PROVE  pending[m] # v
  <2>1. n = {} /\ c + Cardinality({}) < claim_count
    BY <1>1, NatFacts, ZenonT(60)
  <2>. QED
    BY <1>1, <2>1, ZenonT(60) DEF Drained
<1>. QED
  BY <1>1, ZenonT(60) DEF Drained

(* Enough to establish RecoveryComplete after a step. *)
LEMMA Complete_Next ==
  ASSUME NEW w \in Worker, NEW p, NEW s, NEW n, NEW l, NEW c,
         pc'[w] = p, stale'[w] = s, names'[w] = n, listed'[w] = l, claimed'[w] = c,
         Drained(p, s, n, l, c),
         \A v \in s, m \in MessageId : pending'[m] = v => pending[m] = v,
         \A m \in l : pending'[m] \in s
  PROVE  RecoveryComplete(w)'
<1>1. /\ names'[w] \subseteq stale'[w]
      /\ \A m \in listed'[w] : pending'[m] \in stale'[w]
  BY ZenonT(60) DEF Drained
<1>2. pc'[w] \in {"claim", "xclaim"} =>
        \A v \in stale'[w] \ names'[w] :
          claimed'[w] + Cardinality(listed'[w]) < claim_count => PendingOf(v)' \subseteq listed'[w]
  BY ZenonT(60) DEF Drained, PendingOf
<1>3. pc'[w] = "offline" \/ (pc'[w] = "process" /\ claimed'[w] < claim_count) =>
        \A v \in stale'[w] : PendingOf(v)' = {}
  BY DEF Drained, PendingOf
<1>. QED
  BY <1>1, <1>2, <1>3, ZenonT(60) DEF RecoveryComplete

(* A dead worker gets no message, and loses one only to a worker that      *)
(* recovers it.                                                            *)
LEMMA DeadPending ==
  ASSUME CrashesOnly, CarryInvariant, [Next]_vars, NEW v \in Worker, pc[v] = "down",
         NEW m \in MessageId
  PROVE  /\ pending'[m] = v => pending[m] = v
         /\ pending[m] = v => pending'[m] = v \/ \E w \in Worker : claim_take(w) /\ v \in stale[w]
<1>0. /\ OnlyDeadAreStale /\ StreamTypeOK(AttemptRow) /\ NoWorker \notin Worker /\ MessagesHeld
      /\ LedgerInvariant
  BY CarryTypes
<1>1. CASE UNCHANGED pending
  BY <1>1, ZenonT(60)
<1>2. ASSUME NEW w \in Worker, claim_take(w)
      PROVE  /\ pending'[m] = v => pending[m] = v
             /\ pending[m] = v => pending'[m] = v \/ v \in stale[w]
  <2>1. PICK M, N : Delivery(w, M, N, TRUE) /\ \A x \in M : pending[x] \in stale[w]
    BY <1>2, claim_take_Delivery, ZenonT(60)
  <2>. QED
    BY <2>1 DEF Delivery, Up
<1>3. ASSUME NEW w \in Worker, read_new_tasks(w)
      PROVE  (pending'[m] = v => pending[m] = v) /\ (pending[m] = v => pending'[m] = v)
  <2>1. PICK M, N : Delivery(w, M, N, FALSE) /\ \A x \in M : pending[x] = NoWorker
    BY <1>3, read_new_tasks_Delivery, ZenonT(60)
  <2>. QED
    BY <1>0, <2>1 DEF Delivery, Up
<1>4. ASSUME NEW w \in Worker, NEW t \in tasks[w], acknowledge(w, t)
      PROVE  (pending'[m] = v => pending[m] = v) /\ (pending[m] = v => pending'[m] = v)
  <2>1. pending[t.msg] = w /\ w # v
    BY <1>0 DEF MessagesHeld, HoldsOwn, OnlyDeadAreStale, Up
  <2>2. pending' = [pending EXCEPT ![t.msg] = NoWorker]
    BY <1>4 DEF acknowledge, xack
  <2>. QED
    BY <1>0, <2>1, <2>2, ZenonT(60) DEF StreamTypeOK
<1>5. ASSUME NEW w \in Worker, NEW t \in tasks[w],
             \/ task_starts(w, t) \/ task_expires(w, t) \/ task_is_refused(w, t)
             \/ execute(w, t) \/ task_finishes(w, t)
      PROVE  UNCHANGED pending
  BY <1>5, ZenonT(60) DEF task_starts, task_expires, task_is_refused, execute, task_finishes, streamVars
<1>6. ASSUME NEW w \in Worker, Turn(w) \/ crash(w)
      PROVE  UNCHANGED pending
  BY <1>6, CarryTypes, TurnFacts, ZenonT(60) DEF crash, streamVars
<1>7. Outer => UNCHANGED pending
  BY DEF Outer
<1>. QED
  BY <1>1, <1>2, <1>3, <1>4, <1>5, <1>6, <1>7, CarryTypes, CrashSteps, ZenonT(60)

(* What other workers do keeps the recovery of worker x complete. *)
LEMMA Others_Complete ==
  ASSUME CrashesOnly, Undisputed, CarryInvariant, [Next]_vars, NEW x \in Worker, LoopRests(x)
  PROVE  RecoveryComplete(x)'
<1> PICK p, s, n, l, c :
      p = pc[x] /\ s = stale[x] /\ n = names[x] /\ l = listed[x] /\ c = claimed[x]
  OBVIOUS
<1>0. WorkerTypeOK /\ OnlyDeadAreStale
  BY CarryTypes, ZenonT(60)
<1>1. Drained(p, s, n, l, c)
  BY CompleteParts, ZenonT(60)
<1>2. s \in SUBSET Worker /\ l \in SUBSET MessageId /\ \A v \in s : pc[v] = "down"
  BY <1>0, ZenonT(60) DEF WorkerTypeOK, OnlyDeadAreStale
<1>3. ~claim_take(x) /\ \A v \in s, m \in MessageId : pending'[m] = v => pending[m] = v
  <2>1. ~claim_take(x)
    BY <1>0, ZenonT(60) DEF claim_take, LoopRests, WorkerTypeOK
  <2>. QED
    BY <1>2, <2>1, DeadPending, ZenonT(60)
<1>4. ASSUME NEW m \in l
      PROVE  pending'[m] \in s
  <2>1. pending[m] \in s
    BY <1>1, ZenonT(60) DEF Drained
  <2>2. \A w \in Worker : claim_take(w) => pending[m] \notin stale[w]
    BY <1>3, <2>1, ZenonT(60) DEF Undisputed
  <2>3. m \in MessageId /\ pending[m] \in Worker /\ pc[pending[m]] = "down"
    BY <1>2, <2>1, ZenonT(60)
  <2> PICK v \in Worker : v = pending[m]
    BY <2>3, ZenonT(60)
  <2>4. pending'[m] = v
    BY <2>2, <2>3, DeadPending, ZenonT(60)
  <2>. QED
    BY <2>1, <2>4
<1>5. pc'[x] = p /\ stale'[x] = s /\ names'[x] = n /\ listed'[x] = l /\ claimed'[x] = c
  BY ZenonT(60) DEF LoopRests
<1>. QED
  BY <1>1, <1>3, <1>4, <1>5, Complete_Next, ZenonT(60)

(* A step of the main loop keeps its own recovery complete: it loses sight *)
(* of nothing.                                                             *)
LEMMA Turn_Complete ==
  ASSUME Counting, CarryInvariant, NEW w \in Worker, Turn(w)
  PROVE  RecoveryComplete(w)'
<1>0. /\ WorkerTypeOK /\ OwnershipInvariant /\ UNCHANGED pending
      /\ claim_count \in Nat \ {0} /\ claimed[w] \in Nat /\ listed[w] \in SUBSET MessageId
      /\ Cardinality({}) = 0
  BY CarryTypes, TurnFacts, WorkerAssumption, ZenonT(60) DEF Counting, claim_count, WorkerTypeOK
<1>1. /\ Drained(pc[w], stale[w], names[w], listed[w], claimed[w])
      /\ pc[w] \in {"new", "top", "read", "down"} => stale[w] = {}
  BY CompleteParts, ZenonT(60)
<1>2. listed[w] # {} => pc[w] = "xclaim"
  BY CarryTypes, ZenonT(60) DEF BatchInvariant, BatchFits
<1>3. ASSUME NEW p, NEW s, NEW n, NEW l, NEW c,
             Moves(w, p, tasks[w], s, n, l, c), Drained(p, s, n, l, c)
      PROVE  RecoveryComplete(w)'
  <2>1. \A m \in l : pending'[m] \in s
    BY <1>0, <1>3, ZenonT(60) DEF Drained
  <2>2. pc'[w] = p /\ stale'[w] = s /\ names'[w] = n /\ listed'[w] = l /\ claimed'[w] = c
    BY <1>3, ZenonT(60) DEF Moves
  <2>3. \A v \in s, m \in MessageId : pending'[m] = v => pending[m] = v
    BY <1>0, ZenonT(60)
  <2>. QED
    BY <1>3, <2>1, <2>2, <2>3, Complete_Next, ZenonT(60)
<1>4. CASE record_heartbeat(w)
  BY <1>0, <1>1, <1>3, <1>4, Loop_Moves, ZenonT(60) DEF Rests
<1>5. CASE register_worker(w) \/ recover_nothing(w) \/ read_nothing(w) \/ new_batch_done(w)
  <2>1. PICK p \in {"top", "read"} :
          Moves(w, p, tasks[w], stale[w], names[w], listed[w], claimed[w])
    BY <1>0, <1>5, Loop_Moves, ZenonT(60)
  <2>2. stale[w] = {}
    BY <1>1, <1>5, ZenonT(60) DEF register_worker, recover_nothing, read_nothing, new_batch_done
  <2>3. Drained(p, stale[w], names[w], listed[w], claimed[w])
    BY <1>1, <2>2, ZenonT(60) DEF Drained
  <2>. QED
    BY <1>3, <2>1, <2>3, ZenonT(60)
<1>6. CASE mark_workers_offline(w)
  <2>1. PICK p \in {"top", "read"} : Moves(w, p, tasks[w], {}, {}, {}, 0)
    BY <1>0, <1>6, Loop_Moves, ZenonT(60)
  <2>2. Drained(p, {}, {}, {}, 0)
    BY ZenonT(60) DEF Drained
  <2>. QED
    BY <1>3, <2>1, <2>2, ZenonT(60)
<1>7. CASE recover_select(w)
  <2> PICK s : s = find_stale_workers
    OBVIOUS
  <2>1. Moves(w, "load", tasks[w], s, names[w], listed[w], claimed[w])
    BY <1>0, <1>7, Recover_Moves, ZenonT(60)
  <2>2. pc[w] = "top"
    BY <1>7, ZenonT(60) DEF recover_select
  <2>3. names[w] = {} /\ listed[w] = {}
    BY <1>1, <1>2, <2>2, ZenonT(60) DEF Drained
  <2>4. Drained("load", s, names[w], listed[w], claimed[w])
    BY <2>3, ZenonT(60) DEF Drained
  <2>. QED
    BY <1>3, <2>1, <2>4, ZenonT(60)
<1>8. CASE recover_load(w) \/ recover_commit(w)
  <2>1. PICK p \in {"commit", "claim"}, n \in {names[w], stale[w]} :
          /\ Moves(w, p, tasks[w], stale[w], n, listed[w], claimed[w])
          /\ p = "claim" => n = stale[w]
    BY <1>0, <1>8, Recover_Moves, ZenonT(60)
  <2>2. Drained(p, stale[w], n, listed[w], claimed[w])
    BY <1>1, <2>1, ZenonT(60) DEF Drained
  <2>. QED
    BY <1>3, <2>1, <2>2, ZenonT(60)
<1>9. CASE claim_list(w)
  <2>1. PICK v, M :
          /\ v \in names[w] /\ M = Oldest(PendingOf(v), claim_count - claimed[w])
          /\ Moves(w, IF M = {} THEN "claim" ELSE "xclaim", tasks[w], stale[w], names[w] \ {v}, M,
                   claimed[w])
    BY <1>0, <1>9, Claim_Moves, ZenonT(60)
  <2> PICK p \in {"claim", "xclaim"} : p = IF M = {} THEN "claim" ELSE "xclaim"
    BY ZenonT(60)
  <2>2. pc[w] = "claim" /\ claimed[w] < claim_count
    BY <1>9 DEF claim_list
  <2> PICK P : P = PendingOf(v)
    BY ZenonT(60)
  <2> PICK k \in Nat : k = claim_count - claimed[w]
    BY <1>0, <2>2, NatFacts, ZenonT(60)
  <2>3. P \in SUBSET MessageId /\ \A m \in MessageId : m \in P <=> pending[m] = v
    BY DEF PendingOf
  <2>4. /\ M \subseteq P /\ Cardinality(M) <= k
        /\ Cardinality(M) < k => M = P
    BY <2>1, <2>3, ZenonT(60) DEF Counting
  <2>5. M \in SUBSET MessageId /\ Cardinality(M) \in Nat
    BY <2>3, <2>4 DEF Counting
  <2>6. v \in stale[w] /\ listed[w] = {}
    <3>1. names[w] \subseteq stale[w]
      BY <1>1, ZenonT(60) DEF Drained
    <3>. QED
      BY <1>2, <2>1, <2>2, <3>1, ZenonT(60)
  <2>7. Drained(p, stale[w], names[w] \ {v}, M, claimed[w])
    <3>1. \A m \in M : pending[m] \in stale[w]
      BY <2>3, <2>4, <2>6, ZenonT(60)
    <3>2. ASSUME NEW x \in stale[w] \ (names[w] \ {v}), claimed[w] + Cardinality(M) < claim_count,
                 NEW m \in MessageId, pending[m] = x
          PROVE  m \in M
      <4>1. CASE x = v
        <5>1. Cardinality(M) < k
          BY <1>0, <2>5, <3>2, NatFits, ZenonT(60)
        <5>. QED
          BY <2>3, <2>4, <3>2, <4>1, <5>1, ZenonT(60)
      <4>2. CASE x # v
        <5>1. claimed[w] + Cardinality({}) < claim_count
          <6>1. claimed[w] < claim_count
            BY <2>2, ZenonT(60)
          <6>2. claimed[w] + Cardinality({}) = claimed[w]
            BY <1>0, NatFacts, ZenonT(60)
          <6>. QED
            BY <6>1, <6>2, ZenonT(60)
        <5>2. m \in {}
          BY <1>1, <2>2, <2>6, <3>2, <4>2, <5>1, ZenonT(60) DEF Drained
        <5>. QED
          BY <5>2, ZenonT(60)
      <4>. QED
        BY <4>1, <4>2, ZenonT(60)
    <3>. QED
      BY <1>1, <3>1, <3>2, ZenonT(60) DEF Drained
  <2>8. Moves(w, p, tasks[w], stale[w], names[w] \ {v}, M, claimed[w])
    BY <2>1, ZenonT(60)
  <2>. QED
    BY <1>3, <2>7, <2>8, ZenonT(60)
<1>10. CASE claim_return(w)
  <2> PICK p \in {"offline", "process"} : p = IF claimed[w] = 0 THEN "offline" ELSE "process"
    OBVIOUS
  <2>1. Moves(w, p, tasks[w], stale[w], names[w], listed[w], claimed[w])
    BY <1>0, <1>10, Claim_Moves, ZenonT(60)
  <2>2. /\ pc[w] = "claim" /\ (claimed[w] >= claim_count \/ names[w] = {})
        /\ listed[w] = {}
    BY <1>2, <1>10, ZenonT(60) DEF claim_return
  <2>3. p = "offline" => claimed[w] < claim_count
    <3>1. 0 < claim_count
      BY <1>0, NatFacts, ZenonT(60)
    <3>. QED
      BY <3>1, ZenonT(60)
  <2>4. Drained(p, stale[w], names[w], {}, claimed[w])
    <3> PICK s, n : s = stale[w] /\ n = names[w]
      BY ZenonT(60)
    <3> PICK c \in Nat : c = claimed[w]
      BY <1>0
    <3>1. Drained("claim", s, n, {}, c) /\ (c >= claim_count \/ n = {})
      BY <1>1, <2>2, ZenonT(60)
    <3>2. Drained(p, s, n, {}, c)
      BY <1>0, <2>3, <3>1, Return_Drained, ZenonT(60)
    <3>. QED
      BY <3>2, ZenonT(60)
  <2>5. Moves(w, p, tasks[w], stale[w], names[w], {}, claimed[w])
    BY <2>1, <2>2, ZenonT(60)
  <2>. QED
    BY <1>3, <2>4, <2>5, ZenonT(60)
<1>11. CASE recovered_batch_done(w)
  <2> PICK p \in {"offline", "claim"} :
        p = IF claimed[w] < claim_count THEN "offline" ELSE "claim"
    OBVIOUS
  <2>1. Moves(w, p, tasks[w], stale[w], stale[w], listed[w], 0)
    BY <1>0, <1>11, Claim_Moves, ZenonT(60)
  <2>2. pc[w] = "process" /\ listed[w] = {}
    BY <1>2, <1>11, ZenonT(60) DEF recovered_batch_done
  <2>3. Drained(p, stale[w], stale[w], listed[w], 0)
    BY <1>0, <1>1, <2>2, ZenonT(60) DEF Drained
  <2>. QED
    BY <1>3, <2>1, <2>3, ZenonT(60)
<1>. QED
  BY <1>4, <1>5, <1>6, <1>7, <1>8, <1>9, <1>10, <1>11, ZenonT(60) DEF Turn

(* XCLAIM empties the consumer it was told to empty. *)
LEMMA claim_take_Complete ==
  ASSUME Counting, CarryInvariant, [Next]_vars, NEW w \in Worker, claim_take(w)
  PROVE  RecoveryComplete(w)'
<1>0. /\ WorkerTypeOK /\ OnlyDeadAreStale /\ claimed[w] \in Nat /\ Cardinality({}) = 0
  BY CarryTypes DEF Counting, WorkerTypeOK
<1>1. PICK M, N :
        /\ M = listed[w] /\ Delivery(w, M, N, TRUE)
        /\ Moves(w, "claim", tasks[w] \cup N, stale[w], names[w], {}, claimed[w] + Cardinality(M))
  BY claim_take_Delivery, ZenonT(60)
<1> PICK s, n : s = stale[w] /\ n = names[w]
  OBVIOUS
<1>2. M \in SUBSET MessageId /\ Cardinality(M) \in Nat
  BY <1>1, ZenonT(60) DEF Counting, Delivery
<1> PICK c \in Nat : c = claimed[w] + Cardinality(M)
  BY <1>0, <1>2, NatFacts, ZenonT(60)
<1>3. /\ pc[w] = "xclaim" /\ s \in SUBSET Worker /\ \A v \in s : pc[v] = "down"
      /\ w \notin s
  BY <1>0 DEF claim_take, WorkerTypeOK, OnlyDeadAreStale
<1>4. n \subseteq s /\ \A v \in s \ n : c < claim_count => \A m \in MessageId : pending[m] = v => m \in M
  BY <1>1, <1>3, CompleteParts, ZenonT(60) DEF Drained
<1>5. \A v \in s, m \in MessageId : pending'[m] = v => pending[m] = v /\ m \notin M
  BY <1>1, <1>3, ZenonT(60) DEF Delivery
<1>6. /\ pc'[w] = "claim" /\ stale'[w] = s /\ names'[w] = n /\ listed'[w] = {} /\ claimed'[w] = c
  BY <1>1, ZenonT(60) DEF Moves
<1>7. \A v \in s \ n : c + Cardinality({}) < claim_count => PendingOf(v)' \subseteq {}
  <2>1. c + Cardinality({}) = c
    BY <1>0, NatFacts, ZenonT(60)
  <2>. QED
    BY <1>4, <1>5, <2>1, ZenonT(60) DEF PendingOf
<1>. QED
  BY <1>4, <1>6, <1>7, ZenonT(60) DEF RecoveryComplete

(* Nothing is recovered while new messages are read, and after a crash. *)
LEMMA Idle_Complete ==
  ASSUME CarryInvariant, NEW w \in Worker, read_new_tasks(w) \/ crash(w)
  PROVE  RecoveryComplete(w)'
<1>0. WorkerTypeOK
  BY CarryTypes
<1>1. /\ stale'[w] = {} /\ names'[w] = {} /\ listed'[w] = {} /\ pc'[w] \in {"process", "down"}
  <2>1. CASE crash(w)
    <3>1. EndIteration(w, "down")
      BY <2>1, ZenonT(60) DEF crash
    <3>. QED
      BY <1>0, <3>1, ZenonT(60) DEF EndIteration, WorkerTypeOK
  <2>2. CASE read_new_tasks(w)
    <3>1. stale[w] = {} /\ names[w] = {} /\ listed[w] = {}
      <4>1. stale[w] = {} /\ pc[w] = "read"
        BY <2>2, CompleteParts, ZenonT(60) DEF read_new_tasks
      <4>2. listed[w] = {}
        BY <4>1, CarryTypes, ZenonT(60) DEF BatchInvariant, BatchFits
      <4>. QED
        BY <4>1, <4>2, CompleteParts, ZenonT(60) DEF Drained
    <3>. QED
      BY <1>0, <2>2, <3>1, ZenonT(60) DEF read_new_tasks, WorkerTypeOK
  <2>. QED
    BY <2>1, <2>2, ZenonT(60)
<1>. QED
  BY <1>1 DEF RecoveryComplete

(* Every recovery stays complete. *)
LEMMA Complete_Step ==
  ASSUME Counting, CrashesOnly, Undisputed, CarryInvariant, [Next]_vars, NEW x \in Worker
  PROVE  RecoveryComplete(x)'
BY CarryTypes, LoopMoves, Others_Complete, Turn_Complete, claim_take_Complete, Idle_Complete,
  ZenonT(60)

--------------------------------------------------------------------------------
(* What becomes of a pending message in one step. *)

(* The consumer is dead and keeps it, a worker that recovers the consumer  *)
(* takes it, the consumer keeps it with its task or dies, or the task      *)
(* moves on.                                                               *)
Fate(m, w) ==
  \/ pc[w] = "down" /\ pc'[w] = "down" /\ pending'[m] = w
  \/ /\ pc[w] = "down"
     /\ \E x \in Worker : /\ claim_take(x) /\ w \in stale[x] /\ pending'[m] = x
                          /\ \E t \in tasks'[x] : t.msg = m /\ t.recovered /\ t.at = "received"
  \/ \E t \in tasks[w] :
       /\ t.msg = m
       /\ \/ pending'[m] = w /\ (t \in tasks'[w] \/ pc'[w] = "down")
          \/ task_starts(w, t) \/ task_expires(w, t) \/ task_is_refused(w, t)
          \/ execute(w, t) \/ task_finishes(w, t) \/ acknowledge(w, t)

(* The message of a dead consumer. *)
LEMMA DeadFate ==
  ASSUME CrashesOnly, CarryInvariant, [Next]_vars, NEW w \in Worker, NEW m \in MessageId,
         pending[m] = w, pc[w] = "down"
  PROVE  Fate(m, w)
<1>1. CASE pending'[m] = w
  BY <1>1, CarryTypes, DownStays, ZenonT(60) DEF Fate
<1>2. CASE pending'[m] # w
  <2>1. PICK x \in Worker : claim_take(x) /\ w \in stale[x]
    BY <1>2, DeadPending
  <2>2. PICK M, N : Delivery(x, M, N, TRUE)
    BY <2>1, claim_take_Delivery, ZenonT(60)
  <2>3. m \in M /\ pending'[m] = x
    BY <1>2, <2>2, ZenonT(60) DEF Delivery
  <2>4. \E t \in tasks'[x] : t.msg = m /\ t.recovered /\ t.at = "received"
    BY <2>2, <2>3, ZenonT(60) DEF Delivery, TasksOf
  <2>. QED
    BY <2>1, <2>3, <2>4, ZenonT(60) DEF Fate
<1>. QED
  BY <1>1, <1>2, ZenonT(60)

(* The message of a live consumer. *)
LEMMA LiveFate ==
  ASSUME CrashesOnly, CarryInvariant, [Next]_vars, NEW w \in Worker, NEW t \in tasks[w]
  PROVE  Fate(t.msg, w)
<1>0. /\ WorkerTypeOK /\ StreamTypeOK(AttemptRow) /\ MessagesHeld /\ t.msg \in MessageId
      /\ pending[t.msg] = w
  <2>1. WorkerTypeOK /\ StreamTypeOK(AttemptRow) /\ MessagesHeld
    BY CarryTypes, ZenonT(60)
  <2>2. HoldsOwn(w) /\ t.msg \in MessageId
    BY <2>1, TaskMessageId, ZenonT(60) DEF MessagesHeld
  <2>. QED
    BY <2>1, <2>2, ZenonT(60) DEF HoldsOwn
<1>1. ASSUME pending'[t.msg] = w, t \in tasks'[w] \/ pc'[w] = "down"
      PROVE  Fate(t.msg, w)
  BY <1>1, ZenonT(60) DEF Fate
<1>2. CASE Outer
  BY <1>0, <1>1, <1>2, ZenonT(60) DEF Outer
<1>3. ASSUME NEW x \in Worker, Turn(x)
      PROVE  Fate(t.msg, w)
  BY <1>0, <1>1, <1>3, TurnFacts, ZenonT(60)
<1>4. ASSUME NEW x \in Worker, crash(x)
      PROVE  Fate(t.msg, w)
  <2>1. UNCHANGED pending /\ Moves(x, "down", {}, {}, {}, {}, 0)
    BY <1>0, <1>4, Loop_Moves, ZenonT(60) DEF crash, streamVars
  <2>. QED
    BY <1>0, <1>1, <2>1, ZenonT(60) DEF Moves
<1>5. ASSUME NEW x \in Worker, NEW M, NEW N, NEW b, Delivery(x, M, N, b)
      PROVE  Fate(t.msg, w)
  <2>1. t.msg \notin M /\ pending'[t.msg] = pending[t.msg]
    BY <1>0, <1>5, ZenonT(60) DEF Delivery
  <2>2. t \in tasks'[w]
    BY <1>5, ZenonT(60) DEF Delivery
  <2>. QED
    BY <1>0, <1>1, <2>1, <2>2, ZenonT(60)
<1>6. ASSUME NEW x \in Worker, claim_take(x) \/ read_new_tasks(x)
      PROVE  Fate(t.msg, w)
  <2>1. \E M, N, b : Delivery(x, M, N, b)
    BY <1>6, claim_take_Delivery, read_new_tasks_Delivery, ZenonT(60)
  <2>. QED
    BY <1>5, <2>1, ZenonT(60)
<1>7. ASSUME NEW x \in Worker, NEW y \in tasks[x],
             \/ task_starts(x, y) \/ task_expires(x, y) \/ task_is_refused(x, y)
             \/ execute(x, y) \/ task_finishes(x, y)
      PROVE  Fate(t.msg, w)
  <2>1. CASE x = w /\ y = t
    BY <1>7, <2>1, ZenonT(60) DEF Fate
  <2>2. CASE ~(x = w /\ y = t)
    <3>1. UNCHANGED pending
      BY <1>7, ZenonT(60) DEF task_starts, task_expires, task_is_refused, execute, task_finishes,
        streamVars
    <3>2. \E l : TaskGoes(x, y, l)
      BY <1>0, <1>7, Task_Moves, ZenonT(60)
    <3>3. PICK u : tasks'[x] = (tasks[x] \ {y}) \cup {u} /\ \A z \in Worker \ {x} : tasks'[z] = tasks[z]
      BY <3>2, ZenonT(60) DEF TaskGoes, Moves
    <3>4. t \in tasks'[w]
      BY <2>2, <3>3, ZenonT(60)
    <3>. QED
      BY <1>0, <1>1, <3>1, <3>4, ZenonT(60)
  <2>. QED
    BY <2>1, <2>2, ZenonT(60)
<1>8. ASSUME NEW x \in Worker, NEW y \in tasks[x], acknowledge(x, y)
      PROVE  Fate(t.msg, w)
  <2>1. CASE x = w /\ y = t
    BY <1>8, <2>1, ZenonT(60) DEF Fate
  <2>2. CASE ~(x = w /\ y = t)
    <3>1. y.msg # t.msg /\ y.msg \in MessageId
      <4>1. HoldsOwn(w) /\ HoldsOwn(x) /\ y.msg \in MessageId
        BY <1>0, TaskMessageId, ZenonT(60) DEF MessagesHeld
      <4>. QED
        BY <1>0, <2>2, <4>1, ZenonT(60) DEF HoldsOwn
    <3>2. pending' = [pending EXCEPT ![y.msg] = NoWorker]
      BY <1>8 DEF acknowledge, xack
    <3>3. pending'[t.msg] = w
      BY <1>0, <3>1, <3>2, ZenonT(60) DEF StreamTypeOK
    <3>4. t \in tasks'[w]
      <4>1. /\ tasks'[x] = tasks[x] \ {y}
            /\ \A z \in Worker \ {x} : tasks'[z] = tasks[z]
        BY <1>0, <1>8, Task_Moves, ZenonT(60) DEF Moves
      <4>. QED
        BY <2>2, <4>1, ZenonT(60)
    <3>. QED
      BY <1>1, <3>3, <3>4, ZenonT(60)
  <2>. QED
    BY <2>1, <2>2, ZenonT(60)
<1>. QED
  BY <1>2, <1>3, <1>4, <1>6, <1>7, <1>8, CarryTypes, CrashSteps, ZenonT(60)

--------------------------------------------------------------------------------
(* Invocations that wait for an attempt. *)
Waits == {"QUEUED", "RETRYING"}

(* Outbox rows are never deleted. *)
LEMMA OutboxStays ==
  ASSUME CarryInvariant, [Next]_vars, NEW r \in AttemptRow, dispatches[r] # "NONE"
  PROVE  dispatches'[r] # "NONE"
<1>0. dispatches \in [AttemptRow -> DispatchState]
  BY CarryTypes, ZenonT(60) DEF StoreTypeOK
<1>1. CASE ClientStep \/ BackoffStep
  BY <1>0, <1>1, ZenonT(60) DEF ClientStep, BackoffStep, create_invocation, deadline_passes, backoff_elapses
<1>2. ASSUME NEW d \in DispatcherId, DispatcherStep(d) \/ DispatcherFault(d)
      PROVE  dispatches'[r] # "NONE"
  BY <1>0, <1>2, ZenonT(60) DEF DispatcherStep, DispatcherFault, dispatch_select, publish_invocation,
    publish_fails, dispatch_commit, dispatch_abort, storeVars
<1>3. ASSUME NEW w \in Worker, WorkerStep(w)
      PROVE  dispatches'[r] # "NONE"
  <2>1. CASE \E t \in tasks[w] : task_finishes(w, t)
    BY <1>0, <2>1, ZenonT(60) DEF task_finishes, mark_finished
  <2>2. CASE ~ \E t \in tasks[w] : task_finishes(w, t)
    <3>1. UNCHANGED dispatches
      BY <1>3, <2>2, ZenonT(60) DEF WorkerStep, LoopStep, TaskStep, WorkerFault, register_worker,
        record_heartbeat, heartbeat_ages, recover_select, recover_nothing, recover_load,
        recover_commit, write_lost_attempts, claim_list, claim_take, claim_return,
        recovered_batch_done, mark_workers_offline, read_new_tasks, read_nothing, new_batch_done,
        mark_worker_offline, task_starts, mark_running, task_expires, mark_expired,
        task_is_refused, execute, task_is_rejected, Raise, acknowledge, task_call_fails,
        loop_call_fails, read_reply_lost, heartbeat_loop_dies, crash, interrupt, storeVars
    <3>. QED
      BY <3>1, ZenonT(60)
  <2>. QED
    BY <2>1, <2>2, ZenonT(60)
<1>4. CASE UNCHANGED vars
  BY <1>4, ZenonT(60) DEF vars, storeVars
<1>. QED
  BY <1>1, <1>2, <1>3, <1>4, ZenonT(60) DEF Next

(* mark_running accepts a reclaimed task of a waiting invocation unless an *)
(* outbox row will bring the attempt.                                      *)
LEMMA RefusalHasReason ==
  ASSUME CarryInvariant, NEW w \in Worker, NEW t \in tasks[w], task_is_refused(w, t),
         t.recovered, status[InvocationOf(t)] \in Waits
  PROVE  scheduled_retry(InvocationOf(t))
BY ZenonT(60) DEF task_is_refused, TaskVerdict, start_verdict, Waits, is_terminal_status,
  TERMINAL_INVOCATION_STATUSES

(* The effect of mark_running and of the end of an expired invocation on   *)
(* the status.                                                             *)
LEMMA VerdictEnds ==
  ASSUME CarryInvariant, NEW w \in Worker, NEW t \in tasks[w],
         task_starts(w, t) \/ task_expires(w, t)
  PROVE  status'[InvocationOf(t)] \notin Waits
<1>1. InvocationOf(t) \in Invocation
  BY CarryTypes, TaskMessage, ZenonT(60)
<1>2. status \in [Invocation -> InvocationStatus]
  BY CarryTypes, ZenonT(60) DEF StoreTypeOK
<1>. QED
  BY <1>1, <1>2, ZenonT(60) DEF task_starts, mark_running, task_expires, mark_expired, Waits

(* An invocation that keeps waiting has something to wait for. *)
LEMMA KeptWaiter ==
  ASSUME CrashesOnly, CarryInvariant, [Next]_vars, LedgerInvariant', NEW i \in Invocation,
         status[i] \in Waits, status'[i] \in Waits
  PROVE  (scheduled_retry(i) \/ Reclaimable(i))'
<1>0. /\ OnlyDeadAreStale /\ MessagesHeld /\ TaskShape
      /\ attempt_count' \in [Invocation -> 0..AttemptBound]
  BY CarryTypes, ZenonT(60) DEF LedgerInvariant, TypeOK, StoreTypeOK
<1>1. attempt_count'[i] = attempt_count[i]
  <2>1. AllowedStep(i)
    BY CarryTypes, Step_Allowed, ZenonT(60)
  <2>. QED
    BY <2>1, ZenonT(60) DEF AllowedStep, Waits, Contract!Goes, Contract!Accept, Contract!Start, Contract!Retry,
      Contract!Finish, Contract!Expire, Contract!Stays
<1>2. ASSUME scheduled_retry(i)
      PROVE  scheduled_retry(i)'
  <2> PICK n : n = attempt_count[i] + 1
    BY ZenonT(60)
  <2>1. n \in AttemptNumber /\ dispatches[<<i, n>>] # "NONE"
    BY <1>2, ZenonT(60) DEF scheduled_retry
  <2>2. <<i, n>> \in AttemptRow
    BY <2>1, ZenonT(60) DEF AttemptRow
  <2>3. dispatches'[<<i, n>>] # "NONE"
    BY <2>1, <2>2, OutboxStays, ZenonT(60)
  <2>. QED
    BY <1>1, <2>1, <2>3, ZenonT(60) DEF scheduled_retry
<1>3. ASSUME Reclaimable(i)
      PROVE  scheduled_retry(i) \/ Reclaimable(i)'
  <2>1. PICK m \in MessageId, w \in Worker :
          /\ pending[m] = w /\ stream[m][1] = i
          /\ \/ pc[w] = "down"
             \/ \E t \in tasks[w] : t.msg = m /\ t.recovered /\ t.at = "received"
    BY <1>3, ZenonT(60) DEF Reclaimable
  <2>2. m \in Message /\ stream'[m][1] = i
    <3>1. m \in Message
      BY <1>0, <2>1, CarryTypes, ServedFacts, EnvironmentAssumption, ZenonT(60) DEF TaskShape
    <3>. QED
      BY <2>1, <3>1, CarryTypes, StreamKept, ZenonT(60)
  <2>3. ASSUME NEW x \in Worker, pending'[m] = x,
               \/ pc'[x] = "down"
               \/ \E t \in tasks'[x] : t.msg = m /\ t.recovered /\ t.at = "received"
        PROVE  Reclaimable(i)'
    BY <2>2, <2>3, ZenonT(60) DEF Reclaimable
  <2>4. CASE pc[w] = "down"
    <3>1. Fate(m, w) /\ tasks[w] = {}
      BY <1>0, <2>1, <2>4, DeadFate, ZenonT(60) DEF OnlyDeadAreStale, Up
    <3>. QED
      BY <2>3, <3>1, ZenonT(60) DEF Fate
  <2>5. ASSUME NEW t \in tasks[w], t.msg = m, t.recovered, t.at = "received"
        PROVE  scheduled_retry(i) \/ Reclaimable(i)'
    <3>1. Fate(m, w) /\ Up(w) /\ \A u \in tasks[w] : u.msg = m => u = t
      <4>1. Fate(m, w)
        BY <2>5, LiveFate, ZenonT(60)
      <4>2. Up(w)
        BY <1>0, <2>5, ZenonT(60) DEF OnlyDeadAreStale
      <4>3. HoldsOwn(w)
        BY <1>0, ZenonT(60) DEF MessagesHeld
      <4>. QED
        BY <2>5, <4>1, <4>2, <4>3, ZenonT(60) DEF HoldsOwn
    <3>2. \/ pending'[m] = w /\ (t \in tasks'[w] \/ pc'[w] = "down")
          \/ task_starts(w, t) \/ task_expires(w, t) \/ task_is_refused(w, t)
          \/ execute(w, t) \/ task_finishes(w, t) \/ acknowledge(w, t)
      BY <3>1, ZenonT(60) DEF Fate, Up
    <3>3. InvocationOf(t) = i
      BY <2>1, <2>5, ZenonT(60) DEF InvocationOf
    <3>4. ~task_starts(w, t) /\ ~task_expires(w, t)
      BY <3>3, VerdictEnds
    <3>5. ~execute(w, t) /\ ~task_finishes(w, t) /\ ~acknowledge(w, t)
      BY <2>5, ZenonT(60) DEF execute, task_finishes, acknowledge
    <3>6. task_is_refused(w, t) => scheduled_retry(i)
      BY <2>5, <3>3, RefusalHasReason, ZenonT(60)
    <3>7. CASE pending'[m] = w /\ (t \in tasks'[w] \/ pc'[w] = "down")
      BY <2>3, <2>5, <3>7, ZenonT(60)
    <3>. QED
      BY <3>2, <3>4, <3>5, <3>6, <3>7, ZenonT(60)
  <2>. QED
    BY <2>1, <2>4, <2>5, ZenonT(60)
<1>4. WaiterIsCalled(i)
  BY ZenonT(60) DEF CarryInvariant
<1>. QED
  BY <1>2, <1>3, <1>4, ZenonT(60) DEF WaiterIsCalled, Waits

(* The last attempt of a running invocation. *)
LEMMA RunningAttempt ==
  ASSUME CarryInvariant, NEW i \in Invocation, status[i] = "RUNNING"
  PROVE  /\ attempt_count[i] \in AttemptNumber
         /\ <<i, attempt_count[i]>> \in AttemptRow
         /\ attempt_status[<<i, attempt_count[i]>>] = "RUNNING"
         /\ RunnerHasMessage(i)
<1>1. attempt_count[i] \in AttemptNumber /\ RunnerHasMessage(i)
  BY ZenonT(60) DEF CarryInvariant, RunnerIsHeld, CrashInvariant, RunningIsNumbered
<1>2. attempt_status[<<i, attempt_count[i]>>] = "RUNNING"
  BY <1>1, CarryTypes, ZenonT(60) DEF OwnershipInvariant, RunningAttemptIsLast
<1>. QED
  BY <1>1, <1>2, ZenonT(60) DEF AttemptRow

(* create_invocation commits the outbox row with the invocation. *)
LEMMA CreatedIsScheduled ==
  ASSUME CarryInvariant, NEW i \in Invocation, create_invocation(i)
  PROVE  scheduled_retry(i)'
<1>1. attempt_count[i] = 0 /\ UNCHANGED attempt_count
  BY ZenonT(60) DEF CarryInvariant, WaiterIsCalled, create_invocation
<1>2. 1 \in AttemptNumber /\ <<i, 1>> \in AttemptRow
  BY FirstRow, ZenonT(60)
<1>3. dispatches'[<<i, 1>>] = "available"
  BY <1>2, CarryTypes, ZenonT(60) DEF create_invocation, StoreTypeOK
<1>. QED
  BY <1>1, <1>2, <1>3 DEF scheduled_retry

(* mark_finished commits the outbox row with the retry. *)
LEMMA RetriedIsScheduled ==
  ASSUME CarryInvariant, NEW w \in Worker, NEW t \in tasks[w], task_finishes(w, t),
         status'[InvocationOf(t)] \in Waits
  PROVE  scheduled_retry(InvocationOf(t))'
<1>0. OwnershipInvariant /\ StoreTypeOK
  BY CarryTypes
<1>1. Executes(t) /\ t.at = "executed" /\ UNCHANGED <<stream, attempt_count>>
  BY DEF task_finishes, Executes, mark_finished, streamVars
<1>2. /\ InvocationOf(t) \in Invocation /\ t.attempt \in AttemptNumber
      /\ attempt_status[<<InvocationOf(t), t.attempt>>] = "RUNNING"
  BY <1>0, <1>1, ExecutingRow, ZenonT(60)
<1> PICK i \in Invocation, n \in AttemptNumber : i = InvocationOf(t) /\ n = t.attempt
  BY <1>2
<1>3. n = attempt_count[i]
  BY <1>0, <1>2, ZenonT(60) DEF OwnershipInvariant, RunningAttemptIsLast
<1>4. InvocationOf(t)' = i
  BY <1>1 DEF InvocationOf
<1>5. mark_finished(i, n, t.result) /\ t.result # "NONE" /\ t.result \in ExecutionResult \cup {"NONE"}
  <2>1. t \in Task /\ TaskFits(t)
    BY CarryTypes, ZenonT(60) DEF WorkerTypeOK, TaskShape
  <2>. QED
    BY <1>1, <2>1 DEF task_finishes, TaskFits, Task
<1>6. should_retry(n, t.result)
  <2>1. status'[i] = IF should_retry(n, t.result) THEN "RETRYING" ELSE AttemptStatusOf(t.result)
    BY <1>0, <1>5, ZenonT(60) DEF mark_finished, StoreTypeOK
  <2>2. AttemptStatusOf(t.result) \notin Waits
    BY <1>5, ZenonT(60) DEF AttemptStatusOf, ExecutionResult, Waits
  <2>. QED
    BY <2>1, <2>2, ZenonT(60)
<1>7. n + 1 \in AttemptNumber /\ <<i, n + 1>> \in AttemptRow
  BY <1>6, StoreAssumption DEF should_retry, AttemptNumber, AttemptRow
<1>8. dispatches'[<<i, n + 1>>] = "delayed"
  BY <1>0, <1>5, <1>6, <1>7, ZenonT(60) DEF mark_finished, StoreTypeOK
<1>9. scheduled_retry(i)'
  BY <1>1, <1>3, <1>7, <1>8, ZenonT(60) DEF scheduled_retry
<1>. QED
  BY <1>1, <1>9, ZenonT(60) DEF InvocationOf, scheduled_retry

(* An invocation that recovery gives another attempt has a message that    *)
(* recovery will reclaim.                                                  *)
LEMMA RecoveredIsReclaimable ==
  ASSUME CarryInvariant, NEW w \in Worker, recover_commit(w), NEW i \in Invocation,
         status[i] = "RUNNING", status'[i] = "RETRYING"
  PROVE  Reclaimable(i)'
<1> PICK r : r = <<i, attempt_count[i]>>
  BY ZenonT(60)
<1>1. /\ r \in AttemptRow /\ attempt_count[i] \in AttemptNumber /\ attempt_status[r] = "RUNNING"
      /\ RunnerHasMessage(i)
  BY RunningAttempt
<1>2. attempt_status'[r] # "RUNNING"
  BY <1>1, CarryTypes, recover_commit_Effect, ZenonT(60)
<1>3. attempt_worker[r] \in stale[w]
  BY <1>1, <1>2, CarryTypes, recover_commit_Effect, ZenonT(60)
<1>4. PICK m \in MessageId, x \in Worker :
        attempt_worker[r] = x /\ pending[m] = x /\ stream[m][1] = i
  BY <1>1, ZenonT(60) DEF RunnerHasMessage
<1>5. pc[x] = "down"
  <2>1. \A v \in stale[w] : pc[v] = "down"
    BY CarryTypes, ZenonT(60) DEF OnlyDeadAreStale
  <2>. QED
    BY <1>3, <1>4, <2>1, ZenonT(60)
<1>6. Turn(w)
  BY ZenonT(60) DEF Turn
<1>7. UNCHANGED <<stream, pending>> /\ pc[w] # "down" /\ (x # w => pc'[x] = pc[x])
  BY <1>6, CarryTypes, TurnFacts, ZenonT(60)
<1>. QED
  BY <1>4, <1>5, <1>7, ZenonT(60) DEF Reclaimable

(* An invocation that begins to wait has something to wait for. *)
LEMMA NewWaiter ==
  ASSUME CarryInvariant, [Next]_vars, NEW i \in Invocation,
         status[i] \notin Waits, status'[i] \in Waits
  PROVE  (scheduled_retry(i) \/ Reclaimable(i))'
<1>0. OwnershipInvariant /\ status \in [Invocation -> InvocationStatus]
  BY CarryTypes, ZenonT(60) DEF StoreTypeOK
<1>1. CASE RowsUnchanged
  BY <1>1, ZenonT(60) DEF RowsUnchanged
<1>2. ASSUME NEW j \in Invocation, create_invocation(j)
      PROVE  scheduled_retry(i)'
  <2>1. i = j
    BY <1>0, <1>2, ZenonT(60) DEF create_invocation
  <2>. QED
    BY <1>2, <2>1, CreatedIsScheduled, ZenonT(60)
<1>3. ASSUME NEW w \in Worker, recover_commit(w)
      PROVE  Reclaimable(i)'
  <2>1. status[i] = "RUNNING" /\ status'[i] = "RETRYING"
    BY <1>0, <1>3, recover_commit_Effect, ZenonT(60) DEF Waits
  <2>. QED
    BY <1>3, <2>1, RecoveredIsReclaimable, ZenonT(60)
<1>4. ASSUME NEW w \in Worker, NEW t \in tasks[w], task_starts(w, t) \/ task_expires(w, t)
      PROVE  FALSE
  <2>1. InvocationOf(t) # i
    BY <1>4, VerdictEnds
  <2>2. status'[i] = status[i]
    BY <1>0, <1>4, <2>1, ZenonT(60) DEF task_starts, mark_running, task_expires, mark_expired
  <2>. QED
    BY <2>2, ZenonT(60)
<1>5. ASSUME NEW w \in Worker, NEW t \in tasks[w], task_finishes(w, t)
      PROVE  scheduled_retry(i)'
  <2>1. InvocationOf(t) = i
    BY <1>0, <1>5, ZenonT(60) DEF task_finishes, mark_finished
  <2>2. scheduled_retry(InvocationOf(t))' /\ UNCHANGED stream
    BY <1>5, <2>1, RetriedIsScheduled, ZenonT(60) DEF task_finishes, streamVars
  <2>. QED
    BY <2>1, <2>2 DEF InvocationOf
<1>. QED
  BY <1>1, <1>2, <1>3, <1>4, <1>5, RowChanges, ZenonT(60)

(* Every waiting invocation stays called for. *)
LEMMA Waiter_Step ==
  ASSUME CrashesOnly, CarryInvariant, [Next]_vars, LedgerInvariant', NEW i \in Invocation
  PROVE  WaiterIsCalled(i)'
<1>1. status'[i] = "ABSENT" => attempt_count'[i] = 0
  <2>1. AllowedStep(i) /\ (status[i] = "ABSENT" => attempt_count[i] = 0)
    BY CarryTypes, Step_Allowed, ZenonT(60) DEF CarryInvariant, WaiterIsCalled
  <2>. QED
    BY <2>1, ZenonT(60) DEF AllowedStep, Contract!Goes, Contract!Accept, Contract!Start, Contract!Retry,
      Contract!Finish, Contract!Expire, Contract!Stays
<1>2. status'[i] \in Waits => (scheduled_retry(i) \/ Reclaimable(i))'
  BY NewWaiter, KeptWaiter, ZenonT(60)
<1>. QED
  BY <1>1, <1>2, ZenonT(60) DEF WaiterIsCalled, Waits

--------------------------------------------------------------------------------
(* Invocations that run. *)

(* An invocation that starts to run is held by the worker that starts it. *)
LEMMA NewRunner ==
  ASSUME CarryInvariant, [Next]_vars, NEW i \in Invocation,
         status[i] # "RUNNING", status'[i] = "RUNNING"
  PROVE  RunnerIsHeld(i)'
<1>0. OwnershipInvariant /\ WorkerTypeOK /\ MessagesHeld
  BY CarryTypes
<1>1. PICK w \in Worker : \E t \in tasks[w] :
        /\ task_starts(w, t) /\ InvocationOf(t) = i
        /\ attempt_count'[i] = attempt_count[i] + 1
        /\ attempt_worker'[<<i, attempt_count[i] + 1>>] = w
  BY <1>0, NewRunnerStarts, ZenonT(60)
<1>2. PICK t \in tasks[w] :
        /\ task_starts(w, t) /\ InvocationOf(t) = i
        /\ attempt_count'[i] = attempt_count[i] + 1
        /\ attempt_worker'[<<i, attempt_count[i] + 1>>] = w
  BY <1>1, ZenonT(60)
<1>3. t.msg \in MessageId /\ pending[t.msg] = w
  <2>1. HoldsOwn(w) /\ t.msg \in MessageId
    BY <1>0, TaskMessageId, ZenonT(60) DEF MessagesHeld
  <2>. QED
    BY <2>1, ZenonT(60) DEF HoldsOwn
<1>4. UNCHANGED <<stream, pending>>
  BY <1>2 DEF task_starts, streamVars
<1>5. \E u \in tasks'[w] : u.msg = t.msg /\ u.at = "running"
  <2>1. TaskGoes(w, t, "running")
    BY <1>0, <1>2, Task_Moves, ZenonT(60)
  <2>. QED
    BY <2>1, ZenonT(60) DEF TaskGoes, Moves
<1>6. stream'[t.msg][1] = i /\ pending'[t.msg] = w
  BY <1>2, <1>3, <1>4, ZenonT(60) DEF InvocationOf
<1>7. attempt_worker'[<<i, attempt_count'[i]>>] = w
  BY <1>2, ZenonT(60)
<1>8. RunnerHasMessage(i)'
  BY <1>3, <1>5, <1>6, <1>7, ZenonT(60) DEF RunnerHasMessage
<1>. QED
  BY <1>8 DEF RunnerIsHeld

(* An invocation that goes on running is still held: no recovery takes the *)
(* message of a running attempt.                                           *)
LEMMA KeptRunner ==
  ASSUME CrashesOnly, CarryInvariant, [Next]_vars, NEW i \in Invocation,
         status[i] = "RUNNING", status'[i] = "RUNNING"
  PROVE  RunnerIsHeld(i)'
<1>0. /\ OnlyDeadAreStale /\ MessagesHeld /\ TaskShape /\ WorkerTypeOK
  BY CarryTypes, ZenonT(60)
<1>1. /\ attempt_count[i] \in AttemptNumber
      /\ <<i, attempt_count[i]>> \in AttemptRow
      /\ attempt_status[<<i, attempt_count[i]>>] = "RUNNING"
      /\ RunnerHasMessage(i)
  BY RunningAttempt, ZenonT(60)
<1>2. attempt_count'[i] = attempt_count[i]
  BY CarryTypes, RunningCountStays, ZenonT(60)
<1> PICK n, r : n = attempt_count[i] /\ r = <<i, n>>
  BY ZenonT(60)
<1>3. PICK m \in MessageId, w \in Worker :
        /\ attempt_worker[r] = w
        /\ pending[m] = w /\ stream[m][1] = i
        /\ \/ pc[w] = "down"
           \/ \E t \in tasks[w] : t.msg = m /\ t.at \in {"running", "executed"}
  BY <1>1, ZenonT(60) DEF RunnerHasMessage
<1>4. m \in Message /\ stream'[m][1] = i
  <2>1. m \in Message
    BY <1>0, <1>3, CarryTypes, ServedFacts, EnvironmentAssumption, ZenonT(60) DEF TaskShape
  <2>. QED
    BY <1>3, <2>1, CarryTypes, StreamKept, ZenonT(60)
<1>5. attempt_worker'[r] = w
  BY <1>1, <1>3, CarryTypes, AttemptWorkerStays, ZenonT(60)
<1>6. ASSUME pending'[m] = w,
             \/ pc'[w] = "down"
             \/ \E t \in tasks'[w] : t.msg = m /\ t.at \in {"running", "executed"}
      PROVE  RunnerIsHeld(i)'
  <2>1. attempt_worker'[<<i, attempt_count'[i]>>] = w
    BY <1>2, <1>5, ZenonT(60)
  <2>2. RunnerHasMessage(i)'
    BY <1>4, <1>6, <2>1, ZenonT(60) DEF RunnerHasMessage
  <2>. QED
    BY <2>2, ZenonT(60) DEF RunnerIsHeld
<1>7. CASE pc[w] = "down"
  <2>1. Fate(m, w) /\ tasks[w] = {}
    BY <1>0, <1>3, <1>7, DeadFate, ZenonT(60) DEF OnlyDeadAreStale, Up
  <2>2. ASSUME NEW x \in Worker, claim_take(x), w \in stale[x]
        PROVE  FALSE
    <3>1. pc[x] = "xclaim" /\ Settled(pc[x], stale[x], RowsOf(lost[x]))
      BY <2>2, CarryTypes, SettledParts, ZenonT(60) DEF claim_take
    <3>. QED
      BY <1>1, <1>3, <2>2, <3>1, ZenonT(60) DEF Settled
  <2>. QED
    BY <1>6, <2>1, <2>2, ZenonT(60) DEF Fate
<1>8. ASSUME NEW t \in tasks[w], t.msg = m, t.at \in {"running", "executed"}
      PROVE  RunnerIsHeld(i)'
  <2>1. Fate(m, w) /\ Up(w) /\ \A u \in tasks[w] : u.msg = m => u = t
    BY <1>0, <1>8, LiveFate, ZenonT(60) DEF OnlyDeadAreStale, MessagesHeld, HoldsOwn
  <2>2. \/ pending'[m] = w /\ (t \in tasks'[w] \/ pc'[w] = "down")
        \/ task_starts(w, t) \/ task_expires(w, t) \/ task_is_refused(w, t)
        \/ execute(w, t) \/ task_finishes(w, t) \/ acknowledge(w, t)
    BY <2>1, ZenonT(60) DEF Fate, Up
  <2>3. ~task_starts(w, t) /\ ~task_expires(w, t) /\ ~task_is_refused(w, t) /\ ~acknowledge(w, t)
    BY <1>8 DEF task_starts, task_expires, task_is_refused, acknowledge
  <2>4. ~task_finishes(w, t)
    <3>1. InvocationOf(t) = i
      BY <1>3, <1>8, ZenonT(60) DEF InvocationOf
    <3>2. ASSUME task_finishes(w, t)
          PROVE  FALSE
      BY <3>1, <3>2, CarryTypes, task_finishes_Rows, ZenonT(60)
    <3>. QED
      BY <3>2, ZenonT(60)
  <2>5. CASE pending'[m] = w /\ (t \in tasks'[w] \/ pc'[w] = "down")
    BY <1>6, <1>8, <2>5, ZenonT(60)
  <2>6. CASE execute(w, t)
    <3>1. UNCHANGED pending /\ TaskGoes(w, t, "executed")
      BY <1>0, <2>6, Task_Moves, ZenonT(60) DEF execute, streamVars
    <3>2. \E u \in tasks'[w] : u.msg = m /\ u.at = "executed"
      BY <1>8, <3>1, ZenonT(60) DEF TaskGoes, Moves
    <3>3. \E u \in tasks'[w] : u.msg = m /\ u.at \in {"running", "executed"}
      BY <3>2
    <3>. QED
      BY <1>3, <1>6, <3>1, <3>3, ZenonT(60)
  <2>. QED
    BY <2>2, <2>3, <2>4, <2>5, <2>6, ZenonT(60)
<1>. QED
  BY <1>3, <1>7, <1>8, ZenonT(60)

(* Every running invocation stays held. *)
LEMMA Runner_Step ==
  ASSUME CrashesOnly, CarryInvariant, [Next]_vars, NEW i \in Invocation
  PROVE  RunnerIsHeld(i)'
BY NewRunner, KeptRunner, ZenonT(60) DEF RunnerIsHeld

(* A pool of one or two workers. *)
AtMostTwo == \A u, v, w \in Worker : u = v \/ v = w \/ u = w

(* In such a pool there is no dispute: a recovering worker is alive, the   *)
(* one it recovers is dead.                                                *)
LEMMA PairIsUndisputed ==
  ASSUME AtMostTwo, CarryInvariant
  PROVE  Undisputed
<1>1. ASSUME NEW x \in Worker, NEW y \in Worker, x # y, NEW v \in stale[x] \cap stale[y]
      PROVE  FALSE
  <2>1. v \in Worker /\ pc[v] = "down"
    BY <1>1, CarryTypes, ZenonT(60) DEF OnlyDeadAreStale, WorkerTypeOK
  <2>2. pc[x] # "down" /\ pc[y] # "down"
    BY <1>1, CompleteParts, ZenonT(60)
  <2>. QED
    BY <1>1, <2>1, <2>2, ZenonT(60) DEF AtMostTwo
<1>. QED
  BY <1>1 DEF Undisputed

(* Once a worker is marked OFFLINE it has nothing left. *)
LEMMA Carry_Offline ==
  ASSUME CarryInvariant
  PROVE  OfflineMeansRecovered
<1> SUFFICES ASSUME NEW w \in Worker, worker_status[w] = "OFFLINE"
             PROVE  PendingOf(w) = {} /\ find_running_attempts({w}) = {}
  BY ZenonT(60) DEF OfflineMeansRecovered
<1>1. pc[w] = "down" /\ \A m \in MessageId : pending[m] # w
  <2>1. pc[w] = "down"
    BY CarryTypes, CrashTypes, ZenonT(60) DEF RecoverySettled
  <2>2. \A m \in MessageId : ~HeldBy(m, w)
    BY <2>1, ZenonT(60) DEF HeldBy, Up
  <2>. QED
    BY <2>1, <2>2, CarryTypes, ZenonT(60) DEF MessagesHeld
<1>2. ASSUME NEW r \in AttemptRow, attempt_status[r] = "RUNNING", attempt_worker[r] = w
      PROVE  FALSE
  <2>1. r[1] \in Invocation /\ r[2] \in AttemptNumber /\ r = <<r[1], r[2]>>
    BY RowParts, ZenonT(60)
  <2> PICK i \in Invocation : i = r[1]
    BY <2>1, ZenonT(60)
  <2>2. status[i] = "RUNNING" /\ r = <<i, attempt_count[i]>>
    <3>1. RunningAttemptIsLast
      BY CarryTypes, ZenonT(60) DEF OwnershipInvariant
    <3>2. attempt_status[<<i, r[2]>>] = "RUNNING" /\ r = <<i, r[2]>>
      BY <1>2, <2>1, ZenonT(60)
    <3>3. status[i] = "RUNNING" /\ r[2] = attempt_count[i]
      BY <2>1, <3>1, <3>2, ZenonT(60) DEF RunningAttemptIsLast
    <3>. QED
      BY <3>2, <3>3, ZenonT(60)
  <2>3. RunnerHasMessage(i)
    BY <2>2, RunningAttempt
  <2>4. PICK m \in MessageId, x \in Worker :
          attempt_worker[<<i, attempt_count[i]>>] = x /\ pending[m] = x
    BY <2>3, ZenonT(60) DEF RunnerHasMessage
  <2>. QED
    BY <1>1, <1>2, <2>2, <2>4, ZenonT(60)
<1>. QED
  BY <1>1, <1>2, ZenonT(60) DEF PendingOf, find_running_attempts

(* A pending message carries its invocation. *)
LEMMA HeldCarries ==
  ASSUME CarryInvariant, NEW i \in Invocation, NEW m \in MessageId, NEW w \in Worker,
         pending[m] = w, stream[m][1] = i
  PROVE  Carried(i)
<1>1. (\E t \in tasks[w] : t.msg = m) \/ (~Up(w) /\ worker_status[w] = "ONLINE")
  BY CarryTypes DEF MessagesHeld, HeldBy
<1>. QED
  BY <1>1, ZenonT(60) DEF Carried

(* No accepted invocation is stranded. *)
LEMMA Carry_Stranded ==
  ASSUME CarryInvariant
  PROVE  NothingStranded
<1> SUFFICES ASSUME NEW i \in Invocation, status[i] \in {"QUEUED", "RUNNING", "RETRYING"}
             PROVE  Carried(i)
  BY DEF NothingStranded
<1>0. StoreTypeOK /\ StreamTypeOK(AttemptRow) /\ attempt_count[i] \in Nat
  BY CarryTypes DEF StoreTypeOK
<1>1. CASE status[i] = "RUNNING"
  <2>1. \E m \in MessageId, w \in Worker : pending[m] = w /\ stream[m][1] = i
    BY <1>1, RunningAttempt, ZenonT(60) DEF RunnerHasMessage
  <2>. QED
    BY <2>1, HeldCarries, ZenonT(60)
<1>2. CASE Reclaimable(i)
  BY <1>2, HeldCarries, ZenonT(60) DEF Reclaimable
<1>3. CASE status[i] # "RUNNING" /\ scheduled_retry(i)
  <2> PICK n, r : n = attempt_count[i] + 1 /\ r = <<i, n>>
    BY ZenonT(60)
  <2>1. r \in AttemptRow /\ dispatches[r] # "NONE" /\ r[1] = i /\ r[2] = n
    BY <1>3, ZenonT(60) DEF scheduled_retry, AttemptRow
  <2>2. CASE dispatches[r] \in {"delayed", "available"}
    BY <2>1, <2>2, ZenonT(60) DEF Carried
  <2>3. CASE dispatches[r] = "published"
    <3>1. PICK m \in Message : stream[m] = r
      BY <2>1, <2>3, CarryTypes, ZenonT(60) DEF LedgerInvariant, PublishedIsInStream, Message
    <3>2. m \in MessageId /\ m <= Len(stream) /\ m \in Nat
      BY CarryTypes, ServedFacts, ZenonT(60)
    <3>3. CASE cursor < m
      <4>1. m \in Undelivered
        BY <3>2, <3>3, ZenonT(60) DEF Undelivered
      <4>. QED
        BY <3>1, <4>1, ZenonT(60) DEF Carried
    <3>4. CASE ~(cursor < m)
      <4>1. m <= cursor
        BY <1>0, <3>2, <3>4, CursorIsNat, NatFacts, ZenonT(60)
      <4>2. ~Served(m)
        <5>1. ~(n <= attempt_count[i])
          BY <1>0, NatFacts, ZenonT(60)
        <5>2. ~is_terminal_status(status[i])
          BY ZenonT(60) DEF is_terminal_status, TERMINAL_INVOCATION_STATUSES
        <5>3. stream[m][1] = i /\ stream[m][2] = n
          BY <2>1, <3>1, ZenonT(60)
        <5>. QED
          BY <5>1, <5>2, <5>3, ZenonT(60) DEF Served
      <4>3. pending[m] # NoWorker
        BY <4>1, <4>2, CarryTypes, ZenonT(60) DEF AcknowledgedAreServed
      <4>4. pending[m] \in Worker
        BY <1>0, <3>2, <4>3, ZenonT(60) DEF StreamTypeOK
      <4>. QED
        BY <2>1, <3>1, <3>2, <4>4, HeldCarries, ZenonT(60)
    <3>. QED
      BY <3>3, <3>4, ZenonT(60)
  <2>4. dispatches[r] \in {"NONE", "delayed", "available", "published"}
    BY <1>0, <2>1 DEF StoreTypeOK, DispatchState
  <2>. QED
    BY <2>1, <2>2, <2>3, <2>4, ZenonT(60)
<1>4. status[i] # "RUNNING" => scheduled_retry(i) \/ Reclaimable(i)
  BY ZenonT(60) DEF CarryInvariant, WaiterIsCalled
<1>. QED
  BY <1>1, <1>2, <1>3, <1>4, ZenonT(60)
================================================================================
