--------------------------------- MODULE Worker ---------------------------------
(***************************************************************************)
(* The worker process: its row in PostgreSQL, its heartbeat loop, its main *)
(* loop (process_worker_once: recover stale workers, reclaim their         *)
(* messages, mark them offline, read new messages), and the task           *)
(* coroutines the main loop awaits in batches with asyncio.gather.         *)
(***************************************************************************)
EXTENDS InvocationStore, RedisStream

CONSTANTS MaxConcurrency,            \* settings.default_max_concurrency
          PendingMessageClaimCount   \* settings.pending_message_claim_count

ASSUME WorkerAssumption ==
  /\ MaxConcurrency \in Nat \ {0}
  /\ PendingMessageClaimCount \in Nat \ {0}

VARIABLES
  worker_status,  \* workers.status: "ABSENT", "ONLINE" (IDLE or RUNNING), "OFFLINE"
  fresh,          \* workers.last_heartbeat >= the stale cutoff
  beating,        \* the heartbeat loop of the process is alive
  pc,             \* where the main loop is
  tasks,          \* the task coroutines of the process
  stale,          \* recovery_summary: the stale workers being recovered
  lost,           \* the attempts being recovered in the open transaction
  names,          \* consumers the claim call has still to visit
  listed,         \* the message ids XPENDING returned
  claimed,        \* len(recovered_tasks) of the claim call
  recovered_any   \* recovered_total > 0

rowVars == <<worker_status, fresh>>
loopVars == <<pc, stale, lost, names, listed, claimed, recovered_any>>
workerVars == <<rowVars, beating, tasks, loopVars>>

LoopPoint == {"new", "top", "load", "commit", "claim", "xclaim", "process",
              "offline", "read", "stopping", "down"}

(* A task coroutine: the message it was given, whether it came from a      *)
(* reclaim, where it is ("received" before mark_running, "running" while   *)
(* the runtime executes, "executed" before mark_finished, "ack" before     *)
(* XACK), the attempt it runs, its result, and whether the main loop still *)
(* awaits it.                                                              *)
Task == [msg : MessageId, recovered : BOOLEAN,
         at : {"received", "running", "executed", "ack"},
         attempt : 0..AttemptBound, result : ExecutionResult \cup {"NONE"},
         awaited : BOOLEAN]

NewTask(m, recovered) ==
  [msg |-> m, recovered |-> recovered, at |-> "received",
   attempt |-> 0, result |-> "NONE", awaited |-> TRUE]

InvocationOf(t) == stream[t.msg][1]

claim_count ==
  IF PendingMessageClaimCount < MaxConcurrency THEN PendingMessageClaimCount
                                               ELSE MaxConcurrency

WorkerInit ==
  /\ worker_status = [w \in Worker |-> "ABSENT"]
  /\ fresh = [w \in Worker |-> FALSE]
  /\ beating = [w \in Worker |-> FALSE]
  /\ pc = [w \in Worker |-> "new"]
  /\ tasks = [w \in Worker |-> {}]
  /\ stale = [w \in Worker |-> {}]
  /\ lost = [w \in Worker |-> {}]
  /\ names = [w \in Worker |-> {}]
  /\ listed = [w \in Worker |-> {}]
  /\ claimed = [w \in Worker |-> 0]
  /\ recovered_any = [w \in Worker |-> FALSE]

WorkerTypeOK ==
  /\ worker_status \in [Worker -> {"ABSENT", "ONLINE", "OFFLINE"}]
  /\ fresh \in [Worker -> BOOLEAN]
  /\ beating \in [Worker -> BOOLEAN]
  /\ pc \in [Worker -> LoopPoint]
  /\ tasks \in [Worker -> SUBSET Task]
  /\ stale \in [Worker -> SUBSET Worker]
  /\ lost \in [Worker -> SUBSET [row : AttemptRow, exhausted : BOOLEAN]]
  /\ names \in [Worker -> SUBSET Worker]
  /\ listed \in [Worker -> SUBSET MessageId]
  /\ claimed \in [Worker -> Nat]
  /\ recovered_any \in [Worker -> BOOLEAN]

Up(w) == pc[w] \notin {"new", "down"}

(* The row of v is locked FOR UPDATE by an open recovery transaction. *)
Locked(v) == \E w \in Worker : pc[w] \in {"load", "commit"} /\ v \in stale[w]

(* The local variables of process_worker_once are gone; the loop is at l. *)
EndIteration(w, l) ==
  /\ pc' = [pc EXCEPT ![w] = l]
  /\ stale' = [stale EXCEPT ![w] = {}]
  /\ lost' = [lost EXCEPT ![w] = {}]
  /\ names' = [names EXCEPT ![w] = {}]
  /\ listed' = [listed EXCEPT ![w] = {}]
  /\ claimed' = [claimed EXCEPT ![w] = 0]
  /\ recovered_any' = [recovered_any EXCEPT ![w] = FALSE]

--------------------------------------------------------------------------------
(* Registration and heartbeats. *)
register_worker(w) ==
  /\ pc[w] = "new"
  /\ pc' = [pc EXCEPT ![w] = "top"]
  /\ worker_status' = [worker_status EXCEPT ![w] = "ONLINE"]
  /\ fresh' = [fresh EXCEPT ![w] = TRUE]
  /\ beating' = [beating EXCEPT ![w] = TRUE]
  /\ UNCHANGED <<tasks, stale, lost, names, listed, claimed, recovered_any,
                 storeVars, streamVars, faults>>

(* Writes last_heartbeat and status whatever the row holds: an OFFLINE row *)
(* comes back.                                                             *)
record_heartbeat(w) ==
  /\ Up(w) /\ pc[w] # "stopping"
  /\ beating[w]
  /\ ~Locked(w)
  /\ worker_status' = [worker_status EXCEPT ![w] = "ONLINE"]
  /\ fresh' = [fresh EXCEPT ![w] = TRUE]
  /\ UNCHANGED <<beating, tasks, loopVars, storeVars, streamVars, faults>>

(* stale_worker_seconds pass since the last heartbeat.  The cutoff is      *)
(* three heartbeat intervals: a live worker whose heartbeat loop runs only *)
(* gets there by a stall.  The age of an OFFLINE row is never read.        *)
heartbeat_ages(w) ==
  /\ worker_status[w] = "ONLINE"
  /\ fresh[w]
  /\ IF Up(w) /\ beating[w] THEN fault("stall") ELSE UNCHANGED faults
  /\ fresh' = [fresh EXCEPT ![w] = FALSE]
  /\ UNCHANGED <<worker_status, beating, tasks, loopVars, storeVars, streamVars>>

(* run_heartbeat_loop handles no exception. *)
heartbeat_loop_dies(w) ==
  /\ Up(w)
  /\ beating[w]
  /\ fault("heartbeat")
  /\ beating' = [beating EXCEPT ![w] = FALSE]
  /\ UNCHANGED <<rowVars, tasks, loopVars, storeVars, streamVars>>

--------------------------------------------------------------------------------
(* Mutant: without the cutoff. *)
find_stale_workers_any_age ==
  {v \in Worker : worker_status[v] = "ONLINE" /\ ~Locked(v)}

(* The main loop. *)
find_stale_workers ==
  {v \in Worker : worker_status[v] = "ONLINE" /\ ~fresh[v] /\ ~Locked(v)}

(* recover_stale_workers up to find_running_attempts: the transaction now  *)
(* holds the locks on the stale rows.                                      *)
recover_select(w) ==
  /\ pc[w] = "top"
  /\ find_stale_workers # {}
  /\ pc' = [pc EXCEPT ![w] = "load"]
  /\ stale' = [stale EXCEPT ![w] = find_stale_workers]
  /\ lost' = [lost EXCEPT ![w] =
                {[row |-> r, exhausted |-> FALSE] :
                   r \in find_running_attempts(find_stale_workers)}]
  /\ UNCHANGED <<rowVars, beating, tasks, names, listed, claimed, recovered_any,
                 storeVars, streamVars, faults>>

recover_nothing(w) ==
  /\ pc[w] = "top"
  /\ find_stale_workers = {}
  /\ pc' = [pc EXCEPT ![w] = "read"]
  /\ UNCHANGED <<rowVars, beating, tasks, stale, lost, names, listed, claimed,
                 recovered_any, storeVars, streamVars, faults>>

recover_load(w) ==
  /\ pc[w] = "load"
  /\ pc' = [pc EXCEPT ![w] = "commit"]
  /\ lost' = [lost EXCEPT ![w] = lost_attempts({v.row : v \in lost[w]})]
  /\ UNCHANGED <<rowVars, beating, tasks, stale, names, listed, claimed,
                 recovered_any, storeVars, streamVars, faults>>

recover_commit(w) ==
  /\ pc[w] = "commit"
  /\ write_lost_attempts(lost[w])
  /\ pc' = [pc EXCEPT ![w] = "claim"]
  /\ lost' = [lost EXCEPT ![w] = {}]
  /\ names' = [names EXCEPT ![w] = stale[w]]
  /\ UNCHANGED <<rowVars, beating, tasks, stale, listed, claimed, recovered_any,
                 streamVars, faults>>

(* claim_tasks_from_consumers, XPENDING for one consumer.  The consumers   *)
(* come ordered by last_heartbeat, which is abstracted: any may be next.   *)
claim_list(w) ==
  /\ pc[w] = "claim"
  /\ claimed[w] < claim_count
  /\ \E v \in names[w] :
       LET msgs == Oldest(PendingOf(v), claim_count - claimed[w])
       IN  /\ names' = [names EXCEPT ![w] = @ \ {v}]
           /\ listed' = [listed EXCEPT ![w] = msgs]
           /\ pc' = [pc EXCEPT ![w] = IF msgs = {} THEN "claim" ELSE "xclaim"]
  /\ UNCHANGED <<rowVars, beating, tasks, stale, lost, claimed, recovered_any,
                 storeVars, streamVars, faults>>

(* claim_tasks_from_consumers, XCLAIM of the listed messages. *)
claim_take(w) ==
  /\ pc[w] = "xclaim"
  /\ xclaim(w, listed[w])
  /\ tasks' = [tasks EXCEPT ![w] =
                 @ \cup {NewTask(m, TRUE) : m \in claimable(listed[w])}]
  /\ claimed' = [claimed EXCEPT ![w] = @ + Cardinality(claimable(listed[w]))]
  /\ listed' = [listed EXCEPT ![w] = {}]
  /\ pc' = [pc EXCEPT ![w] = "claim"]
  /\ UNCHANGED <<rowVars, beating, stale, lost, names, recovered_any, storeVars, faults>>

(* The claim call returns: with tasks to process, or with none. *)
claim_return(w) ==
  /\ pc[w] = "claim"
  /\ claimed[w] >= claim_count \/ names[w] = {}
  /\ pc' = [pc EXCEPT ![w] = IF claimed[w] = 0 THEN "offline" ELSE "process"]
  /\ UNCHANGED <<rowVars, beating, tasks, stale, lost, names, listed, claimed,
                 recovered_any, storeVars, streamVars, faults>>

(* Mutant: ends the reclaim after one batch. *)
recovered_batch_done_once(w) ==
  /\ pc[w] = "process"
  /\ stale[w] # {}
  /\ \A t \in tasks[w] : ~t.awaited
  /\ recovered_any' = [recovered_any EXCEPT ![w] = TRUE]
  /\ claimed' = [claimed EXCEPT ![w] = 0]
  /\ names' = [names EXCEPT ![w] = stale[w]]
  /\ pc' = [pc EXCEPT ![w] = "offline"]
  /\ UNCHANGED <<rowVars, beating, tasks, stale, lost, listed, storeVars, streamVars,
                 faults>>

(* gather returns for a batch of reclaimed tasks: a full batch makes the   *)
(* loop claim again, a short one ends the reclaim.                         *)
recovered_batch_done(w) ==
  /\ pc[w] = "process"
  /\ stale[w] # {}
  /\ \A t \in tasks[w] : ~t.awaited
  /\ recovered_any' = [recovered_any EXCEPT ![w] = TRUE]
  /\ claimed' = [claimed EXCEPT ![w] = 0]
  /\ names' = [names EXCEPT ![w] = stale[w]]
  /\ pc' = [pc EXCEPT ![w] = IF claimed[w] < claim_count THEN "offline" ELSE "claim"]
  /\ UNCHANGED <<rowVars, beating, tasks, stale, lost, listed, storeVars, streamVars,
                 faults>>

(* Unconditional: the heartbeat is not looked at again. *)
mark_workers_offline(w) ==
  /\ pc[w] = "offline"
  /\ \A v \in stale[w] : ~Locked(v)
  /\ worker_status' = [v \in Worker |->
                         IF v \in stale[w] THEN "OFFLINE" ELSE worker_status[v]]
  /\ EndIteration(w, IF recovered_any[w] THEN "top" ELSE "read")
  /\ UNCHANGED <<fresh, beating, tasks, storeVars, streamVars, faults>>

(* XREADGROUP with ">": only messages that no consumer has had. *)
read_new_tasks(w) ==
  /\ pc[w] = "read"
  /\ Undelivered # {}
  /\ xreadgroup(w, MaxConcurrency)
  /\ tasks' = [tasks EXCEPT ![w] =
                 @ \cup {NewTask(m, FALSE) : m \in next_messages(MaxConcurrency)}]
  /\ pc' = [pc EXCEPT ![w] = "process"]
  /\ UNCHANGED <<rowVars, beating, stale, lost, names, listed, claimed,
                 recovered_any, storeVars, faults>>

read_nothing(w) ==
  /\ pc[w] = "read"
  /\ Undelivered = {}
  /\ pc' = [pc EXCEPT ![w] = "top"]
  /\ UNCHANGED <<rowVars, beating, tasks, stale, lost, names, listed, claimed,
                 recovered_any, storeVars, streamVars, faults>>

(* Mutant: does not wait for the batch. *)
new_batch_done_early(w) ==
  /\ pc[w] = "process"
  /\ stale[w] = {}
  /\ pc' = [pc EXCEPT ![w] = "top"]
  /\ UNCHANGED <<rowVars, beating, tasks, stale, lost, names, listed, claimed,
                 recovered_any, storeVars, streamVars, faults>>

new_batch_done(w) ==
  /\ pc[w] = "process"
  /\ stale[w] = {}
  /\ \A t \in tasks[w] : ~t.awaited
  /\ pc' = [pc EXCEPT ![w] = "top"]
  /\ UNCHANGED <<rowVars, beating, tasks, stale, lost, names, listed, claimed,
                 recovered_any, storeVars, streamVars, faults>>

--------------------------------------------------------------------------------
(* The task coroutines: WorkerTaskProcessor.process_tasks on one task. *)
Runs(w, t) == t \in tasks[w] /\ (t.awaited => pc[w] = "process")

Becomes(w, t, u) == tasks' = [tasks EXCEPT ![w] = (@ \ {t}) \cup {u}]

TaskVerdict(t) == start_verdict(InvocationOf(t), stream[t.msg][2], t.recovered)

(* Inserting the attempt takes a key lock on the worker's row, so a        *)
(* recovery transaction that holds that row delays it.                     *)
task_starts(w, t) ==
  /\ Runs(w, t) /\ t.at = "received"
  /\ TaskVerdict(t) = "start"
  /\ ~Locked(w)
  /\ mark_running(InvocationOf(t), w)
  /\ Becomes(w, t, [t EXCEPT !.at = "running",
                             !.attempt = attempt_count[InvocationOf(t)] + 1])
  /\ UNCHANGED <<rowVars, beating, loopVars, streamVars, faults>>

task_expires(w, t) ==
  /\ Runs(w, t) /\ t.at = "received"
  /\ TaskVerdict(t) = "expire"
  /\ mark_expired(InvocationOf(t))
  /\ Becomes(w, t, [t EXCEPT !.at = "ack"])
  /\ UNCHANGED <<rowVars, beating, loopVars, streamVars, faults>>

(* Mutant: drops the refused task without acknowledging its message. *)
task_is_refused_silently(w, t) ==
  /\ Runs(w, t) /\ t.at = "received"
  /\ TaskVerdict(t) = "acknowledge"
  /\ tasks' = [tasks EXCEPT ![w] = @ \ {t}]
  /\ UNCHANGED <<rowVars, beating, loopVars, storeVars, streamVars, faults>>

task_is_refused(w, t) ==
  /\ Runs(w, t) /\ t.at = "received"
  /\ TaskVerdict(t) = "acknowledge"
  /\ Becomes(w, t, [t EXCEPT !.at = "ack"])
  /\ UNCHANGED <<rowVars, beating, loopVars, storeVars, streamVars, faults>>

(* The runtime returns.  Its timeout is what is left of the deadline when  *)
(* it is called, and counts from when the container has started: also      *)
(* after the deadline any result may come back.                            *)
execute(w, t) ==
  /\ Runs(w, t) /\ t.at = "running"
  /\ \E result \in ExecutionResult :
       Becomes(w, t, [t EXCEPT !.at = "executed", !.result = result])
  /\ UNCHANGED <<rowVars, beating, loopVars, storeVars, streamVars, faults>>

task_finishes(w, t) ==
  /\ Runs(w, t) /\ t.at = "executed"
  /\ can_complete(InvocationOf(t), t.attempt, t.result)
  /\ mark_finished(InvocationOf(t), t.attempt, t.result)
  /\ Becomes(w, t, [t EXCEPT !.at = "ack"])
  /\ UNCHANGED <<rowVars, beating, loopVars, streamVars, faults>>

acknowledge(w, t) ==
  /\ Runs(w, t) /\ t.at = "ack"
  /\ xack(t.msg)
  /\ tasks' = [tasks EXCEPT ![w] = @ \ {t}]
  /\ UNCHANGED <<rowVars, beating, loopVars, storeVars, faults>>

(* A task raises.  If the main loop awaits it, gather raises at once, the  *)
(* iteration is abandoned and the other tasks of the batch go on unawaited.*)
Unawaited(ts) == {[t EXCEPT !.awaited = FALSE] : t \in ts}

Raise(w, t) ==
  /\ IF t.awaited
     THEN /\ tasks' = [tasks EXCEPT ![w] = Unawaited(@ \ {t})]
          /\ EndIteration(w, "top")
     ELSE /\ tasks' = [tasks EXCEPT ![w] = @ \ {t}]
          /\ UNCHANGED loopVars
  /\ UNCHANGED <<rowVars, beating, storeVars, streamVars>>

(* InvocationCannotStartError of a live invocation, or                     *)
(* InvocationCannotCompleteError.                                          *)
task_is_rejected(w, t) ==
  /\ Runs(w, t)
  /\ \/ t.at = "received" /\ TaskVerdict(t) = "raise"
     \/ t.at = "executed" /\ ~can_complete(InvocationOf(t), t.attempt, t.result)
  /\ Raise(w, t)
  /\ UNCHANGED faults

(* A database or Redis call of the task raises: before it has any effect,  *)
(* or after the commit, when the row is refreshed.                         *)
task_call_fails(w, t) ==
  /\ Runs(w, t)
  /\ fault("call")
  /\ Raise(w, t)

(* A call of the main loop raises; messages claimed but not yet handed to  *)
(* gather stay in the pending list without a task.                         *)
loop_call_fails(w) ==
  /\ pc[w] \in {"load", "commit", "claim", "xclaim", "offline"}
  /\ fault("call")
  /\ EndIteration(w, "top")
  /\ tasks' = [tasks EXCEPT ![w] = {t \in @ : ~t.awaited}]
  /\ UNCHANGED <<rowVars, beating, storeVars, streamVars>>

(* The connection breaks after Redis has delivered the new messages.       *)
read_reply_lost(w) ==
  /\ pc[w] = "read"
  /\ Undelivered # {}
  /\ fault("call")
  /\ xreadgroup(w, MaxConcurrency)
  /\ EndIteration(w, "top")
  /\ UNCHANGED <<rowVars, beating, tasks, storeVars>>

--------------------------------------------------------------------------------
(* The end of a process. *)
crash(w) ==
  /\ Up(w)
  /\ fault("crash")
  /\ EndIteration(w, "down")
  /\ tasks' = [tasks EXCEPT ![w] = {}]
  /\ beating' = [beating EXCEPT ![w] = FALSE]
  /\ UNCHANGED <<rowVars, storeVars, streamVars>>

(* SIGINT cancels the main loop and the batch it awaits. *)
interrupt(w) ==
  /\ Up(w) /\ pc[w] # "stopping"
  /\ fault("stop")
  /\ EndIteration(w, "stopping")
  /\ tasks' = [tasks EXCEPT ![w] = {t \in @ : ~t.awaited}]
  /\ UNCHANGED <<rowVars, beating, storeVars, streamVars>>

(* The finally block of run_worker: awaiting a heartbeat task that failed  *)
(* raises again, and then mark_worker_offline is not reached.              *)
mark_worker_offline(w) ==
  /\ pc[w] = "stopping"
  /\ ~Locked(w)
  /\ worker_status' = IF beating[w] THEN [worker_status EXCEPT ![w] = "OFFLINE"]
                                    ELSE worker_status
  /\ fresh' = [fresh EXCEPT ![w] = beating[w] \/ @]
  /\ EndIteration(w, "down")
  /\ tasks' = [tasks EXCEPT ![w] = {}]
  /\ beating' = [beating EXCEPT ![w] = FALSE]
  /\ UNCHANGED <<storeVars, streamVars, faults>>

--------------------------------------------------------------------------------
LoopStep(w) ==
  \/ recover_select(w) \/ recover_nothing(w) \/ recover_load(w) \/ recover_commit(w)
  \/ claim_list(w) \/ claim_take(w) \/ claim_return(w) \/ recovered_batch_done(w)
  \/ mark_workers_offline(w)
  \/ read_new_tasks(w) \/ read_nothing(w) \/ new_batch_done(w)
  \/ mark_worker_offline(w)

TaskStep(w, t) ==
  \/ task_starts(w, t) \/ task_expires(w, t) \/ task_is_refused(w, t)
  \/ execute(w, t) \/ task_finishes(w, t) \/ task_is_rejected(w, t)
  \/ acknowledge(w, t)

WorkerFault(w) ==
  \/ \E t \in tasks[w] : task_call_fails(w, t)
  \/ loop_call_fails(w) \/ read_reply_lost(w)
  \/ heartbeat_loop_dies(w) \/ crash(w) \/ interrupt(w)
================================================================================
