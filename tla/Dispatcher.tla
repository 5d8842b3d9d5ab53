------------------------------- MODULE Dispatcher -------------------------------
(***************************************************************************)
(* The outbox dispatcher: InvocationOutboxDispatcher.dispatch_pending, run *)
(* in a loop by backend/app/dispatcher.py.  One call is one transaction.   *)
(* It locks a batch of due rows (FOR UPDATE SKIP LOCKED), publishes them   *)
(* one by one with XADD, and commits what happened to all at the end.      *)
(***************************************************************************)
EXTENDS InvocationStore, RedisStream

CONSTANTS DispatcherId,  \* dispatcher processes
          BatchSize      \* settings.dispatch_batch_size

ASSUME DispatcherAssumption == BatchSize \in Nat \ {0}

VARIABLES
  held,   \* rows locked by the open transaction of a dispatcher
  batch,  \* those not yet processed by its loop
  sent    \* those whose published_at is set in memory

dispatcherVars == <<held, batch, sent>>

DispatcherInit ==
  /\ held = [d \in DispatcherId |-> {}]
  /\ batch = [d \in DispatcherId |-> {}]
  /\ sent = [d \in DispatcherId |-> {}]

DispatcherTypeOK ==
  /\ held \in [DispatcherId -> SUBSET AttemptRow]
  /\ batch \in [DispatcherId -> SUBSET AttemptRow]
  /\ sent \in [DispatcherId -> SUBSET AttemptRow]

(* Mutant: leaves out the rows of invocations that have ended. *)
due_rows_live_only ==
  {r \in AttemptRow : /\ dispatches[r] = "available"
                      /\ ~is_terminal_status(status[r[1]])
                      /\ \A d \in DispatcherId : r \notin held[d]}

due_rows ==
  {r \in AttemptRow : /\ dispatches[r] = "available"
                      /\ \A d \in DispatcherId : r \notin held[d]}

(* SELECT ... LIMIT BatchSize FOR UPDATE SKIP LOCKED; created_at is        *)
(* abstracted, so any rows may come first.                                 *)
dispatch_select(d) ==
  /\ held[d] = {}
  /\ \E rows \in SUBSET due_rows \ {{}} :
       /\ \/ rows = due_rows /\ Cardinality(rows) <= BatchSize
          \/ Cardinality(rows) = BatchSize
       /\ held' = [held EXCEPT ![d] = rows]
       /\ batch' = [batch EXCEPT ![d] = rows]
  /\ UNCHANGED <<sent, storeVars, streamVars, faults>>

(* One iteration of the loop: the message is in the stream, the row is     *)
(* only changed in memory.                                                 *)
publish_invocation(d, r) ==
  /\ r \in batch[d]
  /\ xadd(r)
  /\ batch' = [batch EXCEPT ![d] = @ \ {r}]
  /\ sent' = [sent EXCEPT ![d] = @ \cup {r}]
  /\ UNCHANGED <<held, storeVars, faults>>

(* Mutant: sets published_at although the publish failed. *)
publish_fails_unnoticed(d, r) ==
  /\ r \in batch[d]
  /\ fault("publish")
  /\ xadd(r) \/ UNCHANGED streamVars
  /\ batch' = [batch EXCEPT ![d] = @ \ {r}]
  /\ sent' = [sent EXCEPT ![d] = @ \cup {r}]
  /\ UNCHANGED <<held, storeVars>>

(* InvocationQueuePublishError: the row keeps published_at NULL, although  *)
(* XADD may have taken effect before the connection failed.                *)
publish_fails(d, r) ==
  /\ r \in batch[d]
  /\ fault("publish")
  /\ xadd(r) \/ UNCHANGED streamVars
  /\ batch' = [batch EXCEPT ![d] = @ \ {r}]
  /\ UNCHANGED <<held, sent, storeVars>>

dispatch_commit(d) ==
  /\ held[d] # {}
  /\ batch[d] = {}
  /\ dispatches' = [r \in AttemptRow |->
                      IF r \in sent[d] THEN "published" ELSE dispatches[r]]
  /\ held' = [held EXCEPT ![d] = {}]
  /\ sent' = [sent EXCEPT ![d] = {}]
  /\ UNCHANGED <<batch, status, attempt_count, completed_at, expired,
                 attempt_status, attempt_worker, streamVars, faults>>

(* The process dies or the commit raises: PostgreSQL rolls back and frees  *)
(* the rows, Redis keeps the messages.                                     *)
dispatch_abort(d) ==
  /\ held[d] # {}
  /\ fault("dispatcher")
  /\ held' = [held EXCEPT ![d] = {}]
  /\ batch' = [batch EXCEPT ![d] = {}]
  /\ sent' = [sent EXCEPT ![d] = {}]
  /\ UNCHANGED <<storeVars, streamVars>>

DispatcherStep(d) ==
  \/ dispatch_select(d)
  \/ \E r \in AttemptRow : publish_invocation(d, r)
  \/ dispatch_commit(d)

DispatcherFault(d) ==
  \/ \E r \in AttemptRow : publish_fails(d, r)
  \/ dispatch_abort(d)
================================================================================
