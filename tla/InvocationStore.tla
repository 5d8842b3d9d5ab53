---------------------------- MODULE InvocationStore ----------------------------
(***************************************************************************)
(* The rows of PostgreSQL that decide what happens to an invocation: one   *)
(* row per invocation, one row per execution attempt (InvocationAttempt),  *)
(* and one outbox row per attempt to be published (InvocationDispatch).    *)
(*                                                                         *)
(* Every operator here is one database transaction of the code, or the     *)
(* decision a transaction takes after locking the invocation row with      *)
(* SELECT ... FOR UPDATE.  Processes and their interleavings are in        *)
(* Dispatcher, Worker and Platform.                                        *)
(***************************************************************************)
EXTENDS Environment

CONSTANTS Invocation,       \* invocations that clients may create
          MaxAttempts,      \* settings.default_max_attempts
          AttemptBound,     \* bound of the model: attempt rows per invocation
          RefreshesAttempt  \* does a locking SELECT reload an attempt row that
                            \* the session already holds?  See can_complete.

ASSUME StoreAssumption ==
  /\ MaxAttempts \in Nat \ {0}
  /\ AttemptBound \in Nat
  /\ MaxAttempts <= AttemptBound
  /\ RefreshesAttempt \in BOOLEAN

VARIABLES
  status,          \* invocations.status, "ABSENT" before the row exists
  attempt_count,   \* invocations.attempt_count
  completed_at,    \* invocations.completed_at IS NOT NULL
  expired,         \* invocations.deadline_at <= now
  attempt_status,  \* invocation_attempts.status, "NONE" where there is no row
  attempt_worker,  \* invocation_attempts.worker_id
  dispatches       \* the outbox row of an attempt: "NONE", "delayed" while
                   \* available_at > now, "available", "published"

storeVars == <<status, attempt_count, completed_at, expired,
               attempt_status, attempt_worker, dispatches>>

TERMINAL_INVOCATION_STATUSES == {"SUCCEEDED", "FAILED", "TIMEOUT", "CANCELED"}

InvocationStatus ==
  {"ABSENT", "QUEUED", "RUNNING", "RETRYING"} \cup TERMINAL_INVOCATION_STATUSES

InvocationAttemptStatus == {"NONE", "RUNNING", "SUCCEEDED", "FAILED", "TIMEOUT"}

DispatchState == {"NONE", "delayed", "available", "published"}

AttemptNumber == 1..AttemptBound

AttemptRow == Invocation \X AttemptNumber

(* What an execution returns: "RETRYABLE" is a FAILED result whose error   *)
(* type RetryPolicy retries, "FAILED" one that it does not.                *)
ExecutionResult == {"SUCCEEDED", "FAILED", "RETRYABLE", "TIMEOUT"}

StoreInit ==
  /\ status = [i \in Invocation |-> "ABSENT"]
  /\ attempt_count = [i \in Invocation |-> 0]
  /\ completed_at = [i \in Invocation |-> FALSE]
  /\ expired = [i \in Invocation |-> FALSE]
  /\ attempt_status = [r \in AttemptRow |-> "NONE"]
  /\ attempt_worker = [r \in AttemptRow |-> NoWorker]
  /\ dispatches = [r \in AttemptRow |-> "NONE"]

StoreTypeOK ==
  /\ status \in [Invocation -> InvocationStatus]
  /\ attempt_count \in [Invocation -> 0..AttemptBound]
  /\ completed_at \in [Invocation -> BOOLEAN]
  /\ expired \in [Invocation -> BOOLEAN]
  /\ attempt_status \in [AttemptRow -> InvocationAttemptStatus]
  /\ attempt_worker \in [AttemptRow -> Worker \cup {NoWorker}]
  /\ dispatches \in [AttemptRow -> DispatchState]

is_terminal_status(s) == s \in TERMINAL_INVOCATION_STATUSES

--------------------------------------------------------------------------------
(* The API commits the invocation and its first outbox row together. *)
create_invocation(i) ==
  /\ status[i] = "ABSENT"
  /\ status' = [status EXCEPT ![i] = "QUEUED"]
  /\ dispatches' = [dispatches EXCEPT ![<<i, 1>>] = "available"]
  /\ UNCHANGED <<attempt_count, completed_at, expired, attempt_status, attempt_worker>>

(* Time passes the end-to-end deadline of an invocation. *)
deadline_passes(i) ==
  /\ status[i] \notin {"ABSENT"} \cup TERMINAL_INVOCATION_STATUSES
  /\ ~expired[i]
  /\ expired' = [expired EXCEPT ![i] = TRUE]
  /\ UNCHANGED <<status, attempt_count, completed_at, attempt_status,
                 attempt_worker, dispatches>>

(* Time passes the available_at of a delayed outbox row. *)
backoff_elapses(r) ==
  /\ dispatches[r] = "delayed"
  /\ dispatches' = [dispatches EXCEPT ![r] = "available"]
  /\ UNCHANGED <<status, attempt_count, completed_at, expired, attempt_status,
                 attempt_worker>>

--------------------------------------------------------------------------------
(* Is there an outbox row for the next attempt already? *)
scheduled_retry(i) ==
  /\ attempt_count[i] + 1 \in AttemptNumber
  /\ dispatches[<<i, attempt_count[i] + 1>>] # "NONE"

(* Mutant: expects the attempt that was counted last. *)
start_verdict_off_by_one(i, n, recovered) ==
  LET expected == attempt_count[i]
  IN  IF \/ is_terminal_status(status[i])
         \/ status[i] = "RUNNING" /\ n <= attempt_count[i]
      THEN "acknowledge"
      ELSE IF expired[i] THEN "expire"
      ELSE IF status[i] \notin {"QUEUED", "RETRYING"} \/ n > expected THEN "raise"
      ELSE IF n < expected /\ (~recovered \/ scheduled_retry(i)) THEN "acknowledge"
      ELSE "start"

(* Mutant: takes the task of the next attempt for an obsolete one. *)
start_verdict_too_obsolete(i, n, recovered) ==
  LET expected == attempt_count[i] + 1
  IN  IF \/ is_terminal_status(status[i])
         \/ status[i] = "RUNNING" /\ n <= attempt_count[i]
      THEN "acknowledge"
      ELSE IF expired[i] THEN "expire"
      ELSE IF status[i] \notin {"QUEUED", "RETRYING"} \/ n > expected THEN "raise"
      ELSE IF n <= expected /\ ~recovered THEN "acknowledge"
      ELSE "start"

(* Mutant: looks at the deadline before the terminal statuses. *)
start_verdict_deadline_first(i, n, recovered) ==
  IF expired[i] THEN "expire"
  ELSE IF \/ is_terminal_status(status[i])
          \/ status[i] = "RUNNING" /\ n <= attempt_count[i]
  THEN "acknowledge"
  ELSE IF n > attempt_count[i] + 1 THEN "raise"
  ELSE IF n <= attempt_count[i] /\ (~recovered \/ scheduled_retry(i)) THEN "acknowledge"
  ELSE "start"

(* mark_running, the decision: what a task that names attempt n of         *)
(* invocation i finds under the row lock.  "acknowledge" stands for the    *)
(* obsolete task and for the terminal invocation, "raise" for an exception *)
(* that the task processor does not turn into an acknowledgement.          *)
start_verdict(i, n, recovered) ==
  LET expected == attempt_count[i] + 1
  IN  IF \/ is_terminal_status(status[i])
         \/ status[i] = "RUNNING" /\ n <= attempt_count[i]
      THEN "acknowledge"
      ELSE IF expired[i] THEN "expire"
      ELSE IF status[i] \notin {"QUEUED", "RETRYING"} \/ n > expected THEN "raise"
      ELSE IF n < expected /\ (~recovered \/ scheduled_retry(i)) THEN "acknowledge"
      ELSE "start"

(* Mutant: does not count the attempt. *)
mark_running_uncounted(i, w) ==
  LET n == attempt_count[i] + 1
  IN  /\ n \in AttemptNumber
      /\ status' = [status EXCEPT ![i] = "RUNNING"]
      /\ attempt_status' = [attempt_status EXCEPT ![<<i, n>>] = "RUNNING"]
      /\ attempt_worker' = [attempt_worker EXCEPT ![<<i, n>>] = w]
      /\ UNCHANGED <<attempt_count, completed_at, expired, dispatches>>

(* mark_running, the transaction of an accepted start: worker w begins the *)
(* next attempt of i.                                                      *)
mark_running(i, w) ==
  LET n == attempt_count[i] + 1
  IN  /\ n \in AttemptNumber
      /\ status' = [status EXCEPT ![i] = "RUNNING"]
      /\ attempt_count' = [attempt_count EXCEPT ![i] = n]
      /\ attempt_status' = [attempt_status EXCEPT ![<<i, n>>] = "RUNNING"]
      /\ attempt_worker' = [attempt_worker EXCEPT ![<<i, n>>] = w]
      /\ UNCHANGED <<completed_at, expired, dispatches>>

(* mark_running, the transaction that ends an expired invocation. *)
mark_expired(i) ==
  /\ status' = [status EXCEPT ![i] = "TIMEOUT"]
  /\ completed_at' = [completed_at EXCEPT ![i] = TRUE]
  /\ UNCHANGED <<attempt_count, expired, attempt_status, attempt_worker, dispatches>>

--------------------------------------------------------------------------------
(* Mutant: one retry too many. *)
should_retry_once_more(n, result) == n <= MaxAttempts /\ result = "RETRYABLE"

(* RetryPolicy.decide *)
should_retry(n, result) == n < MaxAttempts /\ result = "RETRYABLE"

AttemptStatusOf(result) == IF result = "RETRYABLE" THEN "FAILED" ELSE result

(* mark_finished, the decision.  The task processor runs mark_running and  *)
(* mark_finished in one session made with expire_on_commit=False and keeps *)
(* the attempt object in between, so the locking SELECT of the attempt     *)
(* returns the object with the status it had when it was created; only     *)
(* with populate_existing would it be reloaded (RefreshesAttempt).  The    *)
(* invocation object is not kept and is read afresh.  The outbox insert    *)
(* fails on an existing row of the unique (invocation_id, attempt_number). *)
can_complete(i, n, result) ==
  /\ status[i] = "RUNNING"
  /\ RefreshesAttempt => attempt_status[<<i, n>>] = "RUNNING"
  /\ should_retry(n, result) => dispatches[<<i, n + 1>>] = "NONE"

(* Mutant: schedules the retry but leaves the invocation RUNNING. *)
mark_finished_still_running(i, n, result) ==
  LET retry == should_retry(n, result)
  IN  /\ status' = IF retry THEN status
                            ELSE [status EXCEPT ![i] = AttemptStatusOf(result)]
      /\ completed_at' = [completed_at EXCEPT ![i] = ~retry]
      /\ attempt_status' = [attempt_status EXCEPT ![<<i, n>>] = AttemptStatusOf(result)]
      /\ dispatches' = IF retry THEN [dispatches EXCEPT ![<<i, n + 1>>] = "delayed"]
                                ELSE dispatches
      /\ UNCHANGED <<attempt_count, expired, attempt_worker>>

(* Mutant: moves the invocation to RETRYING without an outbox row. *)
mark_finished_unscheduled(i, n, result) ==
  LET retry == should_retry(n, result)
  IN  /\ status' = [status EXCEPT
                      ![i] = IF retry THEN "RETRYING" ELSE AttemptStatusOf(result)]
      /\ completed_at' = [completed_at EXCEPT ![i] = ~retry]
      /\ attempt_status' = [attempt_status EXCEPT ![<<i, n>>] = AttemptStatusOf(result)]
      /\ UNCHANGED <<attempt_count, expired, attempt_worker, dispatches>>

(* mark_finished, the transaction. *)
mark_finished(i, n, result) ==
  LET retry == should_retry(n, result)
  IN  /\ status' = [status EXCEPT
                      ![i] = IF retry THEN "RETRYING" ELSE AttemptStatusOf(result)]
      /\ completed_at' = [completed_at EXCEPT ![i] = ~retry]
      /\ attempt_status' = [attempt_status EXCEPT ![<<i, n>>] = AttemptStatusOf(result)]
      /\ dispatches' = IF retry THEN [dispatches EXCEPT ![<<i, n + 1>>] = "delayed"]
                                ELSE dispatches
      /\ UNCHANGED <<attempt_count, expired, attempt_worker>>

--------------------------------------------------------------------------------
(* recover_stale_workers, the attempts it selects: those still RUNNING     *)
(* that belong to the given workers.                                       *)
find_running_attempts(workers) ==
  {r \in AttemptRow : attempt_status[r] = "RUNNING" /\ attempt_worker[r] \in workers}

(* Mutant: takes the last allowed attempt for one that may be retried. *)
lost_attempts_off_by_one(rows) ==
  {[row |-> r, exhausted |-> attempt_count[r[1]] > MaxAttempts] :
     r \in {x \in rows : /\ status[x[1]] = "RUNNING"
                         /\ \A y \in rows : y[1] = x[1] => x[2] <= y[2]}}

(* recover_stale_workers, the loop over the selected attempts: it reads    *)
(* each invocation without a lock and decides its fate.  A second attempt  *)
(* of the same invocation finds the object changed in memory and is        *)
(* skipped.                                                                *)
lost_attempts(rows) ==
  {[row |-> r, exhausted |-> attempt_count[r[1]] >= MaxAttempts] :
     r \in {x \in rows : /\ status[x[1]] = "RUNNING"
                         /\ \A y \in rows : y[1] = x[1] => x[2] <= y[2]}}

(* Mutant: ends the attempts and leaves their invocations RUNNING. *)
write_lost_attempts_halfway(lost) ==
  /\ attempt_status' = [r \in AttemptRow |->
       IF \E v \in lost : v.row = r THEN "FAILED" ELSE attempt_status[r]]
  /\ UNCHANGED <<status, attempt_count, completed_at, expired, attempt_worker, dispatches>>

(* Mutant: retries the invocations whatever their attempts. *)
write_lost_attempts_unbounded(lost) ==
  /\ attempt_status' = [r \in AttemptRow |->
       IF \E v \in lost : v.row = r THEN "FAILED" ELSE attempt_status[r]]
  /\ status' = [i \in Invocation |->
       IF \E v \in lost : v.row[1] = i THEN "RETRYING" ELSE status[i]]
  /\ UNCHANGED <<attempt_count, completed_at, expired, attempt_worker, dispatches>>

(* recover_stale_workers, the commit: writes what was decided, whatever    *)
(* the rows hold by now.                                                   *)
write_lost_attempts(lost) ==
  LET exhausted(i) == \E v \in lost : v.row[1] = i /\ v.exhausted
      retried(i)   == \E v \in lost : v.row[1] = i /\ ~v.exhausted
  IN  /\ attempt_status' = [r \in AttemptRow |->
           IF \E v \in lost : v.row = r THEN "FAILED" ELSE attempt_status[r]]
      /\ status' = [i \in Invocation |->
           IF exhausted(i) THEN "FAILED"
           ELSE IF retried(i) THEN "RETRYING" ELSE status[i]]
      /\ completed_at' = [i \in Invocation |-> exhausted(i) \/ completed_at[i]]
      /\ UNCHANGED <<attempt_count, expired, attempt_worker, dispatches>>
================================================================================
