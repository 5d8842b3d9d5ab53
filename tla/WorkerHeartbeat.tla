---------------------------- MODULE WorkerHeartbeat ----------------------------
(***************************************************************************)
(* The row of one worker in the table workers, and everybody who writes    *)
(* it: the worker's heartbeat loop, its shutdown, and the peers that take  *)
(* it for lost.  The heartbeat reports what the tasks of the process have  *)
(* counted in WorkerRuntimeState; the status page and the recovery judge   *)
(* the worker by the row.  Rows of different workers share nothing.        *)
(*                                                                         *)
(* A heartbeat is not atomic: the counters are read when it is called,     *)
(* then the row is loaded, then the columns that differ from what was      *)
(* loaded are written (the unit of work of SQLAlchemy), so that a column   *)
(* somebody else has changed meanwhile may keep that change.  Time is kept *)
(* as ages, which stop to matter beyond the stale cutoff.                  *)
(***************************************************************************)
EXTENDS Integers

CONSTANTS Task,          \* the tasks the process may have in hand at once
          Peer,          \* workers that may recover this one
          stale_after    \* stale_worker_seconds

ASSUME HeartbeatAssumption == stale_after \in Nat

VARIABLES
  process,        \* "running", "cancelling" its tasks, "stopping" the loop,
                  \*   "closing" the row, "stopped" or "gone"
  executing,      \* the tasks inside the try block of process_tasks
  runtime_state,  \* WorkerRuntimeState of the process
  beat,           \* where run_heartbeat_loop is
  sent, loaded,   \* of a heartbeat or shutdown under way: what it reports,
                  \*   and the row as it was loaded
  stamp,          \* how long ago it took the time it will write
  row,            \* the columns status and active_invocations
  age,            \* how long ago last_heartbeat is
  suspects        \* peers that have selected the row as stale

processVars == <<process, executing, runtime_state>>
writerVars == <<beat, sent, loaded, stamp>>
rowVars == <<row, age>>
heartbeatVars == <<processVars, writerVars, rowVars, suspects>>

Report(s, n) == [status |-> s, active_invocations |-> n]
Idle == Report("IDLE", 0)
Offline == Report("OFFLINE", 0)

Old == stale_after + 1

(* register_worker has committed the row. *)
HeartbeatInit ==
  /\ process = "running"
  /\ executing = {}
  /\ runtime_state = Idle
  /\ beat = "wait"
  /\ sent = Idle /\ loaded = Idle
  /\ row = Idle
  /\ age = 0 /\ stamp = 0
  /\ suspects = {}

--------------------------------------------------------------------------------
mark_task_started ==
  runtime_state' = Report("RUNNING", runtime_state.active_invocations + 1)

mark_task_finished ==
  LET n == runtime_state.active_invocations
      left == IF n > 0 THEN n - 1 ELSE 0
  IN  runtime_state' = Report(IF left = 0 THEN "IDLE" ELSE "RUNNING", left)

(* A task enters the try block; also one that a failed batch has left      *)
(* behind, while the process stops.                                        *)
on_task_started(t) ==
  /\ process # "gone"
  /\ t \in Task \ executing
  /\ executing' = executing \cup {t}
  /\ mark_task_started
  /\ UNCHANGED <<process, writerVars, rowVars, suspects>>

(* It leaves the try block, by its result, an error or its cancellation. *)
on_task_finished(t) ==
  /\ t \in executing
  /\ executing' = executing \ {t}
  /\ mark_task_finished
  /\ UNCHANGED <<process, writerVars, rowVars, suspects>>

--------------------------------------------------------------------------------
(* The loop calls record_worker_heartbeat: the counters are its arguments. *)
heartbeat_begins ==
  /\ process \in {"running", "cancelling"}
  /\ beat = "wait"
  /\ beat' = "load"
  /\ sent' = runtime_state
  /\ UNCHANGED <<processVars, loaded, stamp, rowVars, suspects>>

heartbeat_loads ==
  /\ beat = "load"
  /\ beat' = "write"
  /\ loaded' = row
  /\ UNCHANGED <<processVars, sent, stamp, rowVars, suspects>>

(* The update writes the columns that differ from the row as it was loaded,*)
(* and the time that was taken then.                                       *)
Update(new) ==
  /\ row' = [c \in DOMAIN row |-> IF new[c] # loaded[c] THEN new[c] ELSE row[c]]
  /\ age' = stamp
  /\ stamp' = 0

(* Mutant: reports the number of tasks, and leaves the status alone. *)
record_heartbeat_keeps_status ==
  /\ beat = "write"
  /\ beat' = "wait"
  /\ Update([sent EXCEPT !.status = loaded.status])
  /\ UNCHANGED <<processVars, sent, loaded, suspects>>

(* Mutant: reads the number when it is called and the status when it       *)
(* writes.                                                                 *)
record_heartbeat_late_status ==
  /\ beat = "write"
  /\ beat' = "wait"
  /\ Update([sent EXCEPT !.status = runtime_state.status])
  /\ UNCHANGED <<processVars, sent, loaded, suspects>>

record_heartbeat ==
  /\ beat = "write"
  /\ beat' = "wait"
  /\ Update(sent)
  /\ UNCHANGED <<processVars, sent, loaded, suspects>>

(* A call raises, and nothing catches it: the loop is over, the worker is  *)
(* not.  The update may have been committed: refresh follows the commit.   *)
heartbeat_loop_dies ==
  /\ beat \in {"load", "write"}
  /\ beat' = "dead"
  /\ \/ stamp' = 0 /\ UNCHANGED rowVars
     \/ beat = "write" /\ Update(sent)
  /\ UNCHANGED <<processVars, sent, loaded, suspects>>

--------------------------------------------------------------------------------
(* The worker is interrupted: the tasks of its batch are cancelled. *)
interrupt ==
  /\ process = "running"
  /\ process' = "cancelling"
  /\ UNCHANGED <<executing, runtime_state, writerVars, rowVars, suspects>>

(* The finally block of run_worker.  Tasks an earlier batch has left behind*)
(* may still be executing.                                                 *)
stop_event_set ==
  /\ process = "cancelling"
  /\ process' = "stopping"
  /\ UNCHANGED <<executing, runtime_state, writerVars, rowVars, suspects>>

(* Mutant: does not await the heartbeat loop. *)
await_heartbeat_not ==
  /\ process = "stopping"
  /\ process' = "closing"
  /\ loaded' = row
  /\ UNCHANGED <<executing, runtime_state, beat, sent, stamp, rowVars, suspects>>

(* The loop ends after the heartbeat it is in, and mark_offline loads the  *)
(* row.                                                                    *)
await_heartbeat ==
  /\ process = "stopping"
  /\ beat = "wait"
  /\ process' = "closing"
  /\ loaded' = row
  /\ UNCHANGED <<executing, runtime_state, beat, sent, stamp, rowVars, suspects>>

mark_offline ==
  /\ process = "closing"
  /\ process' = "stopped"
  /\ Update(Offline)
  /\ UNCHANGED <<executing, runtime_state, beat, sent, loaded, suspects>>

(* The process is gone without having marked its row: it was killed, the   *)
(* heartbeat loop it awaits had failed, or a call of the shutdown fails.   *)
die ==
  /\ process \notin {"stopped", "gone"}
  /\ process' = "gone"
  /\ executing' = {}
  /\ runtime_state' = Idle
  /\ beat' = "dead"
  /\ stamp' = 0
  /\ UNCHANGED <<sent, loaded, rowVars, suspects>>

--------------------------------------------------------------------------------
(* Mutant: only workers that are idle can be stale. *)
is_stale_worker_if_idle == row.status = "IDLE" /\ age > stale_after

(* PlatformMetricsService.is_stale_worker, and the query of                *)
(* find_stale_workers in the recovery.                                     *)
is_stale_worker == row.status # "OFFLINE" /\ age > stale_after

find_stale_workers(p) ==
  /\ p \notin suspects
  /\ is_stale_worker
  /\ suspects' = suspects \cup {p}
  /\ UNCHANGED <<processVars, writerVars, rowVars>>

(* Some time later, unconditionally. *)
mark_workers_offline(p) ==
  /\ p \in suspects
  /\ suspects' = suspects \ {p}
  /\ row' = Offline
  /\ UNCHANGED <<processVars, writerVars, age>>

(* The iteration of the peer fails in between, or the peer does. *)
recovery_fails(p) ==
  /\ p \in suspects
  /\ suspects' = suspects \ {p}
  /\ UNCHANGED <<processVars, writerVars, rowVars>>

Older(t) == IF t < Old THEN t + 1 ELSE t

Tick ==
  /\ age' = Older(age)
  /\ stamp' = IF beat = "write" \/ process = "closing" THEN Older(stamp) ELSE stamp
  /\ UNCHANGED <<processVars, beat, sent, loaded, row, suspects>>

--------------------------------------------------------------------------------
HeartbeatNext ==
  \/ \E t \in Task : on_task_started(t) \/ on_task_finished(t)
  \/ heartbeat_begins \/ heartbeat_loads \/ record_heartbeat
  \/ heartbeat_loop_dies
  \/ interrupt \/ stop_event_set \/ await_heartbeat \/ mark_offline \/ die
  \/ \E p \in Peer :
       find_stale_workers(p) \/ mark_workers_offline(p) \/ recovery_fails(p)
  \/ Tick

HeartbeatSpec == HeartbeatInit /\ [][HeartbeatNext]_heartbeatVars

--------------------------------------------------------------------------------
Reports == [status : {"IDLE", "RUNNING", "OFFLINE"}, active_invocations : Nat]

HeartbeatTypeOK ==
  /\ process \in {"running", "cancelling", "stopping", "closing", "stopped", "gone"}
  /\ executing \subseteq Task
  /\ runtime_state \in Reports /\ row \in Reports
  /\ beat \in {"wait", "load", "write", "dead"}
  /\ sent \in Reports /\ loaded \in Reports
  /\ age \in 0..Old /\ stamp \in 0..Old
  /\ suspects \subseteq Peer

(* The two columns of an IDLE row agree: it shows no active invocation,    *)
(* although a heartbeat and the peers write the columns one by one, each   *)
(* from what it read before.  (A RUNNING row may show none, and an OFFLINE *)
(* row some: a peer may write between the two halves of a heartbeat.)      *)
IdleRowIsEmpty ==
  row.status = "IDLE" => row.active_invocations = 0

(* A worker that has shut down in order is shown OFFLINE with no active    *)
(* invocation, and stays so: neither its own last heartbeat nor a peer     *)
(* that took it for lost can write the row back.                           *)
StoppedIsOffline ==
  process = "stopped" => row = Offline

(* While a heartbeat or the shutdown is between its load and its write,    *)
(* only peers write the row, and all they write is that the worker is      *)
(* offline.                                                                *)
HeartbeatInvariant ==
  /\ HeartbeatTypeOK
  /\ \A r \in {runtime_state, sent, loaded, row} :
       r.status = "IDLE" => r.active_invocations = 0
  /\ process \in {"closing", "stopped"} => beat = "wait"
  /\ beat = "write" \/ process = "closing" => row \in {loaded, Offline}
  /\ StoppedIsOffline

(* A worker that peers have marked OFFLINE while it was only slow is not   *)
(* written off: as long as its heartbeat loop runs, its row comes back.    *)
SlowWorkerComesBack ==
  row.status = "OFFLINE" ~>
    row.status # "OFFLINE" \/ beat = "dead" \/ process \notin {"running", "cancelling"}

(* A worker whose process is gone, or whose heartbeat loop a failed call   *)
(* has ended while it goes on working, is in the end shown as stale or     *)
(* OFFLINE for good: nobody mistakes the last row it wrote for a sign of   *)
(* life.                                                                   *)
LostWorkerIsShown ==
  (beat = "dead") ~> [](row.status = "OFFLINE" \/ is_stale_worker)
================================================================================
