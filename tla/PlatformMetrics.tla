---------------------------- MODULE PlatformMetrics ----------------------------
(***************************************************************************)
(* The dashboard summary of PlatformMetricsService for one owner.  It is   *)
(* put together from several queries, each of which sees what is committed *)
(* when it runs (READ COMMITTED), while the platform moves the invocations *)
(* in between.  Of the platform only InvocationContract is used here,      *)
(* which Platform implements as long as heartbeats are timely: a worker    *)
(* that is wrongly taken for lost may move an invocation out of a terminal *)
(* status.  Several invocations that move in one transaction look to these *)
(* queries like moves one after the other.                                 *)
(*                                                                         *)
(* Durations are data: a query returns any sorted list with one entry for  *)
(* each row that has one.  An invocation has completed_at exactly if it is *)
(* terminal (CompletedIffTerminal of Platform).                            *)
(***************************************************************************)
EXTENDS Integers, Sequences, FiniteSets

CONSTANTS Invocation,
          MaxAttempts,
          MaxDuration,   \* bound of the model: the longest duration
          NoValue        \* None: there is nothing to take a percentile of

ASSUME MetricsAssumption ==
  /\ IsFiniteSet(Invocation)
  /\ MaxAttempts \in Nat
  /\ MaxDuration \in Nat

VARIABLES
  status, attempt_count,   \* columns of the table invocations
  at,                      \* the query that the request makes next
  summary,                 \* what its queries have returned so far
  last                     \* the counters of the summary answered before

requestVars == <<at, summary, last>>
metricsVars == <<status, attempt_count, requestVars>>

Contract == INSTANCE InvocationContract WITH
  Invocation <- Invocation, MaxAttempts <- MaxAttempts,
  status <- status, attempt_count <- attempt_count

Terminal == {"SUCCEEDED", "FAILED", "TIMEOUT"}
InvocationStatus == {"QUEUED", "RUNNING", "RETRYING"} \cup Terminal

With(S) == {i \in Invocation : status[i] \in S}

Empty == [counts |-> [s \in InvocationStatus |-> 0],
          p95_execution |-> NoValue, latencies |-> <<>>,
          retry_count |-> 0, throughput |-> 0, depth |-> 0]

MetricsInit ==
  /\ Contract!Init
  /\ at = "counts"
  /\ summary = Empty
  /\ last = [succeeded |-> 0, failed |-> 0, timeout |-> 0, retry_count |-> 0]

(* The platform moves an invocation. *)
PlatformStep ==
  /\ \E i \in Invocation, s \in InvocationStatus, n \in 0..MaxAttempts :
       /\ status' = [status EXCEPT ![i] = s]
       /\ attempt_count' = [attempt_count EXCEPT ![i] = n]
  /\ Contract!Next
  /\ UNCHANGED requestVars

--------------------------------------------------------------------------------
(* Mutant: rounds the rank down. *)
percentile_rounded_down(values, p) ==
  IF values = <<>> THEN NoValue
  ELSE values[(Len(values) * p) \div 100 + 1]

(* p is in hundredths.  The index max(0, ceil(len * p) - 1) counts from 0. *)
percentile(values, p) ==
  LET index == (Len(values) * p + 99) \div 100 - 1
  IN  IF values = <<>> THEN NoValue
      ELSE values[(IF index > 0 THEN index ELSE 0) + 1]

--------------------------------------------------------------------------------
(* The queries of get_summary, in the order in which they are awaited. *)
Query(here, next) ==
  /\ at = here
  /\ at' = next
  /\ UNCHANGED <<status, attempt_count, last>>

get_invocation_status_counts ==
  /\ Query("counts", "executions")
  /\ summary' = [summary EXCEPT
       !.counts = [s \in InvocationStatus |-> Cardinality(With({s}))]]

Sorted(v) == \A j, k \in DOMAIN v : j <= k => v[j] <= v[k]
Durations(n) == {v \in [1..n -> 0..MaxDuration] : Sorted(v)}

(* Every attempt but one that is running has a duration. *)
CompletedAttempts ==
  {r \in Invocation \X (1..MaxAttempts) :
     \/ r[2] < attempt_count[r[1]]
     \/ r[2] = attempt_count[r[1]] /\ status[r[1]] # "RUNNING"}

get_execution_durations ==
  /\ Query("executions", "latencies")
  /\ \E v \in Durations(Cardinality(CompletedAttempts)) :
       summary' = [summary EXCEPT !.p95_execution = percentile(v, 95)]

(* Mutant: only the invocations that succeeded have a latency. *)
get_invocation_durations_succeeded ==
  /\ Query("latencies", "retry_count")
  /\ \E v \in Durations(Cardinality(With({"SUCCEEDED"}))) :
       summary' = [summary EXCEPT !.latencies = v]

get_invocation_durations ==
  /\ Query("latencies", "retry_count")
  /\ \E v \in Durations(Cardinality(With(Terminal))) :
       summary' = [summary EXCEPT !.latencies = v]

(* The attempts after the first, of all invocations. *)
Retries == {r \in Invocation \X (2..MaxAttempts) : r[2] <= attempt_count[r[1]]}

(* Mutant: attempts less one, below zero for an invocation without any. *)
get_retry_count_unclipped ==
  /\ Query("retry_count", "throughput")
  /\ summary' = [summary EXCEPT !.retry_count =
       Cardinality(Retries)
         - Cardinality({i \in With(InvocationStatus) : attempt_count[i] = 0})]

get_retry_count ==
  /\ Query("retry_count", "throughput")
  /\ summary' = [summary EXCEPT !.retry_count = Cardinality(Retries)]

(* Any number of the completed invocations are of the last minute. *)
get_recent_throughput ==
  /\ Query("throughput", "queue")
  /\ \E n \in 0..Cardinality(With(Terminal)) :
       summary' = [summary EXCEPT !.throughput = n]

get_queue_summary ==
  /\ Query("queue", "answer")
  /\ summary' = [summary EXCEPT !.depth = Cardinality(With({"QUEUED", "RETRYING"}))]

(* The summary is sent to the client, who asks again some time later. *)
get_summary ==
  /\ at = "answer"
  /\ at' = "counts"
  /\ summary' = Empty
  /\ last' = [succeeded |-> summary.counts["SUCCEEDED"],
              failed |-> summary.counts["FAILED"],
              timeout |-> summary.counts["TIMEOUT"],
              retry_count |-> summary.retry_count]
  /\ UNCHANGED <<status, attempt_count>>

--------------------------------------------------------------------------------
RequestStep ==
  \/ get_invocation_status_counts
  \/ get_execution_durations
  \/ get_invocation_durations
  \/ get_retry_count
  \/ get_recent_throughput
  \/ get_queue_summary
  \/ get_summary

MetricsNext == PlatformStep \/ RequestStep

MetricsSpec == MetricsInit /\ [][MetricsNext]_metricsVars

--------------------------------------------------------------------------------
MetricsTypeOK ==
  /\ status \in [Invocation -> InvocationStatus \cup {"ABSENT"}]
  /\ attempt_count \in [Invocation -> 0..MaxAttempts]
  /\ at \in {"counts", "executions", "latencies", "retry_count", "throughput",
             "queue", "answer"}
  /\ summary \in [counts : [InvocationStatus -> Nat],
                  p95_execution : Nat \cup {NoValue}, latencies : Seq(Nat),
                  retry_count : Nat, throughput : Nat, depth : Nat]
  /\ last \in [succeeded : Nat, failed : Nat, timeout : Nat, retry_count : Nat]

terminal == summary.counts["SUCCEEDED"] + summary.counts["FAILED"]
              + summary.counts["TIMEOUT"]

(* A summary that reports outcomes has latencies for them, and the backlog *)
(* and the outcomes it shows together are no more than the invocations     *)
(* there are, although its numbers come from different moments: the order  *)
(* in which the queries are made sees to that, while the platform keeps    *)
(* its contract (heartbeats are timely).                                   *)
SummaryHangsTogether ==
  at = "answer" =>
    /\ terminal <= Len(summary.latencies)
    /\ terminal + summary.depth <= Cardinality(With(InvocationStatus))
    /\ summary.throughput + summary.depth <= Cardinality(With(InvocationStatus))

(* A dashboard that polls never sees a counter fall, while the platform    *)
(* keeps its contract (heartbeats are timely): outcomes and retries are    *)
(* counted from rows that are never deleted and never leave a terminal     *)
(* status.                                                                 *)
CountersNeverFall ==
  at = "answer" =>
    /\ last.succeeded <= summary.counts["SUCCEEDED"]
    /\ last.failed <= summary.counts["FAILED"]
    /\ last.timeout <= summary.counts["TIMEOUT"]
    /\ last.retry_count <= summary.retry_count

(* What every query leaves for those after it: a number that was right     *)
(* when it was read has become a lower bound, for rows only move on.       *)
MetricsInvariant ==
  LET counted == at # "counts"
      retries_read == at \in {"throughput", "queue", "answer"}
  IN  /\ MetricsTypeOK
      /\ \A s \in Terminal : counted => summary.counts[s] <= Cardinality(With({s}))
      /\ counted => terminal <= Cardinality(With(Terminal))
      /\ at \in {"retry_count", "throughput", "queue", "answer"} =>
           terminal <= Len(summary.latencies)
      /\ retries_read => summary.retry_count <= Cardinality(Retries)
      /\ at = "queue" => summary.throughput <= Cardinality(With(Terminal))
      /\ last.succeeded <= Cardinality(With({"SUCCEEDED"}))
      /\ last.failed <= Cardinality(With({"FAILED"}))
      /\ last.timeout <= Cardinality(With({"TIMEOUT"}))
      /\ last.retry_count <= Cardinality(Retries)
      /\ counted => /\ last.succeeded <= summary.counts["SUCCEEDED"]
                    /\ last.failed <= summary.counts["FAILED"]
                    /\ last.timeout <= summary.counts["TIMEOUT"]
      /\ retries_read => last.retry_count <= summary.retry_count
      /\ SummaryHangsTogether

(* v is the p-th percentile by nearest rank: at least p in a hundred of    *)
(* the values are at most v, and fewer than that are below it.             *)
NearestRank(values, p, v) ==
  LET Few(S) == 100 * Cardinality(S) < p * Len(values)
  IN  /\ ~Few({k \in DOMAIN values : values[k] <= v})
      /\ Few({k \in DOMAIN values : values[k] < v})

(* The latencies of a summary are p50, p95 and p99. *)
Reported == {50, 95, 99}

(* The latencies a summary reports are the percentiles by nearest rank of  *)
(* the invocations that have ended: no index is off by one or out of range,*)
(* down to a single latency and where the rank is a whole number.          *)
PercentilesAreNearestRank ==
  summary.latencies # <<>> =>
    \A p \in Reported :
      NearestRank(summary.latencies, p, percentile(summary.latencies, p))
================================================================================
