---------------------------- MODULE MonitoringProofs ----------------------------
(***************************************************************************)
(* Theorems about Monitoring, for any number of tasks, peers, invocations  *)
(* and attempts, any stale cutoff and durations of any length.             *)
(***************************************************************************)
EXTENDS Monitoring, FiniteSetTheorems, TLAPS

USE SMTT(15), ZenonT(20), SMTT(30), Z3T(30)

--------------------------------------------------------------------------------
(* The row of a worker. *)

(* The columns of an IDLE report agree. *)
Agrees(r) == r.status = "IDLE" => r.active_invocations = 0

(* A report is its two columns, and two of them are fixed. *)
LEMMA ReportParts ==
  /\ Idle \in Reports /\ Offline \in Reports /\ Agrees(Idle) /\ Agrees(Offline)
  /\ Offline.active_invocations = 0
  /\ \A s \in {"IDLE", "RUNNING", "OFFLINE"}, n \in Nat :
       /\ Report(s, n) \in Reports
       /\ Report(s, n).status = s /\ Report(s, n).active_invocations = n
BY DEF Reports, Report, Idle, Offline, Agrees

(* An update leaves a report in the row, and an unchanged row complete.    *)
(* When only peers have written in between, the columns still agree.       *)
LEMMA UpdateWrites ==
  ASSUME HeartbeatTypeOK, NEW r \in Reports, Update(r)
  PROVE  /\ row' \in Reports /\ age' \in 0..Old /\ stamp' \in 0..Old
         /\ row \in {loaded, r} => row' = r
         /\ Agrees(r) /\ Agrees(loaded) /\ row \in {loaded, Offline} => Agrees(row')
<1>1. row \in Reports /\ loaded \in Reports /\ stamp \in 0..Old /\ Old \in Nat
  BY HeartbeatAssumption DEF HeartbeatTypeOK, Reports, Old
<1>2. DOMAIN row = {"status", "active_invocations"}
  BY <1>1 DEF Reports
<1>3. row' = [status |-> IF r.status # loaded.status THEN r.status ELSE row.status,
              active_invocations |->
                IF r.active_invocations # loaded.active_invocations
                THEN r.active_invocations ELSE row.active_invocations]
  BY <1>2 DEF Update
<1>4. /\ row' \in Reports /\ age' \in 0..Old /\ stamp' \in 0..Old
      /\ row \in {loaded, r} => row' = r
  BY <1>1, <1>3 DEF Update, Reports
<1>5. ASSUME Agrees(r), Agrees(loaded), row \in {loaded, Offline}, row'.status = "IDLE"
      PROVE  row'.active_invocations = 0
  <2>1. /\ row'.status = IF r.status # loaded.status THEN r.status ELSE row.status
        /\ row'.active_invocations =
             IF r.active_invocations # loaded.active_invocations
             THEN r.active_invocations ELSE row.active_invocations
    BY <1>3
  <2>2. \/ row = loaded
        \/ row.status = "OFFLINE" /\ row.active_invocations = 0
    BY <1>5 DEF Offline, Report
  <2>3. r.status = "IDLE" /\ r.active_invocations = 0
    BY <1>5, <2>1, <2>2 DEF Agrees
  <2>. QED
    BY <2>1, <2>2, <2>3
<1>. QED
  BY <1>4, <1>5 DEF Agrees

(* The parts of HeartbeatInvariant. *)
LEMMA HeartbeatParts ==
  HeartbeatInvariant <=>
    /\ HeartbeatTypeOK
    /\ Agrees(runtime_state) /\ Agrees(sent) /\ Agrees(loaded) /\ Agrees(row)
    /\ process \in {"closing", "stopped"} => beat = "wait"
    /\ beat = "write" \/ process = "closing" => row \in {loaded, Offline}
    /\ StoppedIsOffline
BY DEF HeartbeatInvariant, Agrees

(* HeartbeatInvariant holds at the start. *)
LEMMA Init_Heartbeat == HeartbeatInit => HeartbeatInvariant
<1> SUFFICES ASSUME HeartbeatInit
             PROVE  HeartbeatInvariant
  OBVIOUS
<1>1. Idle \in Reports /\ Agrees(Idle) /\ Old \in Nat
  BY ReportParts, HeartbeatAssumption DEF Old
<1>2. HeartbeatTypeOK
  BY <1>1 DEF HeartbeatInit, HeartbeatTypeOK, Reports
<1>. QED
  BY <1>1, <1>2, HeartbeatParts DEF HeartbeatInit, StoppedIsOffline

(* Tasks start and end, and the state of the process follows. *)
LEMMA Tasks_Heartbeat ==
  ASSUME HeartbeatInvariant, NEW t \in Task, on_task_started(t) \/ on_task_finished(t)
  PROVE  HeartbeatInvariant'
<1> USE DEF writerVars, rowVars
<1>1. HeartbeatTypeOK /\ runtime_state.active_invocations \in Nat
  BY DEF HeartbeatInvariant, HeartbeatTypeOK, Reports
<1>2. runtime_state' \in Reports /\ Agrees(runtime_state')
  <2>1. CASE on_task_started(t)
    BY <1>1, <2>1, ReportParts DEF on_task_started, mark_task_started, Agrees
  <2>2. CASE on_task_finished(t)
    BY <1>1, <2>2, ReportParts DEF on_task_finished, mark_task_finished, Agrees
  <2>. QED
    BY <2>1, <2>2
<1>3. /\ UNCHANGED <<process, beat, sent, loaded, stamp, row, age, suspects>>
      /\ executing' \subseteq Task
  BY <1>1 DEF on_task_started, on_task_finished, HeartbeatTypeOK
<1>4. HeartbeatTypeOK'
  BY <1>1, <1>2, <1>3 DEF HeartbeatTypeOK
<1>. QED
  BY <1>2, <1>3, <1>4, HeartbeatParts DEF HeartbeatInvariant, Agrees, StoppedIsOffline

(* The heartbeat, and its end by a failed call. *)
LEMMA Beat_Heartbeat ==
  ASSUME HeartbeatInvariant,
         heartbeat_begins \/ heartbeat_loads \/ record_heartbeat \/ heartbeat_loop_dies
  PROVE  HeartbeatInvariant'
<1> USE DEF processVars, rowVars
<1>1. /\ HeartbeatTypeOK /\ sent \in Reports
      /\ Agrees(runtime_state) /\ Agrees(sent) /\ Agrees(loaded) /\ Agrees(row)
      /\ beat = "write" => row \in {loaded, Offline}
  BY HeartbeatParts DEF HeartbeatTypeOK
<1>2. /\ UNCHANGED <<process, executing, runtime_state, suspects>>
      /\ process \notin {"closing", "stopped"}
  BY DEF heartbeat_begins, heartbeat_loads, record_heartbeat, heartbeat_loop_dies,
    HeartbeatInvariant
<1>3. Old \in Nat
  BY HeartbeatAssumption DEF Old
<1>4. CASE heartbeat_begins \/ heartbeat_loads
  <2>1. HeartbeatTypeOK'
    BY <1>1, <1>2, <1>4 DEF heartbeat_begins, heartbeat_loads, HeartbeatTypeOK
  <2>2. /\ Agrees(runtime_state)' /\ Agrees(sent)' /\ Agrees(loaded)' /\ Agrees(row)'
        /\ beat' = "write" => row' = loaded'
    BY <1>1, <1>2, <1>4 DEF heartbeat_begins, heartbeat_loads, Agrees
  <2>. QED
    BY <1>2, <2>1, <2>2 DEF HeartbeatInvariant, Agrees, StoppedIsOffline
<1>5. CASE record_heartbeat \/ heartbeat_loop_dies
  <2>1. row' \in Reports /\ age' \in 0..Old /\ stamp' \in 0..Old /\ Agrees(row')
    BY <1>1, <1>3, <1>5, UpdateWrites DEF record_heartbeat, heartbeat_loop_dies,
      HeartbeatTypeOK
  <2>2. HeartbeatTypeOK'
    BY <1>1, <1>2, <1>5, <2>1 DEF record_heartbeat, heartbeat_loop_dies, HeartbeatTypeOK
  <2>3. /\ Agrees(runtime_state)' /\ Agrees(sent)' /\ Agrees(loaded)' /\ Agrees(row)'
        /\ beat' # "write"
    BY <1>1, <1>2, <1>5, <2>1 DEF record_heartbeat, heartbeat_loop_dies, Agrees
  <2>. QED
    BY <1>2, <2>2, <2>3 DEF HeartbeatInvariant, Agrees, StoppedIsOffline
<1>. QED
  BY <1>4, <1>5

(* The shutdown in order, and the other ends of a process. *)
LEMMA Shutdown_Heartbeat ==
  ASSUME HeartbeatInvariant,
         interrupt \/ stop_event_set \/ await_heartbeat \/ mark_offline \/ die
  PROVE  HeartbeatInvariant'
<1> USE DEF writerVars, rowVars
<1>1. /\ HeartbeatTypeOK /\ Offline \in Reports /\ Idle \in Reports /\ Old \in Nat
      /\ Agrees(Offline) /\ Agrees(Idle)
  BY ReportParts, HeartbeatAssumption DEF HeartbeatInvariant, Old
<1>2. CASE interrupt \/ stop_event_set
  <2>1. HeartbeatTypeOK'
    BY <1>1, <1>2 DEF interrupt, stop_event_set, HeartbeatTypeOK
  <2>. QED
    BY <1>2, <2>1 DEF interrupt, stop_event_set, HeartbeatInvariant, StoppedIsOffline
<1>3. CASE await_heartbeat
  <2>1. HeartbeatTypeOK'
    BY <1>1, <1>3 DEF await_heartbeat, HeartbeatTypeOK
  <2>. QED
    BY <1>3, <2>1 DEF await_heartbeat, HeartbeatInvariant, StoppedIsOffline
<1>4. CASE mark_offline
  <2>1. /\ row' = Offline
        /\ row' \in Reports /\ age' \in 0..Old /\ stamp' \in 0..Old
    BY <1>1, <1>4, UpdateWrites DEF mark_offline, HeartbeatInvariant
  <2>2. HeartbeatTypeOK'
    BY <1>1, <1>4, <2>1 DEF mark_offline, HeartbeatTypeOK
  <2>3. /\ Agrees(runtime_state)' /\ Agrees(sent)' /\ Agrees(loaded)' /\ Agrees(row)'
        /\ process' = "stopped" /\ beat' = "wait"
    BY <1>1, <1>4, <2>1, HeartbeatParts DEF mark_offline, Agrees
  <2>. QED
    BY <2>1, <2>2, <2>3 DEF HeartbeatInvariant, Agrees, StoppedIsOffline
<1>5. CASE die
  <2>1. HeartbeatTypeOK'
    BY <1>1, <1>5 DEF die, HeartbeatTypeOK
  <2>2. /\ Agrees(runtime_state)' /\ Agrees(sent)' /\ Agrees(loaded)' /\ Agrees(row)'
        /\ process' = "gone" /\ beat' = "dead"
    BY <1>1, <1>5, HeartbeatParts DEF die, Agrees
  <2>. QED
    BY <2>1, <2>2 DEF HeartbeatInvariant, Agrees, StoppedIsOffline
<1>. QED
  BY <1>2, <1>3, <1>4, <1>5

(* The peers, and time. *)
LEMMA Others_Heartbeat ==
  ASSUME HeartbeatInvariant,
         \/ \E p \in Peer :
              find_stale_workers(p) \/ mark_workers_offline(p) \/ recovery_fails(p)
         \/ Tick
  PROVE  HeartbeatInvariant'
<1> USE DEF writerVars, rowVars, processVars
<1>1. HeartbeatTypeOK /\ Offline \in Reports /\ Old \in Nat /\ Agrees(Offline)
  BY ReportParts, HeartbeatAssumption DEF HeartbeatInvariant, Old
<1>2. /\ UNCHANGED <<process, executing, runtime_state, beat, sent, loaded>>
      /\ row' \in {row, Offline} /\ suspects' \in SUBSET Peer
  BY <1>1 DEF find_stale_workers, mark_workers_offline, recovery_fails, Tick, HeartbeatTypeOK
<1>3. age' \in 0..Old /\ stamp' \in 0..Old
  BY <1>1 DEF find_stale_workers, mark_workers_offline, recovery_fails, Tick, Older, HeartbeatTypeOK
<1>4. HeartbeatTypeOK'
  BY <1>1, <1>2, <1>3 DEF HeartbeatTypeOK
<1>5. Agrees(runtime_state)' /\ Agrees(sent)' /\ Agrees(loaded)' /\ Agrees(row)'
  BY <1>1, <1>2, HeartbeatParts DEF Agrees
<1>. QED
  BY <1>2, <1>4, <1>5 DEF HeartbeatInvariant, Agrees, StoppedIsOffline

(* Every step of Monitoring keeps HeartbeatInvariant. *)
LEMMA Next_Heartbeat ==
  ASSUME HeartbeatInvariant, [Next]_vars
  PROVE  HeartbeatInvariant'
<1>1. CASE HeartbeatNext
  BY <1>1, Tasks_Heartbeat, Beat_Heartbeat, Shutdown_Heartbeat, Others_Heartbeat
  DEF HeartbeatNext
<1>2. CASE UNCHANGED heartbeatVars
  BY <1>2 DEF heartbeatVars, processVars, writerVars, rowVars, HeartbeatInvariant,
    HeartbeatTypeOK, StoppedIsOffline
<1>. QED
  BY <1>1, <1>2 DEF Next, WorkerMoves, vars

(* The row of a worker is written in order, whoever else writes it.        *)
THEOREM HeartbeatInvariantHolds == Spec => []HeartbeatInvariant
<1>1. Init => HeartbeatInvariant
  BY Init_Heartbeat DEF Init
<1>2. HeartbeatInvariant /\ [Next]_vars => HeartbeatInvariant'
  BY Next_Heartbeat
<1>. QED
  BY <1>1, <1>2, PTL DEF Spec

(* An IDLE row shows no active invocation, with any number of tasks and of *)
(* peers that write the row between the load and the write of a heartbeat. *)
THEOREM IdleRowIsEmptyHolds == Spec => []IdleRowIsEmpty
<1>1. HeartbeatInvariant => IdleRowIsEmpty
  BY DEF HeartbeatInvariant, IdleRowIsEmpty
<1>. QED
  BY <1>1, HeartbeatInvariantHolds, PTL

(* A worker that shut down in order stays OFFLINE, with any number of      *)
(* peers that took it for lost.                                            *)
THEOREM StoppedIsOfflineHolds == Spec => []StoppedIsOffline
<1>1. HeartbeatInvariant => StoppedIsOffline
  BY DEF HeartbeatInvariant
<1>. QED
  BY <1>1, HeartbeatInvariantHolds, PTL

--------------------------------------------------------------------------------
(* Percentiles. *)

(* The rank of a percentile is within the list, is enough, and one less    *)
(* would not be.                                                           *)
LEMMA Rank ==
  ASSUME NEW n \in Nat \ {0}, NEW p \in 1..100
  PROVE  LET r == (n * p + 99) \div 100
         IN  r \in 1..n /\ 100 * r >= p * n /\ 100 * (r - 1) < p * n
<1> DEFINE m == n * p
           r == (m + 99) \div 100
<1>1. m \in Nat /\ m >= 1 /\ m = p * n
  BY Z3
<1>2. m <= 100 * n
  BY Z3
<1> HIDE DEF m
<1>3. r \in Int /\ 100 * r <= m + 99 /\ m + 99 < 100 * r + 100
  BY <1>1, Z3
<1> HIDE DEF r
<1>4. r \in 1..n /\ 100 * r >= m /\ 100 * (r - 1) < m
  BY <1>1, <1>2, <1>3
<1>. QED
  BY <1>1, <1>4 DEF r, m

(* percentile is the value at that rank, counted from one. *)
LEMMA PercentileIsRanked ==
  ASSUME NEW values \in Seq(Nat), values # <<>>, NEW p \in 1..100
  PROVE  LET r == (Len(values) * p + 99) \div 100
         IN  r \in DOMAIN values /\ percentile(values, p) = values[r]
<1> DEFINE n == Len(values)
           r == (n * p + 99) \div 100
<1>1. n \in Nat \ {0} /\ DOMAIN values = 1..n
  OBVIOUS
<1>2. r \in 1..n
  BY <1>1, Rank
<1>3. percentile(values, p) = values[(IF r - 1 > 0 THEN r - 1 ELSE 0) + 1]
  BY DEF percentile
<1> HIDE DEF r
<1>4. (IF r - 1 > 0 THEN r - 1 ELSE 0) + 1 = r
  BY <1>1, <1>2
<1>. QED
  BY <1>1, <1>2, <1>3, <1>4 DEF r

(* percentile is the nearest rank, in a sorted list of any length: at      *)
(* least p in a hundred of the values are at most that large, and fewer    *)
(* are smaller.                                                            *)
THEOREM PercentileIsNearestRank ==
  ASSUME NEW values \in Seq(Nat), Sorted(values), values # <<>>, NEW p \in 1..100
  PROVE  NearestRank(values, p, percentile(values, p))
<1> DEFINE n == Len(values)
           r == (n * p + 99) \div 100
           v == values[r]
           Most == {k \in DOMAIN values : values[k] <= v}
           Below == {k \in DOMAIN values : values[k] < v}
<1>1. n \in Nat \ {0} /\ DOMAIN values = 1..n
  OBVIOUS
<1>2. r \in 1..n /\ 100 * r >= p * n /\ 100 * (r - 1) < p * n
  BY <1>1, Rank
<1>3. percentile(values, p) = v
  BY PercentileIsRanked, ZenonT(60)
<1> HIDE DEF r
<1>4. r \in Nat /\ r >= 1 /\ r <= n /\ r \in DOMAIN values
  BY <1>1, <1>2
<1>5. 1..r \subseteq Most /\ Below \subseteq 1..(r - 1) /\ Most \subseteq 1..n
  <2>1. ASSUME NEW k \in 1..r PROVE k \in Most
    <3>1. k \in DOMAIN values /\ k <= r
      BY <1>1, <1>4
    <3>. QED
      BY <1>4, <3>1 DEF Sorted
  <2>2. ASSUME NEW k \in Below PROVE k \in 1..(r - 1)
    <3>1. k \in 1..n /\ values[k] \in Nat /\ v \in Nat /\ values[k] < v
      BY <1>1, <1>4
    <3>2. ~(r <= k)
      BY <1>1, <1>4, <3>1 DEF Sorted
    <3>. QED
      BY <1>4, <3>1, <3>2
  <2>. QED
    BY <1>1, <2>1, <2>2
<1> HIDE DEF Most, Below, n, v
<1>6. Cardinality(Most) \in Nat /\ r <= Cardinality(Most)
  <2>1. IsFiniteSet(1..n)
    BY <1>1, FS_Interval
  <2>2. IsFiniteSet(Most)
    BY <1>5, <2>1, FS_Subset, ZenonT(60)
  <2>3. Cardinality(1..r) = r
    BY <1>4, FS_Interval
  <2>. QED
    BY <1>5, <2>2, <2>3, FS_Subset, FS_CardinalityType, ZenonT(60)
<1>7. Cardinality(Below) \in Nat /\ Cardinality(Below) <= r - 1
  <2>1. PICK q \in Nat : q = r - 1
    BY <1>4
  <2>2. IsFiniteSet(1..q) /\ Cardinality(1..q) = q
    BY FS_Interval
  <2>. QED
    BY <1>5, <2>1, <2>2, FS_Subset, FS_CardinalityType, ZenonT(60)
<1>8. ~(100 * Cardinality(Most) < p * n) /\ 100 * Cardinality(Below) < p * n
  <2> DEFINE m == p * n
  <2>1. m \in Int
    BY <1>1
  <2>2. 100 * r >= m /\ 100 * (r - 1) < m /\ r \in Int
    BY <1>1, <1>2
  <2> HIDE DEF m
  <2>3. ~(100 * Cardinality(Most) < m) /\ 100 * Cardinality(Below) < m
    BY <1>6, <1>7, <2>1, <2>2
  <2>. QED
    BY <2>3 DEF m
<1>. QED
  BY <1>3, <1>8 DEF NearestRank, Most, Below, n, v

--------------------------------------------------------------------------------
(* The summary of the invocations. *)

(* Sets of rows can be counted, and a larger set has no fewer. *)
LEMMA Counting ==
  /\ \A S : IsFiniteSet(With(S)) /\ Cardinality(With(S)) \in Nat
  /\ IsFiniteSet(Retries) /\ Cardinality(Retries) \in Nat
  /\ IsFiniteSet(CompletedAttempts) /\ Cardinality(CompletedAttempts) \in Nat
<1>1. ASSUME NEW S
      PROVE  IsFiniteSet(With(S))
  BY MetricsAssumption, FS_Subset DEF With
<1>2. IsFiniteSet(1..MaxAttempts) /\ IsFiniteSet(2..MaxAttempts)
  BY MetricsAssumption, FS_Interval
<1>3. IsFiniteSet(Invocation \X (1..MaxAttempts)) /\ IsFiniteSet(Invocation \X (2..MaxAttempts))
  BY <1>2, MetricsAssumption, FS_Product, ZenonT(60)
<1>4. IsFiniteSet(Retries) /\ IsFiniteSet(CompletedAttempts)
  BY <1>3, FS_Subset DEF Retries, CompletedAttempts
<1>. QED
  BY <1>1, <1>4, FS_CardinalityType

(* Disjoint sets are counted one by one. *)
LEMMA DisjointSets ==
  ASSUME NEW S, NEW T, IsFiniteSet(S), IsFiniteSet(T), S \cap T = {}
  PROVE  IsFiniteSet(S \cup T) /\ Cardinality(S \cup T) = Cardinality(S) + Cardinality(T)
<1>1. Cardinality(S \cap T) = 0
  BY FS_EmptySet
<1>2. Cardinality(S) \in Nat /\ Cardinality(T) \in Nat
  BY FS_CardinalityType
<1>3. /\ IsFiniteSet(S \cup T)
      /\ Cardinality(S \cup T) = Cardinality(S) + Cardinality(T) - Cardinality(S \cap T)
  BY FS_Union, Zenon
<1>. QED
  BY <1>1, <1>2, <1>3

(* The outcomes, counted apart, are the terminal invocations. *)
LEMMA OutcomesAddUp ==
  Cardinality(With({"SUCCEEDED"})) + Cardinality(With({"FAILED"}))
    + Cardinality(With({"TIMEOUT"})) = Cardinality(With(Terminal))
<1> DEFINE A == With({"SUCCEEDED"})
           B == With({"FAILED"})
           C == With({"TIMEOUT"})
<1>1. /\ IsFiniteSet(A) /\ IsFiniteSet(B) /\ IsFiniteSet(C)
      /\ Cardinality(A) \in Nat /\ Cardinality(B) \in Nat /\ Cardinality(C) \in Nat
  BY Counting
<1>2. A \cap B = {} /\ (A \cup B) \cap C = {} /\ (A \cup B) \cup C = With(Terminal)
  BY DEF With, Terminal
<1> HIDE DEF A, B, C
<1>3. IsFiniteSet(A \cup B) /\ Cardinality(A \cup B) = Cardinality(A) + Cardinality(B)
  BY <1>1, <1>2, DisjointSets, ZenonT(60)
<1>4. Cardinality((A \cup B) \cup C) = Cardinality(A \cup B) + Cardinality(C)
  BY <1>1, <1>2, <1>3, DisjointSets, ZenonT(60)
<1>. QED
  BY <1>1, <1>2, <1>3, <1>4, ZenonT(60) DEF A, B, C

(* What waits and what has ended are together no more than there is. *)
LEMMA WaitingAndEnded ==
  Cardinality(With({"QUEUED", "RETRYING"})) + Cardinality(With(Terminal))
    <= Cardinality(With(InvocationStatus))
<1> DEFINE A == With({"QUEUED", "RETRYING"})
           B == With(Terminal)
           C == With(InvocationStatus)
<1>1. /\ IsFiniteSet(A) /\ IsFiniteSet(B) /\ IsFiniteSet(C)
      /\ Cardinality(A) \in Nat /\ Cardinality(B) \in Nat /\ Cardinality(C) \in Nat
  BY Counting
<1>2. A \cap B = {} /\ A \cup B \subseteq C
  BY DEF With, Terminal, InvocationStatus
<1> HIDE DEF A, B, C
<1>3. Cardinality(A \cup B) = Cardinality(A) + Cardinality(B)
  BY <1>1, <1>2, DisjointSets, ZenonT(60)
<1>4. Cardinality(A \cup B) <= Cardinality(C)
  BY <1>1, <1>2, FS_Subset
<1>. QED
  BY <1>3, <1>4 DEF A, B, C

(* When the platform moves, rows stay in a terminal status, none is        *)
(* deleted, and attempts are only added.                                   *)
LEMMA RowsMoveOn ==
  ASSUME MetricsTypeOK, PlatformStep
  PROVE  /\ MetricsTypeOK'
         /\ \A s \in Terminal : Cardinality(With({s})) <= Cardinality(With({s}))'
         /\ Cardinality(With(Terminal)) <= Cardinality(With(Terminal))'
         /\ Cardinality(With(InvocationStatus)) <= Cardinality(With(InvocationStatus))'
         /\ Cardinality(Retries) <= Cardinality(Retries)'
         /\ \A S : Cardinality(With(S))' \in Nat
         /\ Cardinality(Retries)' \in Nat
<1>1. MetricsTypeOK'
  BY DEF PlatformStep, MetricsTypeOK, requestVars
<1>2. ASSUME NEW i \in Invocation
      PROVE  /\ status[i] \in Terminal => status'[i] = status[i]
             /\ status[i] # "ABSENT" => status'[i] # "ABSENT"
             /\ attempt_count[i] <= attempt_count'[i]
  BY DEF PlatformStep, MetricsTypeOK, Terminal, Contract!Next, Contract!Accept, Contract!Start,
    Contract!Retry, Contract!Finish, Contract!Expire, Contract!Stays, Contract!Goes
<1>3. /\ \A s \in Terminal : With({s}) \subseteq With({s})'
      /\ With(Terminal) \subseteq With(Terminal)'
      /\ With(InvocationStatus) \subseteq With(InvocationStatus)'
  BY <1>1, <1>2, ZenonT(60) DEF With, MetricsTypeOK, InvocationStatus, Terminal
<1>4. Retries \subseteq Retries'
  <2> SUFFICES ASSUME NEW r \in Retries
               PROVE  r \in Retries'
    OBVIOUS
  <2>1. r \in Invocation \X (2..MaxAttempts) /\ r[1] \in Invocation /\ r[2] \in 2..MaxAttempts
    BY DEF Retries
  <2> attempt_count \in [Invocation -> 0..MaxAttempts]
    BY DEF MetricsTypeOK
  <2> attempt_count' \in [Invocation -> 0..MaxAttempts]
    BY <1>1 DEF MetricsTypeOK
  <2>2. attempt_count[r[1]] \in Nat /\ attempt_count'[r[1]] \in Nat /\ r[2] \in Nat
    BY <2>1, MetricsAssumption
  <2>3. r[2] <= attempt_count[r[1]]
    BY DEF Retries
  <2>4. r[2] <= attempt_count'[r[1]]
    BY <1>2, <2>1, <2>2, <2>3
  <2>. QED
    BY <2>1, <2>4 DEF Retries
<1>5. /\ \A S : IsFiniteSet(With(S)')
      /\ IsFiniteSet(Retries')
  <2>1. IsFiniteSet(2..MaxAttempts)
    BY MetricsAssumption, FS_Interval
  <2>2. IsFiniteSet(Invocation \X (2..MaxAttempts))
    BY <2>1, MetricsAssumption, FS_Product
  <2>. QED
    BY <2>2, MetricsAssumption, FS_Subset DEF With, Retries
<1>. QED
  BY <1>1, <1>3, <1>4, <1>5, FS_Subset, FS_CardinalityType

(* MetricsInvariant holds at the start. *)
LEMMA Init_Metrics == MetricsInit => MetricsInvariant
<1> SUFFICES ASSUME MetricsInit
             PROVE  MetricsInvariant
  OBVIOUS
<1>1. MetricsTypeOK
  BY MetricsAssumption DEF MetricsInit, MetricsTypeOK, Contract!Init, Empty
<1>. QED
  BY <1>1, Counting DEF MetricsInit, MetricsInvariant, SummaryHangsTogether

(* The outcomes that a summary reports are a number. *)
LEMMA TerminalCount ==
  ASSUME MetricsTypeOK
  PROVE  terminal \in Nat
BY DEF terminal, MetricsTypeOK, InvocationStatus, Terminal

(* The platform moves rows only on. *)
LEMMA PlatformStep_Metrics ==
  ASSUME MetricsInvariant, PlatformStep
  PROVE  MetricsInvariant'
<1>1. MetricsTypeOK /\ UNCHANGED <<at, summary, last>>
  BY DEF MetricsInvariant, PlatformStep, requestVars
<1>2. UNCHANGED terminal /\ terminal \in Nat /\ "SUCCEEDED" \in Terminal
      /\ "FAILED" \in Terminal /\ "TIMEOUT" \in Terminal
  <2>1. UNCHANGED terminal
    BY <1>1 DEF terminal
  <2>. QED
    BY <1>1, <2>1, TerminalCount DEF Terminal
<1>3. /\ summary.depth \in Nat /\ summary.throughput \in Nat /\ summary.retry_count \in Nat
      /\ \A s \in Terminal : summary.counts[s] \in Nat
      /\ last.succeeded \in Nat /\ last.failed \in Nat /\ last.timeout \in Nat
      /\ last.retry_count \in Nat
  BY <1>1 DEF MetricsTypeOK, InvocationStatus
<1> DEFINE More(S) == /\ Cardinality(With(S)) \in Nat /\ Cardinality(With(S))' \in Nat
                       /\ Cardinality(With(S)) <= Cardinality(With(S))'
<1>4. More(Terminal) /\ More(InvocationStatus) /\ \A s \in Terminal : More({s})
  BY <1>1, RowsMoveOn, Counting
<1>5. /\ Cardinality(Retries) \in Nat /\ Cardinality(Retries)' \in Nat
      /\ Cardinality(Retries) <= Cardinality(Retries)'
  BY <1>1, RowsMoveOn, Counting
<1>6. MetricsTypeOK'
  BY <1>1, RowsMoveOn
<1>7. SummaryHangsTogether'
  <2>1. at = "answer" =>
          /\ terminal <= Len(summary.latencies)
          /\ terminal + summary.depth <= Cardinality(With(InvocationStatus))
          /\ summary.throughput + summary.depth <= Cardinality(With(InvocationStatus))
    BY DEF MetricsInvariant, SummaryHangsTogether
  <2>2. More(InvocationStatus) /\ Len(summary'.latencies) = Len(summary.latencies)
    BY <1>1, <1>4
  <2>. QED
    BY <1>1, <1>2, <1>3, <2>1, <2>2 DEF SummaryHangsTogether
<1>8. \A s \in Terminal : at' # "counts" => summary'.counts[s] <= Cardinality(With({s}))'
  <2>1. \A s \in Terminal : at # "counts" => summary.counts[s] <= Cardinality(With({s}))
    BY DEF MetricsInvariant
  <2>. QED
    BY <1>1, <1>3, <1>4, <2>1
<1>9. /\ last'.succeeded <= Cardinality(With({"SUCCEEDED"}))'
      /\ last'.failed <= Cardinality(With({"FAILED"}))'
      /\ last'.timeout <= Cardinality(With({"TIMEOUT"}))'
      /\ last'.retry_count <= Cardinality(Retries)'
  <2>1. /\ last.succeeded <= Cardinality(With({"SUCCEEDED"}))
        /\ last.failed <= Cardinality(With({"FAILED"}))
        /\ last.timeout <= Cardinality(With({"TIMEOUT"}))
        /\ last.retry_count <= Cardinality(Retries)
    BY DEF MetricsInvariant
  <2>2. More({"SUCCEEDED"}) /\ More({"FAILED"}) /\ More({"TIMEOUT"})
    BY <1>2, <1>4
  <2>. QED
    BY <1>1, <1>3, <1>5, <2>1, <2>2
<1>10. /\ at' # "counts" => terminal' <= Cardinality(With(Terminal))'
       /\ at' = "queue" => summary'.throughput <= Cardinality(With(Terminal))'
       /\ at' \in {"throughput", "queue", "answer"} =>
            summary'.retry_count <= Cardinality(Retries)'
  <2>1. /\ at # "counts" => terminal <= Cardinality(With(Terminal))
        /\ at = "queue" => summary.throughput <= Cardinality(With(Terminal))
        /\ at \in {"throughput", "queue", "answer"} =>
             summary.retry_count <= Cardinality(Retries)
    BY DEF MetricsInvariant
  <2>. QED
    BY <1>1, <1>2, <1>3, <1>4, <1>5, <2>1
<1>. QED
  BY <1>1, <1>2, <1>6, <1>7, <1>8, <1>9, <1>10 DEF MetricsInvariant

(* A list of durations is a list, of the length asked for. *)
LEMMA DurationLists ==
  ASSUME NEW n \in Nat, NEW v \in Durations(n)
  PROVE  /\ v \in Seq(Nat) /\ Len(v) = n
         /\ percentile(v, 95) \in Nat \cup {NoValue}
<1>1. v \in Seq(Nat) /\ Len(v) = n
  BY MetricsAssumption DEF Durations
<1>2. percentile(v, 95) \in Nat \cup {NoValue}
  <2>1. CASE v = <<>>
    BY <2>1 DEF percentile
  <2>2. CASE v # <<>>
    <3> DEFINE r == (Len(v) * 95 + 99) \div 100
    <3>1. 95 \in 1..100 /\ v \in Seq(Nat)
      BY <1>1
    <3>2. r \in DOMAIN v /\ percentile(v, 95) = v[r]
      BY <2>2, <3>1, PercentileIsRanked, ZenonT(30)
    <3> HIDE DEF r
    <3>. QED
      BY <3>1, <3>2
  <2>. QED
    BY <2>1, <2>2
<1>. QED
  BY <1>1, <1>2

(* A query changes no row, and nothing of the summary answered before. *)
LEMMA QueryFrame ==
  ASSUME NEW here, NEW next, Query(here, next)
  PROVE  /\ at = here /\ at' = next /\ UNCHANGED <<status, attempt_count, last>>
         /\ \A S : With(S)' = With(S)
         /\ Retries' = Retries
BY DEF Query, With, Retries

(* What the queries up to the counts leave for the later ones. *)
LEMMA CountsAreRead ==
  ASSUME MetricsInvariant, get_invocation_status_counts
  PROVE  MetricsInvariant'
<1> DEFINE c == [s \in InvocationStatus |-> Cardinality(With({s}))]
<1>1. /\ at' = "executions" /\ UNCHANGED <<status, attempt_count, last>>
      /\ \A S : With(S)' = With(S)
      /\ Retries' = Retries
      /\ summary' = [summary EXCEPT !.counts = c]
  BY QueryFrame DEF get_invocation_status_counts
<1>2. c \in [InvocationStatus -> Nat]
  BY Counting
<1>3. MetricsTypeOK
  BY DEF MetricsInvariant
<1>4. MetricsTypeOK' /\ summary'.counts = c
  BY <1>1, <1>2, <1>3, ZenonT(60) DEF MetricsTypeOK
<1>5. /\ c["SUCCEEDED"] = Cardinality(With({"SUCCEEDED"}))
      /\ c["FAILED"] = Cardinality(With({"FAILED"}))
      /\ c["TIMEOUT"] = Cardinality(With({"TIMEOUT"}))
      /\ \A s \in Terminal : c[s] = Cardinality(With({s}))
  BY DEF InvocationStatus, Terminal
<1> HIDE DEF c
<1>6. terminal' = Cardinality(With(Terminal))
  BY <1>4, <1>5, OutcomesAddUp DEF terminal
<1>7. /\ last.succeeded <= Cardinality(With({"SUCCEEDED"}))
      /\ last.failed <= Cardinality(With({"FAILED"}))
      /\ last.timeout <= Cardinality(With({"TIMEOUT"}))
      /\ last.retry_count <= Cardinality(Retries)
  BY DEF MetricsInvariant
<1>8. \A S : Cardinality(With(S)) \in Nat
  BY Counting
<1>9. \A s \in Terminal : summary'.counts[s] <= Cardinality(With({s}))
  BY <1>4, <1>5, <1>8
<1>. QED
  BY <1>1, <1>4, <1>5, <1>6, <1>7, <1>8, <1>9 DEF MetricsInvariant, SummaryHangsTogether

(* A later query keeps the counts, and with them what is known of them. *)
LEMMA LaterQuery ==
  ASSUME MetricsInvariant, NEW here, NEW next, Query(here, next), here # "counts",
         next # "counts", MetricsTypeOK', summary'.counts = summary.counts
  PROVE  /\ UNCHANGED terminal /\ terminal \in Nat
         /\ at' = next /\ UNCHANGED last
         /\ \A s \in Terminal : summary'.counts[s] <= Cardinality(With({s}))'
         /\ terminal' <= Cardinality(With(Terminal))'
         /\ last'.succeeded <= Cardinality(With({"SUCCEEDED"}))'
         /\ last'.failed <= Cardinality(With({"FAILED"}))'
         /\ last'.timeout <= Cardinality(With({"TIMEOUT"}))'
         /\ last'.retry_count <= Cardinality(Retries)'
         /\ last'.succeeded <= summary'.counts["SUCCEEDED"]
         /\ last'.failed <= summary'.counts["FAILED"]
         /\ last'.timeout <= summary'.counts["TIMEOUT"]
<1>1. /\ at = here /\ at' = next /\ UNCHANGED last
      /\ \A S : With(S)' = With(S)
      /\ Retries' = Retries
  BY QueryFrame
<1>2. UNCHANGED terminal
  BY DEF terminal
<1>3. terminal \in Nat
  BY TerminalCount DEF MetricsInvariant
<1>4. /\ \A s \in Terminal : summary.counts[s] <= Cardinality(With({s}))
      /\ terminal <= Cardinality(With(Terminal))
      /\ last.succeeded <= Cardinality(With({"SUCCEEDED"}))
      /\ last.failed <= Cardinality(With({"FAILED"}))
      /\ last.timeout <= Cardinality(With({"TIMEOUT"}))
      /\ last.retry_count <= Cardinality(Retries)
      /\ last.succeeded <= summary.counts["SUCCEEDED"]
      /\ last.failed <= summary.counts["FAILED"]
      /\ last.timeout <= summary.counts["TIMEOUT"]
  BY <1>1 DEF MetricsInvariant
<1>. QED
  BY <1>1, <1>2, <1>3, <1>4

(* The two lists of durations. *)
LEMMA DurationsAreRead ==
  ASSUME MetricsInvariant, get_execution_durations \/ get_invocation_durations
  PROVE  MetricsInvariant'
<1>1. MetricsTypeOK
  BY ZenonT(60) DEF MetricsInvariant
<1>2. CASE get_execution_durations
  <2>1. PICK v \in Durations(Cardinality(CompletedAttempts)) :
          summary' = [summary EXCEPT !.p95_execution = percentile(v, 95)]
    BY <1>2 DEF get_execution_durations
  <2>2. percentile(v, 95) \in Nat \cup {NoValue}
    BY Counting, DurationLists
  <2>3. Query("executions", "latencies")
    BY <1>2 DEF get_execution_durations
  <2>4. MetricsTypeOK' /\ summary'.counts = summary.counts
    BY <1>1, <2>1, <2>2, <2>3, ZenonT(60) DEF MetricsTypeOK, Query
  <2>. QED
    BY <2>3, <2>4, LaterQuery DEF MetricsInvariant, SummaryHangsTogether
<1>3. CASE get_invocation_durations
  <2>1. PICK v \in Durations(Cardinality(With(Terminal))) :
          summary' = [summary EXCEPT !.latencies = v]
    BY <1>3 DEF get_invocation_durations
  <2>2. v \in Seq(Nat) /\ Len(v) = Cardinality(With(Terminal))
    BY Counting, DurationLists
  <2>3. Query("latencies", "retry_count")
    BY <1>3 DEF get_invocation_durations
  <2>4. MetricsTypeOK' /\ summary'.counts = summary.counts /\ summary'.latencies = v
    BY <1>1, <2>1, <2>2, <2>3, ZenonT(60) DEF MetricsTypeOK, Query
  <2>5. terminal' <= Len(summary'.latencies)
    BY <2>2, <2>3, <2>4, LaterQuery, QueryFrame, ZenonT(60)
  <2>. QED
    BY <2>3, <2>4, <2>5, LaterQuery DEF MetricsInvariant, SummaryHangsTogether
<1>. QED
  BY <1>2, <1>3

(* The retries, and the throughput of the last minute. *)
LEMMA CountersAreRead ==
  ASSUME MetricsInvariant, get_retry_count \/ get_recent_throughput
  PROVE  MetricsInvariant'
<1>1. MetricsTypeOK /\ Cardinality(Retries) \in Nat /\ Cardinality(With(Terminal)) \in Nat
  BY Counting DEF MetricsInvariant
<1>2. CASE get_retry_count
  <2>1. /\ Query("retry_count", "throughput")
        /\ summary' = [summary EXCEPT !.retry_count = Cardinality(Retries)]
    BY <1>2 DEF get_retry_count
  <2>2. /\ MetricsTypeOK' /\ summary'.counts = summary.counts
        /\ summary'.latencies = summary.latencies /\ summary'.retry_count = Cardinality(Retries)
    BY <1>1, <2>1, ZenonT(60) DEF MetricsTypeOK, Query
  <2>3. terminal <= Len(summary.latencies) /\ last.retry_count <= Cardinality(Retries)
    BY <2>1 DEF MetricsInvariant, Query
  <2>4. Retries' = Retries
    BY <2>1, QueryFrame
  <2>5. at' = "throughput" /\ SummaryHangsTogether'
    BY <2>1, ZenonT(60) DEF Query, SummaryHangsTogether
  <2>. QED
    BY <1>1, <2>1, <2>2, <2>3, <2>4, <2>5, LaterQuery DEF MetricsInvariant
<1>3. CASE get_recent_throughput
  <2>1. PICK n \in 0..Cardinality(With(Terminal)) :
          summary' = [summary EXCEPT !.throughput = n]
    BY <1>3 DEF get_recent_throughput
  <2>2. Query("throughput", "queue") /\ n \in Nat /\ n <= Cardinality(With(Terminal))
    BY <1>1, <1>3 DEF get_recent_throughput
  <2>3. /\ MetricsTypeOK' /\ summary'.counts = summary.counts
        /\ summary'.latencies = summary.latencies /\ summary'.throughput = n
        /\ summary'.retry_count = summary.retry_count
    BY <1>1, <2>1, <2>2, ZenonT(60) DEF MetricsTypeOK, Query
  <2>4. /\ terminal <= Len(summary.latencies) /\ last.retry_count <= summary.retry_count
        /\ summary.retry_count <= Cardinality(Retries)
    BY <2>2 DEF MetricsInvariant, Query
  <2>5. Retries' = Retries /\ With(Terminal)' = With(Terminal)
    BY <2>2, QueryFrame
  <2>6. at' = "queue" /\ SummaryHangsTogether'
    BY <2>2 DEF Query, SummaryHangsTogether
  <2>. QED
    BY <2>2, <2>3, <2>4, <2>5, <2>6, LaterQuery DEF MetricsInvariant
<1>. QED
  BY <1>2, <1>3

(* The backlog is read last. *)
LEMMA QueueIsRead ==
  ASSUME MetricsInvariant, get_queue_summary
  PROVE  MetricsInvariant'
<1> DEFINE d == Cardinality(With({"QUEUED", "RETRYING"}))
<1>1. /\ MetricsTypeOK /\ d \in Nat /\ Cardinality(With(Terminal)) \in Nat
      /\ Cardinality(With(InvocationStatus)) \in Nat
      /\ d + Cardinality(With(Terminal)) <= Cardinality(With(InvocationStatus))
  BY Counting, WaitingAndEnded DEF MetricsInvariant
<1>2. Query("queue", "answer") /\ summary' = [summary EXCEPT !.depth = d]
  BY DEF get_queue_summary
<1> HIDE DEF d
<1>3. /\ MetricsTypeOK' /\ summary'.counts = summary.counts
      /\ summary'.latencies = summary.latencies /\ summary'.throughput = summary.throughput
      /\ summary'.retry_count = summary.retry_count /\ summary'.depth = d
  BY <1>1, <1>2, ZenonT(60) DEF MetricsTypeOK, Query
<1>4. /\ terminal <= Len(summary.latencies) /\ last.retry_count <= summary.retry_count
      /\ summary.retry_count <= Cardinality(Retries)
      /\ terminal <= Cardinality(With(Terminal))
      /\ summary.throughput <= Cardinality(With(Terminal))
  BY <1>2 DEF MetricsInvariant, Query
<1>5. Retries' = Retries /\ With(InvocationStatus)' = With(InvocationStatus)
  BY <1>2, QueryFrame
<1>6. summary.throughput \in Nat /\ terminal \in Nat /\ terminal' = terminal
  BY <1>1, <1>2, <1>3, LaterQuery, ZenonT(60) DEF MetricsTypeOK
<1>7. SummaryHangsTogether'
  BY <1>1, <1>3, <1>4, <1>5, <1>6 DEF SummaryHangsTogether
<1>. QED
  BY <1>2, <1>3, <1>4, <1>5, <1>7, LaterQuery DEF MetricsInvariant

(* The answer becomes the one that the next is compared with. *)
LEMMA SummaryIsAnswered ==
  ASSUME MetricsInvariant, get_summary
  PROVE  MetricsInvariant'
<1>1. MetricsTypeOK /\ at = "answer"
  BY DEF MetricsInvariant, get_summary
<1>2. /\ summary.counts["SUCCEEDED"] \in Nat /\ summary.counts["FAILED"] \in Nat
      /\ summary.counts["TIMEOUT"] \in Nat /\ summary.retry_count \in Nat
  BY <1>1 DEF MetricsTypeOK, InvocationStatus, Terminal
<1>3. MetricsTypeOK'
  BY <1>1, <1>2 DEF get_summary, MetricsTypeOK, Empty
<1>4. (\A S : With(S)' = With(S)) /\ Retries' = Retries
  BY DEF get_summary, With, Retries
<1>5. /\ summary.counts["SUCCEEDED"] <= Cardinality(With({"SUCCEEDED"}))
      /\ summary.counts["FAILED"] <= Cardinality(With({"FAILED"}))
      /\ summary.counts["TIMEOUT"] <= Cardinality(With({"TIMEOUT"}))
      /\ summary.retry_count <= Cardinality(Retries)
  BY <1>1 DEF MetricsInvariant, Terminal
<1>. QED
  BY <1>3, <1>4, <1>5, ZenonT(60) DEF get_summary, MetricsInvariant, SummaryHangsTogether

(* Every step of Monitoring keeps MetricsInvariant. *)
LEMMA Next_Metrics ==
  ASSUME MetricsInvariant, [Next]_vars
  PROVE  MetricsInvariant'
<1>1. CASE MetricsNext
  BY <1>1, PlatformStep_Metrics, CountsAreRead, DurationsAreRead, CountersAreRead, QueueIsRead,
    SummaryIsAnswered DEF MetricsNext, RequestStep
<1>2. CASE UNCHANGED metricsVars
  BY <1>2, ZenonT(60) DEF metricsVars, requestVars, MetricsInvariant, MetricsTypeOK, SummaryHangsTogether,
    With, Retries, terminal
<1>. QED
  BY <1>1, <1>2 DEF Next, WorkerMoves, vars

(* What the queries of a summary have read stays a lower bound. *)
THEOREM MetricsInvariantHolds == Spec => []MetricsInvariant
<1>1. Init => MetricsInvariant
  BY Init_Metrics DEF Init
<1>2. MetricsInvariant /\ [Next]_vars => MetricsInvariant'
  BY Next_Metrics
<1>. QED
  BY <1>1, <1>2, PTL DEF Spec

(* A summary hangs together, for any number of invocations that move while *)
(* it is put together, as InvocationContract lets them: as Platform does   *)
(* while heartbeats are timely.                                            *)
THEOREM SummaryHangsTogetherHolds == Spec => []SummaryHangsTogether
<1>1. MetricsInvariant => SummaryHangsTogether
  BY DEF MetricsInvariant
<1>. QED
  BY <1>1, MetricsInvariantHolds, PTL

(* No counter of the dashboard falls from one summary to the next, as long *)
(* as InvocationContract is kept.                                          *)
THEOREM CountersNeverFallHolds == Spec => []CountersNeverFall
<1>1. MetricsInvariant => CountersNeverFall
  BY DEF MetricsInvariant, CountersNeverFall
<1>. QED
  BY <1>1, MetricsInvariantHolds, PTL

(* The query orders the latencies, and nothing disturbs the order. *)
LEMMA LatenciesSorted == Spec => []Sorted(summary.latencies)
<1>1. Init => Sorted(summary.latencies)
  BY DEF Init, MetricsInit, Empty, Sorted
<1>2. MetricsInvariant /\ Sorted(summary.latencies) /\ [Next]_vars => Sorted(summary.latencies)'
  <2> SUFFICES ASSUME MetricsInvariant, Sorted(summary.latencies), [Next]_vars
               PROVE  Sorted(summary'.latencies)
    BY DEF Sorted
  <2>1. CASE get_invocation_durations
    <3>1. PICK v \in Durations(Cardinality(With(Terminal))) :
            summary' = [summary EXCEPT !.latencies = v]
      BY <2>1 DEF get_invocation_durations
    <3>2. summary'.latencies = v /\ Sorted(v)
      BY <3>1, ZenonT(60) DEF Durations, MetricsInvariant, MetricsTypeOK
    <3>. QED
      BY <3>2
  <2>2. CASE get_summary
    BY <2>2 DEF get_summary, Empty, Sorted
  <2>3. CASE get_invocation_status_counts \/ get_execution_durations \/ get_retry_count
               \/ get_recent_throughput \/ get_queue_summary \/ UNCHANGED summary
    <3>1. summary'.latencies = summary.latencies
      BY <2>3 DEF get_invocation_status_counts, get_execution_durations, get_retry_count,
        get_recent_throughput, get_queue_summary, MetricsInvariant, MetricsTypeOK
    <3>. QED
      BY <3>1
  <2>. QED
    BY <2>1, <2>2, <2>3 DEF Next, WorkerMoves, MetricsNext, PlatformStep, RequestStep, vars,
      metricsVars, requestVars
<1>. QED
  BY <1>1, <1>2, MetricsInvariantHolds, PTL DEF Spec

(* Each percentile of the latencies is one by nearest rank. *)
LEMMA LatencyPercentile ==
  ASSUME MetricsInvariant, Sorted(summary.latencies), summary.latencies # <<>>,
         NEW p \in Reported
  PROVE  NearestRank(summary.latencies, p, percentile(summary.latencies, p))
<1>1. summary.latencies \in Seq(Nat)
  BY DEF MetricsInvariant, MetricsTypeOK
<1>2. p \in 1..100
  BY DEF Reported
<1>. QED
  BY <1>1, <1>2, PercentileIsNearestRank, ZenonT(60)

(* The percentiles of every summary are those by nearest rank, for any     *)
(* number of invocations and whatever their durations.                     *)
THEOREM PercentilesAreNearestRankHolds == Spec => []PercentilesAreNearestRank
<1>1. MetricsInvariant /\ Sorted(summary.latencies) => PercentilesAreNearestRank
  BY LatencyPercentile DEF PercentilesAreNearestRank
<1>. QED
  BY <1>1, MetricsInvariantHolds, LatenciesSorted, PTL
================================================================================
