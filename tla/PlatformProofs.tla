---------------------------- MODULE PlatformProofs -----------------------------
(***************************************************************************)
(* Theorems about Platform, for every number of invocations, workers,      *)
(* dispatchers, attempts, messages and faults: the inductive invariants    *)
(* hold, and with them the properties that the runs check on small         *)
(* instances.  The bound on the tasks of a worker is proved here too.      *)
(***************************************************************************)
EXTENDS LedgerProofs, OwnershipProofs, CarryProofs, FiniteSetTheorems

(* More time for every leaf than the default: the proof manager itself     *)
(* takes part of it.                                                       *)
USE SMTT(15), ZenonT(20), SMTT(30), Z3T(30)

(* A set of messages is finite. *)
LEMMA MessagesFinite ==
  ASSUME NEW M \in SUBSET MessageId
  PROVE  IsFiniteSet(M) /\ Cardinality(M) \in Nat
<1>1. IsFiniteSet(MessageId)
  BY StreamAssumption, FS_Interval DEF MessageId
<1>. QED
  BY <1>1, FS_Subset, FS_CardinalityType, ZenonT(60)

(* A set of messages that is not empty has an oldest and a newest one. *)
LEMMA Extremes ==
  ASSUME NEW M \in SUBSET MessageId, M # {}
  PROVE  /\ \E x \in M : \A y \in M : x <= y
         /\ \E x \in M : \A y \in M : y <= x
<1>0. M \subseteq Nat /\ MaxMessages \in Nat /\ \A m \in M : m <= MaxMessages
  BY StreamAssumption DEF MessageId
<1>1. ASSUME NEW T \in SUBSET Nat, T # {}
      PROVE  \E x \in T : \A y \in T : x <= y
  <2>1. PICK x \in T : \A y \in T : ~(<<y, x>> \in OpToRel(<, Nat))
    BY <1>1, NatLessThanWellFounded, WFMin, ZenonT(60)
  <2>2. \A y \in T : ~(y < x)
    BY <2>1, ZenonT(60) DEF OpToRel
  <2>. QED
    BY <2>2
<1>2. \E x \in M : \A y \in M : x <= y
  BY <1>0, <1>1, ZenonT(60)
<1>3. \E x \in M : \A y \in M : y <= x
  <2> DEFINE T == {k \in Nat : \E m \in M : k = MaxMessages - m}
  <2>1. T # {}
    <3>1. PICK m \in M : TRUE
      OBVIOUS
    <3>2. MaxMessages - m \in Nat
      BY <1>0
    <3>. QED
      BY <3>2
  <2>2. PICK k \in T : \A j \in T : k <= j
    BY <1>1, <2>1, ZenonT(60)
  <2>3. PICK x \in M : k = MaxMessages - x
    OBVIOUS
  <2>4. \A y \in M : MaxMessages - y \in T
    BY <1>0
  <2>. QED
    BY <1>0, <2>2, <2>3, <2>4
<1>. QED
  BY <1>2, <1>3, ZenonT(60)

(* XPENDING with a count returns at most that many messages, and all of    *)
(* them when it returns fewer.                                             *)
LEMMA OldestBound ==
  ASSUME NEW M \in SUBSET MessageId, NEW k \in Nat
  PROVE  /\ Oldest(M, k) \subseteq M
         /\ Cardinality(Oldest(M, k)) <= k
         /\ Cardinality(Oldest(M, k)) < k => Oldest(M, k) = M
<1> DEFINE O == Oldest(M, k)
           Before(m) == {x \in M : x < m}
<1>0. M \subseteq Nat
  BY DEF MessageId
<1>1. O \subseteq M /\ \A m \in M : m \in O <=> Cardinality(Before(m)) < k
  BY DEF Oldest
<1>2. O \in SUBSET MessageId /\ \A m \in M : Before(m) \in SUBSET MessageId
  BY <1>1
<1>3. /\ IsFiniteSet(O) /\ Cardinality(O) \in Nat
      /\ \A m \in M : IsFiniteSet(Before(m)) /\ Cardinality(Before(m)) \in Nat
  BY <1>2, MessagesFinite, ZenonT(60)
<1> HIDE DEF O
<1>4. Cardinality(O) <= k
  <2>1. CASE O = {}
    BY <2>1, FS_EmptySet
  <2>2. CASE O # {}
    <3>1. PICK x \in O : \A y \in O : y <= x
      BY <1>2, <2>2, Extremes, ZenonT(60)
    <3>2. O \ {x} \in SUBSET Before(x)
      BY <1>0, <1>1, <3>1
    <3>3. Cardinality(O \ {x}) <= Cardinality(Before(x))
      BY <1>1, <1>3, <3>2, FS_Subset, ZenonT(60)
    <3>4. Cardinality(O \ {x}) = Cardinality(O) - 1
      BY <1>3, FS_RemoveElement, ZenonT(60)
    <3>5. Cardinality(Before(x)) < k /\ Cardinality(Before(x)) \in Nat
      BY <1>1, <1>3, ZenonT(60)
    <3> HIDE DEF Before
    <3>. QED
      BY <1>3, <3>3, <3>4, <3>5
  <2>. QED
    BY <2>1, <2>2, ZenonT(60)
<1>5. ASSUME Cardinality(O) < k, O # M
      PROVE  FALSE
  <2> DEFINE Y == M \ O
  <2>1. Y \in SUBSET MessageId /\ Y # {}
    BY <1>1, <1>5, ZenonT(60)
  <2>2. PICK x \in Y : \A y \in Y : x <= y
    BY <2>1, Extremes, ZenonT(60)
  <2>3. Before(x) \in SUBSET O
    <3>1. ASSUME NEW z \in M, z < x
          PROVE  z \in O
      BY <1>0, <2>2, <3>1
    <3>. QED
      BY <3>1
  <2>4. Cardinality(Before(x)) <= Cardinality(O)
    BY <1>3, <2>3, FS_Subset, ZenonT(60)
  <2>5. ~(Cardinality(Before(x)) < k) /\ Cardinality(Before(x)) \in Nat
    BY <1>1, <1>3, ZenonT(60)
  <2> HIDE DEF Before
  <2>. QED
    BY <1>3, <1>5, <2>4, <2>5
<1>. QED
  BY <1>1, <1>4, <1>5, ZenonT(60) DEF O

(* What the lemmas about steps assume of sizes is so. *)
LEMMA MessagesCount == Counting
<1>1. Cardinality({}) = 0
  BY FS_EmptySet
<1>2. \A M \in SUBSET MessageId : Cardinality(M) \in Nat
  BY MessagesFinite, ZenonT(60)
<1>. QED
  BY <1>1, <1>2, OldestBound, ZenonT(60) DEF Counting

(* XREADGROUP with COUNT k delivers at most k messages. *)
LEMMA NextBound ==
  ASSUME StreamTypeOK(AttemptRow), NEW k \in Nat
  PROVE  next_messages(k) \in SUBSET MessageId /\ Cardinality(next_messages(k)) <= k
<1>1. cursor \in Nat /\ Len(stream) \in Nat
  BY DEF StreamTypeOK
<1> PICK a \in Int, b \in Int : a = cursor + 1 /\ b = cursor + k
  BY <1>1
<1>2. next_messages(k) \in SUBSET (a..b)
  BY <1>1, StreamAssumption DEF next_messages, last_read, MessageId
<1>3. IsFiniteSet(a..b) /\ Cardinality(a..b) = k
  <2>1. IsFiniteSet(a..b) /\ Cardinality(a..b) = IF a > b THEN 0 ELSE b - a + 1
    BY FS_Interval, ZenonT(60)
  <2>. QED
    BY <1>1, <2>1
<1>4. next_messages(k) \in SUBSET MessageId
  BY DEF next_messages
<1>. QED
  BY <1>2, <1>3, <1>4, FS_Subset

(* The tasks made of a set of messages: one each. *)
LEMMA NewTasksBound ==
  ASSUME NEW M \in SUBSET MessageId, NEW b
  PROVE  LET N == {NewTask(m, b) : m \in M}
         IN  IsFiniteSet(N) /\ Cardinality(N) <= Cardinality(M)
<1> DEFINE N == {NewTask(m, b) : m \in M}
           f == [m \in M |-> NewTask(m, b)]
<1>1. f \in Surjection(M, N)
  BY Zenon DEF Surjection
<1>2. IsFiniteSet(M)
  BY MessagesFinite, ZenonT(60)
<1> HIDE DEF f, N
<1>3. IsFiniteSet(N) /\ Cardinality(N) <= Cardinality(M)
  BY <1>1, <1>2, FS_Surjection, ZenonT(60)
<1>. QED
  BY <1>3, ZenonT(60) DEF N

--------------------------------------------------------------------------------
(* What BatchFits says of the loop and the tasks of one worker. *)
Fits(p, T, s, l, c) ==
  /\ IsFiniteSet(T)
  /\ \A t \in T : t.awaited
  /\ T # {} => p \in {"claim", "xclaim", "process"}
  /\ p \in {"load", "commit", "claim", "xclaim"} => s # {}
  /\ c # 0 => p \in {"claim", "xclaim"} \/ (p = "process" /\ s # {})
  /\ c <= claim_count
  /\ p \in {"claim", "xclaim"} => Cardinality(T) <= c
  /\ l # {} => p = "xclaim" /\ c + Cardinality(l) <= claim_count
  /\ p = "process" => Cardinality(T) <= MaxConcurrency

(* A step of one worker keeps every batch if it keeps that worker's. *)
LEMMA Moves_Batch ==
  ASSUME BatchInvariant, NEW w \in Worker, NEW p, NEW T, NEW s, NEW n, NEW l, NEW c,
         Moves(w, p, T, s, n, l, c), Fits(p, T, s, l, c)
  PROVE  BatchInvariant'
<1>1. BatchFits(w)'
  BY ZenonT(60) DEF Moves, Fits, BatchFits
<1>2. ASSUME NEW x \in Worker \ {w}
      PROVE  BatchFits(x)'
  BY ZenonT(60) DEF Moves, BatchFits, BatchInvariant
<1>. QED
  BY <1>1, <1>2, ZenonT(60) DEF BatchInvariant

(* The numbers the batches are made of. *)
LEMMA BatchFacts ==
  ASSUME WorkerTypeOK, BatchInvariant, NEW w \in Worker
  PROVE  /\ claim_count \in Nat \ {0} /\ claim_count <= MaxConcurrency /\ MaxConcurrency \in Nat
         /\ claimed[w] \in Nat /\ listed[w] \in SUBSET MessageId
         /\ IsFiniteSet(tasks[w]) /\ Cardinality(tasks[w]) \in Nat
         /\ Cardinality({}) = 0 /\ IsFiniteSet({})
         /\ Cardinality(tasks[w]) = 0 => tasks[w] = {}
         /\ Fits(pc[w], tasks[w], stale[w], listed[w], claimed[w])
<1>1. Fits(pc[w], tasks[w], stale[w], listed[w], claimed[w])
  BY DEF BatchInvariant, BatchFits, Fits
<1>2. claim_count \in Nat \ {0} /\ claim_count <= MaxConcurrency /\ MaxConcurrency \in Nat
  BY WorkerAssumption DEF claim_count
<1>3. claimed[w] \in Nat /\ listed[w] \in SUBSET MessageId
  BY DEF WorkerTypeOK
<1>4. IsFiniteSet(tasks[w])
  BY <1>1 DEF Fits
<1>5. Cardinality(tasks[w]) \in Nat
  BY <1>4, FS_CardinalityType, ZenonT(60)
<1>. QED
  BY <1>1, <1>2, <1>3, <1>4, <1>5, FS_EmptySet, ZenonT(60)

(* A loop without tasks, outside of a recovery. *)
LEMMA Idle_Fits ==
  ASSUME NEW p, p \notin {"load", "commit", "claim", "xclaim"}
  PROVE  Fits(p, {}, {}, {}, 0)
<1>1. IsFiniteSet({}) /\ Cardinality({}) = 0
  BY FS_EmptySet, ZenonT(60)
<1>2. claim_count \in Nat /\ MaxConcurrency \in Nat
  BY WorkerAssumption, ZenonT(60) DEF claim_count
<1> PICK k \in Nat, c \in Nat : k = claim_count /\ c = Cardinality({})
  BY <1>1, <1>2
<1>3. 0 <= k /\ 0 <= MaxConcurrency
  BY <1>2
<1>. QED
  BY <1>1, <1>3, ZenonT(60) DEF Fits

(* New tasks are awaited, and not yet started. *)
LEMMA NewTasksWait ==
  ASSUME NEW M, NEW b, NEW N, N = {NewTask(m, b) : m \in M}, NEW t \in N
  PROVE  /\ t.awaited /\ t.at = "received" /\ t.recovered = b
         /\ t.msg \in M /\ t = NewTask(t.msg, b)
<1>1. PICK m \in M : t = NewTask(m, b)
  BY Zenon
<1>. QED
  BY <1>1, ZenonT(60) DEF NewTask

(* A page of pending messages fits into the batch. *)
LEMMA claim_list_Batch ==
  ASSUME OwnershipInvariant, BatchInvariant, NEW w \in Worker, claim_list(w)
  PROVE  BatchInvariant'
<1>0. WorkerTypeOK /\ StreamTypeOK(AttemptRow)
  BY DEF OwnershipInvariant, LedgerInvariant, TypeOK
<1>1. /\ claim_count \in Nat \ {0} /\ claim_count <= MaxConcurrency /\ MaxConcurrency \in Nat
      /\ claimed[w] \in Nat /\ listed[w] \in SUBSET MessageId
      /\ IsFiniteSet(tasks[w]) /\ Cardinality(tasks[w]) \in Nat
      /\ Cardinality({}) = 0 /\ IsFiniteSet({})
      /\ Cardinality(tasks[w]) = 0 => tasks[w] = {}
      /\ Fits(pc[w], tasks[w], stale[w], listed[w], claimed[w])
  BY <1>0, BatchFacts, ZenonT(60)
<1>2. PICK v, M :
            /\ v \in names[w] /\ M = Oldest(PendingOf(v), claim_count - claimed[w])
            /\ Moves(w, IF M = {} THEN "claim" ELSE "xclaim", tasks[w], stale[w],
                     names[w] \ {v}, M, claimed[w])
  BY <1>0, Claim_Moves, ZenonT(60)
<1>3. pc[w] = "claim" /\ claimed[w] < claim_count
  BY DEF claim_list
<1> PICK k \in Nat : k = claim_count - claimed[w]
  BY <1>1, <1>3
<1>4. PendingOf(v) \in SUBSET MessageId
  BY DEF PendingOf
<1>5. Cardinality(M) <= k /\ M \in SUBSET MessageId
  BY <1>2, <1>4, OldestBound, ZenonT(60)
<1>6. Cardinality(M) \in Nat
  BY <1>5, MessagesFinite, ZenonT(60)
<1>7. Fits(IF M = {} THEN "claim" ELSE "xclaim", tasks[w], stale[w], M, claimed[w])
  BY <1>1, <1>3, <1>5, <1>6 DEF Fits
<1>. QED
  BY <1>2, <1>7, Moves_Batch, ZenonT(60)

(* The claimed messages fit into the batch. *)
LEMMA claim_take_Batch ==
  ASSUME OwnershipInvariant, BatchInvariant, NEW w \in Worker, claim_take(w)
  PROVE  BatchInvariant'
<1>0. WorkerTypeOK /\ StreamTypeOK(AttemptRow)
  BY DEF OwnershipInvariant, LedgerInvariant, TypeOK
<1>1. /\ claim_count \in Nat \ {0} /\ claim_count <= MaxConcurrency /\ MaxConcurrency \in Nat
      /\ claimed[w] \in Nat /\ listed[w] \in SUBSET MessageId
      /\ IsFiniteSet(tasks[w]) /\ Cardinality(tasks[w]) \in Nat
      /\ Cardinality({}) = 0 /\ IsFiniteSet({})
      /\ Cardinality(tasks[w]) = 0 => tasks[w] = {}
      /\ Fits(pc[w], tasks[w], stale[w], listed[w], claimed[w])
  BY <1>0, BatchFacts, ZenonT(60)
<1>2. PICK M, N :
            /\ M = claimable(listed[w]) /\ N = {NewTask(m, TRUE) : m \in M}
            /\ Moves(w, "claim", tasks[w] \cup N, stale[w], names[w], {},
                     claimed[w] + Cardinality(M))
  BY <1>0, Claim_Moves, ZenonT(60)
<1>3. pc[w] = "xclaim"
  BY ZenonT(60) DEF claim_take
<1>4. M \in SUBSET listed[w] /\ M \in SUBSET MessageId
  BY <1>1, <1>2, ZenonT(60) DEF claimable
<1>5. /\ IsFiniteSet(M) /\ Cardinality(M) \in Nat /\ Cardinality(listed[w]) \in Nat
      /\ Cardinality(M) <= Cardinality(listed[w])
  BY <1>1, <1>4, MessagesFinite, FS_Subset, ZenonT(60)
<1>6. IsFiniteSet(N) /\ Cardinality(N) <= Cardinality(M) /\ Cardinality(N) \in Nat
  BY <1>2, <1>4, NewTasksBound, FS_CardinalityType, ZenonT(60)
<1>7. \A t \in N : t.awaited
  <2>1. N = {NewTask(m, TRUE) : m \in M}
    BY <1>2, ZenonT(60)
  <2>. QED
    BY <2>1, NewTasksWait, ZenonT(60)
<1>8. /\ IsFiniteSet(tasks[w] \cup N) /\ Cardinality(tasks[w] \cup N) \in Nat
      /\ Cardinality(tasks[w] \cup N) <= Cardinality(tasks[w]) + Cardinality(N)
  <2>1. /\ IsFiniteSet(tasks[w] \cup N)
        /\ Cardinality(tasks[w] \cup N)
             = Cardinality(tasks[w]) + Cardinality(N) - Cardinality(tasks[w] \cap N)
    BY <1>1, <1>6, FS_Union, ZenonT(60)
  <2>2. Cardinality(tasks[w] \cap N) \in Nat /\ Cardinality(tasks[w] \cup N) \in Nat
    BY <1>1, <2>1, FS_Intersection, FS_CardinalityType, ZenonT(60)
  <2>. QED
    BY <1>1, <1>6, <2>1, <2>2
<1>9. claimed[w] + Cardinality(M) <= claim_count
  <2>1. CASE listed[w] = {}
    BY <1>1, <1>4, <1>5, <2>1 DEF Fits
  <2>2. CASE listed[w] # {}
    BY <1>1, <1>5, <2>2 DEF Fits
  <2>. QED
    BY <2>1, <2>2, ZenonT(60)
<1>10. Cardinality(tasks[w] \cup N) <= claimed[w] + Cardinality(M)
  BY <1>1, <1>3, <1>5, <1>6, <1>8 DEF Fits
<1>11. Fits("claim", tasks[w] \cup N, stale[w], {}, claimed[w] + Cardinality(M))
  BY <1>1, <1>3, <1>7, <1>8, <1>9, <1>10, ZenonT(60) DEF Fits
<1>. QED
  BY <1>2, <1>11, Moves_Batch, ZenonT(60)

(* The new messages fit into an empty batch. *)
LEMMA read_new_tasks_Batch ==
  ASSUME OwnershipInvariant, BatchInvariant, NEW w \in Worker, read_new_tasks(w)
  PROVE  BatchInvariant'
<1>0. WorkerTypeOK /\ StreamTypeOK(AttemptRow)
  BY DEF OwnershipInvariant, LedgerInvariant, TypeOK
<1>1. /\ claim_count \in Nat \ {0} /\ claim_count <= MaxConcurrency /\ MaxConcurrency \in Nat
      /\ claimed[w] \in Nat /\ listed[w] \in SUBSET MessageId
      /\ IsFiniteSet(tasks[w]) /\ Cardinality(tasks[w]) \in Nat
      /\ Cardinality({}) = 0 /\ IsFiniteSet({})
      /\ Cardinality(tasks[w]) = 0 => tasks[w] = {}
      /\ Fits(pc[w], tasks[w], stale[w], listed[w], claimed[w])
  BY <1>0, BatchFacts
<1>2. PICK N :
            /\ N = {NewTask(m, FALSE) : m \in next_messages(MaxConcurrency)}
            /\ Moves(w, "process", tasks[w] \cup N, stale[w], names[w], listed[w], claimed[w])
  BY <1>0, Loop_Moves, ZenonT(60)
<1>3. pc[w] = "read"
  BY DEF read_new_tasks
<1>6. \A t \in N : t.awaited
  <2>1. ASSUME NEW t \in N
        PROVE  \E m \in next_messages(MaxConcurrency) : t = NewTask(m, FALSE)
    BY <1>2, ZenonT(60)
  <2>. QED
    BY <2>1 DEF NewTask
<1> PICK M : M = next_messages(MaxConcurrency)
  BY ZenonT(60)
<1>4. M \in SUBSET MessageId /\ Cardinality(M) <= MaxConcurrency /\ Cardinality(M) \in Nat
  BY <1>0, <1>1, NextBound, MessagesFinite, ZenonT(60)
<1>5. IsFiniteSet(N) /\ Cardinality(N) <= Cardinality(M) /\ Cardinality(N) \in Nat
  BY <1>2, <1>4, NewTasksBound, FS_CardinalityType, ZenonT(60)
<1>7. tasks[w] \cup N = N
  BY <1>1, <1>3, ZenonT(60) DEF Fits
<1>8. Fits("process", tasks[w] \cup N, stale[w], listed[w], claimed[w])
  <2>1. claimed[w] = 0 /\ listed[w] = {} /\ claimed[w] <= claim_count
    BY <1>1, <1>3, ZenonT(60) DEF Fits
  <2>2. Cardinality(N) <= MaxConcurrency
    BY <1>1, <1>4, <1>5
  <2>. QED
    BY <1>5, <1>6, <1>7, <2>1, <2>2, ZenonT(60) DEF Fits
<1>. QED
  BY <1>2, <1>8, Moves_Batch, ZenonT(60)

(* The steps of the main loop keep the batches within their bounds. *)
LEMMA Loop_Batch ==
  ASSUME OwnershipInvariant, BatchInvariant, NEW w \in Worker, LoopStep(w)
  PROVE  BatchInvariant'
<1>0. WorkerTypeOK /\ StreamTypeOK(AttemptRow)
  BY DEF OwnershipInvariant, LedgerInvariant, TypeOK
<1>1. /\ claim_count \in Nat \ {0} /\ claim_count <= MaxConcurrency /\ MaxConcurrency \in Nat
      /\ claimed[w] \in Nat /\ listed[w] \in SUBSET MessageId
      /\ IsFiniteSet(tasks[w]) /\ Cardinality(tasks[w]) \in Nat
      /\ Cardinality({}) = 0 /\ IsFiniteSet({})
      /\ Cardinality(tasks[w]) = 0 => tasks[w] = {}
      /\ Fits(pc[w], tasks[w], stale[w], listed[w], claimed[w])
  BY <1>0, BatchFacts
<1>2. CASE recover_select(w)
  <2>0. pc[w] = "top" /\ find_stale_workers # {}
    BY <1>2, ZenonT(60) DEF recover_select
  <2>1. Fits("load", tasks[w], find_stale_workers, listed[w], claimed[w])
    BY <1>1, <2>0, ZenonT(60) DEF Fits
  <2>. QED
    BY <1>0, <1>2, <2>1, Recover_Moves, Moves_Batch, ZenonT(60)
<1>3. CASE recover_load(w)
  <2>1. Fits("commit", tasks[w], stale[w], listed[w], claimed[w])
    BY <1>1, <1>3, ZenonT(60) DEF Fits, recover_load
  <2>. QED
    BY <1>0, <1>3, <2>1, Recover_Moves, Moves_Batch, ZenonT(60)
<1>4. CASE recover_commit(w)
  <2>0. pc[w] = "commit"
    BY <1>4, ZenonT(60) DEF recover_commit
  <2>1. Fits("claim", tasks[w], stale[w], listed[w], claimed[w])
    BY <1>1, <2>0 DEF Fits
  <2>. QED
    BY <1>0, <1>4, <2>1, Recover_Moves, Moves_Batch, ZenonT(60)
<1>5. CASE claim_list(w)
  BY <1>5, claim_list_Batch, ZenonT(60)
<1>6. CASE claim_take(w)
  BY <1>6, claim_take_Batch, ZenonT(60)
<1>7. CASE claim_return(w)
  <2>0. pc[w] = "claim"
    BY <1>7, ZenonT(60) DEF claim_return
  <2>1. Fits(IF claimed[w] = 0 THEN "offline" ELSE "process", tasks[w], stale[w], listed[w], claimed[w])
    BY <1>1, <2>0 DEF Fits
  <2>. QED
    BY <1>0, <1>7, <2>1, Claim_Moves, Moves_Batch, ZenonT(60)
<1>8. CASE recovered_batch_done(w)
  <2>0. pc[w] = "process" /\ stale[w] # {} /\ \A t \in tasks[w] : ~t.awaited
    BY <1>8, ZenonT(60) DEF recovered_batch_done
  <2>1. tasks[w] = {} /\ pc[w] = "process" /\ stale[w] # {}
    BY <1>1, <2>0, ZenonT(60) DEF Fits
  <2>2. Fits(IF claimed[w] < claim_count THEN "offline" ELSE "claim", tasks[w], stale[w], listed[w], 0)
    BY <1>1, <2>1 DEF Fits
  <2>. QED
    BY <1>0, <1>8, <2>2, Claim_Moves, Moves_Batch, ZenonT(60)
<1>9. CASE mark_workers_offline(w)
  <2>1. PICK p \in {"top", "read"} : Moves(w, p, tasks[w], {}, {}, {}, 0)
    BY <1>0, <1>9, Loop_Moves, ZenonT(60)
  <2>2. pc[w] = "offline"
    BY <1>9, ZenonT(60) DEF mark_workers_offline
  <2>3. tasks[w] = {}
    BY <1>1, <2>2, ZenonT(60) DEF Fits
  <2>. QED
    BY <2>1, <2>3, Idle_Fits, Moves_Batch, ZenonT(60)
<1>10. CASE read_new_tasks(w)
  BY <1>10, read_new_tasks_Batch, ZenonT(60)
<1>11. CASE recover_nothing(w)
  <2>1. Fits("read", tasks[w], stale[w], listed[w], claimed[w])
    BY <1>1, <1>11, ZenonT(60) DEF Fits, recover_nothing
  <2>. QED
    BY <1>0, <1>11, <2>1, Loop_Moves, Moves_Batch, ZenonT(60)
<1>12. CASE read_nothing(w) \/ new_batch_done(w)
  <2>1. Fits("top", tasks[w], stale[w], listed[w], claimed[w])
    BY <1>1, <1>12, ZenonT(60) DEF Fits, read_nothing, new_batch_done
  <2>. QED
    BY <1>0, <1>12, <2>1, Loop_Moves, Moves_Batch, ZenonT(60)
<1>13. CASE mark_worker_offline(w)
  BY <1>0, <1>13, Idle_Fits, Loop_Moves, Moves_Batch, ZenonT(60)
<1>. QED
  BY <1>2, <1>3, <1>4, <1>5, <1>6, <1>7, <1>8, <1>9, <1>10, <1>11, <1>12, <1>13, ZenonT(60) DEF LoopStep

(* The tasks of a batch move on one by one, and their number never grows. *)
LEMMA Task_Batch ==
  ASSUME OwnershipInvariant, BatchInvariant, NEW w \in Worker, NEW t \in tasks[w],
         TaskStep(w, t)
  PROVE  BatchInvariant'
<1>0. WorkerTypeOK
  BY ZenonT(60) DEF OwnershipInvariant, LedgerInvariant, TypeOK
<1>1. /\ IsFiniteSet(tasks[w]) /\ Cardinality(tasks[w]) \in Nat /\ MaxConcurrency \in Nat
      /\ Fits(pc[w], tasks[w], stale[w], listed[w], claimed[w])
  BY <1>0, BatchFacts, ZenonT(60)
<1>2. pc[w] = "process" /\ t.awaited
  <2>1. t.awaited /\ Runs(w, t)
    BY <1>1, ZenonT(60) DEF Fits, TaskStep, task_starts, task_expires, task_is_refused, execute,
      task_finishes, task_is_rejected, acknowledge
  <2>. QED
    BY <2>1, ZenonT(60) DEF Runs
<1>3. /\ IsFiniteSet(tasks[w] \ {t}) /\ Cardinality(tasks[w] \ {t}) = Cardinality(tasks[w]) - 1
      /\ Cardinality(tasks[w] \ {t}) \in Nat
  BY <1>1, FS_RemoveElement, FS_CardinalityType, ZenonT(60)
<1>4. ASSUME NEW T, IsFiniteSet(T), Cardinality(T) <= Cardinality(tasks[w]), Cardinality(T) \in Nat,
             \A u \in T : u.awaited
      PROVE  Fits(pc[w], T, stale[w], listed[w], claimed[w])
  BY <1>1, <1>2, <1>4 DEF Fits
<1>5. ASSUME NEW l, TaskGoes(w, t, l)
      PROVE  BatchInvariant'
  <2>1. PICK u :
         /\ u.awaited = t.awaited
         /\ Moves(w, pc[w], (tasks[w] \ {t}) \cup {u}, stale[w], names[w], listed[w], claimed[w])
    BY <1>5, ZenonT(60) DEF TaskGoes
  <2> PICK T : T = (tasks[w] \ {t}) \cup {u}
    BY ZenonT(60)
  <2>2. IsFiniteSet(T) /\ Cardinality(T) <= Cardinality(tasks[w]) /\ Cardinality(T) \in Nat
    <3> PICK S : S = tasks[w] \ {t}
      BY ZenonT(60)
    <3>1. IsFiniteSet(S) /\ Cardinality(S) = Cardinality(tasks[w]) - 1 /\ Cardinality(S) \in Nat
      BY <1>3, ZenonT(60)
    <3>2. /\ IsFiniteSet(S \cup {u})
          /\ Cardinality(S \cup {u}) = IF u \in S THEN Cardinality(S) ELSE Cardinality(S) + 1
      BY <3>1, FS_AddElement, ZenonT(60)
    <3>. QED
      BY <1>1, <3>1, <3>2
  <2>3. \A y \in T : y.awaited
    BY <1>1, <1>2, <2>1, ZenonT(60) DEF Fits
  <2>4. Fits(pc[w], T, stale[w], listed[w], claimed[w])
    BY <1>4, <2>2, <2>3, ZenonT(60)
  <2>. QED
    BY <2>1, <2>4, Moves_Batch, ZenonT(60)
<1>6. CASE acknowledge(w, t)
  <2> PICK T : T = tasks[w] \ {t}
    BY ZenonT(60)
  <2>1. Moves(w, pc[w], T, stale[w], names[w], listed[w], claimed[w])
    BY <1>0, <1>6, Task_Moves, ZenonT(60)
  <2>2. \A y \in T : y.awaited
    BY <1>1, ZenonT(60) DEF Fits
  <2>3. Cardinality(T) <= Cardinality(tasks[w])
    BY <1>1, <1>3
  <2>4. Fits(pc[w], T, stale[w], listed[w], claimed[w])
    BY <1>3, <1>4, <2>2, <2>3, ZenonT(60)
  <2>. QED
    BY <2>1, <2>4, Moves_Batch, ZenonT(60)
<1>. QED
  BY <1>0, <1>5, <1>6, Task_Moves, NotRejected, ZenonT(60) DEF TaskStep

(* BatchInvariant is inductive, next to OwnershipInvariant, while no call  *)
(* of a live worker fails.                                                 *)
LEMMA Next_Batch ==
  ASSUME CallsSucceed, Timely, OwnershipInvariant, BatchInvariant, [Next]_vars
  PROVE  BatchInvariant'
<1>0. WorkerTypeOK
  BY DEF OwnershipInvariant, LedgerInvariant, TypeOK
<1>1. ASSUME UNCHANGED workerVars
      PROVE  BatchInvariant'
  BY <1>1, ZenonT(60) DEF BatchInvariant, BatchFits, workerVars, loopVars
<1>2. ASSUME NEW w \in Worker, WorkerStep(w)
      PROVE  BatchInvariant'
  <2>1. Fits(pc[w], tasks[w], stale[w], listed[w], claimed[w])
    BY <1>0, BatchFacts, ZenonT(60)
  <2>2. CASE register_worker(w)
    <3>1. Fits("top", tasks[w], stale[w], listed[w], claimed[w])
      BY <2>1, <2>2, ZenonT(60) DEF Fits, register_worker
    <3>. QED
      BY <1>0, <2>2, <3>1, Loop_Moves, Moves_Batch, ZenonT(60)
  <2>3. CASE record_heartbeat(w) \/ heartbeat_ages(w)
    BY <1>0, <2>1, <2>3, Loop_Moves, Moves_Batch, ZenonT(60) DEF Rests
  <2>4. CASE crash(w)
    BY <1>0, <2>4, Idle_Fits, Loop_Moves, Moves_Batch, ZenonT(60)
  <2>5. CASE interrupt(w)
    <3>1. {t \in tasks[w] : ~t.awaited} = {}
      BY <2>1, ZenonT(60) DEF Fits
    <3>2. Moves(w, "stopping", {}, {}, {}, {}, 0)
      BY <1>0, <2>5, <3>1, Loop_Moves, ZenonT(60)
    <3>. QED
      BY <3>2, Idle_Fits, Moves_Batch, ZenonT(60)
  <2>6. /\ \A t \in tasks[w] : ~task_call_fails(w, t)
        /\ ~loop_call_fails(w) /\ ~read_reply_lost(w) /\ ~heartbeat_loop_dies(w)
    BY ZenonT(60) DEF CallsSucceed, Timely, task_call_fails, loop_call_fails, read_reply_lost,
      heartbeat_loop_dies, fault
  <2>. QED
    BY <1>2, <2>2, <2>3, <2>4, <2>5, <2>6, Loop_Batch, Task_Batch, ZenonT(60)
    DEF WorkerStep, WorkerFault
<1>3. CASE ClientStep \/ BackoffStep \/ UNCHANGED vars
  BY <1>1, <1>3, ZenonT(60) DEF ClientStep, BackoffStep, vars
<1>. QED
  BY <1>1, <1>2, <1>3, ZenonT(60) DEF Next

(* The invariant holds initially. *)
LEMMA Init_Batch ==
  ASSUME Init
  PROVE  BatchInvariant
<1> SUFFICES ASSUME NEW w \in Worker
             PROVE  BatchFits(w)
  BY ZenonT(60) DEF BatchInvariant
<1>1. /\ pc[w] = "new" /\ tasks[w] = {} /\ stale[w] = {} /\ listed[w] = {} /\ claimed[w] = 0
  BY DEF Init, WorkerInit
<1>2. Fits("new", {}, {}, {}, 0)
  BY Idle_Fits, ZenonT(60)
<1>. QED
  BY <1>1, <1>2, ZenonT(60) DEF BatchFits, Fits

--------------------------------------------------------------------------------
(* LedgerInvariant holds in every behaviour, whatever faults happen. *)
THEOREM LedgerHolds == Spec => []LedgerInvariant
<1>1. Init => LedgerInvariant
  BY Init_Ledger, ZenonT(60)
<1>2. LedgerInvariant /\ [Next]_vars => LedgerInvariant'
  BY MessagesCount, Next_Ledger, ZenonT(60)
<1>. QED
  BY <1>1, <1>2, PTL DEF Spec

(* Every variable keeps its type: no operation of the code writes a status *)
(* or a number that the columns do not admit.                              *)
THEOREM TypeCorrect == Spec => []TypeOK
<1>1. LedgerInvariant => TypeOK
  BY ZenonT(60) DEF LedgerInvariant
<1>. QED
  BY <1>1, LedgerHolds, PTL

(* The attempt rows of an invocation are numbered 1 to attempt_count: the  *)
(* insert of mark_running never meets the unique constraint, whatever      *)
(* duplicates, reclaims and races there are.                               *)
THEOREM AttemptLedgerHolds == Spec => []AttemptLedger
<1>1. LedgerInvariant => AttemptLedger
  BY ZenonT(60) DEF LedgerInvariant
<1>. QED
  BY <1>1, LedgerHolds, PTL

(* An outbox row says published only if its message is in the stream.      *)
THEOREM OutboxIsTruthful == Spec => []PublishedIsInStream
<1>1. LedgerInvariant => PublishedIsInStream
  BY DEF LedgerInvariant
<1>. QED
  BY <1>1, LedgerHolds, PTL

(* mark_running never raises InvocationCannotStartError for an invocation  *)
(* that is still live, so no message is left behind by that exception.     *)
THEOREM NoTaskIsFuture == Spec => []NoFutureTask
BY Ledger_NoFuture, LedgerHolds, PTL

(* OwnershipInvariant holds at the start. *)
LEMMA Init_Ownership ==
  ASSUME Init
  PROVE  OwnershipInvariant
<1> USE DEF Init, StoreInit, StreamInit, DispatcherInit, WorkerInit
<1>1. LedgerInvariant
  BY Init_Ledger, ZenonT(60)
<1>2. OnlyDeadAreStale
  BY ZenonT(60) DEF OnlyDeadAreStale, Up
<1>3. RunningAttemptIsLast
  BY ZenonT(60) DEF RunningAttemptIsLast, AttemptRow
<1>4. RecoveryIsolated /\ TasksOwnAttempts
  BY ZenonT(60) DEF RecoveryIsolated, TasksOwnAttempts, InRecovery
<1>5. AttemptsLeft
  BY StoreAssumption DEF AttemptsLeft
<1>6. CompletedIffTerminal
  BY DEF CompletedIffTerminal, is_terminal_status, TERMINAL_INVOCATION_STATUSES
<1>. QED
  BY <1>1, <1>2, <1>3, <1>4, <1>5, <1>6, ZenonT(60) DEF OwnershipInvariant

--------------------------------------------------------------------------------
(* OwnershipInvariant is inductive while heartbeats are timely. *)
LEMMA Next_Ownership ==
  ASSUME Timely, OwnershipInvariant, [Next]_vars
  PROVE  OwnershipInvariant'
<1>1. LedgerInvariant'
  BY MessagesCount, Next_Ledger, ZenonT(60) DEF OwnershipInvariant
<1>2. Rows'
  BY Rows_Next, ZenonT(60)
<1>3. OnlyDeadAreStale' /\ RecoveryIsolated' /\ TasksOwnAttempts'
  BY OnlyDead_Next, Isolated_Next, Owns_Next, ZenonT(60)
<1>. QED
  BY <1>1, <1>2, <1>3, ZenonT(60) DEF OwnershipInvariant, Rows

(* While no live worker is taken for dead, whatever crashes, shutdowns,    *)
(* failed calls, duplicates and reclaims there are, the ownership of       *)
(* attempts is respected.                                                  *)
THEOREM OwnershipHolds == Timely => (Spec => []OwnershipInvariant)
<1> SUFFICES ASSUME Timely
             PROVE  Spec => []OwnershipInvariant
  OBVIOUS
<1>1. Init => OwnershipInvariant
  BY Init_Ownership, ZenonT(60)
<1>2. OwnershipInvariant /\ [Next]_vars => OwnershipInvariant'
  BY Next_Ownership, ZenonT(60)
<1>. QED
  BY <1>1, <1>2, PTL DEF Spec

(* The invocation row and its attempt rows agree on what is running.       *)
THEOREM RunningAttemptIsLastHolds == Timely => (Spec => []RunningAttemptIsLast)
<1>1. OwnershipInvariant => RunningAttemptIsLast
  BY ZenonT(60) DEF OwnershipInvariant
<1>. QED
  BY <1>1, OwnershipHolds, PTL

(* No invocation is started more often than max_attempts, although         *)
(* mark_running itself has no limit.                                       *)
THEOREM AttemptBudgetHolds == Timely => (Spec => []AttemptBudget)
<1>1. OwnershipInvariant => AttemptBudget
  BY ZenonT(60) DEF OwnershipInvariant, AttemptsLeft, AttemptBudget
<1>. QED
  BY <1>1, OwnershipHolds, PTL

(* completed_at is set exactly on the invocations that ended.              *)
THEOREM CompletedIffTerminalHolds == Timely => (Spec => []CompletedIffTerminal)
<1>1. OwnershipInvariant => CompletedIffTerminal
  BY ZenonT(60) DEF OwnershipInvariant
<1>. QED
  BY <1>1, OwnershipHolds, PTL

(* No two executions of one invocation at the same time, in one worker or  *)
(* in two.                                                                 *)
THEOREM ExclusiveExecutionHolds == Timely => (Spec => []ExclusiveExecution)
<1>1. OwnershipInvariant => ExclusiveExecution
  <2> SUFFICES ASSUME OwnershipInvariant, NEW v \in Worker, NEW w \in Worker,
                      NEW i \in Invocation, NEW t \in Executing(v, i), NEW u \in Executing(w, i)
               PROVE  v = w /\ t = u
    BY ZenonT(60) DEF ExclusiveExecution
  <2>1. /\ t \in tasks[v] /\ Executes(t) /\ InvocationOf(t) = i
        /\ u \in tasks[w] /\ Executes(u) /\ InvocationOf(u) = i
    BY DEF Executing, Executes
  <2>2. /\ t.attempt \in AttemptNumber /\ attempt_status[<<i, t.attempt>>] = "RUNNING"
        /\ attempt_worker[<<i, t.attempt>>] = v
    BY <2>1, ExecutingRow, ZenonT(60)
  <2>3. /\ u.attempt \in AttemptNumber /\ attempt_status[<<i, u.attempt>>] = "RUNNING"
        /\ attempt_worker[<<i, u.attempt>>] = w
    BY <2>1, ExecutingRow, ZenonT(60)
  <2>4. t.attempt = u.attempt
    BY <2>2, <2>3, ZenonT(60) DEF OwnershipInvariant, RunningAttemptIsLast
  <2>5. v = w
    BY <2>2, <2>3, <2>4, ZenonT(60)
  <2>6. Owns(v, tasks[v])
    BY OwnsAll, ZenonT(60) DEF OwnershipInvariant
  <2>7. u \in tasks[v] /\ InvocationOf(u) = InvocationOf(t)
    BY <2>1, <2>5, ZenonT(60)
  <2>8. u = t
    BY <2>1, <2>6, <2>7, ZenonT(60) DEF Owns
  <2>. QED
    BY <2>5, <2>8, ZenonT(60)
<1>. QED
  BY <1>1, OwnershipHolds, PTL

(* The outcome a client has read is never changed: not by a duplicate      *)
(* delivery, a late worker or a recovery.                                  *)
THEOREM TerminalIsFinalHolds == Timely => (Spec => TerminalIsFinal)
<1>1. OwnershipInvariant /\ [Next]_vars =>
        [\A i \in Invocation : is_terminal_status(status[i]) => status'[i] = status[i]]_vars
  <2> SUFFICES ASSUME OwnershipInvariant, [Next]_vars, NEW i \in Invocation,
                      is_terminal_status(status[i])
               PROVE  status'[i] = status[i]
    OBVIOUS
  <2>. QED
    BY Step_Allowed, ZenonT(60) DEF AllowedStep, Contract!Goes, Contract!Accept, Contract!Start,
      Contract!Retry, Contract!Finish, Contract!Expire, Contract!Stays, is_terminal_status,
      TERMINAL_INVOCATION_STATUSES
<1>. QED
  BY <1>1, OwnershipHolds, PTL DEF Spec, TerminalIsFinal

(* Every behaviour of the platform, seen through the columns status and    *)
(* attempt_count, is a behaviour of InvocationContract.                    *)
THEOREM PlatformKeepsContract == Timely => (Spec => KeepsContract)
<1>1. Init => Contract!Init
  BY DEF Init, StoreInit, Contract!Init
<1>2. OwnershipInvariant /\ [Next]_vars => [Contract!Next]_(Contract!vars)
  BY Step_Allowed, ZenonT(60) DEF AllowedStep, Contract!Next
<1>. QED
  BY <1>1, <1>2, OwnershipHolds, PTL DEF Spec, KeepsContract, Contract!Spec

(* A worker never has more than max_concurrency tasks in hand, new and     *)
(* reclaimed ones together, while no live worker is taken for dead (else   *)
(* mark_finished may raise) and no call of a live worker fails: a task     *)
(* that raises leaves the others of its batch behind, running unawaited.   *)
THEOREM BoundedConcurrencyHolds ==
  CallsSucceed /\ Timely => (Spec => []BoundedConcurrency)
<1> SUFFICES ASSUME CallsSucceed, Timely
             PROVE  Spec => []BoundedConcurrency
  OBVIOUS
<1>1. Init => BatchInvariant
  BY Init_Batch, ZenonT(60)
<1>2. OwnershipInvariant /\ BatchInvariant /\ [Next]_vars => BatchInvariant'
  BY Next_Batch, ZenonT(60)
<1>3. ASSUME OwnershipInvariant, BatchInvariant
      PROVE  BoundedConcurrency
  <2> SUFFICES ASSUME NEW w \in Worker
               PROVE  Cardinality(tasks[w]) <= MaxConcurrency
    BY ZenonT(60) DEF BoundedConcurrency
  <2>1. /\ claim_count \in Nat /\ claim_count <= MaxConcurrency /\ MaxConcurrency \in Nat
        /\ claimed[w] \in Nat /\ Cardinality(tasks[w]) \in Nat /\ Cardinality({}) = 0
        /\ Fits(pc[w], tasks[w], stale[w], listed[w], claimed[w])
    BY <1>3, BatchFacts, ZenonT(60) DEF OwnershipInvariant, LedgerInvariant, TypeOK
  <2>2. CASE tasks[w] = {}
    BY <2>1, <2>2
  <2>3. CASE tasks[w] # {}
    BY <2>1, <2>3 DEF Fits
  <2>. QED
    BY <2>2, <2>3, ZenonT(60)
<1>. QED
  BY <1>1, <1>2, <1>3, OwnershipHolds, PTL DEF Spec

--------------------------------------------------------------------------------
(* CrashInvariant, and what follows from it. *)

(* Nothing is acknowledged at the start. *)
LEMMA Init_Served ==
  ASSUME Init
  PROVE  AcknowledgedAreServed
<1>1. stream = << >> /\ tasks = [w \in Worker |-> {}]
  BY DEF Init, StreamInit, WorkerInit
<1>. QED
  BY <1>1 DEF AcknowledgedAreServed, Message

(* Delivery is at least once: no message is acknowledged before its        *)
(* attempt has been started or its invocation has ended.                   *)
THEOREM AcknowledgedAreServedHolds == Timely => (Spec => []AcknowledgedAreServed)
<1> SUFFICES ASSUME Timely
             PROVE  Spec => []AcknowledgedAreServed
  OBVIOUS
<1>1. Init => OwnershipInvariant /\ AcknowledgedAreServed
  BY Init_Ownership, Init_Served, ZenonT(60)
<1>2. OwnershipInvariant /\ AcknowledgedAreServed /\ [Next]_vars
        => (OwnershipInvariant /\ AcknowledgedAreServed)'
  <2>1. ASSUME OwnershipInvariant, [Next]_vars
        PROVE  OwnershipInvariant' /\ LedgerInvariant'
    BY <2>1, Next_Ownership, ZenonT(60) DEF OwnershipInvariant
  <2>. QED
    BY <2>1, Served_Step, ZenonT(60)
<1>. QED
  BY <1>1, <1>2, PTL DEF Spec

(* CrashInvariant holds at the start. *)
LEMMA Init_Crash ==
  ASSUME Init
  PROVE  CrashInvariant
<1>1. /\ status = [i \in Invocation |-> "ABSENT"]
      /\ worker_status = [w \in Worker |-> "ABSENT"] /\ pc = [w \in Worker |-> "new"]
      /\ stale = [w \in Worker |-> {}]
  BY DEF Init, StoreInit, WorkerInit
<1>2. ASSUME NEW w \in Worker
      PROVE  RecoverySettled(w)
  <2>1. find_running_attempts(stale[w]) = {} /\ ~InRecovery(w)
    BY <1>1, ZenonT(60) DEF find_running_attempts, InRecovery
  <2>. QED
    BY <1>1, <2>1, ZenonT(60) DEF RecoverySettled
<1>3. RunningIsNumbered /\ RunningIsOwned
  BY <1>1, ZenonT(60) DEF RunningIsNumbered, RunningIsOwned
<1>. QED
  BY <1>2, <1>3, Init_Ownership, Init_Served, ZenonT(60) DEF CrashInvariant

(* Every step keeps the invariant. *)
LEMMA Next_Crash ==
  ASSUME CrashesOnly, CrashInvariant, [Next]_vars
  PROVE  CrashInvariant'
<1>1. OwnershipInvariant /\ AcknowledgedAreServed /\ RunningIsNumbered
  BY ZenonT(60) DEF CrashInvariant
<1>2. OwnershipInvariant' /\ LedgerInvariant'
  <2>1. Timely
    BY DEF CrashesOnly, Timely
  <2>. QED
    BY <1>1, <2>1, Next_Ownership, ZenonT(60) DEF OwnershipInvariant
<1>3. AcknowledgedAreServed' /\ RunningIsNumbered'
  BY <1>1, <1>2, Served_Step, Numbered_Step, ZenonT(60)
<1>4. RunningIsOwned' /\ \A w \in Worker : RecoverySettled(w)'
  BY Owned_Step, Settled_Step, ZenonT(60)
<1>. QED
  BY <1>2, <1>3, <1>4, ZenonT(60) DEF CrashInvariant

(* While workers only crash, recovery overlooks no attempt, however many   *)
(* workers recover at a time.                                              *)
THEOREM CrashHolds == CrashesOnly => (Spec => []CrashInvariant)
<1> SUFFICES ASSUME CrashesOnly
             PROVE  Spec => []CrashInvariant
  OBVIOUS
<1>1. Init => CrashInvariant
  BY Init_Crash, ZenonT(60)
<1>2. CrashInvariant /\ [Next]_vars => CrashInvariant'
  BY Next_Crash, ZenonT(60)
<1>. QED
  BY <1>1, <1>2, PTL DEF Spec

(* No invocation hangs in RUNNING: its attempt is executed by the worker   *)
(* that mark_running recorded, or that worker is dead and its row is one   *)
(* that find_stale_workers returns.                                        *)
THEOREM RunningIsOwnedHolds == CrashesOnly => (Spec => []RunningIsOwned)
<1>1. CrashInvariant => RunningIsOwned
  BY ZenonT(60) DEF CrashInvariant
<1>. QED
  BY <1>1, CrashHolds, PTL

(* A worker that recovery has marked OFFLINE has no RUNNING attempt left,  *)
(* in a pool of any size.                                                  *)
THEOREM OfflineRunsNothing ==
  CrashesOnly =>
    (Spec => [](\A w \in Worker : worker_status[w] = "OFFLINE" => find_running_attempts({w}) = {}))
<1>1. ASSUME CrashInvariant, NEW w \in Worker, worker_status[w] = "OFFLINE"
      PROVE  find_running_attempts({w}) = {}
  <2>1. OwnershipInvariant /\ OnlyDeadAreStale /\ pc[w] = "down"
    BY <1>1, CrashTypes, ZenonT(60) DEF RecoverySettled
  <2>2. tasks[w] = {}
    BY <2>1, ZenonT(60) DEF OnlyDeadAreStale, Up
  <2>3. ASSUME NEW r \in AttemptRow, attempt_status[r] = "RUNNING", attempt_worker[r] = w
        PROVE  FALSE
    <3>1. r[1] \in Invocation /\ r[2] \in AttemptNumber /\ r = <<r[1], r[2]>>
      BY RowParts, ZenonT(60)
    <3> PICK i \in Invocation : i = r[1]
      BY <3>1, ZenonT(60)
    <3>2. status[i] = "RUNNING" /\ r = <<i, attempt_count[i]>>
      BY <2>1, <2>3, <3>1, ZenonT(60) DEF OwnershipInvariant, RunningAttemptIsLast
    <3>3. PICK x \in Worker :
            /\ attempt_worker[<<i, attempt_count[i]>>] = x
            /\ \/ \E t \in Executing(x, i) : t.attempt = attempt_count[i]
               \/ ~Up(x) /\ worker_status[x] = "ONLINE"
      BY <1>1, <3>2, ZenonT(60) DEF CrashInvariant, RunningIsOwned
    <3>4. x = w
      BY <2>3, <3>2, <3>3, ZenonT(60)
    <3>. QED
      BY <1>1, <2>2, <3>3, <3>4, ZenonT(60) DEF Executing
  <2>. QED
    BY <2>3, ZenonT(60) DEF find_running_attempts
<1>2. CrashInvariant =>
        \A w \in Worker : worker_status[w] = "OFFLINE" => find_running_attempts({w}) = {}
  BY <1>1, ZenonT(60)
<1>. QED
  BY <1>2, CrashHolds, PTL

--------------------------------------------------------------------------------
(* CarryInvariant, and what follows from it. *)

(* CarryInvariant holds at the start. *)
LEMMA Init_Carry ==
  ASSUME Init
  PROVE  CarryInvariant
<1>1. CrashInvariant /\ BatchInvariant
  BY Init_Crash, Init_Batch, ZenonT(60)
<1>2. /\ status = [i \in Invocation |-> "ABSENT"] /\ attempt_count = [i \in Invocation |-> 0]
      /\ pending = [m \in MessageId |-> NoWorker] /\ pc = [w \in Worker |-> "new"]
      /\ tasks = [w \in Worker |-> {}] /\ stale = [w \in Worker |-> {}]
      /\ names = [w \in Worker |-> {}] /\ listed = [w \in Worker |-> {}]
  BY DEF Init, StoreInit, StreamInit, WorkerInit
<1>3. MessagesHeld
  BY <1>2, EnvironmentAssumption, ZenonT(60) DEF MessagesHeld, HoldsOwn, HeldBy
<1>4. \A w \in Worker : RecoveryComplete(w)
  BY <1>2, ZenonT(60) DEF RecoveryComplete
<1>5. \A i \in Invocation : WaiterIsCalled(i) /\ RunnerIsHeld(i)
  BY <1>2, ZenonT(60) DEF WaiterIsCalled, RunnerIsHeld
<1>. QED
  BY <1>1, <1>3, <1>4, <1>5, ZenonT(60) DEF CarryInvariant

(* Every step keeps the invariant, if no two workers recover the same one. *)
LEMMA Next_Carry ==
  ASSUME CrashesOnly, Undisputed, CarryInvariant, [Next]_vars
  PROVE  CarryInvariant'
<1>1. Timely /\ CallsSucceed
  BY DEF CrashesOnly, Timely, CallsSucceed
<1>2. CrashInvariant' /\ BatchInvariant' /\ LedgerInvariant'
  BY <1>1, CarryTypes, Next_Crash, Next_Batch, MessagesCount, Next_Ledger, ZenonT(60)
<1>. QED
  BY <1>2, MessagesCount, Held_Step, Complete_Step, Waiter_Step, Runner_Step, ZenonT(60)
  DEF CarryInvariant

(* The invariant holds as long as recoveries do not overlap. *)
THEOREM CarryHolds == CrashesOnly => (Spec /\ []Undisputed => []CarryInvariant)
<1> SUFFICES ASSUME CrashesOnly
             PROVE  Spec /\ []Undisputed => []CarryInvariant
  BY ZenonT(60)
<1>1. Init => CarryInvariant
  BY Init_Carry, ZenonT(60)
<1>2. Undisputed /\ CarryInvariant /\ [Next]_vars => CarryInvariant'
  BY Next_Carry, ZenonT(60)
<1>. QED
  BY <1>1, <1>2, PTL DEF Spec

(* mark_workers_offline, which hides a worker from every later recovery,   *)
(* is only reached when that worker has neither a pending message nor a    *)
(* RUNNING attempt left, as long as recoveries do not overlap.             *)
THEOREM OfflineMeansRecoveredHolds ==
  CrashesOnly => (Spec /\ []Undisputed => []OfflineMeansRecovered)
<1>1. CarryInvariant => OfflineMeansRecovered
  BY Carry_Offline, ZenonT(60)
<1>. QED
  BY <1>1, CarryHolds, PTL

(* Whatever crashes happen, every accepted invocation that has not ended   *)
(* is carried by an outbox row, an undelivered message, a task or a        *)
(* message that recovery will find, as long as recoveries do not overlap.  *)
THEOREM NothingStrandedHolds ==
  CrashesOnly => (Spec /\ []Undisputed => []NothingStranded)
<1>1. CarryInvariant => NothingStranded
  BY Carry_Stranded, ZenonT(60)
<1>. QED
  BY <1>1, CarryHolds, PTL

(* A pool of two workers needs no such condition. *)
THEOREM PairLosesNothing ==
  CrashesOnly /\ AtMostTwo => (Spec => [](OfflineMeansRecovered /\ NothingStranded))
<1> SUFFICES ASSUME CrashesOnly, AtMostTwo
             PROVE  Spec => [](OfflineMeansRecovered /\ NothingStranded)
  OBVIOUS
<1>1. Init => CarryInvariant
  BY Init_Carry, ZenonT(60)
<1>2. CarryInvariant /\ [Next]_vars => CarryInvariant'
  BY Next_Carry, PairIsUndisputed, ZenonT(60)
<1>3. CarryInvariant => OfflineMeansRecovered /\ NothingStranded
  BY Carry_Offline, Carry_Stranded, ZenonT(60)
<1>. QED
  BY <1>1, <1>2, <1>3, PTL DEF Spec
================================================================================
