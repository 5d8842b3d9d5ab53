------------------------------ MODULE RedisStream ------------------------------
(***************************************************************************)
(* The Redis Stream of invocation tasks with its one consumer group, as    *)
(* src/ uses it.  Redis itself is external: each operator is one command,  *)
(* atomic, with the arguments the code passes.                             *)
(***************************************************************************)
EXTENDS Environment, Sequences, FiniteSets

CONSTANT MaxMessages   \* bound of the model: length of the stream

ASSUME StreamAssumption == MaxMessages \in Nat

VARIABLES
  stream,   \* the entries ever added, <<invocation, attempt number>> each
  cursor,   \* last-delivered-id of the group
  pending   \* the pending entries list: entry -> consumer, NoWorker if absent

streamVars == <<stream, cursor, pending>>

MessageId == 1..MaxMessages

StreamInit ==
  /\ stream = << >>
  /\ cursor = 0
  /\ pending = [m \in MessageId |-> NoWorker]

StreamTypeOK(Entry) ==
  /\ stream \in Seq(Entry)
  /\ Len(stream) <= MaxMessages
  /\ cursor \in 0..Len(stream)
  /\ pending \in [MessageId -> Worker \cup {NoWorker}]

Undelivered == {m \in MessageId : cursor < m /\ m <= Len(stream)}

PendingOf(w) == {m \in MessageId : pending[m] = w}

(* The oldest messages of a set, at most k of them. *)
Oldest(msgs, k) == {m \in msgs : Cardinality({x \in msgs : x < m}) < k}

(* XADD of a task for attempt row r. *)
xadd(r) ==
  /\ Len(stream) < MaxMessages
  /\ stream' = Append(stream, r)
  /\ UNCHANGED <<cursor, pending>>

(* XREADGROUP ... > COUNT k delivers the next messages of the stream, at   *)
(* most k of them, to consumer w.                                          *)
last_read(k) == IF Len(stream) <= cursor + k THEN Len(stream) ELSE cursor + k

next_messages(k) == {m \in MessageId : cursor < m /\ m <= last_read(k)}

xreadgroup(w, k) ==
  /\ cursor' = last_read(k)
  /\ pending' = [m \in MessageId |-> IF m \in next_messages(k) THEN w ELSE pending[m]]
  /\ UNCHANGED stream

(* XACK removes the entry whichever consumer holds it. *)
xack(m) ==
  /\ pending' = [pending EXCEPT ![m] = NoWorker]
  /\ UNCHANGED <<stream, cursor>>

(* XCLAIM with min-idle-time 0 moves those of msgs that are still pending, *)
(* whichever consumer holds them, to w.                                    *)
claimable(msgs) == {m \in msgs : pending[m] # NoWorker}

xclaim(w, msgs) ==
  /\ pending' = [m \in MessageId |-> IF m \in claimable(msgs) THEN w ELSE pending[m]]
  /\ UNCHANGED <<stream, cursor>>
================================================================================
