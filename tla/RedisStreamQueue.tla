------------------------- MODULE RedisStreamQueue -------------------------
(***************************************************************************)
(* The Redis Streams backend of the MessageQueue protocol                  *)
(* (libs/agent_sdk/agent_sdk/providers/queue/redis.py) as its callers see  *)
(* it: one stream, one consumer group "generation-worker" created at id 0, *)
(* one consumer name shared by every worker process.                       *)
(*                                                                         *)
(* Stream ids grow with every XADD, so entry n of the stream is named by   *)
(* its position n.  A message is abstracted to the client it is about:     *)
(* advisor, trigger type and trace headers are constant for our purposes.  *)
(***************************************************************************)
EXTENDS Entities, Naturals, Sequences

CONSTANT
  MaxMessages   \* bound: number of entries ever added to the stream

ASSUME QueueAssumption == MaxMessages \in Nat

VARIABLES
  stream,         \* the entries, oldest first: stream[n] is entry n's client
  lastDelivered,  \* the group's last-delivered-id: entries 1..lastDelivered
                  \* have been handed to the consumer, once each
  pel             \* the group's pending entries list: delivered, not acked

queueVars == <<stream, lastDelivered, pel>>

Entries == DOMAIN stream
Acked == (1..lastDelivered) \ pel

QueueTypeOK ==
  /\ stream \in Seq(Clients)
  /\ lastDelivered \in 0..Len(stream)
  /\ pel \subseteq 1..lastDelivered

QueueInit ==
  /\ stream = <<>>
  /\ lastDelivered = 0
  /\ pel = {}

\* publish(): XADD appends the message.
Publish(c) ==
  /\ Len(stream) < MaxMessages
  /\ stream' = Append(stream, c)
  /\ UNCHANGED <<lastDelivered, pel>>

\* Faulty forms of ReadGroup, for the mutation runs: a read that does not
\* wait for an entry, and a read from id 0 that yields the newest entry of
\* the shared consumer's own pending list again.
ReadGroupUnchecked ==
  /\ lastDelivered' = lastDelivered + 1
  /\ pel' = pel \cup {lastDelivered + 1}
  /\ UNCHANGED stream

ReadGroupPending ==
  \/ /\ lastDelivered \in pel
     /\ UNCHANGED queueVars
  \/ /\ lastDelivered < Len(stream)
     /\ ReadGroupUnchecked

\* Another one: the group starts at "$", the newest entry.
ReadGroupNewest ==
  /\ lastDelivered < Len(stream)
  /\ lastDelivered' = Len(stream)
  /\ pel' = pel \cup {Len(stream)}
  /\ UNCHANGED stream

\* XREADGROUP ... {stream: ">"} COUNT 1: the oldest entry never delivered to
\* the group moves into the pending entries list.  ">" never returns an entry
\* a second time, whatever became of the consumer it was delivered to.
ReadGroup ==
  /\ lastDelivered < Len(stream)
  /\ lastDelivered' = lastDelivered + 1
  /\ pel' = pel \cup {lastDelivered + 1}
  /\ UNCHANGED stream

\* ack(): XACK removes the entry from the pending list (a no-op if absent).
XAck(m) ==
  /\ pel' = pel \ {m}
  /\ UNCHANGED <<stream, lastDelivered>>

\* The backend as the MessageQueue protocol sees it.
StateOf(n) ==
  IF n > lastDelivered THEN "waiting" ELSE IF n \in pel THEN "out" ELSE "acked"
===========================================================================
