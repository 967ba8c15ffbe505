---------------------------- MODULE InMemoryQueue --------------------------
(***************************************************************************)
(* The in-memory backend of the MessageQueue protocol                      *)
(* (libs/agent_sdk/agent_sdk/providers/queue/inmemory.py): one             *)
(* asyncio.Queue in the process that runs scheduler and worker, shared by  *)
(* way of the get_queue() singleton.  A message is named by the order in   *)
(* which it was published; what it says makes no difference to the queue.  *)
(***************************************************************************)
EXTENDS Naturals, Sequences, Functions

VARIABLES
  items,     \* the asyncio.Queue, oldest first: numbers of messages
  published, \* history: number of messages ever published
  taken,     \* history: messages that consume() has yielded
  acked      \* history: messages ack() was called for

queueVars == <<items, published, taken, acked>>

QueueTypeOK ==
  /\ published \in Nat
  /\ items \in Seq(1..published)
  /\ taken \subseteq 1..published
  /\ acked \subseteq taken

QueueInit == items = <<>> /\ published = 0 /\ taken = {} /\ acked = {}

\* A faulty Publish for the mutation runs: a bounded queue that drops what does
\* not fit.
PublishBounded ==
  /\ published' = published + 1
  /\ items' = IF Len(items) < 2 THEN Append(items, published + 1) ELSE items
  /\ UNCHANGED <<taken, acked>>

\* put() on an unbounded queue neither waits nor fails.
Publish ==
  /\ published' = published + 1
  /\ items' = Append(items, published + 1)
  /\ UNCHANGED <<taken, acked>>

\* A faulty Consume for the mutation runs: get() from the wrong end.
ConsumeNewest ==
  /\ items # <<>>
  /\ taken' = taken \cup {items[Len(items)]}
  /\ items' = SubSeq(items, 1, Len(items) - 1)
  /\ UNCHANGED <<published, acked>>

\* get() removes the oldest message: delivery is at most once.
Consume ==
  /\ items # <<>>
  /\ taken' = taken \cup {Head(items)}
  /\ items' = Tail(items)
  /\ UNCHANGED <<published, acked>>

\* ack() does nothing to the queue.
Ack(n) ==
  /\ acked' = acked \cup {n}
  /\ UNCHANGED <<items, published, taken>>

\* The process ends, and the queue with it.
Vanish ==
  /\ items' = <<>>
  /\ UNCHANGED <<published, taken, acked>>

\* The backend as the protocol sees it.
StateOf(n) ==
  CASE n \in acked -> "acked"
    [] n \in taken \ acked -> "out"
    [] n \in Range(items) -> "waiting"
    [] OTHER -> "lost"
===========================================================================
