---------------------------- MODULE MessageQueue ---------------------------
(***************************************************************************)
(* What the MessageQueue protocol (libs/agent_sdk/agent_sdk/core/          *)
(* message_queue.py) promises the scheduler and the worker, whatever the   *)
(* backend: messages are handed out in the order they were published, none *)
(* is handed out twice, and only one that was handed out is acknowledged.  *)
(* A backend may forget messages that wait (the in-memory one, with its    *)
(* process) but never brings one back.                                     *)
(***************************************************************************)
EXTENDS Naturals, Sequences

VARIABLE state   \* state[n]: what became of the n-th message published

States == {"waiting", "out", "acked", "lost"}

MessagesInit == state = <<>>

\* publish()
Enqueue == state' = Append(state, "waiting")

\* consume() yields the oldest message that waits.
Yield ==
  \E n \in DOMAIN state :
    /\ state[n] = "waiting"
    /\ \A k \in 1..(n - 1) : state[k] # "waiting"
    /\ state' = [state EXCEPT ![n] = "out"]

\* ack()
Acknowledge ==
  \E n \in DOMAIN state :
    /\ state[n] = "out"
    /\ state' = [state EXCEPT ![n] = "acked"]

\* The backend forgets what waits.
Forget ==
  state' = [n \in DOMAIN state |-> IF state[n] = "waiting" THEN "lost" ELSE state[n]]

MessagesNext == Enqueue \/ Yield \/ Acknowledge \/ Forget

MessagesSpec == MessagesInit /\ [][MessagesNext]_state
===========================================================================
