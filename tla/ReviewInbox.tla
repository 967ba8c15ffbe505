---------------------------- MODULE ReviewInbox ---------------------------
(***************************************************************************)
(* What the generation pipeline promises the advisor, with the queue, the  *)
(* workers and the tables left out: each client on the roster has one slot *)
(* in the inbox, empty or holding one draft that waits for review.  A slot *)
(* is filled only when it is empty, and a waiting draft leaves its slot    *)
(* only because the advisor settles it or the client is removed: no draft  *)
(* replaces another under the advisor's eyes.                              *)
(***************************************************************************)
EXTENDS Naturals

CONSTANT Clients

VARIABLES
  roster,   \* the clients that exist
  slot      \* slot[c]: the draft waiting for review, or NoDraft

inboxVars == <<roster, slot>>

NoDraft == 0

OthersKeepSlot(c) == \A b \in Clients \ {c} : slot'[b] = slot[b]

InboxInit ==
  /\ roster = Clients
  /\ slot = [c \in Clients |-> NoDraft]

\* A draft is put before the advisor: a generated one, or one sent earlier
\* that is opened again.
Offer(c) ==
  /\ c \in roster
  /\ slot[c] = NoDraft
  /\ slot'[c] # NoDraft
  /\ \A b \in Clients \ {c} : slot[b] # slot'[c]
  /\ OthersKeepSlot(c)
  /\ UNCHANGED roster

\* The advisor marks the waiting draft as sent.
Settle(c) ==
  /\ slot[c] # NoDraft
  /\ slot'[c] = NoDraft
  /\ OthersKeepSlot(c)
  /\ UNCHANGED roster

\* The client leaves the roster and takes the waiting draft along.
Remove(c) ==
  /\ c \in roster
  /\ roster' = roster \ {c}
  /\ slot'[c] = NoDraft
  /\ OthersKeepSlot(c)

InboxNext == \E c \in Clients : Offer(c) \/ Settle(c) \/ Remove(c)

InboxSpec == InboxInit /\ [][InboxNext]_inboxVars
===========================================================================
