-------------------------- MODULE DraftStore_proofs -----------------------
(***************************************************************************)
(* What the operations of DraftStore do to the rows, for the proofs about  *)
(* the modules that use them.                                              *)
(***************************************************************************)
EXTENDS DraftStore, TLAPS

\* Each committed operation on the tables keeps the rows well-typed.
LEMMA StoreTypes ==
  ASSUME StoreTypeOK,
         \/ \E c \in Clients, m \in Nat : InsertDraft(c, m)
         \/ \E d \in DOMAIN drafts, s \in {"pending", "sent"} : UpdateStatus(d, s)
         \/ \E c \in Clients : DeleteClient(c)
         \/ \E c \in Clients, m \in Nat : InsertFailure(c, m)
         \/ UNCHANGED storeVars
  PROVE  StoreTypeOK'
<1>1. ASSUME NEW c \in Clients, NEW m \in Nat, InsertDraft(c, m)
      PROVE  StoreTypeOK'
  <2>1. [client |-> c, msg |-> m, status |-> "pending"] \in Draft
    BY DEF Draft, DraftStatus
  <2> QED
    BY <1>1, <2>1 DEF InsertDraft, StoreTypeOK
<1>2. ASSUME NEW d \in DOMAIN drafts, NEW s \in {"pending", "sent"},
             UpdateStatus(d, s)
      PROVE  StoreTypeOK'
  <2> DEFINE row == [drafts[d] EXCEPT !.status = s]
  <2>1. row \in Draft
    <3>1. drafts[d] \in Draft
      BY DEF StoreTypeOK
    <3> QED
      BY <3>1 DEF Draft, DraftStatus
  <2>2. drafts' = [drafts EXCEPT ![d] = row]
    BY <1>2 DEF UpdateStatus
  <2>3. drafts' \in Seq(Draft)
    BY <2>1, <2>2 DEF StoreTypeOK
  <2> QED
    BY <1>2, <2>3 DEF UpdateStatus, StoreTypeOK
<1>3. ASSUME NEW c \in Clients, DeleteClient(c)
      PROVE  StoreTypeOK'
  <2>1. drafts' \in Seq(Draft)
    <3>1. ASSUME NEW d \in DOMAIN drafts
          PROVE  drafts'[d] \in Draft
      <4>1. drafts[d] \in Draft
        BY DEF StoreTypeOK
      <4>2. [drafts[d] EXCEPT !.status = "deleted"] \in Draft
        BY <4>1 DEF Draft, DraftStatus
      <4>3. drafts'[d] = IF drafts[d].client = c
                         THEN [drafts[d] EXCEPT !.status = "deleted"]
                         ELSE drafts[d]
        BY <1>3 DEF DeleteClient
      <4> QED
        BY <4>1, <4>2, <4>3
    <3> QED
      BY <1>3, <3>1 DEF DeleteClient, StoreTypeOK
  <2> QED
    BY <1>3, <2>1 DEF DeleteClient, StoreTypeOK
<1>4. ASSUME NEW c \in Clients, NEW m \in Nat, InsertFailure(c, m)
      PROVE  StoreTypeOK'
  BY <1>4 DEF InsertFailure, StoreTypeOK, Failure
<1>5. CASE UNCHANGED storeVars
  BY <1>5 DEF storeVars, StoreTypeOK
<1> QED
  BY <1>1, <1>2, <1>3, <1>4, <1>5

\* An insert adds one pending row, for a client that exists and had none.
LEMMA InsertAddsRow ==
  ASSUME StoreTypeOK, NEW c \in Clients, NEW m \in Nat, InsertDraft(c, m)
  PROVE  /\ DOMAIN drafts' = DOMAIN drafts \cup {Len(drafts) + 1}
         /\ Len(drafts) + 1 \notin DOMAIN drafts
         /\ \A d \in DOMAIN drafts : drafts'[d] = drafts[d]
         /\ drafts'[Len(drafts) + 1] =
              [client |-> c, msg |-> m, status |-> "pending"]
         /\ c \in clients
         /\ \A d \in DOMAIN drafts :
              drafts[d].client = c => drafts[d].status # "pending"
         /\ UNCHANGED <<clients, failures>>
BY DEF InsertDraft, CanInsertDraft, Pending, StoreTypeOK

\* An update changes the status of one row, and makes it pending only if no
\* row of its client is.
LEMMA UpdateChangesRow ==
  ASSUME StoreTypeOK, NEW d \in DOMAIN drafts, NEW s \in {"pending", "sent"},
         UpdateStatus(d, s)
  PROVE  /\ DOMAIN drafts' = DOMAIN drafts
         /\ \A e \in DOMAIN drafts : /\ drafts'[e].client = drafts[e].client
                                     /\ drafts'[e].msg = drafts[e].msg
         /\ \A e \in DOMAIN drafts \ {d} : drafts'[e].status = drafts[e].status
         /\ drafts[d].status # "deleted"
         /\ drafts'[d].status = s
         /\ s = "pending" =>
              \A e \in DOMAIN drafts :
                drafts[e].client = drafts[d].client
                  => drafts[e].status # "pending"
         /\ UNCHANGED <<clients, failures>>
<1>1. \A e \in DOMAIN drafts : drafts[e] \in Draft
  BY DEF StoreTypeOK
<1>2. drafts' = [drafts EXCEPT ![d] = [drafts[d] EXCEPT !.status = s]]
  BY DEF UpdateStatus
<1>3. drafts'[d] = [drafts[d] EXCEPT !.status = s]
  BY <1>2 DEF StoreTypeOK
<1>4. \A e \in DOMAIN drafts \ {d} : drafts'[e] = drafts[e]
  BY <1>2 DEF StoreTypeOK
<1>5. /\ drafts'[d].client = drafts[d].client
      /\ drafts'[d].msg = drafts[d].msg
      /\ drafts'[d].status = s
  BY <1>1, <1>3 DEF Draft
<1>6. DOMAIN drafts' = DOMAIN drafts
  BY <1>2 DEF StoreTypeOK
<1> QED
  BY <1>4, <1>5, <1>6 DEF UpdateStatus, Pending

\* A removed client's rows become "deleted"; no other row changes.
LEMMA DeleteCascades ==
  ASSUME StoreTypeOK, NEW c \in Clients, DeleteClient(c)
  PROVE  /\ DOMAIN drafts' = DOMAIN drafts
         /\ \A e \in DOMAIN drafts :
              /\ drafts'[e].client = drafts[e].client
              /\ drafts'[e].msg = drafts[e].msg
              /\ drafts'[e].status = IF drafts[e].client = c
                                     THEN "deleted" ELSE drafts[e].status
         /\ clients' = clients \ {c}
         /\ failures' = {f \in failures : f.client # c}
<1>1. \A e \in DOMAIN drafts : drafts[e] \in Draft
  BY DEF StoreTypeOK
<1>2. DOMAIN drafts' = DOMAIN drafts
  BY DEF DeleteClient
<1>3. ASSUME NEW e \in DOMAIN drafts
      PROVE  drafts'[e] = IF drafts[e].client = c
                          THEN [drafts[e] EXCEPT !.status = "deleted"]
                          ELSE drafts[e]
  BY DEF DeleteClient
<1>4. ASSUME NEW e \in DOMAIN drafts
      PROVE  /\ drafts'[e].client = drafts[e].client
             /\ drafts'[e].msg = drafts[e].msg
             /\ drafts'[e].status = IF drafts[e].client = c
                                    THEN "deleted" ELSE drafts[e].status
  BY <1>1, <1>3 DEF Draft
<1> QED
  BY <1>2, <1>4 DEF DeleteClient

---------------------------------------------------------------------------
(***************************************************************************)
(* What every user of the tables inherits: their constraints hold, and     *)
(* they implement ReviewInbox.                                             *)
(***************************************************************************)

StoreInv == StoreTypeOK /\ OnePendingDraft /\ RowsReferToClients

\* A step that does one operation on clients and drafts, or none.
RowsStep ==
  \/ \E c \in Clients, m \in Nat : InsertDraft(c, m)
  \/ \E d \in DOMAIN drafts, s \in {"pending", "sent"} : UpdateStatus(d, s)
  \/ \E c \in Clients : DeleteClient(c)
  \/ UNCHANGED <<clients, drafts>>

\* The empty tables satisfy the constraints.
LEMMA StoreInvInit == StoreInit => StoreInv
BY DEF StoreInit, StoreInv, StoreTypeOK, OnePendingDraft, RowsReferToClients

\* Each operation keeps the constraints: insert and update by the unique index,
\* the insert also by its foreign key, the deletion by its cascades.
LEMMA StoreInvStep ==
  ASSUME StoreInv, RowsStep, UNCHANGED <<clients, drafts>> => UNCHANGED failures
  PROVE  StoreInv'
<1>1. StoreTypeOK'
  BY StoreTypes DEF StoreInv, RowsStep, storeVars
<1>2. ASSUME NEW c \in Clients, NEW m \in Nat, InsertDraft(c, m)
      PROVE  OnePendingDraft' /\ RowsReferToClients'
  <2>1. /\ DOMAIN drafts' = DOMAIN drafts \cup {Len(drafts) + 1}
        /\ Len(drafts) + 1 \notin DOMAIN drafts
        /\ \A d \in DOMAIN drafts : drafts'[d] = drafts[d]
        /\ drafts'[Len(drafts) + 1] =
             [client |-> c, msg |-> m, status |-> "pending"]
        /\ c \in clients
        /\ \A d \in DOMAIN drafts :
             drafts[d].client = c => drafts[d].status # "pending"
        /\ UNCHANGED <<clients, failures>>
    BY <1>2, InsertAddsRow DEF StoreInv
  <2>2. OnePendingDraft'
    BY <2>1 DEF StoreInv, OnePendingDraft
  <2>3. RowsReferToClients'
    BY <2>1 DEF StoreInv, RowsReferToClients
  <2> QED
    BY <2>2, <2>3
<1>3. ASSUME NEW d \in DOMAIN drafts, NEW s \in {"pending", "sent"}, UpdateStatus(d, s)
      PROVE  OnePendingDraft' /\ RowsReferToClients'
  BY <1>3, UpdateChangesRow DEF StoreInv, OnePendingDraft, RowsReferToClients
<1>4. ASSUME NEW c \in Clients, DeleteClient(c)
      PROVE  OnePendingDraft' /\ RowsReferToClients'
  <2>1. /\ DOMAIN drafts' = DOMAIN drafts
        /\ \A e \in DOMAIN drafts :
             /\ drafts'[e].client = drafts[e].client
             /\ drafts'[e].status = IF drafts[e].client = c
                                    THEN "deleted" ELSE drafts[e].status
        /\ clients' = clients \ {c}
        /\ failures' = {f \in failures : f.client # c}
    BY <1>4, DeleteCascades DEF StoreInv
  <2>2. OnePendingDraft'
    BY <2>1 DEF StoreInv, OnePendingDraft
  <2>3. RowsReferToClients'
    BY <2>1 DEF StoreInv, RowsReferToClients, StoreTypeOK
  <2> QED
    BY <2>2, <2>3
<1>5. ASSUME UNCHANGED <<clients, drafts>>
      PROVE  OnePendingDraft' /\ RowsReferToClients'
  BY <1>5 DEF StoreInv, OnePendingDraft, RowsReferToClients
<1> QED
  BY <1>1, <1>2, <1>3, <1>4, <1>5 DEF StoreInv, RowsStep

\* A slot holds the client's only pending draft.
LEMMA SlotIsPending ==
  ASSUME StoreTypeOK, OnePendingDraft, NEW c \in Clients
  PROVE  /\ Pending(c) = {} => Slot(c) = 0
         /\ \A d \in Pending(c) : Slot(c) = d /\ d \in DOMAIN drafts /\ d # 0
<1>1. CASE Pending(c) = {}
  BY <1>1 DEF Slot, OnlyOf
<1>2. ASSUME NEW d \in Pending(c)
      PROVE  Slot(c) = d /\ d \in DOMAIN drafts /\ d # 0
  <2>1. \A e \in Pending(c) : e = d
    BY <1>2 DEF Pending, OnePendingDraft
  <2>2. Slot(c) \in Pending(c)
    BY <1>2 DEF Slot, OnlyOf
  <2>3. d \in DOMAIN drafts /\ d # 0
    BY <1>2 DEF Pending, StoreTypeOK
  <2> QED
    BY <2>1, <2>2, <2>3
<1> QED
  BY <1>1, <1>2

\* The pending draft of one client appears and nothing else changes: the
\* abstract Offer.
LEMMA OfferMaps ==
  ASSUME StoreTypeOK, OnePendingDraft, StoreTypeOK', OnePendingDraft',
         NEW c \in clients, NEW d \in Nat,
         Pending(c) = {}, Pending(c)' = {d},
         \A b \in Clients \ {c} : Pending(b)' = Pending(b) /\ d \notin Pending(b),
         UNCHANGED clients
  PROVE  Inbox!Offer(c)
<1>1. c \in Clients
  BY DEF StoreTypeOK
<1>2. Slot(c) = 0 /\ Slot(c)' = d /\ d # 0
  <2>1. Slot(c) = 0
    BY <1>1, SlotIsPending
  <2>2. Slot(c)' = (CHOOSE x \in {d} : TRUE)
    BY DEF Slot, OnlyOf
  <2>3. d \in DOMAIN drafts' /\ drafts' \in Seq(Draft)
    BY DEF Pending, StoreTypeOK
  <2> QED
    BY <2>1, <2>2, <2>3
<1>3. ASSUME NEW b \in Clients \ {c}
      PROVE  Slot(b)' = Slot(b) /\ Slot(b) # d
  <2>1. Slot(b)' = Slot(b)
    BY DEF Slot
  <2>2. CASE Pending(b) = {}
    BY <1>2, <2>2 DEF Slot, OnlyOf
  <2>3. ASSUME NEW e \in Pending(b)
        PROVE  Slot(b) # d
    <3>1. Slot(b) = e
      BY SlotIsPending
    <3> QED
      BY <3>1
  <2> QED
    BY <2>1, <2>2, <2>3
<1> QED
  BY <1>1, <1>2, <1>3 DEF Inbox!Offer, Inbox!OthersKeepSlot, Inbox!NoDraft

\* An insert is the abstract Offer.
LEMMA InsertMaps ==
  ASSUME StoreInv, StoreInv', NEW c \in Clients, NEW m \in Nat, InsertDraft(c, m)
  PROVE  Inbox!InboxNext
<1> DEFINE n == Len(drafts) + 1
<1>1. /\ DOMAIN drafts' = DOMAIN drafts \cup {n}
      /\ n \in Nat
      /\ n \notin DOMAIN drafts
      /\ \A d \in DOMAIN drafts : drafts'[d] = drafts[d]
      /\ drafts'[n] = [client |-> c, msg |-> m, status |-> "pending"]
      /\ c \in clients
      /\ UNCHANGED clients
  <2>1. n \in Nat
    BY DEF StoreInv, StoreTypeOK
  <2> QED
    BY <2>1, InsertAddsRow DEF StoreInv
<1>2. Pending(c) = {}
  BY DEF InsertDraft, CanInsertDraft
<1> HIDE DEF n
<1>3. Pending(c)' = {n}
  BY <1>1, <1>2 DEF Pending
<1>4. \A b \in Clients \ {c} : Pending(b)' = Pending(b) /\ n \notin Pending(b)
  BY <1>1 DEF Pending
<1>5. Inbox!Offer(c)
  BY <1>1, <1>2, <1>3, <1>4, OfferMaps DEF StoreInv
<1> QED
  BY <1>5 DEF Inbox!InboxNext

\* What an update leaves alone of the other clients.
LEMMA OthersKeepPending ==
  ASSUME StoreInv, NEW d \in DOMAIN drafts, NEW s \in {"pending", "sent"}, UpdateStatus(d, s)
  PROVE  \A b \in Clients \ {drafts[d].client} :
           Pending(b)' = Pending(b) /\ d \notin Pending(b)
<1>1. /\ DOMAIN drafts' = DOMAIN drafts
      /\ \A e \in DOMAIN drafts : drafts'[e].client = drafts[e].client
      /\ \A e \in DOMAIN drafts \ {d} : drafts'[e].status = drafts[e].status
  BY UpdateChangesRow DEF StoreInv
<1> QED
  BY <1>1 DEF Pending

\* A status that becomes "sent" empties the slot the draft was in: Settle.
LEMMA SettleMaps ==
  ASSUME StoreInv, NEW d \in DOMAIN drafts, UpdateStatus(d, "sent")
  PROVE  /\ drafts[d].client \in Clients
         /\ Slot(drafts[d].client) = d
         /\ Inbox!Settle(drafts[d].client)
<1>d. drafts[d] \in Draft /\ d \in Nat /\ d # 0
  BY DEF StoreInv, StoreTypeOK
<1>c. PICK c \in Clients : c = drafts[d].client
  BY <1>d DEF Draft
<1>1. /\ DOMAIN drafts' = DOMAIN drafts
      /\ \A e \in DOMAIN drafts : drafts'[e].client = drafts[e].client
      /\ \A e \in DOMAIN drafts \ {d} : drafts'[e].status = drafts[e].status
      /\ drafts'[d].status = "sent"
      /\ UNCHANGED clients
  BY UpdateChangesRow DEF StoreInv
<1>2. d \in Pending(c)
  <2>1. drafts[d].status \in DraftStatus
    BY <1>d DEF Draft
  <2>2. drafts[d].status \notin {"sent", "deleted"}
    BY DEF UpdateStatus
  <2>3. drafts[d].status = "pending"
    BY <2>1, <2>2 DEF DraftStatus
  <2> QED
    BY <1>c, <2>3 DEF Pending
<1>3. \A e \in Pending(c) : e = d
  BY <1>2 DEF Pending, StoreInv, OnePendingDraft
<1>4. Pending(c)' = {}
  BY <1>1, <1>c, <1>2, <1>3 DEF Pending
<1>5. Slot(c) = d /\ Slot(c)' = 0
  BY <1>2, <1>4, SlotIsPending DEF StoreInv, Slot, OnlyOf
<1>6. \A b \in Clients \ {c} : Slot(b)' = Slot(b)
  BY <1>c, OthersKeepPending DEF Slot
<1>7. Inbox!Settle(c)
  BY <1>d, <1>1, <1>5, <1>6 DEF Inbox!Settle, Inbox!OthersKeepSlot, Inbox!NoDraft
<1> QED
  BY <1>c, <1>5, <1>7

\* One that becomes "pending" again fills it: Offer.
LEMMA UpdateMaps ==
  ASSUME StoreInv, StoreInv',
         NEW d \in DOMAIN drafts, NEW s \in {"pending", "sent"}, UpdateStatus(d, s)
  PROVE  Inbox!InboxNext
<1>d. drafts[d] \in Draft
  BY DEF StoreInv, StoreTypeOK
<1>c. PICK c \in Clients : c = drafts[d].client
  BY <1>d DEF Draft
<1>1. /\ DOMAIN drafts' = DOMAIN drafts
      /\ \A e \in DOMAIN drafts : drafts'[e].client = drafts[e].client
      /\ \A e \in DOMAIN drafts \ {d} : drafts'[e].status = drafts[e].status
      /\ drafts[d].status # "deleted"
      /\ drafts'[d].status = s
      /\ UNCHANGED clients
  BY UpdateChangesRow DEF StoreInv
<1>2. d \in Nat /\ c \in clients
  BY <1>1, <1>c DEF StoreInv, RowsReferToClients, StoreTypeOK
<1>3. \A b \in Clients \ {c} : Pending(b)' = Pending(b) /\ d \notin Pending(b)
  BY <1>c, OthersKeepPending
<1>4. CASE s = "pending"
  <2>1. Pending(c) = {}
    BY <1>4, <1>c DEF UpdateStatus
  <2>2. Pending(c)' = {d}
    BY <1>1, <1>4, <1>c, <2>1 DEF Pending
  <2>3. Inbox!Offer(c)
    BY <1>1, <1>2, <1>3, <2>1, <2>2, OfferMaps DEF StoreInv
  <2> QED
    BY <1>2, <2>3 DEF Inbox!InboxNext
<1>5. CASE s = "sent"
  BY <1>5, SettleMaps DEF Inbox!InboxNext
<1> QED
  BY <1>4, <1>5

\* A deletion of a client is Remove.
LEMMA DeleteMaps ==
  ASSUME StoreInv, NEW c \in Clients, DeleteClient(c)
  PROVE  Inbox!InboxNext
<1>1. /\ DOMAIN drafts' = DOMAIN drafts
      /\ \A e \in DOMAIN drafts :
           /\ drafts'[e].client = drafts[e].client
           /\ drafts'[e].status = IF drafts[e].client = c
                                  THEN "deleted" ELSE drafts[e].status
      /\ clients' = clients \ {c} /\ c \in clients
  BY DeleteCascades DEF StoreInv, DeleteClient
<1>2. Pending(c)' = {} /\ \A b \in Clients \ {c} : Pending(b)' = Pending(b)
  BY <1>1 DEF Pending
<1>3. Slot(c)' = 0
  BY <1>2 DEF Slot, OnlyOf
<1>4. \A b \in Clients \ {c} : Slot(b)' = Slot(b)
  BY <1>2 DEF Slot
<1>5. Inbox!Remove(c)
  BY <1>1, <1>3, <1>4 DEF Inbox!Remove, Inbox!OthersKeepSlot, Inbox!NoDraft
<1> QED
  BY <1>5 DEF Inbox!InboxNext

\* So each step is a step of the inbox or leaves it unchanged.
LEMMA StoreMaps ==
  ASSUME StoreInv, StoreInv', RowsStep
  PROVE  [Inbox!InboxNext]_(Inbox!inboxVars)
<1>1. CASE UNCHANGED <<clients, drafts>>
  <2>1. \A c \in Clients : Slot(c)' = Slot(c)
    BY <1>1 DEF Slot, Pending
  <2> QED
    BY <1>1, <2>1 DEF Inbox!inboxVars
<1> QED
  BY <1>1, InsertMaps, UpdateMaps, DeleteMaps DEF RowsStep

\* In empty tables every slot is empty.
LEMMA StoreInitMaps == StoreInit => Inbox!InboxInit
<1>1. StoreInit => \A c \in Clients : Pending(c) = {}
  BY DEF StoreInit, Pending
<1> QED
  BY <1>1 DEF StoreInit, Slot, OnlyOf, Inbox!InboxInit, Inbox!NoDraft
===========================================================================
