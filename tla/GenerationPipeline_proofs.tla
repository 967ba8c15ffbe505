--------------------- MODULE GenerationPipeline_proofs --------------------
(***************************************************************************)
(* Proofs about GenerationPipeline, for any sets of clients, workers and   *)
(* publishers, any faults and any number of messages.                      *)
(***************************************************************************)
EXTENDS GenerationPipeline, DraftStore_proofs, TLAPS

---------------------------------------------------------------------------
(***************************************************************************)
(* The operations of the queue keep the types.                             *)
(***************************************************************************)

\* Each queue operation (XADD, XREADGROUP, XACK) keeps the queue well-typed.
LEMMA QueueTypes ==
  ASSUME QueueTypeOK,
         \/ \E c \in Clients : Publish(c)
         \/ ReadGroup
         \/ \E m \in Nat : XAck(m)
         \/ UNCHANGED queueVars
  PROVE  QueueTypeOK'
<1>1. ASSUME NEW c \in Clients, Publish(c)
      PROVE  QueueTypeOK'
  <2>1. stream' \in Seq(Clients) /\ Len(stream') = Len(stream) + 1
    BY <1>1 DEF Publish, QueueTypeOK
  <2> QED
    BY <1>1, <2>1 DEF Publish, QueueTypeOK
<1>2. CASE ReadGroup
  BY <1>2 DEF ReadGroup, QueueTypeOK
<1>3. ASSUME NEW m \in Nat, XAck(m)
      PROVE  QueueTypeOK'
  BY <1>3 DEF XAck, QueueTypeOK
<1>4. CASE UNCHANGED queueVars
  BY <1>4 DEF queueVars, QueueTypeOK
<1> QED
  BY <1>1, <1>2, <1>3, <1>4

\* A worker that handles a message names an entry of the stream: needed
\* wherever ClientOf is evaluated.
PositionsOK == \A w \in Workers : stage[w] \in Handling => msg[w] \in 1..lastDelivered

---------------------------------------------------------------------------
\* The pipeline's variables keep their types: the delivery cursor never passes
\* the end of the stream, only delivered entries are pending, and a worker in
\* the middle of a run names a delivered entry.
THEOREM TypeCorrect == Spec => [](TypeOK /\ PositionsOK)
<1>1. Init => TypeOK /\ PositionsOK
  BY QueueAssumption
  DEF Init, QueueInit, StoreInit, TypeOK, QueueTypeOK, StoreTypeOK, Stages,
      NoMsg, PositionsOK, Handling
<1>2. TypeOK /\ PositionsOK /\ [Next]_vars => TypeOK' /\ PositionsOK'
  <2> SUFFICES ASSUME TypeOK, PositionsOK, [Next]_vars
               PROVE  TypeOK' /\ PositionsOK'
    OBVIOUS
  <2> USE DEF Goto, Finish, workerVars, history, Stages, Handling, NoMsg
  <2> DEFINE WorkerTypeOK == /\ stage \in [Workers -> Stages]
                             /\ msg \in [Workers -> Nat]
                             /\ served \subseteq Nat
                             /\ dropped \subseteq Nat
             BatchTypeOK == batch \in [Publishers -> SUBSET Clients]
  <2>0. ASSUME NEW w \in Workers, stage[w] \in Handling
        PROVE  msg[w] \in Nat /\ msg[w] \in 1..Len(stream) /\ ClientOf(w) \in Clients
    BY <2>0 DEF TypeOK, QueueTypeOK, PositionsOK, ClientOf
  <2>1. ASSUME NEW p \in Publishers, BeginRun(p)
        PROVE  TypeOK' /\ PositionsOK'
    <3>1. QueueTypeOK' /\ StoreTypeOK'
      BY <2>1, QueueTypes, StoreTypes DEF BeginRun, TypeOK
    <3> QED
      BY <2>1, <3>1 DEF BeginRun, TypeOK, StoreTypeOK, PositionsOK, queueVars
  <2>2. ASSUME NEW p \in Publishers, PublishNext(p)
        PROVE  TypeOK' /\ PositionsOK'
    <3>1. QueueTypeOK' /\ StoreTypeOK'
      BY <2>2, QueueTypes, StoreTypes DEF PublishNext, TypeOK
    <3>2. BatchTypeOK'
      BY <2>2 DEF PublishNext, TypeOK
    <3> QED
      BY <2>2, <3>1, <3>2 DEF PublishNext, Publish, TypeOK, PositionsOK, queueVars
  <2>3. ASSUME NEW w \in Workers, Start(w) \/ Halt(w)
        PROVE  TypeOK' /\ PositionsOK'
    <3>1. QueueTypeOK' /\ StoreTypeOK'
      BY <2>3, QueueTypes, StoreTypes DEF Start, Halt, TypeOK
    <3>2. CASE Start(w)
      BY <2>3, <3>1, <3>2 DEF Start, TypeOK, PositionsOK, queueVars
    <3>3. CASE Halt(w)
      BY <2>0, <2>3, <3>1, <3>3 DEF Halt, TypeOK, PositionsOK, queueVars
    <3> QED
      BY <2>3, <3>2, <3>3
  <2>4. ASSUME NEW w \in Workers, Take(w)
        PROVE  TypeOK' /\ PositionsOK'
    <3>1. QueueTypeOK' /\ StoreTypeOK'
      BY <2>4, QueueTypes, StoreTypes DEF Take, TypeOK
    <3> QED
      BY <2>4, <3>1 DEF Take, ReadGroup, TypeOK, QueueTypeOK, PositionsOK
  <2>5. ASSUME NEW w \in Workers, PollFails(w)
        PROVE  TypeOK' /\ PositionsOK'
    <3>1. QueueTypeOK' /\ StoreTypeOK'
      BY <2>5, QueueTypes, StoreTypes DEF PollFails, TypeOK
    <3>2. lastDelivered' \in {lastDelivered, lastDelivered + 1}
      BY <2>5 DEF PollFails, ReadGroup, queueVars
    <3>3. lastDelivered' \in Nat
      BY <3>2 DEF TypeOK, QueueTypeOK
    <3>4. dropped' \subseteq Nat
      <4>1. dropped' \in {dropped, dropped \cup {lastDelivered'}}
        BY <2>5 DEF PollFails
      <4> QED
        BY <3>3, <4>1 DEF TypeOK
    <3> QED
      BY <2>5, <3>1, <3>2, <3>4 DEF PollFails, TypeOK, QueueTypeOK, PositionsOK
  <2>6. ASSUME NEW w \in Workers, FindPending(w) \/ Assemble(w) \/ Complete(w)
                                  \/ DbFails(w)
        PROVE  TypeOK' /\ PositionsOK'
    <3>1. QueueTypeOK' /\ StoreTypeOK'
      BY <2>6, QueueTypes, StoreTypes
      DEF FindPending, Assemble, Complete, DbFails, TypeOK
    <3> QED
      BY <2>0, <2>6, <3>1
      DEF FindPending, Assemble, Complete, DbFails, TypeOK, PositionsOK, queueVars
  <2>7. ASSUME NEW w \in Workers, CreateDraft(w)
        PROVE  TypeOK' /\ PositionsOK'
    <3>1. QueueTypeOK' /\ StoreTypeOK'
      BY <2>0, <2>7, QueueTypes, StoreTypes DEF CreateDraft, TypeOK
    <3> QED
      BY <2>0, <2>7, <3>1 DEF CreateDraft, TypeOK, PositionsOK, queueVars
  <2>8. ASSUME NEW w \in Workers, AckMessage(w) \/ AckFails(w)
        PROVE  TypeOK' /\ PositionsOK'
    <3>1. QueueTypeOK' /\ StoreTypeOK'
      BY <2>0, <2>8, QueueTypes, StoreTypes DEF AckMessage, AckFails, TypeOK
    <3>2. UNCHANGED lastDelivered
      BY <2>8 DEF AckMessage, AckFails, XAck, queueVars
    <3>3. CASE AckMessage(w)
      BY <3>1, <3>2, <3>3 DEF AckMessage, TypeOK, PositionsOK
    <3>4. CASE AckFails(w)
      BY <2>0, <3>1, <3>2, <3>4 DEF AckFails, TypeOK, PositionsOK
    <3> QED
      BY <2>8, <3>3, <3>4
  <2>9. ASSUME NEW w \in Workers, RecordFailure(w)
        PROVE  TypeOK' /\ PositionsOK'
    <3>1. QueueTypeOK' /\ StoreTypeOK'
      BY <2>0, <2>9, QueueTypes, StoreTypes DEF RecordFailure, TypeOK
    <3> QED
      BY <2>9, <3>1 DEF RecordFailure, TypeOK, PositionsOK, queueVars
  <2>10. CASE PatchStatus
    <3>1. QueueTypeOK' /\ StoreTypeOK'
      BY <2>10, QueueTypes, StoreTypes DEF PatchStatus, TypeOK
    <3> QED
      BY <2>10, <3>1 DEF PatchStatus, TypeOK, PositionsOK, queueVars
  <2>11. CASE RemoveClient
    <3>1. QueueTypeOK' /\ StoreTypeOK'
      BY <2>11, QueueTypes, StoreTypes
      DEF RemoveClient, TypeOK, StoreTypeOK, DeleteClient
    <3> QED
      BY <2>11, <3>1 DEF RemoveClient, TypeOK, PositionsOK, queueVars
  <2>12. CASE UNCHANGED vars
    BY <2>12 DEF vars, queueVars, storeVars, TypeOK, QueueTypeOK, StoreTypeOK,
                 PositionsOK
  <2> QED
    BY <2>1, <2>2, <2>3, <2>4, <2>5, <2>6, <2>7, <2>8, <2>9, <2>10, <2>11,
       <2>12 DEF Next, Handle
<1> QED
  BY <1>1, <1>2, PTL DEF Spec

---------------------------------------------------------------------------
(***************************************************************************)
(* The inductive invariant.  Each lemma below takes the part of IInv that  *)
(* an action can disturb.                                                  *)
(***************************************************************************)

\* The parts of the invariant about rows alone survive a step that leaves the
\* tables as they are and does not move the cursor back.
RowsInv ==
  /\ OriginsDelivered
  /\ OneDraftPerMessage
  /\ OnePendingDraft
  /\ RowsReferToClients

\* A step that leaves the tables alone keeps the part about the rows.
LEMMA RowsKept ==
  ASSUME TypeOK, RowsInv, UNCHANGED storeVars,
         lastDelivered' \in {lastDelivered, lastDelivered + 1}
  PROVE  RowsInv'
BY DEF RowsInv, OriginsDelivered, OneDraftPerMessage, OnePendingDraft,
       RowsReferToClients, storeVars, TypeOK, QueueTypeOK

---------------------------------------------------------------------------
\* The inductive invariant holds in every reachable state.
THEOREM Invariant == Spec => []IInv
<1>1. Init => IInv
  <2> SUFFICES ASSUME Init PROVE IInv
    OBVIOUS
  <2>1. TypeOK
    BY QueueAssumption
    DEF Init, QueueInit, StoreInit, TypeOK, QueueTypeOK, StoreTypeOK, Stages, NoMsg
  <2> QED
    BY <2>1
    DEF Init, QueueInit, StoreInit, IInv, HoldingInv, ExclusiveHandling,
        AckedIsServed, Acked, OriginsDelivered, OneDraftPerMessage,
        OnePendingDraft, RowsReferToClients, Handling
<1>2. IInv /\ TypeOK' /\ [Next]_vars => IInv'
  <2> SUFFICES ASSUME IInv, TypeOK', [Next]_vars
               PROVE  IInv'
    OBVIOUS
  <2>0. TypeOK /\ RowsInv /\ HoldingInv /\ ExclusiveHandling /\ AckedIsServed
    BY DEF IInv, RowsInv
  <2> SUFFICES RowsInv' /\ HoldingInv' /\ ExclusiveHandling' /\ AckedIsServed'
    BY DEF IInv, RowsInv
  <2> USE DEF Goto, Finish, Handling, BeforeCreate, history
  <2>h. ASSUME NEW w \in Workers, stage[w] \in Handling
        PROVE  msg[w] \in Nat /\ msg[w] \in 1..Len(stream) /\ ClientOf(w) \in Clients
    BY <2>0, <2>h DEF TypeOK, QueueTypeOK, HoldingInv, ClientOf
  <2>1. ASSUME NEW p \in Publishers, BeginRun(p) \/ PublishNext(p)
        PROVE  RowsInv' /\ HoldingInv' /\ ExclusiveHandling' /\ AckedIsServed'
    <3>1. UNCHANGED <<lastDelivered, pel, storeVars, workerVars>>
      BY <2>1 DEF BeginRun, PublishNext, Publish, queueVars
    <3>2. RowsInv'
      BY <2>0, <3>1, RowsKept
    <3> QED
      BY <2>0, <3>1, <3>2
      DEF storeVars, workerVars, HoldingInv, ExclusiveHandling, AckedIsServed, Acked
  <2>2. ASSUME NEW w \in Workers, Start(w) \/ Halt(w) \/ PollFails(w)
        PROVE  RowsInv' /\ HoldingInv' /\ ExclusiveHandling' /\ AckedIsServed'
    <3>1. /\ stage' \in {[stage EXCEPT ![w] = s] : s \in {"polling", "down", "dead"}}
          /\ \A v \in Workers \ {w} : msg'[v] = msg[v]
          /\ UNCHANGED <<storeVars, served>>
      BY <2>0, <2>2 DEF Start, Halt, PollFails, TypeOK
    <3>2. \/ UNCHANGED <<lastDelivered, pel>>
          \/ /\ lastDelivered' = lastDelivered + 1
             /\ pel' = pel \cup {lastDelivered + 1}
      BY <2>2 DEF Start, Halt, PollFails, ReadGroup, queueVars
    <3>3. RowsInv'
      BY <2>0, <3>1, <3>2, RowsKept
    <3>4. HoldingInv'
      BY <2>0, <3>1, <3>2 DEF HoldingInv, TypeOK, QueueTypeOK, storeVars
    <3>5. ExclusiveHandling'
      BY <2>0, <3>1 DEF ExclusiveHandling, TypeOK
    <3>6. AckedIsServed'
      BY <2>0, <3>1, <3>2 DEF AckedIsServed, Acked, TypeOK, QueueTypeOK
    <3> QED
      BY <3>3, <3>4, <3>5, <3>6
  <2>3. ASSUME NEW w \in Workers, Take(w)
        PROVE  RowsInv' /\ HoldingInv' /\ ExclusiveHandling' /\ AckedIsServed'
    <3>1. /\ lastDelivered' = lastDelivered + 1
          /\ pel' = pel \cup {lastDelivered + 1}
          /\ stage' = [stage EXCEPT ![w] = "find"]
          /\ msg' = [msg EXCEPT ![w] = lastDelivered + 1]
          /\ UNCHANGED <<storeVars, served>>
      BY <2>3 DEF Take, ReadGroup
    <3>2. RowsInv'
      BY <2>0, <3>1, RowsKept
    <3>3. HoldingInv'
      <4>1. \A d \in DOMAIN drafts : drafts[d].msg # lastDelivered + 1
        BY <2>0 DEF RowsInv, OriginsDelivered, TypeOK, QueueTypeOK
      <4> QED
        BY <2>0, <3>1, <4>1 DEF HoldingInv, TypeOK, QueueTypeOK, storeVars
    <3>4. ExclusiveHandling'
      <4>1. \A v \in Workers : stage[v] \in Handling => msg[v] # lastDelivered + 1
        BY <2>0 DEF HoldingInv, TypeOK, QueueTypeOK
      <4> QED
        BY <2>0, <3>1, <4>1 DEF ExclusiveHandling, TypeOK
    <3>5. AckedIsServed'
      BY <2>0, <3>1 DEF AckedIsServed, Acked, TypeOK, QueueTypeOK
    <3> QED
      BY <3>2, <3>3, <3>4, <3>5
  <2>4. ASSUME NEW w \in Workers, FindPending(w) \/ Assemble(w) \/ Complete(w)
                                  \/ DbFails(w)
        PROVE  RowsInv' /\ HoldingInv' /\ ExclusiveHandling' /\ AckedIsServed'
    <3>1. /\ stage[w] \in BeforeCreate
          /\ stage' \in {[stage EXCEPT ![w] = s] :
                           s \in Handling}
          /\ stage'[w] = "ack" => served' = served \cup {msg[w]}
          /\ stage'[w] # "ack" => UNCHANGED served
          /\ UNCHANGED <<queueVars, storeVars, msg>>
      BY <2>0, <2>4 DEF FindPending, Assemble, Complete, DbFails, TypeOK
    <3>2. RowsInv'
      BY <2>0, <3>1, RowsKept DEF queueVars
    <3>3. HoldingInv'
      BY <2>0, <3>1 DEF HoldingInv, TypeOK, queueVars, storeVars
    <3>4. ExclusiveHandling'
      BY <2>0, <3>1 DEF ExclusiveHandling, TypeOK
    <3>5. AckedIsServed'
      BY <2>0, <3>1 DEF AckedIsServed, Acked, queueVars
    <3> QED
      BY <3>2, <3>3, <3>4, <3>5
  <2>5. ASSUME NEW w \in Workers, CreateDraft(w)
        PROVE  RowsInv' /\ HoldingInv' /\ ExclusiveHandling' /\ AckedIsServed'
    <3>1. CASE UNCHANGED storeVars /\ UNCHANGED served /\ Goto(w, "failing")
               /\ UNCHANGED queueVars /\ stage[w] = "create"
      <4>1. RowsInv'
        BY <2>0, <3>1, RowsKept DEF queueVars
      <4> QED
        BY <2>0, <3>1, <4>1
        DEF HoldingInv, ExclusiveHandling, AckedIsServed, Acked, TypeOK,
            queueVars, storeVars
    <3>2. CASE /\ stage[w] = "create"
               /\ InsertDraft(ClientOf(w), msg[w])
               /\ served' = served \cup {msg[w]}
               /\ Goto(w, "ack") \/ Goto(w, "failing")
               /\ UNCHANGED queueVars
      <4> DEFINE n == Len(drafts) + 1
      <4>1. /\ DOMAIN drafts' = DOMAIN drafts \cup {n}
            /\ n \notin DOMAIN drafts
            /\ \A d \in DOMAIN drafts : drafts'[d] = drafts[d]
            /\ drafts'[n].client = ClientOf(w)
            /\ drafts'[n].msg = msg[w]
            /\ drafts'[n].status = "pending"
            /\ ClientOf(w) \in clients
            /\ \A d \in DOMAIN drafts :
                 drafts[d].client = ClientOf(w) => drafts[d].status # "pending"
            /\ UNCHANGED <<clients, failures>>
        <5>1. StoreTypeOK /\ ClientOf(w) \in Clients /\ msg[w] \in Nat
          BY <2>0, <2>h, <3>2 DEF TypeOK
        <5>2. InsertDraft(ClientOf(w), msg[w])
          BY <3>2
        <5> HIDE DEF n
        <5>3. drafts'[n] =
                [client |-> ClientOf(w), msg |-> msg[w], status |-> "pending"]
          BY <5>1, <5>2, InsertAddsRow DEF n
        <5>4. /\ drafts'[n].client = ClientOf(w)
              /\ drafts'[n].msg = msg[w]
              /\ drafts'[n].status = "pending"
          BY <5>3
        <5> QED
          BY <5>1, <5>2, <5>4, InsertAddsRow DEF n
      <4> HIDE DEF n
      <4>2. /\ msg[w] \in 1..lastDelivered
            /\ \A d \in DOMAIN drafts : drafts[d].msg # msg[w]
        BY <2>0, <3>2 DEF HoldingInv
      <4>3. RowsInv'
        BY <2>0, <3>2, <4>1, <4>2
        DEF RowsInv, OriginsDelivered, OneDraftPerMessage, OnePendingDraft,
            RowsReferToClients, queueVars
      <4>4. HoldingInv'
        <5>1. \A v \in Workers \ {w} : stage[v] \in Handling => msg[v] # msg[w]
          BY <2>0, <3>2 DEF ExclusiveHandling
        <5> QED
          BY <2>0, <3>2, <4>1, <5>1 DEF HoldingInv, TypeOK, queueVars
      <4> QED
        BY <2>0, <3>2, <4>3, <4>4
        DEF ExclusiveHandling, AckedIsServed, Acked, TypeOK, queueVars
    <3> QED
      BY <2>5, <3>1, <3>2 DEF CreateDraft
  <2>6. ASSUME NEW w \in Workers, AckMessage(w) \/ AckFails(w)
        PROVE  RowsInv' /\ HoldingInv' /\ ExclusiveHandling' /\ AckedIsServed'
    <3>1. /\ stage[w] = "ack"
          /\ stage' \in {[stage EXCEPT ![w] = s] : s \in {"polling", "failing"}}
          /\ \A v \in Workers \ {w} : msg'[v] = msg[v]
          /\ stage'[w] = "failing" => msg'[w] = msg[w]
          /\ pel' \in {pel, pel \ {msg[w]}}
          /\ UNCHANGED <<lastDelivered, storeVars, served>>
      BY <2>0, <2>6 DEF AckMessage, AckFails, XAck, TypeOK, queueVars
    <3>2. RowsInv'
      BY <2>0, <3>1, RowsKept
    <3>3. HoldingInv'
      <4>1. \A v \in Workers \ {w} : stage[v] \in Handling => msg[v] # msg[w]
        BY <2>0, <3>1 DEF ExclusiveHandling
      <4> QED
        BY <2>0, <3>1, <4>1 DEF HoldingInv, TypeOK, storeVars
    <3>4. ExclusiveHandling'
      BY <2>0, <3>1 DEF ExclusiveHandling, TypeOK
    <3>5. AckedIsServed'
      BY <2>0, <3>1 DEF AckedIsServed, Acked, HoldingInv
    <3> QED
      BY <3>2, <3>3, <3>4, <3>5
  <2>7. ASSUME NEW w \in Workers, RecordFailure(w)
        PROVE  RowsInv' /\ HoldingInv' /\ ExclusiveHandling' /\ AckedIsServed'
    <3>1. /\ stage' = [stage EXCEPT ![w] = "polling"]
          /\ \A v \in Workers \ {w} : msg'[v] = msg[v]
          /\ UNCHANGED <<queueVars, clients, drafts, served>>
          /\ \A f \in failures' : f \in failures \/ f.client \in clients
      BY <2>0, <2>7
      DEF RecordFailure, InsertFailure, CanInsertFailure, TypeOK, storeVars
    <3>2. RowsInv'
      BY <2>0, <3>1
      DEF RowsInv, OriginsDelivered, OneDraftPerMessage, OnePendingDraft,
          RowsReferToClients, queueVars
    <3> QED
      BY <2>0, <3>1, <3>2
      DEF HoldingInv, ExclusiveHandling, AckedIsServed, Acked, TypeOK, queueVars
  <2>8. CASE PatchStatus
    <3>1. PICK d \in DOMAIN drafts, s \in {"pending", "sent"} : UpdateStatus(d, s)
      BY <2>8 DEF PatchStatus
    <3>2. UNCHANGED <<queueVars, workerVars>>
      BY <2>8 DEF PatchStatus
    <3>3. /\ DOMAIN drafts' = DOMAIN drafts
          /\ \A e \in DOMAIN drafts : /\ drafts'[e].client = drafts[e].client
                                      /\ drafts'[e].msg = drafts[e].msg
          /\ \A e \in DOMAIN drafts \ {d} : drafts'[e].status = drafts[e].status
          /\ drafts[d].status # "deleted"
          /\ drafts'[d].status = s
          /\ s = "pending" =>
               \A e \in DOMAIN drafts :
                 drafts[e].client = drafts[d].client
                   => drafts[e].status # "pending"
          /\ UNCHANGED <<clients, failures>>
      BY <2>0, <3>1, UpdateChangesRow DEF TypeOK
    <3>4. RowsInv'
      BY <2>0, <3>2, <3>3
      DEF RowsInv, OriginsDelivered, OneDraftPerMessage, OnePendingDraft,
          RowsReferToClients, queueVars
    <3> QED
      BY <2>0, <3>2, <3>3, <3>4
      DEF HoldingInv, ExclusiveHandling, AckedIsServed, Acked, queueVars, workerVars
  <2>9. CASE RemoveClient
    <3>1. PICK c \in clients : DeleteClient(c)
      BY <2>9 DEF RemoveClient
    <3>2. UNCHANGED <<queueVars, workerVars>>
      BY <2>9 DEF RemoveClient
    <3>3. /\ DOMAIN drafts' = DOMAIN drafts
          /\ \A e \in DOMAIN drafts :
               /\ drafts'[e].client = drafts[e].client
               /\ drafts'[e].msg = drafts[e].msg
               /\ drafts'[e].status = IF drafts[e].client = c
                                      THEN "deleted" ELSE drafts[e].status
          /\ clients' = clients \ {c}
          /\ failures' = {f \in failures : f.client # c}
      BY <2>0, <3>1, DeleteCascades DEF TypeOK, StoreTypeOK
    <3>4. RowsInv'
      BY <2>0, <3>2, <3>3
      DEF RowsInv, OriginsDelivered, OneDraftPerMessage, OnePendingDraft,
          RowsReferToClients, queueVars
    <3> QED
      BY <2>0, <3>2, <3>3, <3>4
      DEF HoldingInv, ExclusiveHandling, AckedIsServed, Acked, queueVars, workerVars
  <2>10. CASE UNCHANGED vars
    <3>1. RowsInv'
      BY <2>0, <2>10, RowsKept DEF vars, queueVars
    <3> QED
      BY <2>0, <2>10, <3>1
      DEF vars, queueVars, storeVars, workerVars, HoldingInv,
          ExclusiveHandling, AckedIsServed, Acked
  <2> QED
    BY <2>1, <2>2, <2>3, <2>4, <2>5, <2>6, <2>7, <2>8, <2>9, <2>10
    DEF Next, Handle
<1> QED
  BY <1>1, <1>2, TypeCorrect, PTL DEF Spec
---------------------------------------------------------------------------
(***************************************************************************)
(* The safety properties, each for every value of the constants.           *)
(***************************************************************************)

\* XREADGROUP hands an entry to one worker only, and nothing ever hands it
\* out again: no two workers are in the middle of the same message.
THEOREM Exclusive == Spec => []ExclusiveHandling
BY Invariant, PTL DEF IInv

\* worker.py acknowledges only after _handle returned, which it does only when
\* a pending draft was found or created.
THEOREM AckedServed == Spec => []AckedIsServed
BY Invariant, PTL DEF IInv

\* The agent run for one message inserts at most one row.
THEOREM AtMostOneDraft == Spec => []OneDraftPerMessage
BY Invariant, PTL DEF IInv

\* The service's check and the unique index leave at most one pending draft
\* per client.
THEOREM SinglePending == Spec => []OnePendingDraft
BY Invariant, PTL DEF IInv

\* The foreign keys and their cascades leave no row of a removed client.
THEOREM RowsRefer == Spec => []RowsReferToClients
BY Invariant, PTL DEF IInv

---------------------------------------------------------------------------
(***************************************************************************)
(* The pipeline implements ReviewInbox.  A step of the pipeline maps to a  *)
(* stutter unless it changes a client's pending draft or the clients.      *)
(***************************************************************************)

\* Every step of the pipeline is one operation on the tables, or none.
LEMMA StepMaps ==
  ASSUME IInv, IInv', [Next]_vars
  PROVE  [Inbox!InboxNext]_(Inbox!inboxVars)
<1>0. StoreInv /\ StoreInv'
  BY DEF IInv, TypeOK, StoreInv
<1>1. CASE UNCHANGED <<clients, drafts>>
  BY <1>0, <1>1, StoreMaps DEF RowsStep
<1>2. ASSUME NEW w \in Workers, CreateDraft(w), ~UNCHANGED <<clients, drafts>>
      PROVE  RowsStep
  <2>1. stage[w] = "create" /\ InsertDraft(ClientOf(w), msg[w])
    BY <1>2 DEF CreateDraft, storeVars
  <2>2. msg[w] \in 1..lastDelivered
    BY <2>1 DEF IInv, HoldingInv, Handling
  <2>3. ClientOf(w) \in Clients /\ msg[w] \in Nat
    BY <2>2 DEF IInv, TypeOK, QueueTypeOK, ClientOf
  <2> QED
    BY <2>1, <2>3 DEF RowsStep
<1>3. ASSUME PatchStatus PROVE RowsStep
  BY <1>3, Zenon DEF PatchStatus, RowsStep
<1>4. ASSUME RemoveClient PROVE RowsStep
  <2>1. PICK c \in clients : DeleteClient(c)
    BY <1>4 DEF RemoveClient
  <2>2. c \in Clients
    BY <1>0 DEF StoreInv, StoreTypeOK
  <2> QED
    BY <2>1, <2>2, Zenon DEF RowsStep
<1>5. CASE ~UNCHANGED <<clients, drafts>>
  <2>1. PatchStatus \/ RemoveClient \/ \E w \in Workers : CreateDraft(w)
    BY <1>5
    DEF Next, vars, storeVars, BeginRun, PublishNext, Start, Halt, Take, PollFails,
        Handle, FindPending, Assemble, Complete, AckMessage, RecordFailure,
        InsertFailure, DbFails, AckFails
  <2>2. RowsStep
    BY <1>2, <1>3, <1>4, <1>5, <2>1
  <2> QED
    BY <1>0, <2>2, StoreMaps
<1> QED
  BY <1>1, <1>5

\* Drafts reach the advisor's inbox one at a time: whatever the workers, the
\* scheduler and the faults do, a slot is filled only when empty and emptied
\* only by the advisor or with its client.
THEOREM Refinement == Spec => ImplementsReviewInbox
<1>1. Init => Inbox!InboxInit
  BY StoreInitMaps DEF Init
<1>2. IInv /\ IInv' /\ [Next]_vars => [Inbox!InboxNext]_(Inbox!inboxVars)
  BY StepMaps
<1> QED
  BY <1>1, <1>2, Invariant, PTL DEF Spec, ImplementsReviewInbox, Inbox!InboxSpec
---------------------------------------------------------------------------
(***************************************************************************)
(* The stream implements MessageQueue.                                     *)
(***************************************************************************)
Fate == [n \in 1..Len(stream) |-> StateOf(n)]

\* XADD, XREADGROUP and XACK as the protocol sees them.
LEMMA QueueMaps ==
  ASSUME QueueTypeOK,
         \/ \E c \in Clients : Publish(c)
         \/ ReadGroup
         \/ \E m \in 1..lastDelivered : XAck(m)
         \/ UNCHANGED queueVars
  PROVE  [Queue!MessagesNext]_Fate
<1> USE DEF Fate
<1>0. /\ Len(stream) \in Nat /\ lastDelivered \in 0..Len(stream)
      /\ Fate \in Seq({"waiting", "out", "acked"}) /\ Len(Fate) = Len(stream)
  BY DEF QueueTypeOK, StateOf
<1>1. ASSUME NEW c \in Clients, Publish(c)
      PROVE  Queue!Enqueue
  <2>1. /\ Len(stream') = Len(stream) + 1 /\ UNCHANGED <<lastDelivered, pel>>
    BY <1>1 DEF Publish, QueueTypeOK
  <2> DEFINE added == Append(Fate, "waiting")
  <2>2. /\ added \in Seq({"waiting", "out", "acked"}) /\ Len(added) = Len(stream) + 1
        /\ \A n \in 1..Len(stream) : added[n] = Fate[n]
        /\ added[Len(stream) + 1] = "waiting"
    <3> HIDE DEF Fate
    <3> QED
      BY <1>0
  <2>3. added = [n \in 1..(Len(stream) + 1) |-> added[n]]
    <3> HIDE DEF added
    <3> QED
      BY <1>0, <2>2
  <2>4. \A n \in 1..(Len(stream) + 1) : added[n] = StateOf(n)'
    <3> HIDE DEF added
    <3> QED
      BY <1>0, <2>1, <2>2 DEF StateOf
  <2>5. Fate' = added
    <3> HIDE DEF added
    <3> QED
      BY <2>1, <2>3, <2>4
  <2> QED
    BY <2>5 DEF Queue!Enqueue
<1>2. CASE ReadGroup
  <2> DEFINE n == lastDelivered + 1
  <2>1. /\ n \in 1..Len(stream) /\ UNCHANGED stream
        /\ lastDelivered' = n /\ pel' = pel \cup {n}
        /\ pel \subseteq 1..lastDelivered
    BY <1>2 DEF ReadGroup, QueueTypeOK
  <2>2. Fate[n] = "waiting" /\ \A k \in 1..(n - 1) : Fate[k] # "waiting"
    BY <1>0, <2>1 DEF StateOf
  <2>3. \A k \in 1..Len(stream) : StateOf(k)' = IF k = n THEN "out" ELSE StateOf(k)
    BY <1>0, <2>1 DEF StateOf
  <2>4. Fate' = [Fate EXCEPT ![n] = "out"]
    BY <2>1, <2>3
  <2>5. Queue!Yield
    BY <2>1, <2>2, <2>4 DEF Queue!Yield
  <2> QED
    BY <2>5 DEF Queue!MessagesNext
<1>3. ASSUME NEW m \in 1..lastDelivered, XAck(m)
      PROVE  [Queue!MessagesNext]_Fate
  <2>1. /\ m \in 1..Len(stream) /\ UNCHANGED <<stream, lastDelivered>>
        /\ pel' = pel \ {m}
    BY <1>0, <1>3 DEF XAck
  <2>2. \A k \in 1..Len(stream) : StateOf(k)' = IF k = m THEN "acked" ELSE StateOf(k)
    BY <1>0, <2>1 DEF StateOf
  <2>3. Fate' = [Fate EXCEPT ![m] = "acked"]
    BY <2>1, <2>2
  <2>4. CASE m \in pel
    <3>1. Fate[m] = "out"
      BY <1>0, <2>1, <2>4 DEF StateOf
    <3>2. Queue!Acknowledge
      BY <2>1, <2>3, <3>1 DEF Queue!Acknowledge
    <3> QED
      BY <3>2 DEF Queue!MessagesNext
  <2>5. CASE m \notin pel
    <3>1. UNCHANGED <<stream, lastDelivered, pel>>
      BY <2>1, <2>5
    <3> QED
      BY <3>1 DEF StateOf
  <2> QED
    BY <2>4, <2>5
<1>4. CASE UNCHANGED queueVars
  BY <1>4 DEF queueVars, StateOf
<1> QED
  BY <1>1, <1>2, <1>3, <1>4 DEF Queue!MessagesNext

\* For the workers the Redis stream is a MessageQueue: first in, first out,
\* nothing twice, nothing acknowledged that was not handed out.
THEOREM StreamIsQueue == Spec => ImplementsMessageQueue
<1>1. Init => Queue!MessagesInit
  <2> SUFFICES ASSUME Init PROVE Fate = <<>>
    BY DEF Queue!MessagesInit, Fate
  <2> QED
    BY DEF Init, QueueInit, Fate
<1>2. TypeOK /\ PositionsOK /\ [Next]_vars => [Queue!MessagesNext]_Fate
  <2> SUFFICES ASSUME TypeOK, PositionsOK, [Next]_vars
               PROVE  \/ \E c \in Clients : Publish(c)
                      \/ ReadGroup
                      \/ \E m \in 1..lastDelivered : XAck(m)
                      \/ UNCHANGED queueVars
    BY QueueMaps DEF TypeOK
  <2>1. ASSUME NEW w \in Workers, AckMessage(w) \/ AckFails(w)
        PROVE  UNCHANGED queueVars \/ \E m \in 1..lastDelivered : XAck(m)
    <3>1. msg[w] \in 1..lastDelivered
      BY <2>1 DEF AckMessage, AckFails, PositionsOK, Handling
    <3> QED
      BY <2>1, <3>1 DEF AckMessage, AckFails
  <2>2. ASSUME NEW p \in Publishers, PublishNext(p)
        PROVE  UNCHANGED queueVars \/ \E c \in Clients : Publish(c)
    BY <2>2 DEF PublishNext, TypeOK
  <2> QED
    BY <2>1, <2>2
    DEF Next, vars, BeginRun, Start, Halt, Take, PollFails, Handle, FindPending,
        Assemble, Complete, CreateDraft, RecordFailure, DbFails, PatchStatus,
        RemoveClient
<1> QED
  BY <1>1, <1>2, TypeCorrect, PTL
  DEF Spec, ImplementsMessageQueue, Queue!MessagesSpec, Fate
---------------------------------------------------------------------------
\* No delivered message is lost sight of: it is acknowledged, or a worker has
\* it, or _on_failure has left its dead letter, or its client is gone, or it is
\* one of those that a halt, a lost read or a failed dead-letter insert dropped.
THEOREM FailureTraced == Spec => []FailureLeavesTrace
<1> DEFINE Traced(m) == \/ Held(m) \/ Recorded(m)
                        \/ stream[m] \notin clients \/ m \in dropped
<1>1. Init => FailureLeavesTrace
  BY DEF Init, QueueInit, FailureLeavesTrace
<1>2. IInv /\ FailureLeavesTrace /\ [Next]_vars => FailureLeavesTrace'
  <2> SUFFICES ASSUME IInv, FailureLeavesTrace, [Next]_vars,
                      NEW m \in pel'
               PROVE  Traced(m)'
    BY DEF FailureLeavesTrace
  <2> USE DEF Goto, Finish, history
  <2>0. /\ m \in pel => Traced(m)
        /\ stage \in [Workers -> Stages] /\ msg \in [Workers -> Nat]
    BY DEF FailureLeavesTrace, IInv, TypeOK
  <2>1. ASSUME NEW p \in Publishers, BeginRun(p)
        PROVE  Traced(m)'
    BY <2>0, <2>1
    DEF BeginRun, queueVars, storeVars, workerVars, Held, Handles, Recorded
  <2>2. ASSUME NEW p \in Publishers, PublishNext(p)
        PROVE  Traced(m)'
    <3>1. UNCHANGED <<pel, storeVars, workerVars>>
      BY <2>2 DEF PublishNext, Publish, queueVars
    <3>2. m \in 1..Len(stream)
      BY <3>1 DEF IInv, TypeOK, QueueTypeOK
    <3>3. stream'[m] = stream[m]
      BY <2>2, <3>2 DEF PublishNext, Publish, queueVars, IInv, TypeOK, QueueTypeOK
    <3> QED
      BY <2>0, <3>1, <3>3 DEF storeVars, workerVars, Held, Handles, Recorded
  <2>3. ASSUME NEW w \in Workers, Start(w)
        PROVE  Traced(m)'
    BY <2>0, <2>3
    DEF Start, queueVars, storeVars, Held, Handles, Recorded, Handling
  <2>4. ASSUME NEW w \in Workers, Take(w)
        PROVE  Traced(m)'
    <3>1. CASE m = lastDelivered + 1
      BY <2>0, <2>4, <3>1 DEF Take, ReadGroup, Held, Handles, Handling
    <3>2. CASE m \in pel
      BY <2>0, <2>4, <3>2
      DEF Take, ReadGroup, storeVars, Held, Handles, Recorded, Handling
    <3> QED
      BY <2>4, <3>1, <3>2 DEF Take, ReadGroup
  <2>5. ASSUME NEW w \in Workers,
               \/ FindPending(w) \/ Assemble(w) \/ Complete(w)
               \/ CreateDraft(w) \/ DbFails(w)
        PROVE  Traced(m)'
    <3>1. /\ stage[w] \in Handling
          /\ stage' \in {[stage EXCEPT ![w] = s] : s \in Handling}
          /\ UNCHANGED <<queueVars, msg, clients, failures, dropped>>
      BY <2>5
      DEF FindPending, Assemble, Complete, CreateDraft, DbFails, InsertDraft,
          storeVars, Handling
    <3> QED
      BY <2>0, <3>1 DEF queueVars, Held, Handles, Recorded
  <2>6. ASSUME NEW w \in Workers, AckMessage(w) \/ AckFails(w)
        PROVE  Traced(m)'
    <3>1. m \in pel /\ UNCHANGED <<stream, storeVars, dropped>>
      BY <2>6 DEF AckMessage, AckFails, XAck, queueVars
    <3>2. CASE AckMessage(w)
      <4>1. m # msg[w]
        BY <3>2 DEF AckMessage, XAck
      <4> QED
        BY <2>0, <3>1, <3>2, <4>1
        DEF AckMessage, storeVars, Held, Handles, Recorded
    <3>3. CASE AckFails(w)
      BY <2>0, <3>1, <3>3
      DEF AckFails, storeVars, Held, Handles, Recorded, Handling
    <3> QED
      BY <2>6, <3>2, <3>3
  <2>7. ASSUME NEW w \in Workers, RecordFailure(w)
        PROVE  Traced(m)'
    <3>1. m \in pel /\ UNCHANGED <<queueVars, clients>> /\ failures \subseteq failures'
      BY <2>7 DEF RecordFailure, InsertFailure, queueVars, storeVars
    <3>2. CASE msg[w] = m
      BY <2>7, <3>1, <3>2
      DEF RecordFailure, InsertFailure, CanInsertFailure, ClientOf, Recorded,
          queueVars
    <3>3. CASE msg[w] # m
      <4>1. dropped \subseteq dropped'
        BY <2>7 DEF RecordFailure
      <4>2. Held(m) => Held(m)'
        BY <2>0, <2>7, <3>3 DEF RecordFailure, Held, Handles
      <4> QED
        BY <2>0, <3>1, <4>1, <4>2 DEF queueVars, Recorded
    <3> QED
      BY <3>2, <3>3
  <2>8. CASE PatchStatus
    BY <2>0, <2>8
    DEF PatchStatus, UpdateStatus, queueVars, workerVars, Held, Handles, Recorded
  <2>9. CASE RemoveClient
    <3>1. PICK c \in clients : DeleteClient(c)
      BY <2>9 DEF RemoveClient
    <3>2. UNCHANGED <<queueVars, workerVars>>
      BY <2>9 DEF RemoveClient
    <3>3. Recorded(m) => Recorded(m)' \/ stream[m] = c
      BY <3>1, <3>2 DEF DeleteClient, Recorded, queueVars
    <3> QED
      BY <2>0, <3>1, <3>2, <3>3
      DEF DeleteClient, queueVars, workerVars, Held, Handles
  <2>10. CASE UNCHANGED vars
    BY <2>0, <2>10
    DEF vars, queueVars, storeVars, workerVars, Held, Handles, Recorded
  <2>11. ASSUME NEW w \in Workers, Halt(w)
         PROVE  Traced(m)'
    <3>1. m \in pel /\ UNCHANGED <<queueVars, storeVars>>
      BY <2>11 DEF Halt, queueVars
    <3>2. CASE Handles(w, m)
      BY <2>11, <3>2 DEF Halt, Handles
    <3>3. CASE ~Handles(w, m)
      <4>1. Held(m) => Held(m)'
        BY <2>0, <2>11, <3>3 DEF Halt, Held, Handles
      <4>2. dropped \subseteq dropped'
        BY <2>11 DEF Halt
      <4> QED
        BY <2>0, <3>1, <4>1, <4>2 DEF queueVars, storeVars, Recorded
    <3> QED
      BY <3>2, <3>3
  <2>12. ASSUME NEW w \in Workers, PollFails(w)
         PROVE  Traced(m)'
    <3>1. CASE ReadGroup /\ m = lastDelivered + 1
      BY <2>12, <3>1 DEF PollFails, ReadGroup, queueVars
    <3>2. CASE m \in pel
      <4>1. UNCHANGED <<stream, storeVars>> /\ dropped \subseteq dropped'
        BY <2>12 DEF PollFails, ReadGroup, queueVars
      <4>2. Held(m) => Held(m)'
        BY <2>0, <2>12 DEF PollFails, Held, Handles, Handling
      <4> QED
        BY <2>0, <3>2, <4>1, <4>2 DEF storeVars, Recorded
    <3> QED
      BY <2>12, <3>1, <3>2 DEF PollFails, ReadGroup, queueVars
  <2> QED
    BY <2>1, <2>2, <2>3, <2>4, <2>5, <2>6, <2>7, <2>8, <2>9, <2>10, <2>11, <2>12
    DEF Next, Handle
<1> QED
  BY <1>1, <1>2, Invariant, PTL DEF Spec

---------------------------------------------------------------------------
(***************************************************************************)
(* Liveness.  The provers cannot look into ENABLED: that a worker which    *)
(* has something to do can do it is a hypothesis here, a state predicate   *)
(* that TLC evaluates.                                                     *)
(***************************************************************************)

\* When a worker has something to do, under FairSpec.
Ready(w) ==
  \/ stage[w] \in {"down"} \cup Handling
  \/ stage[w] = "polling" /\ lastDelivered < Len(stream)

CanGoOn == \A w \in Workers : Ready(w) => ENABLED <<Work(w)>>_vars

\* The stages a run can still come to.
Later(s) ==
  CASE s = "find"     -> {"assemble", "complete", "create", "ack", "failing"}
    [] s = "assemble" -> {"complete", "create", "ack", "failing"}
    [] s = "complete" -> {"create", "ack", "failing"}
    [] s = "create"   -> {"ack", "failing"}
    [] s = "ack"      -> {"failing"}
    [] OTHER          -> {}

\* A step of one worker, or of none, leaves the hands of the others alone.
LEMMA OthersKeepHand ==
  ASSUME TypeOK, NEW w \in Workers, [Next]_vars
  PROVE  \/ stage'[w] = stage[w] /\ msg'[w] = msg[w]
         \/ Start(w) \/ Halt(w) \/ Take(w) \/ PollFails(w)
         \/ Handle(w) \/ DbFails(w) \/ AckFails(w)
<1> USE DEF Goto, Finish, history, workerVars
<1>1. ASSUME NEW v \in Workers \ {w},
             \/ Start(v) \/ Halt(v) \/ Take(v) \/ PollFails(v)
             \/ Handle(v) \/ DbFails(v) \/ AckFails(v)
      PROVE  stage'[w] = stage[w] /\ msg'[w] = msg[w]
  <2>1. PICK s \in Stages : /\ stage' = [stage EXCEPT ![v] = s]
                          /\ \E k : msg' \in {msg, [msg EXCEPT ![v] = k]}
    BY <1>1, Zenon
    DEF Start, Halt, Take, PollFails, Handle, FindPending, Assemble, Complete,
        CreateDraft, AckMessage, RecordFailure, DbFails, AckFails, Stages, Handling
  <2> QED
    BY <2>1 DEF TypeOK
<1>2. ASSUME NEW p \in Publishers, BeginRun(p) \/ PublishNext(p)
      PROVE  stage'[w] = stage[w] /\ msg'[w] = msg[w]
  BY <1>2 DEF BeginRun, PublishNext
<1>3. PatchStatus \/ RemoveClient \/ UNCHANGED vars
        => stage'[w] = stage[w] /\ msg'[w] = msg[w]
  BY DEF PatchStatus, RemoveClient, vars
<1> QED
  BY <1>1, <1>2, <1>3 DEF Next

\* A step that a worker takes with an entry in hand brings it to a later stage or
\* concludes it, and so does anything that befalls the worker.
LEMMA HandMovesOn ==
  ASSUME TypeOK, PositionsOK, NEW w \in Workers, NEW m, Handles(w, m),
         \/ Start(w) \/ Halt(w) \/ Take(w) \/ PollFails(w)
         \/ Handle(w) \/ DbFails(w) \/ AckFails(w)
  PROVE  \/ Handles(w, m)' /\ stage'[w] \in Later(stage[w])
         \/ Concluded(m)'
<1> USE DEF Goto, Finish, history
<1>0. /\ stage[w] \in Handling /\ msg[w] = m /\ m \in 1..lastDelivered
      /\ stage \in [Workers -> Stages] /\ msg \in [Workers -> Nat]
  BY DEF Handles, PositionsOK, TypeOK
<1>1. ASSUME NEW s \in Later(stage[w]), Goto(w, s)
      PROVE  Handles(w, m)' /\ stage'[w] \in Later(stage[w])
  <2>1. s \in Handling
    BY <1>0, <1>1 DEF Later, Handling
  <2> QED
    BY <1>0, <1>1, <2>1 DEF Handles
<1>2. CASE FindPending(w) \/ Assemble(w) \/ Complete(w)
  BY <1>1, <1>2 DEF FindPending, Assemble, Complete, Later
<1>3. CASE CreateDraft(w) \/ DbFails(w) \/ AckFails(w)
  BY <1>1, <1>3 DEF CreateDraft, DbFails, AckFails, Later
<1>4. CASE AckMessage(w)
  <2>1. lastDelivered' = lastDelivered /\ m \notin pel'
    BY <1>0, <1>4 DEF AckMessage, XAck
  <2> QED
    BY <1>0, <2>1 DEF Concluded, Acked
<1>5. CASE RecordFailure(w)
  <2>1. UNCHANGED <<stream, clients>>
    BY <1>5 DEF RecordFailure, InsertFailure, queueVars, storeVars
  <2>2. CASE InsertFailure(ClientOf(w), m)
    BY <1>0, <2>1, <2>2 DEF InsertFailure, ClientOf, Concluded, Recorded
  <2>3. CASE ~CanInsertFailure(ClientOf(w))
    BY <1>0, <2>1, <2>3 DEF CanInsertFailure, ClientOf, Concluded
  <2>4. CASE dropped' = dropped \cup {m}
    BY <2>4 DEF Concluded
  <2> QED
    BY <1>0, <1>5, <2>2, <2>3, <2>4 DEF RecordFailure
<1>6. CASE Halt(w)
  BY <1>0, <1>6 DEF Halt, Concluded
<1>7. ~Start(w) /\ ~Take(w) /\ ~PollFails(w)
  BY <1>0 DEF Start, Take, PollFails, Handling
<1> QED
  BY <1>2, <1>3, <1>4, <1>5, <1>6, <1>7 DEF Handle

\* The fairness of one worker out of that of all.
LEMMA FairWorker == ASSUME NEW w \in Workers PROVE Fairness => KeepsWorking(w)
  BY DEF Fairness

\* Once a worker has an entry it comes to its end: each stage of the handling
\* is left, and none is come back to (worker.py:165-181, service.py:114-230).
LEMMA HandConcludes ==
  ASSUME NEW w \in Workers, NEW m \in Nat
  PROVE  FairSpec /\ []CanGoOn => (Handles(w, m) ~> Concluded(m))
<1> DEFINE At(S) == Handles(w, m) /\ stage[w] \in S
           Good == Concluded(m)
           Types == TypeOK /\ PositionsOK
\* A later stage, when all that is still to come after one of S is in T.
<1>1. ASSUME NEW S, NEW T, \A s \in S : Later(s) \subseteq T, T \subseteq S,
             Types, [Next]_vars, At(S)
      PROVE  (At(S) \/ Good)' /\ (Work(w) => (At(T) \/ Good)')
  <2>1. CASE stage'[w] = stage[w] /\ msg'[w] = msg[w]
    <3>1. At(S)'
      BY <1>1, <2>1 DEF Handles
    <3>2. Work(w) => (At(T) \/ Good)'
      BY <1>1, HandMovesOn DEF Work
    <3> QED
      BY <3>1, <3>2
  <2>2. CASE \/ Start(w) \/ Halt(w) \/ Take(w) \/ PollFails(w)
             \/ Handle(w) \/ DbFails(w) \/ AckFails(w)
    BY <1>1, <2>2, HandMovesOn
  <2> QED
    BY <1>1, <2>1, <2>2, OthersKeepHand
<1>2. CanGoOn /\ Handles(w, m) => ENABLED <<Work(w)>>_vars
  BY DEF CanGoOn, Ready, Handles
<1> DEFINE S1 == Handling
           S2 == {"assemble", "complete", "create", "ack", "failing"}
           S3 == {"complete", "create", "ack", "failing"}
           S4 == {"create", "ack", "failing"}
           S5 == {"ack", "failing"}
           S6 == {"failing"}
           Comes(S, T) == (\A s \in S : Later(s) \subseteq T) /\ T \subseteq S
           Step(S, T) == Types /\ [Next]_vars /\ At(S) =>
                           (At(S) \/ Good)' /\ (Work(w) => (At(T) \/ Good)')
<1>3. /\ Comes(S1, S2) /\ Comes(S2, S3) /\ Comes(S3, S4)
      /\ Comes(S4, S5) /\ Comes(S5, S6) /\ Comes(S6, {})
  BY DEF Later, Handling
<1>4. ASSUME NEW S, NEW T, Comes(S, T)
      PROVE  Step(S, T)
  BY <1>1, <1>4
<1>5. /\ Step(S1, S2) /\ Step(S2, S3) /\ Step(S3, S4)
      /\ Step(S4, S5) /\ Step(S5, S6) /\ Step(S6, {})
  <2> HIDE DEF Comes, Step, S1, S2, S3, S4, S5, S6
  <2> QED
    BY <1>3, <1>4
<1>6. /\ At({}) => FALSE
      /\ Handles(w, m) => At(S1)
  BY DEF Handles
<1>7. \A S : At(S) => Handles(w, m)
  OBVIOUS
<1>8. /\ At(S2) \/ At(S3) \/ At(S4) \/ At(S5) \/ At(S6) => Handles(w, m)
      /\ At(S1) => Handles(w, m)
  BY <1>7
<1> HIDE DEF At, Good, S1, S2, S3, S4, S5, S6
<1>9. Spec /\ KeepsWorking(w) /\ []CanGoOn => (Handles(w, m) ~> Good)
  BY <1>2, <1>5, <1>6, <1>8, TypeCorrect, PTL DEF Spec, KeepsWorking, Types, Step
<1> QED
  BY <1>9, FairWorker, PTL DEF FairSpec, Good

\* Every entry that was delivered is concluded, whatever befalls the worker that
\* has it and whatever the others do: one half of EveryMessageConcludes, for any
\* numbers of clients, workers and messages and also for unsteady workers.
THEOREM DeliveredConcludes ==
  ASSUME NEW m \in Nat
  PROVE  FairSpec /\ []CanGoOn => (m \in 1..lastDelivered ~> Concluded(m))
<1> DEFINE InHand(w) == Handles(w, m)
           Good == Concluded(m)
<1>1. TypeOK /\ FailureLeavesTrace /\ m \in 1..lastDelivered =>
        Good \/ \E w \in Workers : InHand(w)
  BY DEF TypeOK, QueueTypeOK, FailureLeavesTrace, Concluded, Acked, Held
<1>2. ASSUME NEW w \in Workers
      PROVE  FairSpec /\ []CanGoOn => [](InHand(w) => <>Good)
  BY HandConcludes, PTL
<1> HIDE DEF InHand, Good
<1>3. FairSpec /\ []CanGoOn => \A w \in Workers : [](InHand(w) => <>Good)
  BY <1>2
<1>4. (\A w \in Workers : [](InHand(w) => <>Good))
        => [](\A w \in Workers : (InHand(w) => <>Good))
  OBVIOUS
<1>5. (\A w \in Workers : (InHand(w) => <>Good))
        => ((\E w \in Workers : InHand(w)) => <>Good)
  OBVIOUS
<1> QED
  BY <1>1, <1>3, <1>4, <1>5, TypeCorrect, FailureTraced, PTL DEF FairSpec, Good

\* A loop is ended only by an error of XREADGROUP: no failure of the database,
\* the LLM, an ack or the failure handler ends it (worker.py:165-190).
OnlyReadsEndLoop ==
  \A w \in Workers : stage[w] = "dead" => "redis" \in Faults /\ w \in Unsteady

\* So LoopRunsWhileRunning, which a run refutes, holds while Redis answers.
THEOREM LoopsEndByReads == Spec => []OnlyReadsEndLoop
<1>1. Init => OnlyReadsEndLoop
  BY DEF Init, OnlyReadsEndLoop
<1>2. TypeOK /\ OnlyReadsEndLoop /\ [Next]_vars => OnlyReadsEndLoop'
  <2> SUFFICES ASSUME TypeOK, OnlyReadsEndLoop, [Next]_vars, NEW w \in Workers,
                      stage'[w] = "dead"
               PROVE  "redis" \in Faults /\ w \in Unsteady
    BY DEF OnlyReadsEndLoop
  <2>1. CASE stage'[w] = stage[w]
    BY <2>1 DEF OnlyReadsEndLoop
  <2>2. CASE PollFails(w)
    BY <2>2 DEF PollFails
  <2>3. ASSUME Start(w) \/ Halt(w) \/ Take(w) \/ Handle(w) \/ DbFails(w) \/ AckFails(w)
        PROVE  FALSE
    BY <2>3
    DEF TypeOK, Start, Halt, Take, Handle, FindPending, Assemble, Complete,
        CreateDraft, AckMessage, RecordFailure, DbFails, AckFails, Goto, Finish
  <2> QED
    BY <2>1, <2>2, <2>3, OthersKeepHand
<1> QED
  BY <1>1, <1>2, TypeCorrect, PTL DEF Spec

\* The stream and the last delivered entry only grow, the latter one at a time.
LEMMA QueueGrows ==
  ASSUME TypeOK, [Next]_vars
  PROVE  /\ Entries \subseteq Entries'
         /\ lastDelivered' \in {lastDelivered, lastDelivered + 1}
<1> USE DEF Entries, Goto, Finish
<1>0. stream \in Seq(Clients) /\ lastDelivered \in Nat
  BY DEF TypeOK, QueueTypeOK
<1>1. ASSUME NEW c \in Clients, Publish(c)
      PROVE  Entries \subseteq Entries' /\ lastDelivered' = lastDelivered
  BY <1>0, <1>1 DEF Publish
<1>2. CASE UNCHANGED queueVars
  BY <1>2 DEF queueVars
<1>3. ASSUME NEW p \in Publishers, BeginRun(p) \/ PublishNext(p)
      PROVE  UNCHANGED queueVars \/ \E c \in Clients : Publish(c)
  BY <1>3 DEF BeginRun, PublishNext, TypeOK
<1>4. ASSUME NEW w \in Workers,
             \/ Start(w) \/ Halt(w) \/ Take(w) \/ PollFails(w)
             \/ Handle(w) \/ DbFails(w) \/ AckFails(w)
      PROVE  \/ UNCHANGED queueVars
             \/ UNCHANGED stream /\ lastDelivered' \in {lastDelivered, lastDelivered + 1}
  BY <1>4
  DEF Start, Halt, Take, PollFails, ReadGroup, Handle, FindPending, Assemble,
      Complete, CreateDraft, AckMessage, XAck, RecordFailure, DbFails, AckFails
<1>5. PatchStatus \/ RemoveClient \/ UNCHANGED vars => UNCHANGED queueVars
  BY DEF PatchStatus, RemoveClient, vars
<1> QED
  BY <1>0, <1>1, <1>2, <1>3, <1>4, <1>5 DEF Next

\* What may come after a stage of the loop, up to the next read.
Follow(s) == Later(s) \cup {"polling"}

\* A worker whose process and reads hold goes on through its handling to its
\* next read, and what it does at a read is to take an entry.
LEMMA LoopGoesOn ==
  ASSUME TypeOK, OnlyReadsEndLoop, NEW w \in Workers \ Unsteady,
         \/ Start(w) \/ Halt(w) \/ Take(w) \/ PollFails(w)
         \/ Handle(w) \/ DbFails(w) \/ AckFails(w)
  PROVE  \/ stage[w] \in {"down"} \cup Handling /\ stage'[w] \in Follow(stage[w])
         \/ stage[w] = "polling" /\ lastDelivered' = lastDelivered + 1
<1> USE DEF Goto, Finish
<1>0. stage \in [Workers -> Stages]
  BY DEF TypeOK
<1>1. CASE Take(w)
  BY <1>1 DEF Take, ReadGroup
<1>2. CASE Start(w)
  BY <1>0, <1>2 DEF Start, Follow
<1>3. CASE FindPending(w) \/ Assemble(w) \/ Complete(w)
  BY <1>0, <1>3 DEF FindPending, Assemble, Complete, Later, Follow, Handling
<1>4. CASE CreateDraft(w) \/ DbFails(w) \/ AckFails(w)
  BY <1>0, <1>4 DEF CreateDraft, DbFails, AckFails, Later, Follow, Handling
<1>5. CASE AckMessage(w) \/ RecordFailure(w)
  BY <1>0, <1>5 DEF AckMessage, RecordFailure, Follow, Handling
<1>6. ~Halt(w) /\ ~PollFails(w)
  BY DEF Halt, PollFails
<1> QED
  BY <1>1, <1>2, <1>3, <1>4, <1>5, <1>6 DEF Handle

\* No entry is next in line for ever while one worker's process and reads hold:
\* that worker comes back to XREADGROUP from wherever it is.
LEMMA NextIsTaken ==
  ASSUME NEW w \in Workers \ Unsteady, NEW m \in Nat
  PROVE  FairSpec /\ []CanGoOn =>
           (lastDelivered = m /\ m + 1 \in Entries ~> m + 1 <= lastDelivered)
<1> DEFINE Waits == lastDelivered = m /\ m + 1 \in Entries
           Taken == m + 1 <= lastDelivered
           At(S) == Waits /\ stage[w] \in S
           Inv == TypeOK /\ OnlyReadsEndLoop
           S1 == {"down", "polling"} \cup Handling
           S2 == {"assemble", "complete", "create", "ack", "failing", "polling"}
           S3 == {"complete", "create", "ack", "failing", "polling"}
           S4 == {"create", "ack", "failing", "polling"}
           S5 == {"ack", "failing", "polling"}
           S6 == {"failing", "polling"}
           S7 == {"polling"}
           Busy == {"down"} \cup Handling
           Comes(S, T) == /\ T \subseteq S
                          /\ \A s \in S \cap Busy : Follow(s) \subseteq T
                          /\ "polling" \in T \/ S = {"polling"}
           Step(S, T) == Inv /\ [Next]_vars /\ At(S) =>
                           (At(S) \/ Taken)' /\ (Work(w) => (At(T) \/ Taken)')
<1>1. ASSUME Inv, [Next]_vars, Waits
      PROVE  (Waits \/ Taken)'
  BY <1>1, QueueGrows DEF TypeOK, QueueTypeOK
<1>2. ASSUME NEW S, NEW T, Comes(S, T)
      PROVE  Step(S, T)
  <2> SUFFICES ASSUME Inv, [Next]_vars, At(S), ~Taken'
               PROVE  At(S)' /\ (Work(w) => At(T)')
    OBVIOUS
  <2>1. Waits'
    BY <1>1
  <2>2. ASSUME \/ Start(w) \/ Halt(w) \/ Take(w) \/ PollFails(w)
               \/ Handle(w) \/ DbFails(w) \/ AckFails(w)
        PROVE  stage'[w] \in S /\ stage'[w] \in T
    <3>1. lastDelivered' # lastDelivered + 1
      OBVIOUS
    <3>2. stage[w] \in Busy /\ stage'[w] \in Follow(stage[w])
      BY <2>2, <3>1, LoopGoesOn
    <3> QED
      BY <1>2, <3>2
  <2>3. stage'[w] = stage[w] \/ stage'[w] \in S
    BY <2>2, OthersKeepHand
  <2>4. Work(w) => stage'[w] \in T
    BY <2>2 DEF Work
  <2> QED
    BY <2>1, <2>3, <2>4
<1>3. /\ Comes(S1, S2) /\ Comes(S2, S3) /\ Comes(S3, S4)
      /\ Comes(S4, S5) /\ Comes(S5, S6) /\ Comes(S6, S7) /\ Comes(S7, {})
  BY DEF Later, Follow, Handling
<1>4. /\ Step(S1, S2) /\ Step(S2, S3) /\ Step(S3, S4)
      /\ Step(S4, S5) /\ Step(S5, S6) /\ Step(S6, S7) /\ Step(S7, {})
  <2> HIDE DEF Comes, Step, S1, S2, S3, S4, S5, S6, S7
  <2> QED
    BY <1>2, <1>3
<1>5. Inv /\ Waits => At(S1) /\ Ready(w)
  BY DEF TypeOK, QueueTypeOK, OnlyReadsEndLoop, Ready, Stages, Entries
<1>6. CanGoOn /\ Ready(w) => ENABLED <<Work(w)>>_vars
  BY DEF CanGoOn
<1>7. \A S : At(S) => Waits
  OBVIOUS
<1>8. /\ At(S1) \/ At(S2) \/ At(S3) \/ At(S4) \/ At(S5) \/ At(S6) \/ At(S7) => Waits
      /\ At({}) => FALSE
  BY <1>7
<1> HIDE DEF At, Waits, Taken, S1, S2, S3, S4, S5, S6, S7
<1>9. Spec /\ KeepsWorking(w) /\ []CanGoOn => (Waits ~> Taken)
  BY <1>4, <1>5, <1>6, <1>8, TypeCorrect, LoopsEndByReads,
     PTL DEF Spec, KeepsWorking, Inv, Step
<1>10. Fairness => KeepsWorking(w)
  BY FairWorker
<1> QED
  BY <1>9, <1>10, PTL DEF FairSpec, Waits, Taken

EntryTaken(m) == m \in Entries ~> m <= lastDelivered

\* The induction step of "every published entry is delivered": entry m + 1 is
\* taken if entry m is, for any numbers of clients, workers and messages, while
\* one worker's process and reads hold and whatever befalls the others.
THEOREM QueueMovesOn ==
  ASSUME NEW w \in Workers \ Unsteady, NEW m \in Nat
  PROVE  FairSpec /\ []CanGoOn => (EntryTaken(m) => EntryTaken(m + 1))
<1> DEFINE In(n) == n \in Entries
           Taken(n) == n <= lastDelivered
           Next1 == lastDelivered = m /\ In(m + 1)
<1>1. ASSUME TypeOK, In(m + 1)
      PROVE  In(m) \/ Taken(m)
  <2>1. Entries = 1..Len(stream) /\ Len(stream) \in Nat /\ lastDelivered \in Nat
    BY <1>1 DEF TypeOK, QueueTypeOK, Entries
  <2>2. m + 1 \in 1..Len(stream)
    BY <1>1, <2>1
  <2>3. m = 0 \/ m \in 1..Len(stream)
    BY <2>1, <2>2
  <2> QED
    BY <2>1, <2>3
<1>2. TypeOK /\ In(m + 1) /\ [Next]_vars => In(m + 1)'
  BY QueueGrows
<1>3. TypeOK /\ Taken(m) /\ In(m + 1) => Next1 \/ Taken(m + 1)
  BY DEF TypeOK, QueueTypeOK
<1>4. FairSpec /\ []CanGoOn => (Next1 ~> Taken(m + 1))
  BY NextIsTaken, PTL
<1> HIDE DEF In, Taken, Next1
<1>5. FairSpec /\ []CanGoOn /\ (In(m) ~> Taken(m)) => (In(m + 1) ~> Taken(m + 1))
  BY <1>1, <1>2, <1>3, <1>4, TypeCorrect, PTL DEF FairSpec, Spec
<1> QED
  BY <1>5 DEF In, Taken, EntryTaken

\* Mathematical induction for EntryTaken.  It is true of any predicate of a
\* number, and a hypothesis only because the provers cannot instantiate it with
\* a temporal formula.
InductionOnEntries ==
  /\ EntryTaken(0)
  /\ \A m \in Nat : EntryTaken(m) => EntryTaken(m + 1)
  => \A m \in Nat : EntryTaken(m)

\* Whatever happens to the other workers, Redis, the database and the LLM, every
\* published message is taken and concluded while one worker's process and
\* reads hold.
THEOREM MessagesConclude ==
  ASSUME NEW w \in Workers \ Unsteady
  PROVE  FairSpec /\ []CanGoOn /\ InductionOnEntries => EveryMessageConcludes
<1> DEFINE In(m) == m \in Entries
           Out(m) == m \in 1..lastDelivered
           Good(m) == Concluded(m)
<1>1. FairSpec => EntryTaken(0)
  <2>1. TypeOK => ~In(0)
    BY DEF TypeOK, QueueTypeOK, Entries
  <2> HIDE DEF In
  <2>2. Spec => (In(0) ~> 0 <= lastDelivered)
    BY <2>1, TypeCorrect, PTL
  <2> QED
    BY <2>2 DEF FairSpec, EntryTaken, In
<1>2. FairSpec /\ []CanGoOn => \A m \in Nat : EntryTaken(m) => EntryTaken(m + 1)
  BY QueueMovesOn
<1>3. FairSpec /\ []CanGoOn /\ InductionOnEntries => \A m \in Nat : EntryTaken(m)
  BY <1>1, <1>2 DEF InductionOnEntries
<1>4. ASSUME NEW m \in 1..MaxMessages
      PROVE  FairSpec /\ []CanGoOn /\ EntryTaken(m) => (In(m) ~> Out(m) /\ Good(m))
  <2>1. TypeOK /\ m <= lastDelivered => Out(m)
    BY DEF TypeOK, QueueTypeOK
  <2>2. TypeOK /\ Out(m) /\ [Next]_vars => Out(m)'
    BY QueueGrows DEF TypeOK, QueueTypeOK
  <2>3. FairSpec /\ []CanGoOn => (Out(m) ~> Good(m))
    <3>1. m \in Nat
      BY QueueAssumption
    <3> QED
      BY <3>1, DeliveredConcludes
  <2> HIDE DEF In, Out, Good
  <2>4. EntryTaken(m) => (In(m) ~> m <= lastDelivered)
    BY DEF EntryTaken, In
  <2> QED
    BY <2>1, <2>2, <2>3, <2>4, TypeCorrect, PTL DEF FairSpec, Spec
<1>5. ASSUME NEW m \in 1..MaxMessages
      PROVE  m \in Nat
  BY QueueAssumption
<1> HIDE DEF In, Out, Good
<1>6. FairSpec /\ []CanGoOn /\ InductionOnEntries
        => \A m \in 1..MaxMessages : (In(m) ~> Out(m) /\ Good(m))
  BY <1>3, <1>4, <1>5
<1> QED
  BY <1>6 DEF EveryMessageConcludes, In, Out, Good

---------------------------------------------------------------------------
(***************************************************************************)
(* The reach of AtLeastOnceDelivery, which a run refutes.                  *)
(***************************************************************************)

\* The three things that take an entry out of hands for good: the halt of a
\* worker, the lost reply of a read, a dead-letter insert that fails.
Losing ==
  \/ Faults \cap {"halt", "redis"} # {} /\ Unsteady # {}
  \/ "db" \in Faults

LossesExplained == dropped # {} => Losing

\* Nothing else takes one, by the actions that write `dropped`.
LEMMA LossesAreFaults == Spec => []LossesExplained
<1>1. Init => LossesExplained
  BY DEF Init, LossesExplained
<1>2. ASSUME [Next]_vars
      PROVE  dropped' = dropped \/ Losing
  <2>1. ASSUME NEW w \in Workers,
               \/ Start(w) \/ Halt(w) \/ Take(w) \/ PollFails(w)
               \/ Handle(w) \/ DbFails(w) \/ AckFails(w)
        PROVE  dropped' = dropped \/ Losing
    <3>1. Halt(w) \/ PollFails(w) \/ RecordFailure(w) => dropped' = dropped \/ Losing
      BY DEF Halt, PollFails, RecordFailure, Goto, Losing
    <3>2. Start(w) \/ Take(w) \/ Assemble(w) \/ Complete(w) \/ DbFails(w) \/ AckFails(w)
            => dropped' = dropped
      BY DEF Start, Take, Assemble, Complete, DbFails, AckFails, history
    <3>3. FindPending(w) \/ CreateDraft(w) \/ AckMessage(w) => dropped' = dropped
      BY DEF FindPending, CreateDraft, AckMessage
    <3> QED
      BY <2>1, <3>1, <3>2, <3>3 DEF Handle
  <2>2. ASSUME NEW p \in Publishers, BeginRun(p) \/ PublishNext(p)
        PROVE  dropped' = dropped
    BY <2>2 DEF BeginRun, PublishNext, workerVars, history
  <2>3. PatchStatus \/ RemoveClient \/ UNCHANGED vars => dropped' = dropped
    BY DEF PatchStatus, RemoveClient, vars, workerVars, history
  <2> QED
    BY <1>2, <2>1, <2>2, <2>3 DEF Next
<1>3. LossesExplained /\ [Next]_vars => LossesExplained'
  BY <1>2 DEF LossesExplained, Losing
<1> QED
  BY <1>1, <1>3, PTL DEF Spec

\* redis.py:3-4 is right where none of the three can happen: each entry that is
\* delivered is then acknowledged or recorded in the end, unless its client
\* goes, although the LLM fails and the reads of other publishers do.
THEOREM DeliveryWithoutLosses ==
  ASSUME ~Losing
  PROVE  FairSpec /\ []CanGoOn => AtLeastOnceDelivery
<1> DEFINE Out(m) == m \in pel
           Back(m) == m \notin pel \/ Recorded(m) \/ stream[m] \notin clients
<1>1. ASSUME NEW m \in Nat
      PROVE  FairSpec /\ []CanGoOn => (Out(m) ~> Back(m))
  <2>1. TypeOK /\ Out(m) => m \in 1..lastDelivered
    BY DEF TypeOK, QueueTypeOK
  <2>2. LossesExplained /\ Concluded(m) => Back(m)
    BY DEF LossesExplained, Concluded, Acked
  <2> HIDE DEF Out, Back
  <2>3. FairSpec /\ []CanGoOn => (m \in 1..lastDelivered ~> Concluded(m))
    BY DeliveredConcludes
  <2> QED
    BY <2>1, <2>2, <2>3, TypeCorrect, LossesAreFaults, PTL DEF FairSpec
<1> HIDE DEF Out, Back
<1>2. FairSpec /\ []CanGoOn => \A m \in 1..MaxMessages : (Out(m) ~> Back(m))
  BY <1>1
<1> QED
  BY <1>2 DEF Out, Back, AtLeastOnceDelivery
===========================================================================
