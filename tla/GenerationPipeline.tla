------------------------- MODULE GenerationPipeline -----------------------
(***************************************************************************)
(* The draft-generation pipeline: scheduler runs publish one message per   *)
(* eligible client, worker processes consume the Redis stream and run the  *)
(* generation agent for each message, and the advisor works on the drafts  *)
(* through the API, all of them at the same time.                          *)
(*                                                                         *)
(* A worker is a process that runs BaseQueueWorker._consume_loop: the      *)
(* email-agent container, or the backend when GENERATION_WORKER_ENABLED.   *)
(* Its stages are the awaits of the loop and of GenerationAgent.run, and   *)
(* every other process may act between two of them.                        *)
(***************************************************************************)
EXTENDS RedisStreamQueue, DraftStore

CONSTANTS
  Workers,      \* worker processes
  Publishers,   \* scheduler runs that can be in progress at the same time:
                \* the daily APScheduler job and POST /scheduler/trigger calls
  Faults,       \* the faults that can happen: a subset of FaultKinds
  Unsteady      \* the workers whose process may be halted and whose reads
                \* from Redis may fail

FaultKinds == {"halt", "redis", "db", "llm"}

ASSUME PipelineAssumption ==
  /\ Faults \subseteq FaultKinds
  /\ Unsteady \subseteq Workers

VARIABLES
  batch,    \* batch[p]: clients run p selected and has not published yet
  stage,    \* stage[w]: where worker w's loop is
  msg,      \* msg[w]: the entry worker w handles, or NoMsg
  served,   \* history: entries whose handling saw a pending draft for their
            \* client, found or created
  dropped   \* history: entries that the halt of a worker, the lost reply of a
            \* read or a failed dead-letter insert took out of hands

history == <<served, dropped>>
workerVars == <<stage, msg, history>>
vars == <<queueVars, storeVars, batch, workerVars>>

NoMsg == 0

\* "down": no process; "polling": awaiting XREADGROUP; "dead": the process is
\* up and _running is TRUE, but an exception ended the loop's task.
Handling == {"find", "assemble", "complete", "create", "ack", "failing"}
Stages == {"down", "polling", "dead"} \cup Handling

ClientOf(w) == stream[msg[w]]
Handles(w, m) == stage[w] \in Handling /\ msg[w] = m
Held(m) == \E w \in Workers : Handles(w, m)
Recorded(m) == [client |-> stream[m], msg |-> m] \in failures

TypeOK ==
  /\ QueueTypeOK
  /\ StoreTypeOK
  /\ batch \in [Publishers -> SUBSET Clients]
  /\ stage \in [Workers -> Stages]
  /\ msg \in [Workers -> Nat]
  /\ served \subseteq Nat
  /\ dropped \subseteq Nat

Init ==
  /\ QueueInit
  /\ StoreInit
  /\ batch = [p \in Publishers |-> {}]
  /\ stage = [w \in Workers |-> "down"]
  /\ msg = [w \in Workers |-> NoMsg]
  /\ served = {}
  /\ dropped = {}

---------------------------------------------------------------------------
(***************************************************************************)
(* Scheduler: BaseSchedulerPublisher.publish_all.                          *)
(***************************************************************************)

\* _get_messages() reads the clients due for review.  Review dates move with
\* time and PATCH /clients, and the clients of an advisor whose query fails
\* are left out: any set of existing clients may be selected.  Neither the
\* stream nor the drafts are consulted.
BeginRun(p) ==
  /\ batch[p] = {}
  /\ \E due \in SUBSET clients :
       /\ due # {}
       /\ batch' = [batch EXCEPT ![p] = due]
  /\ UNCHANGED <<queueVars, storeVars, workerVars>>

\* One iteration of the publish loop.  A failed publish is logged and
\* skipped; with the reply of XADD lost, the entry is in the stream anyway.
PublishNext(p) ==
  /\ \E c \in batch[p] :
       /\ batch' = [batch EXCEPT ![p] = @ \ {c}]
       /\ \/ Publish(c)
          \/ "redis" \in Faults /\ UNCHANGED queueVars
  /\ UNCHANGED <<storeVars, workerVars>>

---------------------------------------------------------------------------
(***************************************************************************)
(* Worker life cycle: BaseQueueWorker and the process around it.           *)
(***************************************************************************)

Goto(w, s) ==
  /\ stage' = [stage EXCEPT ![w] = s]
  /\ UNCHANGED msg

\* The process comes up (restart: unless-stopped) and calls start().
Start(w) ==
  /\ stage[w] = "down"
  /\ Goto(w, "polling")
  /\ UNCHANGED <<queueVars, storeVars, batch, history>>

\* The process is killed, or stop() cancels the task.  CancelledError is not
\* an Exception: the message in hand gets no ack and no dead letter.
Halt(w) ==
  /\ "halt" \in Faults /\ w \in Unsteady
  /\ stage[w] # "down"
  /\ stage' = [stage EXCEPT ![w] = "down"]
  /\ msg' = [msg EXCEPT ![w] = NoMsg]
  /\ dropped' = IF stage[w] \in Handling THEN dropped \cup {msg[w]} ELSE dropped
  /\ UNCHANGED <<queueVars, storeVars, batch, served>>

\* XREADGROUP yields the next entry.
Take(w) ==
  /\ stage[w] = "polling"
  /\ ReadGroup
  /\ stage' = [stage EXCEPT ![w] = "find"]
  /\ msg' = [msg EXCEPT ![w] = lastDelivered']
  /\ UNCHANGED <<storeVars, batch, history>>

\* XREADGROUP raises out of consume(), hence out of the loop, which no handler
\* encloses; Redis may have delivered an entry whose reply is lost.
PollFails(w) ==
  /\ "redis" \in Faults /\ w \in Unsteady
  /\ stage[w] = "polling"
  /\ Goto(w, "dead")
  /\ \/ ReadGroup /\ dropped' = dropped \cup {lastDelivered'}
     \/ UNCHANGED <<queueVars, dropped>>
  /\ UNCHANGED <<storeVars, batch, served>>

---------------------------------------------------------------------------
(***************************************************************************)
(* One message: GenerationWorker._handle around GenerationAgent.run, with  *)
(* force FALSE (the worker's AgentTrigger carries no payload).  Every      *)
(* exception leads to _on_failure, the "failing" stage.                    *)
(***************************************************************************)

\* A pending draft ends the run successfully; without one it goes on.
FindPending(w) ==
  /\ stage[w] = "find"
  /\ IF Pending(ClientOf(w)) # {}
     THEN Goto(w, "ack") /\ served' = served \cup {msg[w]}
     ELSE Goto(w, "assemble") /\ UNCHANGED served
  /\ UNCHANGED <<queueVars, storeVars, batch, dropped>>

\* assemble() raises NotFoundError for a client that is gone.
Assemble(w) ==
  /\ stage[w] = "assemble"
  /\ Goto(w, IF ClientOf(w) \in clients THEN "complete" ELSE "failing")
  /\ UNCHANGED <<queueVars, storeVars, batch, history>>

\* The LLM call, the longest await of the run.
Complete(w) ==
  /\ stage[w] = "complete"
  /\ \/ Goto(w, "create")
     \/ "llm" \in Faults /\ Goto(w, "failing")
  /\ UNCHANGED <<queueVars, storeVars, batch, history>>

\* create_draft().  The client may have gone, and another worker or the
\* advisor may have made a draft pending, since this run looked.
CreateDraft(w) ==
  /\ stage[w] = "create"
  /\ \/ /\ InsertDraft(ClientOf(w), msg[w])
        /\ served' = served \cup {msg[w]}
        /\ \/ Goto(w, "ack")
           \/ "db" \in Faults /\ Goto(w, "failing")  \* reply of COMMIT lost
     \/ /\ ~CanInsertDraft(ClientOf(w))
        /\ Goto(w, "failing")
        /\ UNCHANGED <<storeVars, served>>
  /\ UNCHANGED <<queueVars, batch, dropped>>

\* A statement of the run fails in the database.
DbFails(w) ==
  /\ "db" \in Faults
  /\ stage[w] \in {"find", "assemble", "create"}
  /\ Goto(w, "failing")
  /\ UNCHANGED <<queueVars, storeVars, batch, history>>

Finish(w) ==
  /\ stage' = [stage EXCEPT ![w] = "polling"]
  /\ msg' = [msg EXCEPT ![w] = NoMsg]
  /\ UNCHANGED <<batch, served>>

\* ack() after a successful run.
AckMessage(w) ==
  /\ stage[w] = "ack"
  /\ XAck(msg[w])
  /\ Finish(w)
  /\ UNCHANGED <<storeVars, dropped>>

\* ack() raises inside the same try as _handle: the message counts as failed.
AckFails(w) ==
  /\ "redis" \in Faults
  /\ stage[w] = "ack"
  /\ XAck(msg[w]) \/ UNCHANGED queueVars
  /\ Goto(w, "failing")
  /\ UNCHANGED <<storeVars, batch, history>>

\* Faulty forms of RecordFailure, for the mutation runs: the message is
\* acknowledged after a failure too; the default _on_failure, which only logs,
\* is not overridden; an exception of the failure handler ends the loop.
RecordFailureAndAck(w) ==
  /\ stage[w] = "failing"
  /\ \/ InsertFailure(ClientOf(w), msg[w])
     \/ ~CanInsertFailure(ClientOf(w)) /\ UNCHANGED storeVars
  /\ XAck(msg[w])
  /\ Finish(w)
  /\ UNCHANGED dropped

LogFailure(w) ==
  /\ stage[w] = "failing"
  /\ Finish(w)
  /\ UNCHANGED <<queueVars, storeVars, dropped>>

RecordFailureOrRaise(w) ==
  /\ stage[w] = "failing"
  /\ \/ InsertFailure(ClientOf(w), msg[w]) /\ Finish(w)
     \/ /\ ~CanInsertFailure(ClientOf(w))
        /\ Goto(w, "dead")
        /\ UNCHANGED <<storeVars, batch, served>>
  /\ UNCHANGED <<queueVars, dropped>>

\* _on_failure() persists a dead letter; what goes wrong with that is logged
\* and swallowed.  The message stays in the pending entries list.
RecordFailure(w) ==
  /\ stage[w] = "failing"
  /\ \/ InsertFailure(ClientOf(w), msg[w]) /\ UNCHANGED dropped
     \/ ~CanInsertFailure(ClientOf(w)) /\ UNCHANGED <<storeVars, dropped>>
     \/ /\ "db" \in Faults
        /\ dropped' = dropped \cup {msg[w]}
        /\ UNCHANGED storeVars
  /\ Finish(w)
  /\ UNCHANGED queueVars

---------------------------------------------------------------------------
(***************************************************************************)
(* The API the advisor's app calls.                                        *)
(***************************************************************************)

PatchStatus ==
  /\ \E d \in DOMAIN drafts, s \in {"pending", "sent"} : UpdateStatus(d, s)
  /\ UNCHANGED <<queueVars, batch, workerVars>>

RemoveClient ==
  /\ \E c \in clients : DeleteClient(c)
  /\ UNCHANGED <<queueVars, batch, workerVars>>

---------------------------------------------------------------------------
\* What worker w does by itself once it holds a message.
Handle(w) ==
  \/ FindPending(w) \/ Assemble(w) \/ Complete(w) \/ CreateDraft(w)
  \/ AckMessage(w) \/ RecordFailure(w)

Next ==
  \/ \E p \in Publishers : BeginRun(p) \/ PublishNext(p)
  \/ \E w \in Workers :
       \/ Start(w) \/ Halt(w) \/ Take(w) \/ PollFails(w)
       \/ Handle(w) \/ DbFails(w) \/ AckFails(w)
  \/ PatchStatus
  \/ RemoveClient

Spec == Init /\ [][Next]_vars

\* The event loop runs every task that is ready, each await of a run ends (the
\* LLM call by its timeout and bounded retries), and the container runtime
\* brings a process up again.  Nothing obliges the scheduler, the advisor or
\* a fault to act.
Work(w) == Start(w) \/ Take(w) \/ Handle(w)
KeepsWorking(w) == WF_vars(Work(w))
Fairness == \A w \in Workers : KeepsWorking(w)

FairSpec == Spec /\ Fairness

---------------------------------------------------------------------------
(***************************************************************************)
(* Safety.                                                                 *)
(***************************************************************************)

\* Two workers never handle the same entry, although both read under one
\* consumer name: the queue yields an entry once (message_queue.py:63-64).
ExclusiveHandling ==
  \A v, w \in Workers :
    stage[v] \in Handling /\ stage[w] \in Handling /\ msg[v] = msg[w] => v = w

\* An entry leaves the pending entries list only if its handling saw a pending
\* draft for its client: no failed or abandoned message is acknowledged.
AckedIsServed == Acked \subseteq served

\* One message yields at most one draft row, whatever crashes, failed acks and
\* duplicate messages there are.
OneDraftPerMessage ==
  \A i, j \in DOMAIN drafts : drafts[i].msg = drafts[j].msg => i = j

\* A delivered and unacknowledged entry that no worker handles has its dead
\* letter, unless its client is gone: every way a run can fail is recorded, but
\* for the three that make an entry "dropped".
FailureLeavesTrace ==
  \A m \in pel :
    Held(m) \/ Recorded(m) \/ stream[m] \notin clients \/ m \in dropped

\* What ties the workers to the queue and to the rows: an entry in hand has
\* been delivered and stays pending until its ack, an entry about to be
\* acknowledged was served, and a run that has not reached create_draft has
\* left no row.
BeforeCreate == {"find", "assemble", "complete", "create"}

HoldingInv ==
  \A w \in Workers :
    stage[w] \in Handling =>
      /\ msg[w] \in 1..lastDelivered
      /\ stage[w] # "failing" => msg[w] \in pel
      /\ stage[w] = "ack" => msg[w] \in served
      /\ stage[w] \in BeforeCreate =>
           \A d \in DOMAIN drafts : drafts[d].msg # msg[w]

\* A draft row stems from a message that was delivered.
OriginsDelivered == \A d \in DOMAIN drafts : drafts[d].msg \in 1..lastDelivered

\* The inductive invariant: the safety properties above and what they rest on.
IInv ==
  /\ TypeOK
  /\ HoldingInv
  /\ ExclusiveHandling
  /\ AckedIsServed
  /\ OriginsDelivered
  /\ OneDraftPerMessage
  /\ OnePendingDraft
  /\ RowsReferToClients

\* The stream is a MessageQueue for the workers, through lost replies, halts and
\* failed acks: first in, first out, nothing twice, nothing acknowledged unseen.
Queue == INSTANCE MessageQueue WITH state <- [n \in 1..Len(stream) |-> StateOf(n)]
ImplementsMessageQueue == Queue!MessagesSpec

---------------------------------------------------------------------------
(***************************************************************************)
(* Liveness, under FairSpec.                                               *)
(***************************************************************************)

\* Whatever happens to the other workers, Redis, the database and the LLM, one
\* worker whose process and reads hold keeps the queue moving: every published
\* message is taken and concluded, that is acknowledged or recorded, unless its
\* client goes or it is dropped.
Concluded(m) ==
  m \in Acked \/ Recorded(m) \/ stream[m] \notin clients \/ m \in dropped

EveryMessageConcludes ==
  \A m \in 1..MaxMessages :
    m \in Entries ~> m \in 1..lastDelivered /\ Concluded(m)

---------------------------------------------------------------------------
(***************************************************************************)
(* What the repository says and the code does not do; each is refuted by a *)
(* run of its own.                                                         *)
(***************************************************************************)

\* redis.py:3-4, "a consumer group for at-least-once delivery and proper ack
\* semantics": an entry whose handling was cut short is delivered again, so
\* that in the end it is acknowledged or recorded.
AtLeastOnceDelivery ==
  \A m \in 1..MaxMessages :
    m \in pel ~> m \notin pel \/ Recorded(m) \/ stream[m] \notin clients

\* worker.py:144-147, the loop "Runs until `_running` is set to False (via
\* stop()) or the consumer generator is exhausted".
LoopRunsWhileRunning == \A w \in Workers : stage[w] # "dead"
===========================================================================
