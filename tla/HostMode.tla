------------------------------ MODULE HostMode -----------------------------
(***************************************************************************)
(* The backend on its own, as its default settings run it: one process     *)
(* with the API, the daily APScheduler job, the generation worker and the  *)
(* in-memory queue between them (main.py's lifespan).  What the worker     *)
(* does with a message is GenerationPipeline's subject; here a handling    *)
(* ends, with an ack or with a dead letter.                                *)
(***************************************************************************)
EXTENDS SchedulerRun, InMemoryQueue, FiniteSets

CONSTANTS
  Job,          \* the run of the daily job; the others are trigger calls
  MaxMessages   \* bound: no run starts when so many messages were published

ASSUME HostAssumption == Job \in Runs /\ MaxMessages \in Nat

VARIABLES
  phase,    \* "down", "up", or "stopping" while the lifespan shuts down
  loop,     \* the worker's task: "none", "waiting" in get(), or "handling"
  hand,     \* the message the loop handles, or NoMsg
  handled,  \* history: messages whose handling came to its end
  born      \* history: number of messages when the process started

hostVars == <<phase, loop, hand, handled, born>>
runVars == <<tableVars, run, report, runHistory>>
vars == <<runVars, queueVars, hostVars>>

NoMsg == 0

TypeOK ==
  /\ RunTypeOK /\ QueueTypeOK
  /\ phase \in {"down", "up", "stopping"}
  /\ loop \in {"none", "waiting", "handling"}
  /\ hand \in 0..published /\ (hand # NoMsg <=> loop = "handling")
  /\ handled \subseteq taken
  /\ born \in 0..published

Init ==
  /\ RunInit /\ QueueInit
  /\ phase = "down" /\ loop = "none" /\ hand = NoMsg
  /\ handled = {} /\ born = 0

---------------------------------------------------------------------------
\* The lifespan up to its yield: the worker's start() makes the task of the
\* loop, the scheduler starts.
StartUp ==
  /\ phase = "down"
  /\ phase' = "up" /\ loop' = "waiting" /\ born' = published
  /\ UNCHANGED <<runVars, queueVars, hand, handled>>

\* The daily job fires, or POST /scheduler/trigger is called.
StartRun(p) ==
  /\ phase = "up" /\ published < MaxMessages
  /\ BeginRun(p)
  /\ UNCHANGED <<queueVars, phase, loop, hand, handled, born>>

Walk(p) ==
  /\ QueryAdvisor(p) \/ Assemble(p) \/ EndWalk(p) \/ EndRun(p)
  /\ UNCHANGED <<queueVars, hostVars>>

\* One iteration of publish_all's loop.
PublishNext(p) ==
  /\ run[p].at = "publish"
  /\ \E c \in run[p].batch : Publish /\ Sent(p, c)
  /\ UNCHANGED hostVars

\* get() returns in the loop.
Take ==
  /\ loop = "waiting"
  /\ Consume
  /\ hand' = Head(items)
  /\ loop' = "handling"
  /\ UNCHANGED <<runVars, phase, handled, born>>

\* A faulty EndHandling for the mutation runs: the loop ends with the message.
EndHandlingOnce ==
  /\ loop = "handling"
  /\ handled' = handled \cup {hand}
  /\ Ack(hand)
  /\ loop' = "none"
  /\ UNCHANGED <<runVars, phase, hand, born>>

\* The handling is over: with an ack, or after _on_failure without one.
EndHandling ==
  /\ loop = "handling"
  /\ handled' = handled \cup {hand}
  /\ Ack(hand) \/ UNCHANGED queueVars
  /\ loop' = "waiting" /\ hand' = NoMsg
  /\ UNCHANGED <<runVars, phase, born>>

\* SIGTERM.  The server has let its requests finish.  The scheduler cancels
\* the job, stop() cancels the loop's task and waits for it.
Stop ==
  /\ phase = "up" /\ \A p \in Runs \ {Job} : run[p].at = "idle"
  /\ phase' = "stopping" /\ loop' = "none" /\ hand' = NoMsg
  /\ CancelRun(Job) \/ (run[Job].at = "idle" /\ UNCHANGED <<run, report, runHistory>>)
  /\ UNCHANGED <<tableVars, queueVars, handled, born>>

\* The process ends: after the shutdown, or killed at any time.
End ==
  /\ phase = "stopping" \/ (phase = "up" /\ "crash" \in Faults)
  /\ phase' = "down" /\ loop' = "none" /\ hand' = NoMsg
  /\ RunsEnd
  /\ Vanish
  /\ UNCHANGED <<handled, born>>

World == (NextDay \/ SetReview \/ RemoveClient) /\ UNCHANGED <<queueVars, hostVars>>
Advance(p) == Walk(p) \/ PublishNext(p)

Next ==
  \/ StartUp \/ Take \/ EndHandling \/ Stop \/ End \/ World
  \/ \E p \in Runs : StartRun(p) \/ Advance(p)

Spec == Init /\ [][Next]_vars

\* The event loop runs what is ready: the steps of a run and of the worker.
FairSpec ==
  /\ Spec
  /\ WF_vars(Take) /\ WF_vars(EndHandling)
  /\ \A p \in Runs : WF_vars(Advance(p))

---------------------------------------------------------------------------
(***************************************************************************)
(* Properties.                                                             *)
(***************************************************************************)

\* A run that reports success has queued a message for every client that was
\* due all the time, for each but once, and reports their number; left out
\* are only the clients of advisors that the walk has skipped.
SuccessCoversDueClients ==
  [][\A p \in Runs :
       run[p].at # "idle" /\ report'[p].status = "success" =>
         /\ \A c \in steady[p] : AdvisorOf[c] \in skipped[p] \/ c \in queued[p]
         /\ report'[p].count = Cardinality(queued[p])]_vars

\* The walk contains the failure of one advisor (adaptors.py:132): an advisor
\* is left out only when one of its own clients was deleted during the run,
\* unless the database failed, which costs all the advisors still to come.
OnlyOwnClientsSkipAdvisor ==
  \A p \in Runs : run[p].at # "idle" /\ ~run[p].broken =>
    \A a \in skipped[p] : \E c \in removed[p] : AdvisorOf[c] = a

\* As long as the process lives, no message it has queued gets lost: it waits,
\* is in hand, or its handling came to its end.  The end of the process, an
\* orderly one as well, loses what waits and what is in hand.
NothingLostWhileUp ==
  phase = "up" =>
    \A n \in (born + 1)..published : n \in Range(items) \cup {hand} \cup handled

\* Each message that is queued is handled, in a process that stays up.
QueuedIsHandled ==
  \A n \in 1..(MaxMessages + Cardinality(Clients) * Cardinality(Runs)) :
    n \in Range(items) ~> n \in handled \/ phase # "up"

\* The in-memory queue is a MessageQueue: first in, first out, nothing twice.
Queue == INSTANCE MessageQueue WITH
           state <- [n \in 1..published |-> StateOf(n)]
ImplementsMessageQueue == Queue!MessagesSpec
===========================================================================
