---------------------------- MODULE SchedulerRun ---------------------------
(***************************************************************************)
(* What a scheduler run reads: the clients whose review is due, advisor by *)
(* advisor, in one session (EligibleClientSource, list_needing_review and  *)
(* assemble), while advisors move review dates and delete clients and the  *)
(* days go by.  Advisors and clients are walked in some fixed order; it    *)
(* makes no difference here and is left open.                              *)
(***************************************************************************)
EXTENDS Entities, Naturals

CONSTANTS
  Advisors,    \* advisors, all of them on the books
  AdvisorOf,   \* the advisor of each client
  Window,      \* days a review is due in advance (_REVIEW_WINDOW_DAYS)
  MaxDay,      \* bound: the last day
  NoDate,      \* a review date that is not set
  Runs,        \* runs that can be in progress: the daily job, trigger calls
  Faults       \* the faults that can happen: a subset of FaultKinds

FaultKinds == {"db", "crash"}
Day == 0..(MaxDay + Window)

ASSUME RunAssumption ==
  /\ AdvisorOf \in [Clients -> Advisors]
  /\ Window \in Nat /\ MaxDay \in Nat /\ NoDate \notin Day
  /\ Faults \subseteq FaultKinds

VARIABLES
  today,
  clients,   \* clients that exist
  review,    \* review[c]: next_review_date
  run,       \* run[p]: what run p has read and how far it is
  report,    \* report[p]: status and count of p's last run, as returned and
             \* as recorded by record_scheduler_run
             \* (the histories below are of the run in progress)
  steady,    \* steady[p], history: clients that were due all the time since p
             \* began
  removed,   \* removed[p], history: clients deleted since p began
  skipped,   \* skipped[p], history: advisors whose clients p has left out
  queued     \* queued[p], history: clients whose message p has published

tableVars == <<today, clients, review>>
runHistory == <<steady, removed, skipped, queued>>

Stages == {"idle", "advisor", "assemble", "publish"}
RunState ==
  [at : Stages, advisors : SUBSET Advisors, reading : SUBSET Clients,
   found : SUBSET Clients, batch : SUBSET Clients, broken : BOOLEAN, count : Nat]
Idle == [at |-> "idle", advisors |-> {}, reading |-> {}, found |-> {},
         batch |-> {}, broken |-> FALSE, count |-> 0]

RunTypeOK ==
  /\ today \in 0..MaxDay
  /\ clients \subseteq Clients
  /\ review \in [Clients -> Day \cup {NoDate}]
  /\ run \in [Runs -> RunState]
  /\ report \in [Runs -> [status : {"none", "success", "error"}, count : Nat]]
  /\ steady \in [Runs -> SUBSET Clients]
  /\ removed \in [Runs -> SUBSET Clients]
  /\ skipped \in [Runs -> SUBSET Advisors]
  /\ queued \in [Runs -> SUBSET Clients]

\* ClientRepository.list_needing_review: no lower bound.
Due(c) == c \in clients /\ review[c] # NoDate /\ review[c] <= today + Window

NoReport == [status |-> "none", count |-> 0]

RunInit ==
  /\ today = 0
  /\ clients = Clients
  /\ review \in [Clients -> Day \cup {NoDate}]
  /\ run = [p \in Runs |-> Idle]
  /\ report = [p \in Runs |-> NoReport]
  /\ steady = [p \in Runs |-> {}] /\ removed = [p \in Runs |-> {}]
  /\ skipped = [p \in Runs |-> {}] /\ queued = [p \in Runs |-> {}]

---------------------------------------------------------------------------
\* The rest of the world: a day passes, a PATCH sets a review date (it cannot
\* clear it), a client is deleted.
Watch == steady' = [p \in Runs |-> {c \in steady[p] : Due(c)'}]

NextDay ==
  /\ today < MaxDay
  /\ today' = today + 1
  /\ UNCHANGED <<clients, review, run, report, removed, skipped, queued>>
  /\ Watch

SetReview ==
  /\ \E c \in clients, d \in Day : review' = [review EXCEPT ![c] = d]
  /\ UNCHANGED <<today, clients, run, report, removed, skipped, queued>>
  /\ Watch

RemoveClient ==
  /\ \E c \in clients :
       /\ clients' = clients \ {c}
       /\ removed' = [p \in Runs |-> IF run[p].at = "idle" THEN {} ELSE removed[p] \cup {c}]
  /\ UNCHANGED <<today, review, run, report, skipped, queued>>
  /\ Watch

---------------------------------------------------------------------------
(***************************************************************************)
(* The steps of a run.                                                     *)
(***************************************************************************)
Report(p, status, count) ==
  /\ run' = [run EXCEPT ![p] = Idle]
  /\ report' = [report EXCEPT ![p] = [status |-> status, count |-> count]]
  /\ steady' = [steady EXCEPT ![p] = {}] /\ removed' = [removed EXCEPT ![p] = {}]
  /\ skipped' = [skipped EXCEPT ![p] = {}] /\ queued' = [queued EXCEPT ![p] = {}]

\* publish_all() opens a session; the list of advisors is read.
BeginRun(p) ==
  /\ run[p].at = "idle"
  /\ \/ /\ run' = [run EXCEPT ![p] = [Idle EXCEPT !.at = "advisor", !.advisors = Advisors]]
        /\ report' = [report EXCEPT ![p] = NoReport]
        /\ steady' = [steady EXCEPT ![p] = {c \in clients : Due(c)}]
        /\ UNCHANGED <<removed, skipped, queued>>
     \/ "db" \in Faults /\ Report(p, "error", 0)
  /\ UNCHANGED tableVars

\* A faulty Skip for the mutation runs: the try encloses the whole loop.
SkipRest(p, a, broken) ==
  /\ run' = [run EXCEPT ![p].at = "advisor", ![p].reading = {}, ![p].found = {},
                        ![p].advisors = {}, ![p].broken = broken]
  /\ skipped' = [skipped EXCEPT ![p] = @ \cup {a} \cup run[p].advisors]

\* The except clause of the walk: the advisor is logged and left out, with
\* what was assembled for it so far.
Skip(p, a, broken) ==
  /\ run' = [run EXCEPT ![p].at = "advisor", ![p].reading = {}, ![p].found = {},
                        ![p].advisors = @ \ {a}, ![p].broken = broken]
  /\ skipped' = [skipped EXCEPT ![p] = @ \cup {a}]

\* The query for one advisor.  After a database error the transaction of the
\* session is aborted: every further statement of the run fails as well.
QueryAdvisor(p) ==
  /\ run[p].at = "advisor"
  /\ \E a \in run[p].advisors :
       \/ /\ ~run[p].broken
          /\ LET due == {c \in clients : AdvisorOf[c] = a /\ Due(c)}
             IN run' = [run EXCEPT ![p].advisors = @ \ {a},
                                   ![p].at = IF due = {} THEN "advisor" ELSE "assemble",
                                   ![p].reading = due]
          /\ UNCHANGED skipped
       \/ (run[p].broken \/ "db" \in Faults) /\ Skip(p, a, TRUE)
  /\ UNCHANGED <<tableVars, report, steady, removed, queued>>

\* A faulty Assemble for the mutation runs: the batch becomes what was found
\* for this advisor.
AssembleLosingRest(p) ==
  /\ run[p].at = "assemble"
  /\ \E c \in run[p].reading :
       LET rest == run[p].reading \ {c}  found == run[p].found \cup {c}
       IN run' = [run EXCEPT ![p].reading = rest,
                             ![p].found = IF rest = {} THEN {} ELSE found,
                             ![p].batch = IF rest = {} THEN found ELSE @,
                             ![p].at = IF rest = {} THEN "advisor" ELSE "assemble"]
  /\ UNCHANGED <<tableVars, report, steady, removed, skipped, queued>>

\* assemble() for the next client of the current advisor; the last one adds
\* them all to the batch.  A client that is gone by now raises NotFoundError,
\* which costs the advisor's other clients their message of the day.
Assemble(p) ==
  /\ run[p].at = "assemble"
  /\ \E c \in run[p].reading :
       \/ /\ c \in clients
          /\ LET rest == run[p].reading \ {c}  found == run[p].found \cup {c}
             IN run' = [run EXCEPT
                          ![p].reading = rest,
                          ![p].found = IF rest = {} THEN {} ELSE found,
                          ![p].batch = IF rest = {} THEN @ \cup found ELSE @,
                          ![p].at = IF rest = {} THEN "advisor" ELSE "assemble"]
          /\ UNCHANGED skipped
       \/ c \notin clients /\ Skip(p, AdvisorOf[c], run[p].broken)
       \/ "db" \in Faults /\ Skip(p, AdvisorOf[c], TRUE)
  /\ UNCHANGED <<tableVars, report, steady, removed, queued>>

\* The walk is over, and with it the session.
EndWalk(p) ==
  /\ run[p].at = "advisor" /\ run[p].advisors = {}
  /\ run' = [run EXCEPT ![p].at = "publish"]
  /\ UNCHANGED <<tableVars, report, runHistory>>

\* A message of the batch has been published.
Sent(p, c) ==
  /\ run' = [run EXCEPT ![p].batch = @ \ {c}, ![p].count = @ + 1]
  /\ queued' = [queued EXCEPT ![p] = @ \cup {c}]
  /\ UNCHANGED <<tableVars, report, steady, removed, skipped>>

\* No message is left: the run returns the count.
EndRun(p) ==
  /\ run[p].at = "publish" /\ run[p].batch = {}
  /\ Report(p, "success", run[p].count)
  /\ UNCHANGED tableVars

\* publish_pending_generations() is cancelled: its finally still reports.
CancelRun(p) ==
  run[p].at # "idle" /\ Report(p, "error", 0)

\* The process is gone, and with it the runs and what they would report.
RunsEnd ==
  /\ run' = [p \in Runs |-> Idle]
  /\ report' = [p \in Runs |-> IF run[p].at = "idle" THEN report[p] ELSE NoReport]
  /\ steady' = [p \in Runs |-> {}] /\ removed' = [p \in Runs |-> {}]
  /\ skipped' = [p \in Runs |-> {}] /\ queued' = [p \in Runs |-> {}]
  /\ UNCHANGED tableVars
===========================================================================
