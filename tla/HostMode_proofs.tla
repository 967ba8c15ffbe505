--------------------------- MODULE HostMode_proofs -------------------------
(***************************************************************************)
(* Proofs about HostMode and the modules it is made of, for any clients,   *)
(* advisors, runs, days and messages and any faults.                       *)
(***************************************************************************)
EXTENDS HostMode, FiniteSetTheorems, TLAPS

---------------------------------------------------------------------------
(***************************************************************************)
(* The steps of a run, field by field.                                     *)
(***************************************************************************)

\* What is about run p alone.
Others(p) ==
  /\ UNCHANGED tableVars
  /\ \A q \in Runs \ {p} :
       /\ run'[q] = run[q] /\ report'[q] = report[q] /\ steady'[q] = steady[q]
       /\ removed'[q] = removed[q] /\ skipped'[q] = skipped[q] /\ queued'[q] = queued[q]

\* The run begins, or ends with a report.
Begun(p) ==
  /\ run[p].at = "idle" /\ run'[p].at = "advisor"
  /\ run'[p].advisors = Advisors /\ run'[p].reading = {} /\ run'[p].found = {}
  /\ run'[p].batch = {} /\ run'[p].count = 0
  /\ report'[p].status = "none"
  /\ steady'[p] = {c \in clients : Due(c)}
  /\ removed'[p] = removed[p] /\ skipped'[p] = skipped[p] /\ queued'[p] = queued[p]

Ended(p) ==
  /\ run'[p] = Idle
  /\ steady'[p] = {} /\ removed'[p] = {} /\ skipped'[p] = {} /\ queued'[p] = {}
  /\ \/ report'[p].status = "error"
     \/ /\ run[p].at = "publish" /\ run[p].batch = {}
        /\ report'[p].count = run[p].count

\* While it goes on its report and its view of the world stay.
GoesOn(p) ==
  /\ run[p].at # "idle"
  /\ report'[p] = report[p] /\ steady'[p] = steady[p] /\ removed'[p] = removed[p]

Queried(p, a) ==
  LET due == {c \in clients : AdvisorOf[c] = a /\ Due(c)}
  IN /\ run[p].at = "advisor" /\ a \in run[p].advisors
     /\ run'[p].at = (IF due = {} THEN "advisor" ELSE "assemble")
     /\ run'[p].advisors = run[p].advisors \ {a}
     /\ run'[p].reading = due /\ run'[p].found = run[p].found
     /\ run'[p].batch = run[p].batch /\ run'[p].count = run[p].count
     /\ run'[p].broken = run[p].broken
     /\ skipped'[p] = skipped[p] /\ queued'[p] = queued[p]

\* Advisor a is left out, for one of three reasons.
LeftOut(p, a) ==
  /\ \/ run[p].at = "advisor" /\ a \in run[p].advisors /\ run'[p].broken
     \/ /\ run[p].at = "assemble"
        /\ \E c \in run[p].reading :
             a = AdvisorOf[c] /\ (run'[p].broken \/ c \notin clients)
  /\ run[p].broken => run'[p].broken
  /\ run'[p].at = "advisor" /\ run'[p].advisors = run[p].advisors \ {a}
  /\ run'[p].reading = {} /\ run'[p].found = {}
  /\ run'[p].batch = run[p].batch /\ run'[p].count = run[p].count
  /\ skipped'[p] = skipped[p] \cup {a} /\ queued'[p] = queued[p]

\* Client c is assembled; the last one of its advisor completes the batch.
Assembled(p, c) ==
  LET rest == run[p].reading \ {c}  found == run[p].found \cup {c}
  IN /\ run[p].at = "assemble" /\ c \in run[p].reading
     /\ run'[p].at = (IF rest = {} THEN "advisor" ELSE "assemble")
     /\ run'[p].advisors = run[p].advisors
     /\ run'[p].reading = rest
     /\ run'[p].found = (IF rest = {} THEN {} ELSE found)
     /\ run'[p].batch = (IF rest = {} THEN run[p].batch \cup found ELSE run[p].batch)
     /\ run'[p].count = run[p].count /\ run'[p].broken = run[p].broken
     /\ skipped'[p] = skipped[p] /\ queued'[p] = queued[p]

Walked(p) ==
  /\ run[p].at = "advisor" /\ run[p].advisors = {} /\ run'[p].at = "publish"
  /\ run'[p].advisors = run[p].advisors
  /\ run'[p].reading = run[p].reading /\ run'[p].found = run[p].found
  /\ run'[p].batch = run[p].batch /\ run'[p].count = run[p].count
  /\ run'[p].broken = run[p].broken
  /\ skipped'[p] = skipped[p] /\ queued'[p] = queued[p]

Queued(p, c) ==
  /\ run[p].at = "publish" /\ c \in run[p].batch /\ run'[p].at = run[p].at
  /\ run'[p].advisors = run[p].advisors
  /\ run'[p].reading = run[p].reading /\ run'[p].found = run[p].found
  /\ run'[p].batch = run[p].batch \ {c} /\ run'[p].count = run[p].count + 1
  /\ run'[p].broken = run[p].broken
  /\ skipped'[p] = skipped[p] /\ queued'[p] = queued[p] \cup {c}

RunSteps(p) ==
  \/ Begun(p) \/ Ended(p)
  \/ /\ GoesOn(p)
     /\ \/ \E a \in Advisors : Queried(p, a) \/ LeftOut(p, a)
        \/ \E c \in Clients : Assembled(p, c) \/ Queued(p, c)
        \/ Walked(p)

\* A step that gives one run a new record leaves the others alone.
LEMMA OneRun ==
  ASSUME RunTypeOK, NEW p \in Runs, NEW new \in RunState,
         run' = [run EXCEPT ![p] = new]
  PROVE  /\ run' \in [Runs -> RunState] /\ run'[p] = new
         /\ \A q \in Runs \ {p} : run'[q] = run[q]
BY DEF RunTypeOK

\* The record of a run that is not in progress, field by field.
LEMMA IdleOK ==
  /\ Idle \in RunState
  /\ Idle.at = "idle" /\ Idle.advisors = {} /\ Idle.reading = {} /\ Idle.found = {}
  /\ Idle.batch = {} /\ Idle.count = 0
BY DEF Idle, RunState, Stages

\* A run that reports ends, and its histories with it.
LEMMA ReportOK ==
  ASSUME RunTypeOK, NEW p \in Runs, NEW n \in Nat, NEW s \in {"success", "error"},
         Report(p, s, n), UNCHANGED tableVars,
         s = "error" \/ (run[p].at = "publish" /\ run[p].batch = {} /\ n = run[p].count)
  PROVE  RunTypeOK' /\ Others(p) /\ Ended(p)
<1>1. run' \in [Runs -> RunState] /\ run'[p] = Idle
      /\ \A q \in Runs \ {p} : run'[q] = run[q]
  BY OneRun, IdleOK DEF Report
<1>2. /\ report' \in [Runs -> [status : {"none", "success", "error"}, count : Nat]]
      /\ report'[p].status = s /\ report'[p].count = n
      /\ \A q \in Runs \ {p} : report'[q] = report[q]
  BY DEF Report, RunTypeOK
<1>3. /\ steady' \in [Runs -> SUBSET Clients] /\ steady'[p] = {}
      /\ removed' \in [Runs -> SUBSET Clients] /\ removed'[p] = {}
      /\ skipped' \in [Runs -> SUBSET Advisors] /\ skipped'[p] = {}
      /\ queued' \in [Runs -> SUBSET Clients] /\ queued'[p] = {}
      /\ \A q \in Runs \ {p} :
           /\ steady'[q] = steady[q] /\ removed'[q] = removed[q]
           /\ skipped'[q] = skipped[q] /\ queued'[q] = queued[q]
  BY DEF Report, RunTypeOK
<1> QED
  BY <1>1, <1>2, <1>3 DEF Others, Ended, RunTypeOK, tableVars

\* BeginRun begins the run or reports the failure of its session.
LEMMA BeginOK ==
  ASSUME RunTypeOK, NEW p \in Runs, BeginRun(p)
  PROVE  RunTypeOK' /\ Others(p) /\ (Begun(p) \/ Ended(p))
<1>1. CASE Report(p, "error", 0)
  BY <1>1, ReportOK DEF BeginRun
<1>2. CASE /\ run' = [run EXCEPT ![p] = [Idle EXCEPT !.at = "advisor", !.advisors = Advisors]]
           /\ report' = [report EXCEPT ![p] = NoReport]
           /\ steady' = [steady EXCEPT ![p] = {c \in clients : Due(c)}]
           /\ UNCHANGED <<removed, skipped, queued>>
  <2> DEFINE new == [Idle EXCEPT !.at = "advisor", !.advisors = Advisors]
  <2>1. new \in RunState
    BY IdleOK, Zenon DEF RunState, Stages
  <2>2. /\ new.at = "advisor" /\ new.advisors = Advisors /\ new.reading = {}
        /\ new.found = {} /\ new.batch = {} /\ new.count = 0
    BY IdleOK DEF RunState
  <2>3. run' = [run EXCEPT ![p] = new]
    BY <1>2
  <2> HIDE DEF new
  <2>4. run' \in [Runs -> RunState] /\ run'[p] = new
        /\ \A q \in Runs \ {p} : run'[q] = run[q]
    BY <2>1, <2>3, OneRun
  <2>5. /\ report' \in [Runs -> [status : {"none", "success", "error"}, count : Nat]]
        /\ report'[p].status = "none"
        /\ \A q \in Runs \ {p} : report'[q] = report[q]
    BY <1>2 DEF RunTypeOK, NoReport
  <2>6. /\ steady' \in [Runs -> SUBSET Clients]
        /\ steady'[p] = {c \in clients : Due(c)}
        /\ \A q \in Runs \ {p} : steady'[q] = steady[q]
    BY <1>2 DEF RunTypeOK
  <2> QED
    BY <1>2, <2>2, <2>4, <2>5, <2>6 DEF BeginRun, RunTypeOK, tableVars, Others, Begun
<1> QED
  BY <1>1, <1>2 DEF BeginRun

\* Skip, field by field.
LEMMA SkipOK ==
  ASSUME RunTypeOK, NEW p \in Runs, NEW a \in Advisors, NEW b \in BOOLEAN, Skip(p, a, b)
  PROVE  /\ run' \in [Runs -> RunState] /\ \A q \in Runs \ {p} : run'[q] = run[q]
         /\ skipped' \in [Runs -> SUBSET Advisors]
         /\ \A q \in Runs \ {p} : skipped'[q] = skipped[q]
         /\ run'[p].at = "advisor" /\ run'[p].advisors = run[p].advisors \ {a}
         /\ run'[p].reading = {} /\ run'[p].found = {}
         /\ run'[p].batch = run[p].batch /\ run'[p].count = run[p].count
         /\ run'[p].broken = b
         /\ skipped'[p] = skipped[p] \cup {a}
<1> DEFINE x == run[p]
           left == x.advisors \ {a}
           new == [x EXCEPT !.at = "advisor", !.reading = {}, !.found = {},
                            !.advisors = left, !.broken = b]
<1>1. x \in RunState
  BY DEF RunTypeOK
<1>2. run' = [run EXCEPT ![p] = new]
  BY DEF Skip
<1>3. left \in SUBSET Advisors
  BY <1>1 DEF RunState
<1>4. skipped' \in [Runs -> SUBSET Advisors] /\ skipped'[p] = skipped[p] \cup {a}
      /\ \A q \in Runs \ {p} : skipped'[q] = skipped[q]
  BY DEF Skip, RunTypeOK
<1> HIDE DEF x, left
<1>5. /\ "advisor" \in Stages /\ {} \in SUBSET Clients
  BY DEF Stages
<1>6. new \in RunState
  BY <1>1, <1>3, <1>5, Zenon DEF RunState
<1>7. /\ new.at = "advisor" /\ new.advisors = left /\ new.reading = {}
      /\ new.found = {} /\ new.batch = x.batch /\ new.count = x.count
  BY <1>1 DEF RunState
<1>8. new.broken = b
  BY <1>1, Zenon DEF RunState
<1> HIDE DEF new
<1> QED
  BY <1>2, <1>4, <1>6, <1>7, <1>8, OneRun DEF x, left

\* QueryAdvisor reads the due clients of an advisor or leaves it out.
LEMMA QueryOK ==
  ASSUME RunTypeOK, NEW p \in Runs, QueryAdvisor(p)
  PROVE  RunTypeOK' /\ Others(p) /\ RunSteps(p)
<1>1. PICK a \in run[p].advisors :
        \/ /\ ~run[p].broken
           /\ LET due == {c \in clients : AdvisorOf[c] = a /\ Due(c)}
              IN run' = [run EXCEPT ![p].advisors = @ \ {a},
                                    ![p].at = IF due = {} THEN "advisor" ELSE "assemble",
                                    ![p].reading = due]
           /\ UNCHANGED skipped
        \/ (run[p].broken \/ "db" \in Faults) /\ Skip(p, a, TRUE)
  BY DEF QueryAdvisor
<1>2. /\ run[p].at = "advisor" /\ UNCHANGED <<tableVars, report, steady, removed, queued>>
      /\ run[p] \in RunState
  BY DEF QueryAdvisor, RunTypeOK
<1>3. a \in Advisors
  BY <1>1, <1>2 DEF RunState
<1>4. GoesOn(p)
  BY <1>2 DEF GoesOn
<1>5. CASE Skip(p, a, TRUE)
  <2>1. LeftOut(p, a)
    BY <1>1, <1>2, <1>3, <1>5, SkipOK DEF LeftOut
  <2> QED
    BY <1>2, <1>3, <1>4, <1>5, <2>1, SkipOK DEF RunTypeOK, Others, RunSteps, tableVars
<1>6. CASE ~Skip(p, a, TRUE)
  <2> DEFINE due == {c \in clients : AdvisorOf[c] = a /\ Due(c)}
             x == run[p]
             left == x.advisors \ {a}
             at == IF due = {} THEN "advisor" ELSE "assemble"
             new == [x EXCEPT !.advisors = left, !.at = at, !.reading = due]
  <2>1. run' = [run EXCEPT ![p] = new] /\ UNCHANGED skipped
    BY <1>1, <1>6
  <2>2. due \in SUBSET Clients /\ left \in SUBSET Advisors /\ at \in Stages
    BY <1>2 DEF RunState, RunTypeOK, Stages
  <2> HIDE DEF due, x, left, at
  <2>3. new \in RunState
    BY <1>2, <2>2, Zenon DEF RunState, x
  <2>4. /\ new.at = at /\ new.advisors = left /\ new.reading = due
        /\ new.found = x.found /\ new.batch = x.batch /\ new.count = x.count
    BY <1>2, <2>3 DEF RunState, x
  <2>5. new.broken = x.broken
    BY <1>2, Zenon DEF RunState, x
  <2> HIDE DEF new
  <2>6. run' \in [Runs -> RunState] /\ run'[p] = new
        /\ \A q \in Runs \ {p} : run'[q] = run[q]
    BY <2>1, <2>3, OneRun
  <2>7. Queried(p, a)
    BY <1>1, <1>2, <2>1, <2>4, <2>5, <2>6 DEF Queried, x, left, at, due
  <2> QED
    BY <1>2, <1>3, <1>4, <2>1, <2>6, <2>7 DEF RunTypeOK, Others, RunSteps, tableVars
<1> QED
  BY <1>5, <1>6

\* Assemble assembles a client or leaves its advisor out.
LEMMA AssembleOK ==
  ASSUME RunTypeOK, NEW p \in Runs, Assemble(p)
  PROVE  RunTypeOK' /\ Others(p) /\ RunSteps(p)
<1>1. PICK c \in run[p].reading :
       \/ /\ c \in clients
          /\ LET rest == run[p].reading \ {c}  found == run[p].found \cup {c}
             IN run' = [run EXCEPT
                          ![p].reading = rest,
                          ![p].found = IF rest = {} THEN {} ELSE found,
                          ![p].batch = IF rest = {} THEN @ \cup found ELSE @,
                          ![p].at = IF rest = {} THEN "advisor" ELSE "assemble"]
          /\ UNCHANGED skipped
       \/ c \notin clients /\ Skip(p, AdvisorOf[c], run[p].broken)
       \/ "db" \in Faults /\ Skip(p, AdvisorOf[c], TRUE)
  BY DEF Assemble
<1>2. /\ run[p].at = "assemble" /\ UNCHANGED <<tableVars, report, steady, removed, queued>>
      /\ run[p] \in RunState
  BY DEF Assemble, RunTypeOK
<1>3. c \in Clients /\ AdvisorOf[c] \in Advisors /\ run[p].broken \in BOOLEAN
  BY <1>1, <1>2, RunAssumption, Zenon DEF RunState
<1>4. GoesOn(p)
  BY <1>2 DEF GoesOn
<1>5. ASSUME NEW b \in BOOLEAN, Skip(p, AdvisorOf[c], b),
             run[p].broken => b, b \/ c \notin clients
      PROVE  RunTypeOK' /\ Others(p) /\ RunSteps(p)
  <2>0. run'[p].broken = b
    BY <1>3, <1>5, SkipOK
  <2>1. \E d \in run[p].reading :
          AdvisorOf[c] = AdvisorOf[d] /\ (run'[p].broken \/ d \notin clients)
    BY <1>1, <1>5, <2>0, Zenon
  <2>2. run[p].broken => run'[p].broken
    BY <1>5, <2>0, Zenon
  <2>3. LeftOut(p, AdvisorOf[c])
    BY <1>2, <1>3, <1>5, <2>1, <2>2, SkipOK DEF LeftOut
  <2> QED
    BY <1>2, <1>3, <1>4, <1>5, <2>3, SkipOK DEF RunTypeOK, Others, RunSteps, tableVars
<1>6. CASE ~ \E b \in BOOLEAN : /\ Skip(p, AdvisorOf[c], b)
                                /\ run[p].broken => b
                                /\ b \/ c \notin clients
  <2> DEFINE x == run[p]
             rest == x.reading \ {c}
             both == x.found \cup {c}
             found == IF rest = {} THEN {} ELSE both
             batch == IF rest = {} THEN x.batch \cup both ELSE x.batch
             at == IF rest = {} THEN "advisor" ELSE "assemble"
             new == [x EXCEPT !.reading = rest, !.found = found, !.batch = batch, !.at = at]
  <2>1. run' = [run EXCEPT ![p] = new] /\ UNCHANGED skipped
    BY <1>1, <1>3, <1>6
  <2>2. /\ rest \in SUBSET Clients /\ found \in SUBSET Clients /\ batch \in SUBSET Clients
        /\ at \in Stages
    BY <1>2, <1>3 DEF RunState, Stages
  <2> HIDE DEF x, rest, found, batch, at
  <2>3. new \in RunState
    BY <1>2, <2>2, Zenon DEF RunState, x
  <2>4. /\ new.at = at /\ new.advisors = x.advisors /\ new.reading = rest
        /\ new.found = found /\ new.batch = batch /\ new.count = x.count
    BY <1>2, <2>3 DEF RunState, x
  <2>5. new.broken = x.broken
    BY <1>2, Zenon DEF RunState, x
  <2> HIDE DEF new
  <2>6. run' \in [Runs -> RunState] /\ run'[p] = new
        /\ \A q \in Runs \ {p} : run'[q] = run[q]
    BY <2>1, <2>3, OneRun
  <2>7. Assembled(p, c)
    BY <1>1, <1>2, <2>1, <2>4, <2>5, <2>6 DEF Assembled, x, rest, found, batch, at
  <2> QED
    BY <1>2, <1>3, <1>4, <2>1, <2>6, <2>7 DEF RunTypeOK, Others, RunSteps, tableVars
<1> QED
  BY <1>5, <1>6

\* EndWalk changes the stage only.
LEMMA EndWalkOK ==
  ASSUME RunTypeOK, NEW p \in Runs, EndWalk(p)
  PROVE  RunTypeOK' /\ Others(p) /\ RunSteps(p)
<1> DEFINE x == run[p]
           new == [x EXCEPT !.at = "publish"]
<1>1. /\ x.at = "advisor" /\ x.advisors = {} /\ x \in RunState
      /\ run' = [run EXCEPT ![p] = new]
      /\ UNCHANGED <<tableVars, report, steady, removed, skipped, queued>>
  BY DEF EndWalk, RunTypeOK, runHistory
<1> HIDE DEF x
<1>2. new \in RunState
  BY <1>1, Zenon DEF RunState, Stages
<1>3. /\ new.at = "publish" /\ new.advisors = x.advisors /\ new.reading = x.reading
      /\ new.found = x.found /\ new.batch = x.batch /\ new.count = x.count
  BY <1>1 DEF RunState
<1>4. new.broken = x.broken
  BY <1>1, Zenon DEF RunState
<1> HIDE DEF new
<1>5. run' \in [Runs -> RunState] /\ run'[p] = new
      /\ \A q \in Runs \ {p} : run'[q] = run[q]
  BY <1>1, <1>2, OneRun
<1>6. Walked(p) /\ GoesOn(p)
  BY <1>1, <1>3, <1>4, <1>5 DEF Walked, GoesOn, x
<1> QED
  BY <1>1, <1>5, <1>6 DEF RunTypeOK, Others, RunSteps, tableVars

\* Sent moves a client from the batch to those queued.
LEMMA SentOK ==
  ASSUME RunTypeOK, NEW p \in Runs, NEW c \in run[p].batch, run[p].at = "publish",
         Sent(p, c)
  PROVE  RunTypeOK' /\ Others(p) /\ RunSteps(p)
<1> DEFINE x == run[p]
           left == x.batch \ {c}
           n == x.count + 1
           new == [x EXCEPT !.batch = left, !.count = n]
<1>1. /\ x.at = "publish" /\ x \in RunState /\ c \in x.batch
      /\ run' = [run EXCEPT ![p] = new]
      /\ UNCHANGED <<tableVars, report, steady, removed, skipped>>
  BY DEF Sent, RunTypeOK
<1>2. left \in SUBSET Clients /\ n \in Nat /\ c \in Clients
  BY <1>1 DEF RunState
<1>3. /\ queued' \in [Runs -> SUBSET Clients] /\ queued'[p] = queued[p] \cup {c}
      /\ \A q \in Runs \ {p} : queued'[q] = queued[q]
  BY <1>2 DEF Sent, RunTypeOK
<1> HIDE DEF x, left, n
<1>4. new \in RunState
  BY <1>1, <1>2, Zenon DEF RunState
<1>5. /\ new.at = x.at /\ new.advisors = x.advisors /\ new.reading = x.reading
      /\ new.found = x.found /\ new.batch = left /\ new.count = n
  BY <1>1 DEF RunState
<1>6. new.broken = x.broken
  BY <1>1, Zenon DEF RunState
<1> HIDE DEF new
<1>7. run' \in [Runs -> RunState] /\ run'[p] = new
      /\ \A q \in Runs \ {p} : run'[q] = run[q]
  BY <1>1, <1>4, OneRun
<1>8. Queued(p, c) /\ GoesOn(p)
  BY <1>1, <1>3, <1>5, <1>6, <1>7 DEF Queued, GoesOn, x, left, n
<1> QED
  BY <1>1, <1>2, <1>3, <1>7, <1>8 DEF RunTypeOK, Others, RunSteps, tableVars

---------------------------------------------------------------------------
(***************************************************************************)
(* What the steps of the whole do to the runs, and the types.              *)
(***************************************************************************)

\* A day passes, a review date moves, a client is deleted.
WorldTurns ==
  /\ UNCHANGED <<run, report, skipped, queued>>
  /\ steady' = [p \in Runs |-> {c \in steady[p] : Due(c)'}]
  /\ \A p \in Runs :
       IF run[p].at = "idle" THEN removed'[p] \in {{}, removed[p]}
       ELSE removed[p] \subseteq removed'[p] /\ clients \ clients' \subseteq removed'[p]

\* The process ends, and all its runs with it.
AllEnd ==
  /\ UNCHANGED tableVars
  /\ \A p \in Runs :
       /\ run'[p] = Idle
       /\ steady'[p] = {} /\ removed'[p] = {} /\ skipped'[p] = {} /\ queued'[p] = {}
       /\ run[p].at # "idle" => report'[p].status = "none"

\* The world leaves the runs alone, but for what they are said to have
\* seen.
LEMMA WorldOK ==
  ASSUME RunTypeOK, NextDay \/ SetReview \/ RemoveClient
  PROVE  RunTypeOK' /\ WorldTurns
<1>1. /\ steady' \in [Runs -> SUBSET Clients]
      /\ steady' = [p \in Runs |-> {c \in steady[p] : Due(c)'}]
  BY DEF NextDay, SetReview, RemoveClient, Watch, RunTypeOK
<1>2. CASE NextDay
  BY <1>1, <1>2, RunAssumption DEF NextDay, RunTypeOK, WorldTurns
<1>3. CASE SetReview
  BY <1>1, <1>3, RunAssumption DEF SetReview, RunTypeOK, WorldTurns
<1>4. CASE RemoveClient
  <2>1. PICK c \in clients :
          /\ clients' = clients \ {c}
          /\ removed' = [p \in Runs |-> IF run[p].at = "idle" THEN {} ELSE removed[p] \cup {c}]
    BY <1>4 DEF RemoveClient
  <2>2. removed' \in [Runs -> SUBSET Clients] /\ clients' \subseteq Clients
    BY <2>1 DEF RunTypeOK
  <2> QED
    BY <1>1, <1>4, <2>1, <2>2 DEF RemoveClient, RunTypeOK, WorldTurns
<1> QED
  BY <1>2, <1>3, <1>4

\* The end of the process ends every run.
LEMMA AllEndOK ==
  ASSUME RunTypeOK, RunsEnd
  PROVE  RunTypeOK' /\ AllEnd
<1>1. run' \in [Runs -> RunState] /\ \A p \in Runs : run'[p] = Idle
  BY IdleOK DEF RunsEnd
<1>2. /\ report' \in [Runs -> [status : {"none", "success", "error"}, count : Nat]]
      /\ \A p \in Runs : run[p].at # "idle" => report'[p].status = "none"
  BY DEF RunsEnd, RunTypeOK, NoReport
<1> QED
  BY <1>1, <1>2 DEF RunsEnd, RunTypeOK, AllEnd, tableVars

\* Each step of the whole is one of these to the runs.
LEMMA RunPart ==
  ASSUME RunTypeOK, [Next]_vars
  PROVE  /\ RunTypeOK'
         /\ \/ UNCHANGED runVars
            \/ WorldTurns
            \/ \E p \in Runs : RunSteps(p) /\ Others(p)
            \/ AllEnd
<1>1. CASE UNCHANGED runVars
  BY <1>1 DEF runVars, runHistory, tableVars, RunTypeOK, Due
<1>2. CASE StartUp \/ Take \/ EndHandling \/ UNCHANGED vars
  BY <1>1, <1>2 DEF StartUp, Take, EndHandling, vars
<1>3. CASE World
  BY <1>3, WorldOK DEF World
<1>4. CASE End
  BY <1>4, AllEndOK DEF End
<1>5. CASE Stop
  <2>1. CASE run[Job].at = "idle" /\ UNCHANGED <<run, report, runHistory>>
    BY <1>1, <1>5, <2>1 DEF Stop, runVars
  <2>2. CASE CancelRun(Job)
    BY <1>5, <2>2, ReportOK, HostAssumption DEF Stop, CancelRun, RunSteps
  <2> QED
    BY <1>5, <2>1, <2>2 DEF Stop
<1>6. ASSUME NEW p \in Runs, StartRun(p)
      PROVE  RunTypeOK' /\ RunSteps(p) /\ Others(p)
  BY <1>6, BeginOK DEF StartRun, RunSteps
<1>7. ASSUME NEW p \in Runs, Advance(p)
      PROVE  RunTypeOK' /\ RunSteps(p) /\ Others(p)
  <2>1. CASE QueryAdvisor(p) \/ Assemble(p) \/ EndWalk(p)
    BY <2>1, QueryOK, AssembleOK, EndWalkOK
  <2>2. CASE EndRun(p)
    <3>1. run[p].count \in Nat
      BY DEF RunTypeOK, RunState
    <3> QED
      BY <2>2, <3>1, ReportOK DEF EndRun, RunSteps
  <2>3. CASE PublishNext(p)
    BY <2>3, SentOK DEF PublishNext
  <2> QED
    BY <1>7, <2>1, <2>2, <2>3 DEF Advance, Walk
<1> QED
  BY <1>2, <1>3, <1>4, <1>5, <1>6, <1>7 DEF Next

\* The message in hand was taken, and the loop runs in a process that is up.
Typed ==
  /\ TypeOK
  /\ loop = "handling" => hand \in taken
  /\ loop # "none" => phase = "up"

\* A step of the whole keeps the types.
LEMMA HostTypes ==
  ASSUME Typed, [Next]_vars
  PROVE  Typed'
<1>0. RunTypeOK'
  BY RunPart DEF Typed, TypeOK
<1> DEFINE Queues == /\ published' \in Nat /\ items' \in Seq(1..published')
                     /\ taken' \subseteq 1..published' /\ acked' \subseteq taken'
           Process == /\ phase' \in {"down", "up", "stopping"}
                      /\ loop' \in {"none", "waiting", "handling"}
                      /\ hand' \in 0..published' /\ (hand' # NoMsg <=> loop' = "handling")
                      /\ handled' \subseteq taken' /\ born' \in 0..published'
                      /\ loop' = "handling" => hand' \in taken'
                      /\ loop' # "none" => phase' = "up"
<1> SUFFICES Queues /\ Process
  BY <1>0 DEF Typed, TypeOK, QueueTypeOK
<1> USE DEF Typed, TypeOK, QueueTypeOK, NoMsg
<1>1. CASE UNCHANGED <<queueVars, hostVars>>
  BY <1>1 DEF queueVars, hostVars
<1>2. CASE StartUp \/ Stop \/ \E p \in Runs : StartRun(p)
  <2>1. CASE StartUp
    BY <1>2, <2>1 DEF StartUp, queueVars
  <2>2. CASE Stop
    BY <1>2, <2>2 DEF Stop, queueVars
  <2>3. ASSUME NEW p \in Runs, StartRun(p)
        PROVE  Queues /\ Process
    BY <2>3 DEF StartRun, queueVars
  <2> QED
    BY <1>2, <2>1, <2>2, <2>3
<1>3. CASE End
  BY <1>3 DEF End, Vanish
<1>4. CASE EndHandling
  <2>1. hand \in taken /\ UNCHANGED <<published, items, taken>>
    BY <1>4 DEF EndHandling, Ack, queueVars
  <2>2. acked' \subseteq taken
    BY <1>4, <2>1 DEF EndHandling, Ack, queueVars
  <2> QED
    BY <1>4, <2>1, <2>2 DEF EndHandling
<1>5. CASE Take
  <2>1. Head(items) \in 1..published /\ Tail(items) \in Seq(1..published)
    BY <1>5 DEF Take, Consume
  <2>2. /\ taken' = taken \cup {Head(items)} /\ items' = Tail(items)
        /\ UNCHANGED <<published, acked, phase, handled, born>>
        /\ hand' = Head(items) /\ loop' = "handling" /\ loop = "waiting"
    BY <1>5 DEF Take, Consume
  <2> HIDE DEF TypeOK, QueueTypeOK
  <2>3. taken' \subseteq 1..published' /\ acked' \subseteq taken'
    BY <2>1, <2>2 DEF QueueTypeOK, TypeOK
  <2>4. Process
    BY <2>1, <2>2, <2>3 DEF QueueTypeOK, TypeOK
  <2> QED
    BY <2>1, <2>2, <2>3, <2>4 DEF QueueTypeOK, TypeOK
<1>6. ASSUME NEW p \in Runs, PublishNext(p)
      PROVE  Queues /\ Process
  <2>1. /\ published' = published + 1 /\ items' = Append(items, published + 1)
        /\ UNCHANGED <<taken, acked, phase, loop, hand, handled, born>>
    BY <1>6 DEF PublishNext, Publish, hostVars
  <2>2. 1..published \subseteq 1..(published + 1) /\ 0..published \subseteq 0..(published + 1)
    OBVIOUS
  <2>3. items \in Seq(1..(published + 1))
    BY <2>2
  <2>4. items' \in Seq(1..(published + 1))
    BY <2>1, <2>3
  <2> QED
    BY <2>1, <2>2, <2>4
<1> QED
  BY <1>1, <1>2, <1>3, <1>4, <1>5, <1>6
  DEF Next, vars, World, Advance, Walk

\* The runs, the queue and the process keep their types.
THEOREM HostTyped == Spec => []Typed
<1>1. Init => Typed
  <2> SUFFICES ASSUME Init PROVE Typed
    OBVIOUS
  <2>1. RunTypeOK
    <3>1. report \in [Runs -> [status : {"none", "success", "error"}, count : Nat]]
      BY DEF Init, RunInit, NoReport
    <3>2. run \in [Runs -> RunState]
      BY IdleOK DEF Init, RunInit
    <3> QED
      BY <3>1, <3>2, RunAssumption DEF Init, RunInit, RunTypeOK
  <2> QED
    BY <2>1 DEF Init, QueueInit, Typed, TypeOK, QueueTypeOK, NoMsg
<1> QED
  BY <1>1, HostTypes, PTL DEF Spec

\* Every variable of the host keeps its type.
THEOREM TypesHold == Spec => []TypeOK
BY HostTyped, PTL DEF Typed

---------------------------------------------------------------------------
(***************************************************************************)
(* Nothing is lost while the process is up.                                *)
(***************************************************************************)

\* Nothing published since the start of the process is lost as long as it is
\* up: get() hands its message to the loop, which ends its handling before the
\* next get().
THEOREM NothingLost == Spec => []NothingLostWhileUp
<1>1. Init => NothingLostWhileUp
  BY DEF Init, NothingLostWhileUp
<1>2. Typed /\ NothingLostWhileUp /\ [Next]_vars => NothingLostWhileUp'
  <2> SUFFICES ASSUME Typed, NothingLostWhileUp, [Next]_vars, phase' = "up",
                      NEW n \in ((born + 1)..published)'
               PROVE  n \in Range(items') \cup {hand'} \cup handled'
    BY DEF NothingLostWhileUp
  <2>0. items \in Seq(1..published) /\ published \in Nat /\ born \in Nat
    BY DEF Typed, TypeOK, QueueTypeOK
  <2>1. CASE UNCHANGED <<queueVars, hostVars>> \/ \E p \in Runs : StartRun(p)
    BY <2>1 DEF NothingLostWhileUp, queueVars, hostVars, StartRun
  <2>2. CASE StartUp
    BY <2>0, <2>2 DEF StartUp, queueVars
  <2>3. CASE Stop \/ End
    BY <2>3 DEF Stop, End
  <2>4. CASE EndHandling
    BY <2>4 DEF EndHandling, Ack, queueVars, NothingLostWhileUp
  <2>5. CASE Take
    <3>1. /\ items # <<>> /\ hand' = Head(items) /\ items' = Tail(items)
          /\ hand = NoMsg /\ phase = "up" /\ UNCHANGED <<published, born, handled>>
      BY <2>5 DEF Take, Consume, Typed, TypeOK
    <3>2. n \in Range(items) \cup handled
      BY <2>0, <3>1 DEF NothingLostWhileUp, NoMsg
    <3>3. n \in Range(items) => n = Head(items) \/ n \in Range(Tail(items))
      <4> SUFFICES ASSUME n \in Range(items), n # Head(items)
                   PROVE  n \in Range(Tail(items))
        OBVIOUS
      <4>1. PICK k \in 1..Len(items) : n = items[k]
        BY <2>0 DEF Range
      <4>2. k - 1 \in DOMAIN Tail(items) /\ Tail(items)[k - 1] = n
        BY <2>0, <3>1, <4>1
      <4> QED
        BY <4>2 DEF Range
    <3> QED
      BY <3>1, <3>2, <3>3
  <2>6. ASSUME NEW p \in Runs, PublishNext(p)
        PROVE  n \in Range(items') \cup {hand'} \cup handled'
    <3>1. /\ published' = published + 1 /\ items' = Append(items, published + 1)
          /\ phase = "up" /\ UNCHANGED <<hand, handled, born>>
      BY <2>6 DEF PublishNext, Publish, hostVars
    <3>2. Len(items) + 1 \in DOMAIN items' /\ items'[Len(items) + 1] = published + 1
      BY <2>0, <3>1
    <3>3. \A k \in DOMAIN items : k \in DOMAIN items' /\ items'[k] = items[k]
      BY <2>0, <3>1
    <3>4. CASE n = published + 1
      BY <3>2, <3>4 DEF Range
    <3>5. CASE n \in (born + 1)..published
      BY <3>1, <3>3, <3>5 DEF NothingLostWhileUp, Range
    <3> QED
      BY <2>0, <3>1, <3>4, <3>5
  <2> QED
    BY <2>1, <2>2, <2>3, <2>4, <2>5, <2>6 DEF Next, vars, World, Advance, Walk
<1> QED
  BY <1>1, <1>2, HostTyped, PTL DEF Spec

---------------------------------------------------------------------------
(***************************************************************************)
(* The in-memory queue implements MessageQueue.                            *)
(***************************************************************************)

\* What waits is in the order of its publication, and was never taken.
Ordered ==
  /\ \A i, j \in DOMAIN items : i < j => items[i] < items[j]
  /\ \A i \in DOMAIN items : items[i] \notin taken

QueueSteps ==
  \/ Publish \/ Consume \/ (hand \in taken /\ Ack(hand)) \/ Vanish \/ UNCHANGED queueVars

\* Each step of the whole is one of these to the queue.
LEMMA QueuePart ==
  ASSUME Typed, [Next]_vars
  PROVE  QueueSteps
<1>1. EndHandling => hand \in taken
  BY DEF EndHandling, Typed
<1> QED
  BY <1>1
  DEF Next, vars, StartUp, StartRun, Take, EndHandling, Stop, End, World, Advance,
      Walk, PublishNext, QueueSteps

\* The rest of the queue, position by position.
LEMMA TailIs ==
  ASSUME QueueTypeOK, Ordered, items # <<>>
  PROVE  /\ Head(items) = items[1] /\ 1 \in DOMAIN items
         /\ DOMAIN Tail(items) = 1..(Len(items) - 1)
         /\ \A i \in DOMAIN Tail(items) : i + 1 \in DOMAIN items /\ Tail(items)[i] = items[i + 1]
         /\ \A i \in DOMAIN items \ {1} : /\ i - 1 \in DOMAIN Tail(items)
                                          /\ Tail(items)[i - 1] = items[i]
BY DEF QueueTypeOK

\* The queue stays in the order of publication.
LEMMA OrderKept ==
  ASSUME QueueTypeOK, Ordered, QueueSteps
  PROVE  Ordered'
<1>0. items \in Seq(1..published) /\ published \in Nat /\ taken \subseteq 1..published
  BY DEF QueueTypeOK
<1>1. CASE Publish
  <2>1. /\ DOMAIN items' = 1..(Len(items) + 1) /\ UNCHANGED taken
        /\ \A i \in DOMAIN items : items'[i] = items[i]
        /\ items'[Len(items) + 1] = published + 1
        /\ DOMAIN items = 1..Len(items) /\ Len(items) \in Nat
    BY <1>0, <1>1 DEF Publish
  <2>2. \A i \in DOMAIN items : items[i] \in 1..published
    BY <1>0
  <2>3. \A i \in DOMAIN items' : i \in DOMAIN items \/ i = Len(items) + 1
    BY <2>1
  <2>4. \A i \in DOMAIN items' : items'[i] \notin taken'
    BY <1>0, <2>1, <2>3 DEF Ordered
  <2>5. ASSUME NEW i \in DOMAIN items', NEW j \in DOMAIN items', i < j
        PROVE  items'[i] < items'[j]
    <3>1. i \in DOMAIN items
      BY <2>1, <2>5
    <3>2. CASE j \in DOMAIN items
      BY <2>1, <2>5, <3>1, <3>2 DEF Ordered
    <3>3. CASE j = Len(items) + 1
      <4>1. items'[i] \in 1..published /\ items'[j] = published + 1
        BY <2>1, <2>2, <3>1, <3>3
      <4> QED
        BY <1>0, <4>1
    <3> QED
      BY <2>3, <3>2, <3>3
  <2> QED
    BY <2>4, <2>5 DEF Ordered
<1>2. CASE Consume
  <2>1. /\ items' = Tail(items) /\ taken' = taken \cup {items[1]} /\ items # <<>>
    BY <1>0, <1>2 DEF Consume
  <2>2. /\ DOMAIN items' = 1..(Len(items) - 1) /\ Len(items) \in Nat
        /\ \A i \in DOMAIN items' : i + 1 \in DOMAIN items /\ items'[i] = items[i + 1]
        /\ 1 \in DOMAIN items
    BY <1>0, <2>1, TailIs
  <2>3. \A i \in DOMAIN items' : items[i + 1] \in Nat /\ items[1] < items[i + 1]
    BY <1>0, <2>2 DEF Ordered
  <2>4. \A i \in DOMAIN items' : items'[i] \notin taken'
    <3> SUFFICES ASSUME NEW i \in DOMAIN items'
                 PROVE  items[i + 1] \notin taken \cup {items[1]}
      BY <2>1, <2>2
    <3>1. items[i + 1] \notin taken
      BY <2>2 DEF Ordered
    <3>2. items[i + 1] # items[1]
      BY <1>0, <2>2, <2>3
    <3> QED
      BY <3>1, <3>2
  <2>5. \A i, j \in DOMAIN items' : i < j => items'[i] < items'[j]
    BY <2>2 DEF Ordered
  <2> QED
    BY <2>4, <2>5 DEF Ordered
<1>3. CASE Ack(hand) \/ UNCHANGED queueVars
  BY <1>3 DEF Ack, queueVars, Ordered
<1>4. CASE Vanish
  BY <1>4 DEF Vanish, Ordered
<1> QED
  BY <1>1, <1>2, <1>3, <1>4 DEF QueueSteps

Fate == [n \in 1..published |-> StateOf(n)]

\* A message is in one of four states.
Told ==
  \A n \in 1..published :
    /\ n \in acked => StateOf(n) = "acked"
    /\ n \in taken \ acked => StateOf(n) = "out"
    /\ n \in Range(items) => n \notin taken /\ StateOf(n) = "waiting"
    /\ n \notin taken \cup Range(items) => StateOf(n) = "lost"

\* An ordered queue tells these states apart.
LEMMA StatesTold ==
  ASSUME QueueTypeOK, Ordered
  PROVE  Told
<1> SUFFICES ASSUME NEW n \in 1..published
             PROVE  /\ n \in acked => StateOf(n) = "acked"
                    /\ n \in taken \ acked => StateOf(n) = "out"
                    /\ n \in Range(items) => n \notin taken /\ StateOf(n) = "waiting"
                    /\ n \notin taken \cup Range(items) => StateOf(n) = "lost"
  BY DEF Told
<1>1. n \in acked => n \in taken
  BY DEF QueueTypeOK
<1>2. n \in Range(items) => n \notin taken
  BY DEF Range, Ordered
<1> QED
  BY <1>1, <1>2 DEF StateOf

\* Each operation of the queue is an operation of MessageQueue or a
\* stutter.
LEMMA QueueMaps ==
  ASSUME QueueTypeOK, Ordered, Told, Told', QueueSteps
  PROVE  [Queue!MessagesNext]_Fate
<1>0. /\ items \in Seq(1..published) /\ published \in Nat /\ taken \subseteq 1..published
      /\ acked \subseteq taken
  BY DEF QueueTypeOK
<1>f. /\ \A n \in 1..published : StateOf(n) \in {"waiting", "out", "acked", "lost"}
  BY <1>0 DEF Told
<1>1. CASE Publish
  <2>1. /\ published' = published + 1 /\ UNCHANGED <<taken, acked>>
        /\ DOMAIN items' = 1..(Len(items) + 1) /\ Len(items) \in Nat
        /\ DOMAIN items = 1..Len(items)
        /\ \A i \in DOMAIN items : items'[i] = items[i] /\ items[i] \in 1..published
        /\ items'[Len(items) + 1] = published + 1
    BY <1>0, <1>1 DEF Publish
  <2>2. Range(items') = Range(items) \cup {published + 1}
    BY <2>1 DEF Range
  <2>3. \A n \in 1..published : StateOf(n)' = StateOf(n)
    <3> SUFFICES ASSUME NEW n \in 1..published
                 PROVE  StateOf(n)' = StateOf(n)
      OBVIOUS
    <3>1. n \in 1..published' /\ (n \in Range(items') <=> n \in Range(items))
      BY <1>0, <2>1, <2>2
    <3> QED
      BY <1>0, <2>1, <3>1 DEF Told
  <2>4. \A n : n = published + 1 => StateOf(n)' = "waiting"
    BY <1>0, <2>1, <2>2 DEF Told
  <2> DEFINE added == Append(Fate, "waiting")
  <2>5. Fate \in Seq({"waiting", "out", "acked", "lost"}) /\ Len(Fate) = published
    BY <1>0, <1>f DEF Fate
  <2>6. /\ added \in Seq({"waiting", "out", "acked", "lost"}) /\ Len(added) = published + 1
        /\ \A n \in 1..published : added[n] = Fate[n]
        /\ added[published + 1] = "waiting"
    BY <1>0, <2>5
  <2> HIDE DEF added
  <2>7. added = [n \in 1..(published + 1) |-> added[n]]
    BY <1>0, <2>6
  <2>8. \A n \in 1..(published + 1) : added[n] = StateOf(n)'
    BY <1>0, <2>3, <2>4, <2>6 DEF Fate
  <2>9. Fate' = added
    BY <2>1, <2>7, <2>8 DEF Fate
  <2> QED
    BY <2>9 DEF Queue!Enqueue, Queue!MessagesNext, Fate, added
<1>2. CASE Consume
  <2> DEFINE n == items[1]
  <2>1. /\ items' = Tail(items) /\ taken' = taken \cup {n} /\ items # <<>>
        /\ UNCHANGED <<published, acked>>
    BY <1>0, <1>2 DEF Consume
  <2>2. /\ 1 \in DOMAIN items /\ n \in 1..published /\ DOMAIN items = 1..Len(items)
        /\ \A i \in DOMAIN items' : i + 1 \in DOMAIN items /\ items'[i] = items[i + 1]
        /\ \A i \in DOMAIN items \ {1} : i - 1 \in DOMAIN items' /\ items'[i - 1] = items[i]
        /\ \A i \in DOMAIN items : items[i] \in Nat
    BY <1>0, <2>1, TailIs
  <2>3. \A i \in DOMAIN items \ {1} : n < items[i]
    BY <2>2 DEF Ordered
  <2>4. n \in Range(items) /\ \A k \in Range(items) \ {n} : n < k
    BY <2>2, <2>3 DEF Range
  <2>5. Range(items') = Range(items) \ {n}
    <3>1. \A i \in DOMAIN items' : items'[i] \in Range(items) /\ items'[i] # n
      <4> SUFFICES ASSUME NEW i \in DOMAIN items'
                   PROVE  items[i + 1] \in Range(items) /\ n < items[i + 1]
        BY <2>2
      <4>1. i + 1 \in DOMAIN items \ {1}
        BY <1>0, <2>1, <2>2, TailIs
      <4> QED
        BY <2>3, <4>1 DEF Range
    <3>2. \A k \in Range(items) \ {n} : k \in Range(items')
      BY <2>2 DEF Range
    <3> QED
      BY <3>1, <3>2 DEF Range
  <2> HIDE DEF n
  <2>6. \A k \in 1..published : StateOf(k)' = IF k = n THEN "out" ELSE StateOf(k)
    BY <1>0, <2>1, <2>4, <2>5 DEF Told
  <2>7. Fate' = [Fate EXCEPT ![n] = "out"]
    BY <2>1, <2>6 DEF Fate
  <2>8. Fate[n] = "waiting" /\ \A k \in 1..(n - 1) : Fate[k] # "waiting"
    <3> SUFFICES ASSUME NEW k \in 1..(n - 1)
                 PROVE  Fate[n] = "waiting" /\ Fate[k] # "waiting"
      BY <2>2, <2>4 DEF Fate, Told
    <3>1. k \in 1..published /\ ~(n < k) /\ k # n
      BY <1>0, <2>2
    <3>2. k \notin Range(items)
      BY <2>4, <3>1
    <3>3. StateOf(k) # "waiting"
      BY <1>0, <3>1, <3>2 DEF Told
    <3> QED
      BY <2>2, <2>4, <3>1, <3>3 DEF Fate, Told
  <2>9. Queue!Yield
    BY <2>2, <2>7, <2>8 DEF Queue!Yield, Fate
  <2> QED
    BY <2>9 DEF Queue!MessagesNext, Fate
<1>3. CASE hand \in taken /\ Ack(hand)
  <2>1. /\ acked' = acked \cup {hand} /\ UNCHANGED <<items, published, taken>>
        /\ hand \in 1..published
    BY <1>0, <1>3 DEF Ack
  <2>2. \A k \in 1..published : StateOf(k)' = IF k = hand THEN "acked" ELSE StateOf(k)
    BY <1>0, <2>1 DEF Told
  <2>3. Fate' = [Fate EXCEPT ![hand] = "acked"]
    BY <2>1, <2>2 DEF Fate
  <2>4. CASE hand \in acked
    <3>1. Fate[hand] = "acked"
      BY <2>1, <2>4 DEF Fate, Told
    <3> QED
      BY <2>1, <2>3, <3>1 DEF Fate
  <2>5. CASE hand \notin acked
    <3>1. Fate[hand] = "out"
      BY <1>3, <2>1, <2>5 DEF Fate, Told
    <3>2. Queue!Acknowledge
      BY <2>1, <2>3, <3>1 DEF Queue!Acknowledge, Fate
    <3> QED
      BY <3>2 DEF Queue!MessagesNext, Fate
  <2> QED
    BY <2>4, <2>5
<1>4. CASE Vanish
  <2>1. Range(items') = {} /\ UNCHANGED <<published, taken, acked>>
    BY <1>4 DEF Vanish, Range
  <2>2. \A k \in 1..published :
          StateOf(k)' = IF StateOf(k) = "waiting" THEN "lost" ELSE StateOf(k)
    BY <1>0, <2>1 DEF Told
  <2>3. Queue!Forget
    BY <2>1, <2>2 DEF Queue!Forget, Fate
  <2> QED
    BY <2>3 DEF Queue!MessagesNext, Fate
<1>5. CASE UNCHANGED queueVars
  <2>1. \A k \in 1..published : StateOf(k)' = StateOf(k)
    BY <1>0, <1>5 DEF queueVars, Told
  <2> QED
    BY <1>5, <2>1 DEF queueVars, Fate
<1> QED
  BY <1>1, <1>2, <1>3, <1>4, <1>5 DEF QueueSteps

\* First in, first out, nothing twice, and what the end of the process makes of
\* the messages that wait is final.
THEOREM QueueRefined == Spec => ImplementsMessageQueue
<1>1. Init => Queue!MessagesInit /\ Ordered
  BY DEF Init, QueueInit, Queue!MessagesInit, Ordered
<1>2. Typed /\ Ordered /\ [Next]_vars => Ordered'
  BY QueuePart, OrderKept DEF Typed, TypeOK
<1>3. Typed /\ Ordered => Told
  BY StatesTold DEF Typed, TypeOK
<1>4. Typed /\ Ordered /\ Told /\ Told' /\ [Next]_vars => [Queue!MessagesNext]_Fate
  BY QueuePart, QueueMaps DEF Typed, TypeOK
<1> QED
  BY <1>1, <1>2, <1>3, <1>4, HostTyped, PTL DEF Spec, ImplementsMessageQueue, Queue!MessagesSpec, Fate

---------------------------------------------------------------------------
(***************************************************************************)
(* What a run finds, leaves out and reports.                               *)
(***************************************************************************)

\* What is in a run at each stage.
Fits(p) ==
  /\ run[p].at = "idle" =>
       steady[p] = {} /\ removed[p] = {} /\ skipped[p] = {} /\ queued[p] = {}
  /\ run[p].at # "idle" => report[p].status = "none"
  /\ run[p].at # "assemble" => run[p].reading = {} /\ run[p].found = {}
  /\ run[p].at = "publish" => run[p].advisors = {}

\* A client that is being read exists or was deleted meanwhile; so an advisor
\* is left out only for a deleted client, or after a database error.
Contained(p) ==
  /\ run[p].reading \subseteq clients \cup removed[p]
  /\ run[p].broken \/ \A a \in skipped[p] : \E c \in removed[p] : AdvisorOf[c] = a

\* A client due all the time is of an advisor still to come or left out, or is
\* in the run; what is not in the batch yet is of one advisor.
Covered(p) ==
  /\ \A c, d \in run[p].reading \cup run[p].found : AdvisorOf[c] = AdvisorOf[d]
  /\ \A c \in steady[p] :
       /\ Due(c)
       /\ \/ AdvisorOf[c] \in run[p].advisors \cup skipped[p]
          \/ c \in run[p].reading \cup run[p].found \cup run[p].batch \cup queued[p]

\* The count is that of the clients a message was published for.
Counted(p) ==
  /\ run[p].at # "publish" => queued[p] = {}
  /\ run[p].batch \cap queued[p] = {}
  /\ IsFiniteSet(queued[p]) /\ run[p].count = Cardinality(queued[p])

RunInv == \A p \in Runs : Fits(p) /\ Contained(p) /\ Covered(p) /\ Counted(p)

\* A step of a run keeps each of the four parts.
LEMMA FitsStep ==
  ASSUME NEW p \in Runs, Fits(p), RunSteps(p)
  PROVE  Fits(p)'
BY IdleOK
DEF Fits, RunSteps, Begun, Ended, GoesOn, Queried, LeftOut, Assembled, Walked, Queued

\* The second part: c is deleted when it is not found.
LEMMA ContainedStep ==
  ASSUME NEW p \in Runs, Fits(p), Contained(p), RunSteps(p), UNCHANGED tableVars
  PROVE  Contained(p)'
<1>0. clients' = clients
  BY DEF tableVars
<1>1. CASE Begun(p)
  <2>1. skipped'[p] = {} /\ run'[p].reading = {}
    BY <1>1 DEF Begun, Fits
  <2> QED
    BY <2>1 DEF Contained
<1>2. CASE Ended(p)
  <2>1. skipped'[p] = {} /\ run'[p].reading = {}
    BY <1>2, IdleOK DEF Ended
  <2> QED
    BY <2>1 DEF Contained
<1>3. ASSUME NEW a, GoesOn(p), Queried(p, a)
      PROVE  Contained(p)'
  BY <1>0, <1>3 DEF Contained, GoesOn, Queried
<1>4. ASSUME NEW a, GoesOn(p), LeftOut(p, a)
      PROVE  Contained(p)'
  <2>1. run'[p].reading = {} /\ removed'[p] = removed[p] /\ skipped'[p] = skipped[p] \cup {a}
    BY <1>4 DEF LeftOut, GoesOn
  <2>2. run'[p].broken \/ \E c \in removed[p] : AdvisorOf[c] = a
    BY <1>4 DEF LeftOut, Contained
  <2>3. run[p].broken => run'[p].broken
    BY <1>4 DEF LeftOut
  <2> QED
    BY <2>1, <2>2, <2>3 DEF Contained
<1>5. ASSUME NEW c, GoesOn(p), Assembled(p, c) \/ Queued(p, c)
      PROVE  Contained(p)'
  BY <1>0, <1>5 DEF Contained, GoesOn, Assembled, Queued
<1>6. CASE GoesOn(p) /\ Walked(p)
  BY <1>0, <1>6 DEF Contained, GoesOn, Walked
<1> QED
  BY <1>1, <1>2, <1>3, <1>4, <1>5, <1>6 DEF RunSteps

\* The third part.
LEMMA CoveredStep ==
  ASSUME RunTypeOK, NEW p \in Runs, Fits(p), Covered(p), RunSteps(p), UNCHANGED tableVars
  PROVE  Covered(p)'
<1>0. /\ clients' = clients /\ \A c : Due(c)' = Due(c)
      /\ clients \subseteq Clients
      /\ \A c \in Clients : AdvisorOf[c] \in Advisors
  BY RunAssumption DEF tableVars, Due, RunTypeOK
<1>1. CASE Begun(p)
  BY <1>0, <1>1 DEF Begun, Covered
<1>2. CASE Ended(p)
  BY <1>2, IdleOK DEF Ended, Covered
<1>3. ASSUME NEW a, GoesOn(p), Queried(p, a)
      PROVE  Covered(p)'
  <2>1. run[p].reading = {} /\ run[p].found = {}
    BY <1>3 DEF Queried, Fits
  <2>2. \A c \in steady[p] : c \in clients /\ Due(c)
    BY DEF Covered, Due
  <2> QED
    BY <1>0, <1>3, <2>1, <2>2 DEF GoesOn, Queried, Covered
<1>4. ASSUME NEW a, GoesOn(p), LeftOut(p, a)
      PROVE  Covered(p)'
  <2>1. \A c \in run[p].reading \cup run[p].found : AdvisorOf[c] = a
    BY <1>4 DEF LeftOut, Covered, Fits
  <2>2. /\ steady'[p] = steady[p] /\ skipped'[p] = skipped[p] \cup {a}
        /\ run'[p].advisors = run[p].advisors \ {a}
        /\ run'[p].reading = {} /\ run'[p].found = {}
        /\ run'[p].batch = run[p].batch /\ queued'[p] = queued[p]
    BY <1>4 DEF LeftOut, GoesOn
  <2> QED
    BY <1>0, <2>1, <2>2 DEF Covered
<1>5. ASSUME NEW c, GoesOn(p), Assembled(p, c)
      PROVE  Covered(p)'
  <2>1. /\ steady'[p] = steady[p] /\ skipped'[p] = skipped[p] /\ queued'[p] = queued[p]
        /\ run'[p].advisors = run[p].advisors
        /\ run'[p].reading \cup run'[p].found \subseteq run[p].reading \cup run[p].found
        /\ run[p].reading \cup run[p].found \cup run[p].batch
             \subseteq run'[p].reading \cup run'[p].found \cup run'[p].batch
    BY <1>5 DEF Assembled, GoesOn
  <2> QED
    BY <1>0, <2>1 DEF Covered
<1>6. ASSUME NEW c, GoesOn(p), Queued(p, c)
      PROVE  Covered(p)'
  BY <1>0, <1>6 DEF GoesOn, Queued, Covered
<1>7. CASE GoesOn(p) /\ Walked(p)
  BY <1>0, <1>7 DEF GoesOn, Walked, Covered
<1> QED
  BY <1>1, <1>2, <1>3, <1>4, <1>5, <1>6, <1>7 DEF RunSteps

\* The fourth part.
LEMMA CountedStep ==
  ASSUME NEW p \in Runs, Fits(p), Counted(p), RunSteps(p)
  PROVE  Counted(p)'
<1>0. IsFiniteSet({}) /\ Cardinality({}) = 0
  BY FS_EmptySet
<1>1. CASE Begun(p) \/ Ended(p)
  <2>1. queued'[p] = {} /\ run'[p].count = 0
    BY <1>1, IdleOK DEF Begun, Ended, Fits
  <2> QED
    BY <1>0, <2>1 DEF Counted
<1>2. ASSUME NEW c, GoesOn(p), Queued(p, c)
      PROVE  Counted(p)'
  <2>1. c \notin queued[p] /\ IsFiniteSet(queued[p]) /\ run[p].count = Cardinality(queued[p])
    BY <1>2 DEF Queued, Counted
  <2>2. IsFiniteSet(queued[p] \cup {c})
        /\ Cardinality(queued[p] \cup {c}) = Cardinality(queued[p]) + 1
    BY <2>1, FS_AddElement
  <2> QED
    BY <1>2, <2>1, <2>2 DEF Queued, Counted
<1>3. ASSUME queued'[p] = queued[p], run'[p].count = run[p].count, run[p].at # "publish"
      PROVE  Counted(p)'
  BY <1>3 DEF Counted
<1>4. ASSUME NEW a, GoesOn(p), Queried(p, a) \/ LeftOut(p, a)
      PROVE  Counted(p)'
  BY <1>3, <1>4 DEF Queried, LeftOut
<1>5. ASSUME NEW c, GoesOn(p), Assembled(p, c)
      PROVE  Counted(p)'
  BY <1>3, <1>5 DEF Assembled
<1>6. CASE GoesOn(p) /\ Walked(p)
  BY <1>3, <1>6 DEF Walked
<1> QED
  BY <1>1, <1>2, <1>4, <1>5, <1>6 DEF RunSteps

\* So does every step of the whole.
LEMMA RunInvStep ==
  ASSUME RunTypeOK, RunInv, [Next]_vars
  PROVE  RunInv'
<1> DEFINE OK(p) == Fits(p) /\ Contained(p) /\ Covered(p) /\ Counted(p)
<1> SUFFICES ASSUME NEW p \in Runs
             PROVE  OK(p)'
  BY DEF RunInv
<1>0. OK(p)
  BY DEF RunInv
<1>1. ASSUME UNCHANGED <<tableVars, run[p], report[p], steady[p], removed[p],
                         skipped[p], queued[p]>>
      PROVE  OK(p)'
  BY <1>0, <1>1 DEF Fits, Contained, Covered, Counted, tableVars, Due
<1>2. CASE UNCHANGED runVars
  BY <1>1, <1>2 DEF runVars, runHistory
<1>3. CASE WorldTurns
  <2>1. /\ run'[p] = run[p] /\ report'[p] = report[p] /\ skipped'[p] = skipped[p]
        /\ queued'[p] = queued[p]
        /\ steady'[p] = {c \in steady[p] : Due(c)'}
    BY <1>3 DEF WorldTurns
  <2>2. CASE run[p].at = "idle"
    <3>1. /\ run[p].reading = {} /\ skipped[p] = {} /\ steady[p] = {} /\ removed'[p] = {}
      BY <1>0, <1>3, <2>2 DEF Fits, WorldTurns
    <3> QED
      BY <1>0, <2>1, <2>2, <3>1 DEF Fits, Contained, Covered, Counted
  <2>3. CASE run[p].at # "idle"
    <3>1. removed[p] \subseteq removed'[p] /\ clients \ clients' \subseteq removed'[p]
      BY <1>3, <2>3 DEF WorldTurns
    <3>2. Fits(p)' /\ Counted(p)'
      BY <1>0, <2>1, <2>3 DEF Fits, Counted
    <3>3. Contained(p)'
      BY <1>0, <2>1, <3>1 DEF Contained
    <3>4. Covered(p)'
      BY <1>0, <2>1 DEF Covered
    <3> QED
      BY <3>2, <3>3, <3>4
  <2> QED
    BY <2>2, <2>3
<1>4. CASE AllEnd
  <2>1. /\ run'[p] = Idle /\ steady'[p] = {} /\ removed'[p] = {} /\ skipped'[p] = {}
        /\ queued'[p] = {}
    BY <1>4 DEF AllEnd
  <2> QED
    BY <2>1, IdleOK, FS_EmptySet DEF Fits, Contained, Covered, Counted
<1>5. ASSUME NEW q \in Runs, RunSteps(q), Others(q)
      PROVE  OK(p)'
  <2>1. CASE q = p
    BY <1>0, <1>5, <2>1, FitsStep, ContainedStep, CoveredStep, CountedStep DEF Others
  <2>2. CASE q # p
    BY <1>1, <1>5, <2>2 DEF Others
  <2> QED
    BY <2>1, <2>2
<1> QED
  BY <1>2, <1>3, <1>4, <1>5, RunPart

\* The inductive invariant of the runs holds in every reachable state.
THEOREM RunInvHolds == Spec => []RunInv
<1>1. Init => RunInv
  BY IdleOK, FS_EmptySet
  DEF Init, RunInit, RunInv, Fits, Contained, Covered, Counted
<1>2. Typed /\ RunInv /\ [Next]_vars => RunInv'
  BY RunInvStep DEF Typed, TypeOK
<1> QED
  BY <1>1, <1>2, HostTyped, PTL DEF Spec

\* The failure of an advisor in the walk is contained: only an advisor one of
\* whose clients was deleted is left out, unless the database failed.
THEOREM FailureContained == Spec => []OnlyOwnClientsSkipAdvisor
<1>1. RunInv => OnlyOwnClientsSkipAdvisor
  BY DEF RunInv, Contained, OnlyOwnClientsSkipAdvisor
<1> QED
  BY <1>1, RunInvHolds, PTL

\* A run that reports success has served every client that was due all the
\* time, once, or has left out its advisor.
THEOREM SuccessCovers == Spec => SuccessCoversDueClients
<1> DEFINE Covers(p) ==
             run[p].at # "idle" /\ report'[p].status = "success" =>
               /\ \A c \in steady[p] : AdvisorOf[c] \in skipped[p] \/ c \in queued[p]
               /\ report'[p].count = Cardinality(queued[p])
<1>1. Typed /\ RunInv /\ [Next]_vars => \A p \in Runs : Covers(p)
  <2> SUFFICES ASSUME Typed, RunInv, [Next]_vars, NEW p \in Runs, run[p].at # "idle"
               PROVE  Covers(p)
    OBVIOUS
  <2>0. /\ Fits(p) /\ Covered(p) /\ Counted(p) /\ report[p].status = "none"
    BY DEF RunInv, Fits
  <2>1. CASE report'[p] = report[p] \/ report'[p].status \in {"none", "error"}
    BY <2>0, <2>1
  <2>2. CASE Ended(p)
    <3>1. CASE report'[p].status = "error"
      BY <3>1
    <3>2. CASE /\ run[p].at = "publish" /\ run[p].batch = {}
               /\ report'[p].count = run[p].count
      BY <2>0, <3>2 DEF Fits, Covered, Counted
    <3> QED
      BY <2>2, <3>1, <3>2 DEF Ended
  <2>3. UNCHANGED runVars \/ WorldTurns \/ AllEnd
          \/ (\E q \in Runs : RunSteps(q) /\ Others(q))
    BY RunPart DEF Typed, TypeOK
  <2>4. CASE UNCHANGED runVars \/ WorldTurns \/ AllEnd
    BY <2>1, <2>4 DEF runVars, WorldTurns, AllEnd
  <2>5. ASSUME NEW q \in Runs, RunSteps(q), Others(q)
        PROVE  Covers(p)
    <3>1. CASE q = p
      BY <2>1, <2>2, <2>5, <3>1 DEF RunSteps, Begun, GoesOn
    <3>2. CASE q # p
      BY <2>1, <2>5, <3>2 DEF Others
    <3> QED
      BY <3>1, <3>2
  <2> QED
    BY <2>3, <2>4, <2>5
<1>2. Typed /\ RunInv /\ [Next]_vars =>
        [\A p \in Runs :
           run[p].at # "idle" /\ report'[p].status = "success" =>
             /\ \A c \in steady[p] : AdvisorOf[c] \in skipped[p] \/ c \in queued[p]
             /\ report'[p].count = Cardinality(queued[p])]_vars
  BY <1>1
<1> QED
  BY <1>2, HostTyped, RunInvHolds, PTL DEF Spec, SuccessCoversDueClients

---------------------------------------------------------------------------
(***************************************************************************)
(* Liveness.  Two things are hypotheses: that the loop can go on, a state  *)
(* predicate that TLC evaluates, because the provers cannot look into      *)
(* ENABLED; and the induction over the places of the queue, which is true  *)
(* of any predicate of a number but cannot be instantiated with a temporal *)
(* formula.                                                                *)
(***************************************************************************)
CanGoOn ==
  /\ loop = "waiting" /\ items # <<>> => ENABLED <<Take>>_vars
  /\ loop = "handling" => ENABLED <<EndHandling>>_vars

\* Message n is one of the first k that wait.
Within(n, k) == \E i \in DOMAIN items : i <= k /\ items[i] = n

EndsFrom(n, k) == Within(n, k) ~> n \in handled \/ phase # "up"

InductionOnPlaces ==
  \A n \in Nat :
    /\ EndsFrom(n, 0)
    /\ \A k \in Nat : EndsFrom(n, k) => EndsFrom(n, k + 1)
    => \A k \in Nat : EndsFrom(n, k)

\* The loop lives as long as the process does: neither a handling nor a get()
\* of the queue ends it.
LoopLives == phase = "up" => loop # "none"

\* What a step may do to the queue and the loop in a process that stays up.
LEMMA LoopSteps ==
  ASSUME Typed, [Next]_vars, phase = "up", phase' = "up"
  PROVE  \/ Take
         \/ EndHandling /\ UNCHANGED items
         \/ /\ UNCHANGED <<loop, hand, handled>>
            /\ items' = items \/ items' = Append(items, published + 1)
<1>1. CASE UNCHANGED vars \/ World
  BY <1>1 DEF vars, queueVars, hostVars, World
<1>2. ASSUME NEW p \in Runs, StartRun(p) \/ Walk(p) \/ PublishNext(p)
      PROVE  /\ UNCHANGED <<loop, hand, handled>>
             /\ items' = items \/ items' = Append(items, published + 1)
  BY <1>2 DEF StartRun, Walk, PublishNext, Publish, queueVars, hostVars
<1>3. EndHandling => UNCHANGED items
  BY DEF EndHandling, Ack, queueVars
<1>4. ~StartUp /\ ~Stop /\ ~End
  BY DEF StartUp, Stop, End
<1> QED
  BY <1>1, <1>2, <1>3, <1>4 DEF Next, Advance

\* The loop of a process that is up never ends by itself.
THEOREM LoopSurvives == Spec => []LoopLives
<1>1. Init => LoopLives
  BY DEF Init, LoopLives
<1>2. Typed /\ LoopLives /\ [Next]_vars => LoopLives'
  <2> SUFFICES ASSUME Typed, LoopLives, [Next]_vars, phase' = "up"
               PROVE  loop' # "none"
    BY DEF LoopLives
  <2>1. CASE phase = "up"
    BY <2>1, LoopSteps DEF LoopLives, Take, EndHandling
  <2>2. CASE phase # "up"
    <3>1. UNCHANGED phase \/ StartUp \/ Stop \/ End
      BY DEF Next, vars, hostVars, World, Advance, StartRun, Walk, PublishNext,
             Take, EndHandling
    <3> QED
      BY <2>2, <3>1 DEF StartUp, Stop, End
  <2> QED
    BY <2>1, <2>2
<1> QED
  BY <1>1, <1>2, HostTyped, PTL DEF Spec

\* A message among the first k + 1 is handled if one among the first k is: the
\* loop ends the handling it is in, and takes the oldest message.
LEMMA OnePlaceLess ==
  ASSUME NEW n \in Nat, NEW k \in Nat
  PROVE  FairSpec /\ []CanGoOn => (EndsFrom(n, k) => EndsFrom(n, k + 1))
<1> DEFINE Goal == n \in handled \/ phase # "up"
           Here == Within(n, k + 1)
           Less == Within(n, k)
           InHand == phase = "up" /\ loop = "handling" /\ hand = n
           Waits == phase = "up" /\ loop = "waiting" /\ Here
           Busy == phase = "up" /\ loop = "handling" /\ Here
<1>1. ASSUME Typed, [Next]_vars, Here, phase = "up", phase' = "up", ~Take
      PROVE  Here'
  <2>1. items \in Seq(1..published)
    BY <1>1 DEF Typed, TypeOK, QueueTypeOK
  <2>2. items' = items \/ items' = Append(items, published + 1)
    BY <1>1, LoopSteps
  <2>3. \A i \in DOMAIN items : i \in DOMAIN items' /\ items'[i] = items[i]
    BY <2>1, <2>2
  <2> QED
    BY <1>1, <2>3 DEF Within
<1>2. ASSUME Typed, Take, Here
      PROVE  (InHand \/ Less)'
  <2>1. items \in Seq(1..published) /\ items # <<>> /\ items' = Tail(items)
        /\ hand' = Head(items) /\ loop' = "handling" /\ phase' = phase /\ phase = "up"
    BY <1>2 DEF Take, Consume, Typed, TypeOK, QueueTypeOK
  <2>2. PICK i \in DOMAIN items : i <= k + 1 /\ items[i] = n
    BY <1>2 DEF Within
  <2>3. CASE i = 1
    BY <2>1, <2>2, <2>3
  <2>4. CASE i # 1
    <3>1. i - 1 \in DOMAIN Tail(items) /\ Tail(items)[i - 1] = n /\ i - 1 <= k
      BY <2>1, <2>2, <2>4
    <3> QED
      BY <2>1, <3>1 DEF Within
  <2> QED
    BY <2>3, <2>4
<1>3. Typed /\ [Next]_vars /\ InHand =>
        (InHand \/ Goal)' /\ (EndHandling => Goal')
  <2> SUFFICES ASSUME Typed, [Next]_vars, InHand, phase' = "up"
               PROVE  (InHand \/ Goal)' /\ (EndHandling => Goal')
    OBVIOUS
  <2>1. EndHandling => n \in handled'
    BY DEF EndHandling
  <2>2. ~Take
    BY DEF Take
  <2> QED
    BY <2>1, <2>2, LoopSteps
<1>4. Typed /\ [Next]_vars /\ Busy =>
        (Busy \/ Waits \/ Goal)' /\ (EndHandling => (Waits \/ Goal)')
  <2> SUFFICES ASSUME Typed, [Next]_vars, Busy, phase' = "up"
               PROVE  (Busy \/ Waits \/ Goal)' /\ (EndHandling => (Waits \/ Goal)')
    OBVIOUS
  <2>1. ~Take
    BY DEF Take
  <2>2. Here'
    BY <1>1, <2>1
  <2>3. EndHandling => loop' = "waiting"
    BY DEF EndHandling
  <2> HIDE DEF Here
  <2> QED
    BY <2>1, <2>2, <2>3, LoopSteps
<1>5. Typed /\ [Next]_vars /\ Waits =>
        (Waits \/ InHand \/ Less \/ Goal)' /\ (Take => (InHand \/ Less)')
  <2> SUFFICES ASSUME Typed, [Next]_vars, Waits
               PROVE  (Waits \/ InHand \/ Less \/ Goal)' /\ (Take => (InHand \/ Less)')
    OBVIOUS
  <2>1. CASE Take
    BY <1>2, <2>1
  <2>2. CASE ~Take /\ phase' = "up"
    <3>1. Here'
      BY <1>1, <2>2
    <3>2. ~EndHandling
      BY DEF EndHandling
    <3>3. loop' = "waiting"
      BY <2>2, <3>2, LoopSteps
    <3> HIDE DEF Here
    <3> QED
      BY <2>2, <3>1, <3>3
  <2>3. CASE ~Take /\ phase' # "up"
    BY <2>3
  <2> QED
    BY <2>1, <2>2, <2>3
<1>6. CanGoOn => /\ Waits => ENABLED <<Take>>_vars
                 /\ Busy \/ InHand => ENABLED <<EndHandling>>_vars
  BY DEF CanGoOn, Within
<1>7. Typed /\ LoopLives /\ Here => Waits \/ Busy \/ Goal
  BY DEF Typed, TypeOK, LoopLives
<1> HIDE DEF Goal, Here, Less, InHand, Waits, Busy
<1>8. FairSpec /\ []CanGoOn /\ (Less ~> Goal) => (Here ~> Goal)
  <2>1. FairSpec /\ []CanGoOn => (InHand ~> Goal)
    BY <1>3, <1>6, HostTyped, PTL DEF FairSpec, Spec
  <2>2. FairSpec /\ []CanGoOn => (Waits ~> InHand \/ Less \/ Goal)
    BY <1>5, <1>6, HostTyped, PTL DEF FairSpec, Spec
  <2>3. FairSpec /\ []CanGoOn => (Busy ~> Waits \/ Goal)
    BY <1>4, <1>6, HostTyped, PTL DEF FairSpec, Spec
  <2> QED
    BY <1>7, <2>1, <2>2, <2>3, HostTyped, LoopSurvives, PTL DEF FairSpec
<1> QED
  BY <1>8 DEF EndsFrom, Here, Less, Goal

\* Every message that is queued is handled while the process stays up, for any
\* number of messages, runs, clients and advisors and whatever faults there are.
THEOREM QueuedMessagesEnd ==
  FairSpec /\ []CanGoOn /\ InductionOnPlaces => QueuedIsHandled
<1> DEFINE Goal(n) == n \in handled \/ phase # "up"
           Here(n, k) == Within(n, k)
           Queue1(n) == n \in Range(items)
<1>1. ASSUME NEW n \in Nat
      PROVE  FairSpec => EndsFrom(n, 0)
  <2>1. Typed => ~Within(n, 0)
    BY DEF Typed, TypeOK, QueueTypeOK, Within
  <2> QED
    BY <2>1, HostTyped, PTL DEF FairSpec, EndsFrom
<1>2. ASSUME NEW n \in Nat
      PROVE  FairSpec /\ []CanGoOn /\ InductionOnPlaces => \A k \in Nat : EndsFrom(n, k)
  <2>1. FairSpec /\ []CanGoOn => \A k \in Nat : EndsFrom(n, k) => EndsFrom(n, k + 1)
    BY OnePlaceLess
  <2> QED
    BY <1>1, <2>1 DEF InductionOnPlaces
<1>3. ASSUME NEW n \in Nat
      PROVE  (\A k \in Nat : EndsFrom(n, k)) /\ []Typed => (Queue1(n) ~> Goal(n))
  <2>1. Typed /\ Queue1(n) => \E k \in Nat : Here(n, k)
    <3> SUFFICES ASSUME Typed, Queue1(n)
                 PROVE  \E k \in Nat : Here(n, k)
      OBVIOUS
    <3>1. items \in Seq(1..published)
      BY DEF Typed, TypeOK, QueueTypeOK
    <3>2. PICK i \in DOMAIN items : items[i] = n
      BY DEF Range
    <3> QED
      BY <3>1, <3>2 DEF Within
  <2> HIDE DEF Here, Goal, Queue1
  <2>2. (\A k \in Nat : EndsFrom(n, k)) => \A k \in Nat : [](Here(n, k) => <>Goal(n))
    <3>1. ASSUME NEW k \in Nat
          PROVE  EndsFrom(n, k) => [](Here(n, k) => <>Goal(n))
      BY PTL DEF EndsFrom, Here, Goal
    <3> QED
      BY <3>1
  <2>3. (\A k \in Nat : [](Here(n, k) => <>Goal(n)))
          => [](\A k \in Nat : (Here(n, k) => <>Goal(n)))
    OBVIOUS
  <2>4. (\A k \in Nat : (Here(n, k) => <>Goal(n)))
          => ((\E k \in Nat : Here(n, k)) => <>Goal(n))
    OBVIOUS
  <2> QED
    BY <2>1, <2>2, <2>3, <2>4, PTL
<1>4. ASSUME NEW n \in Nat
      PROVE  FairSpec /\ []CanGoOn /\ InductionOnPlaces => (Queue1(n) ~> Goal(n))
  <2>1. FairSpec => []Typed
    BY HostTyped, PTL DEF FairSpec
  <2> QED
    BY <1>2, <1>3, <2>1
<1>5. 1..(MaxMessages + Cardinality(Clients) * Cardinality(Runs)) \subseteq Nat
  OBVIOUS
<1>6. FairSpec /\ []CanGoOn /\ InductionOnPlaces
        => \A n \in 1..(MaxMessages + Cardinality(Clients) * Cardinality(Runs)) :
             (Queue1(n) ~> Goal(n))
  BY <1>4, <1>5
<1> QED
  BY <1>6 DEF QueuedIsHandled
===========================================================================
