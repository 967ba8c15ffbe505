------------------------------ MODULE LLMCalls -----------------------------
(***************************************************************************)
(* What the two callers of OllamaProvider make of its answers, and what    *)
(* they leave for the operators to see: ExtractionService.extract(), which *)
(* asks a second time when the first answer is not the JSON it wants, and  *)
(* the LLM part of GenerationAgent.run() within GenerationWorker._handle.  *)
(* Each counts its calls in Prometheus (record_llm_metrics), fires an      *)
(* audit event per call at the llm-audits index, as a task that nobody     *)
(* awaits, and reports the run.  OpenSearch is external.                   *)
(***************************************************************************)
EXTENDS OllamaProvider, Sequences

CONSTANTS
  Extractors,   \* the callers that extract; the others generate
  Audited,      \* generating callers that were given an audit logger (none by
                \* create_generation_worker)
  MaxCalls      \* bound: no run starts after so many calls of its caller

ASSUME CallsAssumption ==
  /\ Extractors \subseteq Callers /\ Audited \subseteq Callers \ Extractors
  /\ MaxCalls \in Nat

VARIABLES
  run,      \* run[c]: "first" or "second" call of an extraction, the "only"
            \* one of a generation, "persist", or "idle"
  counted,  \* counted[c][n], history: the status under which call n of c was
            \* counted, or "none"
  writes,   \* audit tasks under way
  index,    \* audit documents in the index
  report    \* report[c]: the status c's last run was recorded with

callVars == <<run, counted, writes, index, report>>
allVars == <<vars, callVars>>

Statuses == {"success", "error"}
Audit == [by : Callers, call : Nat, status : Statuses]

CallsTypeOK ==
  /\ TypeOK
  /\ run \in [Callers -> {"idle", "first", "second", "only", "persist"}]
  /\ counted \in [Callers -> Seq(Statuses \cup {"none"})]
  /\ writes \subseteq Audit /\ index \subseteq Audit
  /\ report \in [Callers -> Statuses \cup {"none"}]
  /\ \A c \in Callers :
       /\ run[c] \in {"first", "second"} => c \in Extractors
       /\ phase[c] \in InCall => run[c] \in {"first", "second", "only"}

CallsInit ==
  /\ Init
  /\ run = [c \in Callers |-> "idle"]
  /\ counted = [c \in Callers |-> <<>>]
  /\ writes = {} /\ index = {}
  /\ report = [c \in Callers |-> "none"]

---------------------------------------------------------------------------
\* record_llm_metrics(): the call in progress is over and counted, or passed by.
Count(c, status) == counted' = [counted EXCEPT ![c] = Append(@, status)]

\* make_audit_event(), and a task of its own that logs the event.
Fire(c, status) ==
  writes' = writes \cup {[by |-> c, call |-> Len(counted[c]) + 1, status |-> status]}

\* GenerationAgent._fire_audit(): nothing happens without an audit logger.
FireIfAudited(c, status) ==
  \/ c \in Audited /\ Fire(c, status)
  \/ c \notin Audited /\ UNCHANGED writes

\* The run is over: record_extraction_run() or record_worker_run().
EndRun(c, status) ==
  /\ run' = [run EXCEPT ![c] = "idle"]
  /\ report' = [report EXCEPT ![c] = status]

GoOn(c, stage) == run' = [run EXCEPT ![c] = stage] /\ UNCHANGED report

\* A run starts with its first call.
StartRun(c) ==
  /\ run[c] = "idle" /\ Len(counted[c]) < MaxCalls
  /\ Call(c)
  /\ run' = [run EXCEPT ![c] = IF c \in Extractors THEN "first" ELSE "only"]
  /\ report' = [report EXCEPT ![c] = "none"]
  /\ UNCHANGED <<counted, writes, index>>

\* The call proceeds within the provider.
InProvider(c) == Progress(c) /\ UNCHANGED callVars

\* The first answer holds tags to store, or none of a known category, or is no
\* valid JSON: then the prompt is sent again.
FirstAnswer(c) ==
  /\ run[c] = "first" /\ phase[c] = "returned"
  /\ \E status \in Statuses :
       /\ Count(c, status) /\ Fire(c, status)
       /\ \/ /\ status = "success"
             /\ GoOn(c, "persist") \/ EndRun(c, "success")
             /\ UNCHANGED vars
          \/ /\ status = "error"
             /\ GoOn(c, "second")
             /\ Call(c)
  /\ UNCHANGED index

\* Faulty forms of SecondAnswer for the mutation runs: the status of the first
\* attempt is audited again; no error after two invalid answers.
SecondAnswerStale(c) ==
  /\ run[c] = "second" /\ phase[c] = "returned"
  /\ Count(c, "success") /\ Fire(c, counted[c][Len(counted[c])])
  /\ GoOn(c, "persist")
  /\ UNCHANGED <<vars, index>>

SecondAnswerEmpty(c) ==
  /\ run[c] = "second" /\ phase[c] = "returned"
  /\ \E status \in Statuses : Count(c, status) /\ Fire(c, status)
  /\ EndRun(c, "success")
  /\ UNCHANGED <<vars, index>>

\* So does the second; when it is invalid as well there is an ExtractionError.
SecondAnswer(c) ==
  /\ run[c] = "second" /\ phase[c] = "returned"
  /\ \E status \in Statuses :
       /\ Count(c, status) /\ Fire(c, status)
       /\ \/ status = "success" /\ GoOn(c, "persist")
          \/ EndRun(c, status)
  /\ UNCHANGED <<vars, index>>

\* The exception of a call leaves extract() uncounted and unaudited.
ExtractionRaises(c) ==
  /\ run[c] \in {"first", "second"} /\ phase[c] \in {"raised", "garbled"}
  /\ Count(c, "none")
  /\ EndRun(c, "error")
  /\ UNCHANGED <<vars, writes, index>>

\* The agent counts and audits its answer, and an LLMProviderError too; any
\* other exception of the call passes it by.
GenerationAnswer(c) ==
  /\ run[c] = "only"
  /\ \/ /\ phase[c] = "returned"
        /\ Count(c, "success") /\ FireIfAudited(c, "success")
        /\ GoOn(c, "persist")
     \/ /\ phase[c] = "raised"
        /\ Count(c, "error") /\ FireIfAudited(c, "error")
        /\ EndRun(c, "error")
     \/ /\ phase[c] = "garbled"
        /\ Count(c, "none") /\ UNCHANGED writes
        /\ EndRun(c, "error")
  /\ UNCHANGED <<vars, index>>

\* bulk_create() or create_draft(), and the end of the run.
Persist(c) ==
  /\ run[c] = "persist"
  /\ \E status \in Statuses : EndRun(c, status)
  /\ UNCHANGED <<vars, counted, writes, index>>

\* stop() cancels the worker's task, within its call or its insert.
CancelRun(c) ==
  /\ c \notin Extractors /\ run[c] # "idle"
  /\ Cancel(c) \/ (phase[c] \notin InCall /\ UNCHANGED vars)
  /\ EndRun(c, "error")
  /\ counted' = IF run[c] = "only" THEN [counted EXCEPT ![c] = Append(@, "none")]
                ELSE counted
  /\ UNCHANGED <<writes, index>>

\* log(): a document is indexed, or the error is logged and swallowed.
WriteAudit ==
  /\ \E w \in writes :
       /\ writes' = writes \ {w}
       /\ index' \in {index, index \cup {w}}
  /\ UNCHANGED <<vars, run, counted, report>>

\* The process ends, and with it runs and audit tasks.
ProcessEnds ==
  /\ \E c \in Callers : run[c] # "idle"
  /\ phase' = [c \in Callers |-> "ready"]
  /\ attempt' = [c \in Callers |-> 0]
  /\ lastExc' = [c \in Callers |-> "none"]
  /\ waited' = [c \in Callers |-> 0]
  /\ answered' = [c \in Callers |-> FALSE]
  /\ run' = [c \in Callers |-> "idle"]
  /\ counted' = [c \in Callers |-> IF run[c] \in {"idle", "persist"} THEN counted[c]
                                   ELSE Append(counted[c], "none")]
  /\ writes' = {}
  /\ report' = [c \in Callers |-> "none"]
  /\ UNCHANGED index

Proceed(c) ==
  \/ InProvider(c) \/ FirstAnswer(c) \/ SecondAnswer(c) \/ ExtractionRaises(c)
  \/ GenerationAnswer(c) \/ Persist(c)

CallsNext ==
  \/ \E c \in Callers : StartRun(c) \/ Proceed(c) \/ CancelRun(c)
  \/ WriteAudit \/ ProcessEnds

CallsSpec == CallsInit /\ [][CallsNext]_allVars

\* Every await ends: httpx times a request out, a sleep and a statement return.
GoesOn(c) == WF_allVars(Proceed(c))
FairCallsSpec == CallsSpec /\ \A c \in Callers : GoesOn(c)

---------------------------------------------------------------------------
(***************************************************************************)
(* Properties.                                                             *)
(***************************************************************************)

\* The audit index and the counters tell the same story: what is in the index
\* or on its way there carries the status under which that very call was
\* counted, also for the second call of an extraction, and for events that
\* are written long after their run.
AuditsAgreeWithCounters ==
  \A a \in writes \cup index :
    a.call \in DOMAIN counted[a.by] /\ counted[a.by][a.call] = a.status

\* A run is reported as a success only if the last of its calls was answered
\* with something it could use, whatever its earlier call, retries within the
\* provider and cancellations did.
SuccessNeedsUsableAnswer ==
  \A c \in Callers :
    report[c] = "success" =>
      counted[c] # <<>> /\ counted[c][Len(counted[c])] = "success"

\* Whatever Ollama answers, and however often it answers nonsense, a run ends.
EveryRunEnds == \A c \in Callers : run[c] # "idle" ~> run[c] = "idle"
===========================================================================
