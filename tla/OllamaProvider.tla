--------------------------- MODULE OllamaProvider -------------------------
(***************************************************************************)
(* OllamaProvider.complete(): one completion request with retries on       *)
(* transport errors and timeouts, exponential backoff between the          *)
(* attempts, and no retry of a 4xx / 5xx reply.  The callers are the tasks *)
(* that await complete(): extraction requests and the generation worker.   *)
(* Prompts, spans and token counts are left out.                           *)
(***************************************************************************)
EXTENDS Naturals

CONSTANTS
  Callers,        \* tasks that call complete()
  MaxRetries,     \* OLLAMA_MAX_RETRIES
  BackoffFactor   \* OLLAMA_BACKOFF_FACTOR, taken as a whole number

ASSUME ProviderAssumption ==
  /\ MaxRetries \in Nat
  /\ BackoffFactor \in Nat \ {0}

VARIABLES
  phase,      \* phase[c]: where c's call is, or how its last call ended
  attempt,    \* attempt[c]: the loop variable, counted from 0
  lastExc,    \* lastExc[c]: kind of the last httpx error of the call
  waited,     \* waited[c]: seconds slept between the attempts of the call
  answered    \* answered[c], history: a 2xx response reached the call

vars == <<phase, attempt, lastExc, waited, answered>>

InCall == {"posting", "backoff"}
Ended == {"returned", "raised", "garbled"}

\* backoff_factor ** n
Power[n \in Nat] == IF n = 0 THEN 1 ELSE BackoffFactor * Power[n - 1]

TypeOK ==
  /\ phase \in [Callers -> {"ready"} \cup InCall \cup Ended]
  /\ attempt \in [Callers -> 0..MaxRetries]
  /\ lastExc \in [Callers -> {"none", "transport", "status"}]
  /\ waited \in [Callers -> Nat]
  /\ answered \in [Callers -> BOOLEAN]

Init ==
  /\ phase = [c \in Callers |-> "ready"]
  /\ attempt = [c \in Callers |-> 0]
  /\ lastExc = [c \in Callers |-> "none"]
  /\ waited = [c \in Callers |-> 0]
  /\ answered = [c \in Callers |-> FALSE]

\* The call starts and posts its first request.
Call(c) ==
  /\ phase[c] \notin InCall
  /\ phase' = [phase EXCEPT ![c] = "posting"]
  /\ attempt' = [attempt EXCEPT ![c] = 0]
  /\ lastExc' = [lastExc EXCEPT ![c] = "none"]
  /\ waited' = [waited EXCEPT ![c] = 0]
  /\ answered' = [answered EXCEPT ![c] = FALSE]

\* A 2xx response breaks the loop.  The check after the loop looks only at
\* last_exc, which an earlier attempt may have set.  A body that cannot be
\* decoded raises from httpx, or from response.json() after that check.
Respond(c) ==
  /\ phase[c] = "posting"
  /\ answered' = [answered EXCEPT ![c] = TRUE]
  /\ \/ lastExc[c] = "none" /\ phase' = [phase EXCEPT ![c] = "returned"]
     \/ lastExc[c] # "none" /\ phase' = [phase EXCEPT ![c] = "raised"]
     \/ phase' = [phase EXCEPT ![c] = "garbled"]
  /\ UNCHANGED <<attempt, lastExc, waited>>

\* A faulty TransportFails for the mutation runs: no test for the last
\* attempt before the loop goes round.
TransportFailsUnbounded(c) ==
  /\ phase[c] = "posting"
  /\ lastExc' = [lastExc EXCEPT ![c] = "transport"]
  /\ phase' = [phase EXCEPT ![c] = "backoff"]
  /\ UNCHANGED <<attempt, waited, answered>>

\* TransportError or TimeoutException: sleep before the next attempt; after
\* the last one the loop is over and the call raises.
TransportFails(c) ==
  /\ phase[c] = "posting"
  /\ lastExc' = [lastExc EXCEPT ![c] = "transport"]
  /\ phase' = [phase EXCEPT
                 ![c] = IF attempt[c] < MaxRetries THEN "backoff" ELSE "raised"]
  /\ UNCHANGED <<attempt, waited, answered>>

\* HTTPStatusError: break, and raise.
StatusFails(c) ==
  /\ phase[c] = "posting"
  /\ lastExc' = [lastExc EXCEPT ![c] = "status"]
  /\ phase' = [phase EXCEPT ![c] = "raised"]
  /\ UNCHANGED <<attempt, waited, answered>>

\* A faulty Retry for the mutation runs: the backoff is taken from the number
\* of the attempt to come.
RetryLate(c) ==
  /\ phase[c] = "backoff"
  /\ waited' = [waited EXCEPT ![c] = @ + Power[attempt[c] + 1]]
  /\ attempt' = [attempt EXCEPT ![c] = @ + 1]
  /\ phase' = [phase EXCEPT ![c] = "posting"]
  /\ UNCHANGED <<lastExc, answered>>

\* Another faulty form: retry at once and without counting.
RetryAtOnce(c) ==
  /\ phase[c] = "backoff"
  /\ phase' = [phase EXCEPT ![c] = "posting"]
  /\ UNCHANGED <<attempt, waited, lastExc, answered>>

\* asyncio.sleep(backoff_factor ** attempt) is over: the next attempt posts.
Retry(c) ==
  /\ phase[c] = "backoff"
  /\ waited' = [waited EXCEPT ![c] = @ + Power[attempt[c]]]
  /\ attempt' = [attempt EXCEPT ![c] = @ + 1]
  /\ phase' = [phase EXCEPT ![c] = "posting"]
  /\ UNCHANGED <<lastExc, answered>>

\* The calling task is cancelled (worker stop, client disconnect): no handler
\* of the loop catches CancelledError.
Cancel(c) ==
  /\ phase[c] \in InCall
  /\ phase' = [phase EXCEPT ![c] = "ready"]
  /\ UNCHANGED <<attempt, lastExc, waited, answered>>

Progress(c) == Respond(c) \/ TransportFails(c) \/ StatusFails(c) \/ Retry(c)

Next == \E c \in Callers : Call(c) \/ Progress(c) \/ Cancel(c)

Spec == Init /\ [][Next]_vars

\* Every await of the call ends: httpx times each request out, sleep returns.
FairSpec == Spec /\ \A c \in Callers : WF_vars(Progress(c))

---------------------------------------------------------------------------
\* The wait durations are 1 s, f s, f^2 s, ... (ollama.py:48-49): before
\* attempt n the call has slept their sum, whatever mix of errors it met.
WaitsAreExponential ==
  \A c \in Callers :
    phase[c] = "posting" =>
      waited[c] * (BackoffFactor - 1) = Power[attempt[c]] - 1

\* ollama.py:89-90, "LLMProviderError: On any HTTP or connection failure after
\* all retry attempts are exhausted": a call that an attempt got a response
\* for does not raise it.  Refuted by a run: last_exc outlives the attempt
\* that set it.
RaisesOnlyUnanswered ==
  \A c \in Callers : phase[c] = "raised" => ~answered[c]
===========================================================================
