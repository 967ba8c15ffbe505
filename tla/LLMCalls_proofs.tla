--------------------------- MODULE LLMCalls_proofs ------------------------
(***************************************************************************)
(* Proofs about LLMCalls and the provider it calls, for any sets of        *)
(* callers, any numbers of retries and calls, and any backoff factor.      *)
(***************************************************************************)
EXTENDS LLMCalls, TLAPS, WellFoundedInduction

---------------------------------------------------------------------------
\* The order of the natural numbers as a relation, for the library's theorems.
LessThan == {p \in Nat \X Nat : p[1] < p[2]}

\* Every nonempty set of natural numbers has a least member: what a proof by
\* induction rests on here, by way of the least counterexample.
LEMMA LeastMember ==
  ASSUME NEW S \in SUBSET Nat, S # {}
  PROVE  \E n \in S : \A m \in S : n <= m
<1>1. IsWellFoundedOn(LessThan, Nat)
  BY NatLessThanWellFounded DEF OpToRel, LessThan
<1>2. \E n \in S : \A m \in S : <<m, n>> \notin LessThan
  BY <1>1, WFMin
<1>3. \A m, n \in Nat : <<m, n>> \in LessThan <=> m < n
  BY DEF LessThan
<1>4. PICK n \in S : \A m \in S : <<m, n>> \notin LessThan
  BY <1>2
<1>5. \A m \in S : ~ (m < n)
  BY <1>3, <1>4
<1>6. \A m \in S : n <= m
  BY <1>5
<1> QED
  BY <1>6

\* g holds the powers up to the n-th.
IsTable(g, n) ==
  /\ g \in [0..n -> Nat] /\ g[0] = 1
  /\ \A i \in 1..n : g[i] = BackoffFactor * g[i - 1]

\* There is such a table for each n: one that ends before n can be extended.
LEMMA TablesExist == \A n \in Nat : \E g : IsTable(g, n)
<1> DEFINE S == {n \in Nat : ~ \E g : IsTable(g, n)}
<1> SUFFICES ASSUME S # {}
             PROVE  FALSE
  OBVIOUS
<1>1. PICK n \in S : \A m \in S : n <= m
  <2> HIDE DEF S
  <2>1. S \in SUBSET Nat
    BY DEF S
  <2> QED
    BY <2>1, LeastMember
<1>2. n # 0
  <2>1. IsTable([i \in 0..0 |-> 1], 0)
    BY DEF IsTable
  <2> QED
    BY <2>1
<1>3. PICK g : IsTable(g, n - 1)
  <2>1. n - 1 \in Nat /\ n - 1 \notin S
    BY <1>1, <1>2
  <2> QED
    BY <2>1
<1> DEFINE h == [i \in 0..n |-> IF i < n THEN g[i] ELSE BackoffFactor * g[n - 1]]
<1>4. IsTable(h, n)
  <2>1. h \in [0..n -> Nat]
    BY <1>1, <1>2, <1>3, ProviderAssumption DEF IsTable
  <2>2. h[0] = 1
    BY <1>1, <1>2, <1>3 DEF IsTable
  <2>3. ASSUME NEW i \in 1..n
        PROVE  h[i] = BackoffFactor * h[i - 1]
    BY <1>1, <1>2, <1>3 DEF IsTable
  <2> QED
    BY <2>1, <2>2, <2>3 DEF IsTable
<1> QED
  BY <1>1, <1>4

\* Two tables agree as far as the shorter one goes.
LEMMA TablesAgree ==
  ASSUME NEW m \in Nat, NEW n \in Nat, m <= n, NEW g, NEW h,
         IsTable(g, m), IsTable(h, n)
  PROVE  \A i \in 0..m : g[i] = h[i]
<1> DEFINE S == {i \in 0..m : g[i] # h[i]}
<1> SUFFICES ASSUME S # {}
             PROVE  FALSE
  OBVIOUS
<1>1. PICK i \in S : \A j \in S : i <= j
  <2> HIDE DEF S
  <2>1. S \in SUBSET Nat
    BY DEF S
  <2> QED
    BY <2>1, LeastMember
<1>2. i # 0
  BY DEF IsTable
<1>3. i - 1 \in 0..m /\ i - 1 \notin S
  BY <1>1, <1>2
<1>4. i \in 1..m /\ i \in 1..n
  BY <1>1, <1>2
<1>5. g[i - 1] = h[i - 1]
  BY <1>3
<1>6. g[i] = h[i]
  BY <1>4, <1>5 DEF IsTable
<1> QED
  BY <1>1, <1>6

\* The recursive definition of Power defines a function, which has natural
\* values and obeys the recursion (ollama.py:130).
LEMMA PowerSteps ==
  /\ Power \in [Nat -> Nat]
  /\ Power[0] = 1
  /\ \A n \in Nat : Power[n + 1] = BackoffFactor * Power[n]
<1> DEFINE Table(n) == CHOOSE g : IsTable(g, n)
           F == [n \in Nat |-> Table(n)[n]]
<1>1. \A n \in Nat : IsTable(Table(n), n)
  BY TablesExist
<1> HIDE DEF Table
<1>2. F \in [Nat -> Nat] /\ F[0] = 1
  BY <1>1 DEF IsTable
<1>3. ASSUME NEW n \in Nat \ {0}
      PROVE  F[n] = BackoffFactor * F[n - 1]
  <2>1. Table(n)[n] = BackoffFactor * Table(n)[n - 1]
    BY <1>1 DEF IsTable
  <2>2. \A i \in 0..(n - 1) : Table(n - 1)[i] = Table(n)[i]
    BY <1>1, TablesAgree
  <2>3. Table(n - 1)[n - 1] = Table(n)[n - 1]
    BY <2>2
  <2> QED
    BY <2>1, <2>3
<1>4. F = [n \in Nat |-> IF n = 0 THEN 1 ELSE BackoffFactor * F[n - 1]]
  <2> DEFINE G == [n \in Nat |-> IF n = 0 THEN 1 ELSE BackoffFactor * F[n - 1]]
  <2>1. \A n \in Nat : F[n] = G[n]
    BY <1>2, <1>3
  <2> QED
    BY <2>1
<1> HIDE DEF F
<1>5. Power = [n \in Nat |-> IF n = 0 THEN 1 ELSE BackoffFactor * Power[n - 1]]
  BY <1>4 DEF Power
<1>6. Power[0] = 1 /\ \A n \in Nat \ {0} : Power[n] = BackoffFactor * Power[n - 1]
  BY <1>5
<1>7. \A n \in Nat : Power[n] \in Nat
  <2> DEFINE S == {n \in Nat : Power[n] \notin Nat}
  <2> SUFFICES ASSUME S # {}
               PROVE  FALSE
    OBVIOUS
  <2>1. PICK n \in S : \A m \in S : n <= m
    <3> HIDE DEF S
    <3>1. S \in SUBSET Nat
      BY DEF S
    <3> QED
      BY <3>1, LeastMember
  <2>2. n # 0
    BY <1>6
  <2>3. n - 1 \in Nat /\ n - 1 \notin S
    BY <2>1, <2>2
  <2>4. Power[n - 1] \in Nat
    BY <2>3
  <2> QED
    BY <1>6, <2>2, <2>4, ProviderAssumption
<1> QED
  <2>1. Power \in [Nat -> Nat]
    BY <1>5, <1>7
  <2>2. \A n \in Nat : n + 1 \in Nat \ {0} /\ (n + 1) - 1 = n
    OBVIOUS
  <2> QED
    BY <1>6, <2>1, <2>2

---------------------------------------------------------------------------

\* Before each attempt of a call it has slept the geometric sum of its waits; a
\* call that sleeps has an attempt left.
WaitInv ==
  \A c \in Callers :
    /\ phase[c] = "backoff" => attempt[c] < MaxRetries
    /\ phase[c] \in InCall =>
         waited[c] * (BackoffFactor - 1) = Power[attempt[c]] - 1

\* Every attempt but the first comes after an error, which last_exc keeps, and
\* a call returns only without one.
RetryInv ==
  \A c \in Callers :
    /\ attempt[c] # 0 \/ phase[c] = "backoff" => lastExc[c] # "none"
    /\ phase[c] = "returned" => lastExc[c] = "none"

ProviderInv == TypeOK /\ WaitInv /\ RetryInv

\* Every step of a call keeps the provider's invariant.
LEMMA ProviderSteps ==
  ASSUME NEW c \in Callers, ProviderInv, Call(c) \/ Progress(c) \/ Cancel(c)
  PROVE  ProviderInv'
<1> USE ProviderAssumption DEF ProviderInv, TypeOK, InCall, Ended
\* It is enough that the call which takes the step is in order afterwards.
<1>0. ASSUME NEW p \in {"ready"} \cup InCall \cup Ended, NEW n \in 0..MaxRetries,
             NEW e \in {"none", "transport", "status"}, NEW t \in Nat, NEW b \in BOOLEAN,
             phase' = [phase EXCEPT ![c] = p], attempt' = [attempt EXCEPT ![c] = n],
             lastExc' = [lastExc EXCEPT ![c] = e], waited' = [waited EXCEPT ![c] = t],
             answered' = [answered EXCEPT ![c] = b],
             p = "backoff" => n < MaxRetries,
             p \in InCall => t * (BackoffFactor - 1) = Power[n] - 1,
             n # 0 \/ p = "backoff" => e # "none",
             p = "returned" => e = "none"
      PROVE  ProviderInv'
  <2>1. TypeOK'
    BY <1>0
  <2>2. /\ phase'[c] = p /\ attempt'[c] = n /\ lastExc'[c] = e /\ waited'[c] = t
        /\ \A k \in Callers \ {c} :
             /\ phase'[k] = phase[k] /\ attempt'[k] = attempt[k]
             /\ lastExc'[k] = lastExc[k] /\ waited'[k] = waited[k]
    BY <1>0
  <2>3. WaitInv'
    BY <1>0, <2>2 DEF WaitInv
  <2>4. RetryInv'
    BY <1>0, <2>2 DEF RetryInv
  <2> QED
    BY <2>1, <2>3, <2>4
<1> DEFINE f == BackoffFactor
<1>1. CASE Call(c)
  <2>1. 0 * (f - 1) = Power[0] - 1
    <3>1. f \in Nat /\ 0 * (f - 1) = 0
      OBVIOUS
    <3> QED
      BY <3>1, PowerSteps
  <2>2. /\ phase' = [phase EXCEPT ![c] = "posting"]
        /\ attempt' = [attempt EXCEPT ![c] = 0]
        /\ lastExc' = [lastExc EXCEPT ![c] = "none"]
        /\ waited' = [waited EXCEPT ![c] = 0]
        /\ answered' = [answered EXCEPT ![c] = FALSE]
    BY <1>1 DEF Call
  <2>3. 0 \in 0..MaxRetries /\ 0 \in Nat
    OBVIOUS
  <2> QED
    BY <1>0, <2>1, <2>2, <2>3
<1>2. CASE Respond(c)
  BY <1>0, <1>2 DEF Respond, RetryInv, WaitInv
<1>3. CASE TransportFails(c)
  BY <1>0, <1>3 DEF TransportFails, RetryInv, WaitInv
<1>4. CASE StatusFails(c)
  BY <1>0, <1>4 DEF StatusFails, RetryInv, WaitInv
<1>5. CASE Retry(c)
  <2> DEFINE n == attempt[c]
             t == waited[c]
  <2>1. /\ n \in Nat /\ t \in Nat /\ n < MaxRetries /\ lastExc[c] # "none"
        /\ t * (f - 1) = Power[n] - 1
    BY <1>5 DEF Retry, WaitInv, RetryInv
  <2>2. Power[n] \in Nat /\ Power[n + 1] = f * Power[n]
    BY <2>1, PowerSteps
  <2>3. (t + Power[n]) * (f - 1) = Power[n + 1] - 1
    <3>1. ASSUME NEW x \in Nat, NEW y \in Nat, x * (f - 1) = y - 1
          PROVE  (x + y) * (f - 1) = f * y - 1
      <4>1. (x + y) * (f - 1) = x * (f - 1) + y * (f - 1)
        OBVIOUS
      <4>2. y * (f - 1) = f * y - y
        OBVIOUS
      <4> QED
        BY <3>1, <4>1, <4>2
    <3> QED
      BY <2>1, <2>2, <3>1
  <2>4. /\ n + 1 \in 0..MaxRetries /\ n + 1 # 0
        /\ t + Power[n] \in Nat
    BY <2>1, <2>2
  <2>5. /\ phase' = [phase EXCEPT ![c] = "posting"]
        /\ attempt' = [attempt EXCEPT ![c] = n + 1]
        /\ waited' = [waited EXCEPT ![c] = t + Power[n]]
        /\ lastExc' = [lastExc EXCEPT ![c] = lastExc[c]]
        /\ answered' = [answered EXCEPT ![c] = answered[c]]
    BY <1>5 DEF Retry
  <2> QED
    BY <1>0, <2>1, <2>3, <2>4, <2>5
<1>6. CASE Cancel(c)
  BY <1>0, <1>6 DEF Cancel, RetryInv, WaitInv
<1> QED
  BY <1>1, <1>2, <1>3, <1>4, <1>5, <1>6 DEF Progress

\* For the provider, a step of its callers is a step of one call, the end of the
\* process, or nothing.
LEMMA StepsOfProvider ==
  ASSUME [CallsNext]_allVars
  PROVE  \/ \E c \in Callers : Call(c) \/ Progress(c) \/ Cancel(c)
         \/ ProcessEnds
         \/ UNCHANGED vars
<1>1. ASSUME NEW c \in Callers, StartRun(c) \/ Proceed(c) \/ CancelRun(c)
      PROVE  Call(c) \/ Progress(c) \/ Cancel(c) \/ UNCHANGED vars
  BY <1>1 DEF StartRun, Proceed, CancelRun, InProvider, FirstAnswer, SecondAnswer,
              ExtractionRaises, GenerationAnswer, Persist
<1>2. WriteAudit \/ UNCHANGED allVars => UNCHANGED vars
  BY DEF WriteAudit, allVars
<1> QED
  BY <1>1, <1>2 DEF CallsNext

\* The callers and the end of the process keep it too.
LEMMA ProviderStep == ProviderInv /\ [CallsNext]_allVars => ProviderInv'
<1> SUFFICES ASSUME ProviderInv, [CallsNext]_allVars
             PROVE  ProviderInv'
  OBVIOUS
<1>1. ASSUME NEW c \in Callers, Call(c) \/ Progress(c) \/ Cancel(c)
      PROVE  ProviderInv'
  BY <1>1, ProviderSteps
<1>2. CASE UNCHANGED vars
  BY <1>2 DEF vars, ProviderInv, TypeOK, WaitInv, RetryInv
<1>3. CASE ProcessEnds
  <2>1. TypeOK'
    BY <1>3, ProviderAssumption DEF ProcessEnds, TypeOK
  <2>2. \A c \in Callers : phase'[c] = "ready" /\ attempt'[c] = 0
    BY <1>3 DEF ProcessEnds
  <2> QED
    BY <2>1, <2>2 DEF ProviderInv, WaitInv, RetryInv, InCall
<1> QED
  BY <1>1, <1>2, <1>3, StepsOfProvider

---------------------------------------------------------------------------
\* CallsTypeOK without the waits.
CallTypes ==
  /\ phase \in [Callers -> {"ready"} \cup InCall \cup Ended]
  /\ run \in [Callers -> {"idle", "first", "second", "only", "persist"}]
  /\ counted \in [Callers -> Seq(Statuses \cup {"none"})]
  /\ writes \subseteq Audit /\ index \subseteq Audit
  /\ report \in [Callers -> Statuses \cup {"none"}]
  /\ \A c \in Callers : phase[c] \in InCall => run[c] \in {"first", "second", "only"}

\* While its run goes on, a caller has not reported a success.
ReportsAtTheEnd == \A c \in Callers : run[c] # "idle" => report[c] # "success"

\* A run that stores its result got it from its last call.
PersistsAnswer ==
  \A c \in Callers :
    run[c] = "persist" => counted[c] # <<>> /\ counted[c][Len(counted[c])] = "success"

CallsInv ==
  /\ CallTypes
  /\ ReportsAtTheEnd
  /\ PersistsAnswer
  /\ AuditsAgreeWithCounters
  /\ SuccessNeedsUsableAnswer

---------------------------------------------------------------------------
\* What a call of the provider, and each step within one, do to its phase: the
\* phases of the other callers stay as they are.
LEMMA CallPosts ==
  ASSUME NEW c \in Callers, phase \in [Callers -> {"ready"} \cup InCall \cup Ended],
         Call(c)
  PROVE  phase' = [phase EXCEPT ![c] = "posting"]
  BY DEF Call

\* Only a call in progress makes progress, and no other one does by it.
LEMMA ProgressInCall ==
  ASSUME NEW c \in Callers, phase \in [Callers -> {"ready"} \cup InCall \cup Ended],
         Progress(c)
  PROVE  /\ phase[c] \in InCall
         /\ phase' \in [Callers -> {"ready"} \cup InCall \cup Ended]
         /\ \A k \in Callers : phase'[k] \in InCall => phase[k] \in InCall
  BY DEF Progress, Respond, TransportFails, StatusFails, Retry, InCall, Ended

\* Counting a call adds its status at the end and leaves the earlier ones.
LEMMA CountAppends ==
  ASSUME NEW c \in Callers, NEW s \in Statuses \cup {"none"},
         counted \in [Callers -> Seq(Statuses \cup {"none"})],
         Count(c, s)
  PROVE  /\ counted' \in [Callers -> Seq(Statuses \cup {"none"})]
         /\ counted'[c] # <<>> /\ counted'[c][Len(counted'[c])] = s
         /\ Len(counted'[c]) = Len(counted[c]) + 1
         /\ \A k \in Callers \ {c} : counted'[k] = counted[k]
         /\ \A k \in Callers : \A n \in DOMAIN counted[k] :
              n \in DOMAIN counted'[k] /\ counted'[k][n] = counted[k][n]
<1> DEFINE T == Statuses \cup {"none"}
<1>1. counted[c] \in Seq(T)
  OBVIOUS
<1>2. counted' = [counted EXCEPT ![c] = Append(counted[c], s)]
  BY DEF Count
<1>3. Append(counted[c], s) \in Seq(T)
  BY <1>1
<1>4. counted'[c] = Append(counted[c], s)
  BY <1>2
<1>5. counted' \in [Callers -> Seq(T)]
  BY <1>2, <1>3
<1>6. /\ Append(counted[c], s) # <<>>
      /\ Len(Append(counted[c], s)) = Len(counted[c]) + 1
      /\ Append(counted[c], s)[Len(counted[c]) + 1] = s
  BY <1>1
<1>7. \A n \in DOMAIN counted[c] :
        /\ n \in DOMAIN Append(counted[c], s)
        /\ Append(counted[c], s)[n] = counted[c][n]
  BY <1>1
<1>8. \A k \in Callers \ {c} : counted'[k] = counted[k]
  BY <1>2
<1> QED
  BY <1>4, <1>5, <1>6, <1>7, <1>8

\* A counted call and its event tell the same, and so do the earlier events.
LEMMA CountAndFireAgree ==
  ASSUME NEW c \in Callers, NEW s \in Statuses \cup {"none"},
         CallTypes, AuditsAgreeWithCounters,
         Count(c, s),
         UNCHANGED writes \/ (s \in Statuses /\ Fire(c, s)),
         UNCHANGED index
  PROVE  /\ writes' \subseteq Audit /\ index' \subseteq Audit
         /\ AuditsAgreeWithCounters'
<1> DEFINE e == [by |-> c, call |-> Len(counted[c]) + 1, status |-> s]
<1>1. counted[c] \in Seq(Statuses \cup {"none"}) /\ Len(counted[c]) \in Nat
  BY DEF CallTypes
<1>2. /\ Len(counted'[c]) = Len(counted[c]) + 1
      /\ counted'[c][Len(counted'[c])] = s
      /\ counted' \in [Callers -> Seq(Statuses \cup {"none"})]
      /\ \A k \in Callers : \A n \in DOMAIN counted[k] :
           n \in DOMAIN counted'[k] /\ counted'[k][n] = counted[k][n]
  BY CountAppends DEF CallTypes
<1>3. (writes \cup index)' \subseteq writes \cup index \cup {e}
  BY DEF Fire
<1>4. s \in Statuses => e \in Audit
  BY <1>1 DEF Audit
<1>5. writes' \subseteq Audit /\ index' \subseteq Audit
  BY <1>4 DEF CallTypes, Fire
<1>6. \A a \in writes \cup index :
        a.call \in DOMAIN counted'[a.by] /\ counted'[a.by][a.call] = a.status
  <2> TAKE a \in writes \cup index
  <2>1. a.by \in Callers
    BY DEF CallTypes, Audit
  <2>2. a.call \in DOMAIN counted[a.by] /\ counted[a.by][a.call] = a.status
    BY DEF AuditsAgreeWithCounters
  <2> QED
    BY <1>2, <2>1, <2>2
<1>7. e.call \in DOMAIN counted'[e.by] /\ counted'[e.by][e.call] = e.status
  <2>1. counted'[c] \in Seq(Statuses \cup {"none"})
    BY <1>2
  <2> QED
    BY <1>1, <1>2, <2>1
<1> QED
  BY <1>3, <1>5, <1>6, <1>7 DEF AuditsAgreeWithCounters

---------------------------------------------------------------------------
\* The inductive step: no action of a caller, no late audit task and no end of
\* the process breaks an invariant.
LEMMA CallsStep == CallsInv /\ [CallsNext]_allVars => CallsInv'
<1> SUFFICES ASSUME CallsInv, [CallsNext]_allVars
             PROVE  CallsInv'
  OBVIOUS
<1> USE DEF CallsInv
<1> DEFINE T == Statuses \cup {"none"}
\* It is enough that a step of one caller leaves that caller in order.
<1>0. ASSUME NEW c \in Callers,
             phase' \in [Callers -> {"ready"} \cup InCall \cup Ended],
             run' \in [Callers -> {"idle", "first", "second", "only", "persist"}],
             report' \in [Callers -> T],
             counted' \in [Callers -> Seq(T)],
             \A k \in Callers \ {c} :
               /\ phase'[k] = phase[k] /\ run'[k] = run[k]
               /\ report'[k] = report[k] /\ counted'[k] = counted[k],
             writes' \subseteq Audit, index' \subseteq Audit,
             AuditsAgreeWithCounters',
             phase'[c] \in InCall => run'[c] \in {"first", "second", "only"},
             run'[c] # "idle" => report'[c] # "success",
             run'[c] = "persist" \/ report'[c] = "success" =>
               counted'[c] # <<>> /\ counted'[c][Len(counted'[c])] = "success"
      PROVE  CallsInv'
  <2>1. CallTypes'
    BY <1>0 DEF CallTypes
  <2>2. ReportsAtTheEnd'
    BY <1>0 DEF CallTypes, ReportsAtTheEnd
  <2>3. PersistsAnswer'
    BY <1>0 DEF CallTypes, PersistsAnswer
  <2>4. SuccessNeedsUsableAnswer'
    BY <1>0 DEF CallTypes, SuccessNeedsUsableAnswer
  <2> QED
    BY <1>0, <2>1, <2>2, <2>3, <2>4
<1>1. ASSUME NEW c \in Callers, StartRun(c)
      PROVE  CallsInv'
  <2>1. phase' = [phase EXCEPT ![c] = "posting"]
    BY <1>1, CallPosts DEF StartRun, CallTypes
  <2>2. \E stage \in {"first", "only"} :
          run' = [run EXCEPT ![c] = stage] /\ report' = [report EXCEPT ![c] = "none"]
    BY <1>1 DEF StartRun
  <2>3. AuditsAgreeWithCounters'
    BY <1>1 DEF StartRun, AuditsAgreeWithCounters
  <2> QED
    BY <1>0, <1>1, <2>1, <2>2, <2>3 DEF StartRun, CallTypes, InCall, Statuses
<1>2. ASSUME NEW c \in Callers, InProvider(c)
      PROVE  CallsInv'
  <2>1. CallTypes'
    BY <1>2, ProgressInCall DEF InProvider, callVars, CallTypes
  <2> QED
    BY <1>2, <2>1
    DEF InProvider, callVars, ReportsAtTheEnd, PersistsAnswer,
        AuditsAgreeWithCounters, SuccessNeedsUsableAnswer
<1>3. ASSUME NEW c \in Callers, FirstAnswer(c)
      PROVE  CallsInv'
  <2>1. PICK s \in Statuses :
          /\ Count(c, s) /\ Fire(c, s)
          /\ \/ /\ s = "success"
                /\ GoOn(c, "persist") \/ EndRun(c, "success")
                /\ UNCHANGED vars
             \/ s = "error" /\ GoOn(c, "second") /\ Call(c)
    BY <1>3 DEF FirstAnswer
  <2>2. /\ counted' \in [Callers -> Seq(T)]
        /\ counted'[c] # <<>> /\ counted'[c][Len(counted'[c])] = s
        /\ \A k \in Callers \ {c} : counted'[k] = counted[k]
    BY <2>1, CountAppends DEF CallTypes
  <2>3. writes' \subseteq Audit /\ index' \subseteq Audit /\ AuditsAgreeWithCounters'
    BY <1>3, <2>1, CountAndFireAgree DEF FirstAnswer
  <2>4. phase[c] = "returned" /\ run[c] = "first" /\ report[c] # "success"
    BY <1>3 DEF FirstAnswer, ReportsAtTheEnd
  <2>6. CASE s = "success" /\ GoOn(c, "persist") /\ UNCHANGED vars
    BY <1>0, <2>2, <2>3, <2>4, <2>6 DEF GoOn, CallTypes, vars, InCall, Ended
  <2>7. CASE s = "success" /\ EndRun(c, "success") /\ UNCHANGED vars
    BY <1>0, <2>2, <2>3, <2>4, <2>7 DEF EndRun, CallTypes, vars, InCall, Ended, Statuses
  <2>8. CASE s = "error" /\ GoOn(c, "second") /\ Call(c)
    <3>1. phase' = [phase EXCEPT ![c] = "posting"]
      BY <2>8, CallPosts DEF CallTypes
    <3> QED
      BY <1>0, <2>2, <2>3, <2>4, <2>8, <3>1 DEF GoOn, CallTypes, InCall
  <2> QED
    BY <2>1, <2>6, <2>7, <2>8
<1>4. ASSUME NEW c \in Callers, SecondAnswer(c)
      PROVE  CallsInv'
  <2>1. PICK s \in Statuses :
          /\ Count(c, s) /\ Fire(c, s)
          /\ \/ s = "success" /\ GoOn(c, "persist")
             \/ EndRun(c, s)
    BY <1>4 DEF SecondAnswer
  <2>2. /\ counted' \in [Callers -> Seq(T)]
        /\ counted'[c] # <<>> /\ counted'[c][Len(counted'[c])] = s
        /\ \A k \in Callers \ {c} : counted'[k] = counted[k]
    BY <2>1, CountAppends DEF CallTypes
  <2>3. writes' \subseteq Audit /\ index' \subseteq Audit /\ AuditsAgreeWithCounters'
    BY <1>4, <2>1, CountAndFireAgree DEF SecondAnswer
  <2>4. phase[c] = "returned" /\ phase' = phase /\ report[c] # "success"
    BY <1>4 DEF SecondAnswer, vars, ReportsAtTheEnd
  <2>6. CASE s = "success" /\ GoOn(c, "persist")
    BY <1>0, <2>2, <2>3, <2>4, <2>6 DEF GoOn, CallTypes, InCall, Ended
  <2>7. CASE EndRun(c, s)
    BY <1>0, <2>2, <2>3, <2>4, <2>7 DEF EndRun, CallTypes, InCall, Ended
  <2> QED
    BY <2>1, <2>6, <2>7
<1>5. ASSUME NEW c \in Callers, ExtractionRaises(c)
      PROVE  CallsInv'
  <2>1. /\ counted' \in [Callers -> Seq(T)]
        /\ \A k \in Callers \ {c} : counted'[k] = counted[k]
    BY <1>5, CountAppends DEF ExtractionRaises, CallTypes
  <2>2. writes' \subseteq Audit /\ index' \subseteq Audit /\ AuditsAgreeWithCounters'
    BY <1>5, CountAndFireAgree DEF ExtractionRaises
  <2>3. /\ phase[c] \in Ended /\ phase' = phase
    BY <1>5 DEF ExtractionRaises, vars, Ended, CallTypes
  <2> QED
    BY <1>0, <1>5, <2>1, <2>2, <2>3 DEF ExtractionRaises, EndRun, CallTypes, InCall, Ended, Statuses
<1>6. ASSUME NEW c \in Callers, GenerationAnswer(c)
      PROVE  CallsInv'
  <2>1. /\ phase[c] \in Ended /\ phase' = phase
        /\ report[c] # "success"
    BY <1>6 DEF GenerationAnswer, vars, Ended, CallTypes, ReportsAtTheEnd
  <2>2. ASSUME NEW s \in T, Count(c, s), FireIfAudited(c, s) \/ UNCHANGED writes,
               s = "none" => UNCHANGED writes,
               \/ s = "success" /\ GoOn(c, "persist")
               \/ s # "success" /\ EndRun(c, "error")
        PROVE  CallsInv'
    <3>1. /\ counted' \in [Callers -> Seq(T)]
          /\ counted'[c] # <<>> /\ counted'[c][Len(counted'[c])] = s
          /\ \A k \in Callers \ {c} : counted'[k] = counted[k]
      BY <2>2, CountAppends DEF CallTypes
    <3>2. UNCHANGED writes \/ (s \in Statuses /\ Fire(c, s))
      BY <2>2 DEF FireIfAudited
    <3>3. writes' \subseteq Audit /\ index' \subseteq Audit /\ AuditsAgreeWithCounters'
      BY <1>6, <2>2, <3>2, CountAndFireAgree DEF GenerationAnswer
    <3>4. CASE s = "success" /\ GoOn(c, "persist")
      BY <1>0, <2>1, <3>1, <3>3, <3>4 DEF GoOn, InCall, Ended, CallTypes
    <3>5. CASE s # "success" /\ EndRun(c, "error")
      BY <1>0, <2>1, <3>1, <3>3, <3>5 DEF EndRun, CallTypes, InCall, Ended, Statuses
    <3> QED
      BY <2>2, <3>4, <3>5
  <2> QED
    BY <1>6, <2>2 DEF GenerationAnswer, Statuses
<1>7. ASSUME NEW c \in Callers, Persist(c)
      PROVE  CallsInv'
  <2>1. PICK s \in Statuses : EndRun(c, s)
    BY <1>7 DEF Persist
  <2>2. /\ phase[c] \notin InCall /\ phase' = phase
    BY <1>7 DEF Persist, vars, CallTypes
  <2>3. counted[c] # <<>> /\ counted[c][Len(counted[c])] = "success"
    BY <1>7 DEF Persist, PersistsAnswer
  <2>4. AuditsAgreeWithCounters'
    BY <1>7 DEF Persist, AuditsAgreeWithCounters
  <2> QED
    BY <1>0, <1>7, <2>1, <2>2, <2>3, <2>4 DEF Persist, EndRun, CallTypes, Statuses
<1>8. ASSUME NEW c \in Callers, CancelRun(c)
      PROVE  CallsInv'
  <2>1. /\ phase' \in [Callers -> {"ready"} \cup InCall \cup Ended]
        /\ phase'[c] \notin InCall
        /\ \A k \in Callers \ {c} : phase'[k] = phase[k]
    <3>1. CASE Cancel(c)
      BY <3>1 DEF Cancel, CallTypes, InCall
    <3>2. CASE phase[c] \notin InCall /\ UNCHANGED vars
      BY <3>2 DEF vars, CallTypes
    <3> QED
      BY <1>8, <3>1, <3>2 DEF CancelRun
  <2>2. Count(c, "none") \/ counted' = counted
    BY <1>8 DEF CancelRun, Count
  <2>3. /\ counted' \in [Callers -> Seq(T)]
        /\ \A k \in Callers \ {c} : counted'[k] = counted[k]
    BY <2>2, CountAppends DEF CallTypes
  <2>4. writes' \subseteq Audit /\ index' \subseteq Audit /\ AuditsAgreeWithCounters'
    <3>1. CASE Count(c, "none")
      BY <1>8, <3>1, CountAndFireAgree DEF CancelRun
    <3>2. CASE counted' = counted
      BY <1>8, <3>2 DEF CancelRun, AuditsAgreeWithCounters, CallTypes
    <3> QED
      BY <2>2, <3>1, <3>2
  <2>5. run' = [run EXCEPT ![c] = "idle"] /\ report' = [report EXCEPT ![c] = "error"]
    BY <1>8 DEF CancelRun, EndRun
  <2>6. /\ run' \in [Callers -> {"idle", "first", "second", "only", "persist"}]
        /\ report' \in [Callers -> T]
        /\ run'[c] = "idle" /\ report'[c] = "error"
        /\ \A k \in Callers \ {c} : run'[k] = run[k] /\ report'[k] = report[k]
    BY <2>5 DEF CallTypes, Statuses
  <2> QED
    BY <1>0, <2>1, <2>3, <2>4, <2>6
<1>9. CASE WriteAudit
  <2>1. /\ (writes \cup index)' \subseteq writes \cup index
        /\ writes' \subseteq Audit /\ index' \subseteq Audit
    BY <1>9 DEF WriteAudit, CallTypes
  <2>2. UNCHANGED <<phase, run, counted, report>>
    BY <1>9 DEF WriteAudit, vars
  <2>3. CallTypes' /\ AuditsAgreeWithCounters'
    BY <2>1, <2>2 DEF CallTypes, AuditsAgreeWithCounters
  <2> QED
    BY <2>2, <2>3 DEF ReportsAtTheEnd, PersistsAnswer, SuccessNeedsUsableAnswer
<1>10. CASE ProcessEnds
  <2>1. \A c \in Callers :
          /\ counted'[c] \in Seq(T)
          /\ \A n \in DOMAIN counted[c] :
               n \in DOMAIN counted'[c] /\ counted'[c][n] = counted[c][n]
    <3> TAKE c \in Callers
    <3>1. counted[c] \in Seq(T)
      BY DEF CallTypes
    <3>2. counted'[c] \in {counted[c], Append(counted[c], "none")}
      BY <1>10 DEF ProcessEnds
    <3>3. "none" \in T
      OBVIOUS
    <3> HIDE DEF T
    <3>4. Append(counted[c], "none") \in Seq(T)
      BY <3>1, <3>3
    <3>5. \A n \in DOMAIN counted[c] :
            /\ n \in DOMAIN Append(counted[c], "none")
            /\ Append(counted[c], "none")[n] = counted[c][n]
      BY <3>1
    <3>6. CASE counted'[c] = counted[c]
      BY <3>1, <3>6
    <3>7. CASE counted'[c] = Append(counted[c], "none")
      BY <3>4, <3>5, <3>7
    <3> QED
      BY <3>2, <3>6, <3>7
  <2>2. counted' \in [Callers -> Seq(T)]
    BY <1>10, <2>1 DEF ProcessEnds
  <2>3. CallTypes'
    BY <1>10, <2>2 DEF ProcessEnds, CallTypes, InCall
  <2>4. AuditsAgreeWithCounters'
    <3> SUFFICES ASSUME NEW a \in index
                 PROVE  a.call \in DOMAIN counted'[a.by] /\ counted'[a.by][a.call] = a.status
      BY <1>10 DEF ProcessEnds, AuditsAgreeWithCounters
    <3>1. a.by \in Callers /\ a.call \in DOMAIN counted[a.by]
          /\ counted[a.by][a.call] = a.status
      BY DEF CallTypes, Audit, AuditsAgreeWithCounters
    <3> QED
      BY <2>1, <3>1
  <2> QED
    BY <1>10, <2>3, <2>4
    DEF ProcessEnds, ReportsAtTheEnd, PersistsAnswer, SuccessNeedsUsableAnswer
<1>11. CASE UNCHANGED allVars
  BY <1>11
  DEF allVars, vars, callVars, CallTypes, ReportsAtTheEnd, PersistsAnswer,
      AuditsAgreeWithCounters, SuccessNeedsUsableAnswer
<1> QED
  BY <1>1, <1>2, <1>3, <1>4, <1>5, <1>6, <1>7, <1>8, <1>9, <1>10, <1>11
  DEF CallsNext, Proceed

\* The inductive invariant holds in every reachable state.
LEMMA CallsInvHolds == CallsSpec => []CallsInv
<1>1. CallsInit => CallsInv
  BY DEF CallsInit, Init, CallsInv, CallTypes, ReportsAtTheEnd, PersistsAnswer,
         AuditsAgreeWithCounters, SuccessNeedsUsableAnswer, InCall
<1> QED
  BY <1>1, CallsStep, PTL DEF CallsSpec

\* No audit event, in the index or under way, ever contradicts the status under
\* which its call was counted (extraction.py, service.py of the agent).
THEOREM AuditAgreement == CallsSpec => []AuditsAgreeWithCounters
  BY CallsInvHolds, PTL DEF CallsInv

\* No run is ever recorded as a success unless its last call was.
THEOREM UsableAnswer == CallsSpec => []SuccessNeedsUsableAnswer
  BY CallsInvHolds, PTL DEF CallsInv

---------------------------------------------------------------------------
\* Only an extraction asks a first or a second time.
ExtractorsAsk == \A c \in Callers : run[c] \in {"first", "second"} => c \in Extractors

\* It stays so: a first question comes with the start of a run, a second one
\* after a first.
LEMMA AskStep ==
  CallTypes /\ ExtractorsAsk /\ [CallsNext]_allVars => ExtractorsAsk'
<1> SUFFICES ASSUME CallTypes, ExtractorsAsk, [CallsNext]_allVars
             PROVE  ExtractorsAsk'
  OBVIOUS
<1>1. ASSUME NEW c \in Callers, StartRun(c)
      PROVE  ExtractorsAsk'
  BY <1>1 DEF StartRun, CallTypes, ExtractorsAsk
<1>2. ASSUME NEW c \in Callers, FirstAnswer(c)
      PROVE  ExtractorsAsk'
  <2>1. PICK next \in {"persist", "idle", "second"} : run' = [run EXCEPT ![c] = next]
    BY <1>2 DEF FirstAnswer, GoOn, EndRun
  <2> QED
    BY <1>2, <2>1 DEF FirstAnswer, CallTypes, ExtractorsAsk
<1>3. ASSUME NEW c \in Callers, NEW next \in {"persist", "idle"},
             run' = [run EXCEPT ![c] = next]
      PROVE  ExtractorsAsk'
  BY <1>3 DEF CallTypes, ExtractorsAsk
<1>4. ASSUME NEW c \in Callers,
             \/ SecondAnswer(c) \/ ExtractionRaises(c) \/ GenerationAnswer(c)
             \/ Persist(c) \/ CancelRun(c)
      PROVE  \E next \in {"persist", "idle"} : run' = [run EXCEPT ![c] = next]
  BY <1>4 DEF SecondAnswer, ExtractionRaises, GenerationAnswer, Persist, CancelRun,
              GoOn, EndRun
<1>5. CASE ProcessEnds
  BY <1>5 DEF ProcessEnds, ExtractorsAsk
<1>6. CASE UNCHANGED run
  BY <1>6 DEF ExtractorsAsk
<1>7. ASSUME NEW c \in Callers, InProvider(c)
      PROVE  UNCHANGED run
  BY <1>7 DEF InProvider, callVars
<1>8. WriteAudit \/ UNCHANGED allVars => UNCHANGED run
  BY DEF WriteAudit, allVars, callVars
<1> QED
  BY <1>1, <1>2, <1>3, <1>4, <1>5, <1>6, <1>7, <1>8 DEF CallsNext, Proceed

\* What the provider and its callers keep at all times.
LEMMA ProviderInvHolds == CallsSpec => [](ProviderInv /\ CallsInv /\ ExtractorsAsk)
<1>1. CallsInit => ProviderInv /\ ExtractorsAsk
  BY ProviderAssumption
  DEF CallsInit, Init, ProviderInv, TypeOK, WaitInv, RetryInv, ExtractorsAsk, InCall
<1>2. CallsInv => CallTypes
  BY DEF CallsInv
<1> QED
  BY <1>1, <1>2, ProviderStep, AskStep, CallsInvHolds, PTL DEF CallsSpec

\* Type correctness: calls, runs, counters, audit events and reports have the
\* forms that provider and callers give them (ollama.py, extraction.py).
THEOREM CallTypesHold == CallsSpec => []CallsTypeOK
<1>1. ProviderInv /\ CallsInv /\ ExtractorsAsk => CallsTypeOK
  BY DEF ProviderInv, CallsInv, CallTypes, ExtractorsAsk, CallsTypeOK
<1> QED
  BY <1>1, ProviderInvHolds, PTL

\* The documented waits (ollama.py:48-49): before attempt n the call has slept
\* 1 + f + ... + f^(n-1) seconds, for every factor and number of retries.
THEOREM WaitsAsDocumented == CallsSpec => []WaitsAreExponential
<1>1. ProviderInv => WaitsAreExponential
  BY DEF ProviderInv, WaitInv, WaitsAreExponential, InCall
<1> QED
  BY <1>1, ProviderInvHolds, PTL

\* The reach of the finding that RaisesOnlyUnanswered is about: a call whose
\* first attempt failed never returns, whatever its retries got (ollama.py:144).
OnlyFirstAttemptReturns ==
  \A c \in Callers : phase[c] = "returned" => attempt[c] = 0 /\ answered[c]

\* Hence retries never help: all they do is delay the error.
THEOREM RetriesNeverHelp == CallsSpec => []OnlyFirstAttemptReturns
<1> DEFINE Answered == \A c \in Callers : phase[c] = "returned" => answered[c]
<1>1. CallsInit => Answered
  BY DEF CallsInit, Init
<1>2. ProviderInv /\ Answered /\ [CallsNext]_allVars => Answered'
  <2> SUFFICES ASSUME ProviderInv, Answered, [CallsNext]_allVars
               PROVE  Answered'
    OBVIOUS
  <2>1. ASSUME NEW c \in Callers, Call(c) \/ Progress(c) \/ Cancel(c)
        PROVE  Answered'
    BY <2>1 DEF Call, Progress, Respond, TransportFails, StatusFails, Retry, Cancel,
                ProviderInv, TypeOK
  <2>2. UNCHANGED vars => Answered'
    BY DEF vars
  <2>3. ProcessEnds => Answered'
    BY DEF ProcessEnds
  <2> QED
    BY <2>1, <2>2, <2>3, StepsOfProvider
<1>3. ProviderInv /\ Answered => OnlyFirstAttemptReturns
  BY DEF ProviderInv, TypeOK, RetryInv, OnlyFirstAttemptReturns
<1> QED
  BY <1>1, <1>2, <1>3, ProviderInvHolds, PTL DEF CallsSpec

---------------------------------------------------------------------------
\* The steps a call still has before it within the provider, at most: a post and
\* a sleep for each attempt to come.
StepsLeft(c) ==
  CASE phase[c] = "posting" -> 2 * (MaxRetries - attempt[c]) + 1
    [] phase[c] = "backoff" -> 2 * (MaxRetries - attempt[c])
    [] OTHER -> 0

\* And those of a run, which ends, stores its result, or asks again.
Work(c) ==
  CASE run[c] = "idle" -> 0
    [] run[c] = "persist" -> 1
    [] run[c] \in {"only", "second"} -> StepsLeft(c) + 2
    [] run[c] = "first" -> StepsLeft(c) + 2 * MaxRetries + 4

\* Whatever Ollama answers, each step of a run, and no step of another caller,
\* brings its end nearer: the numbers come from range(max_retries + 1) and the
\* one repetition of extract() (ollama.py:117, extraction.py:144).
Shrink ==
  \A c \in Callers :
    run[c] # "idle" =>
      /\ Work(c)' <= Work(c)
      /\ Proceed(c) => Work(c)' < Work(c)

RunsShrink == [][Shrink]_allVars

\* The number is a natural one, so no run has more than 4 * MaxRetries + 5 steps.
WorkIsBounded ==
  \A c \in Callers :
    /\ Work(c) \in 0..(4 * MaxRetries + 5)
    /\ Work(c) = 0 <=> run[c] = "idle"

\* A step within the provider is one of the steps that are left.
LEMMA ProgressShortens ==
  ASSUME ProviderInv, NEW c \in Callers, Progress(c)
  PROVE  /\ phase[c] \in InCall
         /\ StepsLeft(c) \in Nat /\ StepsLeft(c)' \in Nat
         /\ StepsLeft(c)' < StepsLeft(c)
<1> USE ProviderAssumption DEF ProviderInv, TypeOK, InCall, Ended, StepsLeft
<1>1. CASE Respond(c)
  BY <1>1 DEF Respond
<1>2. CASE TransportFails(c)
  BY <1>2 DEF TransportFails
<1>3. CASE StatusFails(c)
  BY <1>3 DEF StatusFails
<1>4. CASE Retry(c)
  BY <1>4 DEF Retry, WaitInv
<1> QED
  BY <1>1, <1>2, <1>3, <1>4 DEF Progress

\* A new call has the attempts and sleeps of the whole loop before it.
LEMMA CallHasAllSteps ==
  ASSUME ProviderInv, NEW c \in Callers, Call(c)
  PROVE  StepsLeft(c)' = 2 * MaxRetries + 1
  BY ProviderAssumption DEF ProviderInv, TypeOK, Call, StepsLeft

\* A run that proceeds has fewer steps left.
LEMMA ProceedShortens ==
  ASSUME ProviderInv, CallTypes, NEW c \in Callers, Proceed(c)
  PROVE  run[c] # "idle" /\ Work(c)' < Work(c)
<1> USE ProviderAssumption
<1>1. CASE InProvider(c)
  <2>1. /\ phase[c] \in InCall /\ StepsLeft(c)' < StepsLeft(c)
        /\ StepsLeft(c) \in Nat /\ StepsLeft(c)' \in Nat
    BY <1>1, ProgressShortens DEF InProvider
  <2>2. run[c] \in {"first", "second", "only"} /\ run' = run
    BY <1>1, <2>1 DEF InProvider, callVars, CallTypes
  <2> QED
    BY <2>1, <2>2 DEF Work
<1>2. CASE FirstAnswer(c)
  <2>1. run[c] = "first" /\ StepsLeft(c) = 0 /\ Work(c) = 2 * MaxRetries + 4
    BY <1>2 DEF FirstAnswer, StepsLeft, Work
  <2>2. CASE run'[c] \in {"persist", "idle"}
    BY <2>1, <2>2 DEF Work, ProviderInv, TypeOK
  <2>3. CASE run'[c] = "second" /\ Call(c)
    <3>1. Work(c)' = 2 * MaxRetries + 3
      BY <2>3, CallHasAllSteps DEF Work
    <3> QED
      BY <2>1, <3>1 DEF ProviderInv, TypeOK
  <2>4. run'[c] \in {"persist", "idle"} \/ (run'[c] = "second" /\ Call(c))
    BY <1>2 DEF FirstAnswer, GoOn, EndRun, CallTypes
  <2> QED
    BY <2>1, <2>2, <2>3, <2>4
<1>3. CASE SecondAnswer(c) \/ GenerationAnswer(c)
  <2>1. /\ run[c] \in {"second", "only"}
        /\ run'[c] \in {"persist", "idle"}
    BY <1>3 DEF SecondAnswer, GenerationAnswer, GoOn, EndRun, CallTypes
  <2>2. StepsLeft(c) = 0
    BY <1>3 DEF SecondAnswer, GenerationAnswer, StepsLeft
  <2> QED
    BY <2>1, <2>2 DEF Work
<1>4. CASE ExtractionRaises(c)
  <2>1. run[c] \in {"first", "second"} /\ run'[c] = "idle" /\ StepsLeft(c) = 0
    BY <1>4 DEF ExtractionRaises, EndRun, CallTypes, StepsLeft
  <2> QED
    BY <2>1 DEF Work
<1>5. CASE Persist(c)
  BY <1>5 DEF Persist, EndRun, CallTypes, Work
<1> QED
  BY <1>1, <1>2, <1>3, <1>4, <1>5 DEF Proceed

\* The others' steps leave a run where it is.
LEMMA OthersLeaveWork ==
  ASSUME ProviderInv, CallTypes, NEW c \in Callers, NEW k \in Callers \ {c},
         StartRun(k) \/ Proceed(k) \/ CancelRun(k)
  PROVE  Work(c)' = Work(c)
<1>1. phase'[c] = phase[c] /\ attempt'[c] = attempt[c]
  <2>1. CASE Call(k) \/ Progress(k) \/ Cancel(k)
    BY <2>1 DEF Call, Progress, Respond, TransportFails, StatusFails, Retry, Cancel,
                ProviderInv, TypeOK
  <2>2. CASE UNCHANGED vars
    BY <2>2 DEF vars
  <2> QED
    BY <2>1, <2>2 DEF StartRun, Proceed, CancelRun, InProvider, FirstAnswer,
                      SecondAnswer, ExtractionRaises, GenerationAnswer, Persist
<1>2. run'[c] = run[c]
  BY DEF CallTypes, StartRun, Proceed, CancelRun, InProvider, callVars, FirstAnswer,
         SecondAnswer, ExtractionRaises, GenerationAnswer, Persist, GoOn, EndRun
<1> QED
  BY <1>1, <1>2 DEF Work, StepsLeft

\* What is left of a run is a number of steps, none when there is no run.
LEMMA WorkBounds ==
  ASSUME ProviderInv, CallTypes
  PROVE  WorkIsBounded
<1> SUFFICES ASSUME NEW c \in Callers
             PROVE  /\ Work(c) \in 0..(4 * MaxRetries + 5)
                    /\ Work(c) = 0 <=> run[c] = "idle"
  BY DEF WorkIsBounded
<1>1. StepsLeft(c) \in 0..(2 * MaxRetries + 1)
  BY ProviderAssumption DEF ProviderInv, TypeOK, StepsLeft
<1> QED
  BY <1>1, ProviderAssumption DEF CallTypes, Work

\* At no time has a run more than 4 * max_retries + 5 steps before it (ollama.py:117,
\* extraction.py:144), and without a run there are none.
THEOREM BoundedRuns == CallsSpec => []WorkIsBounded
  BY WorkBounds, ProviderInvHolds, PTL DEF CallsInv

\* What stands behind EveryRunEnds for every number of retries: under the
\* fairness of FairCallsSpec a run proceeds, and it cannot do so for ever.
THEOREM RunsComeToAnEnd == CallsSpec => RunsShrink
<1>1. ASSUME ProviderInv, CallTypes, WorkIsBounded', [CallsNext]_allVars,
             NEW c \in Callers, run[c] # "idle"
      PROVE  Work(c)' <= Work(c) /\ (Proceed(c) => Work(c)' < Work(c))
  <2>1. Work(c) \in Nat /\ Work(c) # 0
    BY <1>1, WorkBounds, ProviderAssumption DEF WorkIsBounded
  <2>2. ASSUME Proceed(c)
        PROVE  Work(c)' < Work(c)
    BY <1>1, <2>2, ProceedShortens
  <2>3. Work(c)' \in Nat
    BY <1>1, ProviderAssumption DEF WorkIsBounded
  <2>4. run'[c] = "idle" => Work(c)' = 0
    BY DEF Work
  <2>5. UNCHANGED <<phase, attempt, run>> => Work(c)' = Work(c)
    BY DEF Work, StepsLeft
  <2>6. Work(c)' <= Work(c)
    <3>1. CASE \E k \in Callers \ {c} : StartRun(k) \/ Proceed(k) \/ CancelRun(k)
      BY <1>1, <2>1, <3>1, OthersLeaveWork
    <3>2. CASE StartRun(c)
      BY <1>1, <3>2 DEF StartRun
    <3>3. CASE CancelRun(c)
      <4>1. run'[c] = "idle"
        BY <1>1, <3>3 DEF CancelRun, EndRun, CallTypes
      <4> QED
        BY <2>1, <2>4, <4>1
    <3>4. CASE Proceed(c)
      BY <2>1, <2>2, <2>3, <3>4
    <3>5. CASE ProcessEnds
      <4>1. run'[c] = "idle"
        BY <3>5 DEF ProcessEnds
      <4> QED
        BY <2>1, <2>4, <4>1
    <3>6. CASE WriteAudit \/ UNCHANGED allVars
      BY <2>1, <2>5, <3>6 DEF WriteAudit, vars, allVars, callVars
    <3> QED
      BY <1>1, <3>1, <3>2, <3>3, <3>4, <3>5, <3>6 DEF CallsNext
  <2> QED
    BY <2>2, <2>6
<1>2. ProviderInv /\ CallsInv /\ WorkIsBounded' /\ [CallsNext]_allVars => Shrink
  <2>1. CallsInv => CallTypes
    BY DEF CallsInv
  <2> QED
    BY <1>1, <2>1 DEF Shrink
<1> QED
  BY <1>2, ProviderInvHolds, BoundedRuns, PTL DEF CallsSpec, RunsShrink

---------------------------------------------------------------------------
(***************************************************************************)
(* Liveness.  Two things are hypotheses: that a run under way can go on, a *)
(* state predicate that TLC evaluates, because the provers cannot look     *)
(* into ENABLED; and the induction over the steps that are left, which is  *)
(* true of any predicate of a number but cannot be instantiated with a     *)
(* temporal formula.                                                       *)
(***************************************************************************)
CanProceed == \A c \in Callers : run[c] # "idle" => ENABLED <<Proceed(c)>>_allVars

EndsWithin(c, n) == run[c] # "idle" /\ Work(c) <= n ~> run[c] = "idle"

InductionOnWork ==
  \A c \in Callers :
    /\ EndsWithin(c, 0)
    /\ \A n \in Nat : EndsWithin(c, n) => EndsWithin(c, n + 1)
    => \A n \in Nat : EndsWithin(c, n)

\* A run with n + 1 steps left ends if one with n steps left does.
LEMMA OneStepLess ==
  ASSUME NEW c \in Callers, NEW n \in Nat
  PROVE  CallsSpec /\ GoesOn(c) /\ []CanProceed
           => (EndsWithin(c, n) => EndsWithin(c, n + 1))
<1> DEFINE Idle == run[c] = "idle"
           At == run[c] # "idle" /\ Work(c) <= n + 1
           Next1 == run[c] # "idle" /\ Work(c) <= n
<1>1. WorkIsBounded /\ WorkIsBounded' /\ Shrink /\ At =>
        /\ Idle' \/ At'
        /\ Proceed(c) => Idle' \/ Next1'
  BY ProviderAssumption DEF WorkIsBounded, Shrink
<1>2. UNCHANGED allVars /\ At => At'
  <2>1. UNCHANGED allVars => UNCHANGED <<phase, attempt, run>>
    BY DEF allVars, vars, callVars
  <2>2. UNCHANGED <<phase, attempt, run>> => Work(c)' = Work(c) /\ run'[c] = run[c]
    BY DEF Work, StepsLeft
  <2> QED
    BY <2>1, <2>2
<1>3. CanProceed /\ At => ENABLED <<Proceed(c)>>_allVars
  BY DEF CanProceed
<1> HIDE DEF Idle, At, Next1
<1>4. CallsSpec /\ GoesOn(c) /\ []CanProceed /\ (Next1 ~> Idle) => (At ~> Idle)
  BY <1>1, <1>2, <1>3, BoundedRuns, RunsComeToAnEnd,
     PTL DEF CallsSpec, GoesOn, RunsShrink
<1> QED
  BY <1>4 DEF EndsWithin, Idle, At, Next1

\* Whatever Ollama answers, and however often it answers nonsense, a run ends,
\* for any number of retries and whatever the other callers do.
THEOREM RunsEnd ==
  FairCallsSpec /\ []CanProceed /\ InductionOnWork => EveryRunEnds
<1> DEFINE Runs(c) == run[c] # "idle"
           Idle(c) == run[c] = "idle"
           Top == 4 * MaxRetries + 5
<1>1. ASSUME NEW c \in Callers
      PROVE  FairCallsSpec => GoesOn(c)
  BY DEF FairCallsSpec
<1>2. ASSUME NEW c \in Callers
      PROVE  CallsSpec => EndsWithin(c, 0)
  <2>1. WorkIsBounded => ~(run[c] # "idle" /\ Work(c) <= 0)
    BY ProviderAssumption DEF WorkIsBounded
  <2>2. CallsSpec => (run[c] # "idle" /\ Work(c) <= 0 ~> run[c] = "idle")
    BY <2>1, BoundedRuns, PTL
  <2> QED
    BY <2>2 DEF EndsWithin
<1>3. ASSUME NEW c \in Callers
      PROVE  FairCallsSpec /\ []CanProceed /\ InductionOnWork => EndsWithin(c, Top)
  <2>1. Top \in Nat
    BY ProviderAssumption
  <2>2. FairCallsSpec /\ []CanProceed
          => \A n \in Nat : EndsWithin(c, n) => EndsWithin(c, n + 1)
    BY <1>1, OneStepLess DEF FairCallsSpec
  <2> HIDE DEF Top
  <2> QED
    BY <1>2, <2>1, <2>2 DEF FairCallsSpec, InductionOnWork
<1>4. ASSUME NEW c \in Callers
      PROVE  CallsSpec /\ EndsWithin(c, Top) => (Runs(c) ~> Idle(c))
  <2>1. WorkIsBounded => Work(c) <= Top
    BY ProviderAssumption DEF WorkIsBounded
  <2>2. EndsWithin(c, Top) => (Runs(c) /\ Work(c) <= Top ~> Idle(c))
    BY DEF EndsWithin
  <2> HIDE DEF Top, Runs, Idle
  <2> QED
    BY <2>1, <2>2, BoundedRuns, PTL
<1> HIDE DEF Top
<1>5. FairCallsSpec /\ []CanProceed /\ InductionOnWork
        => \A c \in Callers : (Runs(c) ~> Idle(c))
  BY <1>3, <1>4 DEF FairCallsSpec
<1> QED
  BY <1>5 DEF EveryRunEnds
===========================================================================
