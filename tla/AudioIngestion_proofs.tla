------------------------ MODULE AudioIngestion_proofs ---------------------
(***************************************************************************)
(* Proofs about AudioIngestion, for any sets of clients, keys and requests *)
(* and any faults.                                                         *)
(***************************************************************************)
EXTENDS AudioIngestion, FiniteSetTheorems, TLAPS

\* What the requests work on has been issued.
WorkIssued == \A r \in Requests : \A n \in DOMAIN todo[r] : todo[r][n].key \in issued

\* A webhook call gets finitely many records.
EventsFinite == IsFiniteSet(events)

\* The temp files are accounted for.
FilesOK ==
  /\ tempFiles \in Nat /\ cutOff \in Nat
  /\ IsFiniteSet(Holding)
  /\ NoStrayFile

IngestionInv ==
  TypeOK /\ WorkIssued /\ EventsFinite /\ FilesOK /\ ExtractsOwnRow

\* The part of TypeOK and of WorkIssued about the requests.
RequestsOK ==
  /\ todo \in [Requests -> Seq(Item)]
  /\ stage \in [Requests -> Stages]
  /\ lost \subseteq issued
  /\ \A r \in Requests : (stage[r] = "idle") <=> (todo[r] = <<>>)
  /\ WorkIssued

---------------------------------------------------------------------------
\* The tail of a sequence holds nothing new.
LEMMA TailItems ==
  ASSUME NEW T, NEW s \in Seq(T), s # <<>>
  PROVE  /\ Tail(s) \in Seq(T)
         /\ \A n \in DOMAIN Tail(s) : \E m \in DOMAIN s : Tail(s)[n] = s[m]
<1>1. Len(s) \in Nat /\ Len(s) >= 1 /\ DOMAIN s = 1..Len(s)
  OBVIOUS
<1>2. Tail(s) \in Seq(T) /\ Len(Tail(s)) = Len(s) - 1
  BY <1>1
<1>3. \A n \in DOMAIN Tail(s) : n + 1 \in DOMAIN s /\ Tail(s)[n] = s[n + 1]
  BY <1>1, <1>2
<1> QED
  BY <1>2, <1>3

\* However a step of an item ends, the requests stay in order, and only the
\* request that made the step changes.
LEMMA ItemStep ==
  ASSUME RequestsOK, NEW r \in Requests, stage[r] # "idle", UNCHANGED issued,
         \/ \E s \in Stages \ {"idle"} : Goto(r, s)
         \/ Finish(r) \/ Abandon(r) \/ Raise(r)
  PROVE  /\ RequestsOK'
         /\ row' \in {row, [row EXCEPT ![r] = NoRow]}
         /\ \A q \in Requests \ {r} : todo'[q] = todo[q] /\ stage'[q] = stage[q]
         /\ stage'[r] \in Extracting => UNCHANGED <<todo, row>>
<1>1. todo[r] \in Seq(Item) /\ todo[r] # <<>>
  BY DEF RequestsOK
<1>2. /\ Tail(todo[r]) \in Seq(Item)
      /\ \A n \in DOMAIN Tail(todo[r]) : \E m \in DOMAIN todo[r] : Tail(todo[r])[n] = todo[r][m]
  BY <1>1, TailItems
<1>3. KeysOf(todo[r]) \subseteq issued /\ Current(r).key \in issued
  BY <1>1 DEF RequestsOK, WorkIssued, KeysOf, Current
<1>4. ASSUME NEW s \in Stages \ {"idle"}, Goto(r, s)
      PROVE  /\ RequestsOK' /\ UNCHANGED <<todo, row>>
             /\ \A q \in Requests \ {r} : stage'[q] = stage[q]
  BY <1>1, <1>4 DEF Goto, RequestsOK, WorkIssued
<1>5. ASSUME NEW rest \in {<<>>, Tail(todo[r])}, Continue(r, rest), lost' \subseteq issued
      PROVE  /\ RequestsOK' /\ row' = [row EXCEPT ![r] = NoRow]
             /\ \A q \in Requests \ {r} : todo'[q] = todo[q] /\ stage'[q] = stage[q]
             /\ stage'[r] \notin Extracting
  <2>1. rest \in Seq(Item)
    <3>1. <<>> \in Seq(Item)
      OBVIOUS
    <3> QED
      BY <1>2, <3>1
  <2>2. \A n \in DOMAIN rest : rest[n].key \in issued
    <3>1. \A m \in DOMAIN todo[r] : todo[r][m].key \in issued
      BY DEF RequestsOK, WorkIssued
    <3>2. CASE rest = <<>>
      BY <3>2
    <3>3. CASE rest = Tail(todo[r])
      BY <1>2, <3>1, <3>3
    <3> QED
      BY <3>2, <3>3
  <2>3. todo' = [todo EXCEPT ![r] = rest]
    BY <1>5 DEF Continue
  <2>4. WorkIssued'
    BY <2>2, <2>3 DEF RequestsOK, WorkIssued
  <2>5. stage'[r] = (IF rest = <<>> THEN "idle" ELSE "check")
    BY <1>5 DEF Continue, RequestsOK
  <2> QED
    BY <1>5, <2>1, <2>3, <2>4, <2>5 DEF Continue, RequestsOK, Extracting, Stages
<1>6. CASE Finish(r) \/ Abandon(r)
  BY <1>3, <1>5, <1>6 DEF Finish, Abandon, RequestsOK
<1>7. CASE Raise(r)
  BY <1>3, <1>5, <1>7 DEF Raise, RequestsOK
<1> QED
  BY <1>4, <1>5, <1>6, <1>7

\* A step that leaves the rows and every other request alone keeps the
\* extractions on their rows.
LEMMA SameRows ==
  ASSUME TypeOK, ExtractsOwnRow, NEW r \in Requests, UNCHANGED rows,
         row' \in {row, [row EXCEPT ![r] = NoRow]},
         \A q \in Requests \ {r} : todo'[q] = todo[q] /\ stage'[q] = stage[q],
         stage'[r] \in Extracting =>
           UNCHANGED <<todo, row>> /\ stage[r] \in Extracting
  PROVE  row' \in [Requests -> 0..Len(rows)] /\ ExtractsOwnRow'
<1>1. row \in [Requests -> 0..Len(rows)] /\ Len(rows) \in Nat /\ DOMAIN rows = 1..Len(rows)
  BY DEF TypeOK
<1>2. row' \in [Requests -> 0..Len(rows)]
  BY <1>1 DEF NoRow
<1>3. \A q \in Requests \ {r} : row'[q] = row[q]
  BY <1>1
<1>4. row'[r] \in {row[r], 0}
  BY <1>1 DEF NoRow
<1>5. ASSUME NEW p \in Requests, stage'[p] \in Extracting
      PROVE  /\ stage[p] \in Extracting /\ row'[p] = row[p] /\ Current(p)' = Current(p)
             /\ \A q \in Requests \ {p} : row'[q] # row'[p]
  <2>1. stage[p] \in Extracting /\ row'[p] = row[p] /\ todo'[p] = todo[p]
    BY <1>3, <1>5
  <2>2. row[p] \in DOMAIN rows /\ \A q \in Requests \ {p} : row[q] # row[p]
    BY <2>1 DEF ExtractsOwnRow
  <2>3. \A q \in Requests \ {p} : row'[q] \in {row[q], 0}
    BY <1>3, <1>4
  <2> QED
    BY <1>1, <2>1, <2>2, <2>3 DEF Current
<1> QED
  BY <1>2, <1>5 DEF ExtractsOwnRow

---------------------------------------------------------------------------
\* A request is one of finitely many that hold a file, and its file is counted.
LEMMA OneHolds ==
  ASSUME FilesOK, NEW r \in Holding
  PROVE  /\ tempFiles - 1 \in Nat
         /\ IsFiniteSet(Holding \ {r})
         /\ Cardinality(Holding) \in Nat
         /\ Cardinality(Holding \ {r}) = Cardinality(Holding) - 1
<1>1. /\ IsFiniteSet(Holding) /\ Cardinality(Holding) \in Nat
      /\ IsFiniteSet(Holding \ {r})
      /\ Cardinality(Holding \ {r}) \in Nat
      /\ Cardinality(Holding \ {r}) = Cardinality(Holding) - 1
  BY FS_RemoveElement, FS_CardinalityType DEF FilesOK
<1>2. tempFiles = Cardinality(Holding) + cutOff /\ cutOff \in Nat
  BY DEF FilesOK, NoStrayFile
<1> HIDE DEF Holding
<1>3. \A a, b, n \in Nat : a = n - 1 => (n + b) - 1 \in Nat
  OBVIOUS
<1> QED
  BY <1>1, <1>2, <1>3

\* Every step keeps the account of the temp files.
LEMMA FilesStep ==
  ASSUME stage \in [Requests -> Stages], FilesOK, [Next]_vars
  PROVE  FilesOK'
<1> DEFINE held == Cardinality(Holding)
<1>0. /\ IsFiniteSet(Holding) /\ held \in Nat
      /\ tempFiles \in Nat /\ cutOff \in Nat /\ tempFiles = held + cutOff
  BY FS_CardinalityType DEF FilesOK, NoStrayFile
<1>a. ASSUME Holding' = Holding, UNCHANGED fileVars
      PROVE  FilesOK'
  BY <1>a DEF FilesOK, NoStrayFile, fileVars
\* A step of one request that ends in the given stage.
<1>b. ASSUME NEW r \in Requests, NEW s, stage' = [stage EXCEPT ![r] = s]
      PROVE  Holding' = IF s \in {"download", "transcribe"}
                        THEN Holding \cup {r} ELSE Holding \ {r}
  BY <1>b DEF Holding
\* The steps of an item that end it, or go on behind the transcription.
<1>c. ASSUME NEW r \in Requests,
             Goto(r, "save") \/ Finish(r) \/ Abandon(r) \/ Raise(r)
      PROVE  Holding' = Holding \ {r}
  <2>1. PICK s \in {"save", "idle", "check"} : stage' = [stage EXCEPT ![r] = s]
    BY <1>c DEF Goto, Finish, Abandon, Raise, Continue
  <2> QED
    BY <1>b, <2>1
<1>d. ASSUME NEW r \in Holding, Holding' = Holding \ {r},
             \/ Unlink
             \/ cutOff' = cutOff + 1 /\ UNCHANGED tempFiles
      PROVE  FilesOK'
  <2>1. /\ tempFiles - 1 \in Nat /\ IsFiniteSet(Holding \ {r})
        /\ Cardinality(Holding \ {r}) = held - 1
    BY OneHolds
  <2>2. IsFiniteSet(Holding') /\ Cardinality(Holding') = held - 1
    BY <1>d, <2>1
  <2> HIDE DEF held
  <2>3. /\ tempFiles' \in Nat /\ cutOff' \in Nat
        /\ tempFiles' = (held - 1) + cutOff'
    BY <1>0, <1>d, <2>1 DEF Unlink
  <2> QED
    BY <2>2, <2>3 DEF FilesOK, NoStrayFile
<1>1. CASE Presign \/ Upload \/ LoseEvent \/ RemoveClient \/ UNCHANGED vars
  <2>1. UNCHANGED <<stage, fileVars>>
    BY <1>1 DEF Presign, Upload, LoseEvent, RemoveClient, vars, requestVars
  <2> QED
    BY <1>a, <2>1 DEF Holding
<1>2. ASSUME NEW r \in Requests, Webhook(r) \/ Process(r)
      PROVE  FilesOK'
  <2>1. UNCHANGED fileVars /\ stage[r] = "idle" /\ \E items : Begin(r, items)
    BY <1>2, Zenon DEF Webhook, Process
  <2>2. PICK s \in {"idle", "check"} : stage' = [stage EXCEPT ![r] = s]
    BY <2>1 DEF Begin
  <2>3. Holding' = Holding \ {r} /\ r \notin Holding
    BY <1>b, <2>1, <2>2 DEF Holding
  <2> QED
    BY <1>a, <2>1, <2>3
<1>3. ASSUME NEW r \in Requests, CheckClient(r)
      PROVE  FilesOK'
  <2>0. r \notin Holding
    BY <1>3 DEF CheckClient, Holding
  <2>1. CASE Goto(r, "download") /\ MakeTemp
    <3>1. Holding' = Holding \cup {r}
      BY <1>b, <2>1 DEF Goto
    <3>2. IsFiniteSet(Holding') /\ Cardinality(Holding') = held + 1
      BY <1>0, <2>0, <3>1, FS_AddElement
    <3> HIDE DEF held
    <3>3. /\ tempFiles' \in Nat /\ cutOff' \in Nat
          /\ tempFiles' = (held + 1) + cutOff'
      BY <1>0, <2>1 DEF MakeTemp
    <3> QED
      BY <3>2, <3>3 DEF FilesOK, NoStrayFile
  <2>2. CASE (Finish(r) \/ Raise(r)) /\ UNCHANGED fileVars
    <3>1. Holding' = Holding
      BY <1>c, <2>0, <2>2
    <3> QED
      BY <1>a, <2>2, <3>1
  <2> QED
    BY <1>3, <2>1, <2>2 DEF CheckClient
<1>4. ASSUME NEW r \in Requests, Download(r)
      PROVE  FilesOK'
  <2>0. r \in Holding
    BY <1>4 DEF Download, Holding
  <2>1. CASE Goto(r, "transcribe") /\ UNCHANGED fileVars
    <3>1. stage' = [stage EXCEPT ![r] = "transcribe"]
      BY <2>1 DEF Goto
    <3>2. Holding' = Holding \cup {r}
      BY <1>b, <3>1
    <3>3. Holding' = Holding
      BY <2>0, <3>2
    <3> QED
      BY <1>a, <2>1, <3>3
  <2>2. CASE (Finish(r) \/ Abandon(r)) /\ Unlink
    BY <1>c, <1>d, <2>0, <2>2
  <2>3. CASE Raise(r) /\ cutOff' = cutOff + 1 /\ UNCHANGED tempFiles
    BY <1>c, <1>d, <2>0, <2>3
  <2> QED
    BY <1>4, <2>1, <2>2, <2>3 DEF Download
<1>5. ASSUME NEW r \in Requests, Transcribe(r)
      PROVE  FilesOK'
  <2>1. r \in Holding /\ Unlink
    BY <1>5 DEF Transcribe, Holding
  <2>2. Goto(r, "save") \/ Abandon(r) \/ Raise(r)
    BY <1>5 DEF Transcribe
  <2> QED
    BY <1>c, <1>d, <2>1, <2>2
<1>6. ASSUME NEW r \in Requests, SaveInteraction(r) \/ Ask(r) \/ PersistTags(r)
      PROVE  FilesOK'
  <2>1. UNCHANGED fileVars
    BY <1>6 DEF SaveInteraction, Ask, PersistTags
  <2>2. r \notin Holding
    BY <1>6 DEF SaveInteraction, Ask, PersistTags, Holding
  <2>3. PICK s \in {"ask", "ask again", "persist", "idle", "check"} :
          stage' = [stage EXCEPT ![r] = s]
    BY <1>6 DEF SaveInteraction, Ask, PersistTags, Goto, Finish, Raise, Continue
  <2>4. Holding' = Holding \ {r}
    BY <1>b, <2>3
  <2>5. Holding' = Holding
    BY <2>2, <2>4
  <2> QED
    BY <1>a, <2>1, <2>5
<1>7. CASE Crash
  <2>1. /\ stage' = [r \in Requests |-> "idle"]
        /\ cutOff' = cutOff + held /\ tempFiles' = tempFiles
    BY <1>7 DEF Crash
  <2>2. Holding' = {}
    BY <2>1 DEF Holding
  <2>3. IsFiniteSet(Holding') /\ Cardinality(Holding') = 0
    BY <2>2, FS_EmptySet
  <2> HIDE DEF held
  <2>4. /\ tempFiles' \in Nat /\ cutOff' \in Nat
        /\ tempFiles' = 0 + cutOff'
    BY <1>0, <2>1
  <2> QED
    BY <2>3, <2>4 DEF FilesOK, NoStrayFile
<1> QED
  BY <1>1, <1>2, <1>3, <1>4, <1>5, <1>6, <1>7 DEF Next, Work

---------------------------------------------------------------------------
\* Every action keeps the invariant.
LEMMA IngestionStep == IngestionInv /\ [Next]_vars => IngestionInv'
<1> SUFFICES ASSUME IngestionInv, [Next]_vars
             PROVE  IngestionInv'
  OBVIOUS
<1> USE DEF IngestionInv
<1>0. /\ RequestsOK
      /\ rows \in Seq(Row) /\ Len(rows) \in Nat /\ DOMAIN rows = 1..Len(rows)
      /\ row \in [Requests -> 0..Len(rows)]
  BY DEF TypeOK, RequestsOK
<1>f. FilesOK' /\ tempFiles' \in Nat /\ cutOff' \in Nat
  <2>1. FilesOK'
    BY FilesStep DEF TypeOK
  <2> QED
    BY <2>1 DEF FilesOK
\* The steps that touch neither the requests nor the rows.
<1>a. ASSUME UNCHANGED <<rows, requestVars>>, lost' \subseteq issued',
             clients' \subseteq Clients, issued \subseteq issued', issued' \subseteq Key,
             objects' \subseteq issued', events' \subseteq objects', EventsFinite',
             extra' \in 0..MaxExtra
      PROVE  IngestionInv'
  <2>1. TypeOK'
    BY <1>a, <1>f DEF TypeOK, requestVars
  <2>2. WorkIssued'
    BY <1>a DEF WorkIssued, requestVars
  <2>3. ExtractsOwnRow'
    BY <1>a DEF ExtractsOwnRow, Current, requestVars
  <2> QED
    BY <1>a, <1>f, <2>1, <2>2, <2>3
\* The steps of an item that leave the rows alone.
<1>b. ASSUME NEW r \in Requests, stage[r] # "idle",
             \/ \E s \in Stages \ {"idle"} :
                  Goto(r, s) /\ (s \in Extracting => stage[r] \in Extracting)
             \/ Finish(r) \/ Abandon(r) \/ Raise(r),
             UNCHANGED <<clients, bucketVars, extra, rows>>
      PROVE  IngestionInv'
  <2>1. UNCHANGED <<issued, objects, events, rows>>
    BY <1>b DEF bucketVars
  <2>2. /\ RequestsOK'
        /\ row' \in {row, [row EXCEPT ![r] = NoRow]}
        /\ \A q \in Requests \ {r} : todo'[q] = todo[q] /\ stage'[q] = stage[q]
        /\ stage'[r] \in Extracting => UNCHANGED <<todo, row>>
    BY <1>0, <1>b, <2>1, ItemStep
  <2>3. stage'[r] \in Extracting => stage[r] \in Extracting
    <3>1. ASSUME NEW s \in Stages, Goto(r, s), s \in Extracting => stage[r] \in Extracting
          PROVE  stage'[r] \in Extracting => stage[r] \in Extracting
      BY <1>0, <3>1 DEF Goto, RequestsOK
    <3>2. ASSUME NEW rest, Continue(r, rest)
          PROVE  stage'[r] \notin Extracting
      BY <1>0, <3>2 DEF Continue, RequestsOK, Extracting
    <3> QED
      BY <1>b, <3>1, <3>2 DEF Finish, Abandon, Raise
  <2>4. row' \in [Requests -> 0..Len(rows)] /\ ExtractsOwnRow'
    BY <2>1, <2>2, <2>3, SameRows
  <2>5. TypeOK'
    BY <1>b, <1>f, <2>1, <2>2, <2>4 DEF TypeOK, RequestsOK
  <2> QED
    BY <1>f, <2>1, <2>2, <2>4, <2>5 DEF RequestsOK, EventsFinite
\* Rows may also be added or change their state, but not to "tagged" for a row
\* that is being extracted.
<1>c. ASSUME NEW r \in Requests, RequestsOK',
             UNCHANGED <<clients, issued, objects, events, extra>>,
             rows' \in Seq(Row), Len(rows') >= Len(rows),
             row' \in {row, [row EXCEPT ![r] = NoRow]},
             \A q \in Requests \ {r} : todo'[q] = todo[q] /\ stage'[q] = stage[q],
             stage'[r] \notin Extracting,
             \A n \in DOMAIN rows :
               \/ rows'[n] = rows[n]
               \/ n = row[r] /\ stage[r] \in Extracting
      PROVE  IngestionInv'
  <2>1. Len(rows') \in Nat /\ DOMAIN rows' = 1..Len(rows')
    BY <1>c
  <2>2. row' \in [Requests -> 0..Len(rows')]
    BY <1>0, <1>c, <2>1 DEF NoRow
  <2>3. TypeOK'
    BY <1>c, <1>f, <2>2 DEF TypeOK, RequestsOK
  <2>4. ASSUME NEW p \in Requests, stage'[p] \in Extracting
        PROVE  /\ row'[p] \in DOMAIN rows'
               /\ rows'[row'[p]].client = Current(p)'.client
               /\ rows'[row'[p]].key = Current(p)'.key
               /\ rows'[row'[p]].state # "tagged"
               /\ \A q \in Requests \ {p} : row'[q] # row'[p]
    <3>1. p # r /\ stage[p] \in Extracting /\ todo'[p] = todo[p] /\ row'[p] = row[p]
      BY <1>0, <1>c, <2>4
    <3>2. /\ row[p] \in DOMAIN rows
          /\ rows[row[p]].client = Current(p).client
          /\ rows[row[p]].key = Current(p).key
          /\ rows[row[p]].state # "tagged"
          /\ \A q \in Requests \ {p} : row[q] # row[p]
      BY <3>1 DEF ExtractsOwnRow
    <3>3. rows'[row[p]] = rows[row[p]]
      BY <1>c, <3>1, <3>2 DEF ExtractsOwnRow
    <3>4. \A q \in Requests : row'[q] \in {row[q], 0}
      BY <1>0, <1>c DEF NoRow
    <3> QED
      BY <1>0, <1>c, <2>1, <3>1, <3>2, <3>3, <3>4 DEF Current
  <2>5. ExtractsOwnRow'
    BY <2>4 DEF ExtractsOwnRow
  <2> QED
    BY <1>c, <1>f, <2>3, <2>5 DEF RequestsOK, EventsFinite
<1>1. CASE Presign \/ Upload \/ LoseEvent
  <2>1. UNCHANGED <<clients, extra, rows, requestVars>>
    BY <1>1 DEF Presign, Upload, LoseEvent
  <2>2. /\ issued \subseteq issued' /\ issued' \subseteq Key
        /\ objects' \subseteq issued' /\ events' \subseteq objects' /\ lost' \subseteq issued'
    <3>1. CASE Presign
      BY <3>1 DEF Presign, TypeOK, Key
    <3>2. CASE Upload
      BY <3>2 DEF Upload, TypeOK
    <3>3. CASE LoseEvent
      BY <3>3 DEF LoseEvent, TypeOK
    <3> QED
      BY <1>1, <3>1, <3>2, <3>3
  <2>3. EventsFinite'
    <3>1. events' \subseteq events \/ \E k \in objects' : events' = events \cup {k}
      BY <1>1 DEF Presign, Upload, LoseEvent
    <3> QED
      BY <3>1, FS_Subset, FS_AddElement DEF EventsFinite
  <2> QED
    BY <1>a, <2>1, <2>2, <2>3 DEF TypeOK
<1>2. ASSUME NEW r \in Requests, Webhook(r) \/ Process(r)
      PROVE  IngestionInv'
  <2>1. /\ UNCHANGED <<clients, issued, objects, rows, row, lost>>
        /\ events' \subseteq events
        /\ extra' = extra \/ (extra < MaxExtra /\ extra' = extra + 1)
    <3>1. CASE Webhook(r)
      <4>1. UNCHANGED <<clients, issued, objects, rows, lost>>
        BY <3>1 DEF Webhook
      <4>2. \E items : Begin(r, items)
        BY <3>1, Zenon DEF Webhook
      <4>3. \E batch \in SUBSET events :
              \/ events' = events \ batch /\ UNCHANGED extra
              \/ extra < MaxExtra /\ extra' = extra + 1 /\ UNCHANGED events
        BY <3>1, Zenon DEF Webhook
      <4>4. row' = row
        BY <4>2 DEF Begin
      <4>5. events' \subseteq events
        BY <4>3
      <4>6. extra' = extra \/ (extra < MaxExtra /\ extra' = extra + 1)
        BY <4>3
      <4> QED
        BY <4>1, <4>4, <4>5, <4>6
    <3>2. CASE Process(r)
      BY <3>2 DEF Process, Begin, bucketVars
    <3> QED
      BY <1>2, <3>1, <3>2
  <2>11. extra' \in 0..MaxExtra
    BY <2>1, IngestionAssumption DEF TypeOK
  <2>2. stage[r] = "idle"
    BY <1>2 DEF Webhook, Process
  <2>3. \E items \in Seq(Item) :
          Begin(r, items) /\ \A n \in DOMAIN items : items[n].key \in issued
    <3>1. CASE Webhook(r)
      <4>0. PICK batch \in SUBSET events :
              \E ks \in SetToSeqs({k \in batch : k.ext = "audio"}) :
                Begin(r, [n \in DOMAIN ks |-> [client |-> ks[n].client, key |-> ks[n]]])
        BY <3>1 DEF Webhook
      <4> DEFINE known == {k \in batch : k.ext = "audio"}
      <4>1. PICK ks \in SetToSeqs(known) :
              Begin(r, [n \in DOMAIN ks |-> [client |-> ks[n].client, key |-> ks[n]]])
        BY <4>0
      <4> DEFINE items == [n \in DOMAIN ks |-> [client |-> ks[n].client, key |-> ks[n]]]
      <4>2. IsFiniteSet(known) /\ Cardinality(known) \in Nat
        BY FS_Subset, FS_CardinalityType DEF EventsFinite
      <4>3. ks \in [1..Cardinality(known) -> known]
        BY DEF SetToSeqs
      <4>4. known \subseteq issued /\ known \subseteq Key
        BY DEF TypeOK
      <4>5. \A n \in 1..Cardinality(known) :
              [client |-> ks[n].client, key |-> ks[n]] \in Item /\ ks[n] \in issued
        BY <4>3, <4>4 DEF Item, Key
      <4>6. items \in [1..Cardinality(known) -> Item]
        <5>1. DOMAIN ks = 1..Cardinality(known)
          BY <4>3
        <5>2. \A n \in 1..Cardinality(known) : items[n] \in Item
          BY <4>5, <5>1, Zenon
        <5>3. items = [n \in 1..Cardinality(known) |-> items[n]]
          BY <5>1, Zenon
        <5> HIDE DEF items, known
        <5> QED
          BY <5>2, <5>3
      <4>7. items \in Seq(Item)
        <5> DEFINE total == Cardinality(known)
        <5>1. total \in Nat /\ items \in [1..total -> Item]
          BY <4>2, <4>6
        <5> HIDE DEF items, total
        <5> QED
          BY <5>1
      <4>8. \A n \in DOMAIN items : items[n].key \in issued
        BY <4>3, <4>5
      <4> QED
        BY <4>1, <4>7, <4>8
    <3>2. CASE Process(r)
      <4>1. PICK it \in [client : Clients, key : issued] : Begin(r, <<it>>)
        BY <3>2 DEF Process
      <4>2. it \in Item /\ it.key \in issued
        BY DEF Item, TypeOK
      <4>3. <<it>> \in Seq(Item) /\ \A n \in DOMAIN <<it>> : <<it>>[n].key \in issued
        BY <4>2
      <4> QED
        BY <4>1, <4>3
    <3> QED
      BY <1>2, <3>1, <3>2
  <2>4. PICK items \in Seq(Item) :
          Begin(r, items) /\ \A n \in DOMAIN items : items[n].key \in issued
    BY <2>3
  <2>5. /\ todo' = [todo EXCEPT ![r] = items]
        /\ stage' = [stage EXCEPT ![r] = IF items = <<>> THEN "idle" ELSE "check"]
    BY <2>4 DEF Begin
  <2>6. RequestsOK'
    <3>1. WorkIssued'
      BY <1>0, <2>1, <2>4, <2>5 DEF WorkIssued, RequestsOK
    <3> QED
      BY <1>0, <2>1, <2>5, <3>1 DEF RequestsOK, Stages
  <2>7. ExtractsOwnRow'
    <3>1. stage'[r] \notin Extracting
      BY <1>0, <2>5 DEF RequestsOK, Extracting
    <3>2. \A q \in Requests \ {r} : todo'[q] = todo[q] /\ stage'[q] = stage[q]
      BY <1>0, <2>5 DEF RequestsOK
    <3> QED
      BY <2>1, <3>1, <3>2, SameRows
  <2>8. TypeOK'
    BY <1>f, <2>1, <2>11, <2>6 DEF TypeOK, RequestsOK
  <2> QED
    BY <1>f, <2>1, <2>6, <2>7, <2>8, FS_Subset DEF RequestsOK, EventsFinite
<1>3. ASSUME NEW r \in Requests, CheckClient(r)
      PROVE  IngestionInv'
  <2>2. stage[r] # "idle" /\ UNCHANGED <<clients, bucketVars, extra, rows>>
    BY <1>3 DEF CheckClient
  <2>3. \/ \E s \in {"download"} : Goto(r, s) /\ (s \in Extracting => stage[r] \in Extracting)
        \/ Finish(r) \/ Abandon(r) \/ Raise(r)
    BY <1>3 DEF CheckClient, Extracting
  <2>4. {"download"} \subseteq Stages \ {"idle"}
    BY DEF Stages
  <2> QED
    BY <1>b, <2>2, <2>3, <2>4
<1>4. ASSUME NEW r \in Requests, Download(r)
      PROVE  IngestionInv'
  <2>2. stage[r] # "idle" /\ UNCHANGED <<clients, bucketVars, extra, rows>>
    BY <1>4 DEF Download
  <2>3. \/ \E s \in {"transcribe"} : Goto(r, s) /\ (s \in Extracting => stage[r] \in Extracting)
        \/ Finish(r) \/ Abandon(r) \/ Raise(r)
    BY <1>4 DEF Download, Extracting
  <2>4. {"transcribe"} \subseteq Stages \ {"idle"}
    BY DEF Stages
  <2> QED
    BY <1>b, <2>2, <2>3, <2>4
<1>5. ASSUME NEW r \in Requests, Transcribe(r)
      PROVE  IngestionInv'
  <2>2. stage[r] # "idle" /\ UNCHANGED <<clients, bucketVars, extra, rows>>
    BY <1>5 DEF Transcribe
  <2>3. \/ \E s \in {"save"} : Goto(r, s) /\ (s \in Extracting => stage[r] \in Extracting)
        \/ Finish(r) \/ Abandon(r) \/ Raise(r)
    BY <1>5 DEF Transcribe, Extracting
  <2>4. {"save"} \subseteq Stages \ {"idle"}
    BY DEF Stages
  <2> QED
    BY <1>b, <2>2, <2>3, <2>4
<1>6. ASSUME NEW r \in Requests, Ask(r)
      PROVE  IngestionInv'
  <2>2. stage[r] # "idle" /\ UNCHANGED <<clients, bucketVars, extra, rows>>
    BY <1>6 DEF Ask
  <2>3. \/ \E s \in {"persist", "ask again"} : Goto(r, s) /\ (s \in Extracting => stage[r] \in Extracting)
        \/ Finish(r) \/ Abandon(r) \/ Raise(r)
    BY <1>6 DEF Ask, Extracting
  <2>4. {"persist", "ask again"} \subseteq Stages \ {"idle"}
    BY DEF Stages
  <2> QED
    BY <1>b, <2>2, <2>3, <2>4
<1>7. ASSUME NEW r \in Requests, SaveInteraction(r)
      PROVE  IngestionInv'
  <2> DEFINE new == [client |-> Current(r).client, key |-> Current(r).key, state |-> "saved"]
  <2>1. stage[r] = "save" /\ UNCHANGED <<clients, issued, objects, events, extra>>
    BY <1>7 DEF SaveInteraction, bucketVars
  <2>2. CASE UNCHANGED rows
    BY <1>b, <1>7, <2>1, <2>2
    DEF SaveInteraction, bucketVars, TypeOK
  <2>3. CASE rows' = Append(rows, new)
    <3>1. /\ Current(r) \in Item /\ new \in Row
      <4>1. todo[r] \in Seq(Item) /\ todo[r] # <<>>
        BY <1>0, <2>1 DEF RequestsOK
      <4>2. Current(r) \in Item
        BY <4>1 DEF Current
      <4> QED
        BY <4>2 DEF Item, Row
    <3>2. /\ rows' \in Seq(Row) /\ Len(rows') = Len(rows) + 1
          /\ DOMAIN rows' = 1..(Len(rows) + 1)
          /\ rows'[Len(rows) + 1] = new
          /\ \A n \in DOMAIN rows : rows'[n] = rows[n]
      BY <1>0, <2>3, <3>1
    <3>3. CASE /\ row' = [row EXCEPT ![r] = Len(rows) + 1]
               /\ stage' = [stage EXCEPT ![r] = "ask"]
               /\ UNCHANGED <<todo, lost>>
      <4>1. RequestsOK'
        BY <1>0, <2>1, <3>3 DEF RequestsOK, WorkIssued, Stages
      <4>2. row' \in [Requests -> 0..Len(rows')]
        BY <1>0, <3>2, <3>3
      <4>3. TypeOK'
        BY <1>f, <2>1, <3>2, <4>1, <4>2 DEF TypeOK, RequestsOK
      <4>4. ASSUME NEW p \in Requests, stage'[p] \in Extracting
            PROVE  /\ row'[p] \in DOMAIN rows'
                   /\ rows'[row'[p]].client = Current(p)'.client
                   /\ rows'[row'[p]].key = Current(p)'.key
                   /\ rows'[row'[p]].state # "tagged"
                   /\ \A q \in Requests \ {p} : row'[q] # row'[p]
        <5>1. Current(p)' = Current(p)
          BY <3>3 DEF Current
        <5>2. \A q \in Requests : row[q] # Len(rows) + 1 /\ row[q] \in 0..Len(rows)
          BY <1>0
        <5>3. CASE p = r
          BY <1>0, <3>2, <3>3, <5>1, <5>2, <5>3
        <5>4. CASE p # r
          <6>1. stage[p] \in Extracting /\ row'[p] = row[p] /\ row'[r] = Len(rows) + 1
            BY <1>0, <3>3, <4>4, <5>4 DEF RequestsOK
          <6> QED
            BY <1>0, <3>2, <3>3, <5>1, <5>2, <5>4, <6>1 DEF ExtractsOwnRow
        <5> QED
          BY <5>3, <5>4
      <4>5. ExtractsOwnRow'
        BY <4>4 DEF ExtractsOwnRow
      <4> QED
        BY <1>f, <2>1, <4>1, <4>3, <4>5 DEF RequestsOK, EventsFinite
    <3>4. CASE Raise(r)
      <4>1. /\ RequestsOK' /\ row' \in {row, [row EXCEPT ![r] = NoRow]}
            /\ \A q \in Requests \ {r} : todo'[q] = todo[q] /\ stage'[q] = stage[q]
        BY <1>0, <2>1, <3>4, ItemStep
      <4>2. stage'[r] \notin Extracting
        BY <1>0, <3>4 DEF Raise, Continue, RequestsOK, Extracting
      <4> QED
        BY <1>c, <2>1, <3>2, <4>1, <4>2
    <3> QED
      BY <1>7, <2>3, <3>2, <3>3, <3>4 DEF SaveInteraction
  <2> QED
    BY <1>7, <2>2, <2>3 DEF SaveInteraction
<1>8. ASSUME NEW r \in Requests, PersistTags(r)
      PROVE  IngestionInv'
  <2>1. stage[r] = "persist" /\ UNCHANGED <<clients, issued, objects, events, extra>>
    BY <1>8 DEF PersistTags, bucketVars
  <2>2. Finish(r) \/ Raise(r)
    BY <1>8 DEF PersistTags
  <2>3. /\ RequestsOK' /\ row' \in {row, [row EXCEPT ![r] = NoRow]}
        /\ \A q \in Requests \ {r} : todo'[q] = todo[q] /\ stage'[q] = stage[q]
    BY <1>0, <2>1, <2>2, ItemStep
  <2>4. stage'[r] \notin Extracting
    BY <1>0, <2>2 DEF Finish, Raise, Continue, RequestsOK, Extracting
  <2>5. row[r] \in DOMAIN rows /\ stage[r] \in Extracting
    BY <2>1 DEF ExtractsOwnRow, Extracting
  <2>6. CASE rows' = [rows EXCEPT ![row[r]].state = "tagged"]
    <3> DEFINE tagged == [rows[row[r]] EXCEPT !.state = "tagged"]
    <3>1. tagged \in Row
      <4>1. rows[row[r]] \in Row
        BY <1>0, <2>5
      <4> QED
        BY <4>1 DEF Row
    <3>2. rows' = [rows EXCEPT ![row[r]] = tagged]
      BY <2>6
    <3> HIDE DEF tagged
    <3>3. rows' \in Seq(Row) /\ Len(rows') = Len(rows)
          /\ \A n \in DOMAIN rows : rows'[n] = rows[n] \/ n = row[r]
      BY <1>0, <2>5, <3>1, <3>2
    <3> QED
      BY <1>0, <1>c, <2>1, <2>3, <2>4, <2>5, <3>3
  <2>7. CASE UNCHANGED rows
    BY <1>0, <1>c, <2>1, <2>3, <2>4, <2>7
  <2> QED
    BY <1>8, <2>6, <2>7 DEF PersistTags
<1>9. CASE RemoveClient
  <2>1. PICK c \in clients :
          rows' = [n \in DOMAIN rows |-> IF rows[n].client = c
                                        THEN [rows[n] EXCEPT !.state = "deleted"]
                                        ELSE rows[n]]
    BY <1>9 DEF RemoveClient
  <2>2. /\ clients' \subseteq clients
        /\ UNCHANGED <<issued, objects, events, extra, todo, stage, row, lost>>
    BY <1>9 DEF RemoveClient, bucketVars, requestVars
  <2>3. \A n \in DOMAIN rows :
          /\ rows'[n] \in Row
          /\ rows'[n].client = rows[n].client /\ rows'[n].key = rows[n].key
          /\ rows'[n].state \in {rows[n].state, "deleted"}
    <3> TAKE n \in DOMAIN rows
    <3>1. rows[n] \in Row
      BY <1>0
    <3>2. rows'[n] \in {rows[n], [rows[n] EXCEPT !.state = "deleted"]}
      BY <2>1
    <3> QED
      BY <3>1, <3>2 DEF Row
  <2>4. rows' \in Seq(Row) /\ DOMAIN rows' = DOMAIN rows /\ Len(rows') = Len(rows)
    BY <1>0, <2>1, <2>3
  <2>5. TypeOK'
    BY <1>f, <2>2, <2>4 DEF TypeOK
  <2>6. ExtractsOwnRow'
    BY <2>2, <2>3, <2>4 DEF ExtractsOwnRow, Current
  <2> QED
    BY <1>f, <2>2, <2>5, <2>6 DEF WorkIssued, EventsFinite
<1>10. CASE Crash
  <2>1. /\ UNCHANGED <<clients, issued, objects, events, extra, rows>>
        /\ todo' = [r \in Requests |-> <<>>]
        /\ stage' = [r \in Requests |-> "idle"]
        /\ row' = [r \in Requests |-> NoRow]
    BY <1>10 DEF Crash, bucketVars
  <2>2. lost' \subseteq issued
    BY <1>0, <1>10 DEF Crash, KeysOf, RequestsOK, WorkIssued
  <2>4. <<>> \in Seq(Item)
    OBVIOUS
  <2>5. todo' \in [Requests -> Seq(Item)] /\ row' \in [Requests -> 0..Len(rows)]
    BY <1>0, <2>1, <2>4 DEF NoRow
  <2>6. TypeOK'
    BY <1>f, <2>1, <2>2, <2>5 DEF TypeOK, Stages
  <2>7. WorkIssued'
    BY <2>1 DEF WorkIssued
  <2>8. ExtractsOwnRow'
    BY <2>1 DEF ExtractsOwnRow, Extracting
  <2> QED
    BY <1>f, <2>1, <2>6, <2>7, <2>8 DEF EventsFinite
<1>11. CASE UNCHANGED vars
  BY <1>f, <1>11
  DEF vars, bucketVars, requestVars, TypeOK, WorkIssued, EventsFinite,
      ExtractsOwnRow, Current
<1> QED
  BY <1>1, <1>2, <1>3, <1>4, <1>5, <1>6, <1>7, <1>8, <1>9, <1>10, <1>11 DEF Next, Work

\* The inductive invariant holds in every reachable state.
LEMMA IngestionInvHolds == Spec => []IngestionInv
<1>1. Init => IngestionInv
  <2> SUFFICES ASSUME Init PROVE IngestionInv
    OBVIOUS
  <2>1. <<>> \in Seq(Item) /\ <<>> \in Seq(Row) /\ Len(<<>>) = 0
    OBVIOUS
  <2>2. TypeOK
    BY <2>1, IngestionAssumption DEF Init, TypeOK, Stages, NoRow
  <2>3. WorkIssued /\ ExtractsOwnRow
    BY DEF Init, WorkIssued, ExtractsOwnRow, Extracting
  <2>4. EventsFinite
    BY FS_EmptySet DEF Init, EventsFinite
  <2>5. FilesOK
    <3>1. Holding = {}
      BY DEF Init, Holding
    <3> QED
      BY <3>1, FS_EmptySet DEF Init, FilesOK, NoStrayFile
  <2> QED
    BY <2>2, <2>3, <2>4, <2>5 DEF IngestionInv
<1> QED
  BY <1>1, IngestionStep, PTL DEF Spec

\* The types of the ingestion hold, and every object that is worked on, stored
\* or lost is one that presign has handed out.
THEOREM IngestionTypes == Spec => []TypeOK
  BY IngestionInvHolds, PTL DEF IngestionInv

\* However requests for one object, repeated notifications and removals of the
\* client interleave, an extraction works on the row its own request saved.
THEOREM OwnRow == Spec => []ExtractsOwnRow
  BY IngestionInvHolds, PTL DEF IngestionInv

\* On every way out of an item the temp file goes, but for the two that cut the
\* download or the process off, for any number of requests
\* (storage.py:88-111, audio.py:148-166, 220-238).
THEOREM NoneStray == Spec => []NoStrayFile
  BY IngestionInvHolds, PTL DEF IngestionInv, FilesOK

---------------------------------------------------------------------------
(***************************************************************************)
(* How often a recording is stored.  Each row for a key was paid for by    *)
(* its first notification or by one of the extra calls; what is not paid   *)
(* out yet is an item that waits or a notification to come.                *)
(***************************************************************************)

\* The rows for key k.
RowsFor(k) == {n \in DOMAIN rows : rows[n].key = k}

\* The item m-th from the end of r's work is for k and has no row yet.  Seen
\* from the end an item keeps its place when the ones before it are done.
Waits(r, m, k) ==
  /\ m \in 1..Len(todo[r])
  /\ todo[r][Len(todo[r]) + 1 - m].key = k
  /\ m = Len(todo[r]) => stage[r] \notin Extracting

WaitingFor(k) == {p \in Requests \X Nat : Waits(p[1], p[2], k)}

\* The first notification of k is still to be taken.
Coming(k) == IF k \in events \/ k \notin objects THEN 1 ELSE 0

CountInv ==
  \A k \in Key :
    /\ IsFiniteSet(WaitingFor(k))
    /\ Cardinality(RowsFor(k)) + Cardinality(WaitingFor(k)) + Coming(k) <= 1 + extra

\* The sets that are counted are finite.
LEMMA CountsAreNumbers ==
  ASSUME TypeOK, NEW k \in Key, IsFiniteSet(WaitingFor(k))
  PROVE  /\ IsFiniteSet(RowsFor(k)) /\ Cardinality(RowsFor(k)) \in Nat
         /\ Cardinality(WaitingFor(k)) \in Nat /\ Coming(k) \in {0, 1}
         /\ extra \in Nat
<1>1. Len(rows) \in Nat /\ DOMAIN rows = 1..Len(rows)
  BY DEF TypeOK
<1>2. IsFiniteSet(1..Len(rows)) /\ RowsFor(k) \in SUBSET (1..Len(rows))
  BY <1>1, FS_Interval DEF RowsFor
<1>3. IsFiniteSet(RowsFor(k))
  BY <1>2, FS_Subset
<1> QED
  BY <1>3, FS_CardinalityType, IngestionAssumption DEF Coming, TypeOK

\* A step by which nothing new waits, which stores nothing and announces nothing
\* keeps the count.
LEMMA NothingNew ==
  ASSUME TypeOK, CountInv, NEW k \in Key, extra' \in {extra, extra + 1},
         RowsFor(k)' = RowsFor(k),
         \A r \in Requests, m \in Nat : Waits(r, m, k)' => Waits(r, m, k),
         k \in events' \/ k \notin objects' => k \in events \/ k \notin objects
  PROVE  /\ IsFiniteSet(WaitingFor(k)')
         /\ Cardinality(RowsFor(k)') + Cardinality(WaitingFor(k)') + Coming(k)' <= 1 + extra'
<1>1. IsFiniteSet(WaitingFor(k))
      /\ Cardinality(RowsFor(k)) + Cardinality(WaitingFor(k)) + Coming(k) <= 1 + extra
  BY DEF CountInv
<1>2. /\ Cardinality(RowsFor(k)) \in Nat /\ Cardinality(WaitingFor(k)) \in Nat
      /\ Coming(k) \in {0, 1} /\ extra \in Nat
  BY <1>1, CountsAreNumbers
<1>3. WaitingFor(k)' \in SUBSET WaitingFor(k)
  BY DEF WaitingFor
<1>4. /\ IsFiniteSet(WaitingFor(k)')
      /\ Cardinality(WaitingFor(k)') <= Cardinality(WaitingFor(k))
      /\ Cardinality(WaitingFor(k)') \in Nat
  BY <1>1, <1>3, FS_Subset, FS_CardinalityType
<1>5. Coming(k)' \in {0, 1} /\ Coming(k)' <= Coming(k)
  BY DEF Coming
<1> QED
  BY <1>1, <1>2, <1>4, <1>5

\* When request r goes on, or its item comes to an end, nothing new waits.
LEMMA ItemLeaves ==
  ASSUME RequestsOK, NEW r \in Requests, stage[r] # "idle",
         \/ \E s \in Stages :
              Goto(r, s) /\ (s \in Extracting \/ stage[r] \notin Extracting)
         \/ Finish(r) \/ Abandon(r) \/ Raise(r)
  PROVE  \A q \in Requests, m \in Nat, k \in Key : Waits(q, m, k)' => Waits(q, m, k)
<1> SUFFICES ASSUME NEW q \in Requests, NEW m \in Nat, NEW k \in Key, Waits(q, m, k)'
             PROVE  Waits(q, m, k)
  OBVIOUS
<1>1. CASE \E s \in Stages :
             Goto(r, s) /\ (s \in Extracting \/ stage[r] \notin Extracting)
  <2>1. PICK s \in Stages :
          Goto(r, s) /\ (s \in Extracting \/ stage[r] \notin Extracting)
    BY <1>1
  <2>2. todo' = todo /\ stage' = [stage EXCEPT ![r] = s]
    BY <2>1 DEF Goto
  <2>3. stage'[q] \notin Extracting => stage[q] \notin Extracting
    BY <2>1, <2>2 DEF RequestsOK
  <2> QED
    BY <2>2, <2>3 DEF Waits
<1>2. CASE \E rest \in {<<>>, Tail(todo[r])} : Continue(r, rest)
  <2>1. PICK rest \in {<<>>, Tail(todo[r])} : Continue(r, rest)
    BY <1>2
  <2>2. todo' = [todo EXCEPT ![r] = rest]
        /\ \A p \in Requests \ {r} : stage'[p] = stage[p] /\ todo'[p] = todo[p]
    BY <2>1 DEF Continue, RequestsOK
  <2>3. CASE q # r
    BY <2>2, <2>3 DEF Waits
  <2>4. CASE q = r
    <3>1. todo'[r] = rest
      BY <2>2 DEF RequestsOK
    <3>2. /\ todo[r] \in Seq(Item) /\ todo[r] # <<>>
          /\ Len(todo[r]) \in Nat /\ Len(todo[r]) >= 1
      BY DEF RequestsOK
    <3>3. m \in 1..Len(rest) /\ rest[Len(rest) + 1 - m].key = k
      BY <2>4, <3>1 DEF Waits
    <3>4. rest = Tail(todo[r])
      BY <3>3
    <3>5. Len(rest) = Len(todo[r]) - 1
      BY <3>2, <3>4
    <3>6. rest[Len(rest) + 1 - m] = todo[r][Len(todo[r]) + 1 - m]
      BY <3>2, <3>3, <3>4, <3>5
    <3> QED
      BY <2>4, <3>2, <3>3, <3>5, <3>6 DEF Waits
  <2> QED
    BY <2>3, <2>4
<1> QED
  BY <1>1, <1>2 DEF Finish, Abandon, Raise

\* A step by which one more item waits for k, paid for by an extra call or by
\* the notification that was to come.
LEMMA OneMore ==
  ASSUME TypeOK, CountInv, NEW k \in Key, RowsFor(k)' = RowsFor(k),
         NEW x, WaitingFor(k)' \subseteq WaitingFor(k) \cup {x},
         \/ extra' = extra + 1 /\ Coming(k)' = Coming(k)
         \/ extra' = extra /\ Coming(k) = 1 /\ Coming(k)' = 0
  PROVE  /\ IsFiniteSet(WaitingFor(k)')
         /\ Cardinality(RowsFor(k)') + Cardinality(WaitingFor(k)') + Coming(k)' <= 1 + extra'
<1> DEFINE more == WaitingFor(k) \cup {x}
<1>1. IsFiniteSet(WaitingFor(k))
      /\ Cardinality(RowsFor(k)) + Cardinality(WaitingFor(k)) + Coming(k) <= 1 + extra
  BY DEF CountInv
<1>2. /\ Cardinality(RowsFor(k)) \in Nat /\ Cardinality(WaitingFor(k)) \in Nat
      /\ Coming(k) \in {0, 1} /\ extra \in Nat
  BY <1>1, CountsAreNumbers
<1>3. IsFiniteSet(more) /\ Cardinality(more) <= Cardinality(WaitingFor(k)) + 1
      /\ Cardinality(more) \in Nat
  <2>1. /\ IsFiniteSet(more)
        /\ Cardinality(more) = IF x \in WaitingFor(k) THEN Cardinality(WaitingFor(k))
                               ELSE Cardinality(WaitingFor(k)) + 1
    BY <1>1, FS_AddElement
  <2> QED
    BY <1>2, <2>1
<1>4. /\ IsFiniteSet(WaitingFor(k)')
      /\ Cardinality(WaitingFor(k)') <= Cardinality(more)
      /\ Cardinality(WaitingFor(k)') \in Nat
  BY <1>3, FS_Subset, FS_CardinalityType
<1> HIDE DEF more
<1> QED
  BY <1>1, <1>2, <1>3, <1>4

\* When a request gets its work, one item waits for each key in it, which are
\* all different, and none for other keys.
LEMMA WorkArrives ==
  ASSUME RequestsOK, NEW r \in Requests, stage[r] = "idle",
         NEW items \in Seq(Item), Begin(r, items),
         \A i, j \in DOMAIN items : items[i].key = items[j].key => i = j,
         NEW k \in Key
  PROVE  \/ /\ \E n \in DOMAIN items : items[n].key = k
            /\ \E x : WaitingFor(k)' \subseteq WaitingFor(k) \cup {x}
         \/ \A q \in Requests, m \in Nat : Waits(q, m, k)' => Waits(q, m, k)
<1>1. /\ todo'[r] = items /\ Len(items) \in Nat /\ DOMAIN items = 1..Len(items)
      /\ \A q \in Requests \ {r} : todo'[q] = todo[q] /\ stage'[q] = stage[q]
  BY DEF Begin, RequestsOK
<1>2. \A q \in Requests \ {r}, m \in Nat : Waits(q, m, k)' => Waits(q, m, k)
  BY <1>1 DEF Waits
<1>3. ASSUME NEW m \in Nat, Waits(r, m, k)'
      PROVE  /\ Len(items) + 1 - m \in DOMAIN items
             /\ items[Len(items) + 1 - m].key = k
  <2>1. m \in 1..Len(todo'[r]) /\ todo'[r][Len(todo'[r]) + 1 - m].key = k
    BY <1>3 DEF Waits
  <2> QED
    BY <1>1, <2>1
<1>4. CASE \E n \in DOMAIN items : items[n].key = k
  <2>1. PICK n \in DOMAIN items : items[n].key = k
    BY <1>4
  <2>2. \A m \in Nat : Waits(r, m, k)' => m = Len(items) + 1 - n
    BY <1>1, <1>3, <2>1
  <2>3. WaitingFor(k)' \subseteq WaitingFor(k) \cup {<<r, Len(items) + 1 - n>>}
    BY <1>2, <2>2 DEF WaitingFor
  <2> QED
    BY <1>4, <2>3
<1>5. CASE ~\E n \in DOMAIN items : items[n].key = k
  BY <1>2, <1>3, <1>5
<1> QED
  BY <1>4, <1>5

\* A webhook call queues different keys of objects, which MinIO may notify again;
\* /process has one item.
LEMMA WebhookItems ==
  ASSUME IngestionInv, NEW r \in Requests, Webhook(r)
  PROVE  \E items \in Seq(Item) :
           /\ Begin(r, items)
           /\ \A i, j \in DOMAIN items : items[i].key = items[j].key => i = j
           /\ \/ extra' = extra + 1 /\ UNCHANGED events
              \/ /\ extra' = extra /\ events' \subseteq events
                 /\ \A n \in DOMAIN items : items[n].key \in events \ events'
<1> USE DEF IngestionInv
<1>1. PICK batch \in SUBSET events :
        /\ \E ks \in SetToSeqs({k \in batch : k.ext = "audio"}) :
             Begin(r, [n \in DOMAIN ks |-> [client |-> ks[n].client, key |-> ks[n]]])
        /\ \/ events' = events \ batch /\ UNCHANGED extra
           \/ extra < MaxExtra /\ extra' = extra + 1 /\ UNCHANGED events
  BY Zenon DEF Webhook
<1> DEFINE known == {k \in batch : k.ext = "audio"}
           total == Cardinality(known)
<1>2. PICK ks \in SetToSeqs(known) :
        Begin(r, [n \in DOMAIN ks |-> [client |-> ks[n].client, key |-> ks[n]]])
  BY <1>1
<1> DEFINE items == [n \in DOMAIN ks |-> [client |-> ks[n].client, key |-> ks[n]]]
<1>3. total \in Nat
  BY FS_Subset, FS_CardinalityType DEF EventsFinite
<1>4. ks \in [1..total -> known] /\ \A i, j \in 1..total : i # j => ks[i] # ks[j]
  BY DEF SetToSeqs
<1>5. known \subseteq batch /\ known \subseteq Key
  BY DEF TypeOK
<1>6. DOMAIN items = 1..total
  BY <1>4
<1>7. \A n \in 1..total : items[n] \in Item /\ items[n].key = ks[n] /\ items[n].key \in batch
  <2> TAKE n \in 1..total
  <2>1. ks[n] \in batch /\ ks[n] \in Key
    BY <1>4, <1>5
  <2>2. items[n] = [client |-> ks[n].client, key |-> ks[n]]
    BY <1>4
  <2> HIDE DEF items, known
  <2> QED
    BY <2>1, <2>2 DEF Item, Key
<1>8. items = [n \in 1..total |-> items[n]]
  BY <1>6, Zenon
<1>9. Begin(r, items)
  BY <1>2
<1> HIDE DEF items, known, total
<1>10. items \in Seq(Item)
  BY <1>3, <1>6, <1>7, <1>8
<1>11. \A i, j \in DOMAIN items : items[i].key = items[j].key => i = j
  BY <1>4, <1>6, <1>7
<1>12. \/ extra' = extra + 1 /\ UNCHANGED events
       \/ /\ extra' = extra /\ events' \subseteq events
          /\ \A n \in DOMAIN items : items[n].key \in events \ events'
  BY <1>1, <1>6, <1>7
<1> QED
  BY <1>9, <1>10, <1>11, <1>12

\* The new items are paid for.
LEMMA WorkIsPaid ==
  ASSUME IngestionInv, CountInv, NEW r \in Requests, stage[r] = "idle",
         UNCHANGED <<rows, objects>>,
         NEW items \in Seq(Item), Begin(r, items),
         \A i, j \in DOMAIN items : items[i].key = items[j].key => i = j,
         \/ extra' = extra + 1 /\ UNCHANGED events
         \/ /\ extra' = extra /\ events' \subseteq events
            /\ \A n \in DOMAIN items : items[n].key \in events \ events'
  PROVE  CountInv'
<1> SUFFICES ASSUME NEW k \in Key
             PROVE  /\ IsFiniteSet(WaitingFor(k)')
                    /\ Cardinality(RowsFor(k)') + Cardinality(WaitingFor(k)')
                         + Coming(k)' <= 1 + extra'
  BY DEF CountInv
<1>1. TypeOK /\ RequestsOK
  BY DEF IngestionInv, TypeOK, RequestsOK
<1>2. RowsFor(k)' = RowsFor(k)
  BY DEF RowsFor
<1>3. CASE \A q \in Requests, m \in Nat : Waits(q, m, k)' => Waits(q, m, k)
  BY <1>1, <1>2, <1>3, NothingNew
<1>4. CASE /\ \E n \in DOMAIN items : items[n].key = k
           /\ \E x : WaitingFor(k)' \subseteq WaitingFor(k) \cup {x}
  <2>1. PICK x : WaitingFor(k)' \subseteq WaitingFor(k) \cup {x}
    BY <1>4
  <2>2. \/ extra' = extra + 1 /\ Coming(k)' = Coming(k)
        \/ extra' = extra /\ Coming(k) = 1 /\ Coming(k)' = 0
    BY <1>1, <1>4 DEF Coming, TypeOK
  <2> QED
    BY <1>1, <1>2, <2>1, <2>2, OneMore
<1> QED
  BY <1>1, <1>3, <1>4, WorkArrives

\* The item that is saved no longer waits for its row.
LEMMA RowIsPaid ==
  ASSUME IngestionInv, CountInv, NEW r \in Requests, stage[r] = "save",
         UNCHANGED <<objects, events, extra>>,
         rows' = Append(rows, [client |-> Current(r).client,
                               key |-> Current(r).key, state |-> "saved"]),
         \/ Raise(r)
         \/ stage' = [stage EXCEPT ![r] = "ask"] /\ todo' = todo
  PROVE  CountInv'
<1> DEFINE last == <<r, Len(todo[r])>>
<1> SUFFICES ASSUME NEW k \in Key
             PROVE  /\ IsFiniteSet(WaitingFor(k)')
                    /\ Cardinality(RowsFor(k)') + Cardinality(WaitingFor(k)')
                         + Coming(k)' <= 1 + extra'
  BY DEF CountInv
<1>1. TypeOK /\ RequestsOK
  BY DEF IngestionInv, TypeOK, RequestsOK
<1>2. /\ rows \in Seq(Row) /\ Len(rows) \in Nat /\ DOMAIN rows = 1..Len(rows)
      /\ todo[r] \in Seq(Item) /\ Len(todo[r]) \in Nat /\ Len(todo[r]) >= 1
      /\ Current(r) = todo[r][1]
  <2>1. todo[r] \in Seq(Item) /\ todo[r] # <<>> /\ rows \in Seq(Row)
    BY <1>1 DEF TypeOK, RequestsOK
  <2> QED
    BY <2>1 DEF Current
<1>3. \A q \in Requests, m \in Nat :
        Waits(q, m, k)' => Waits(q, m, k) /\ ~(q = r /\ m = Len(todo[r]))
  <2>1. CASE Raise(r)
    <3>1. todo' = [todo EXCEPT ![r] = <<>>] /\ stage' = [stage EXCEPT ![r] = "idle"]
      BY <2>1 DEF Raise, Continue
    <3>2. \A q \in Requests \ {r} : todo'[q] = todo[q] /\ stage'[q] = stage[q]
      BY <1>1, <3>1 DEF RequestsOK
    <3>3. Len(todo'[r]) = 0
      BY <1>1, <3>1 DEF RequestsOK
    <3> QED
      BY <3>2, <3>3 DEF Waits
  <2>2. CASE stage' = [stage EXCEPT ![r] = "ask"] /\ todo' = todo
    BY <1>1, <2>2 DEF Waits, Extracting, RequestsOK
  <2> QED
    BY <2>1, <2>2
<1>4. /\ DOMAIN rows' = 1..(Len(rows) + 1)
      /\ rows'[Len(rows) + 1].key = Current(r).key
      /\ \A n \in DOMAIN rows : rows'[n] = rows[n]
  BY <1>2
<1>5. CASE k # Current(r).key
  <2>1. RowsFor(k)' = RowsFor(k)
    BY <1>2, <1>4, <1>5 DEF RowsFor
  <2> QED
    BY <1>1, <1>3, <2>1, NothingNew
<1>6. CASE k = Current(r).key
  <2>1. RowsFor(k)' = RowsFor(k) \cup {Len(rows) + 1} /\ Len(rows) + 1 \notin RowsFor(k)
    BY <1>2, <1>4, <1>6 DEF RowsFor
  <2>2. IsFiniteSet(WaitingFor(k))
        /\ Cardinality(RowsFor(k)) + Cardinality(WaitingFor(k)) + Coming(k) <= 1 + extra
    BY DEF CountInv
  <2>3. /\ IsFiniteSet(RowsFor(k)) /\ Cardinality(RowsFor(k)) \in Nat
        /\ Cardinality(WaitingFor(k)) \in Nat /\ Coming(k) \in {0, 1} /\ extra \in Nat
    BY <1>1, <2>2, CountsAreNumbers
  <2>4. Cardinality(RowsFor(k)') = Cardinality(RowsFor(k)) + 1
    BY <2>1, <2>3, FS_AddElement
  <2>5. last \in WaitingFor(k)
    <3>1. Len(todo[r]) \in 1..Len(todo[r]) /\ Len(todo[r]) + 1 - Len(todo[r]) = 1
      BY <1>2
    <3>2. stage[r] \notin Extracting
      BY DEF Extracting
    <3>3. Waits(r, Len(todo[r]), k)
      BY <1>2, <1>6, <3>1, <3>2 DEF Waits
    <3> QED
      BY <1>2, <3>3 DEF WaitingFor
  <2>6. WaitingFor(k)' \subseteq WaitingFor(k) \ {last}
    BY <1>3 DEF WaitingFor
  <2> DEFINE less == WaitingFor(k) \ {last}
  <2>7. IsFiniteSet(less) /\ Cardinality(less) = Cardinality(WaitingFor(k)) - 1
    BY <2>2, <2>5, FS_RemoveElement
  <2>8. /\ IsFiniteSet(WaitingFor(k)') /\ Cardinality(WaitingFor(k)') <= Cardinality(less)
        /\ Cardinality(WaitingFor(k)') \in Nat
    BY <2>6, <2>7, FS_Subset, FS_CardinalityType
  <2>9. Coming(k)' = Coming(k)
    BY DEF Coming
  <2> HIDE DEF less
  <2> QED
    BY <2>2, <2>3, <2>4, <2>7, <2>8, <2>9
<1> QED
  BY <1>5, <1>6

\* Every action keeps the count.
LEMMA CountStep == IngestionInv /\ CountInv /\ [Next]_vars => CountInv'
<1> SUFFICES ASSUME IngestionInv, CountInv, [Next]_vars
             PROVE  CountInv'
  OBVIOUS
<1>0. /\ TypeOK /\ RequestsOK
      /\ \A r \in Requests : stage[r] # "idle" => todo[r] # <<>>
  BY DEF IngestionInv, TypeOK, RequestsOK
\* The steps that pay for nothing new.
<1>a. ASSUME extra' = extra, \A k \in Key : RowsFor(k)' = RowsFor(k),
             \A r \in Requests, m \in Nat, k \in Key : Waits(r, m, k)' => Waits(r, m, k),
             \A k \in Key : k \in events' \/ k \notin objects' => k \in events \/ k \notin objects
      PROVE  CountInv'
  BY <1>0, <1>a, NothingNew DEF CountInv
<1>b. ASSUME NEW r \in Requests, stage[r] # "idle",
             UNCHANGED <<rows, objects, events, extra>>,
             \/ \E s \in Stages :
                  Goto(r, s) /\ (s \in Extracting \/ stage[r] \notin Extracting)
             \/ Finish(r) \/ Abandon(r) \/ Raise(r)
      PROVE  CountInv'
  <2>1. \A q \in Requests, m \in Nat, k \in Key : Waits(q, m, k)' => Waits(q, m, k)
    BY <1>0, <1>b, ItemLeaves
  <2>2. \A k \in Key : RowsFor(k)' = RowsFor(k)
    BY <1>b DEF RowsFor
  <2> QED
    BY <1>a, <1>b, <2>1, <2>2
<1>1. CASE Presign \/ Upload \/ LoseEvent
  <2>1. UNCHANGED <<rows, todo, stage, extra>>
    BY <1>1 DEF Presign, Upload, LoseEvent, requestVars
  <2>2. \A k \in Key : k \in events' \/ k \notin objects' => k \in events \/ k \notin objects
    BY <1>1 DEF Presign, Upload, LoseEvent
  <2>3. \A k \in Key : RowsFor(k)' = RowsFor(k)
    BY <2>1 DEF RowsFor
  <2>4. \A r \in Requests, m \in Nat, k \in Key : Waits(r, m, k)' => Waits(r, m, k)
    BY <2>1 DEF Waits
  <2> QED
    BY <1>a, <2>1, <2>2, <2>3, <2>4
<1>2. ASSUME NEW r \in Requests, Webhook(r)
      PROVE  CountInv'
  <2>1. stage[r] = "idle" /\ UNCHANGED <<rows, objects>>
    BY <1>2 DEF Webhook
  <2> QED
    BY <1>2, <2>1, WebhookItems, WorkIsPaid
<1>3. ASSUME NEW r \in Requests, Process(r)
      PROVE  CountInv'
  <2>1. /\ stage[r] = "idle" /\ UNCHANGED <<rows, objects, events>>
        /\ extra' = extra + 1
    BY <1>3 DEF Process, bucketVars
  <2>2. PICK it \in [client : Clients, key : issued] : Begin(r, <<it>>)
    BY <1>3 DEF Process
  <2>3. <<it>> \in Seq(Item) /\ DOMAIN <<it>> = {1}
    <3>1. it \in Item
      BY <1>0 DEF Item, TypeOK
    <3> QED
      BY <3>1
  <2> QED
    BY <2>1, <2>2, <2>3, WorkIsPaid
<1>4. ASSUME NEW r \in Requests,
             CheckClient(r) \/ Download(r) \/ Transcribe(r) \/ Ask(r)
      PROVE  CountInv'
  <2>1. stage[r] # "idle" /\ UNCHANGED <<rows, objects, events, extra>>
    BY <1>4 DEF CheckClient, Download, Transcribe, Ask, bucketVars
  <2>2. \/ \E s \in Stages :
             Goto(r, s) /\ (s \in Extracting \/ stage[r] \notin Extracting)
        \/ Finish(r) \/ Abandon(r) \/ Raise(r)
    <3>1. {"download", "transcribe", "save", "persist", "ask again"} \subseteq Stages
      BY DEF Stages
    <3>2. "persist" \in Extracting /\ "ask again" \in Extracting
          /\ "check" \notin Extracting /\ "download" \notin Extracting
          /\ "transcribe" \notin Extracting
      BY DEF Extracting
    <3>3. CASE CheckClient(r)
      BY <3>1, <3>2, <3>3 DEF CheckClient
    <3>4. CASE Download(r)
      BY <3>1, <3>2, <3>4 DEF Download
    <3>5. CASE Transcribe(r)
      BY <3>1, <3>2, <3>5 DEF Transcribe
    <3>6. CASE Ask(r)
      BY <3>1, <3>2, <3>6 DEF Ask
    <3> QED
      BY <1>4, <3>3, <3>4, <3>5, <3>6
  <2> QED
    BY <1>b, <2>1, <2>2
<1>5. ASSUME NEW r \in Requests, SaveInteraction(r)
      PROVE  CountInv'
  <2>1. stage[r] = "save" /\ UNCHANGED <<objects, events, extra>>
    BY <1>5 DEF SaveInteraction, bucketVars
  <2>2. CASE Raise(r) /\ UNCHANGED rows
    BY <1>b, <2>1, <2>2
  <2>3. CASE /\ rows' = Append(rows, [client |-> Current(r).client,
                                      key |-> Current(r).key, state |-> "saved"])
             /\ \/ Raise(r)
                \/ stage' = [stage EXCEPT ![r] = "ask"] /\ todo' = todo
    BY <2>1, <2>3, RowIsPaid
  <2> QED
    BY <1>5, <2>2, <2>3 DEF SaveInteraction
<1>6. ASSUME NEW r \in Requests, PersistTags(r)
      PROVE  CountInv'
  <2>1. /\ stage[r] = "persist" /\ UNCHANGED <<objects, events, extra>>
        /\ Finish(r) \/ Raise(r)
    BY <1>6 DEF PersistTags, bucketVars
  <2>2. \A q \in Requests, m \in Nat, k \in Key : Waits(q, m, k)' => Waits(q, m, k)
    BY <1>0, <2>1, ItemLeaves
  <2>3. DOMAIN rows' = DOMAIN rows /\ \A n \in DOMAIN rows : rows'[n].key = rows[n].key
    <3>1. CASE rows' = [rows EXCEPT ![row[r]].state = "tagged"]
      <4>1. \A n \in DOMAIN rows : rows[n] \in Row
        BY <1>0 DEF TypeOK
      <4>2. ASSUME NEW n \in DOMAIN rows
            PROVE  rows'[n] \in {rows[n], [rows[n] EXCEPT !.state = "tagged"]}
        BY <3>1
      <4> QED
        BY <3>1, <4>1, <4>2 DEF Row
    <3>2. CASE UNCHANGED rows
      BY <3>2
    <3> QED
      BY <1>6, <3>1, <3>2 DEF PersistTags
  <2>4. \A k \in Key : RowsFor(k)' = RowsFor(k)
    BY <2>3 DEF RowsFor
  <2> QED
    BY <1>a, <2>1, <2>2, <2>4
<1>7. CASE RemoveClient
  <2>1. PICK c \in clients :
          rows' = [n \in DOMAIN rows |-> IF rows[n].client = c
                                        THEN [rows[n] EXCEPT !.state = "deleted"]
                                        ELSE rows[n]]
    BY <1>7 DEF RemoveClient
  <2>2. UNCHANGED <<objects, events, extra, todo, stage>>
    BY <1>7 DEF RemoveClient, bucketVars, requestVars
  <2>3. ASSUME NEW n \in DOMAIN rows
        PROVE  rows'[n].key = rows[n].key
    <3>1. rows[n] \in Row
      BY <1>0 DEF TypeOK
    <3>2. rows'[n] \in {rows[n], [rows[n] EXCEPT !.state = "deleted"]}
      BY <2>1
    <3> QED
      BY <3>1, <3>2 DEF Row
  <2>4. \A k \in Key : RowsFor(k)' = RowsFor(k)
    BY <2>1, <2>3 DEF RowsFor
  <2>5. \A r \in Requests, m \in Nat, k \in Key : Waits(r, m, k)' => Waits(r, m, k)
    BY <2>2 DEF Waits
  <2> QED
    BY <1>a, <2>2, <2>4, <2>5
<1>8. CASE Crash
  <2>1. UNCHANGED <<rows, objects, events, extra>> /\ todo' = [r \in Requests |-> <<>>]
    BY <1>8 DEF Crash, bucketVars
  <2>2. \A r \in Requests, m \in Nat, k \in Key : ~Waits(r, m, k)'
    <3>1. \A r \in Requests : Len(todo'[r]) = 0
      BY <2>1
    <3> QED
      BY <3>1 DEF Waits
  <2>3. \A k \in Key : RowsFor(k)' = RowsFor(k)
    BY <2>1 DEF RowsFor
  <2> QED
    BY <1>a, <2>1, <2>2, <2>3
<1>9. CASE UNCHANGED vars
  <2>1. UNCHANGED <<rows, objects, events, extra, todo, stage>>
    BY <1>9 DEF vars, bucketVars, requestVars
  <2> QED
    BY <2>1 DEF CountInv, RowsFor, WaitingFor, Waits, Coming
<1> QED
  BY <1>1, <1>2, <1>3, <1>4, <1>5, <1>6, <1>7, <1>8, <1>9 DEF Next, Work

\* However notifications and calls of /process overlap with crashes and errors,
\* a recording has at most one row more than there were repeated notifications
\* and calls of /process: the backend repeats nothing by itself.
THEOREM NothingRepeated == Spec => []NoRowWithoutCall
<1>1. Init => CountInv
  <2> SUFFICES ASSUME Init, NEW k \in Key
               PROVE  /\ IsFiniteSet(WaitingFor(k))
                      /\ Cardinality(RowsFor(k)) + Cardinality(WaitingFor(k)) + Coming(k)
                           <= 1 + extra
    BY DEF CountInv
  <2>1. RowsFor(k) = {} /\ WaitingFor(k) = {}
    BY DEF Init, RowsFor, WaitingFor, Waits
  <2>2. Coming(k) = 1 /\ extra = 0
    BY DEF Init, Coming
  <2> QED
    BY <2>1, <2>2, FS_EmptySet
<1>2. IngestionInv /\ CountInv => NoRowWithoutCall
  <2> SUFFICES ASSUME IngestionInv, CountInv, NEW k \in issued
               PROVE  Cardinality(RowsFor(k)) <= 1 + extra
    BY DEF NoRowWithoutCall, RowsFor
  <2>1. TypeOK /\ k \in Key
    BY DEF IngestionInv, TypeOK
  <2>2. IsFiniteSet(WaitingFor(k))
        /\ Cardinality(RowsFor(k)) + Cardinality(WaitingFor(k)) + Coming(k) <= 1 + extra
    BY <2>1 DEF CountInv
  <2>3. /\ Cardinality(RowsFor(k)) \in Nat /\ Cardinality(WaitingFor(k)) \in Nat
        /\ Coming(k) \in {0, 1} /\ extra \in Nat
    BY <2>1, <2>2, CountsAreNumbers
  <2> QED
    BY <2>2, <2>3
<1> QED
  BY <1>1, <1>2, CountStep, IngestionInvHolds, PTL DEF Spec

---------------------------------------------------------------------------
(***************************************************************************)
(* No recording is forgotten.                                              *)
(***************************************************************************)
Recordings == [client : Clients, id : Ids, ext : {"audio"} \cap Exts]

ItemOf(k) == [client |-> k.client, key |-> k]
InWork(r, k) == \E n \in DOMAIN todo[r] : todo[r][n] = ItemOf(k)

\* What EveryUploadIsIngested wants of k.
Ingested(k) ==
  \/ k.client \notin clients
  \/ \E n \in DOMAIN rows : rows[n].key = k
  \/ k \in lost

\* An uploaded recording that is not an interaction yet is to be notified or
\* waits in a request, unless its client is gone or its work was cut short.
NothingForgotten ==
  \A k \in Recordings :
    k \in objects => k \in events \/ (\E r \in Requests : InWork(r, k)) \/ Ingested(k)

\* When the current item of a request is over, the others wait as before.
LEMMA ItemsBehindStay ==
  ASSUME RequestsOK, NEW r \in Requests, NEW k, InWork(r, k), todo[r] # <<>>,
         Continue(r, Tail(todo[r]))
  PROVE  InWork(r, k)' \/ Current(r) = ItemOf(k)
<1>1. todo[r] \in Seq(Item) /\ todo'[r] = Tail(todo[r])
  BY DEF RequestsOK, Continue
<1>2. PICK n \in DOMAIN todo[r] : todo[r][n] = ItemOf(k)
  BY DEF InWork
<1>3. CASE n = 1
  BY <1>1, <1>2, <1>3 DEF Current
<1>4. CASE n # 1
  <2>1. n - 1 \in DOMAIN Tail(todo[r]) /\ Tail(todo[r])[n - 1] = ItemOf(k)
    BY <1>1, <1>2, <1>4
  <2> QED
    BY <1>1, <2>1 DEF InWork
<1> QED
  BY <1>3, <1>4

\* An item in a request stays there until its recording is ingested: the paths
\* that drop it are those of a client that is gone, of an object that is not
\* there, of an answer without tags, and the ones that count as lost.
LEMMA WorkIsKept ==
  ASSUME IngestionInv, [Next]_vars, NEW r \in Requests, NEW k \in Recordings,
         k \in objects, InWork(r, k)
  PROVE  InWork(r, k)' \/ Ingested(k)'
<1> USE DEF IngestionInv
<1>0. /\ RequestsOK /\ todo[r] \in Seq(Item) /\ todo[r] # <<>> /\ stage[r] # "idle"
      /\ k \in KeysOf(todo[r])
      /\ rows \in Seq(Row)
  <2>1. RequestsOK
    BY DEF TypeOK, RequestsOK
  <2>2. todo[r] # <<>>
    BY DEF InWork
  <2>3. k \in KeysOf(todo[r])
    BY DEF InWork, KeysOf, ItemOf
  <2> QED
    BY <2>1, <2>2, <2>3 DEF TypeOK
<1>1. CASE UNCHANGED <<todo>>
  BY <1>1 DEF InWork
<1>2. CASE Crash
  <2>1. k \in lost'
    BY <1>0, <1>2 DEF Crash
  <2> QED
    BY <2>1 DEF Ingested
<1>3. ASSUME NEW q \in Requests, Webhook(q) \/ Process(q)
      PROVE  InWork(r, k)'
  <2>1. stage[q] = "idle" /\ \E items : Begin(q, items)
    <3>1. Webhook(q) => \E items : Begin(q, items)
      BY Zenon DEF Webhook
    <3>2. Process(q) => \E items : Begin(q, items)
      BY Zenon DEF Process
    <3>3. stage[q] = "idle"
      BY <1>3 DEF Webhook, Process
    <3> QED
      BY <1>3, <3>1, <3>2, <3>3
  <2>2. todo'[r] = todo[r]
    BY <1>0, <2>1 DEF Begin, RequestsOK
  <2> QED
    BY <2>2 DEF InWork
<1>4. ASSUME NEW q \in Requests \ {r}, Work(q)
      PROVE  InWork(r, k)'
  <2>1. UNCHANGED todo \/ \E rest : todo' = [todo EXCEPT ![q] = rest]
    BY <1>4, Zenon
    DEF Work, CheckClient, Download, Transcribe, SaveInteraction, Ask, PersistTags,
        Goto, Finish, Abandon, Raise, Continue
  <2>2. todo'[r] = todo[r]
    BY <1>0, <2>1 DEF RequestsOK
  <2> QED
    BY <2>2 DEF InWork
<1>5. CASE Work(r)
  <2>1. ASSUME Raise(r)
        PROVE  Ingested(k)'
    BY <1>0, <2>1 DEF Raise, Ingested
  <2>2. ASSUME Abandon(r)
        PROVE  InWork(r, k)' \/ Ingested(k)'
    <3>1. InWork(r, k)' \/ Current(r) = ItemOf(k)
      BY <1>0, <2>2, ItemsBehindStay DEF Abandon
    <3> QED
      BY <2>2, <3>1 DEF Abandon, Ingested, ItemOf
  <2>3. ASSUME Finish(r), Current(r) = ItemOf(k) => Ingested(k)'
        PROVE  InWork(r, k)' \/ Ingested(k)'
    BY <1>0, <2>3, ItemsBehindStay DEF Finish
  <2>4. CASE CheckClient(r)
    <3>1. Current(r).client \notin clients /\ Current(r) = ItemOf(k) => Ingested(k)'
      BY <2>4 DEF CheckClient, Ingested, ItemOf
    <3> QED
      BY <1>1, <2>1, <2>3, <2>4, <3>1 DEF CheckClient, Goto
  <2>5. CASE Download(r)
    <3>1. ~(Current(r).key \notin objects /\ Current(r) = ItemOf(k))
      BY DEF ItemOf
    <3> QED
      BY <1>1, <2>1, <2>2, <2>3, <2>5, <3>1 DEF Download, Goto
  <2>6. CASE Transcribe(r)
    BY <1>1, <2>1, <2>2, <2>6 DEF Transcribe, Goto
  <2>7. CASE SaveInteraction(r)
    BY <1>1, <2>1, <2>7 DEF SaveInteraction
  <2>8. stage[r] \in Extracting /\ Current(r) = ItemOf(k) =>
          row[r] \in DOMAIN rows /\ rows[row[r]].key = k
    BY DEF ExtractsOwnRow, ItemOf
  <2>9. CASE Ask(r)
    <3>1. Current(r) = ItemOf(k) => Ingested(k)'
      BY <2>8, <2>9 DEF Ask, Extracting, Ingested
    <3> QED
      BY <1>1, <2>1, <2>3, <2>9, <3>1 DEF Ask, Goto
  <2>10. CASE PersistTags(r)
    <3>1. rows' = rows \/ rows' = [rows EXCEPT ![row[r]].state = "tagged"]
      BY <2>10 DEF PersistTags
    <3>2. ASSUME NEW n \in DOMAIN rows
          PROVE  n \in DOMAIN rows' /\ rows'[n].key = rows[n].key
      <4>1. rows[n] \in Row
        BY <1>0
      <4>2. /\ n \in DOMAIN rows'
            /\ rows'[n] = rows[n] \/ rows'[n] = [rows[n] EXCEPT !.state = "tagged"]
        BY <1>0, <3>1
      <4> QED
        BY <4>1, <4>2 DEF Row
    <3>3. Current(r) = ItemOf(k) => Ingested(k)'
      BY <2>8, <2>10, <3>2 DEF PersistTags, Extracting, Ingested
    <3> QED
      BY <2>1, <2>3, <2>10, <3>3 DEF PersistTags
  <2> QED
    BY <1>5, <2>4, <2>5, <2>6, <2>7, <2>9, <2>10 DEF Work
<1>6. Presign \/ Upload \/ LoseEvent \/ RemoveClient \/ UNCHANGED vars => UNCHANGED todo
  BY DEF Presign, Upload, LoseEvent, RemoveClient, vars, requestVars
<1> QED
  BY <1>1, <1>2, <1>3, <1>4, <1>5, <1>6 DEF Next

\* A webhook call queues every known record of its batch.
LEMMA WebhookQueuesAll ==
  ASSUME IngestionInv, NEW r \in Requests, Webhook(r),
         NEW k \in events, k \notin events', k.ext = "audio"
  PROVE  InWork(r, k)'
<1> USE DEF IngestionInv
<1>1. PICK batch \in SUBSET events :
        /\ \E ks \in SetToSeqs({j \in batch : j.ext = "audio"}) :
             Begin(r, [n \in DOMAIN ks |-> [client |-> ks[n].client, key |-> ks[n]]])
        /\ \/ events' = events \ batch /\ UNCHANGED extra
           \/ extra < MaxExtra /\ extra' = extra + 1 /\ UNCHANGED events
  BY Zenon DEF Webhook
<1> DEFINE known == {j \in batch : j.ext = "audio"}
           total == Cardinality(known)
<1>2. PICK ks \in SetToSeqs(known) :
        Begin(r, [n \in DOMAIN ks |-> [client |-> ks[n].client, key |-> ks[n]]])
  BY <1>1
<1>3. IsFiniteSet(known) /\ total \in Nat
  BY FS_Subset, FS_CardinalityType DEF EventsFinite
<1>4. ks \in [1..total -> known] /\ \A i, j \in 1..total : i # j => ks[i] # ks[j]
  BY DEF SetToSeqs
<1>5. k \in known
  BY <1>1
<1> HIDE DEF known
<1>6. \E n \in 1..total : ks[n] = k
  <2>1. ks \in Injection(1..total, known)
    BY <1>4 DEF Injection, IsInjective
  <2>2. IsFiniteSet(1..total) /\ Cardinality(1..total) = total
    BY <1>3, FS_Interval
  <2>3. ks \in Surjection(1..total, known)
    BY <1>3, <2>1, <2>2, FS_Injection
  <2> QED
    BY <1>5, <2>3 DEF Surjection
<1>7. PICK n \in 1..total : ks[n] = k
  BY <1>6
<1>8. todo'[r] = [i \in DOMAIN ks |-> [client |-> ks[i].client, key |-> ks[i]]]
  BY <1>2 DEF Begin, TypeOK
<1>9. n \in DOMAIN todo'[r] /\ todo'[r][n] = ItemOf(k)
  <2>1. n \in DOMAIN ks
    BY <1>4
  <2> QED
    BY <1>7, <1>8, <2>1 DEF ItemOf
<1> QED
  BY <1>9 DEF InWork

\* What has become an interaction, or lost its client or its work, stays so.
LEMMA IngestedStays ==
  ASSUME IngestionInv, [Next]_vars, NEW k, Ingested(k)
  PROVE  Ingested(k)'
<1> USE DEF IngestionInv
<1>1. clients' \subseteq clients /\ lost \subseteq lost'
  <2>1. Presign \/ Upload \/ LoseEvent \/ RemoveClient \/ Crash \/ UNCHANGED vars
          => clients' \subseteq clients /\ lost \subseteq lost'
    BY DEF Presign, Upload, LoseEvent, RemoveClient, Crash, vars
  <2>2. ASSUME NEW r \in Requests, Webhook(r) \/ Process(r) \/ Work(r)
        PROVE  clients' \subseteq clients /\ lost \subseteq lost'
    BY <2>2
    DEF Webhook, Process, Work, CheckClient, Download, Transcribe, SaveInteraction, Ask,
        PersistTags, Goto, Finish, Abandon, Raise
  <2> QED
    BY <2>1, <2>2 DEF Next
<1>2. \A n \in DOMAIN rows : n \in DOMAIN rows' /\ rows'[n].key = rows[n].key
  <2>0. rows \in Seq(Row) /\ \A n \in DOMAIN rows : rows[n] \in Row
    BY DEF TypeOK
  <2>1. CASE UNCHANGED rows
    BY <2>1
  <2>2. ASSUME NEW x, rows' = Append(rows, x)
        PROVE  \A n \in DOMAIN rows : n \in DOMAIN rows' /\ rows'[n].key = rows[n].key
    BY <2>0, <2>2
  <2>3. ASSUME \E i, s : rows' = [rows EXCEPT ![i].state = s]
        PROVE  \A n \in DOMAIN rows : n \in DOMAIN rows' /\ rows'[n].key = rows[n].key
    <3>1. PICK i, s : rows' = [rows EXCEPT ![i].state = s]
      BY <2>3
    <3> TAKE n \in DOMAIN rows
    <3>2. /\ n \in DOMAIN rows'
          /\ rows'[n] = rows[n] \/ rows'[n] = [rows[n] EXCEPT !.state = s]
      BY <2>0, <3>1
    <3>3. rows[n] \in Row
      BY <2>0
    <3> QED
      BY <3>2, <3>3 DEF Row
  <2>4. ASSUME RemoveClient
        PROVE  \A n \in DOMAIN rows : n \in DOMAIN rows' /\ rows'[n].key = rows[n].key
    <3>1. PICK c : rows' = [n \in DOMAIN rows |->
                              IF rows[n].client = c
                              THEN [rows[n] EXCEPT !.state = "deleted"] ELSE rows[n]]
      BY <2>4 DEF RemoveClient
    <3> TAKE n \in DOMAIN rows
    <3>2. /\ n \in DOMAIN rows'
          /\ rows'[n] = rows[n] \/ rows'[n] = [rows[n] EXCEPT !.state = "deleted"]
      BY <3>1
    <3>3. rows[n] \in Row
      BY <2>0
    <3> QED
      BY <3>2, <3>3 DEF Row
  <2>5. ASSUME NEW r \in Requests, Webhook(r) \/ Process(r) \/ Work(r)
        PROVE  \/ UNCHANGED rows
               \/ \E x : rows' = Append(rows, x)
               \/ \E i, s : rows' = [rows EXCEPT ![i].state = s]
    <3>1. Webhook(r) \/ Process(r) \/ CheckClient(r) \/ Download(r) \/ Transcribe(r)
            \/ Ask(r) => UNCHANGED rows
      BY DEF Webhook, Process, CheckClient, Download, Transcribe, Ask
    <3>2. SaveInteraction(r) => UNCHANGED rows \/ \E x : rows' = Append(rows, x)
      BY DEF SaveInteraction
    <3>3. PersistTags(r) =>
            UNCHANGED rows \/ \E i, s : rows' = [rows EXCEPT ![i].state = s]
      BY DEF PersistTags
    <3> QED
      BY <2>5, <3>1, <3>2, <3>3 DEF Work
  <2>6. Presign \/ Upload \/ LoseEvent \/ Crash \/ UNCHANGED vars => UNCHANGED rows
    BY DEF Presign, Upload, LoseEvent, Crash, vars
  <2> QED
    BY <2>1, <2>2, <2>3, <2>4, <2>5, <2>6 DEF Next
<1> QED
  BY <1>1, <1>2 DEF Ingested

\* A notification goes only by being taken up or given up.
LEMMA EventsGoSomewhere ==
  ASSUME IngestionInv, [Next]_vars, NEW k \in events, k \notin events', k.ext = "audio"
  PROVE  (\E r \in Requests : InWork(r, k)') \/ Ingested(k)'
<1>1. CASE LoseEvent
  BY <1>1 DEF LoseEvent, Ingested
<1>2. ASSUME NEW r \in Requests, Webhook(r)
      PROVE  InWork(r, k)'
  BY <1>2, WebhookQueuesAll
<1>3. ASSUME NEW r \in Requests, Process(r) \/ Work(r)
      PROVE  UNCHANGED events
  BY <1>3
  DEF Process, Work, CheckClient, Download, Transcribe, SaveInteraction, Ask,
      PersistTags, bucketVars
<1>4. Presign \/ RemoveClient \/ Crash \/ UNCHANGED vars => UNCHANGED events
  BY DEF Presign, RemoveClient, Crash, vars, bucketVars
<1>5. Upload => events \subseteq events'
  BY DEF Upload
<1> QED
  BY <1>1, <1>2, <1>3, <1>4, <1>5 DEF Next

\* No recording that was uploaded is ever forgotten: at any time it is stored, or
\* its notification is to come, or it waits in a request, or there is one of
\* the known reasons, however the steps of requests, faults and deletions mix.
THEOREM NoneForgotten == Spec => []NothingForgotten
<1>1. Init => NothingForgotten
  BY DEF Init, NothingForgotten
<1>2. IngestionInv /\ NothingForgotten /\ [Next]_vars => NothingForgotten'
  <2> SUFFICES ASSUME IngestionInv, NothingForgotten, [Next]_vars,
                      NEW k \in Recordings, k \in objects'
               PROVE  k \in events' \/ (\E r \in Requests : InWork(r, k)') \/ Ingested(k)'
    BY DEF NothingForgotten
  <2>1. k.ext = "audio"
    BY DEF Recordings
  <2>2. CASE k \notin objects
    <3>1. ~Upload => UNCHANGED objects
      BY DEF Next, vars, Presign, LoseEvent, RemoveClient, Crash, Webhook, Process, Work,
             CheckClient, Download, Transcribe, SaveInteraction, Ask, PersistTags, bucketVars
    <3> QED
      BY <2>2, <3>1 DEF Upload
  <2>3. CASE k \in objects /\ k \in events
    BY <2>1, <2>3, EventsGoSomewhere
  <2>4. CASE k \in objects /\ \E r \in Requests : InWork(r, k)
    BY <2>4, WorkIsKept
  <2>5. CASE k \in objects /\ Ingested(k)
    BY <2>5, IngestedStays
  <2> QED
    BY <2>2, <2>3, <2>4, <2>5 DEF NothingForgotten
<1> QED
  BY <1>1, <1>2, IngestionInvHolds, PTL DEF Spec

---------------------------------------------------------------------------
(***************************************************************************)
(* Liveness.  Two things are hypotheses: that MinIO and a request can go   *)
(* on, a state predicate that TLC evaluates, because the provers cannot    *)
(* look into ENABLED; and two inductions over numbers, which are true of   *)
(* any predicate but cannot be instantiated with a temporal formula.       *)
(***************************************************************************)
CanGoOn ==
  /\ \A r \in Requests : stage[r] # "idle" => ENABLED <<Work(r)>>_vars
  /\ (\E r \in Requests : stage[r] = "idle") /\ events # {} => ENABLED <<Notify>>_vars

EndsWithin(r, j) == Len(todo[r]) <= j ~> stage[r] = "idle"

InductionOnItems ==
  \A r \in Requests :
    /\ EndsWithin(r, 0)
    /\ \A j \in Nat : EndsWithin(r, j) => EndsWithin(r, j + 1)
    => \A j \in Nat : EndsWithin(r, j)

\* The stages an item can still come to.
Later(s) ==
  CASE s = "check"      -> {"download", "transcribe", "save", "ask", "ask again", "persist"}
    [] s = "download"   -> {"transcribe", "save", "ask", "ask again", "persist"}
    [] s = "transcribe" -> {"save", "ask", "ask again", "persist"}
    [] s = "save"       -> {"ask", "ask again", "persist"}
    [] s = "ask"        -> {"ask again", "persist"}
    [] s = "ask again"  -> {"persist"}
    [] OTHER            -> {}

\* A step of a request brings its item to a later stage or to its end.
LEMMA ItemMovesOn ==
  ASSUME IngestionInv, NEW r \in Requests, Work(r)
  PROVE  \/ UNCHANGED todo /\ stage'[r] \in Later(stage[r])
         \/ Len(todo'[r]) < Len(todo[r])
<1> USE DEF IngestionInv
<1>0. /\ stage[r] # "idle" /\ todo[r] # <<>> /\ todo[r] \in Seq(Item)
      /\ todo \in [Requests -> Seq(Item)] /\ stage \in [Requests -> Stages]
  BY DEF TypeOK, Work, CheckClient, Download, Transcribe, SaveInteraction, Ask, PersistTags
<1>1. ASSUME NEW s \in Later(stage[r]), stage' = [stage EXCEPT ![r] = s], UNCHANGED todo
      PROVE  UNCHANGED todo /\ stage'[r] \in Later(stage[r])
  BY <1>0, <1>1
<1>2. ASSUME NEW rest \in {<<>>, Tail(todo[r])}, Continue(r, rest)
      PROVE  Len(todo'[r]) < Len(todo[r])
  <2>1. todo'[r] = rest
    BY <1>0, <1>2 DEF Continue
  <2>2. Len(todo[r]) \in Nat /\ Len(todo[r]) >= 1
    BY <1>0
  <2>3. Len(<<>>) = 0 /\ Len(Tail(todo[r])) = Len(todo[r]) - 1
    BY <1>0
  <2> QED
    BY <2>1, <2>2, <2>3
<1>3. Finish(r) \/ Abandon(r) \/ Raise(r) => Len(todo'[r]) < Len(todo[r])
  BY <1>2 DEF Finish, Abandon, Raise
<1>4. CASE CheckClient(r) \/ Download(r) \/ Transcribe(r)
  BY <1>1, <1>3, <1>4 DEF CheckClient, Download, Transcribe, Goto, Later
<1>5. CASE SaveInteraction(r)
  BY <1>1, <1>3, <1>5 DEF SaveInteraction, Later
<1>6. CASE Ask(r)
  BY <1>1, <1>3, <1>6 DEF Ask, Goto, Later
<1>7. CASE PersistTags(r)
  BY <1>3, <1>7 DEF PersistTags
<1> QED
  BY <1>4, <1>5, <1>6, <1>7 DEF Work

\* A request leaves the work of the others alone.
LEMMA OtherRequests ==
  ASSUME IngestionInv, NEW r \in Requests, NEW q \in Requests \ {r},
         Webhook(q) \/ Process(q) \/ Work(q)
  PROVE  todo'[r] = todo[r] /\ stage'[r] = stage[r]
<1>0. todo \in [Requests -> Seq(Item)] /\ stage \in [Requests -> Stages]
  BY DEF IngestionInv, TypeOK
<1> DEFINE Same == todo'[r] = todo[r] /\ stage'[r] = stage[r]
<1>1. \A items : Begin(q, items) => Same
  BY <1>0 DEF Begin
<1>2. \A s : Goto(q, s) => Same
  BY <1>0 DEF Goto
<1>3. \A rest : Continue(q, rest) => Same
  BY <1>0 DEF Continue
<1>4. Finish(q) \/ Abandon(q) \/ Raise(q) => Same
  BY <1>3 DEF Finish, Abandon, Raise
<1>5. stage' = [stage EXCEPT ![q] = "ask"] /\ UNCHANGED todo => Same
  BY <1>0
<1> HIDE DEF Same
<1>6. SaveInteraction(q) => Same
  BY <1>4, <1>5 DEF SaveInteraction
<1>7. CheckClient(q) \/ Download(q) \/ Transcribe(q) \/ Ask(q) \/ PersistTags(q) => Same
  BY <1>2, <1>4 DEF CheckClient, Download, Transcribe, Ask, PersistTags
<1>8. Webhook(q) => Same
  BY <1>1, Zenon DEF Webhook
<1>9. Process(q) => Same
  BY <1>1, Zenon DEF Process
<1> QED
  BY <1>6, <1>7, <1>8, <1>9 DEF Work, Same

\* Nobody else touches a request at work, but for the end of the process.
LEMMA OthersLeaveRequest ==
  ASSUME IngestionInv, [Next]_vars, NEW r \in Requests, stage[r] # "idle"
  PROVE  \/ todo'[r] = todo[r] /\ stage'[r] = stage[r]
         \/ Work(r)
         \/ stage'[r] = "idle"
<1>1. ASSUME NEW q \in Requests \ {r}, Webhook(q) \/ Process(q) \/ Work(q)
      PROVE  todo'[r] = todo[r] /\ stage'[r] = stage[r]
  BY <1>1, OtherRequests
<1>2. Crash => stage'[r] = "idle"
  BY DEF Crash
<1>3. ~Webhook(r) /\ ~Process(r)
  BY DEF Webhook, Process
<1>4. Presign \/ Upload \/ LoseEvent \/ RemoveClient \/ UNCHANGED vars
        => UNCHANGED <<todo, stage>>
  BY DEF Presign, Upload, LoseEvent, RemoveClient, vars, requestVars
<1> QED
  BY <1>1, <1>2, <1>3, <1>4 DEF Next

\* The fairness of one request out of that of all.
LEMMA FairRequest == ASSUME NEW r \in Requests PROVE FairSpec => KeepsWorking(r)
<1>1. RequestsGoOn => KeepsWorking(r)
  BY DEF RequestsGoOn
<1> QED
  BY <1>1, PTL DEF FairSpec

\* A request with j + 1 items comes to its end if one with j items does.
LEMMA OneItemLess ==
  ASSUME NEW r \in Requests, NEW j \in Nat
  PROVE  Spec /\ KeepsWorking(r) /\ []CanGoOn
           => (EndsWithin(r, j) => EndsWithin(r, j + 1))
<1> DEFINE Idle == stage[r] = "idle"
           Less == Len(todo[r]) <= j
           Here == Len(todo[r]) <= j + 1
           At(S) == Here /\ stage[r] \in S
           Good == Idle \/ Less
           S1 == Stages \ {"idle"}
           S2 == {"download", "transcribe", "save", "ask", "ask again", "persist"}
           S3 == {"transcribe", "save", "ask", "ask again", "persist"}
           S4 == {"save", "ask", "ask again", "persist"}
           S5 == {"ask", "ask again", "persist"}
           S6 == {"ask again", "persist"}
           S7 == {"persist"}
           Comes(S, T) == /\ \A s \in S : Later(s) \subseteq T
                          /\ T \subseteq S /\ "idle" \notin S
           Step(S, T) == IngestionInv /\ [Next]_vars /\ At(S) =>
                           (At(S) \/ Good)' /\ (Work(r) => (At(T) \/ Good)')
<1>1. ASSUME NEW S, NEW T, Comes(S, T), IngestionInv, IngestionInv', [Next]_vars, At(S)
      PROVE  (At(S) \/ Good)' /\ (Work(r) => (At(T) \/ Good)')
  <2>1. Len(todo[r]) \in Nat /\ Len(todo'[r]) \in Nat
    BY <1>1 DEF IngestionInv, TypeOK
  <2>2. CASE Work(r)
    <3>1. CASE UNCHANGED todo /\ stage'[r] \in Later(stage[r])
      BY <1>1, <3>1
    <3>2. CASE Len(todo'[r]) < Len(todo[r])
      BY <1>1, <2>1, <3>2
    <3> QED
      BY <1>1, <2>2, <3>1, <3>2, ItemMovesOn
  <2>3. CASE ~Work(r)
    BY <1>1, <2>3, OthersLeaveRequest
  <2> QED
    BY <2>2, <2>3
<1>2. ASSUME NEW S, NEW T, Comes(S, T)
      PROVE  IngestionInv' => Step(S, T)
  BY <1>1, <1>2
<1>3. /\ Comes(S1, S2) /\ Comes(S2, S3) /\ Comes(S3, S4) /\ Comes(S4, S5)
      /\ Comes(S5, S6) /\ Comes(S6, S7) /\ Comes(S7, {})
  BY DEF Later, Stages
<1>4. IngestionInv' =>
        /\ Step(S1, S2) /\ Step(S2, S3) /\ Step(S3, S4) /\ Step(S4, S5)
        /\ Step(S5, S6) /\ Step(S6, S7) /\ Step(S7, {})
  <2> HIDE DEF Comes, Step, S1, S2, S3, S4, S5, S6, S7
  <2> QED
    BY <1>2, <1>3
<1>5. CanGoOn => (~Idle => ENABLED <<Work(r)>>_vars)
  BY DEF CanGoOn
<1>6. /\ At(S1) \/ At(S2) \/ At(S3) \/ At(S4) \/ At(S5) \/ At(S6) \/ At(S7) => ~Idle
      /\ At({}) => FALSE
  BY DEF Stages
<1>7. IngestionInv /\ Here => Idle \/ At(S1)
  BY DEF IngestionInv, TypeOK
<1> HIDE DEF At, Idle, Less, Here, S1, S2, S3, S4, S5, S6, S7
<1>8. Spec /\ KeepsWorking(r) /\ []CanGoOn /\ (Less ~> Idle) => (Here ~> Idle)
  BY <1>4, <1>5, <1>6, <1>7, IngestionInvHolds, PTL DEF Spec, KeepsWorking, Step, Good
<1> QED
  BY <1>8 DEF EndsWithin, Idle, Less, Here

\* A request is idle again and again: whatever fails, its items come to an end.
LEMMA RequestEnds ==
  ASSUME NEW r \in Requests
  PROVE  FairSpec /\ []CanGoOn /\ InductionOnItems => []<>(stage[r] = "idle")
<1> DEFINE Idle == stage[r] = "idle"
           Here(j) == Len(todo[r]) <= j
<1>1. Spec => EndsWithin(r, 0)
  <2>1. IngestionInv /\ Len(todo[r]) <= 0 => stage[r] = "idle"
    <3> SUFFICES ASSUME IngestionInv, Len(todo[r]) <= 0
                 PROVE  todo[r] = <<>>
      BY DEF IngestionInv, TypeOK
    <3>1. todo[r] \in Seq(Item)
      BY DEF IngestionInv, TypeOK
    <3> QED
      BY <3>1
  <2> QED
    BY <2>1, IngestionInvHolds, PTL DEF EndsWithin
<1>2. FairSpec /\ []CanGoOn /\ InductionOnItems => \A j \in Nat : EndsWithin(r, j)
  <2>1. FairSpec => Spec /\ KeepsWorking(r)
    BY FairRequest, PTL DEF FairSpec
  <2>2. FairSpec => EndsWithin(r, 0)
    BY <1>1, <2>1
  <2>3. ASSUME NEW j \in Nat
        PROVE  FairSpec /\ []CanGoOn => (EndsWithin(r, j) => EndsWithin(r, j + 1))
    <3>1. Spec /\ KeepsWorking(r) /\ []CanGoOn
            => (EndsWithin(r, j) => EndsWithin(r, j + 1))
      BY OneItemLess
    <3> QED
      BY <2>1, <3>1
  <2>4. FairSpec /\ []CanGoOn => \A j \in Nat : EndsWithin(r, j) => EndsWithin(r, j + 1)
    BY <2>3
  <2> QED
    BY <2>2, <2>4 DEF InductionOnItems
<1>3. IngestionInv => \E j \in Nat : Here(j)
  <2> SUFFICES ASSUME IngestionInv
               PROVE  \E j \in Nat : Here(j)
    OBVIOUS
  <2>1. Len(todo[r]) \in Nat
    BY DEF IngestionInv, TypeOK
  <2> QED
    BY <2>1
<1> HIDE DEF Idle, Here
<1>4. ASSUME NEW j \in Nat
      PROVE  EndsWithin(r, j) => [](Here(j) => <>Idle)
  BY PTL DEF EndsWithin, Here, Idle
<1>5. (\A j \in Nat : EndsWithin(r, j)) => \A j \in Nat : [](Here(j) => <>Idle)
  BY <1>4
<1>6. (\A j \in Nat : [](Here(j) => <>Idle)) => [](\A j \in Nat : (Here(j) => <>Idle))
  OBVIOUS
<1>7. (\A j \in Nat : (Here(j) => <>Idle)) => ((\E j \in Nat : Here(j)) => <>Idle)
  OBVIOUS
<1> QED
  BY <1>2, <1>3, <1>5, <1>6, <1>7, IngestionInvHolds, PTL DEF FairSpec, Idle

\* No two keys share a uuid (storage.py draws a fresh one for every presign).
DistinctIds == \A j, k \in issued : j.id = k.id => j = k

\* Presign alone issues a key, and draws a uuid that no key issued has.
LEMMA IdsStayDistinct == Spec => []DistinctIds
<1>1. Init => DistinctIds
  BY DEF Init, DistinctIds
<1>2. TypeOK /\ DistinctIds /\ [Next]_vars => DistinctIds'
  <2> SUFFICES ASSUME TypeOK, DistinctIds, [Next]_vars
               PROVE  DistinctIds'
    OBVIOUS
  <2>1. CASE UNCHANGED issued
    BY <2>1 DEF DistinctIds
  <2>2. CASE Presign
    <3>1. PICK c \in clients, i \in Ids, x \in Exts :
            /\ \A k \in issued : k.id # i
            /\ issued' = issued \cup {[client |-> c, id |-> i, ext |-> x]}
      BY <2>2 DEF Presign
    <3> QED
      BY <3>1 DEF DistinctIds
  <2>3. ~Presign => UNCHANGED issued
    BY DEF Next, vars, Upload, LoseEvent, RemoveClient, Crash, Webhook, Process, Work,
           CheckClient, Download, Transcribe, SaveInteraction, Ask, PersistTags, bucketVars
  <2> QED
    BY <2>1, <2>2, <2>3
<1> QED
  BY <1>1, <1>2, IngestionTypes, PTL DEF Spec

\* What can still be asked of the backend: uploads to come, which count for two
\* because each brings a notification, notifications, and calls that MinIO or
\* the app may still add.
Unused == Ids \ {k.id : k \in objects}
CallsLeft == 2 * Cardinality(Unused) + Cardinality(events) + (MaxExtra - extra)

\* The arithmetic of the measure, for each way in which a step changes it.
LEMMA Sums ==
  ASSUME NEW u \in Nat, NEW v \in Nat, NEW e \in Nat, NEW d \in Nat,
         NEW x \in Nat, NEW y \in Nat, NEW m \in Nat
  PROVE  /\ v = u /\ d = e /\ x = y => 2 * v + d + (m - y) = 2 * u + e + (m - x)
         /\ v = u /\ d <= e /\ x = y => 2 * v + d + (m - y) <= 2 * u + e + (m - x)
         /\ v = u /\ d < e /\ x = y => 2 * v + d + (m - y) < 2 * u + e + (m - x)
         /\ v = u /\ d = e /\ y = x + 1 => 2 * v + d + (m - y) < 2 * u + e + (m - x)
         /\ v = u - 1 /\ d <= e + 1 /\ x = y => 2 * v + d + (m - y) <= 2 * u + e + (m - x)
  OBVIOUS

\* The measure is a number: all it counts is finite.
LEMMA CallsLeftIsNumber ==
  ASSUME IsFiniteSet(Ids), IngestionInv
  PROVE  /\ IsFiniteSet(Unused) /\ IsFiniteSet(events)
         /\ Cardinality(Unused) \in Nat /\ Cardinality(events) \in Nat
         /\ extra \in Nat /\ extra <= MaxExtra /\ MaxExtra \in Nat
         /\ CallsLeft \in Nat
<1>1. IsFiniteSet(Unused) /\ IsFiniteSet(events)
  BY FS_Subset DEF Unused, IngestionInv, EventsFinite
<1>2. Cardinality(Unused) \in Nat /\ Cardinality(events) \in Nat
  BY <1>1, FS_CardinalityType
<1>3. extra \in Nat /\ extra <= MaxExtra /\ MaxExtra \in Nat
  BY IngestionAssumption DEF IngestionInv, TypeOK
<1> QED
  BY <1>1, <1>2, <1>3 DEF CallsLeft

\* It never grows, and each request that begins uses some of it up.
LEMMA CallsRunOut ==
  ASSUME IsFiniteSet(Ids), IngestionInv, IngestionInv', DistinctIds, [Next]_vars
  PROVE  /\ CallsLeft' <= CallsLeft
         /\ \A r \in Requests : Webhook(r) \/ Process(r) => CallsLeft' < CallsLeft
<1> DEFINE u == Cardinality(Unused)
           e == Cardinality(events)
<1>1. /\ u \in Nat /\ u' \in Nat /\ e \in Nat /\ e' \in Nat
      /\ extra \in Nat /\ extra' \in Nat /\ MaxExtra \in Nat
      /\ IsFiniteSet(Unused) /\ IsFiniteSet(events)
      /\ extra' <= MaxExtra
  <2>1. IsFiniteSet(Unused) /\ IsFiniteSet(Unused')
    BY FS_Subset DEF Unused
  <2>2. IsFiniteSet(events) /\ IsFiniteSet(events')
    BY DEF IngestionInv, EventsFinite
  <2>3. u \in Nat /\ u' \in Nat /\ e \in Nat /\ e' \in Nat
    BY <2>1, <2>2, FS_CardinalityType
  <2> QED
    BY <2>1, <2>2, <2>3, IngestionAssumption DEF IngestionInv, TypeOK
<1>2. /\ CallsLeft = 2 * u + e + (MaxExtra - extra)
      /\ CallsLeft' = 2 * u' + e' + (MaxExtra - extra')
      /\ CallsLeft \in Int /\ CallsLeft' \in Int
  BY <1>1 DEF CallsLeft
<1>3. UNCHANGED objects => u' = u
  BY DEF Unused
<1>4. UNCHANGED events => e' = e
  OBVIOUS
<1> HIDE DEF u, e
<1>5. /\ u' = u /\ e' = e /\ UNCHANGED extra
           => 2 * u' + e' + (MaxExtra - extra') = 2 * u + e + (MaxExtra - extra)
      /\ u' = u /\ e' <= e /\ UNCHANGED extra
           => 2 * u' + e' + (MaxExtra - extra') <= 2 * u + e + (MaxExtra - extra)
      /\ u' = u /\ e' < e /\ UNCHANGED extra
           => 2 * u' + e' + (MaxExtra - extra') < 2 * u + e + (MaxExtra - extra)
      /\ u' = u /\ e' = e /\ extra' = extra + 1
           => 2 * u' + e' + (MaxExtra - extra') < 2 * u + e + (MaxExtra - extra)
      /\ u' = u - 1 /\ e' <= e + 1 /\ UNCHANGED extra
           => 2 * u' + e' + (MaxExtra - extra') <= 2 * u + e + (MaxExtra - extra)
  BY <1>1, Sums
<1>6. ASSUME NEW r \in Requests, Webhook(r)
      PROVE  CallsLeft' < CallsLeft
  <2>1. UNCHANGED objects
    BY <1>6 DEF Webhook
  <2>2. \/ UNCHANGED events /\ extra' = extra + 1
        \/ events' # events /\ events' \subseteq events /\ UNCHANGED extra
    <3>1. PICK batch \in (SUBSET events) \ {{}} :
            \/ events' = events \ batch /\ UNCHANGED extra
            \/ extra < MaxExtra /\ extra' = extra + 1 /\ UNCHANGED events
      BY <1>6, Zenon DEF Webhook
    <3> QED
      BY <3>1
  <2>3. CASE events' # events /\ events' \subseteq events
    <3>1. e' < e
      <4>1. e' <= e /\ e' # e
        BY <1>1, <2>3, FS_Subset DEF e
      <4> QED
        BY <1>1, <4>1
    <3>2. UNCHANGED extra /\ u' = u
      BY <1>1, <1>3, <2>1, <2>2, <2>3
    <3> QED
      BY <1>2, <1>5, <3>1, <3>2
  <2>4. CASE UNCHANGED events /\ extra' = extra + 1
    BY <1>2, <1>3, <1>4, <1>5, <2>1, <2>4
  <2> QED
    BY <2>2, <2>3, <2>4
<1>7. ASSUME NEW r \in Requests, Process(r)
      PROVE  CallsLeft' < CallsLeft
  <2>1. UNCHANGED <<objects, events>> /\ extra' = extra + 1
    BY <1>7 DEF Process, bucketVars
  <2> QED
    BY <1>2, <1>3, <1>4, <1>5, <2>1
<1>8. ASSUME Upload
      PROVE  CallsLeft' <= CallsLeft
  <2>1. PICK k \in issued \ objects :
          objects' = objects \cup {k} /\ events' = events \cup {k}
    BY <1>8 DEF Upload
  <2>2. e' <= e + 1
    <3>1. e' = e \/ e' = e + 1
      BY <1>1, <2>1, FS_AddElement DEF e
    <3>2. \A c \in Nat : c <= c + 1
      OBVIOUS
    <3> QED
      BY <1>1, <3>1, <3>2
  <2>3. k.id \in Unused
    <3>1. k \in Key /\ objects \subseteq issued
      BY DEF IngestionInv, TypeOK
    <3>2. \A j \in objects : j.id # k.id
      BY <2>1, <3>1 DEF DistinctIds
    <3> QED
      BY <3>1, <3>2 DEF Unused, Key
  <2>4. Unused' = Unused \ {k.id}
    BY <2>1 DEF Unused
  <2>5. u' = u - 1
    BY <1>1, <2>3, <2>4, FS_RemoveElement DEF u
  <2>6. UNCHANGED extra
    BY <1>8 DEF Upload
  <2> QED
    BY <1>2, <1>5, <2>2, <2>5, <2>6
<1>9. ASSUME LoseEvent
      PROVE  CallsLeft' <= CallsLeft
  <2>1. UNCHANGED <<objects, extra>> /\ \E k \in events : events' = events \ {k}
    BY <1>9 DEF LoseEvent
  <2>2. e' <= e
    BY <1>1, <2>1, FS_Subset DEF e
  <2> QED
    BY <1>2, <1>3, <1>5, <2>1, <2>2
<1>10. ASSUME UNCHANGED <<objects, events, extra>>
      PROVE  CallsLeft' <= CallsLeft
  BY <1>2, <1>3, <1>4, <1>5, <1>10
<1>11. ASSUME NEW r \in Requests, Work(r)
       PROVE  UNCHANGED <<objects, events, extra>>
  BY <1>11
  DEF Work, CheckClient, Download, Transcribe, SaveInteraction, Ask, PersistTags, bucketVars
<1>12. Presign \/ RemoveClient \/ Crash \/ UNCHANGED vars
         => UNCHANGED <<objects, events, extra>>
  BY DEF Presign, RemoveClient, Crash, vars, bucketVars
<1>13. CallsLeft' < CallsLeft => CallsLeft' <= CallsLeft
  <2>1. \A c, d \in Int : d < c => d <= c
    OBVIOUS
  <2> QED
    BY <1>2, <2>1
<1> QED
  BY <1>6, <1>7, <1>8, <1>9, <1>10, <1>11, <1>12, <1>13 DEF Next

\* A request that is idle stays so until it is given work.
LEMMA IdleStays ==
  ASSUME IngestionInv, [Next]_vars, NEW r \in Requests, stage[r] = "idle"
  PROVE  stage'[r] = "idle" \/ Webhook(r) \/ Process(r)
<1>1. ASSUME NEW q \in Requests \ {r}, Webhook(q) \/ Process(q) \/ Work(q)
      PROVE  stage'[r] = "idle"
  BY <1>1, OtherRequests
<1>2. ~Work(r)
  BY DEF Work, CheckClient, Download, Transcribe, SaveInteraction, Ask, PersistTags
<1>3. Presign \/ Upload \/ LoseEvent \/ RemoveClient \/ Crash \/ UNCHANGED vars
        => stage'[r] = "idle"
  BY DEF Presign, Upload, LoseEvent, RemoveClient, Crash, vars, requestVars
<1> QED
  BY <1>1, <1>2, <1>3 DEF Next

TakenWithin(k, n) == k \in events /\ CallsLeft <= n ~> k \notin events

InductionOnCalls ==
  \A k \in Recordings :
    /\ TakenWithin(k, 0)
    /\ \A n \in Nat : TakenWithin(k, n) => TakenWithin(k, n + 1)
    => \A n \in Nat : TakenWithin(k, n)

\* With one call more to come a notification is taken up all the same: a request
\* is idle some time, and then MinIO delivers, or the call is used up.
LEMMA OneCallLess ==
  ASSUME IsFiniteSet(Ids), NEW r \in Requests, NEW k, NEW n \in Nat
  PROVE  Spec /\ NotifyGoesOn /\ []CanGoOn /\ []<>(stage[r] = "idle")
           => (TakenWithin(k, n) => TakenWithin(k, n + 1))
<1> DEFINE Idle == stage[r] = "idle"
           Pending == k \in events
           Gone == k \notin events
           Here == Pending /\ CallsLeft <= n + 1
           Less == Pending /\ CallsLeft <= n
<1>0. (IngestionInv => CallsLeft \in Nat) /\ (IngestionInv => CallsLeft \in Nat)'
  <2>1. IngestionInv => CallsLeft \in Nat
    BY CallsLeftIsNumber
  <2> QED
    BY <2>1, PTL
<1>1. IngestionInv /\ IngestionInv' /\ DistinctIds /\ [Next]_vars /\ Here =>
        /\ (Here \/ Gone)'
        /\ Idle => (Idle \/ Less \/ Gone)'
        /\ Notify => (Less \/ Gone)'
  <2> SUFFICES ASSUME IngestionInv, IngestionInv', DistinctIds, [Next]_vars, Here
               PROVE  /\ (Here \/ Gone)'
                      /\ Idle => (Idle \/ Less \/ Gone)'
                      /\ Notify => (Less \/ Gone)'
    OBVIOUS
  <2>1. CallsLeft \in Nat /\ CallsLeft' \in Nat
    BY <1>0
  <2>2. /\ CallsLeft' <= CallsLeft
        /\ \A q \in Requests : Webhook(q) \/ Process(q) => CallsLeft' < CallsLeft
    BY CallsRunOut
  <2>3. CallsLeft' <= n + 1
    BY <2>1, <2>2
  <2>4. CallsLeft' < CallsLeft => CallsLeft' <= n
    BY <2>1
  <2>5. Notify => CallsLeft' <= n
    BY <2>2, <2>4 DEF Notify
  <2>6. Idle => Idle' \/ CallsLeft' <= n
    BY <2>2, <2>4, IdleStays
  <2> QED
    BY <2>3, <2>5, <2>6
<1>2. CanGoOn /\ Idle /\ Pending => ENABLED <<Notify>>_vars
  BY DEF CanGoOn
<1>3. (Here => Pending) /\ (Gone <=> ~Pending)
  OBVIOUS
<1> HIDE DEF Idle, Pending, Gone, Here, Less
<1>5. Spec /\ NotifyGoesOn /\ []CanGoOn /\ []<>Idle /\ (Less ~> Gone) => (Here ~> Gone)
  BY <1>1, <1>2, <1>3, IngestionInvHolds, IdsStayDistinct, PTL DEF Spec, NotifyGoesOn
<1> QED
  BY <1>5 DEF TakenWithin, Idle, Pending, Gone, Here, Less

\* A notification is taken up or given up some time.
LEMMA EventGoes ==
  ASSUME IsFiniteSet(Ids), NEW r \in Requests, NEW k \in Recordings
  PROVE  FairSpec /\ []CanGoOn /\ InductionOnItems /\ InductionOnCalls
           => (k \in events ~> k \notin events)
<1> DEFINE Left(n) == k \in events /\ CallsLeft <= n
           Gone == k \notin events
<1>0. FairSpec => Spec /\ NotifyGoesOn
  BY PTL DEF FairSpec
<1>1. FairSpec => TakenWithin(k, 0)
  <2>1. IngestionInv /\ k \in events /\ CallsLeft <= 0 => FALSE
    <3> SUFFICES ASSUME IngestionInv, k \in events, CallsLeft <= 0
                 PROVE  FALSE
      OBVIOUS
    <3>1. /\ Cardinality(Unused) \in Nat /\ Cardinality(events) \in Nat
          /\ extra \in Nat /\ extra <= MaxExtra /\ MaxExtra \in Nat
          /\ IsFiniteSet(events)
      BY CallsLeftIsNumber
    <3>2. Cardinality(events) # 0
      BY <3>1, FS_EmptySet
    <3>3. \A u, e, x, m \in Nat : e # 0 /\ x <= m => ~(2 * u + e + (m - x) <= 0)
      OBVIOUS
    <3> QED
      BY <3>1, <3>2, <3>3 DEF CallsLeft
  <2> QED
    BY <2>1, IngestionInvHolds, PTL DEF TakenWithin, FairSpec
<1>2. ASSUME NEW n \in Nat
      PROVE  FairSpec /\ []CanGoOn /\ InductionOnItems
               => (TakenWithin(k, n) => TakenWithin(k, n + 1))
  <2>1. Spec /\ NotifyGoesOn /\ []CanGoOn /\ []<>(stage[r] = "idle")
          => (TakenWithin(k, n) => TakenWithin(k, n + 1))
    BY OneCallLess
  <2>2. FairSpec /\ []CanGoOn /\ InductionOnItems => []<>(stage[r] = "idle")
    BY RequestEnds
  <2> QED
    BY <1>0, <2>1, <2>2
<1>3. FairSpec /\ []CanGoOn /\ InductionOnItems /\ InductionOnCalls
        => \A n \in Nat : TakenWithin(k, n)
  <2>1. FairSpec /\ []CanGoOn /\ InductionOnItems
          => \A n \in Nat : TakenWithin(k, n) => TakenWithin(k, n + 1)
    BY <1>2
  <2> QED
    BY <1>1, <2>1 DEF InductionOnCalls
<1>4. IngestionInv => (k \in events => \E n \in Nat : Left(n))
  <2>1. \A c \in Nat : c <= c
    OBVIOUS
  <2>2. IngestionInv => CallsLeft \in Nat
    BY CallsLeftIsNumber
  <2> QED
    BY <2>1, <2>2
<1> HIDE DEF Left, Gone
<1>5. ASSUME NEW n \in Nat
      PROVE  TakenWithin(k, n) => [](Left(n) => <>Gone)
  BY PTL DEF TakenWithin, Left, Gone
<1>6. (\A n \in Nat : TakenWithin(k, n)) => \A n \in Nat : [](Left(n) => <>Gone)
  BY <1>5
<1>7. (\A n \in Nat : [](Left(n) => <>Gone)) => [](\A n \in Nat : (Left(n) => <>Gone))
  OBVIOUS
<1>8. (\A n \in Nat : (Left(n) => <>Gone)) => ((\E n \in Nat : Left(n)) => <>Gone)
  OBVIOUS
<1> QED
  BY <1>0, <1>3, <1>4, <1>6, <1>7, <1>8, IngestionInvHolds, PTL DEF Gone

HeldIsIngested(r, k) == [](k \in objects /\ InWork(r, k) => <>Ingested(k))

\* Work on a recording ends with its interaction, or one of the known reasons.
LEMMA WorkEnds ==
  ASSUME NEW r \in Requests, NEW k \in Recordings
  PROVE  FairSpec /\ []CanGoOn /\ InductionOnItems => HeldIsIngested(r, k)
<1> DEFINE Held == k \in objects /\ InWork(r, k)
           Idle == stage[r] = "idle"
           Done == Ingested(k)
<1>1. IngestionInv /\ Held /\ [Next]_vars => (Held \/ Done)'
  <2>1. k \in objects /\ [Next]_vars => k \in objects'
    BY DEF Next, vars, Presign, Upload, LoseEvent, RemoveClient, Crash, Webhook, Process,
           Work, CheckClient, Download, Transcribe, SaveInteraction, Ask, PersistTags,
           bucketVars
  <2> QED
    BY <2>1, WorkIsKept
<1>2. IngestionInv /\ Held => ~Idle
  BY DEF IngestionInv, TypeOK, InWork
<1>3. FairSpec => Spec
  BY PTL DEF FairSpec
<1>4. FairSpec /\ []CanGoOn /\ InductionOnItems => []<>Idle
  BY RequestEnds
<1> HIDE DEF Held, Idle, Done
<1>5. Spec /\ []<>Idle => [](Held => <>Done)
  BY <1>1, <1>2, IngestionInvHolds, PTL DEF Spec
<1>6. FairSpec /\ []CanGoOn /\ InductionOnItems => [](Held => <>Done)
  BY <1>3, <1>4, <1>5
<1> QED
  BY <1>6 DEF Held, Done, HeldIsIngested

\* Every recording that is uploaded becomes an interaction, or there is one of
\* the known reasons, whatever the number of clients, of requests and of files:
\* no upload is forgotten and none waits forever behind the others.  That
\* uploads are finitely many is needed: MinIO owes no order to its events.
THEOREM UploadsAreIngested ==
  ASSUME IsFiniteSet(Ids), NEW r0 \in Requests
  PROVE  FairSpec /\ []CanGoOn /\ InductionOnItems /\ InductionOnCalls
           => EveryUploadIsIngested
<1> SUFFICES ASSUME NEW k \in Recordings
             PROVE  FairSpec /\ []CanGoOn /\ InductionOnItems /\ InductionOnCalls
                      => (k \in objects ~> Ingested(k))
  BY DEF EveryUploadIsIngested, Recordings, Ingested
<1> DEFINE There == k \in objects
           Pending == k \in events
           Gone == k \notin events
           Held(r) == k \in objects /\ InWork(r, k)
           Done == Ingested(k)
<1>1. NothingForgotten /\ There => Pending \/ (\E r \in Requests : Held(r)) \/ Done
  BY DEF NothingForgotten
<1>2. There /\ [Next]_vars => There'
  BY DEF Next, vars, Presign, Upload, LoseEvent, RemoveClient, Crash, Webhook, Process,
         Work, CheckClient, Download, Transcribe, SaveInteraction, Ask, PersistTags,
         bucketVars
<1>3. Gone <=> ~Pending
  OBVIOUS
<1>4. FairSpec /\ []CanGoOn /\ InductionOnItems /\ InductionOnCalls => (Pending ~> Gone)
  BY EventGoes
<1> HIDE DEF There, Pending, Gone, Held, Done
<1>5. FairSpec /\ []CanGoOn /\ InductionOnItems
        => \A r \in Requests : [](Held(r) => <>Done)
  <2>1. ASSUME NEW r \in Requests
        PROVE  FairSpec /\ []CanGoOn /\ InductionOnItems => [](Held(r) => <>Done)
    <3>1. FairSpec /\ []CanGoOn /\ InductionOnItems => HeldIsIngested(r, k)
      BY WorkEnds
    <3> QED
      BY <3>1 DEF Held, Done, HeldIsIngested
  <2> QED
    BY <2>1
<1>6. (\A r \in Requests : [](Held(r) => <>Done))
        => [](\A r \in Requests : (Held(r) => <>Done))
  OBVIOUS
<1>7. (\A r \in Requests : (Held(r) => <>Done))
        => ((\E r \in Requests : Held(r)) => <>Done)
  OBVIOUS
<1>8. FairSpec => Spec
  BY PTL DEF FairSpec
<1>9. FairSpec /\ []CanGoOn /\ InductionOnItems /\ InductionOnCalls => (There ~> Done)
  BY <1>1, <1>2, <1>3, <1>4, <1>5, <1>6, <1>7, <1>8, NoneForgotten, PTL DEF Spec
<1> QED
  BY <1>9 DEF There, Done
===========================================================================
