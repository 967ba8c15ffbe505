--------------------------- MODULE AudioIngestion -------------------------
(***************************************************************************)
(* From a recording to context tags: the app asks for a presigned URL and  *)
(* PUTs the recording into MinIO, MinIO notifies POST /audio/webhook, and  *)
(* a background task of the backend downloads, transcribes, stores the     *)
(* interaction and extracts its tags with the LLM.  POST /audio/process    *)
(* does the same for one object within the request.                        *)
(*                                                                         *)
(* A request is what one HTTP request keeps going in the backend: the body *)
(* of /process, or the background tasks of a webhook call, which Starlette *)
(* runs one after the other once 200 has been sent.  Both run the same     *)
(* pipeline per object and differ in what an exception does.  MinIO is     *)
(* external.                                                               *)
(***************************************************************************)
EXTENDS Naturals, Sequences, FiniteSets, SequencesExt

CONSTANTS
  Clients,    \* clients on the books when the behaviour starts
  Ids,        \* uuids the backend can draw for object keys (bounds uploads)
  Exts,       \* file extensions of uploads: "audio" for those the webhook
              \* knows, "other" for any other
  Requests,   \* slots for requests in progress
  MaxExtra,   \* bound: /process calls and repeated notifications
  Faults      \* the faults that can happen: a subset of FaultKinds

FaultKinds == {"notify", "storage", "whisper", "llm", "db", "crash"}

ASSUME IngestionAssumption ==
  /\ Exts \subseteq {"audio", "other"}
  /\ MaxExtra \in Nat
  /\ Faults \subseteq FaultKinds

VARIABLES
  clients,    \* the client rows that exist
  issued,     \* object keys that presign has handed out
  objects,    \* keys of the objects in the bucket
  events,     \* keys whose ObjectCreated notification MinIO has to deliver
  extra,      \* /process calls and repeated notifications so far
  rows,       \* interaction rows: [client, key, state]; a removed row stays
              \* in the sequence as "deleted", a live one is "saved" or
              \* "tagged" (its client_context rows are there)
  todo,       \* todo[r]: the work of request r, current item first
  stage,      \* stage[r]: where the current item is
  row,        \* row[r]: the current item's interaction, or NoRow
  lost,       \* history: keys on which an exception, a fault or the end of the
              \* process cut the work short, and those dropped behind them
  tempFiles,  \* how many temp files there are on the disk
  cutOff      \* history: how many of them were on it when their download
              \* raised what it does not handle, or the process died

bucketVars == <<issued, objects, events>>
requestVars == <<todo, stage, row>>
fileVars == <<tempFiles, cutOff>>
vars == <<clients, bucketVars, extra, rows, requestVars, lost, fileVars>>

\* {client_id}/{uuid}{ext}
Key == [client : Clients, id : Ids, ext : Exts]
\* A webhook task takes the client from the key, /process from its body.
Item == [client : Clients, key : Key]
Row == [client : Clients, key : Key, state : {"saved", "tagged", "deleted"}]

NoRow == 0
Stages == {"idle", "check", "download", "transcribe", "save", "ask", "ask again",
           "persist"}
Extracting == {"ask", "ask again", "persist"}
Current(r) == Head(todo[r])

TypeOK ==
  /\ clients \subseteq Clients
  /\ issued \subseteq Key /\ objects \subseteq issued /\ events \subseteq objects
  /\ extra \in 0..MaxExtra
  /\ rows \in Seq(Row)
  /\ todo \in [Requests -> Seq(Item)]
  /\ stage \in [Requests -> Stages]
  /\ row \in [Requests -> 0..Len(rows)]
  /\ lost \subseteq issued
  /\ tempFiles \in Nat /\ cutOff \in Nat
  /\ \A r \in Requests : (stage[r] = "idle") <=> (todo[r] = <<>>)

Init ==
  /\ clients = Clients
  /\ issued = {} /\ objects = {} /\ events = {}
  /\ extra = 0
  /\ rows = <<>>
  /\ todo = [r \in Requests |-> <<>>]
  /\ stage = [r \in Requests |-> "idle"]
  /\ row = [r \in Requests |-> NoRow]
  /\ lost = {}
  /\ tempFiles = 0 /\ cutOff = 0

---------------------------------------------------------------------------
(***************************************************************************)
(* Uploads and notifications.                                              *)
(***************************************************************************)

\* POST /audio/presign: the client exists, the uuid of the key is new, and
\* the extension comes from the file name in the request.
Presign ==
  /\ \E c \in clients, i \in Ids, x \in Exts :
       /\ \A k \in issued : k.id # i
       /\ issued' = issued \cup {[client |-> c, id |-> i, ext |-> x]}
  /\ UNCHANGED <<clients, objects, events, extra, rows, requestVars, lost, fileVars>>

\* The app PUTs the recording; MinIO stores it and notes an event.
Upload ==
  /\ \E k \in issued \ objects :
       /\ objects' = objects \cup {k}
       /\ events' = events \cup {k}
  /\ UNCHANGED <<clients, issued, extra, rows, requestVars, lost, fileVars>>

\* A request gets its work and starts with the first item, if there is one.
Begin(r, items) ==
  /\ todo' = [todo EXCEPT ![r] = items]
  /\ stage' = [stage EXCEPT ![r] = IF items = <<>> THEN "idle" ELSE "check"]
  /\ UNCHANGED row

\* A faulty Webhook for the mutation runs: only the first record is queued.
WebhookFirstOnly(r) ==
  /\ stage[r] = "idle"
  /\ \E batch \in (SUBSET events) \ {{}} :
       /\ \E ks \in SetToSeqs({k \in batch : k.ext = "audio"}) :
            Begin(r, [n \in 1..(IF ks = <<>> THEN 0 ELSE 1) |->
                     [client |-> ks[n].client, key |-> ks[n]]])
       /\ events' = events \ batch
  /\ UNCHANGED <<clients, issued, objects, extra, rows, lost, fileVars>>

\* POST /audio/webhook with a batch of records: those with a known extension
\* are queued in the order of the payload.  MinIO sends a batch again when it
\* missed the 200.
Webhook(r) ==
  /\ stage[r] = "idle"
  /\ \E batch \in (SUBSET events) \ {{}} :
       /\ \E ks \in SetToSeqs({k \in batch : k.ext = "audio"}) :
            Begin(r, [n \in DOMAIN ks |-> [client |-> ks[n].client, key |-> ks[n]]])
       /\ \/ events' = events \ batch /\ UNCHANGED extra
          \/ extra < MaxExtra /\ extra' = extra + 1 /\ UNCHANGED events
  /\ UNCHANGED <<clients, issued, objects, rows, lost, fileVars>>

\* The backend was down and MinIO, which has no queue_dir, gave up.
LoseEvent ==
  /\ "notify" \in Faults
  /\ \E k \in events : events' = events \ {k} /\ lost' = lost \cup {k}
  /\ UNCHANGED <<clients, issued, objects, extra, rows, requestVars, fileVars>>

\* POST /audio/process: any client id and any object key.
Process(r) ==
  /\ stage[r] = "idle"
  /\ extra < MaxExtra
  /\ extra' = extra + 1
  /\ \E it \in [client : Clients, key : issued] : Begin(r, <<it>>)
  /\ UNCHANGED <<clients, bucketVars, rows, lost, fileVars>>

---------------------------------------------------------------------------
(***************************************************************************)
(* One item: process_audio and _run_extraction.                            *)
(***************************************************************************)

KeysOf(items) == {items[n].key : n \in DOMAIN items}

\* Request r goes on with the items that are left, if any.
Continue(r, rest) ==
  /\ todo' = [todo EXCEPT ![r] = rest]
  /\ stage' = [stage EXCEPT ![r] = IF rest = <<>> THEN "idle" ELSE "check"]
  /\ row' = [row EXCEPT ![r] = NoRow]

\* The current item is over: the function returns, or the /process request
\* answers with the HTTPException it means to raise.
Finish(r) == Continue(r, Tail(todo[r])) /\ UNCHANGED lost

\* It is over because of a fault that the function handles.
Abandon(r) == Continue(r, Tail(todo[r])) /\ lost' = lost \cup {Current(r).key}

\* A faulty Raise for the mutation runs: the item is tried again.
RaiseAndRetry(r) ==
  Continue(r, todo[r]) /\ lost' = lost \cup {Current(r).key}

\* An exception escapes, and Starlette's BackgroundTasks drops the tasks
\* behind it.
Raise(r) == Continue(r, <<>>) /\ lost' = lost \cup KeysOf(todo[r])

Goto(r, s) ==
  /\ stage' = [stage EXCEPT ![r] = s]
  /\ UNCHANGED <<todo, row, lost>>

\* The file is there for the download and the transcription.
MakeTemp == tempFiles' = tempFiles + 1 /\ UNCHANGED cutOff
Unlink == tempFiles' = tempFiles - 1 /\ UNCHANGED cutOff
Holding == {r \in Requests : stage[r] \in {"download", "transcribe"}}

\* The client must exist; then download_to_tempfile() makes the temp file.
CheckClient(r) ==
  /\ stage[r] = "check"
  /\ \/ Current(r).client \in clients /\ Goto(r, "download") /\ MakeTemp
     \/ /\ \/ Current(r).client \notin clients /\ Finish(r)
           \/ "db" \in Faults /\ Raise(r)
        /\ UNCHANGED fileVars
  /\ UNCHANGED <<clients, bucketVars, extra, rows>>

\* The download.  A ClientError removes the file and becomes a StorageError; any
\* other error (no connection to MinIO, a full disk) escapes and leaves it.
Download(r) ==
  /\ stage[r] = "download"
  /\ \/ Current(r).key \in objects /\ Goto(r, "transcribe") /\ UNCHANGED fileVars
     \/ Current(r).key \notin objects /\ Finish(r) /\ Unlink
     \/ "storage" \in Faults /\ Abandon(r) /\ Unlink
     \/ /\ "storage" \in Faults /\ Raise(r)
        /\ cutOff' = cutOff + 1 /\ UNCHANGED tempFiles
  /\ UNCHANGED <<clients, bucketVars, extra, rows>>

\* A faulty Transcribe for the mutation runs: the file is removed behind the
\* `try` and not in its `finally`.
TranscribeLeavingFile(r) ==
  /\ stage[r] = "transcribe"
  /\ \/ Goto(r, "save") /\ Unlink
     \/ "whisper" \in Faults /\ (Abandon(r) \/ Raise(r)) /\ UNCHANGED fileVars
  /\ UNCHANGED <<clients, bucketVars, extra, rows>>

\* transcribe() in a thread; the temp file is removed in any case.
\* TranscriptionError is handled, a failure to load the model is not.
Transcribe(r) ==
  /\ stage[r] = "transcribe"
  /\ \/ Goto(r, "save")
     \/ "whisper" \in Faults /\ (Abandon(r) \/ Raise(r))
  /\ Unlink
  /\ UNCHANGED <<clients, bucketVars, extra, rows>>

\* A faulty SaveInteraction for the mutation runs: the interaction is kept in
\* the service object all requests share.
SaveShared(r) ==
  /\ stage[r] = "save"
  /\ Current(r).client \in clients
  /\ rows' = Append(rows, [client |-> Current(r).client,
                           key |-> Current(r).key, state |-> "saved"])
  /\ row' = [q \in Requests |-> Len(rows) + 1]
  /\ stage' = [stage EXCEPT ![r] = "ask"]
  /\ UNCHANGED <<todo, lost, clients, bucketVars, extra, fileVars>>

\* The interaction row is committed before the extraction.  Its foreign key
\* fails when the client is gone by now, and nothing catches that.
SaveInteraction(r) ==
  /\ stage[r] = "save"
  /\ \/ /\ Current(r).client \in clients
        /\ rows' = Append(rows, [client |-> Current(r).client,
                                 key |-> Current(r).key, state |-> "saved"])
        /\ \/ /\ row' = [row EXCEPT ![r] = Len(rows) + 1]
              /\ stage' = [stage EXCEPT ![r] = "ask"]
              /\ UNCHANGED <<todo, lost>>
           \/ "db" \in Faults /\ Raise(r)  \* reply of COMMIT lost
     \/ /\ Current(r).client \notin clients \/ "db" \in Faults
        /\ Raise(r)
        /\ UNCHANGED rows
  /\ UNCHANGED <<clients, bucketVars, extra, fileVars>>

\* One LLM call of ExtractionService.extract().  An answer holds tags of known
\* categories, or none, or is not valid JSON: then there is one retry, and
\* after that an ExtractionError, which both callers handle.  An
\* LLMProviderError escapes.
Ask(r) ==
  /\ stage[r] \in {"ask", "ask again"}
  /\ \/ Goto(r, "persist")
     \/ Finish(r)
     \/ stage[r] = "ask" /\ Goto(r, "ask again")
     \/ "llm" \in Faults /\ Raise(r)
  /\ UNCHANGED <<clients, bucketVars, extra, rows, fileVars>>

\* bulk_create() inserts the tags in one transaction, for the client id the
\* item started with.
PersistTags(r) ==
  /\ stage[r] = "persist"
  /\ \/ /\ Current(r).client \in clients
        /\ rows' = [rows EXCEPT ![row[r]].state = "tagged"]
        /\ \/ Finish(r)
           \/ "db" \in Faults /\ Raise(r)  \* reply of COMMIT lost
     \/ /\ Current(r).client \notin clients \/ "db" \in Faults
        /\ Raise(r)
        /\ UNCHANGED rows
  /\ UNCHANGED <<clients, bucketVars, extra, fileVars>>

Work(r) ==
  CheckClient(r) \/ Download(r) \/ Transcribe(r) \/ SaveInteraction(r) \/ Ask(r)
    \/ PersistTags(r)

---------------------------------------------------------------------------
\* DELETE /clients/{c} cascades to the interactions and their tags.
RemoveClient ==
  /\ \E c \in clients :
       /\ clients' = clients \ {c}
       /\ rows' = [n \in DOMAIN rows |->
                     IF rows[n].client = c
                     THEN [rows[n] EXCEPT !.state = "deleted"] ELSE rows[n]]
  /\ UNCHANGED <<bucketVars, extra, requestVars, lost, fileVars>>

\* A faulty Crash for the mutation runs: the tasks of a request survive it,
\* with nothing to run them.
CrashKeepingTasks ==
  /\ "crash" \in Faults
  /\ \E r \in Requests : stage[r] # "idle"
  /\ stage' = [r \in Requests |-> "idle"]
  /\ UNCHANGED <<clients, bucketVars, extra, rows, todo, row, lost, fileVars>>

\* The backend process dies: requests and background tasks are in its memory
\* only, the temp files are not.
Crash ==
  /\ "crash" \in Faults
  /\ \E r \in Requests : stage[r] # "idle"
  /\ todo' = [r \in Requests |-> <<>>]
  /\ stage' = [r \in Requests |-> "idle"]
  /\ row' = [r \in Requests |-> NoRow]
  /\ lost' = lost \cup UNION {KeysOf(todo[r]) : r \in Requests}
  /\ cutOff' = cutOff + Cardinality(Holding)
  /\ UNCHANGED <<clients, bucketVars, extra, rows, tempFiles>>

Next ==
  \/ Presign \/ Upload \/ LoseEvent \/ RemoveClient \/ Crash
  \/ \E r \in Requests : Webhook(r) \/ Process(r) \/ Work(r)

Spec == Init /\ [][Next]_vars

\* MinIO delivers what it has to deliver, and the awaits of a task end.
Notify == \E r \in Requests : Webhook(r)
KeepsWorking(r) == WF_vars(Work(r))
NotifyGoesOn == WF_vars(Notify)
RequestsGoOn == \A r \in Requests : KeepsWorking(r)

FairSpec == Spec /\ NotifyGoesOn /\ RequestsGoOn

---------------------------------------------------------------------------
(***************************************************************************)
(* Properties.                                                             *)
(***************************************************************************)

\* Two requests for one object, or a task behind another one, never take up
\* each other's interaction: a run extracts tags for the row it has saved
\* itself, which has none yet.
ExtractsOwnRow ==
  \A r \in Requests :
    stage[r] \in Extracting =>
      /\ row[r] \in DOMAIN rows
      /\ rows[row[r]].client = Current(r).client
      /\ rows[row[r]].key = Current(r).key
      /\ rows[row[r]].state # "tagged"
      /\ \A q \in Requests \ {r} : row[q] # row[r]

\* An upload becomes a second interaction only by a repeated notification or a
\* call of /process: whatever fails, the backend itself repeats nothing it may
\* have done already.
NoRowWithoutCall ==
  \A k \in issued : Cardinality({n \in DOMAIN rows : rows[n].key = k}) <= 1 + extra

\* Whatever way a request takes out of an item, its temp file goes with it: on
\* the disk are those of the requests that download or transcribe, and those
\* that an unexpected error of a download, or the death of the process, cut off.
NoStrayFile == tempFiles = Cardinality(Holding) + cutOff

\* Every recording the app uploads becomes an interaction, unless its client is
\* removed, or the notification was lost, or the work on it, or on one before
\* it in the same payload, was cut short.
EveryUploadIsIngested ==
  \A k \in [client : Clients, id : Ids, ext : {"audio"} \cap Exts] :
    k \in objects ~> \/ k.client \notin clients
                     \/ \E n \in DOMAIN rows : rows[n].key = k
                     \/ k \in lost

===========================================================================
