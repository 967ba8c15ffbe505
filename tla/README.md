# Sentiment analyst: TLA+ verification

Specifications of the sentiment-analyst program (`backend/app`, `libs/agent_sdk`,
`frontend/assistant/lib`), checked with TLC on small instances and proved with
TLAPS for every value of the constants. Paths below are relative to the
repository; SDK stands for `libs/agent_sdk/agent_sdk`, APP for `backend/app`.

## 1. The system

An advisor records a voice memo about a client; the backend transcribes it and
lets a local LLM extract context tags. Every day, or on request, a scheduler
finds the clients due for a review and queues one message for each; a worker
takes the messages and lets the LLM write a draft e-mail, which the advisor
finds in the inbox of the app, and sends.

| Component (source) | State it keeps | Operations |
|---|---|---|
| Redis queue (SDK/providers/queue/redis.py) | Redis stream, last-delivered id, pending entries list | publish, consume, ack |
| In-memory queue (SDK/providers/queue/inmemory.py) | an asyncio.Queue in the process | publish, consume, ack (empty) |
| Scheduler publisher (SDK/orchestration/scheduler.py, SDK/agents/generation/scheduler.py, APP/agents/generation/adaptors.py) | the batch of a run, in memory | publish_all: walk over the advisors, publish, report |
| Worker (SDK/orchestration/worker.py, SDK/agents/generation/worker.py, APP/services/generation_worker.py) | `_running`, the loop's task, the message in hand | start, stop, the consume loop, _handle, _on_failure |
| Generation agent (SDK/agents/generation/service.py) | none between messages | run |
| Draft store and dead letters (APP/repositories, APP/services/message_draft_service.py) | tables message_draft, generation_failures | create, find pending, change status, list, cascade |
| LLM provider (SDK/providers/llm/ollama.py) | per call: attempt, last error | complete |
| LLM audit (APP/services/llm_audit.py, SDK/audit) and counters | tasks nobody awaits, the index (OpenSearch) | log |
| Audio ingestion (APP/api/v1/audio.py, APP/services/{storage,transcription,extraction}.py) | bucket objects, temp files, interaction and client_context rows, background tasks | presign, process, webhook |
| Advisors, clients, interactions (APP/services/{advisor,client,interaction}_service.py, their repositories) | their tables | create, get, list, update, delete |
| Lifespan of the backend (APP/main.py) | the process, the daily job, the worker in host mode | start, stop |
| App, capture screen (frontend: record_button.dart, client_picker.dart, audio_service.dart) | recorder, widget state | record, stop and upload |
| App, inbox (frontend: inbox_screen.dart, draft_detail_screen.dart) | list of drafts, `_isSending` | load, edit, send |
| Settings, health, telemetry, wiring, migrations | configuration | |

How they interact: the daily APScheduler job (APP/main.py:56) and
`POST /scheduler/trigger` both call publish_all, with nothing between them; the
worker runs in the email-agent container (APP/worker_entrypoint.py) over Redis
or, when GENERATION_WORKER_ENABLED, in the backend process, over Redis or the
in-memory queue (host mode); all Redis workers read one stream in one consumer
group under one consumer name. Worker, API and scheduler share the PostgreSQL
tables, each operation in a transaction of its own. The app uploads recordings
to MinIO with a presigned URL; MinIO calls the backend's webhook, which runs the
pipeline as background tasks of that request.

What is hard in it: every await is a point where the others act (a client is
deleted or renamed, the advisor reopens a draft, another worker finishes first);
the awaits are long (an LLM call takes up to minutes and is retried); the queue,
the database and the bucket fail independently, with their effect done or not
when an error comes back; one failed statement spoils the rest of a session;
processes die with work in memory; notifications and scheduler runs come twice;
and a check and the write it is for are two statements.

What makes each component correct:

- queues and worker: whatever the backend, messages come first in first out,
  none twice; an entry is handled by one worker, acknowledged only after it was
  served, leaves a trace when it fails, and is concluded in the end;
- scheduler: a run that reports success has reached every client that was due,
  and one advisor's failure stays that advisor's;
- draft store: one draft per message, one pending draft per client, no row
  without its client, and an inbox whose drafts are never exchanged under the
  advisor's eyes;
- LLM provider and its callers: bounded retries with the documented waits, an
  end to every run, and an audit index that agrees with the counters;
- audio ingestion: every recording becomes an interaction, a run tags the
  interaction it saved, nothing is stored twice by the backend alone, and a temp
  file goes when the request that holds it is done with it;
- books: references hold, names clash only in ways the check cannot see, and a
  PATCH that was answered took effect;
- app: a recording is filed once, and under the client it was made for when the
  hold lasts until the recorder runs (a hold that is released before may file an
  older recording); no mail lets the advisor mark two drafts as sent, and no send
  hangs. That the marked draft is the mailed one is what the dialog asks for, and
  what the code does not keep (section 5).

## 2. Modules

| Module | Models |
|---|---|
| Entities | the constant Clients, shared by the components |
| MessageQueue | abstract: what the MessageQueue protocol promises; both backends implement it |
| RedisStreamQueue | the Redis backend: `stream`, `lastDelivered`, `pel`; Publish, ReadGroup, XAck |
| InMemoryQueue | the in-memory backend: `items`; Publish, Consume, Ack, Vanish (with its process) |
| DraftStore | the tables client, message_draft, generation_failures: InsertDraft, UpdateStatus, DeleteClient, InsertFailure |
| GenerationPipeline | composes RedisStreamQueue and DraftStore with scheduler runs, workers and the API |
| ReviewInbox | abstract: what the advisor may rely on; DraftStore maps its rows to it, GenerationPipeline and DraftReview implement it |
| SchedulerRun | a run's walk over the advisors, the review window, assembly and its report |
| HostMode | composes SchedulerRun and InMemoryQueue with the process: start, daily job, worker loop, shutdown, death |
| OllamaProvider | complete() with its retry loop |
| LLMCalls | the two callers of complete(), their counters, audit tasks and reports |
| AudioIngestion | presign, upload, webhook, /process and the pipeline behind them |
| Directory | advisors, clients and interactions, statement by statement |
| CaptureScreen | the Capture tab: client picker, record button, recorder, upload |
| DraftReview | the Inbox tab over DraftStore: list, detail screen, mail app, confirmation, PATCH |
| X_proofs | theorems about module X and their proofs (GenerationPipeline, DraftStore, HostMode, LLMCalls, AudioIngestion, Directory, CaptureScreen, DraftReview) |
| MCX | what TLC instantiates where it needs symmetry sets or definitions of constants (CaptureScreen, Directory, HostMode) |

Operators named in a comment as "faulty" (ReadGroupPending, RecordFailureAndAck,
WebhookFirstOnly, ...) are not part of a specification. Each is a plausible bug
in an operation; putting it in the operation's place makes TLC report the
property it is listed with in PROJECT.json, which shows that the property
depends on that line of the code.

### GenerationPipeline

A worker `w` is a process that runs `BaseQueueWorker._consume_loop`; `stage[w]`
is the await it is at and `msg[w]` the entry it holds:

| Stage | Code | Leaves by |
|---|---|---|
| down | no process | Start |
| polling | XREADGROUP (redis.py:130) | Take, PollFails |
| find | find_pending_draft (service.py:123) | FindPending, DbFails |
| assemble | assemble (service.py:142) | Assemble, DbFails |
| complete | LLM call (service.py:146) | Complete |
| create | create_draft (service.py:217) | CreateDraft, DbFails |
| ack | XACK (worker.py:171) | AckMessage, AckFails |
| failing | _on_failure (worker.py:181) | RecordFailure |
| dead | the loop's task has ended, `_running` is still True | Halt |

Halt (from any stage) is both the death of the process and stop(): stop()
cancels the task, CancelledError is not an Exception, and so in both cases the
entry in hand gets neither an ack nor a dead letter. BeginRun and PublishNext
are publish_all; here a run may select any set of existing clients, since
which clients are due is SchedulerRun's subject. PatchStatus and RemoveClient
are the advisor's part.

The data is reduced to what the properties tell apart. An entry is its position
in the stream and the client it is about; a draft row is its client, its status
and, as history, the entry whose run inserted it. `served` and `dropped` are
history variables: they are read by properties only.

A transaction is one step. Where its reply can get lost (COMMIT, XADD, XACK,
XREADGROUP), the action has a branch in which the effect takes place and the
caller sees an error. The refresh() that follows a COMMIT is part of the step.

### HostMode and SchedulerRun

SchedulerRun has what a run of publish_pending_generations reads and keeps:
`run[p]` is the stage (walking over the advisors, assembling the clients of one,
publishing), the advisors to come, the clients read and assembled for the
current advisor, the batch, the count, and whether a database error has aborted
the session's transaction (`broken`: each further statement of the run then
fails, and so each further advisor is left out). Around it the days pass, review
dates are set and clients deleted. A client that is gone when its turn to be
assembled comes raises NotFoundError, and the except clause of the walk
(adaptors.py:132) leaves out its advisor, with what was assembled for it.
`report` is what record_scheduler_run is told. `steady`, `removed`, `skipped`
and `queued` are histories of the run in progress. Advisors are walked in some
order; it makes no difference here and is left open.

HostMode puts runs, the in-memory queue and the worker's loop into one process:
StartUp and Stop are the two halves of main.py's lifespan, Take and EndHandling
an iteration of the loop, End the end of the process after the shutdown or at
any time, which the queue does not survive. What the worker does with a message
is left to GenerationPipeline: here a handling ends, with an ack or with a dead
letter.

### MessageQueue

`state[n]` is what became of the n-th message: waiting, out, acked or lost.
For Redis, an entry after the cursor is waiting, one in the pending list is out,
any other was acknowledged; for the in-memory queue see StateOf. The protocol's promise that both
keep is at-most-once delivery in order; what Redis was meant to add to it,
redelivery, the code does not use (section 5).

### OllamaProvider and LLMCalls

One call per caller: `posting`, `backoff`, and how it ended (`returned`,
`raised` an LLMProviderError, `garbled` for a body that cannot be decoded).
`waited` sums the sleeps, `lastExc` is the variable last_exc. The factor is
raised to its powers by a recursive function (Power), which the provers can
unfold.

LLMCalls adds the callers. An extraction asks a first time and, when the answer
is not the JSON it wants, a second time; a generation asks once. `counted[c]` is
the status under which each call was counted by record_llm_metrics (`none` for
one whose exception passed the counting by), `writes` are the audit tasks that
asyncio.create_task has started and nobody awaits, `index` the documents in
OpenSearch, `report` the status of the run. A generation is audited only by the
callers in Audited, since create_generation_worker passes no audit logger.
stop() cancels a generation within its call; an extraction belongs to a request.

### AudioIngestion

A request slot is what one HTTP request keeps going: the body of /process, or
the background tasks of one webhook call, which run one after the other after
the 200. Both run the same items (check, download, transcribe, save, ask, ask
again, persist) and differ in what an exception does: it drops the tasks behind
it (webhook) or fails the request (/process). MinIO repeats a batch whose 200
it missed, and forgets it when the backend is away (external, `LoseEvent`).
`tempFiles` counts the temp files on the disk: CheckClient makes one on its way
into the download (MakeTemp), the end of the transcription and a ClientError of
the download remove it (Unlink), and what is left by another error of the
download or by the death of the process is counted in `cutOff`. `lost` has the
recordings whose work was cut short by an exception, a fault or the end of the
process.

### Directory

A request is a record: what it does, the statement that comes next, what it
carries. Reads decide how it goes on (404, 409, or the write), other requests
commit in between, writes meet the constraints of the schema as they are by
then: IntegrityError, StaleDataError for an UPDATE that matches no row,
InvalidRequestError for a refresh() of a row deleted meanwhile; a DELETE that
matches no row is only a warning. An UPDATE names the columns whose value
differs from the loaded one (`sets`), so it may overwrite, leave alone or not be
issued. HttpStatus is the table of exception handlers in main.py: what has none
is a 500. `disturbed`, `crossed` and `owed` are histories (Observe).
Only the fields are kept that a decision depends on.

### CaptureScreen

Dart runs one handler at a time and suspends it at its awaits, so a step is the
code between two awaits. A hold is one long press: `start` follows
_onRecordStart (waiting for permission, directory and recorder), `stop` follows
_onRecordStop (recorder, presign, PUT). `callbacks` is what the last build gave
the GestureDetector; it lags behind the state by a frame, in which a release may
fall. Two facts about time are in guards: a new touch comes after the frame of
the last gesture (Touch), and the list of clients can be tapped once the frame
shows it (SelectClient). The recorder takes its calls in order, and a start
ends a running recording. Leaving the tab disposes of the button's State;
`alive` says of a hold whether the `ref` of its handlers still works.

### DraftReview

`screens` are the States of DraftDetailScreen, `inbox` and `listed` what the
FutureBuilder of the list shows; the rows are those of DraftStore, and the PATCH
is its UpdateStatus. The advisor may leave a screen at any await, open another,
get a resume event without having been in the mail app, and send the mail or
not. `mails` counts the mails she has sent, and `mailSent` is what she knows when
she is asked: that she has sent one since she last tapped the button. The dialog
names no draft, so an honest advisor says "Yes, sent" when she has, whichever
screen asks (Confirm), and _markAsSent marks the draft of that screen. A screen
that is left stays mounted during its exit transition (`leaving`); that the
transition is over before she taps the next tile is an assumption of the model.

## 3. What the runs check

| Run | Instance | Shows |
|---|---|---|
| pipeline | 2 clients, 2 workers of which one's process and reads hold, scheduler runs one after the other, 2 messages, all faults, fairness; 150k states | TypeOK, ExclusiveHandling, AckedIsServed, OneDraftPerMessage, OnePendingDraft, RowsReferToClients, FailureLeavesTrace, EveryMessageConcludes, and the refinements ImplementsReviewInbox and ImplementsMessageQueue |
| pipeline_redelivery | 1 worker, halts only | AtLeastOnceDelivery is violated |
| pipeline_dead_loop | 1 worker, Redis errors only | LoopRunsWhileRunning is violated |
| host_mode | 3 clients of 2 advisors, 2 days, the daily job's runs, database errors and crashes, fairness; 278k states | TypeOK, OnlyOwnClientsSkipAdvisor, NothingLostWhileUp, SuccessCoversDueClients, QueuedIsHandled, ImplementsMessageQueue |
| ollama_calls | an extraction and an audited generation at a time, 2 calls each, 2 retries, factor 2, fairness; 355k states | CallsTypeOK, WaitsAreExponential, AuditsAgreeWithCounters, SuccessNeedsUsableAnswer, EveryRunEnds |
| ollama_retry | 1 caller, 1 retry | RaisesOnlyUnanswered is violated |
| audio_ingestion | 1 client, 2 uploads of either type, 2 requests, 1 extra call, all faults, fairness; 65k states | TypeOK, ExtractsOwnRow, NoRowWithoutCall, NoStrayFile, EveryUploadIsIngested |
| directory | 1 advisor, 2 clients, 1 interaction, 2 names, 1 date, 2 requests at a time, database errors; 1.2M states | TypeOK, RowsReferToParents, NamesClashOnlyByRaceOrRename, ErrorsNeedAnotherWriter, PatchTookEffect, ReviewDateStays |
| capture_safety | 2 clients, 3 holds, all faults; 273k states | TypeOK, HoldIsFiledRight, RecordingStoredOnce, ButtonShowsUpload |
| capture_stuck | 1 client, 1 hold, no faults | SelectionEnablesRecording is violated |
| review_sends | 2 clients, 2 drafts, 2 detail screens, 1 mail, all faults, fairness; 418k states | TypeOK, NoMailCountsTwice, OneSendAtATime, MailedSendEnds |
| review_mark | 2 clients, 2 drafts, 2 detail screens, 1 mail, no faults | SentMeansMailed is violated |

Bounds. `MaxMessages` of the pipeline ends the stream after so many entries: two
let two workers hold different entries for one client, or one entry be halted
and the other go on, which are the interactions the properties are about (the
same properties hold with three entries and one scheduler run, 2.7 million
states, too slow for a standing run; the proofs have no bound).
In host_mode `MaxMessages` only keeps runs from starting again once a message
was published; a run publishes for all its clients, so up to three messages wait
at a time. Three clients of two advisors are the least with which one advisor
has a client that suffers from another's deletion, beside an advisor that must
not; `MaxDay` of one lets a review fall due within a run. Only one run is in
progress there and in pipeline: runs share nothing but the queue, and a second
message for a client comes from a run that is repeated as well (the proofs are
for any number of runs at a time). `MaxCalls` of two lets an extraction ask its second time, and a
generation run again while the audit of the run before is under way.
`Ids` bounds the uploads and `MaxExtra` the /process calls and repeated
notifications: two uploads and one repetition give two runs over one recording
beside a run over another; one client is enough there since items of different
clients share no row. In directory the ids are uuids, never used again while a
request knows them; two requests at a time with any number one after the other
give each pair of operations in each interleaving of their statements.
`MaxHolds` is three so that a stray recording of one hold can meet the stop of a
second and the start of a third; `MaxScreens` and `MaxDrafts` are two so that a
screen that was left goes on while another draft is on display; `MaxLaunches`
bounds the calls of launchUrl that a screen has pending. `MaxMails` bounds the
mails the advisor sends: with two drafts NoMailCountsTwice can only be broken
while fewer than two were sent, so one is enough. The sets of workers
and requests have two members since the properties relate at most two of
them. Symmetry is used in safety runs only, over sets whose members are treated
alike. Deadlock checking is off where the bounded system may run out of work.

Fairness. Each specification names what must go on: KeepsWorking(w) and GoesOn(c)
are weak fairness of all that one worker or one caller does by itself,
KeepsWorking(r), NotifyGoesOn, Returns and Answers(s) the same for a request, for
MinIO, and for the advisor. FairSpec of GenerationPipeline asks that a worker
whose loop can start, read or go on with its message eventually does: the event loop runs what
is ready, the LLM call ends by its timeout and bounded retries (which
ollama_calls checks as EveryRunEnds), and the container is restarted
(`restart: unless-stopped`, infra/docker-compose.yml). Nothing is asked of the
scheduler, the advisor or a fault. FairSpec of HostMode asks the same of the
steps of a run, the loop's get() and a handling, and nothing of start or end of
the process. FairCallsSpec of LLMCalls asks that httpx times a request out,
and that a sleep and a statement return; not that an audit is written. FairSpec
of AudioIngestion asks that MinIO delivers pending notifications and tasks go
on. FairSpec of DraftReview asks that the advisor returns from the mail app and
answers the dialog, and that HTTP requests end.

## 4. What is proved

In the modules named X_proofs, for any values of the constants that satisfy the
named assumptions of the modules (bounds are natural numbers, fault sets are
subsets of the fault kinds, special values are outside their sets): no bound on
workers, clients, requests, holds, screens or messages.

**GenerationPipeline_proofs, DraftStore_proofs.**
TypeCorrect (TypeOK, and that a worker's entry has been delivered) comes first
because the operations of queue and tables (QueueTypes, StoreTypes) only have a
meaning on typed states. Invariant is `Spec => []IInv`: OneDraftPerMessage and
AckedIsServed are not inductive by themselves, for that the row inserted for
`msg[w]` is the first one for it needs that a run before create_draft has left
no row (HoldingInv), that no other worker is in the same message
(ExclusiveHandling), that a fresh entry has no row yet (OriginsDelivered) and
that entries in hand lie at or below the cursor. OnePendingDraft rests on the
guard of InsertDraft and UpdateStatus, RowsReferToClients on the foreign keys
and the cascade. Exclusive, AckedServed, AtMostOneDraft, SinglePending and
RowsRefer are the parts; FailureTraced is an induction on top of IInv.
DraftStore_proofs states once, row by row, what the operations on the tables do,
that they keep the constraints (StoreInvStep), and that they map to ReviewInbox
(StoreMaps): SlotIsPending shows that the chosen member of Pending(c) is its
only one, insertion and reopening map to Offer, sending to Settle (SettleMaps),
removal to Remove. Refinement, which is `Spec => ImplementsReviewInbox`, and
ScreensKeepInbox of DraftReview_proofs then only show that a step does one
operation on the tables, or none. StreamIsQueue is
`Spec => ImplementsMessageQueue`: XADD maps to Enqueue and a read of the next
entry to Yield, the oldest one waiting being the one after the cursor; an XACK
with its reply lost or an entry of a halted worker map to what they did to the
pending list.

Liveness has two halves. DeliveredConcludes: the stages a worker can still come
to with an entry in hand only shrink (Later), so weak fairness of its own steps
brings it out of each. QueueMovesOn: a worker that stays up is back at its read
some time, and then takes the next entry unless another one did.
MessagesConclude puts them together to EveryMessageConcludes. For the two
documented promises that runs refute there are theorems on how far the
refutation goes: LoopsEndByReads and
DeliveryWithoutLosses, which is AtLeastOnceDelivery wherever neither a halt, nor a
lost read, nor a database error can happen.

**HostMode_proofs.** A step of a run is first taken apart field by field
(RunSteps), since tracking EXCEPTs through each later proof is what makes such
proofs unreadable. TypesHold; NothingLost by induction over what waits, is in
hand and was handled; QueueRefined is `Spec => ImplementsMessageQueue` and needs
that what waits is in the order of publication and was never taken (Ordered).
RunInvHolds has the invariant of the walk, for each run: what it has at each
stage (Fits), that what is read exists or was deleted meanwhile (Contained),
that a client due all along is of an advisor to come or left out, or is in the
run, and that what is not in the batch yet is of one advisor (Covered), and
that the count is that of the clients published for (Counted). From it follow
FailureContained (OnlyOwnClientsSkipAdvisor) and SuccessCovers
(SuccessCoversDueClients). LoopSurvives: the loop of a process that is up does
not end, unlike that over Redis. QueuedMessagesEnd is QueuedIsHandled, by
induction over the place of a message among those that wait.

**LLMCalls_proofs.** AuditAgreement and UsableAnswer, by an invariant with the
types, that a run in progress has not reported a success, and that a run which
stores a result has counted its last call as one (CallsInv). ProviderInv adds
what the retry loop keeps: that `waited` is the sum of the powers of the factor
up to the attempt, that last_exc is set from the first failure on, and that only an
extraction asks a second time. From it follow CallTypesHold, WaitsAsDocumented
and RetriesNeverHelp (a call that returns does so on its first attempt).
Termination has a variant, Work(c): the steps the run may still take, which is
at most 4 * max_retries + 5 (BoundedRuns), falls with each of its steps and
does not rise with those of others (RunsComeToAnEnd). RunsEnd is EveryRunEnds.

**AudioIngestion_proofs.** IngestionTypes, OwnRow, NoneStray and
NothingRepeated. ExtractsOwnRow is inductive together with the types and the
fact that requests work on issued keys; EventsFinite is needed since a payload
lists a set of events. NoStrayFile is inductive too (FilesOK): each
way into, out of and past the two stages that hold a file moves both counts.
NoRowWithoutCall is a count: for each key the rows there
are, the items that wait for theirs and the notification to come are together
at most one more than `extra` (CountInv). Items are numbered from the end of a
request's work, so that finishing one leaves the others where they are and the
set that is counted only loses elements (ItemLeaves).
NoneForgotten is the safety half of EveryUploadIsIngested: an uploaded recording
is stored, announced, at work or lost for a known reason. UploadsAreIngested is
the rest: a request comes to its end, item by item and stage by stage
(RequestEnds), and a pending notification is delivered although MinIO may
prefer others, since what can still be asked of the backend runs out
(CallsLeft, CallsRunOut). That is where finiteness of the set of uuids is needed, and
only there.

**Directory_proofs.** BookTypes and ReferencesHold from BookInv, which says for
each operation and statement what a request carries (Suits) and is kept by
lemmas on the forms requests change in. DatesStay from the same. NamesAreChecked
adds StillFree: a name found free stays so until the insert, or its request is
crossed. ErrorsAreForeseen adds Foreseen: what a request has looked up still
holds unless another one wrote. PatchesTakeEffect adds EffectInv: after the load
a PATCH owes only the columns it is going to set, after the UPDATE none.

**CaptureScreen_proofs.** CaptureTypes, FiledRight, StoredOnce from CaptureInv:
the recorder takes its calls in order (InOrder), a hold that runs has the
recorder until its recording is stopped (HasRecorder), what is sent for it is its
own (SendsItsOwn), and each recording is in one place (OnePlace).
ButtonTellsTruth adds that no hold is begun during an upload. StuckOnlyByLeaving
is about the promise that capture_stuck refutes: it holds, whatever fails, as
long as the tab is never left during an upload (ButtonIsCurrent: an upload that
the button shows is there, and the State that will reset it is alive).

**DraftReview_proofs.** ReviewTypes and SingleSend from
Orderly: per screen the calls of a send that are under way are at most one, and
isSending shows it. MailsCountOnce is `Spec => []NoMailCountsTwice`: a mail is a
credit for one "Yes, sent" (Credit), which lasts while a question is open or to
come; the drafts marked or being marked, with the credit, are never more than the
mails (CountInv). A "Yes, sent" uses the credit up, since one screen is to be seen
at a time (OneShown) and has one send (Orderly); every other step but the tap,
which ends the credit, leaves no more to be seen or answered (ScreensFade).
SentIsMailed says when the promise that review_mark refutes holds: as long as no
screen is disposed of while its canLaunchUrl or launchUrl is pending
(StaysForLaunch, a hypothesis about the advisor, or the phone's speed), the mail
that is open is that of the screen she comes back to, and each draft marked was
mailed (OwnMailInv). ScreensKeepInbox is
`Spec => ImplementsReviewInbox` for the screens over the tables, and
PatchesSettle says more of a PATCH: when it changes a row at all, the draft of
its screen is the one that waits in its client's slot, and is settled; both have
no run of their own, TLC found them true with the constants of review_sends.
MailedSendsEnd is MailedSendEnds:
once mailed, a send waits for the return from the mail app,
then for the answer, then for the PATCH. A question can be covered by the mail
app each time a late launch of another screen opens it, so the middle step is by
induction over the openings still owed (Opens), of which there are finitely
many and, without a tap on the button, ever fewer.

*Hypotheses of the liveness theorems* (MessagesConclude, QueuedMessagesEnd,
RunsEnd, UploadsAreIngested, MailedSendsEnd, and those they are built from).
The prover cannot expand ENABLED, and cannot apply induction to a temporal
formula. So these theorems have, beside the fairness of the specification:

- `[]CanGoOn` (`[]CanProceed`): where the model says that an actor has something
  to do, its action is enabled. This is a state predicate; as an INVARIANT of a
  module that extends X_proofs, with the constants of the component's run with
  fairness, TLC finds it true in every reachable state;
- InductionOnEntries, InductionOnPlaces, InductionOnWork, InductionOnItems,
  InductionOnCalls, InductionOnOpens: "if P(0), and P(n) implies P(n + 1), then P(n) for
  all n", for the P in question. Each is an instance of induction over the
  natural numbers and true of every behaviour; base case and induction step are
  proved, not assumed.

MessagesConclude further has a worker outside Unsteady, as the run pipeline does:
without one, all workers may halt for good.

Only model-checked: that the actors' actions are enabled, as said; freedom from deadlock
where it is checked; and the runs that end in a counterexample, of which the
theorems named in section 5 say when they cannot.

## 5. Where code and documents disagree

Each of these is a run that TLC refutes (PROJECT.json, findings):

1. `redis.py:3-4` promises at-least-once delivery. consume() reads with `>`
   only, so an entry whose handling was cut short stays in the pending list for
   ever (pipeline_redelivery). `worker.py:105` itself says that messages are
   never re-queued. It takes a halt, a lost read or a database error:
   without them the promise is kept (DeliveryWithoutLosses).
2. `worker.py:144-146` says the loop runs until stop(). An error of XREADGROUP
   ends it while `_running` stays True; start() is then a no-op and the
   container idles without being restarted (pipeline_dead_loop). Nothing else
   ends it (LoopsEndByReads).
3. `ollama.py:89-90`: the error is raised after all retries are exhausted. Since
   last_exc is never reset, a call whose retry succeeds raises too: retries
   only cost time (ollama_retry), in every case (RetriesNeverHelp).
4. `capture_screen_test.dart:132`: selecting a client enables the record button.
   When the tab was left during an upload, the handler's `ref` throws in try,
   catch and finally, and the state stays at uploading for good (capture_stuck);
   nothing else makes it stay (StuckOnlyByLeaving).
5. `draft_detail_screen.dart:80-82`: the dialog has the advisor "confirm that the
   message was submitted before marking this draft as sent". It names no draft.
   When she leaves a screen during its canLaunchUrl or launchUrl and sends from another,
   the mail of the first may come up in place of the second's; she sends it, is
   asked on the second screen, says yes, and the draft that nobody mailed is
   marked as sent (review_mark). Nothing else leads there (SentIsMailed), and each
   mail marks one draft at most (NoMailCountsTwice).

Seen on the way, without a run:

- `audio.py:211` says the background task never propagates exceptions; a
  connection error of the download does, and drops the tasks behind it (in the
  model Raise). An Ollama error makes /process answer 502 after the interaction
  was committed, against `docos/erd.md:140` (Ask).
- `docos/erd.md:139` wants an audit event for each extraction call regardless of
  its outcome; one that raises leaves none (ExtractionRaises), and generation
  calls leave none at all, since create_generation_worker passes no audit logger.
- An ack that fails after a successful run is recorded as a generation failure
  although its draft is in the inbox (`worker.py:167-181`, AckFails).
- `ClientService.update` renames a client without the conflict check that
  create() makes; a later creation under that name then answers 500, from
  MultipleResultsFound (FindByName).
- stop() suppresses CancelledError only: when the loop has ended with an error
  of the queue before, it raises that again, and the rest of the shutdown is
  skipped (`worker.py:91`).
- The readiness probe is to answer 503 when a check fails (`health.py:60-61`),
  but ping() of the OpenSearch client returns False rather than raising, and
  nobody looks at it.
- The recorder may start after its hold was released, and then runs with the
  button idle until the next hold (a `late` start), which may file its recording
  under another client when it is released early itself; HoldIsFiledRight is
  about holds that last until the recorder runs. A resume before the mail app is
  open asks at once: after "Not yet" a second send can start beside the launch
  that is still pending, which OneSendAtATime does not count, and a PATCH whose
  reply is lost lets the mail go out twice, which no property forbids; a reply to
  the PATCH during the exit transition of its screen pops the inbox below it
  (`home`); the inbox keeps listing a draft that was just marked as sent.
- Migration 0004 refers to a table `clients` where the table is `client` (the
  models take the ORM's schema).

## 6. Not modelled

- Telemetry, logging, correlation middleware and health probes: they only
  observe. Container files and scripts: what they fix (restart policy, consumer
  name) is stated where a model relies on it.
- Prompt wording and the text of the assembled context: no decision of the
  program depends on them. assemble() is modelled by its outcome.
- Writes of financial profiles and the deletion of a single draft: nothing in
  the code calls them. The force branch of the agent: no caller sets it.
- Running the migrations; their constraints are guards of DraftStore and
  Directory.
- The settings screen, and searching and paging in the client list of the app.
- Object construction and settings (SDK/dependencies, config.py): no state of
  their own; they decide which modules are composed.
- The Redis backend in host mode's process: a process that runs scheduler and
  worker over Redis is a GenerationPipeline with one of its workers in it.

## 7. What is left

- The pure parts of ingestion against reference definitions: how an object key
  in a webhook record is decoded and split, and how tags of unknown category are
  dropped.
- Host mode and the pipeline with two overlapping scheduler runs under a bound
  that TLC finishes in minutes; proved already, checked only with one at a time.
