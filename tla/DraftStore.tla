---------------------------- MODULE DraftStore ----------------------------
(***************************************************************************)
(* The tables the generation pipeline shares with the advisor's API:       *)
(* client, message_draft and generation_failures, with the constraints the *)
(* migrations put on them.  Every operation is one committed transaction,  *)
(* and the guard of an operation is what the database or the service       *)
(* checks before it takes effect: an operation whose guard fails raises in *)
(* the code and changes no row.                                            *)
(*                                                                         *)
(* Rows keep their identity: draft d is the d-th row ever inserted, and a  *)
(* row removed by a cascade stays in the sequence as "deleted", since its  *)
(* UUID is never reused.                                                   *)
(***************************************************************************)
EXTENDS Entities, Naturals, Sequences

VARIABLES
  clients,    \* the client rows that exist
  drafts,     \* message_draft rows: [client, msg, status]; msg is the queue
              \* entry whose handling inserted the row (a history field)
  failures    \* generation_failures rows: [client, msg]

storeVars == <<clients, drafts, failures>>

DraftStatus == {"pending", "sent", "deleted"}
Draft == [client : Clients, msg : Nat, status : DraftStatus]
Failure == [client : Clients, msg : Nat]

StoreTypeOK ==
  /\ clients \subseteq Clients
  /\ drafts \in Seq(Draft)
  /\ failures \subseteq Failure

StoreInit ==
  /\ clients = Clients
  /\ drafts = <<>>
  /\ failures = {}

\* find_pending_by_client(): the client's rows with status "pending".
Pending(c) ==
  {d \in DOMAIN drafts : drafts[d].client = c /\ drafts[d].status = "pending"}

\* A faulty InsertDraft for the mutation runs: the schema before migration
\* 0003, without the unique index on pending drafts.
InsertDraftWithoutIndex(c, m) ==
  /\ c \in clients
  /\ drafts' = Append(drafts, [client |-> c, msg |-> m, status |-> "pending"])
  /\ UNCHANGED <<clients, failures>>

\* create(): the client must exist (service check and foreign key) and have
\* no pending draft (unique partial index uq_message_draft_client_pending).
CanInsertDraft(c) == c \in clients /\ Pending(c) = {}

InsertDraft(c, m) ==
  /\ CanInsertDraft(c)
  /\ drafts' = Append(drafts, [client |-> c, msg |-> m, status |-> "pending"])
  /\ UNCHANGED <<clients, failures>>

\* PATCH /message-drafts/{d}/status: any status may follow any other.  A
\* missing row is a 404, a second pending draft violates the unique index (an
\* uncaught IntegrityError), and an unchanged status issues no UPDATE.
UpdateStatus(d, s) ==
  /\ drafts[d].status \notin {s, "deleted"}
  /\ s = "pending" => Pending(drafts[d].client) = {}
  /\ drafts' = [drafts EXCEPT ![d].status = s]
  /\ UNCHANGED <<clients, failures>>

\* A faulty DeleteClient for the mutation runs: no cascade to the dead letters.
DeleteClientKeepingFailures(c) ==
  /\ c \in clients
  /\ clients' = clients \ {c}
  /\ drafts' = [d \in DOMAIN drafts |->
                  IF drafts[d].client = c
                  THEN [drafts[d] EXCEPT !.status = "deleted"]
                  ELSE drafts[d]]
  /\ UNCHANGED failures

\* DELETE /clients/{c}: the row goes, and with it its drafts and dead letters
\* (ON DELETE CASCADE).
DeleteClient(c) ==
  /\ c \in clients
  /\ clients' = clients \ {c}
  /\ drafts' = [d \in DOMAIN drafts |->
                  IF drafts[d].client = c
                  THEN [drafts[d] EXCEPT !.status = "deleted"]
                  ELSE drafts[d]]
  /\ failures' = {f \in failures : f.client # c}

\* persist_generation_failure(): the foreign key admits only existing clients.
CanInsertFailure(c) == c \in clients

InsertFailure(c, m) ==
  /\ CanInsertFailure(c)
  /\ failures' = failures \cup {[client |-> c, msg |-> m]}
  /\ UNCHANGED <<clients, drafts>>

---------------------------------------------------------------------------
(***************************************************************************)
(* What the tables promise, and what the advisor may rely on.              *)
(***************************************************************************)

\* A client has at most one pending draft, although find_pending and create
\* are separate transactions of concurrent workers and PATCH may reopen a sent
\* draft in between.
OnePendingDraft ==
  \A i, j \in DOMAIN drafts :
    /\ drafts[i].status = "pending"
    /\ drafts[j].status = "pending"
    /\ drafts[i].client = drafts[j].client
    => i = j

\* Deleting a client leaves neither a draft nor a dead letter of that client
\* behind, also when a worker is in the middle of a run for it.
RowsReferToClients ==
  /\ \A d \in DOMAIN drafts :
       drafts[d].status # "deleted" => drafts[d].client \in clients
  /\ \A f \in failures : f.client \in clients

\* A client's slot in the inbox holds its pending draft.
OnlyOf(ds) == IF ds = {} THEN 0 ELSE CHOOSE d \in ds : TRUE
Slot(c) == OnlyOf(Pending(c))

Inbox == INSTANCE ReviewInbox WITH
  roster <- clients,
  slot <- [c \in Clients |-> Slot(c)]

\* Drafts reach the inbox one at a time and are never replaced (ReviewInbox).
ImplementsReviewInbox == Inbox!InboxSpec
===========================================================================
