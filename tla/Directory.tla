------------------------------ MODULE Directory ----------------------------
(***************************************************************************)
(* The books: advisors, their clients and the clients' interactions, as    *)
(* the endpoints /advisors, /clients and /interactions work on them.       *)
(*                                                                         *)
(* A request runs its statements one by one in a session of its own, and   *)
(* other requests commit in between: what it has looked up may no longer   *)
(* hold when it writes.  A step is one statement with its COMMIT.  Only    *)
(* the fields are kept that a decision depends on: e-mail, client name and *)
(* next review date; an advisor's name and tone, a transcript are not.     *)
(***************************************************************************)
EXTENDS Naturals, Functions

CONSTANTS
  AdvisorIds, ClientIds, InteractionIds,   \* uuids (bound the tables)
  Emails, Names, Dates,                    \* what requests may carry
  Unset,      \* None: no review date, a field left out, no id
  Requests,   \* slots for requests in progress
  Faults      \* {} or {"db"}: statements may fail

ASSUME DirectoryAssumption ==
  Unset \notin AdvisorIds \cup ClientIds \cup InteractionIds \cup Names \cup Dates

VARIABLES
  advisors,       \* the rows that exist by id: the e-mail
  clients,        \* the rows that exist by id: [advisor, name, review] and, as
                  \* history, how the client came by its name
  interactions,   \* the rows that exist by id: the client
  req,            \* req[r]: what request r does and how far it is
  disturbed,      \* history: requests beside which another one wrote
  crossed,        \* history: requests that look a name up, beside which
                  \* another client took this name after that
  owed            \* owed[r], history: the fields in r's PATCH whose value
                  \* the row has not had at any time since r began

tables == <<advisors, clients, interactions>>
history == <<disturbed, crossed, owed>>
vars == <<tables, req, history>>

Ops == {"none", "create advisor", "patch advisor", "delete advisor",
        "create client", "patch client", "delete client", "create interaction",
        "list"}
Replies == {"none", "ok", "NotFound", "Conflict", "MultipleResultsFound",
            "IntegrityError", "StaleDataError", "InvalidRequestError", "DBAPIError"}
Fields == {"name", "review"}
Ids == AdvisorIds \cup ClientIds \cup InteractionIds

\* named: "checked" when the name was free from the look-up to the insert,
\* "crossed" when another client took it in between, or "renamed" by a PATCH.
ClientRow == [advisor : AdvisorIds, name : Names, review : Dates \cup {Unset},
              named : {"checked", "crossed", "renamed"}]

\* at: the statement to come; row: the id in the path or of the new row;
\* parent, email, name, review: the payload; sets: the columns to UPDATE.
Request ==
  [op : Ops, at : {"done", "get", "lookup", "write", "refresh", "select"},
   row : Ids \cup {Unset}, parent : Ids \cup {Unset}, email : Emails \cup {Unset},
   name : Names \cup {Unset}, review : Dates \cup {Unset},
   sets : SUBSET Fields, reply : Replies]

NoRequest ==
  [op |-> "none", at |-> "done", row |-> Unset, parent |-> Unset, email |-> Unset,
   name |-> Unset, review |-> Unset, sets |-> {}, reply |-> "none"]

Live(table, id) == id \in DOMAIN table
Insert(table, id, row) ==
  [x \in DOMAIN table \cup {id} |-> IF x = id THEN row ELSE table[x]]
Named(a, n) == {c \in DOMAIN clients : clients[c].advisor = a /\ clients[c].name = n}
\* A uuid nobody has heard of.
Fresh(ids, table) ==
  {i \in ids \ DOMAIN table : \A q \in Requests : i \notin {req[q].row, req[q].parent}}

TypeOK ==
  /\ DOMAIN advisors \subseteq AdvisorIds /\ advisors \in [DOMAIN advisors -> Emails]
  /\ DOMAIN clients \subseteq ClientIds /\ clients \in [DOMAIN clients -> ClientRow]
  /\ DOMAIN interactions \subseteq InteractionIds
  /\ interactions \in [DOMAIN interactions -> ClientIds]
  /\ req \in [Requests -> Request]
  /\ disturbed \subseteq Requests /\ crossed \subseteq Requests
  /\ owed \in [Requests -> SUBSET Fields]

NoRows == [x \in {} |-> Unset]

Init ==
  /\ advisors = NoRows /\ clients = NoRows /\ interactions = NoRows
  /\ req = [r \in Requests |-> NoRequest]
  /\ disturbed = {} /\ crossed = {}
  /\ owed = [r \in Requests |-> {}]

At(r, op, stage) == req[r].op = op /\ req[r].at = stage
Goto(r, stage) == req' = [req EXCEPT ![r].at = stage]
\* The request ends with a return value or an exception.
Reply(r, with) ==
  req' = [req EXCEPT ![r] = [NoRequest EXCEPT !.reply = with]]
\* COMMIT succeeds, though its reply may be lost.
Committed(r, stage) ==
  \/ IF stage = "done" THEN Reply(r, "ok") ELSE Goto(r, stage)
  \/ "db" \in Faults /\ Reply(r, "DBAPIError")

\* main.py: which exceptions have a handler; for any other FastAPI answers 500.
HttpStatus(reply) ==
  CASE reply \in {"none", "ok"} -> 200
    [] reply = "NotFound" -> 404
    [] reply = "Conflict" -> 409
    [] OTHER -> 500

---------------------------------------------------------------------------
(***************************************************************************)
(* Requests arrive.  Ids in a path or a payload are any that exist or did. *)
(***************************************************************************)
Begin(r, request) ==
  /\ req[r].at = "done"
  /\ req' = [req EXCEPT ![r] = request]
  /\ UNCHANGED tables

PostAdvisor(r) ==
  \E e \in Emails :
    Begin(r, [NoRequest EXCEPT !.op = "create advisor", !.at = "lookup", !.email = e])

PatchAdvisor(r) ==
  \E a \in AdvisorIds :
    Begin(r, [NoRequest EXCEPT !.op = "patch advisor", !.at = "get", !.row = a])

DeleteAdvisor(r) ==
  \E a \in AdvisorIds :
    Begin(r, [NoRequest EXCEPT !.op = "delete advisor", !.at = "get", !.row = a])

PostClient(r) ==
  \E a \in AdvisorIds, n \in Names, d \in Dates \cup {Unset} :
    Begin(r, [NoRequest EXCEPT !.op = "create client", !.at = "get",
                               !.parent = a, !.name = n, !.review = d])

\* ClientUpdate: any of the fields.  A JSON null is the same as no field.
PatchClient(r) ==
  \E c \in ClientIds, n \in Names \cup {Unset}, d \in Dates \cup {Unset} :
    Begin(r, [NoRequest EXCEPT !.op = "patch client", !.at = "get", !.row = c,
                               !.name = n, !.review = d])

DeleteClient(r) ==
  \E c \in ClientIds :
    Begin(r, [NoRequest EXCEPT !.op = "delete client", !.at = "get", !.row = c])

PostInteraction(r) ==
  \E c \in ClientIds :
    Begin(r, [NoRequest EXCEPT !.op = "create interaction", !.at = "get", !.parent = c])

\* The clients of an advisor, the interactions of a client.
GetList(r) ==
  \E p \in AdvisorIds \cup ClientIds :
    Begin(r, [NoRequest EXCEPT !.op = "list", !.at = "get", !.parent = p])

---------------------------------------------------------------------------
(***************************************************************************)
(* The reads: what they find decides how the request goes on.              *)
(***************************************************************************)
\* AdvisorService.get(), before update() and delete().
GetAdvisor(r) ==
  /\ \E op \in {"patch advisor", "delete advisor"} : At(r, op, "get")
  /\ IF Live(advisors, req[r].row) THEN Goto(r, "write") ELSE Reply(r, "NotFound")
  /\ UNCHANGED tables

\* A faulty Changes for the mutation runs: a null counts as a value.
ChangesWithNull(row, given) == {f \in Fields : given[f] # row[f]}

\* The columns an UPDATE will set: the fields that are given (exclude_none)
\* with a value other than the one the instance was loaded with.
Changes(row, given) == {f \in Fields : given[f] \notin {Unset, row[f]}}

\* ClientService.get(), before update() and delete().
GetClient(r) ==
  /\ \E op \in {"patch client", "delete client"} : At(r, op, "get")
  /\ \/ /\ Live(clients, req[r].row)
        /\ req' = [req EXCEPT ![r].at = "write",
                              ![r].sets = Changes(clients[req[r].row], req[r])]
     \/ ~Live(clients, req[r].row) /\ Reply(r, "NotFound")
  /\ UNCHANGED tables

\* AdvisorService.create() asks for the e-mail.
GetByEmail(r) ==
  /\ At(r, "create advisor", "lookup")
  /\ IF req[r].email \in Range(advisors)
     THEN Reply(r, "Conflict") ELSE Goto(r, "write")
  /\ UNCHANGED tables

\* A faulty CheckAdvisor for the mutation runs: it is not looked at.
CheckAdvisorSkipped(r) ==
  /\ At(r, "create client", "get")
  /\ Goto(r, "lookup")
  /\ UNCHANGED tables

\* ClientService.create() asks for the advisor first, ...
CheckAdvisor(r) ==
  /\ At(r, "create client", "get")
  /\ IF Live(advisors, req[r].parent) THEN Goto(r, "lookup") ELSE Reply(r, "NotFound")
  /\ UNCHANGED tables

\* A faulty FindByName for the mutation runs: the name is not looked up.
FindByNameSkipped(r) ==
  /\ At(r, "create client", "lookup")
  /\ Goto(r, "write")
  /\ UNCHANGED tables

\* ... then for the name.  scalar_one_or_none() raises when two rows match.
FindByName(r) ==
  /\ At(r, "create client", "lookup")
  /\ LET found == Named(req[r].parent, req[r].name)
     IN \/ found = {} /\ Goto(r, "write")
        \/ (\E c \in found : found = {c}) /\ Reply(r, "Conflict")
        \/ (\E c, d \in found : c # d) /\ Reply(r, "MultipleResultsFound")
  /\ UNCHANGED tables

\* InteractionService.create() asks for the client.
CheckClient(r) ==
  /\ At(r, "create interaction", "get")
  /\ IF Live(clients, req[r].parent) THEN Goto(r, "write") ELSE Reply(r, "NotFound")
  /\ UNCHANGED tables

\* The lists ask for the parent, then for the rows.
CheckParent(r) ==
  /\ At(r, "list", "get")
  /\ IF Live(advisors, req[r].parent) \/ Live(clients, req[r].parent)
     THEN Goto(r, "select") ELSE Reply(r, "NotFound")
  /\ UNCHANGED tables

Select(r) == At(r, "list", "select") /\ Reply(r, "ok") /\ UNCHANGED tables

---------------------------------------------------------------------------
(***************************************************************************)
(* The writes.                                                             *)
(***************************************************************************)
\* INSERT and COMMIT; the new row is refreshed next.
Inserted(r, id) ==
  \/ req' = [req EXCEPT ![r].at = "refresh", ![r].row = id]
  \/ "db" \in Faults /\ Reply(r, "DBAPIError")

\* The e-mail is unique in the table.
InsertAdvisor(r) ==
  /\ At(r, "create advisor", "write")
  /\ \/ /\ req[r].email \notin Range(advisors)
        /\ \E a \in Fresh(AdvisorIds, advisors) :
             advisors' = Insert(advisors, a, req[r].email) /\ Inserted(r, a)
     \/ /\ req[r].email \in Range(advisors)
        /\ Reply(r, "IntegrityError")
        /\ UNCHANGED advisors
  /\ UNCHANGED <<clients, interactions>>

\* A faulty InsertClient for the mutation runs: no foreign key.
InsertClientUnchecked(r) ==
  /\ At(r, "create client", "write")
  /\ \E c \in Fresh(ClientIds, clients) :
       /\ clients' = Insert(clients, c,
            [advisor |-> req[r].parent, name |-> req[r].name, review |-> req[r].review,
             named |-> IF r \in crossed THEN "crossed" ELSE "checked"])
       /\ Inserted(r, c)
  /\ UNCHANGED <<advisors, interactions>>

\* The advisor is a foreign key; nothing in the schema speaks of names.
InsertClient(r) ==
  /\ At(r, "create client", "write")
  /\ \/ Live(advisors, req[r].parent) /\ InsertClientUnchecked(r)
     \/ ~Live(advisors, req[r].parent) /\ Reply(r, "IntegrityError") /\ UNCHANGED tables

InsertInteraction(r) ==
  /\ At(r, "create interaction", "write")
  /\ \/ /\ Live(clients, req[r].parent)
        /\ \E i \in Fresh(InteractionIds, interactions) :
             interactions' = Insert(interactions, i, req[r].parent) /\ Inserted(r, i)
     \/ ~Live(clients, req[r].parent) /\ Reply(r, "IntegrityError") /\ UNCHANGED interactions
  /\ UNCHANGED <<advisors, clients>>

\* An UPDATE, unless no column changes.  When the row is gone by now it
\* matches no WHERE, and that raises.
UpdateAdvisor(r) ==
  /\ At(r, "patch advisor", "write")
  /\ \/ Committed(r, "refresh")
     \/ ~Live(advisors, req[r].row) /\ Reply(r, "StaleDataError")
  /\ UNCHANGED tables

\* The row after the UPDATE: the other columns keep what they have by now.
Patched(r, row) ==
  [row EXCEPT !.name = IF "name" \in req[r].sets THEN req[r].name ELSE @,
              !.review = IF "review" \in req[r].sets THEN req[r].review ELSE @,
              !.named = IF "name" \in req[r].sets THEN "renamed" ELSE @]

\* A faulty UpdateClient for the mutation runs: the UPDATE leaves a name alone
\* that another request has changed since the row was loaded.
UpdateClientIfFresh(r) ==
  /\ At(r, "patch client", "write")
  /\ Live(clients, req[r].row)
  /\ clients' = IF r \in disturbed THEN clients
                ELSE [clients EXCEPT ![req[r].row] = Patched(r, @)]
  /\ Goto(r, "refresh")
  /\ UNCHANGED <<advisors, interactions>>

UpdateClient(r) ==
  /\ At(r, "patch client", "write")
  /\ \/ /\ req[r].sets = {}
        /\ Committed(r, "refresh")
        /\ UNCHANGED clients
     \/ /\ req[r].sets # {} /\ Live(clients, req[r].row)
        /\ clients' = [clients EXCEPT ![req[r].row] = Patched(r, @)]
        /\ Committed(r, "refresh")
     \/ /\ req[r].sets # {} /\ ~Live(clients, req[r].row)
        /\ Reply(r, "StaleDataError")
        /\ UNCHANGED clients
  /\ UNCHANGED <<advisors, interactions>>

\* The rows that go with a set of clients: ON DELETE CASCADE, and the ORM's
\* cascade before it.
DropClients(gone) ==
  /\ clients' = Restrict(clients, DOMAIN clients \ gone)
  /\ interactions' = Restrict(interactions,
                       {i \in DOMAIN interactions : interactions[i] \notin gone})

\* A DELETE that matches no row is a warning only: two requests may both
\* answer 204 for one row.
RemoveAdvisor(r) ==
  /\ At(r, "delete advisor", "write")
  /\ advisors' = Restrict(advisors, DOMAIN advisors \ {req[r].row})
  /\ DropClients({c \in DOMAIN clients : clients[c].advisor = req[r].row})
  /\ Committed(r, "done")

RemoveClient(r) ==
  /\ At(r, "delete client", "write")
  /\ DropClients({req[r].row})
  /\ Committed(r, "done")
  /\ UNCHANGED advisors

\* db.refresh() after the COMMIT: the SELECT of a row that another request has
\* deleted in between raises, and the answer is a 500.
Refresh(r) ==
  /\ req[r].at = "refresh"
  /\ LET table == CASE req[r].op \in {"create advisor", "patch advisor"} -> advisors
                    [] req[r].op \in {"create client", "patch client"} -> clients
                    [] OTHER -> interactions
     IN Reply(r, IF Live(table, req[r].row) THEN "ok" ELSE "InvalidRequestError")
  /\ UNCHANGED tables

\* Any statement may fail on its way to the database, with no effect.
DbFails(r) ==
  /\ "db" \in Faults
  /\ req[r].at # "done"
  /\ Reply(r, "DBAPIError")
  /\ UNCHANGED tables

---------------------------------------------------------------------------
Post(r) ==
  \/ PostAdvisor(r) \/ PatchAdvisor(r) \/ DeleteAdvisor(r)
  \/ PostClient(r) \/ PatchClient(r) \/ DeleteClient(r) \/ PostInteraction(r)
  \/ GetList(r)

Step(r) ==
  \/ GetAdvisor(r) \/ GetClient(r) \/ GetByEmail(r) \/ CheckAdvisor(r)
  \/ FindByName(r) \/ CheckClient(r) \/ CheckParent(r) \/ Select(r)
  \/ InsertAdvisor(r) \/ InsertClient(r) \/ InsertInteraction(r)
  \/ UpdateAdvisor(r) \/ UpdateClient(r) \/ RemoveAdvisor(r) \/ RemoveClient(r)
  \/ Refresh(r) \/ DbFails(r)

\* The fields of r's PATCH that its row lacks in the state reached.
Lacking(r) ==
  {f \in Fields : /\ req'[r].op = "patch client" /\ req'[r][f] # Unset
                  /\ ~(Live(clients', req'[r].row) /\ clients'[req'[r].row][f] = req'[r][f])}

\* The history variables follow a step of request r.
Observe(r) ==
  LET begins == req[r].at = "done"
      others == {q \in Requests \ {r} : tables' # tables /\ req[q].at # "done"}
  IN /\ disturbed' = (IF begins THEN disturbed \ {r} ELSE disturbed) \cup others
     /\ crossed' = {q \in Requests :
                      /\ At(q, "create client", "write") /\ req'[q].at = "write"
                      /\ \/ q \in crossed
                         \/ Named(req[q].parent, req[q].name)'
                              \ Named(req[q].parent, req[q].name) # {}}
     /\ owed' = [q \in Requests |->
                   IF q = r /\ begins THEN Lacking(q)
                   ELSE IF req'[q].at = "done" THEN owed[q] ELSE owed[q] \cap Lacking(q)]

Next == \E r \in Requests : (Post(r) \/ Step(r)) /\ Observe(r)

Spec == Init /\ [][Next]_vars

---------------------------------------------------------------------------
(***************************************************************************)
(* Properties.                                                             *)
(***************************************************************************)

\* No client outlives its advisor and no interaction its client, although an
\* insert may come after the deletion of the row its request had found.
RowsReferToParents ==
  /\ \A c \in DOMAIN clients : clients[c].advisor \in DOMAIN advisors
  /\ \A i \in DOMAIN interactions : interactions[i] \in DOMAIN clients

\* Two clients of one advisor share a name only when a PATCH renamed one of
\* them, or one was created by a request beside which the other took the name:
\* ConflictError (client_service.py:35) is reliable for requests that do not
\* overlap, and for them alone.
NamesClashOnlyByRaceOrRename ==
  \A c, d \in {x \in DOMAIN clients : clients[x].named = "checked"} :
    clients[c].advisor = clients[d].advisor /\ clients[c].name = clients[d].name => c = d

\* A request that has the books to itself never fails with a 500, but for a
\* database error and for a name that two clients share: its own checks
\* foresee what the constraints, the UPDATE and the refresh would refuse.
ErrorsNeedAnotherWriter ==
  \A r \in Requests :
    HttpStatus(req[r].reply) = 500 =>
      r \in disturbed \/ req[r].reply \in {"DBAPIError", "MultipleResultsFound"}

\* A PATCH that is answered with 200 took effect: at some time between its
\* arrival and its answer the row had each value it asked for, also when it
\* issued no UPDATE for a value that was the loaded one, or when another
\* PATCH overwrote it before the answer.
PatchTookEffect ==
  \A r \in Requests : req[r].reply = "ok" => owed[r] = {}

\* A client that has a review date keeps one as long as it exists: no request
\* can clear it (a null is dropped by exclude_none), so the client stays
\* within the scheduler's window for good once the date has come.
ReviewDateStays ==
  [][\A c \in DOMAIN clients \cap DOMAIN clients' :
       clients[c].review # Unset => clients'[c].review # Unset]_vars
===========================================================================
