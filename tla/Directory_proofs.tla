-------------------------- MODULE Directory_proofs -------------------------
(***************************************************************************)
(* Proofs about Directory, for any tables, any payloads and any number of  *)
(* concurrent requests.                                                    *)
(***************************************************************************)
EXTENDS Directory, TLAPS

\* What a request carries suits its operation, and it sets only what it was
\* given.
Suits(q) ==
  /\ q.op = "create advisor" => q.email \in Emails
  /\ q.op = "create client" => q.name \in Names
  /\ "name" \in q.sets => q.name \in Names
  /\ "review" \in q.sets => q.review \in Dates

RequestsOK == \A r \in Requests : Suits(req[r])

BookInv == TypeOK /\ RequestsOK /\ RowsReferToParents

---------------------------------------------------------------------------
(***************************************************************************)
(* Steps on the requests.                                                  *)
(***************************************************************************)

RequestsStayOK == req' \in [Requests -> Request] /\ RequestsOK'

\* A step that gives one request a new record leaves the others alone.
LEMMA OneRequest ==
  ASSUME TypeOK, RequestsOK, NEW r \in Requests, NEW new \in Request, Suits(new),
         req' = [req EXCEPT ![r] = new]
  PROVE  /\ RequestsStayOK
         /\ req'[r] = new
         /\ \A q \in Requests : q # r => req'[q] = req[q]
BY DEF TypeOK, RequestsOK, RequestsStayOK

\* The record of a request that has ended.
LEMMA NoRequestOK ==
  ASSUME NEW with \in Replies
  PROVE  LET new == [NoRequest EXCEPT !.reply = with]
         IN  /\ new \in Request /\ Suits(new)
             /\ new.at = "done" /\ new.op = "none" /\ new.reply = with
<1> DEFINE new == [NoRequest EXCEPT !.reply = with]
<1>1. NoRequest \in Request
  BY DEF NoRequest, Request, Ops, Replies
<1>2. new \in Request
  BY <1>1, Zenon DEF Request
<1>3. /\ new.op = "none" /\ new.at = "done" /\ new.sets = {} /\ new.reply = with
  BY DEF NoRequest
<1>4. Suits(new)
  BY <1>3 DEF Suits
<1> QED
  BY <1>2, <1>3, <1>4

\* A reply ends the request and carries nothing else.
LEMMA ReplyOK ==
  ASSUME TypeOK, RequestsOK, NEW r \in Requests, NEW with \in Replies, Reply(r, with)
  PROVE  /\ RequestsStayOK
         /\ req'[r].at = "done" /\ req'[r].op = "none" /\ req'[r].reply = with
         /\ \A q \in Requests : q # r => req'[q] = req[q]
<1> DEFINE new == [NoRequest EXCEPT !.reply = with]
<1>1. new \in Request /\ Suits(new) /\ new.at = "done" /\ new.op = "none" /\ new.reply = with
  BY NoRequestOK
<1>2. req' = [req EXCEPT ![r] = new]
  BY DEF Reply
<1> HIDE DEF new
<1> QED
  BY <1>1, <1>2, OneRequest

\* Going on to the next statement changes nothing but the stage.
LEMMA GotoOK ==
  ASSUME TypeOK, RequestsOK, NEW r \in Requests,
         NEW s \in {"done", "get", "lookup", "write", "refresh", "select"}, Goto(r, s)
  PROVE  /\ RequestsStayOK
         /\ req'[r] = [req[r] EXCEPT !.at = s]
         /\ req'[r].at = s /\ req'[r].op = req[r].op /\ req'[r].row = req[r].row
         /\ req'[r].parent = req[r].parent /\ req'[r].email = req[r].email
         /\ req'[r].name = req[r].name /\ req'[r].review = req[r].review
         /\ req'[r].sets = req[r].sets /\ req'[r].reply = req[r].reply
         /\ \A q \in Requests : q # r => req'[q] = req[q]
<1> DEFINE x == req[r]
           new == [x EXCEPT !.at = s]
<1>1. x \in Request /\ Suits(x)
  BY DEF TypeOK, RequestsOK
<1>2. req' = [req EXCEPT ![r] = new]
  BY DEF Goto
<1> HIDE DEF x
<1>3. new \in Request
  BY <1>1, Zenon DEF Request
<1>4. /\ new.at = s /\ new.op = x.op /\ new.row = x.row
      /\ new.parent = x.parent /\ new.email = x.email
      /\ new.name = x.name /\ new.review = x.review
      /\ new.sets = x.sets /\ new.reply = x.reply
  BY <1>1 DEF Request
<1>5. Suits(new)
  BY <1>1, <1>4 DEF Suits
<1> HIDE DEF new
<1> QED
  BY <1>2, <1>3, <1>4, <1>5, OneRequest DEF x, new

\* INSERT goes on with the refresh of its row.
LEMMA RowOK ==
  ASSUME TypeOK, RequestsOK, NEW r \in Requests, NEW id \in Ids,
         req' = [req EXCEPT ![r].at = "refresh", ![r].row = id]
  PROVE  /\ RequestsStayOK
         /\ req'[r].at = "refresh" /\ req'[r].op = req[r].op /\ req'[r].row = id
         /\ req'[r].name = req[r].name /\ req'[r].review = req[r].review
         /\ req'[r].reply = req[r].reply
         /\ \A q \in Requests : q # r => req'[q] = req[q]
<1> DEFINE x == req[r]
           new == [x EXCEPT !.at = "refresh", !.row = id]
<1>1. x \in Request /\ Suits(x)
  BY DEF TypeOK, RequestsOK
<1>2. req' = [req EXCEPT ![r] = new]
  OBVIOUS
<1> HIDE DEF x
<1>3. new \in Request
  BY <1>1, Zenon DEF Request
<1>4. /\ new.at = "refresh" /\ new.op = x.op /\ new.row = id
      /\ new.parent = x.parent /\ new.email = x.email
      /\ new.name = x.name /\ new.review = x.review
      /\ new.sets = x.sets /\ new.reply = x.reply
  BY <1>1 DEF Request
<1>5. Suits(new)
  BY <1>1, <1>4 DEF Suits
<1> HIDE DEF new
<1> QED
  BY <1>2, <1>3, <1>4, <1>5, OneRequest DEF x

\* GetClient notes the columns to set.
LEMMA SetsOK ==
  ASSUME TypeOK, RequestsOK, NEW r \in Requests,
         req' = [req EXCEPT ![r].at = "write",
                            ![r].sets = Changes(clients[req[r].row], req[r])]
  PROVE  /\ RequestsStayOK
         /\ req'[r].at = "write" /\ req'[r].op = req[r].op /\ req'[r].row = req[r].row
         /\ req'[r].sets = Changes(clients[req[r].row], req[r])
         /\ req'[r].name = req[r].name /\ req'[r].review = req[r].review
         /\ req'[r].reply = req[r].reply
         /\ \A q \in Requests : q # r => req'[q] = req[q]
<1> DEFINE x == req[r]
           sets == Changes(clients[x.row], x)
           new == [x EXCEPT !.at = "write", !.sets = sets]
<1>1. x \in Request /\ Suits(x)
  BY DEF TypeOK, RequestsOK
<1>2. req' = [req EXCEPT ![r] = new]
  OBVIOUS
<1>3. /\ sets \in SUBSET Fields
      /\ "name" \in sets => x.name # Unset
      /\ "review" \in sets => x.review # Unset
  BY DEF Changes
<1> HIDE DEF x, sets
<1>4. new \in Request
  BY <1>1, <1>3, Zenon DEF Request
<1>5. /\ new.at = "write" /\ new.op = x.op /\ new.row = x.row
      /\ new.email = x.email /\ new.name = x.name /\ new.review = x.review
      /\ new.sets = sets /\ new.reply = x.reply
  BY <1>1 DEF Request
<1>6. x.name \in Names \cup {Unset} /\ x.review \in Dates \cup {Unset}
  BY <1>1 DEF Request
<1>7. Suits(new)
  BY <1>1, <1>3, <1>5, <1>6 DEF Suits
<1> HIDE DEF new
<1> QED
  BY <1>2, <1>4, <1>5, <1>7, OneRequest DEF x, sets

\* A request that arrives fits its endpoint.
LEMMA BeginOK ==
  ASSUME TypeOK, RequestsOK, NEW r \in Requests, Post(r)
  PROVE  /\ RequestsStayOK /\ UNCHANGED tables /\ req[r].at = "done"
         /\ req'[r].at = (IF req'[r].op = "create advisor" THEN "lookup" ELSE "get")
         /\ req'[r].reply = "none" /\ req'[r].op # "none"
         /\ \A q \in Requests : q # r => req'[q] = req[q]
<1>1. PICK new \in Request :
        /\ Begin(r, new) /\ Suits(new)
        /\ new.at = (IF new.op = "create advisor" THEN "lookup" ELSE "get")
        /\ new.reply = "none" /\ new.op # "none"
  <2>0. NoRequest \in Request
    BY DEF NoRequest, Request, Ops, Replies
  <2>1. CASE PostAdvisor(r)
    <3>1. PICK e \in Emails :
            Begin(r, [NoRequest EXCEPT !.op = "create advisor", !.at = "lookup", !.email = e])
      BY <2>1 DEF PostAdvisor
    <3> DEFINE new == [NoRequest EXCEPT !.op = "create advisor", !.at = "lookup", !.email = e]
    <3>2. new \in Request
      BY <2>0, <3>1, Zenon DEF Request, Ops, Ids
    <3>3. /\ new.op = "create advisor" /\ new.at = "lookup" /\ new.sets = {} /\ new.reply = "none"
          /\ new.email = e /\ new.name = Unset
      BY DEF NoRequest
    <3> HIDE DEF new
    <3>4. Suits(new)
      BY <3>1, <3>3 DEF Suits
    <3> QED
      BY <3>1, <3>2, <3>3, <3>4 DEF new
  <2>2. CASE PatchAdvisor(r)
    <3>1. PICK a \in AdvisorIds :
            Begin(r, [NoRequest EXCEPT !.op = "patch advisor", !.at = "get", !.row = a])
      BY <2>2 DEF PatchAdvisor
    <3> DEFINE new == [NoRequest EXCEPT !.op = "patch advisor", !.at = "get", !.row = a]
    <3>2. new \in Request
      BY <2>0, <3>1, Zenon DEF Request, Ops, Ids
    <3>3. /\ new.op = "patch advisor" /\ new.at = "get" /\ new.sets = {} /\ new.reply = "none"
          /\ new.email = Unset /\ new.name = Unset
      BY DEF NoRequest
    <3> HIDE DEF new
    <3>4. Suits(new)
      BY <3>1, <3>3 DEF Suits
    <3> QED
      BY <3>1, <3>2, <3>3, <3>4 DEF new
  <2>3. CASE DeleteAdvisor(r)
    <3>1. PICK a \in AdvisorIds :
            Begin(r, [NoRequest EXCEPT !.op = "delete advisor", !.at = "get", !.row = a])
      BY <2>3 DEF DeleteAdvisor
    <3> DEFINE new == [NoRequest EXCEPT !.op = "delete advisor", !.at = "get", !.row = a]
    <3>2. new \in Request
      BY <2>0, <3>1, Zenon DEF Request, Ops, Ids
    <3>3. /\ new.op = "delete advisor" /\ new.at = "get" /\ new.sets = {} /\ new.reply = "none"
          /\ new.email = Unset /\ new.name = Unset
      BY DEF NoRequest
    <3> HIDE DEF new
    <3>4. Suits(new)
      BY <3>1, <3>3 DEF Suits
    <3> QED
      BY <3>1, <3>2, <3>3, <3>4 DEF new
  <2>4. CASE PostClient(r)
    <3>1. PICK a \in AdvisorIds, n \in Names, d \in Dates \cup {Unset} :
            Begin(r, [NoRequest EXCEPT !.op = "create client", !.at = "get",
                                 !.parent = a, !.name = n, !.review = d])
      BY <2>4 DEF PostClient
    <3> DEFINE new == [NoRequest EXCEPT !.op = "create client", !.at = "get",
                                    !.parent = a, !.name = n, !.review = d]
    <3>2. new \in Request
      BY <2>0, <3>1, Zenon DEF Request, Ops, Ids
    <3>3. /\ new.op = "create client" /\ new.at = "get" /\ new.sets = {} /\ new.reply = "none"
          /\ new.email = Unset /\ new.name = n
      BY DEF NoRequest
    <3> HIDE DEF new
    <3>4. Suits(new)
      BY <3>1, <3>3 DEF Suits
    <3> QED
      BY <3>1, <3>2, <3>3, <3>4 DEF new
  <2>5. CASE PatchClient(r)
    <3>1. PICK c \in ClientIds, n \in Names \cup {Unset}, d \in Dates \cup {Unset} :
            Begin(r, [NoRequest EXCEPT !.op = "patch client", !.at = "get", !.row = c,
                                 !.name = n, !.review = d])
      BY <2>5 DEF PatchClient
    <3> DEFINE new == [NoRequest EXCEPT !.op = "patch client", !.at = "get", !.row = c,
                                    !.name = n, !.review = d]
    <3>2. new \in Request
      BY <2>0, <3>1, Zenon DEF Request, Ops, Ids
    <3>3. /\ new.op = "patch client" /\ new.at = "get" /\ new.sets = {} /\ new.reply = "none"
          /\ new.email = Unset /\ new.name = n
      BY DEF NoRequest
    <3> HIDE DEF new
    <3>4. Suits(new)
      BY <3>1, <3>3 DEF Suits
    <3> QED
      BY <3>1, <3>2, <3>3, <3>4 DEF new
  <2>6. CASE DeleteClient(r)
    <3>1. PICK c \in ClientIds :
            Begin(r, [NoRequest EXCEPT !.op = "delete client", !.at = "get", !.row = c])
      BY <2>6 DEF DeleteClient
    <3> DEFINE new == [NoRequest EXCEPT !.op = "delete client", !.at = "get", !.row = c]
    <3>2. new \in Request
      BY <2>0, <3>1, Zenon DEF Request, Ops, Ids
    <3>3. /\ new.op = "delete client" /\ new.at = "get" /\ new.sets = {} /\ new.reply = "none"
          /\ new.email = Unset /\ new.name = Unset
      BY DEF NoRequest
    <3> HIDE DEF new
    <3>4. Suits(new)
      BY <3>1, <3>3 DEF Suits
    <3> QED
      BY <3>1, <3>2, <3>3, <3>4 DEF new
  <2>7. CASE PostInteraction(r)
    <3>1. PICK c \in ClientIds :
            Begin(r, [NoRequest EXCEPT !.op = "create interaction", !.at = "get", !.parent = c])
      BY <2>7 DEF PostInteraction
    <3> DEFINE new == [NoRequest EXCEPT !.op = "create interaction", !.at = "get", !.parent = c]
    <3>2. new \in Request
      BY <2>0, <3>1, Zenon DEF Request, Ops, Ids
    <3>3. /\ new.op = "create interaction" /\ new.at = "get" /\ new.sets = {} /\ new.reply = "none"
          /\ new.email = Unset /\ new.name = Unset
      BY DEF NoRequest
    <3> HIDE DEF new
    <3>4. Suits(new)
      BY <3>1, <3>3 DEF Suits
    <3> QED
      BY <3>1, <3>2, <3>3, <3>4 DEF new
  <2>8. CASE GetList(r)
    <3>1. PICK p \in AdvisorIds \cup ClientIds :
            Begin(r, [NoRequest EXCEPT !.op = "list", !.at = "get", !.parent = p])
      BY <2>8 DEF GetList
    <3> DEFINE new == [NoRequest EXCEPT !.op = "list", !.at = "get", !.parent = p]
    <3>2. new \in Request
      BY <2>0, <3>1, Zenon DEF Request, Ops, Ids
    <3>3. /\ new.op = "list" /\ new.at = "get" /\ new.sets = {} /\ new.reply = "none"
          /\ new.email = Unset /\ new.name = Unset
      BY DEF NoRequest
    <3> HIDE DEF new
    <3>4. Suits(new)
      BY <3>1, <3>3 DEF Suits
    <3> QED
      BY <3>1, <3>2, <3>3, <3>4 DEF new
  <2> QED
    BY <2>1, <2>2, <2>3, <2>4, <2>5, <2>6, <2>7, <2>8 DEF Post
<1>2. req' = [req EXCEPT ![r] = new] /\ UNCHANGED tables /\ req[r].at = "done"
  BY <1>1 DEF Begin
<1> QED
  BY <1>1, <1>2, OneRequest

\* Whatever becomes of the reply to COMMIT, the request stays one.
LEMMA CommittedOK ==
  ASSUME TypeOK, RequestsOK, NEW r \in Requests, NEW s \in {"done", "refresh"},
         Committed(r, s)
  PROVE  /\ RequestsStayOK
         /\ \A q \in Requests : q # r => req'[q] = req[q]
<1>1. "ok" \in Replies /\ "DBAPIError" \in Replies
  BY DEF Replies
<1> QED
  BY <1>1, ReplyOK, GotoOK DEF Committed

\* The same for an INSERT.
LEMMA InsertedOK ==
  ASSUME TypeOK, RequestsOK, NEW r \in Requests, NEW id \in Ids, Inserted(r, id)
  PROVE  /\ RequestsStayOK
         /\ \A q \in Requests : q # r => req'[q] = req[q]
<1>1. "DBAPIError" \in Replies
  BY DEF Replies
<1> QED
  BY <1>1, ReplyOK, RowOK DEF Inserted

\* Every step of a request leaves requests, and the others alone.
LEMMA StepRequests ==
  ASSUME TypeOK, RequestsOK, NEW r \in Requests, Post(r) \/ Step(r)
  PROVE  /\ RequestsStayOK
         /\ \A q \in Requests : q # r => req'[q] = req[q]
<1> DEFINE Goal == /\ RequestsStayOK
                   /\ \A q \in Requests : q # r => req'[q] = req[q]
<1>1. ASSUME NEW with \in Replies, Reply(r, with) PROVE Goal
  BY <1>1, ReplyOK
<1>2. ASSUME NEW s \in {"lookup", "write", "refresh", "select"}, Goto(r, s) PROVE Goal
  BY <1>2, GotoOK
<1>3. /\ "ok" \in Replies /\ "NotFound" \in Replies /\ "Conflict" \in Replies
      /\ "MultipleResultsFound" \in Replies /\ "IntegrityError" \in Replies
      /\ "StaleDataError" \in Replies /\ "InvalidRequestError" \in Replies
      /\ "DBAPIError" \in Replies
  BY DEF Replies
<1>4. CASE Post(r)
  BY <1>4, BeginOK
<1>5. CASE GetAdvisor(r) \/ CheckAdvisor(r) \/ GetByEmail(r) \/ CheckClient(r) \/ CheckParent(r)
  BY <1>1, <1>2, <1>3, <1>5
  DEF GetAdvisor, CheckAdvisor, GetByEmail, CheckClient, CheckParent
<1>6. CASE GetClient(r)
  BY <1>1, <1>3, <1>6, SetsOK DEF GetClient
<1>7. CASE FindByName(r) \/ Select(r) \/ DbFails(r)
  BY <1>1, <1>2, <1>3, <1>7 DEF FindByName, Select, DbFails
<1>8. CASE InsertAdvisor(r)
  BY <1>1, <1>3, <1>8, InsertedOK DEF InsertAdvisor, Fresh, Ids
<1>9. CASE InsertClient(r)
  BY <1>1, <1>3, <1>9, InsertedOK DEF InsertClient, InsertClientUnchecked, Fresh, Ids
<1>10. CASE InsertInteraction(r)
  BY <1>1, <1>3, <1>10, InsertedOK DEF InsertInteraction, Fresh, Ids
<1>11. CASE UpdateAdvisor(r)
  BY <1>1, <1>3, <1>11, CommittedOK DEF UpdateAdvisor
<1>12. CASE UpdateClient(r)
  BY <1>1, <1>3, <1>12, CommittedOK DEF UpdateClient
<1>13. CASE RemoveAdvisor(r) \/ RemoveClient(r)
  BY <1>13, CommittedOK DEF RemoveAdvisor, RemoveClient
<1>14. CASE Refresh(r)
  BY <1>1, <1>3, <1>14 DEF Refresh
<1> QED
  BY <1>4, <1>5, <1>6, <1>7, <1>8, <1>9, <1>10, <1>11, <1>12, <1>13, <1>14 DEF Step

---------------------------------------------------------------------------
(***************************************************************************)
(* Steps on the tables.                                                    *)
(***************************************************************************)

TablesOK ==
  /\ DOMAIN advisors \subseteq AdvisorIds /\ advisors \in [DOMAIN advisors -> Emails]
  /\ DOMAIN clients \subseteq ClientIds /\ clients \in [DOMAIN clients -> ClientRow]
  /\ DOMAIN interactions \subseteq InteractionIds
  /\ interactions \in [DOMAIN interactions -> ClientIds]

\* What Restrict keeps, it keeps as it is.
LEMMA RestrictIs ==
  ASSUME NEW table, NEW S \in SUBSET DOMAIN table
  PROVE  /\ DOMAIN Restrict(table, S) = S
         /\ \A x \in S : Restrict(table, S)[x] = table[x]
         /\ Restrict(table, S) = [x \in S |-> Restrict(table, S)[x]]
BY DEF Restrict

\* A PATCH keeps a row a row.
LEMMA PatchedIs ==
  ASSUME NEW r \in Requests, NEW row \in ClientRow, Suits(req[r])
  PROVE  /\ Patched(r, row) \in ClientRow
         /\ Patched(r, row).advisor = row.advisor
         /\ Patched(r, row).name = (IF "name" \in req[r].sets THEN req[r].name ELSE row.name)
         /\ Patched(r, row).review =
              (IF "review" \in req[r].sets THEN req[r].review ELSE row.review)
         /\ Patched(r, row).named =
              (IF "name" \in req[r].sets THEN "renamed" ELSE row.named)
<1> DEFINE n == IF "name" \in req[r].sets THEN req[r].name ELSE row.name
           d == IF "review" \in req[r].sets THEN req[r].review ELSE row.review
           k == IF "name" \in req[r].sets THEN "renamed" ELSE row.named
           new == [row EXCEPT !.name = n, !.review = d, !.named = k]
<1>1. Patched(r, row) = new
  BY DEF Patched
<1>2. /\ n \in Names /\ d \in Dates \cup {Unset}
      /\ k \in {"checked", "crossed", "renamed"}
  BY DEF ClientRow, Suits
<1> HIDE DEF n, d, k
<1>3. new \in ClientRow
  BY <1>2, Zenon DEF ClientRow
<1>4. /\ new.advisor = row.advisor /\ new.name = n /\ new.review = d /\ new.named = k
  BY DEF ClientRow
<1> HIDE DEF new
<1> QED
  BY <1>1, <1>3, <1>4 DEF n, d, k

\* What a step of a request can do to the table of clients.
ClientsKept == UNCHANGED clients
ClientAdded(r, c) ==
  /\ c \in ClientIds \ DOMAIN clients /\ req[r].parent \in DOMAIN advisors
  /\ At(r, "create client", "write")
  /\ clients' = Insert(clients, c,
       [advisor |-> req[r].parent, name |-> req[r].name, review |-> req[r].review,
        named |-> IF r \in crossed THEN "crossed" ELSE "checked"])
  /\ UNCHANGED <<advisors, interactions>>
ClientPatched(r) ==
  /\ At(r, "patch client", "write") /\ req[r].row \in DOMAIN clients
  /\ clients' = [clients EXCEPT ![req[r].row] = Patched(r, @)]
  /\ UNCHANGED <<advisors, interactions>>
ClientsGone(gone, a) ==
  /\ DropClients(gone)
  /\ \/ UNCHANGED advisors
     \/ /\ advisors' = Restrict(advisors, DOMAIN advisors \ {a})
        /\ \A c \in DOMAIN clients \ gone : clients[c].advisor # a

\* A step does one of these to the tables.
LEMMA TableCases ==
  ASSUME TypeOK, RequestsOK, RowsReferToParents, NEW r \in Requests, Post(r) \/ Step(r)
  PROVE  \/ UNCHANGED tables
         \/ /\ At(r, "create advisor", "write")
            /\ \E a \in AdvisorIds \ DOMAIN advisors :
                 advisors' = Insert(advisors, a, req[r].email)
            /\ UNCHANGED <<clients, interactions>>
         \/ \E c \in ClientIds : ClientAdded(r, c)
         \/ /\ req[r].parent \in DOMAIN clients
            /\ \E i \in InteractionIds \ DOMAIN interactions :
                 interactions' = Insert(interactions, i, req[r].parent)
            /\ UNCHANGED <<advisors, clients>>
         \/ ClientPatched(r)
         \/ \E gone, a : ClientsGone(gone, a)
<1>1. CASE Post(r)
  BY <1>1, BeginOK
<1>2. CASE \/ GetAdvisor(r) \/ GetClient(r) \/ GetByEmail(r) \/ CheckAdvisor(r) \/ FindByName(r)
           \/ CheckClient(r) \/ CheckParent(r) \/ Select(r) \/ UpdateAdvisor(r)
           \/ Refresh(r) \/ DbFails(r)
  BY <1>2
  DEF GetAdvisor, GetClient, GetByEmail, CheckAdvisor, FindByName, CheckClient, CheckParent,
      Select, UpdateAdvisor, Refresh, DbFails
<1>3. CASE InsertAdvisor(r)
  BY <1>3 DEF InsertAdvisor, Fresh, tables
<1>4. CASE InsertClient(r)
  <2>1. CASE Live(advisors, req[r].parent) /\ InsertClientUnchecked(r)
    BY <2>1 DEF InsertClientUnchecked, ClientAdded, Live, Fresh
  <2>2. CASE UNCHANGED tables
    BY <2>2
  <2> QED
    BY <1>4, <2>1, <2>2 DEF InsertClient
<1>5. CASE InsertInteraction(r)
  BY <1>5 DEF InsertInteraction, Fresh, Live, tables
<1>6. CASE UpdateClient(r)
  BY <1>6 DEF UpdateClient, ClientPatched, Live, tables
<1>7. CASE RemoveAdvisor(r)
  <2> DEFINE a == req[r].row
             gone == {c \in DOMAIN clients : clients[c].advisor = a}
  <2>1. ClientsGone(gone, a)
    BY <1>7 DEF RemoveAdvisor, ClientsGone
  <2> QED
    BY <2>1
<1>8. CASE RemoveClient(r)
  <2>1. ClientsGone({req[r].row}, 0)
    BY <1>8 DEF RemoveClient, ClientsGone
  <2> QED
    BY <2>1
<1> QED
  BY <1>1, <1>2, <1>3, <1>4, <1>5, <1>6, <1>7, <1>8 DEF Step

\* The tables keep their types and their references.
LEMMA TablesStep ==
  ASSUME TypeOK, RequestsOK, RowsReferToParents, NEW r \in Requests, Post(r) \/ Step(r)
  PROVE  TablesOK' /\ RowsReferToParents'
<1>0. TablesOK
  BY DEF TypeOK, TablesOK
<1>1. CASE UNCHANGED tables
  BY <1>0, <1>1 DEF tables, TablesOK, RowsReferToParents
<1>2. ASSUME NEW a \in AdvisorIds \ DOMAIN advisors, At(r, "create advisor", "write"),
             advisors' = Insert(advisors, a, req[r].email),
             UNCHANGED <<clients, interactions>>
      PROVE  TablesOK' /\ RowsReferToParents'
  <2>1. req[r].email \in Emails
    BY <1>2 DEF RequestsOK, Suits, At
  <2>2. /\ DOMAIN advisors' = DOMAIN advisors \cup {a} /\ advisors'[a] = req[r].email
        /\ \A x \in DOMAIN advisors : advisors'[x] = advisors[x]
        /\ advisors' = [x \in DOMAIN advisors \cup {a} |-> advisors'[x]]
    BY <1>2 DEF Insert
  <2>3. advisors' \in [DOMAIN advisors' -> Emails]
    BY <1>0, <2>1, <2>2 DEF TablesOK
  <2> QED
    BY <1>0, <1>2, <2>2, <2>3 DEF TablesOK, RowsReferToParents
<1>3. ASSUME NEW c \in ClientIds, ClientAdded(r, c)
      PROVE  TablesOK' /\ RowsReferToParents'
  <2> DEFINE row == [advisor |-> req[r].parent, name |-> req[r].name, review |-> req[r].review,
                     named |-> IF r \in crossed THEN "crossed" ELSE "checked"]
  <2>1. req[r].name \in Names /\ req[r] \in Request /\ req[r].parent \in AdvisorIds
    BY <1>0, <1>3 DEF ClientAdded, At, RequestsOK, Suits, TypeOK, TablesOK
  <2>2. row \in ClientRow /\ row.advisor = req[r].parent
    BY <2>1 DEF ClientRow, Request
  <2>3. clients' = Insert(clients, c, row) /\ c \notin DOMAIN clients
    BY <1>3 DEF ClientAdded
  <2> HIDE DEF row
  <2>4. /\ DOMAIN clients' = DOMAIN clients \cup {c} /\ clients'[c] = row
        /\ \A x \in DOMAIN clients : clients'[x] = clients[x]
        /\ clients' = [x \in DOMAIN clients \cup {c} |-> clients'[x]]
    BY <2>3 DEF Insert
  <2>5. clients' \in [DOMAIN clients' -> ClientRow]
    BY <1>0, <2>2, <2>4 DEF TablesOK
  <2> QED
    BY <1>0, <1>3, <2>2, <2>4, <2>5 DEF TablesOK, RowsReferToParents, ClientAdded
<1>4. ASSUME NEW i \in InteractionIds \ DOMAIN interactions, req[r].parent \in DOMAIN clients,
             interactions' = Insert(interactions, i, req[r].parent),
             UNCHANGED <<advisors, clients>>
      PROVE  TablesOK' /\ RowsReferToParents'
  <2>1. /\ DOMAIN interactions' = DOMAIN interactions \cup {i}
        /\ interactions'[i] = req[r].parent
        /\ \A x \in DOMAIN interactions : interactions'[x] = interactions[x]
        /\ interactions' = [x \in DOMAIN interactions \cup {i} |-> interactions'[x]]
    BY <1>4 DEF Insert
  <2>2. interactions' \in [DOMAIN interactions' -> ClientIds]
    BY <1>0, <1>4, <2>1 DEF TablesOK
  <2> QED
    BY <1>0, <1>4, <2>1, <2>2 DEF TablesOK, RowsReferToParents
<1>5. CASE ClientPatched(r)
  <2> DEFINE c == req[r].row
             new == Patched(r, clients[c])
  <2>1. c \in DOMAIN clients /\ clients' = [clients EXCEPT ![c] = new]
    BY <1>5 DEF ClientPatched
  <2>2. clients[c] \in ClientRow /\ Suits(req[r])
    BY <1>0, <2>1 DEF TablesOK, RequestsOK
  <2>3. new \in ClientRow /\ new.advisor = clients[c].advisor
    BY <2>2, PatchedIs
  <2> HIDE DEF new
  <2>4. /\ DOMAIN clients' = DOMAIN clients /\ clients' \in [DOMAIN clients -> ClientRow]
        /\ \A x \in DOMAIN clients : clients'[x].advisor = clients[x].advisor
    BY <1>0, <2>1, <2>3 DEF TablesOK
  <2> QED
    BY <1>0, <1>5, <2>4 DEF TablesOK, RowsReferToParents, ClientPatched
<1>6. ASSUME NEW gone, NEW a, ClientsGone(gone, a)
      PROVE  TablesOK' /\ RowsReferToParents'
  <2> DEFINE C == DOMAIN clients \ gone
             I == {i \in DOMAIN interactions : interactions[i] \notin gone}
  <2>1. /\ DOMAIN clients' = C /\ \A c \in C : clients'[c] = clients[c]
        /\ clients' = [c \in C |-> clients'[c]]
    BY <1>6, RestrictIs DEF ClientsGone, DropClients
  <2>2. /\ DOMAIN interactions' = I /\ \A i \in I : interactions'[i] = interactions[i]
        /\ interactions' = [i \in I |-> interactions'[i]]
    BY <1>6, RestrictIs DEF ClientsGone, DropClients
  <2>3. clients' \in [C -> ClientRow] /\ interactions' \in [I -> ClientIds]
    BY <1>0, <2>1, <2>2 DEF TablesOK
  <2>4. CASE UNCHANGED advisors
    BY <1>0, <2>1, <2>2, <2>3, <2>4 DEF TablesOK, RowsReferToParents
  <2>5. CASE ~UNCHANGED advisors
    <3> DEFINE A == DOMAIN advisors \ {a}
    <3>1. advisors' = Restrict(advisors, A) /\ \A c \in C : clients[c].advisor # a
      BY <1>6, <2>5 DEF ClientsGone
    <3>2. /\ DOMAIN advisors' = A /\ \A x \in A : advisors'[x] = advisors[x]
          /\ advisors' = [x \in A |-> advisors'[x]]
      BY <3>1, RestrictIs
    <3>3. advisors' \in [A -> Emails]
      BY <1>0, <3>2 DEF TablesOK
    <3> QED
      BY <1>0, <2>1, <2>2, <2>3, <3>1, <3>2, <3>3 DEF TablesOK, RowsReferToParents
  <2> QED
    BY <2>4, <2>5
<1> QED
  BY <1>1, <1>2, <1>3, <1>4, <1>5, <1>6, TableCases

---------------------------------------------------------------------------
\* The inductive step.
LEMMA BookStep == BookInv /\ [Next]_vars => BookInv'
<1> SUFFICES ASSUME BookInv, [Next]_vars
             PROVE  BookInv'
  OBVIOUS
<1>0. TypeOK /\ RequestsOK /\ RowsReferToParents
  BY DEF BookInv
<1>1. ASSUME NEW r \in Requests, Post(r) \/ Step(r), Observe(r)
      PROVE  BookInv'
  <2>1. RequestsStayOK /\ TablesOK' /\ RowsReferToParents'
    BY <1>0, <1>1, StepRequests, TablesStep
  <2>2. disturbed' \subseteq Requests /\ crossed' \subseteq Requests
    BY <1>0, <1>1 DEF Observe, TypeOK
  <2>3. owed' \in [Requests -> SUBSET Fields]
    <3>1. \A q \in Requests : Lacking(q) \in SUBSET Fields /\ owed[q] \in SUBSET Fields
      BY <1>0 DEF Lacking, TypeOK
    <3> QED
      BY <1>1, <3>1 DEF Observe
  <2> QED
    BY <2>1, <2>2, <2>3 DEF BookInv, TypeOK, RequestsStayOK, TablesOK
<1>2. CASE UNCHANGED vars
  BY <1>2
  DEF vars, tables, history, BookInv, TypeOK, RequestsOK, RowsReferToParents
<1> QED
  BY <1>1, <1>2 DEF Next

\* The empty books satisfy the invariant.
LEMMA BookInit == Init => BookInv
<1> SUFFICES ASSUME Init PROVE BookInv
  OBVIOUS
<1>1. NoRequest \in Request /\ Suits(NoRequest)
  BY DEF NoRequest, Request, Ops, Replies, Suits
<1>2. TypeOK
  BY <1>1 DEF Init, TypeOK, NoRows
<1>3. RequestsOK
  BY <1>1 DEF Init, RequestsOK
<1>4. RowsReferToParents
  BY DEF Init, RowsReferToParents, NoRows
<1> QED
  BY <1>2, <1>3, <1>4 DEF BookInv

\* The inductive invariant holds in every reachable state.
LEMMA BookInvHolds == Spec => []BookInv
BY BookInit, BookStep, PTL DEF Spec

\* The tables have the types of their columns, whatever requests overlap.
THEOREM BookTypes == Spec => []TypeOK
BY BookInvHolds, PTL DEF BookInv

\* No row refers to one that is gone.
THEOREM ReferencesHold == Spec => []RowsReferToParents
BY BookInvHolds, PTL DEF BookInv

\* No request takes a review date away from a client that stays.
THEOREM DatesStay == Spec => ReviewDateStays
<1> DEFINE Stays == \A c \in DOMAIN clients \cap DOMAIN clients' :
                      clients[c].review # Unset => clients'[c].review # Unset
<1>1. BookInv /\ [Next]_vars => [Stays]_vars
  <2> SUFFICES ASSUME BookInv, NEW r \in Requests, Post(r) \/ Step(r)
               PROVE  Stays
    BY DEF Next
  <2>0. TypeOK /\ RequestsOK /\ RowsReferToParents
    BY DEF BookInv
  <2>1. CASE UNCHANGED clients
    BY <2>1
  <2>2. ASSUME NEW c \in ClientIds, ClientAdded(r, c)
        PROVE  Stays
    BY <2>2 DEF ClientAdded, Insert
  <2>3. CASE ClientPatched(r)
    <3> DEFINE c == req[r].row
    <3>1. c \in DOMAIN clients /\ clients' = [clients EXCEPT ![c] = Patched(r, clients[c])]
      BY <2>3 DEF ClientPatched
    <3>2. clients[c] \in ClientRow /\ Suits(req[r])
      BY <2>0, <3>1 DEF TypeOK, RequestsOK
    <3>3. clients[c].review # Unset => Patched(r, clients[c]).review # Unset
      BY <3>2, PatchedIs, DirectoryAssumption DEF Suits
    <3> QED
      BY <3>1, <3>3
  <2>4. ASSUME NEW gone, NEW a, ClientsGone(gone, a)
        PROVE  Stays
    BY <2>4, RestrictIs DEF ClientsGone, DropClients
  <2> QED
    BY <2>0, <2>1, <2>2, <2>3, <2>4, TableCases DEF tables
<1> QED
  BY <1>1, BookInvHolds, PTL DEF Spec, ReviewDateStays

---------------------------------------------------------------------------
(***************************************************************************)
(* What a step does to its own request.                                    *)
(***************************************************************************)

\* The table an insert or update works on.
TableOf(op) ==
  CASE op \in {"create advisor", "patch advisor"} -> advisors
    [] op \in {"create client", "patch client"} -> clients
    [] OTHER -> interactions

\* It is answered, by an error of the database only when a constraint or the
\* absence of a row says so.
Answers(r, with) ==
  /\ Reply(r, with) /\ with \in Replies /\ req[r].at # "done"
  /\ with = "IntegrityError" =>
       \/ At(r, "create advisor", "write") /\ req[r].email \in Range(advisors)
       \/ At(r, "create client", "write") /\ req[r].parent \notin DOMAIN advisors
       \/ At(r, "create interaction", "write") /\ req[r].parent \notin DOMAIN clients
  /\ with = "StaleDataError" =>
       \/ At(r, "patch advisor", "write") /\ req[r].row \notin DOMAIN advisors
       \/ At(r, "patch client", "write") /\ req[r].row \notin DOMAIN clients
  /\ with = "InvalidRequestError" =>
       req[r].at = "refresh" /\ req[r].row \notin DOMAIN TableOf(req[r].op)
  /\ with = "ok" => req[r].op # "patch client" \/ req[r].at = "refresh"

\* It goes on, when what it has looked up allows it to.
Proceeds(r, s) ==
  /\ Goto(r, s)
  /\ \/ /\ s = "lookup" /\ UNCHANGED tables
        /\ At(r, "create client", "get") /\ req[r].parent \in DOMAIN advisors
     \/ /\ s = "write" /\ UNCHANGED tables
        /\ \/ At(r, "patch advisor", "get") /\ req[r].row \in DOMAIN advisors
           \/ At(r, "delete advisor", "get")
           \/ At(r, "create advisor", "lookup") /\ req[r].email \notin Range(advisors)
           \/ At(r, "create client", "lookup") /\ Named(req[r].parent, req[r].name) = {}
           \/ At(r, "create interaction", "get") /\ req[r].parent \in DOMAIN clients
     \/ s = "select" /\ UNCHANGED tables /\ At(r, "list", "get")
     \/ s = "refresh" /\ UNCHANGED tables /\ At(r, "patch advisor", "write")
     \/ /\ s = "refresh" /\ At(r, "patch client", "write")
        /\ (req[r].sets = {} /\ UNCHANGED tables) \/ ClientPatched(r)

Loads(r) ==
  /\ At(r, "patch client", "get") \/ At(r, "delete client", "get")
  /\ req[r].row \in DOMAIN clients /\ UNCHANGED tables
  /\ req' = [req EXCEPT ![r].at = "write",
                        ![r].sets = Changes(clients[req[r].row], req[r])]

Adds(r, id) ==
  /\ id \in Ids
  /\ req' = [req EXCEPT ![r].at = "refresh", ![r].row = id]
  /\ \/ At(r, "create advisor", "write") /\ id \in DOMAIN advisors'
     \/ At(r, "create client", "write") /\ id \in DOMAIN clients'
     \/ At(r, "create interaction", "write") /\ id \in DOMAIN interactions'

\* How a request moves from statement to statement.
LEMMA OwnMove ==
  ASSUME BookInv, NEW r \in Requests, Post(r) \/ Step(r)
  PROVE  \/ Post(r)
         \/ \E with \in Replies : Answers(r, with)
         \/ \E s \in {"lookup", "write", "refresh", "select"} : Proceeds(r, s)
         \/ Loads(r)
         \/ \E id \in Ids : Adds(r, id)
<1> DEFINE Goal == \/ Post(r)
                   \/ \E with \in Replies : Answers(r, with)
                   \/ \E s \in {"lookup", "write", "refresh", "select"} : Proceeds(r, s)
                   \/ Loads(r)
                   \/ \E id \in Ids : Adds(r, id)
<1> SUFFICES Goal
  OBVIOUS
<1>1. ASSUME NEW with, Answers(r, with) PROVE Goal
  BY <1>1 DEF Answers
<1>2. ASSUME NEW s \in {"lookup", "write", "refresh", "select"}, Proceeds(r, s) PROVE Goal
  BY <1>2
<1>3. ASSUME NEW id, Adds(r, id) PROVE Goal
  BY <1>3 DEF Adds
<1>4. /\ "ok" \in Replies /\ "NotFound" \in Replies /\ "Conflict" \in Replies
      /\ "MultipleResultsFound" \in Replies /\ "IntegrityError" \in Replies
      /\ "StaleDataError" \in Replies /\ "InvalidRequestError" \in Replies
      /\ "DBAPIError" \in Replies
  BY DEF Replies
\* Replies that need no reason.
<1>5. ASSUME NEW with \in {"NotFound", "Conflict", "MultipleResultsFound", "DBAPIError"},
             Reply(r, with), req[r].at # "done"
      PROVE  Goal
  BY <1>1, <1>4, <1>5 DEF Answers
<1> HIDE DEF Goal
<1>6. CASE GetAdvisor(r)
  <2>1. CASE Live(advisors, req[r].row)
    <3>1. Proceeds(r, "write")
      BY <1>6, <2>1 DEF GetAdvisor, Proceeds, At, Live
    <3> QED
      BY <1>2, <3>1
  <2>2. CASE Reply(r, "NotFound")
    BY <1>5, <1>6, <2>2 DEF GetAdvisor, At
  <2> QED
    BY <1>6, <2>1, <2>2 DEF GetAdvisor
<1>7. CASE GetByEmail(r)
  <2>1. CASE req[r].email \notin Range(advisors)
    <3>1. Proceeds(r, "write")
      BY <1>7, <2>1 DEF GetByEmail, Proceeds, At
    <3> QED
      BY <1>2, <3>1
  <2>2. CASE Reply(r, "Conflict")
    BY <1>5, <1>7, <2>2 DEF GetByEmail, At
  <2> QED
    BY <1>7, <2>1, <2>2 DEF GetByEmail
<1>8. CASE CheckAdvisor(r)
  <2>1. CASE Live(advisors, req[r].parent)
    <3>1. Proceeds(r, "lookup")
      BY <1>8, <2>1 DEF CheckAdvisor, Proceeds, At, Live
    <3> QED
      BY <1>2, <3>1
  <2>2. CASE Reply(r, "NotFound")
    BY <1>5, <1>8, <2>2 DEF CheckAdvisor, At
  <2> QED
    BY <1>8, <2>1, <2>2 DEF CheckAdvisor
<1>9. CASE CheckClient(r)
  <2>1. CASE Live(clients, req[r].parent)
    <3>1. Proceeds(r, "write")
      BY <1>9, <2>1 DEF CheckClient, Proceeds, At, Live
    <3> QED
      BY <1>2, <3>1
  <2>2. CASE Reply(r, "NotFound")
    BY <1>5, <1>9, <2>2 DEF CheckClient, At
  <2> QED
    BY <1>9, <2>1, <2>2 DEF CheckClient
<1>10. CASE CheckParent(r)
  <2>1. CASE Live(advisors, req[r].parent) \/ Live(clients, req[r].parent)
    <3>1. Proceeds(r, "select")
      BY <1>10, <2>1 DEF CheckParent, Proceeds, At, Live
    <3> QED
      BY <1>2, <3>1
  <2>2. CASE Reply(r, "NotFound")
    BY <1>5, <1>10, <2>2 DEF CheckParent, At
  <2> QED
    BY <1>10, <2>1, <2>2 DEF CheckParent
<1>11. CASE GetClient(r)
  <2>1. CASE Reply(r, "NotFound")
    BY <1>5, <1>11, <2>1 DEF GetClient, At
  <2>2. CASE ~Reply(r, "NotFound")
    BY <1>11, <2>2 DEF GetClient, Loads, Live, At, Goal
  <2> QED
    BY <2>1, <2>2
<1>12. CASE FindByName(r)
  <2>1. CASE Named(req[r].parent, req[r].name) = {}
    <3>1. Proceeds(r, "write")
      BY <1>12, <2>1 DEF FindByName, Proceeds, At
    <3> QED
      BY <1>2, <3>1
  <2>2. CASE Named(req[r].parent, req[r].name) # {}
    <3>1. Reply(r, "Conflict") \/ Reply(r, "MultipleResultsFound")
      BY <1>12, <2>2 DEF FindByName
    <3> QED
      BY <1>5, <1>12, <3>1 DEF FindByName, At
  <2> QED
    BY <2>1, <2>2
<1>13. CASE Select(r) \/ RemoveAdvisor(r) \/ RemoveClient(r)
  <2>1. /\ req[r].at # "done" /\ req[r].op # "patch client"
        /\ Reply(r, "ok") \/ Reply(r, "DBAPIError")
    BY <1>13 DEF Select, RemoveAdvisor, RemoveClient, At, Committed
  <2>2. CASE Reply(r, "ok")
    BY <1>1, <1>4, <2>1, <2>2 DEF Answers
  <2> QED
    BY <1>5, <2>1, <2>2
<1>14. CASE DbFails(r)
  BY <1>5, <1>14 DEF DbFails
<1>15. CASE InsertAdvisor(r)
  <2>1. CASE Reply(r, "DBAPIError")
    BY <1>5, <1>15, <2>1 DEF InsertAdvisor, At
  <2>2. CASE req[r].email \in Range(advisors) /\ Reply(r, "IntegrityError")
    BY <1>1, <1>4, <1>15, <2>2 DEF InsertAdvisor, Answers, At
  <2>3. ASSUME NEW a \in Fresh(AdvisorIds, advisors),
               advisors' = Insert(advisors, a, req[r].email),
               req' = [req EXCEPT ![r].at = "refresh", ![r].row = a]
        PROVE  Goal
    <3>1. Adds(r, a)
      BY <1>15, <2>3 DEF InsertAdvisor, Adds, Fresh, Ids, Insert
    <3> QED
      BY <1>3, <3>1
  <2> QED
    BY <1>15, <2>1, <2>2, <2>3 DEF InsertAdvisor, Inserted
<1>16. CASE InsertClient(r)
  <2>1. CASE Reply(r, "DBAPIError")
    BY <1>5, <1>16, <2>1 DEF InsertClient, InsertClientUnchecked, At
  <2>2. CASE ~Live(advisors, req[r].parent) /\ Reply(r, "IntegrityError")
    BY <1>1, <1>4, <1>16, <2>2 DEF InsertClient, Answers, At, Live
  <2>3. ASSUME NEW c \in Fresh(ClientIds, clients), NEW row,
               clients' = Insert(clients, c, row),
               req' = [req EXCEPT ![r].at = "refresh", ![r].row = c]
        PROVE  Goal
    <3>1. Adds(r, c)
      BY <1>16, <2>3 DEF InsertClient, Adds, Fresh, Ids, Insert
    <3> QED
      BY <1>3, <3>1
  <2> QED
    BY <1>16, <2>1, <2>2, <2>3 DEF InsertClient, InsertClientUnchecked, Inserted
<1>17. CASE InsertInteraction(r)
  <2>1. CASE Reply(r, "DBAPIError")
    BY <1>5, <1>17, <2>1 DEF InsertInteraction, At
  <2>2. CASE ~Live(clients, req[r].parent) /\ Reply(r, "IntegrityError")
    BY <1>1, <1>4, <1>17, <2>2 DEF InsertInteraction, Answers, At, Live
  <2>3. ASSUME NEW i \in Fresh(InteractionIds, interactions),
               interactions' = Insert(interactions, i, req[r].parent),
               req' = [req EXCEPT ![r].at = "refresh", ![r].row = i]
        PROVE  Goal
    <3>1. Adds(r, i)
      BY <1>17, <2>3 DEF InsertInteraction, Adds, Fresh, Ids, Insert
    <3> QED
      BY <1>3, <3>1
  <2> QED
    BY <1>17, <2>1, <2>2, <2>3 DEF InsertInteraction, Inserted
<1>18. CASE UpdateAdvisor(r)
  <2>1. CASE Reply(r, "DBAPIError")
    BY <1>5, <1>18, <2>1 DEF UpdateAdvisor, At
  <2>2. CASE ~Live(advisors, req[r].row) /\ Reply(r, "StaleDataError")
    BY <1>1, <1>4, <1>18, <2>2 DEF UpdateAdvisor, Answers, At, Live
  <2>3. CASE Goto(r, "refresh")
    <3>1. Proceeds(r, "refresh")
      BY <1>18, <2>3 DEF UpdateAdvisor, Proceeds
    <3> QED
      BY <1>2, <3>1
  <2> QED
    BY <1>18, <2>1, <2>2, <2>3 DEF UpdateAdvisor, Committed
<1>19. CASE UpdateClient(r)
  <2>1. CASE Reply(r, "DBAPIError")
    BY <1>5, <1>19, <2>1 DEF UpdateClient, At
  <2>2. CASE ~Live(clients, req[r].row) /\ Reply(r, "StaleDataError")
    BY <1>1, <1>4, <1>19, <2>2 DEF UpdateClient, Answers, At, Live
  <2>3. CASE Goto(r, "refresh") /\ \/ req[r].sets = {} /\ UNCHANGED clients
                                   \/ ClientPatched(r)
    <3>1. Proceeds(r, "refresh")
      BY <1>19, <2>3 DEF UpdateClient, Proceeds, tables
    <3> QED
      BY <1>2, <3>1
  <2> QED
    BY <1>19, <2>1, <2>2, <2>3 DEF UpdateClient, Committed, ClientPatched, Live
<1>20. CASE Refresh(r)
  <2>1. /\ req[r].at = "refresh"
        /\ \/ Reply(r, "ok")
           \/ Reply(r, "InvalidRequestError") /\ req[r].row \notin DOMAIN TableOf(req[r].op)
    BY <1>20 DEF Refresh, TableOf, Live
  <2>2. CASE Reply(r, "ok")
    BY <1>1, <1>4, <2>1, <2>2 DEF Answers
  <2>3. CASE Reply(r, "InvalidRequestError") /\ req[r].row \notin DOMAIN TableOf(req[r].op)
    BY <1>1, <1>4, <2>1, <2>3 DEF Answers
  <2> QED
    BY <2>1, <2>2, <2>3
<1>21. CASE Post(r)
  BY <1>21 DEF Goal
<1> QED
  BY <1>6, <1>7, <1>8, <1>9, <1>10, <1>11, <1>12, <1>13, <1>14, <1>15, <1>16, <1>17,
     <1>18, <1>19, <1>20, <1>21
  DEF Step

\* The same in terms of the fields of the request.
LEMMA OwnFields ==
  ASSUME BookInv, NEW r \in Requests, Post(r) \/ Step(r)
  PROVE  \/ /\ req[r].at = "done" /\ UNCHANGED tables
            /\ req'[r].at \in {"lookup", "get"} /\ req'[r].reply = "none"
            /\ req'[r].at = "lookup" => req'[r].op = "create advisor"
         \/ /\ req'[r].at = "done" /\ req'[r].op = "none"
            /\ Answers(r, req'[r].reply)
         \/ /\ req'[r].op = req[r].op /\ req'[r].row = req[r].row
            /\ req'[r].parent = req[r].parent /\ req'[r].email = req[r].email
            /\ req'[r].name = req[r].name /\ req'[r].review = req[r].review
            /\ req'[r].sets = req[r].sets /\ req'[r].reply = req[r].reply
            /\ Proceeds(r, req'[r].at) /\ req[r].at # "done"
         \/ /\ Loads(r) /\ req'[r].at = "write" /\ req[r].at = "get"
            /\ req'[r].op = req[r].op /\ req'[r].row = req[r].row
            /\ req'[r].sets = Changes(clients[req[r].row], req[r])
            /\ req'[r].name = req[r].name /\ req'[r].review = req[r].review
            /\ req'[r].reply = req[r].reply
         \/ /\ Adds(r, req'[r].row) /\ req'[r].at = "refresh" /\ req[r].at = "write"
            /\ req'[r].op = req[r].op /\ req'[r].reply = req[r].reply
<1>0. TypeOK /\ RequestsOK
  BY DEF BookInv
<1>1. CASE Post(r)
  BY <1>0, <1>1, BeginOK
<1>2. ASSUME NEW with \in Replies, Answers(r, with)
      PROVE  /\ req'[r].at = "done" /\ req'[r].op = "none"
             /\ Answers(r, req'[r].reply)
  <2>1. Reply(r, with)
    BY <1>2 DEF Answers
  <2> QED
    BY <1>0, <1>2, <2>1, ReplyOK
<1>3. ASSUME NEW s \in {"lookup", "write", "refresh", "select"}, Proceeds(r, s)
      PROVE  /\ req'[r].op = req[r].op /\ req'[r].row = req[r].row
             /\ req'[r].parent = req[r].parent /\ req'[r].email = req[r].email
             /\ req'[r].name = req[r].name /\ req'[r].review = req[r].review
             /\ req'[r].sets = req[r].sets /\ req'[r].reply = req[r].reply
             /\ Proceeds(r, req'[r].at) /\ req[r].at # "done"
  <2>1. Goto(r, s) /\ req[r].at # "done"
    BY <1>3 DEF Proceeds, At, ClientPatched
  <2>2. s \in {"done", "get", "lookup", "write", "refresh", "select"}
    OBVIOUS
  <2>3. /\ req'[r].at = s /\ req'[r].op = req[r].op /\ req'[r].row = req[r].row
        /\ req'[r].parent = req[r].parent /\ req'[r].email = req[r].email
        /\ req'[r].name = req[r].name /\ req'[r].review = req[r].review
        /\ req'[r].sets = req[r].sets /\ req'[r].reply = req[r].reply
    BY <1>0, <2>1, <2>2, GotoOK
  <2> QED
    BY <1>3, <2>1, <2>3
<1>4. CASE Loads(r)
  BY <1>0, <1>4, SetsOK DEF Loads, At
<1>5. ASSUME NEW id \in Ids, Adds(r, id)
      PROVE  /\ Adds(r, req'[r].row) /\ req'[r].at = "refresh" /\ req[r].at = "write"
             /\ req'[r].op = req[r].op /\ req'[r].reply = req[r].reply
  <2>1. /\ req' = [req EXCEPT ![r].at = "refresh", ![r].row = id]
        /\ req[r].at = "write"
    BY <1>5 DEF Adds, At
  <2> QED
    BY <1>0, <1>5, <2>1, RowOK
<1> QED
  BY <1>1, <1>2, <1>3, <1>4, <1>5, OwnMove

---------------------------------------------------------------------------
(***************************************************************************)
(* Names.                                                                  *)
(***************************************************************************)

\* A name that was free stays so until the insert, or its request is crossed.
StillFree ==
  \A q \in Requests :
    At(q, "create client", "write") /\ q \notin crossed
      => Named(req[q].parent, req[q].name) = {}

\* A name that was found free stays free unless another request crosses.
LEMMA FreeStep ==
  ASSUME BookInv, StillFree, NEW r \in Requests, Post(r) \/ Step(r), Observe(r)
  PROVE  StillFree'
<1> SUFFICES ASSUME NEW q \in Requests, req'[q].op = "create client", req'[q].at = "write",
                    q \notin crossed'
             PROVE  Named(req[q].parent, req[q].name)' = {}
  BY DEF StillFree, At
<1>1. CASE q = r
  <2>1. Proceeds(r, "write") /\ req[r].op = "create client"
        /\ req'[r].parent = req[r].parent /\ req'[r].name = req[r].name
    BY <1>1, OwnFields DEF Loads, Adds, At
  <2>2. Named(req[r].parent, req[r].name) = {} /\ UNCHANGED clients
    BY <2>1 DEF Proceeds, At, tables
  <2> QED
    BY <1>1, <2>1, <2>2 DEF Named
<1>2. CASE q # r
  <2>1. req'[q] = req[q]
    BY <1>2, StepRequests DEF BookInv
  <2>2. /\ q \notin crossed
        /\ Named(req[q].parent, req[q].name)' \ Named(req[q].parent, req[q].name) = {}
    BY <2>1 DEF Observe, At
  <2> QED
    BY <2>1, <2>2 DEF StillFree, At
<1> QED
  BY <1>1, <1>2

\* A step keeps the names that were checked apart.
LEMMA NamesStep ==
  ASSUME BookInv, StillFree, NamesClashOnlyByRaceOrRename,
         NEW r \in Requests, Post(r) \/ Step(r)
  PROVE  NamesClashOnlyByRaceOrRename'
<1>0. TypeOK /\ RequestsOK /\ RowsReferToParents
  BY DEF BookInv
<1>1. CASE UNCHANGED clients
  BY <1>1 DEF NamesClashOnlyByRaceOrRename
<1>2. ASSUME NEW c \in ClientIds, ClientAdded(r, c)
      PROVE  NamesClashOnlyByRaceOrRename'
  <2>1. clients'[c].named = "checked" => Named(req[r].parent, req[r].name) = {}
    BY <1>2 DEF ClientAdded, Insert, StillFree
  <2>2. /\ DOMAIN clients' = DOMAIN clients \cup {c}
        /\ clients'[c].advisor = req[r].parent /\ clients'[c].name = req[r].name
        /\ \A x \in DOMAIN clients : clients'[x] = clients[x]
    BY <1>2 DEF ClientAdded, Insert
  <2> QED
    BY <2>1, <2>2 DEF NamesClashOnlyByRaceOrRename, Named
<1>3. CASE ClientPatched(r)
  <2> DEFINE c == req[r].row
             new == Patched(r, clients[c])
  <2>1. c \in DOMAIN clients /\ clients' = [clients EXCEPT ![c] = new]
    BY <1>3 DEF ClientPatched
  <2>2. clients[c] \in ClientRow /\ Suits(req[r])
    BY <1>0, <2>1 DEF TypeOK, RequestsOK
  <2>3. new.named = "checked" =>
          /\ clients[c].named = "checked"
          /\ new.advisor = clients[c].advisor /\ new.name = clients[c].name
    BY <2>2, PatchedIs
  <2> HIDE DEF new
  <2> QED
    BY <2>1, <2>3 DEF NamesClashOnlyByRaceOrRename
<1>4. ASSUME NEW gone, NEW a, ClientsGone(gone, a)
      PROVE  NamesClashOnlyByRaceOrRename'
  BY <1>4, RestrictIs DEF ClientsGone, DropClients, NamesClashOnlyByRaceOrRename
<1> QED
  BY <1>0, <1>1, <1>2, <1>3, <1>4, TableCases DEF tables

\* Two clients of one advisor get the same name only by a race or a PATCH.
THEOREM NamesAreChecked == Spec => []NamesClashOnlyByRaceOrRename
<1> DEFINE NamesInv == StillFree /\ NamesClashOnlyByRaceOrRename
<1>1. Init => NamesInv
  <2> SUFFICES ASSUME Init PROVE NamesInv
    OBVIOUS
  <2>1. \A q \in Requests : req[q].at = "done"
    BY DEF Init, NoRequest
  <2>2. DOMAIN clients = {}
    BY DEF Init, NoRows
  <2> QED
    BY <2>1, <2>2 DEF StillFree, NamesClashOnlyByRaceOrRename, At
<1>2. BookInv /\ NamesInv /\ [Next]_vars => NamesInv'
  <2>1. CASE UNCHANGED vars
    BY <2>1
    DEF vars, tables, history, StillFree, NamesClashOnlyByRaceOrRename, At, Named
  <2> QED
    BY <2>1, FreeStep, NamesStep DEF Next
<1> QED
  BY <1>1, <1>2, BookInvHolds, PTL DEF Spec

---------------------------------------------------------------------------
(***************************************************************************)
(* Errors.                                                                 *)
(***************************************************************************)

Unforeseen == {"IntegrityError", "StaleDataError", "InvalidRequestError"}

\* What a request has looked up holds, as long as nobody else writes.
Holds(q) ==
  /\ At(q, "create advisor", "write") => req[q].email \notin Range(advisors)
  /\ At(q, "create client", "lookup") \/ At(q, "create client", "write")
       => req[q].parent \in DOMAIN advisors
  /\ At(q, "create interaction", "write") => req[q].parent \in DOMAIN clients
  /\ At(q, "patch advisor", "write") => req[q].row \in DOMAIN advisors
  /\ At(q, "patch client", "write") => req[q].row \in DOMAIN clients
  /\ req[q].at = "refresh" => req[q].row \in DOMAIN TableOf(req[q].op)

Foreseen ==
  \A q \in Requests : q \notin disturbed => Holds(q) /\ req[q].reply \notin Unforeseen

\* A step keeps that a request nobody disturbs fails with no surprise.
LEMMA ForeseenStep ==
  ASSUME BookInv, Foreseen, NEW r \in Requests, Post(r) \/ Step(r), Observe(r)
  PROVE  Foreseen'
<1> SUFFICES ASSUME NEW q \in Requests, q \notin disturbed'
             PROVE  Holds(q)' /\ req'[q].reply \notin Unforeseen
  BY DEF Foreseen
<1>1. CASE q # r
  <2>1. req'[q] = req[q]
    BY <1>1, StepRequests DEF BookInv
  <2>2. q \notin disturbed /\ (UNCHANGED tables \/ req[q].at = "done")
    BY <1>1 DEF Observe
  <2>3. Holds(q) /\ req[q].reply \notin Unforeseen
    BY <2>2 DEF Foreseen
  <2>4. CASE UNCHANGED tables
    BY <2>1, <2>3, <2>4 DEF Holds, At, TableOf, tables
  <2>5. CASE req[q].at = "done"
    BY <2>1, <2>3, <2>5 DEF Holds, At
  <2> QED
    BY <2>2, <2>4, <2>5
<1>2. CASE q = r
  <2>1. req[r].at # "done" => Holds(r) /\ req[r].reply \notin Unforeseen
    BY <1>2 DEF Observe, Foreseen
  <2>2. CASE /\ req'[r].at \in {"lookup", "get"} /\ req'[r].reply = "none"
             /\ req'[r].at = "lookup" => req'[r].op = "create advisor"
    BY <1>2, <2>2 DEF Holds, At, Unforeseen
  <2>3. CASE req'[r].at = "done" /\ Answers(r, req'[r].reply)
    <3>1. Holds(r)
      BY <2>1, <2>3 DEF Answers
    <3>2. req'[r].reply \notin Unforeseen
      BY <2>3, <3>1 DEF Answers, Holds, Unforeseen
    <3> QED
      BY <1>2, <2>3, <3>2 DEF Holds, At
  <2>4. CASE /\ req'[r].op = req[r].op /\ req'[r].row = req[r].row
             /\ req'[r].parent = req[r].parent /\ req'[r].email = req[r].email
             /\ req'[r].reply = req[r].reply
             /\ Proceeds(r, req'[r].at) /\ req[r].at # "done"
    <3>1. Holds(r) /\ req[r].reply \notin Unforeseen
      BY <2>1, <2>4
    <3>2. CASE UNCHANGED tables /\ req'[r].at # "refresh"
      BY <1>2, <2>4, <3>1, <3>2 DEF Proceeds, Holds, At, tables
    <3>3. CASE UNCHANGED tables /\ req'[r].at = "refresh"
      <4>1. req[r].row \in DOMAIN TableOf(req[r].op)
        BY <2>4, <3>1, <3>3 DEF Proceeds, Holds, At, TableOf, ClientPatched
      <4> QED
        BY <1>2, <2>4, <3>1, <3>3, <4>1 DEF Holds, At, TableOf, tables
    <3>4. CASE req'[r].at = "refresh" /\ ClientPatched(r)
      <4>1. /\ req[r].op = "patch client" /\ req[r].row \in DOMAIN clients
            /\ DOMAIN clients' = DOMAIN clients
        BY <3>4 DEF ClientPatched, At
      <4> QED
        BY <1>2, <2>4, <3>1, <3>4, <4>1 DEF Holds, At, TableOf
    <3> QED
      BY <2>4, <3>2, <3>3, <3>4 DEF Proceeds
  <2>5. CASE /\ Loads(r) /\ req'[r].at = "write" /\ req[r].at = "get"
             /\ req'[r].op = req[r].op /\ req'[r].row = req[r].row
             /\ req'[r].reply = req[r].reply
    BY <1>2, <2>1, <2>5 DEF Loads, Holds, At, tables
  <2>6. CASE /\ Adds(r, req'[r].row) /\ req'[r].at = "refresh" /\ req[r].at = "write"
             /\ req'[r].op = req[r].op /\ req'[r].reply = req[r].reply
    BY <1>2, <2>1, <2>6 DEF Adds, Holds, At, TableOf
  <2> QED
    BY <2>2, <2>3, <2>4, <2>5, <2>6, OwnFields
<1> QED
  BY <1>1, <1>2

\* A request that nobody else's write came between fails with a 500 for a
\* database error or an ambiguous name only.
THEOREM ErrorsAreForeseen == Spec => []ErrorsNeedAnotherWriter
<1>1. Init => Foreseen
  <2> SUFFICES ASSUME Init PROVE Foreseen
    OBVIOUS
  <2>1. \A q \in Requests : req[q].at = "done" /\ req[q].reply = "none"
    BY DEF Init, NoRequest
  <2> QED
    BY <2>1 DEF Foreseen, Holds, At, Unforeseen
<1>2. BookInv /\ Foreseen /\ [Next]_vars => Foreseen'
  <2>1. CASE UNCHANGED vars
    BY <2>1 DEF vars, tables, history, Foreseen, Holds, At, TableOf
  <2> QED
    BY <2>1, ForeseenStep DEF Next
<1>3. BookInv /\ Foreseen => ErrorsNeedAnotherWriter
  <2> SUFFICES ASSUME BookInv, Foreseen, NEW r \in Requests,
                      HttpStatus(req[r].reply) = 500, r \notin disturbed
               PROVE  req[r].reply \in {"DBAPIError", "MultipleResultsFound"}
    BY DEF ErrorsNeedAnotherWriter
  <2>1. req[r].reply \in Replies /\ req[r].reply \notin Unforeseen
    BY DEF BookInv, TypeOK, Request, Foreseen
  <2>2. req[r].reply \notin {"none", "ok", "NotFound", "Conflict"}
    BY DEF HttpStatus
  <2> QED
    BY <2>1, <2>2 DEF Replies, Unforeseen
<1> QED
  BY <1>1, <1>2, <1>3, BookInvHolds, PTL DEF Spec

---------------------------------------------------------------------------
(***************************************************************************)
(* The effect of a PATCH.                                                  *)
(***************************************************************************)

\* After the load only the columns to set are owed, after the UPDATE none.
Pays(q) ==
  /\ req[q].at # "done" => req[q].reply = "none"
  /\ req[q].at # "done" /\ req[q].op # "patch client" => owed[q] = {}
  /\ At(q, "patch client", "write") => owed[q] \subseteq req[q].sets
  /\ At(q, "patch client", "refresh") => owed[q] = {}
  /\ req[q].reply = "ok" => owed[q] = {}

EffectInv == \A q \in Requests : Pays(q)

\* A step keeps that a PATCH owes less and less, and nothing once its
\* UPDATE is made.
LEMMA EffectStep ==
  ASSUME BookInv, EffectInv, NEW r \in Requests, Post(r) \/ Step(r), Observe(r)
  PROVE  EffectInv'
<1> SUFFICES ASSUME NEW q \in Requests
             PROVE  Pays(q)'
  BY DEF EffectInv
<1>0. Pays(q) /\ TypeOK /\ RequestsOK
  BY DEF EffectInv, BookInv
<1>1. CASE q # r
  <2>1. req'[q] = req[q]
    BY <1>1, StepRequests DEF BookInv
  <2>2. owed'[q] = owed[q] \/ owed'[q] = owed[q] \cap Lacking(q)
    BY <1>1 DEF Observe
  <2> QED
    BY <1>0, <2>1, <2>2 DEF Pays, At
<1>2. CASE q = r
  <2>1. owed'[r] = IF req[r].at = "done" THEN Lacking(r)
                   ELSE IF req'[r].at = "done" THEN owed[r] ELSE owed[r] \cap Lacking(r)
    BY DEF Observe
  <2>2. CASE /\ req[r].at = "done" /\ req'[r].at \in {"lookup", "get"}
             /\ req'[r].reply = "none"
    <3>1. req'[r].op # "patch client" => Lacking(r) = {}
      BY DEF Lacking
    <3> QED
      BY <1>2, <2>1, <2>2, <3>1 DEF Pays, At
  <2>3. CASE req'[r].at = "done" /\ Answers(r, req'[r].reply)
    <3>1. /\ req[r].at # "done" /\ owed'[r] = owed[r]
          /\ req'[r].reply = "ok" => req[r].op # "patch client" \/ req[r].at = "refresh"
      BY <2>1, <2>3 DEF Answers
    <3> QED
      BY <1>0, <1>2, <2>3, <3>1 DEF Pays, At
  <2>4. CASE /\ req'[r].op = req[r].op /\ req'[r].row = req[r].row
             /\ req'[r].name = req[r].name /\ req'[r].review = req[r].review
             /\ req'[r].reply = req[r].reply
             /\ Proceeds(r, req'[r].at) /\ req[r].at # "done"
    <3>1. owed'[r] \subseteq owed[r] /\ req'[r].reply = "none"
      BY <1>0, <1>2, <2>1, <2>4 DEF Pays
    <3>2. CASE req[r].op # "patch client"
      BY <1>0, <1>2, <2>4, <3>1, <3>2 DEF Pays, At
    <3>3. CASE req[r].op = "patch client"
      <4>1. /\ req'[r].at = "refresh" /\ req[r].at = "write"
            /\ req[r].sets = {} \/ ClientPatched(r)
        BY <2>4, <3>3 DEF Proceeds, At
      <4>2. owed[r] \subseteq req[r].sets
        BY <1>0, <1>2, <3>3, <4>1 DEF Pays, At
      <4>3. CASE req[r].sets = {}
        BY <1>2, <3>1, <4>1, <4>2, <4>3 DEF Pays, At
      <4>4. CASE ClientPatched(r)
        <5> DEFINE c == req[r].row
                   new == Patched(r, clients[c])
        <5>1. c \in DOMAIN clients /\ clients' = [clients EXCEPT ![c] = new]
          BY <4>4 DEF ClientPatched
        <5>2. clients[c] \in ClientRow /\ Suits(req[r])
          BY <1>0, <5>1 DEF TypeOK, RequestsOK
        <5>3. /\ "name" \in req[r].sets => new.name = req[r].name
              /\ "review" \in req[r].sets => new.review = req[r].review
          BY <5>2, PatchedIs
        <5> HIDE DEF new
        <5>4. clients'[c] = new /\ c \in DOMAIN clients'
          BY <5>1
        <5>5. \A f \in owed[r] : f \notin Lacking(r)
          BY <1>0, <2>4, <4>2, <5>3, <5>4 DEF Lacking, Live, TypeOK, Fields
        <5>6. owed'[r] = owed[r] \cap Lacking(r)
          BY <2>1, <2>4, <4>1
        <5>7. owed'[r] = {}
          BY <5>5, <5>6
        <5> QED
          BY <1>2, <3>1, <4>1, <5>7 DEF Pays, At
      <4> QED
        BY <4>1, <4>3, <4>4
    <3> QED
      BY <3>2, <3>3
  <2>5. CASE /\ Loads(r) /\ req'[r].at = "write" /\ req[r].at = "get"
             /\ req'[r].op = req[r].op /\ req'[r].row = req[r].row
             /\ req'[r].sets = Changes(clients[req[r].row], req[r])
             /\ req'[r].name = req[r].name /\ req'[r].review = req[r].review
             /\ req'[r].reply = req[r].reply
    <3>1. owed'[r] = owed[r] \cap Lacking(r) /\ req'[r].reply = "none"
      BY <1>0, <1>2, <2>1, <2>5 DEF Pays
    <3>2. req[r].op = "patch client" => Lacking(r) \subseteq req'[r].sets
      <4> SUFFICES ASSUME req[r].op = "patch client", NEW f \in Lacking(r)
                   PROVE  f \in req'[r].sets
        OBVIOUS
      <4>1. clients' = clients /\ req[r].row \in DOMAIN clients
        BY <2>5 DEF Loads, tables
      <4>2. f \in Fields /\ req'[r][f] # Unset /\ clients[req[r].row][f] # req'[r][f]
        BY <2>5, <4>1 DEF Lacking, Live
      <4>3. req'[r][f] = req[r][f]
        BY <2>5, <4>2 DEF Fields
      <4> QED
        BY <2>5, <4>2, <4>3 DEF Changes
    <3> QED
      BY <1>0, <1>2, <2>5, <3>1, <3>2 DEF Pays, At
  <2>6. CASE /\ Adds(r, req'[r].row) /\ req'[r].at = "refresh" /\ req[r].at = "write"
             /\ req'[r].op = req[r].op /\ req'[r].reply = req[r].reply
    <3>1. req[r].op # "patch client"
      BY <2>6 DEF Adds, At
    <3> QED
      BY <1>0, <1>2, <2>1, <2>6, <3>1 DEF Pays, At
  <2> QED
    BY <2>2, <2>3, <2>4, <2>5, <2>6, OwnFields
<1> QED
  BY <1>1, <1>2

\* What a PATCH that is answered with 200 asked for has been in the table.
THEOREM PatchesTakeEffect == Spec => []PatchTookEffect
<1>1. Init => EffectInv
  <2> SUFFICES ASSUME Init PROVE EffectInv
    OBVIOUS
  <2>1. \A q \in Requests : req[q].at = "done" /\ req[q].reply = "none"
    BY DEF Init, NoRequest
  <2> QED
    BY <2>1 DEF EffectInv, Pays, At
<1>2. BookInv /\ EffectInv /\ [Next]_vars => EffectInv'
  <2>1. CASE UNCHANGED vars
    BY <2>1 DEF vars, history, EffectInv, Pays, At
  <2> QED
    BY <2>1, EffectStep DEF Next
<1>3. EffectInv => PatchTookEffect
  BY DEF EffectInv, Pays, PatchTookEffect
<1> QED
  BY <1>1, <1>2, <1>3, BookInvHolds, PTL DEF Spec
===========================================================================
