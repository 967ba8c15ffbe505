------------------------- MODULE DraftReview_proofs -----------------------
(***************************************************************************)
(* Proofs about DraftReview, for any sets of clients and faults and any    *)
(* numbers of drafts, screens, pending launches and mails.                 *)
(***************************************************************************)
EXTENDS DraftReview, DraftStore_proofs, FiniteSetTheorems, TLAPS

\* The calls of a send that screen s has under way, or the resume it waits for.
UnderWay(x) ==
  x.checking + (IF x.waitingForResume THEN 1 ELSE 0) + x.asking + x.patching

\* A screen is in order: one send at a time, which isSending shows.
Orderly(x) ==
  /\ UnderWay(x) <= 1
  /\ UnderWay(x) = 1 => x.isSending

AllOrderly == \A s \in DOMAIN screens : Orderly(screens[s])

ReviewInv == TypeOK /\ AllOrderly

---------------------------------------------------------------------------
(***************************************************************************)
(* Steps on the screens.                                                   *)
(***************************************************************************)

\* A screen stays the screen of its draft, and keeps that its mail was sent.
Continues(x, y) == y.draft = x.draft /\ (x.mailed => y.mailed)

\* A step that changes one screen in an orderly way keeps the invariant.
LEMMA OneScreen ==
  ASSUME ReviewInv, NEW s \in DOMAIN screens, NEW new \in Screen,
         screens' = [screens EXCEPT ![s] = new],
         Orderly(new), Continues(screens[s], new)
  PROVE  /\ screens' \in Seq(Screen) /\ Len(screens') = Len(screens)
         /\ DOMAIN screens' = DOMAIN screens
         /\ AllOrderly'
         /\ \A r \in DOMAIN screens : Continues(screens[r], screens'[r])
<1>1. screens \in Seq(Screen) /\ DOMAIN screens = 1..Len(screens) /\ Len(screens) \in Nat
  BY DEF ReviewInv, TypeOK
<1>2. /\ screens' \in Seq(Screen) /\ Len(screens') = Len(screens)
      /\ DOMAIN screens' = DOMAIN screens
      /\ screens'[s] = new
      /\ \A r \in DOMAIN screens \ {s} : screens'[r] = screens[r]
  BY <1>1
<1>3. AllOrderly'
  BY <1>2 DEF ReviewInv, AllOrderly
<1>4. \A r \in DOMAIN screens : Continues(screens[r], screens'[r])
  BY <1>2 DEF Continues
<1> QED
  BY <1>2, <1>3, <1>4

\* While the rows stay as they are, screens that continue keep the rest of the
\* invariant.
LEMMA ScreensContinue ==
  ASSUME ReviewInv, UNCHANGED <<clients, drafts, failures>>,
         inbox' \in {"loading", "error", "data"}, home' \in BOOLEAN,
         listed' \subseteq DOMAIN drafts, listed' # {} => inbox' = "data",
         screens' \in Seq(Screen), DOMAIN screens' = DOMAIN screens,
         AllOrderly',
         \A r \in DOMAIN screens : Continues(screens[r], screens'[r]),
         mail' \in 0..Len(screens'), mails' \in Nat, mailSent' \in BOOLEAN
  PROVE  ReviewInv'
<1>1. TypeOK'
  BY DEF ReviewInv, TypeOK, StoreTypeOK, Continues
<1> QED
  BY <1>1 DEF ReviewInv

\* PATCH .../status "sent" of the draft of a screen: no other draft changes.
LEMMA MarkKeeps ==
  ASSUME ReviewInv, NEW s \in DOMAIN screens,
         MarkRow(screens[s].draft) \/ UNCHANGED storeVars
  PROVE  /\ StoreTypeOK' /\ DOMAIN drafts' = DOMAIN drafts
         /\ SentDrafts' \subseteq SentDrafts \cup {screens[s].draft}
<1> DEFINE d0 == screens[s].draft
<1>1. d0 \in DOMAIN drafts /\ StoreTypeOK
  BY DEF ReviewInv, TypeOK
<1>2. CASE UpdateStatus(d0, "sent")
  <2>1. StoreTypeOK'
    BY <1>1, <1>2, StoreTypes
  <2>2. /\ DOMAIN drafts' = DOMAIN drafts
        /\ \A e \in DOMAIN drafts \ {d0} : drafts'[e].status = drafts[e].status
    BY <1>1, <1>2, UpdateChangesRow
  <2> QED
    BY <2>1, <2>2 DEF SentDrafts
<1>3. CASE UNCHANGED storeVars
  BY <1>1, <1>3 DEF storeVars, StoreTypeOK, SentDrafts
<1> QED
  BY <1>2, <1>3 DEF MarkRow

---------------------------------------------------------------------------
\* The inductive step.
LEMMA ReviewStep == ReviewInv /\ [Next]_vars => ReviewInv'
<1> SUFFICES ASSUME ReviewInv, [Next]_vars
             PROVE  ReviewInv'
  OBVIOUS
<1>0. /\ screens \in Seq(Screen) /\ Len(screens) \in Nat /\ DOMAIN screens = 1..Len(screens)
      /\ mail \in 0..Len(screens)
      /\ \A s \in DOMAIN screens : screens[s] \in Screen /\ Orderly(screens[s])
      /\ inbox \in {"loading", "error", "data"} /\ home \in BOOLEAN
      /\ listed \subseteq DOMAIN drafts /\ (listed # {} => inbox = "data")
      /\ StoreTypeOK
      /\ mails \in Nat /\ mailSent \in BOOLEAN
  BY DEF ReviewInv, TypeOK, AllOrderly
<1>m. mails' \in Nat /\ mailSent' \in BOOLEAN
  <2>1. CASE Backend \/ List \/ OpenDraft \/ Resumed \/ UNCHANGED vars
    BY <1>0, <2>1
    DEF vars, advisorVars, Backend, NewDraft, RemoveClient, List, Reload, ShowPending,
        LoadFails, OpenDraft, Resumed
  <2>2. CASE SubmitMail
    BY <1>0, <2>2 DEF SubmitMail
  <2>3. ASSUME NEW s \in DOMAIN screens, ApproveAndSend(s)
        PROVE  mails' \in Nat /\ mailSent' \in BOOLEAN
    BY <1>0, <2>3 DEF ApproveAndSend
  <2>4. ASSUME NEW s \in DOMAIN screens, ~ApproveAndSend(s),
               Navigate(s) \/ Send(s) \/ Confirm(s) \/ Patch(s)
        PROVE  mails' \in Nat /\ mailSent' \in BOOLEAN
    <3>1. UNCHANGED advisorVars
      BY <2>4
      DEF Navigate, Back, Dispose, Send, CannotLaunch, LaunchMail, MailOpens, Confirm,
          AnswerNo, AnswerYes, Patch, PatchSucceeds, PatchFails
    <3> QED
      BY <1>0, <3>1 DEF advisorVars
  <2> QED
    BY <2>1, <2>2, <2>3, <2>4 DEF Next
\* A step of one screen that leaves the rows alone.
<1>a. ASSUME NEW s \in DOMAIN screens, NEW new \in Screen,
             screens' = [screens EXCEPT ![s] = new],
             Orderly(new), Continues(screens[s], new),
             UNCHANGED <<clients, drafts, failures, inbox, listed>>,
             home' \in BOOLEAN, mail' \in 0..Len(screens)
      PROVE  ReviewInv'
  <2>1. /\ screens' \in Seq(Screen) /\ Len(screens') = Len(screens)
        /\ DOMAIN screens' = DOMAIN screens /\ AllOrderly'
        /\ \A r \in DOMAIN screens : Continues(screens[r], screens'[r])
    BY <1>a, OneScreen
  <2> QED
    BY <1>0, <1>m, <1>a, <2>1, ScreensContinue
\* A step that leaves the screens alone.
<1>b. ASSUME UNCHANGED <<clients, drafts, failures, screens>>,
             inbox' \in {"loading", "error", "data"}, home' \in BOOLEAN,
             listed' \subseteq DOMAIN drafts, listed' # {} => inbox' = "data",
             mail' \in 0..Len(screens)
      PROVE  ReviewInv'
  <2>1. AllOrderly' /\ \A r \in DOMAIN screens : Continues(screens[r], screens'[r])
    BY <1>b DEF ReviewInv, AllOrderly, Continues
  <2> QED
    BY <1>0, <1>m, <1>b, <2>1, ScreensContinue
<1>1. CASE NewDraft
  <2>1. PICK c \in Clients : InsertDraft(c, 0)
    BY <1>1 DEF NewDraft
  <2>2. StoreTypeOK'
    BY <1>0, <2>1, StoreTypes
  <2>n. 0 \in Nat
    OBVIOUS
  <2>r. /\ DOMAIN drafts' = DOMAIN drafts \cup {Len(drafts) + 1}
        /\ \A d \in DOMAIN drafts : drafts'[d] = drafts[d]
        /\ drafts'[Len(drafts) + 1] = [client |-> c, msg |-> 0, status |-> "pending"]
    BY <1>0, <2>1, <2>n, InsertAddsRow
  <2>3. /\ DOMAIN drafts' = DOMAIN drafts \cup {Len(drafts) + 1}
        /\ \A d \in DOMAIN drafts : drafts'[d] = drafts[d]
        /\ drafts'[Len(drafts) + 1].status = "pending"
    BY <2>r
  <2>4. UNCHANGED <<inbox, listed, home, screens, mail>>
    BY <1>1 DEF NewDraft, appVars
  <2>5. TypeOK'
    BY <1>m, <2>2, <2>3, <2>4 DEF ReviewInv, TypeOK
  <2> QED
    BY <2>4, <2>5 DEF ReviewInv, AllOrderly
<1>2. CASE RemoveClient
  <2>1. PICK c \in Clients : DeleteClient(c)
    BY <1>2 DEF RemoveClient
  <2>2. StoreTypeOK'
    BY <1>0, <2>1, StoreTypes
  <2>3. /\ DOMAIN drafts' = DOMAIN drafts
        /\ \A d \in DOMAIN drafts : drafts'[d].status \in {"deleted", drafts[d].status}
    BY <1>0, <2>1, DeleteCascades
  <2>4. UNCHANGED <<inbox, listed, home, screens, mail>>
    BY <1>2 DEF RemoveClient, appVars
  <2>5. TypeOK'
    BY <1>m, <2>2, <2>3, <2>4 DEF ReviewInv, TypeOK
  <2> QED
    BY <2>4, <2>5 DEF ReviewInv, AllOrderly
<1>3. CASE List
  <2>1. CASE Reload
    BY <1>0, <1>b, <2>1 DEF Reload, storeVars
  <2>2. CASE ShowPending
    <3>1. listed' \subseteq DOMAIN drafts
      BY <2>2 DEF ShowPending, Pending
    <3> QED
      BY <1>0, <1>b, <2>2, <3>1 DEF ShowPending, storeVars
  <2>3. CASE LoadFails
    BY <1>0, <1>b, <2>3 DEF LoadFails, storeVars
  <2> QED
    BY <1>3, <2>1, <2>2, <2>3 DEF List
<1>4. CASE OpenDraft
  <2>1. PICK d \in listed :
          screens' = Append(screens,
            [draft |-> d, route |-> "open", isSending |-> FALSE,
             waitingForResume |-> FALSE, checking |-> 0, launching |-> 0,
             asking |-> 0, patching |-> 0, mailed |-> FALSE])
    BY <1>4 DEF OpenDraft
  <2> DEFINE new == [draft |-> d, route |-> "open", isSending |-> FALSE,
                     waitingForResume |-> FALSE, checking |-> 0, launching |-> 0,
                     asking |-> 0, patching |-> 0, mailed |-> FALSE]
  <2>2. d \in DOMAIN drafts /\ d \in Nat
    BY <1>0 DEF StoreTypeOK
  <2>3. new \in Screen
    BY <2>2 DEF Screen
  <2>4. new.draft = d /\ Orderly(new)
    BY DEF Orderly, UnderWay
  <2> HIDE DEF new
  <2>5. /\ screens' \in Seq(Screen) /\ Len(screens') = Len(screens) + 1
        /\ DOMAIN screens' = 1..(Len(screens) + 1)
        /\ screens'[Len(screens) + 1] = new
        /\ \A s \in DOMAIN screens : screens'[s] = screens[s]
    BY <1>0, <2>1, <2>3 DEF new
  <2>6. UNCHANGED <<clients, drafts, failures, inbox, listed, home, mail>>
    BY <1>4 DEF OpenDraft, storeVars
  <2>7. TypeOK'
    BY <1>0, <1>m, <2>2, <2>4, <2>5, <2>6 DEF ReviewInv, TypeOK, StoreTypeOK
  <2>8. AllOrderly'
    BY <1>0, <2>4, <2>5 DEF AllOrderly
  <2> QED
    BY <2>7, <2>8 DEF ReviewInv
<1>5. CASE SubmitMail
  <2> DEFINE new == [screens[mail] EXCEPT !.mailed = TRUE]
  <2>1. mail \in DOMAIN screens /\ screens[mail] \in Screen /\ Orderly(screens[mail])
    BY <1>0, <1>5 DEF SubmitMail
  <2>2. /\ screens' = [screens EXCEPT ![mail] = new]
        /\ UNCHANGED <<clients, drafts, failures, inbox, listed, home, mail>>
    BY <1>5 DEF SubmitMail, storeVars
  <2>3. new \in Screen /\ Orderly(new) /\ Continues(screens[mail], new)
    BY <2>1 DEF Screen, Orderly, UnderWay, Continues
  <2> QED
    BY <1>0, <1>a, <2>1, <2>2, <2>3
<1>6. CASE Resumed
  <2>1. \A s \in DOMAIN screens :
          /\ screens'[s] = IF Asks(s)
                           THEN [screens[s] EXCEPT !.waitingForResume = FALSE,
                                                   !.asking = screens[s].asking + 1]
                           ELSE screens[s]
    BY <1>6 DEF Resumed
  <2>2. /\ DOMAIN screens' = DOMAIN screens
        /\ mail' = 0 /\ UNCHANGED <<clients, drafts, failures, inbox, listed, home>>
    BY <1>6 DEF Resumed, storeVars
  <2>3. ASSUME NEW s \in DOMAIN screens
        PROVE  /\ screens'[s] \in Screen /\ Orderly(screens'[s])
               /\ Continues(screens[s], screens'[s])
    <3> DEFINE new == [screens[s] EXCEPT !.waitingForResume = FALSE,
                                         !.asking = screens[s].asking + 1]
    <3>1. screens[s] \in Screen /\ Orderly(screens[s])
      BY <1>0
    <3>2. CASE Asks(s)
      <4>1. screens[s].waitingForResume
        BY <3>2 DEF Asks
      <4> DEFINE x == screens[s]
      <4>n. x.asking + 1 \in Nat
        BY <3>1 DEF Screen
      <4>2. new \in Screen
        BY <3>1, <4>n, Zenon DEF Screen
      <4>d. new.draft = x.draft /\ new.isSending = x.isSending /\ new.mailed = x.mailed
        BY <3>1 DEF Screen
      <4>e. /\ new.waitingForResume = FALSE /\ new.checking = x.checking
            /\ new.asking = x.asking + 1 /\ new.patching = x.patching
        BY <3>1 DEF Screen
      <4>c. x.checking \in Nat /\ x.asking \in Nat /\ x.patching \in Nat
        BY <3>1 DEF Screen
      <4>3. screens'[s] = new
        BY <2>1, <3>2
      <4> HIDE DEF new
      <4>4. Orderly(new) /\ Continues(x, new)
        BY <3>1, <4>1, <4>2, <4>c, <4>d, <4>e DEF Orderly, UnderWay, Continues
      <4> QED
        BY <4>2, <4>3, <4>4
    <3>3. CASE ~Asks(s)
      BY <2>1, <3>1, <3>3 DEF Continues
    <3> QED
      BY <3>2, <3>3
  <2>4. screens' = [s \in DOMAIN screens |-> screens'[s]]
    BY <1>6 DEF Resumed
  <2>5. screens' \in Seq(Screen) /\ Len(screens') = Len(screens)
    BY <1>0, <2>3, <2>4
  <2>6. AllOrderly'
    BY <2>2, <2>3 DEF AllOrderly
  <2> QED
    BY <1>0, <1>m, <2>2, <2>3, <2>5, <2>6, ScreensContinue
<1>7. ASSUME NEW s \in DOMAIN screens, Navigate(s) \/ Send(s) \/ Confirm(s)
      PROVE  ReviewInv'
  <2> DEFINE x == screens[s]
  <2>0. x \in Screen /\ Orderly(x)
    BY <1>0
  <2>c. /\ x.checking \in Nat /\ x.asking \in Nat /\ x.patching \in Nat
        /\ x.launching \in Nat
    BY <2>0 DEF Screen
  <2> HIDE DEF x
  <2>1. UNCHANGED <<clients, drafts, failures, inbox, listed, home>> /\ mail' \in {mail, s, 0}
    BY <1>7
    DEF Navigate, Back, Dispose, Send, ApproveAndSend, CannotLaunch, LaunchMail,
        MailOpens, Confirm, AnswerNo, AnswerYes, storeVars
  <2>2. \E new \in Screen :
          /\ screens' = [screens EXCEPT ![s] = new]
          /\ Orderly(new) /\ Continues(x, new)
    <3>1. CASE Navigate(s)
      <4>1. PICK r \in {"leaving", "gone"} : screens' = [screens EXCEPT ![s].route = r]
        BY <3>1 DEF Navigate, Back, Dispose
      <4> DEFINE new == [x EXCEPT !.route = r]
      <4>2. screens' = [screens EXCEPT ![s] = new]
        BY <4>1 DEF x
      <4>n. x.checking + 1 \in Nat
        BY <2>c
      <4>3. new \in Screen
        BY <2>0, <4>n, Zenon DEF Screen
      <4>d. new.draft = x.draft /\ new.isSending = x.isSending /\ new.mailed = x.mailed
        BY <2>0 DEF Screen
      <4>e. /\ new.waitingForResume = x.waitingForResume /\ new.checking = x.checking
            /\ new.asking = x.asking /\ new.patching = x.patching
        BY <2>0 DEF Screen
      <4> HIDE DEF new
      <4>4. Orderly(new) /\ Continues(x, new)
        BY <2>0, <4>3, <2>c, <4>d, <4>e DEF Orderly, UnderWay, Continues
      <4> QED
        BY <4>2, <4>3, <4>4
    <3>2. CASE ApproveAndSend(s)
      <4> DEFINE new == [x EXCEPT !.isSending = TRUE, !.checking = x.checking + 1]
      <4>1. ~x.isSending
        BY <3>2 DEF ApproveAndSend, x
      <4>2. screens' = [screens EXCEPT ![s] = new]
        BY <3>2 DEF ApproveAndSend, x
      <4>n. x.checking + 1 \in Nat
        BY <2>c
      <4>3. new \in Screen
        BY <2>0, <4>n, Zenon DEF Screen
      <4>d. new.draft = x.draft /\ new.isSending = TRUE /\ new.mailed = x.mailed
        BY <2>0, <4>1 DEF Screen
      <4>e. /\ new.waitingForResume = x.waitingForResume /\ new.checking = x.checking + 1
            /\ new.asking = x.asking /\ new.patching = x.patching
        BY <2>0, <4>1 DEF Screen
      <4> HIDE DEF new
      <4>4. Orderly(new) /\ Continues(x, new)
        BY <2>0, <4>1, <4>3, <2>c, <4>d, <4>e DEF Orderly, UnderWay, Continues
      <4> QED
        BY <4>2, <4>3, <4>4
    <3>3. CASE CannotLaunch(s)
      <4> DEFINE new == [x EXCEPT !.checking = x.checking - 1, !.isSending = FALSE]
      <4>1. x.checking > 0
        BY <3>3 DEF CannotLaunch, x
      <4>2. screens' = [screens EXCEPT ![s] = new]
        BY <3>3 DEF CannotLaunch, x
      <4>n. x.checking - 1 \in Nat
        BY <2>c, <4>1
      <4>3. new \in Screen
        BY <2>0, <4>n, Zenon DEF Screen
      <4>d. new.draft = x.draft /\ new.isSending = FALSE /\ new.mailed = x.mailed
        BY <2>0, <4>1 DEF Screen
      <4>e. /\ new.waitingForResume = x.waitingForResume /\ new.checking = x.checking - 1
            /\ new.asking = x.asking /\ new.patching = x.patching
        BY <2>0, <4>1 DEF Screen
      <4> HIDE DEF new
      <4>4. Orderly(new) /\ Continues(x, new)
        BY <2>0, <4>1, <4>3, <2>c, <4>d, <4>e DEF Orderly, UnderWay, Continues
      <4> QED
        BY <4>2, <4>3, <4>4
    <3>4. CASE LaunchMail(s)
      <4> DEFINE new == [x EXCEPT !.checking = x.checking - 1,
                                  !.launching = x.launching + 1,
                                  !.waitingForResume = TRUE]
      <4>1. x.checking > 0
        BY <3>4 DEF LaunchMail, x
      <4>2. screens' = [screens EXCEPT ![s] = new]
        BY <3>4 DEF LaunchMail, x
      <4>n. x.checking - 1 \in Nat /\ x.launching + 1 \in Nat
        BY <2>c, <4>1
      <4>3. new \in Screen
        BY <2>0, <4>n, Zenon DEF Screen
      <4>d. new.draft = x.draft /\ new.isSending = x.isSending /\ new.mailed = x.mailed
        BY <2>0, <4>1 DEF Screen
      <4>e. /\ new.waitingForResume = TRUE /\ new.checking = x.checking - 1
            /\ new.asking = x.asking /\ new.patching = x.patching
        BY <2>0, <4>1 DEF Screen
      <4> HIDE DEF new
      <4>4. Orderly(new) /\ Continues(x, new)
        BY <2>0, <4>1, <4>3, <2>c, <4>d, <4>e DEF Orderly, UnderWay, Continues
      <4> QED
        BY <4>2, <4>3, <4>4
    <3>5. CASE MailOpens(s)
      <4> DEFINE new == [x EXCEPT !.launching = x.launching - 1]
      <4>1. x.launching > 0
        BY <3>5 DEF MailOpens, x
      <4>2. screens' = [screens EXCEPT ![s] = new]
        BY <3>5 DEF MailOpens, x
      <4>n. x.launching - 1 \in Nat
        BY <2>c, <4>1
      <4>3. new \in Screen
        BY <2>0, <4>n, Zenon DEF Screen
      <4>d. new.draft = x.draft /\ new.isSending = x.isSending /\ new.mailed = x.mailed
        BY <2>0, <4>1 DEF Screen
      <4>e. /\ new.waitingForResume = x.waitingForResume /\ new.checking = x.checking
            /\ new.asking = x.asking /\ new.patching = x.patching
        BY <2>0, <4>1 DEF Screen
      <4> HIDE DEF new
      <4>4. Orderly(new) /\ Continues(x, new)
        BY <2>0, <4>1, <4>3, <2>c, <4>d, <4>e DEF Orderly, UnderWay, Continues
      <4> QED
        BY <4>2, <4>3, <4>4
    <3>6. CASE AnswerNo(s)
      <4> DEFINE new == [x EXCEPT !.asking = x.asking - 1, !.isSending = FALSE]
      <4>1. x.asking > 0
        BY <3>6 DEF AnswerNo, x
      <4>2. screens' = [screens EXCEPT ![s] = new]
        BY <3>6 DEF AnswerNo, x
      <4>n. x.asking - 1 \in Nat
        BY <2>c, <4>1
      <4>3. new \in Screen
        BY <2>0, <4>n, Zenon DEF Screen
      <4>d. new.draft = x.draft /\ new.isSending = FALSE /\ new.mailed = x.mailed
        BY <2>0, <4>1 DEF Screen
      <4>e. /\ new.waitingForResume = x.waitingForResume /\ new.checking = x.checking
            /\ new.asking = x.asking - 1 /\ new.patching = x.patching
        BY <2>0, <4>1 DEF Screen
      <4> HIDE DEF new
      <4>4. Orderly(new) /\ Continues(x, new)
        BY <2>0, <4>1, <4>3, <2>c, <4>d, <4>e DEF Orderly, UnderWay, Continues
      <4> QED
        BY <4>2, <4>3, <4>4
    <3>7. CASE AnswerYes(s)
      <4> DEFINE new == [x EXCEPT !.asking = x.asking - 1, !.patching = x.patching + 1]
      <4>1. x.asking > 0
        BY <3>7 DEF AnswerYes, x
      <4>2. screens' = [screens EXCEPT ![s] = new]
        BY <3>7 DEF AnswerYes, x
      <4>n. x.asking - 1 \in Nat /\ x.patching + 1 \in Nat
        BY <2>c, <4>1
      <4>3. new \in Screen
        BY <2>0, <4>n, Zenon DEF Screen
      <4>d. new.draft = x.draft /\ new.isSending = x.isSending /\ new.mailed = x.mailed
        BY <2>0, <4>1 DEF Screen
      <4>e. /\ new.waitingForResume = x.waitingForResume /\ new.checking = x.checking
            /\ new.asking = x.asking - 1 /\ new.patching = x.patching + 1
        BY <2>0, <4>1 DEF Screen
      <4> HIDE DEF new
      <4>4. Orderly(new) /\ Continues(x, new)
        BY <2>0, <4>1, <4>3, <2>c, <4>d, <4>e DEF Orderly, UnderWay, Continues
      <4> QED
        BY <4>2, <4>3, <4>4
    <3> QED
      BY <1>7, <3>1, <3>2, <3>3, <3>4, <3>5, <3>6, <3>7 DEF Send, Confirm
  <2>3. PICK new \in Screen : /\ screens' = [screens EXCEPT ![s] = new]
                              /\ Orderly(new) /\ Continues(screens[s], new)
    BY <2>2 DEF x
  <2>4. /\ UNCHANGED <<clients, drafts, failures, inbox, listed>>
        /\ home' \in BOOLEAN /\ mail' \in 0..Len(screens)
    BY <1>0, <2>1
  <2> QED
    BY <1>a, <2>3, <2>4
<1>8. ASSUME NEW s \in DOMAIN screens, Patch(s)
      PROVE  ReviewInv'
  <2> DEFINE x == screens[s]
  <2>0. x \in Screen /\ Orderly(x)
    BY <1>0
  <2>c. /\ x.checking \in Nat /\ x.asking \in Nat /\ x.patching \in Nat
        /\ x.launching \in Nat
    BY <2>0 DEF Screen
  <2> HIDE DEF x
  <2>1. x.patching > 0
    BY <1>8 DEF Patch, PatchSucceeds, PatchFails, x
  <2>2. MarkRow(x.draft) \/ UNCHANGED storeVars
    BY <1>8 DEF Patch, PatchSucceeds, PatchFails, x
  <2>3. UNCHANGED <<inbox, listed, mail>> /\ home' \in BOOLEAN
    BY <1>0, <1>8 DEF Patch, PatchSucceeds, PatchFails, Pop
  <2>4. \E new \in Screen :
          /\ screens' = [screens EXCEPT ![s] = new]
          /\ Orderly(new) /\ Continues(x, new)
    <3>1. CASE Pop(s)
      <4> DEFINE new == [x EXCEPT !.patching = x.patching - 1,
                                  !.route = IF x.route = "open" THEN "leaving" ELSE x.route]
      <4>1. screens' = [screens EXCEPT ![s] = new]
        BY <3>1 DEF Pop, x
      <4>n. x.patching - 1 \in Nat
        BY <2>c, <2>1
      <4>2. new \in Screen
        BY <2>0, <4>n, Zenon DEF Screen
      <4>d. new.draft = x.draft /\ new.isSending = x.isSending /\ new.mailed = x.mailed
        BY <2>0, <2>1 DEF Screen
      <4>e. /\ new.waitingForResume = x.waitingForResume /\ new.checking = x.checking
            /\ new.asking = x.asking /\ new.patching = x.patching - 1
        BY <2>0, <2>1 DEF Screen
      <4> HIDE DEF new
      <4>3. Orderly(new) /\ Continues(x, new)
        BY <2>0, <2>1, <4>2, <2>c, <4>d, <4>e DEF Orderly, UnderWay, Continues
      <4> QED
        BY <4>1, <4>2, <4>3
    <3>2. CASE FailedPatch(s)
      <4> DEFINE new == [x EXCEPT !.patching = x.patching - 1,
                                  !.isSending = x.isSending /\ ~Mounted(s)]
      <4>1. screens' = [screens EXCEPT ![s] = new]
        BY <3>2 DEF FailedPatch, x
      <4>n. x.patching - 1 \in Nat
        BY <2>c, <2>1
      <4>2. new \in Screen
        BY <2>0, <4>n, Zenon DEF Screen
      <4>d. new.draft = x.draft /\ new.isSending = (x.isSending /\ ~Mounted(s)) /\ new.mailed = x.mailed
        BY <2>0, <2>1 DEF Screen
      <4>e. /\ new.waitingForResume = x.waitingForResume /\ new.checking = x.checking
            /\ new.asking = x.asking /\ new.patching = x.patching - 1
        BY <2>0, <2>1 DEF Screen
      <4> HIDE DEF new
      <4>3. Orderly(new) /\ Continues(x, new)
        BY <2>0, <2>1, <4>2, <2>c, <4>d, <4>e DEF Orderly, UnderWay, Continues
      <4> QED
        BY <4>1, <4>2, <4>3
    <3> QED
      BY <1>8, <3>1, <3>2 DEF Patch, PatchSucceeds, PatchFails
  <2>6. StoreTypeOK' /\ DOMAIN drafts' = DOMAIN drafts
    BY <2>2, MarkKeeps DEF x
  <2>7. /\ screens' \in Seq(Screen) /\ Len(screens') = Len(screens)
        /\ DOMAIN screens' = DOMAIN screens /\ AllOrderly'
        /\ \A r \in DOMAIN screens : Continues(screens[r], screens'[r])
    BY <2>4, OneScreen DEF x
  <2>8. TypeOK'
    BY <1>0, <1>m, <2>3, <2>6, <2>7 DEF ReviewInv, TypeOK, Continues
  <2> QED
    BY <2>7, <2>8 DEF ReviewInv
<1>9. CASE UNCHANGED vars
  BY <1>0, <1>b, <1>9 DEF vars, storeVars, appVars
<1> QED
  BY <1>1, <1>2, <1>3, <1>4, <1>5, <1>6, <1>7, <1>8, <1>9 DEF Next, Backend

\* The inductive invariant holds in every reachable state.
LEMMA ReviewInvHolds == Spec => []ReviewInv
<1>1. Init => ReviewInv
  <2> SUFFICES ASSUME Init PROVE ReviewInv
    OBVIOUS
  <2>1. <<>> \in Seq(Draft) /\ <<>> \in Seq(Screen) /\ Len(<<>>) = 0
    OBVIOUS
  <2>2. StoreTypeOK
    BY <2>1 DEF Init, StoreInit, StoreTypeOK
  <2>3. mails \in Nat /\ mailSent \in BOOLEAN
    BY DEF Init
  <2> QED
    BY <2>1, <2>2, <2>3 DEF Init, ReviewInv, TypeOK, AllOrderly
<1> QED
  BY <1>1, ReviewStep, PTL DEF Spec

\* The types of the inbox and of its screens hold, and every draft on display is
\* a row.
THEOREM ReviewTypes == Spec => []TypeOK
  BY ReviewInvHolds, PTL DEF ReviewInv

---------------------------------------------------------------------------
(***************************************************************************)
(* The screens and ReviewInbox.                                            *)
(***************************************************************************)

\* A step of the screens does one operation on clients and drafts, or none.
LEMMA ScreensTouchRows ==
  ASSUME TypeOK, [Next]_vars
  PROVE  RowsStep /\ (UNCHANGED <<clients, drafts>> => UNCHANGED failures)
<1>1. ASSUME UNCHANGED storeVars
      PROVE  RowsStep /\ UNCHANGED failures
  BY <1>1 DEF storeVars, RowsStep
<1>2. ASSUME NewDraft
      PROVE  RowsStep /\ UNCHANGED failures
  <2>1. PICK c \in Clients : InsertDraft(c, 0)
    BY <1>2 DEF NewDraft
  <2>2. 0 \in Nat /\ UNCHANGED failures
    BY <2>1 DEF InsertDraft
  <2> QED
    BY <2>1, <2>2, Zenon DEF RowsStep
<1>3. ASSUME RemoveClient
      PROVE  RowsStep /\ ~UNCHANGED clients
  <2>1. PICK c \in Clients : DeleteClient(c)
    BY <1>3 DEF RemoveClient
  <2>2. c \in clients /\ c \notin clients'
    BY <2>1 DEF DeleteClient
  <2> QED
    BY <2>1, <2>2, Zenon DEF RowsStep
<1>4. ASSUME NEW s \in DOMAIN screens, Patch(s)
      PROVE  RowsStep /\ UNCHANGED failures
  <2> DEFINE d == screens[s].draft
  <2>1. d \in DOMAIN drafts
    BY DEF TypeOK
  <2>2. UpdateStatus(d, "sent") \/ UNCHANGED storeVars
    BY <1>4 DEF Patch, PatchSucceeds, PatchFails, MarkRow
  <2> HIDE DEF d
  <2>3. ASSUME UpdateStatus(d, "sent")
        PROVE  RowsStep /\ UNCHANGED failures
    <3>1. UNCHANGED failures /\ "sent" \in {"pending", "sent"}
      BY <2>3 DEF UpdateStatus
    <3> QED
      BY <2>1, <2>3, <3>1, Zenon DEF RowsStep
  <2> QED
    BY <1>1, <2>2, <2>3
<1>5. List \/ OpenDraft \/ SubmitMail \/ Resumed => UNCHANGED storeVars
  BY DEF List, Reload, ShowPending, LoadFails, OpenDraft, SubmitMail, Resumed
<1>6. \A s \in DOMAIN screens :
        Navigate(s) \/ Send(s) \/ Confirm(s) => UNCHANGED storeVars
  BY DEF Navigate, Back, Dispose, Send, ApproveAndSend, CannotLaunch, LaunchMail, MailOpens,
         Confirm, AnswerNo, AnswerYes
<1>7. UNCHANGED vars => UNCHANGED storeVars
  BY DEF vars
<1> QED
  BY <1>1, <1>2, <1>3, <1>4, <1>5, <1>6, <1>7 DEF Next, Backend

\* The constraints of the tables hold while the screens are at work.
LEMMA ReviewStore == Spec => []StoreInv
<1>1. Init => StoreInv
  BY StoreInvInit DEF Init
<1>2. TypeOK /\ StoreInv /\ [Next]_vars => StoreInv'
  BY ScreensTouchRows, StoreInvStep
<1> QED
  BY <1>1, <1>2, ReviewTypes, PTL DEF Spec

\* Seen from the inbox, what the screens and the backend do to the rows is
\* Offer, Settle or Remove, whichever screens are left, doubled or out of date.
THEOREM ScreensKeepInbox == Spec => ImplementsReviewInbox
<1>1. Init => Inbox!InboxInit
  BY StoreInitMaps DEF Init
<1>2. TypeOK /\ StoreInv /\ StoreInv' /\ [Next]_vars
        => [Inbox!InboxNext]_(Inbox!inboxVars)
  BY ScreensTouchRows, StoreMaps
<1> QED
  BY <1>1, <1>2, ReviewTypes, ReviewStore, PTL
  DEF Spec, ImplementsReviewInbox, Inbox!InboxSpec

\* A PATCH of a screen, late or repeated, settles the draft this screen shows,
\* which is then the one in its client's slot, or does nothing to the rows.
SettlesItsDraft(s) ==
  LET d == screens[s].draft
      c == drafts[d].client
  IN  \/ UNCHANGED storeVars
      \/ c \in Clients /\ Slot(c) = d /\ Inbox!Settle(c)

PatchSettlesItsDraft ==
  [][\A s \in DOMAIN screens : Patch(s) => SettlesItsDraft(s)]_vars

\* So no PATCH takes from the advisor a draft that she has not seen
\* (draft_detail_screen.dart:104, over the index of migration 0003).
THEOREM PatchesSettle == Spec => PatchSettlesItsDraft
<1>1. ASSUME TypeOK, StoreInv, NEW s \in DOMAIN screens, Patch(s)
      PROVE  SettlesItsDraft(s)
  <2> DEFINE d == screens[s].draft
  <2>1. d \in DOMAIN drafts
    BY <1>1 DEF TypeOK
  <2>2. UpdateStatus(d, "sent") \/ UNCHANGED storeVars
    BY <1>1 DEF Patch, PatchSucceeds, PatchFails, MarkRow
  <2> HIDE DEF d
  <2>3. CASE UpdateStatus(d, "sent")
    <3>1. /\ drafts[d].client \in Clients
          /\ Slot(drafts[d].client) = d
          /\ Inbox!Settle(drafts[d].client)
      BY <1>1, <2>1, <2>3, SettleMaps
    <3> QED
      BY <3>1, Zenon DEF SettlesItsDraft, d
  <2>4. CASE UNCHANGED storeVars
    BY <2>4, Zenon DEF SettlesItsDraft
  <2> QED
    BY <2>2, <2>3, <2>4
<1>2. TypeOK /\ StoreInv => \A s \in DOMAIN screens : Patch(s) => SettlesItsDraft(s)
  BY <1>1
<1> QED
  BY <1>2, ReviewTypes, ReviewStore, PTL DEF PatchSettlesItsDraft, Spec

---------------------------------------------------------------------------
\* No screen ever has two sends under way, and its button shows the one it has.
THEOREM SingleSend == Spec => []OneSendAtATime
<1>1. ReviewInv => OneSendAtATime
  BY DEF ReviewInv, AllOrderly, Orderly, UnderWay, OneSendAtATime
<1> QED
  BY <1>1, ReviewInvHolds, PTL

---------------------------------------------------------------------------
(***************************************************************************)
(* What one step does to the calls of a screen.                            *)
(***************************************************************************)
SameCalls(x, y) ==
  y.checking = x.checking /\ y.launching = x.launching /\ y.asking = x.asking
    /\ y.patching = x.patching

SameSend(x, y) ==
  y.waitingForResume = x.waitingForResume /\ y.mailed = x.mailed

\* Screen x becomes y in a step of its own that is not a tap on the button.
Moves(x, y) ==
  \/ SameCalls(x, y) /\ SameSend(x, y) /\ y.route # "open"
  \/ /\ x.checking > 0 /\ y.checking = x.checking - 1
     /\ y.launching \in {x.launching, x.launching + 1}
     /\ y.asking = x.asking /\ y.patching = x.patching
  \/ /\ x.launching > 0 /\ y.launching = x.launching - 1 /\ y.checking = x.checking
     /\ y.asking = x.asking /\ y.patching = x.patching /\ SameSend(x, y)
  \/ /\ x.asking > 0 /\ y.asking = x.asking - 1
     /\ y.checking = x.checking /\ y.launching = x.launching /\ SameSend(x, y)
     /\ y.patching = x.patching + 1 \/ ~y.isSending
  \/ /\ x.patching > 0 /\ y.patching = x.patching - 1
     /\ y.checking = x.checking /\ y.launching = x.launching /\ SameSend(x, y)
     /\ y.asking = x.asking
     /\ y.route # "open" \/ ~y.isSending

\* The steps of a screen are what they are for, and leave the others alone.
LEMMA ScreenMoves ==
  ASSUME ReviewInv, NEW t \in DOMAIN screens, ~ApproveAndSend(t),
         Navigate(t) \/ Send(t) \/ Confirm(t) \/ Patch(t)
  PROVE  /\ DOMAIN screens' = DOMAIN screens
         /\ \A r \in DOMAIN screens \ {t} : screens'[r] = screens[r]
         /\ Moves(screens[t], screens'[t])
<1>0. screens \in Seq(Screen) /\ screens[t] \in Screen
  BY DEF ReviewInv, TypeOK
<1> DEFINE x == screens[t]
           Result(y) == /\ DOMAIN screens' = DOMAIN screens
                        /\ \A r \in DOMAIN screens \ {t} : screens'[r] = screens[r]
                        /\ screens'[t] = y
<1>1. ASSUME NEW y, screens' = [screens EXCEPT ![t] = y]
      PROVE  Result(y)
  BY <1>0, <1>1
<1>2. CASE Navigate(t)
  <2>1. PICK r \in {"leaving", "gone"} : screens' = [screens EXCEPT ![t].route = r]
    BY <1>2 DEF Navigate, Back, Dispose
  <2>2. Result([x EXCEPT !.route = r])
    BY <1>1, <2>1
  <2>3. Moves(x, [x EXCEPT !.route = r])
    BY <1>0 DEF Moves, SameCalls, SameSend, Screen
  <2> QED
    BY <2>2, <2>3
<1>3. CASE CannotLaunch(t)
  <2> DEFINE y == [x EXCEPT !.checking = x.checking - 1, !.isSending = FALSE]
  <2>1. Result(y)
    BY <1>1, <1>3 DEF CannotLaunch
  <2>2. Moves(x, y)
    BY <1>0, <1>3 DEF Moves, SameCalls, SameSend, Screen, CannotLaunch
  <2> QED
    BY <2>1, <2>2
<1>4. CASE LaunchMail(t)
  <2> DEFINE y == [x EXCEPT !.checking = x.checking - 1, !.launching = x.launching + 1,
                            !.waitingForResume = TRUE]
  <2>1. Result(y)
    BY <1>1, <1>4 DEF LaunchMail
  <2>2. Moves(x, y)
    BY <1>0, <1>4 DEF Moves, SameCalls, SameSend, Screen, LaunchMail
  <2> QED
    BY <2>1, <2>2
<1>5. CASE MailOpens(t)
  <2> DEFINE y == [x EXCEPT !.launching = x.launching - 1]
  <2>1. Result(y)
    BY <1>1, <1>5 DEF MailOpens
  <2>2. Moves(x, y)
    BY <1>0, <1>5 DEF Moves, SameCalls, SameSend, Screen, MailOpens
  <2> QED
    BY <2>1, <2>2
<1>6. CASE AnswerNo(t)
  <2> DEFINE y == [x EXCEPT !.asking = x.asking - 1, !.isSending = FALSE]
  <2>1. Result(y)
    BY <1>1, <1>6 DEF AnswerNo
  <2>2. Moves(x, y)
    BY <1>0, <1>6 DEF Moves, SameCalls, SameSend, Screen, AnswerNo
  <2> QED
    BY <2>1, <2>2
<1>7. CASE AnswerYes(t)
  <2> DEFINE y == [x EXCEPT !.asking = x.asking - 1, !.patching = x.patching + 1]
  <2>1. Result(y)
    BY <1>1, <1>7 DEF AnswerYes
  <2>2. Moves(x, y)
    BY <1>0, <1>7 DEF Moves, SameCalls, SameSend, Screen, AnswerYes
  <2> QED
    BY <2>1, <2>2
<1>8. CASE PatchSucceeds(t)
  <2> DEFINE y == [x EXCEPT !.patching = x.patching - 1,
                            !.route = IF x.route = "open" THEN "leaving" ELSE x.route]
  <2>1. Result(y)
    BY <1>1, <1>8 DEF PatchSucceeds, Pop
  <2>2. Moves(x, y)
    BY <1>0, <1>8 DEF Moves, SameCalls, SameSend, Screen, PatchSucceeds
  <2> QED
    BY <2>1, <2>2
<1>9. CASE PatchFails(t)
  <2> DEFINE y == [x EXCEPT !.patching = x.patching - 1,
                            !.isSending = x.isSending /\ ~Mounted(t)]
  <2>1. Result(y)
    BY <1>1, <1>9 DEF PatchFails, FailedPatch
  <2>2. Moves(x, y)
    BY <1>0, <1>9 DEF Moves, SameCalls, SameSend, Screen, PatchFails, Mounted
  <2> QED
    BY <2>1, <2>2
<1> QED
  BY <1>2, <1>3, <1>4, <1>5, <1>6, <1>7, <1>8, <1>9 DEF Send, Confirm, Patch

---------------------------------------------------------------------------
(***************************************************************************)
(* The mails and the marks.  A mail lets the advisor answer "Yes, sent"    *)
(* until she taps "Approve & Send" again.                                  *)
(***************************************************************************)

\* A screen the advisor still sees, itself or by its dialog.
Shown(x) == x.route # "gone" \/ x.asking > 0
\* A question is open on it, or can come without another tap on the button.
Unanswered(x) ==
  \/ x.asking > 0
  \/ x.route # "gone" /\ (x.checking > 0 \/ x.waitingForResume)

\* The drafts that are marked as sent, or are being marked.
Marked ==
  {d \in DOMAIN drafts :
     \/ drafts[d].status = "sent"
     \/ \E s \in DOMAIN screens : screens[s].draft = d /\ screens[s].patching > 0}

OneShown ==
  \A s, t \in DOMAIN screens : Shown(screens[s]) /\ Shown(screens[t]) => s = t

\* A mail was sent for which a draft can still be marked.
Credit == mailSent /\ \E s \in DOMAIN screens : Unanswered(screens[s])

CountInv ==
  /\ OneShown
  /\ IsFiniteSet(Marked)
  /\ Cardinality(Marked) + (IF Credit THEN 1 ELSE 0) <= mails

\* What a step leaves of a screen: it shows the same draft, and no more of it is
\* to be seen or to be answered.
Fades(x, y) ==
  /\ Continues(x, y)
  /\ Shown(y) => Shown(x)
  /\ Unanswered(y) => Unanswered(x)

\* The effects of a tap on "Approve & Send".
LEMMA TapStep ==
  ASSUME ReviewInv, NEW t \in DOMAIN screens, ApproveAndSend(t)
  PROVE  /\ DOMAIN screens' = DOMAIN screens
         /\ \A r \in DOMAIN screens :
              /\ screens'[r].draft = screens[r].draft
              /\ screens'[r].route = screens[r].route
              /\ screens'[r].asking = screens[r].asking
              /\ screens'[r].patching = screens[r].patching
              /\ screens'[r].mailed = screens[r].mailed
         /\ mail = 0 /\ mail' = mail /\ ~mailSent' /\ mails' = mails
         /\ UNCHANGED storeVars
<1>1. screens \in Seq(Screen) /\ screens[t] \in Screen
  BY DEF ReviewInv, TypeOK
<1> DEFINE x == screens[t]
           y == [x EXCEPT !.isSending = TRUE, !.checking = x.checking + 1]
<1>2. screens' = [screens EXCEPT ![t] = y]
  BY DEF ApproveAndSend
<1>3. /\ y.draft = x.draft /\ y.route = x.route /\ y.asking = x.asking
      /\ y.patching = x.patching /\ y.mailed = x.mailed
  BY <1>1 DEF Screen
<1> HIDE DEF y
<1>4. DOMAIN screens' = DOMAIN screens /\ screens'[t] = y
      /\ \A r \in DOMAIN screens \ {t} : screens'[r] = screens[r]
  BY <1>1, <1>2
<1>5. mail = 0 /\ mail' = mail /\ ~mailSent' /\ mails' = mails /\ UNCHANGED storeVars
  BY DEF ApproveAndSend, OnTop
<1> QED
  BY <1>3, <1>4, <1>5

\* A step of one screen other than the tap brings nothing new on it.
LEMMA ScreenFades ==
  ASSUME ReviewInv, NEW t \in DOMAIN screens, ~ApproveAndSend(t),
         Navigate(t) \/ Send(t) \/ Confirm(t) \/ Patch(t)
  PROVE  Fades(screens[t], screens'[t])
<1>0. screens \in Seq(Screen) /\ screens[t] \in Screen
  BY DEF ReviewInv, TypeOK
<1>1. CASE Navigate(t)
  BY <1>0, <1>1 DEF Navigate, Back, OnTop, Dispose, Fades, Continues, Shown,
                    Unanswered, Screen
<1>2. CASE CannotLaunch(t)
  BY <1>0, <1>2 DEF CannotLaunch, Fades, Continues, Shown, Unanswered, Screen
<1>3. CASE LaunchMail(t)
  BY <1>0, <1>3 DEF LaunchMail, Fades, Continues, Shown, Unanswered, Screen
<1>4. CASE MailOpens(t)
  BY <1>0, <1>4 DEF MailOpens, Fades, Continues, Shown, Unanswered, Screen
<1>5. CASE AnswerNo(t)
  BY <1>0, <1>5 DEF AnswerNo, Fades, Continues, Shown, Unanswered, Screen
<1>6. CASE AnswerYes(t)
  BY <1>0, <1>6 DEF AnswerYes, Fades, Continues, Shown, Unanswered, Screen
<1>7. CASE PatchSucceeds(t)
  BY <1>0, <1>7 DEF PatchSucceeds, Pop, Fades, Continues, Shown, Unanswered, Screen
<1>8. CASE PatchFails(t)
  BY <1>0, <1>8 DEF PatchFails, FailedPatch, Fades, Continues, Shown, Unanswered, Screen
<1> QED
  BY <1>1, <1>2, <1>3, <1>4, <1>5, <1>6, <1>7, <1>8 DEF Send, Confirm, Patch

\* Only a tap on a tile or on the button brings something new.
LEMMA ScreensFade ==
  ASSUME ReviewInv, [Next]_vars, ~OpenDraft,
         \A s \in DOMAIN screens : ~ApproveAndSend(s)
  PROVE  /\ DOMAIN screens' = DOMAIN screens
         /\ \A r \in DOMAIN screens : Fades(screens[r], screens'[r])
<1>0. /\ screens \in Seq(Screen) /\ mail \in 0..Len(screens)
      /\ \A s \in DOMAIN screens : screens[s] \in Screen
  BY DEF ReviewInv, TypeOK
<1>1. CASE Backend \/ List \/ UNCHANGED vars
  <2>1. UNCHANGED screens
    BY <1>1 DEF Backend, NewDraft, RemoveClient, List, Reload, ShowPending, LoadFails,
                vars, appVars
  <2> QED
    BY <2>1 DEF Fades, Continues
<1>2. CASE SubmitMail
  <2>1. /\ screens' = [screens EXCEPT ![mail].mailed = TRUE]
        /\ mail \in DOMAIN screens
    BY <1>0, <1>2 DEF SubmitMail
  <2> QED
    BY <1>0, <2>1 DEF Fades, Continues, Shown, Unanswered, Screen
<1>3. CASE Resumed
  <2>1. /\ DOMAIN screens' = DOMAIN screens
        /\ \A r \in DOMAIN screens :
             \/ screens'[r] = screens[r]
             \/ /\ Asks(r)
                /\ screens'[r] = [screens[r] EXCEPT !.waitingForResume = FALSE,
                                                    !.asking = screens[r].asking + 1]
    BY <1>3 DEF Resumed
  <2>2. ASSUME NEW r \in DOMAIN screens, Asks(r),
               screens'[r] = [screens[r] EXCEPT !.waitingForResume = FALSE,
                                                !.asking = screens[r].asking + 1]
        PROVE  Fades(screens[r], screens'[r])
    <3>1. Shown(screens[r]) /\ Unanswered(screens[r])
      BY <2>2 DEF Asks, Mounted, Shown, Unanswered
    <3>2. Continues(screens[r], screens'[r])
      BY <1>0, <2>2 DEF Continues, Screen
    <3> QED
      BY <3>1, <3>2 DEF Fades
  <2> QED
    BY <2>1, <2>2 DEF Fades, Continues
<1>4. ASSUME NEW t \in DOMAIN screens, Navigate(t) \/ Send(t) \/ Confirm(t) \/ Patch(t)
      PROVE  /\ DOMAIN screens' = DOMAIN screens
             /\ \A r \in DOMAIN screens : Fades(screens[r], screens'[r])
  <2>1. /\ DOMAIN screens' = DOMAIN screens
        /\ \A r \in DOMAIN screens \ {t} : screens'[r] = screens[r]
        /\ Moves(screens[t], screens'[t])
    BY <1>4, ScreenMoves
  <2>2. \A r \in DOMAIN screens \ {t} : Fades(screens[r], screens'[r])
    BY <2>1 DEF Fades, Continues
  <2>3. Fades(screens[t], screens'[t])
    BY <1>4, ScreenFades
  <2> QED
    BY <2>1, <2>2, <2>3
<1> QED
  BY <1>1, <1>2, <1>3, <1>4 DEF Next

\* Only the answer "Yes, sent" marks a draft that was not marked.
LEMMA MarkedGrows ==
  ASSUME ReviewInv, [Next]_vars
  PROVE  \/ Marked' \subseteq Marked
         \/ \E s \in DOMAIN screens :
              /\ mailSent /\ AnswerYes(s)
              /\ Marked' \subseteq Marked \cup {screens[s].draft}
<1>0. /\ screens \in Seq(Screen) /\ DOMAIN screens = 1..Len(screens) /\ StoreTypeOK
      /\ \A s \in DOMAIN screens : screens[s] \in Screen /\ screens[s].draft \in DOMAIN drafts
  BY DEF ReviewInv, TypeOK
\* Marked as seen from the screens: all that is left to show is what happens to
\* the rows and to the PATCHes.
<1>1. ASSUME SentDrafts' \subseteq Marked,
             \A s \in DOMAIN screens' :
               screens'[s].patching > 0 =>
                 /\ s \in DOMAIN screens /\ screens[s].patching > 0
                 /\ screens'[s].draft = screens[s].draft
      PROVE  Marked' \subseteq Marked
  <2>1. ASSUME NEW d \in Marked'
        PROVE  d \in Marked
    <3>1. CASE d \in SentDrafts'
      BY <1>1, <3>1
    <3>2. CASE \E s \in DOMAIN screens' : screens'[s].draft = d /\ screens'[s].patching > 0
      <4>1. PICK s \in DOMAIN screens' : screens'[s].draft = d /\ screens'[s].patching > 0
        BY <3>2
      <4>2. s \in DOMAIN screens /\ screens[s].patching > 0 /\ screens[s].draft = d
        BY <1>1, <4>1
      <4> QED
        BY <1>0, <4>2 DEF Marked
    <3> QED
      BY <2>1, <3>1, <3>2 DEF Marked, SentDrafts
  <2> QED
    BY <2>1
<1>2. SentDrafts \subseteq Marked
  BY DEF SentDrafts, Marked
<1>3. CASE Backend
  <2>1. UNCHANGED screens
    BY <1>3 DEF Backend, NewDraft, RemoveClient, appVars
  <2>2. CASE NewDraft
    <3>1. PICK c \in Clients : InsertDraft(c, 0)
      BY <2>2 DEF NewDraft
    <3>n. 0 \in Nat
      OBVIOUS
    <3>2. /\ DOMAIN drafts' = DOMAIN drafts \cup {Len(drafts) + 1}
          /\ \A d \in DOMAIN drafts : drafts'[d] = drafts[d]
          /\ drafts'[Len(drafts) + 1] = [client |-> c, msg |-> 0, status |-> "pending"]
      BY <1>0, <3>1, <3>n, InsertAddsRow
    <3>3. drafts'[Len(drafts) + 1].status # "sent"
      BY <3>2
    <3>4. SentDrafts' \subseteq SentDrafts
      BY <3>2, <3>3 DEF SentDrafts
    <3> QED
      BY <1>1, <1>2, <2>1, <3>4
  <2>3. CASE RemoveClient
    <3>1. PICK c \in Clients : DeleteClient(c)
      BY <2>3 DEF RemoveClient
    <3>2. /\ DOMAIN drafts' = DOMAIN drafts
          /\ \A d \in DOMAIN drafts : drafts'[d].status \in {"deleted", drafts[d].status}
      BY <1>0, <3>1, DeleteCascades
    <3>3. SentDrafts' \subseteq SentDrafts
      BY <3>2 DEF SentDrafts
    <3> QED
      BY <1>1, <1>2, <2>1, <3>3
  <2> QED
    BY <1>3, <2>2, <2>3 DEF Backend
<1>4. CASE List \/ UNCHANGED vars
  <2>1. UNCHANGED <<screens, drafts>>
    BY <1>4 DEF List, Reload, ShowPending, LoadFails, vars, appVars, storeVars
  <2> QED
    BY <1>1, <1>2, <2>1 DEF SentDrafts
<1>5. CASE OpenDraft
  <2>1. PICK d \in listed :
          screens' = Append(screens,
            [draft |-> d, route |-> "open", isSending |-> FALSE,
             waitingForResume |-> FALSE, checking |-> 0, launching |-> 0,
             asking |-> 0, patching |-> 0, mailed |-> FALSE])
    BY <1>5 DEF OpenDraft
  <2> DEFINE new == [draft |-> d, route |-> "open", isSending |-> FALSE,
                     waitingForResume |-> FALSE, checking |-> 0, launching |-> 0,
                     asking |-> 0, patching |-> 0, mailed |-> FALSE]
  <2>2. ~(new.patching > 0)
    OBVIOUS
  <2> HIDE DEF new
  <2>3. screens' = Append(screens, new)
    BY <2>1 DEF new
  <2>4. /\ DOMAIN screens' = DOMAIN screens \cup {Len(screens) + 1}
        /\ screens'[Len(screens) + 1] = new
        /\ \A s \in DOMAIN screens : screens'[s] = screens[s]
    BY <1>0, <2>3
  <2>5. UNCHANGED drafts
    BY <1>5 DEF OpenDraft, storeVars
  <2> QED
    BY <1>1, <1>2, <2>2, <2>4, <2>5 DEF SentDrafts
<1>6. CASE SubmitMail \/ Resumed
  <2>1. UNCHANGED drafts
    BY <1>6 DEF SubmitMail, Resumed, storeVars
  <2>2. CASE SubmitMail
    <3>1. screens' = [screens EXCEPT ![mail].mailed = TRUE]
      BY <2>2 DEF SubmitMail
    <3>2. /\ DOMAIN screens' = DOMAIN screens
          /\ \A s \in DOMAIN screens : /\ screens'[s].draft = screens[s].draft
                                       /\ screens'[s].patching = screens[s].patching
      BY <1>0, <3>1 DEF Screen
    <3> QED
      BY <1>1, <1>2, <2>1, <3>2 DEF SentDrafts
  <2>3. CASE Resumed
    <3>1. /\ DOMAIN screens' = DOMAIN screens
          /\ \A s \in DOMAIN screens :
               \/ screens'[s] = screens[s]
               \/ screens'[s] = [screens[s] EXCEPT !.waitingForResume = FALSE,
                                                   !.asking = screens[s].asking + 1]
      BY <2>3 DEF Resumed
    <3>2. \A s \in DOMAIN screens : /\ screens'[s].draft = screens[s].draft
                                    /\ screens'[s].patching = screens[s].patching
      BY <1>0, <3>1 DEF Screen
    <3> QED
      BY <1>1, <1>2, <2>1, <3>1, <3>2 DEF SentDrafts
  <2> QED
    BY <1>6, <2>2, <2>3
<1>7. ASSUME NEW t \in DOMAIN screens, ApproveAndSend(t)
      PROVE  Marked' \subseteq Marked
  <2>1. /\ DOMAIN screens' = DOMAIN screens
        /\ \A r \in DOMAIN screens : /\ screens'[r].draft = screens[r].draft
                                     /\ screens'[r].patching = screens[r].patching
        /\ UNCHANGED drafts
    BY <1>7, TapStep DEF storeVars
  <2> QED
    BY <1>1, <1>2, <2>1 DEF SentDrafts
<1>8. ASSUME NEW t \in DOMAIN screens, ~ApproveAndSend(t),
             Navigate(t) \/ Send(t) \/ Confirm(t) \/ Patch(t)
      PROVE  \/ Marked' \subseteq Marked
             \/ /\ mailSent /\ AnswerYes(t)
                /\ Marked' \subseteq Marked \cup {screens[t].draft}
  <2>1. /\ DOMAIN screens' = DOMAIN screens
        /\ \A r \in DOMAIN screens \ {t} : screens'[r] = screens[r]
    BY <1>8, ScreenMoves
  <2>2. CASE mailSent /\ AnswerYes(t)
    <3>1. screens'[t].draft = screens[t].draft /\ UNCHANGED drafts
      BY <1>0, <2>2 DEF AnswerYes, Screen, storeVars
    <3> QED
      BY <2>1, <2>2, <3>1 DEF Marked
  <2>3. CASE ~(mailSent /\ AnswerYes(t))
    <3>1. screens'[t].draft = screens[t].draft
      BY <1>8, ScreenFades DEF Fades, Continues
    <3>p. screens'[t].patching > 0 => screens[t].patching > 0
      <4>1. CASE Navigate(t)
        BY <1>0, <4>1 DEF Navigate, Back, Dispose, Screen
      <4>2. CASE CannotLaunch(t) \/ LaunchMail(t) \/ MailOpens(t)
        <5>1. CASE CannotLaunch(t)
          BY <1>0, <5>1 DEF CannotLaunch, Screen
        <5>2. CASE LaunchMail(t)
          BY <1>0, <5>2 DEF LaunchMail, Screen
        <5>3. CASE MailOpens(t)
          BY <1>0, <5>3 DEF MailOpens, Screen
        <5> QED
          BY <4>2, <5>1, <5>2, <5>3
      <4>3. CASE AnswerNo(t)
        BY <1>0, <4>3 DEF AnswerNo, Screen
      <4>4. CASE Patch(t)
        BY <4>4 DEF Patch, PatchSucceeds, PatchFails
      <4> QED
        BY <1>8, <2>3, <4>1, <4>2, <4>3, <4>4 DEF Send, Confirm
    <3>2. SentDrafts' \subseteq Marked
      <4>1. CASE Patch(t)
        <5>1. MarkRow(screens[t].draft) \/ UNCHANGED storeVars
          BY <4>1 DEF Patch, PatchSucceeds, PatchFails
        <5>2. SentDrafts' \subseteq SentDrafts \cup {screens[t].draft}
          BY <5>1, MarkKeeps
        <5>3. screens[t].draft \in Marked
          BY <1>0, <4>1 DEF Patch, PatchSucceeds, PatchFails, Marked
        <5> QED
          BY <1>2, <5>2, <5>3
      <4>2. CASE Navigate(t) \/ Send(t) \/ Confirm(t)
        <5>1. UNCHANGED drafts
          BY <1>8, <4>2
          DEF Navigate, Back, Dispose, Send, CannotLaunch, LaunchMail, MailOpens, Confirm,
              AnswerNo, AnswerYes, storeVars
        <5> QED
          BY <1>2, <5>1 DEF SentDrafts
      <4> QED
        BY <1>8, <4>1, <4>2
    <3> QED
      BY <1>1, <2>1, <3>1, <3>p, <3>2
  <2> QED
    BY <2>2, <2>3
<1> QED
  BY <1>3, <1>4, <1>5, <1>6, <1>7, <1>8 DEF Next

\* At most one screen is to be seen at a time.
LEMMA OneShownStep ==
  ASSUME ReviewInv, OneShown, [Next]_vars
  PROVE  OneShown'
<1>1. CASE OpenDraft
  <2>1. \A s \in DOMAIN screens : ~Shown(screens[s])
    BY <1>1 DEF OpenDraft, HomeOnTop, Dialog, Mounted, Shown
  <2>2. PICK x : screens' = Append(screens, x)
    BY <1>1 DEF OpenDraft
  <2>3. /\ DOMAIN screens' = DOMAIN screens \cup {Len(screens) + 1}
        /\ \A s \in DOMAIN screens : screens'[s] = screens[s]
    BY <2>2 DEF ReviewInv, TypeOK
  <2> QED
    BY <2>1, <2>3 DEF OneShown
<1>2. ASSUME NEW t \in DOMAIN screens, ApproveAndSend(t)
      PROVE  OneShown'
  <2>1. /\ DOMAIN screens' = DOMAIN screens
        /\ \A r \in DOMAIN screens : /\ screens'[r].route = screens[r].route
                                     /\ screens'[r].asking = screens[r].asking
    BY <1>2, TapStep
  <2> QED
    BY <2>1 DEF OneShown, Shown
<1>3. CASE ~OpenDraft /\ \A s \in DOMAIN screens : ~ApproveAndSend(s)
  BY <1>3, ScreensFade DEF OneShown, Fades
<1> QED
  BY <1>1, <1>2, <1>3

\* A credit is new when a mail is sent, and only then.
LEMMA CreditStep ==
  ASSUME ReviewInv, OneShown, [Next]_vars
  PROVE  /\ Credit' => Credit \/ SubmitMail
         /\ \A s \in DOMAIN screens : mailSent /\ AnswerYes(s) => Credit /\ ~Credit'
         /\ mails' = IF SubmitMail THEN mails + 1 ELSE mails
<1>0. /\ screens \in Seq(Screen)
      /\ \A s \in DOMAIN screens : screens[s] \in Screen /\ Orderly(screens[s])
  BY DEF ReviewInv, TypeOK, AllOrderly
<1>1. CASE OpenDraft
  <2>1. PICK d \in listed :
          screens' = Append(screens,
            [draft |-> d, route |-> "open", isSending |-> FALSE,
             waitingForResume |-> FALSE, checking |-> 0, launching |-> 0,
             asking |-> 0, patching |-> 0, mailed |-> FALSE])
    BY <1>1 DEF OpenDraft
  <2> DEFINE new == [draft |-> d, route |-> "open", isSending |-> FALSE,
                     waitingForResume |-> FALSE, checking |-> 0, launching |-> 0,
                     asking |-> 0, patching |-> 0, mailed |-> FALSE]
  <2>2. ~Unanswered(new)
    BY DEF Unanswered
  <2> HIDE DEF new
  <2>3. screens' = Append(screens, new)
    BY <2>1 DEF new
  <2>4. /\ DOMAIN screens' = DOMAIN screens \cup {Len(screens) + 1}
        /\ screens'[Len(screens) + 1] = new
        /\ \A s \in DOMAIN screens : screens'[s] = screens[s]
    BY <1>0, <2>3
  <2>5. UNCHANGED advisorVars
    BY <1>1 DEF OpenDraft
  <2>6. \A s \in DOMAIN screens : ~AnswerYes(s)
    BY <1>1 DEF OpenDraft, HomeOnTop, Dialog, AnswerYes
  <2>7. ~SubmitMail
    BY <1>1 DEF OpenDraft, HomeOnTop, SubmitMail
  <2> QED
    BY <2>2, <2>4, <2>5, <2>6, <2>7 DEF Credit, advisorVars
<1>2. ASSUME NEW t \in DOMAIN screens, ApproveAndSend(t)
      PROVE  ~Credit' /\ mails' = mails /\ ~SubmitMail
             /\ \A s \in DOMAIN screens : ~AnswerYes(s)
  <2>1. ~mailSent' /\ mails' = mails /\ mail = 0
    BY <1>2, TapStep
  <2>2. \A s \in DOMAIN screens : ~AnswerYes(s)
    BY <1>2 DEF ApproveAndSend, OnTop, Dialog, AnswerYes
  <2> QED
    BY <2>1, <2>2 DEF Credit, SubmitMail
<1>3. CASE ~OpenDraft /\ \A s \in DOMAIN screens : ~ApproveAndSend(s)
  <2>1. /\ DOMAIN screens' = DOMAIN screens
        /\ \A r \in DOMAIN screens : Fades(screens[r], screens'[r])
    BY <1>3, ScreensFade
  <2>2. ~SubmitMail => UNCHANGED advisorVars
    <3>1. CASE Backend \/ List \/ Resumed \/ UNCHANGED vars
      BY <3>1 DEF Backend, NewDraft, RemoveClient, List, Reload, ShowPending, LoadFails,
                  Resumed, vars
    <3>2. ASSUME NEW t \in DOMAIN screens,
                 Navigate(t) \/ Send(t) \/ Confirm(t) \/ Patch(t)
          PROVE  UNCHANGED advisorVars
      BY <1>3, <3>2
      DEF Navigate, Back, Dispose, Send, CannotLaunch, LaunchMail, MailOpens, Confirm,
          AnswerNo, AnswerYes, Patch, PatchSucceeds, PatchFails
    <3> QED
      BY <1>3, <3>1, <3>2 DEF Next
  <2>3. Credit' => Credit \/ SubmitMail
    BY <2>1, <2>2 DEF Credit, Fades, advisorVars
  <2>4. ASSUME NEW s \in DOMAIN screens, mailSent, AnswerYes(s)
        PROVE  Credit /\ ~Credit'
    <3>1. Unanswered(screens[s]) /\ Shown(screens[s])
      BY <2>4 DEF AnswerYes, Unanswered, Shown
    <3>2. screens[s].asking = 1 /\ screens[s].checking = 0 /\ ~screens[s].waitingForResume
      <4>1. /\ screens[s].asking \in Nat /\ screens[s].checking \in Nat
            /\ screens[s].patching \in Nat /\ screens[s].waitingForResume \in BOOLEAN
        BY <1>0 DEF Screen
      <4>2. screens[s].asking > 0 /\ UnderWay(screens[s]) <= 1
        BY <1>0, <2>4 DEF AnswerYes, Orderly
      <4> QED
        BY <4>1, <4>2 DEF UnderWay
    <3>3. ~Unanswered(screens'[s])
      <4>1. /\ screens'[s].asking = screens[s].asking - 1
            /\ screens'[s].checking = screens[s].checking
            /\ screens'[s].waitingForResume = screens[s].waitingForResume
        BY <1>0, <2>4 DEF AnswerYes, Screen
      <4> QED
        BY <3>2, <4>1 DEF Unanswered
    <3>4. \A r \in DOMAIN screens : Unanswered(screens[r]) => r = s
      BY <3>1 DEF OneShown, Shown, Unanswered
    <3> QED
      BY <2>1, <2>4, <3>1, <3>3, <3>4 DEF Credit, Fades
  <2>5. mails' = IF SubmitMail THEN mails + 1 ELSE mails
    BY <2>2 DEF SubmitMail, advisorVars
  <2> QED
    BY <2>3, <2>4, <2>5
<1> QED
  BY <1>1, <1>2, <1>3

\* An honest advisor marks no more drafts as sent than the mails she has sent,
\* for any number of screens, of late dialogs and of mails that come up late
\* (draft_detail_screen.dart:34-124): each mail gives her one "Yes, sent".
THEOREM MailsCountOnce == Spec => []NoMailCountsTwice
<1>1. Init => CountInv
  <2>1. ASSUME Init
        PROVE  Marked = {} /\ OneShown /\ ~Credit /\ mails = 0
    BY <2>1 DEF Init, StoreInit, Marked, OneShown, Credit
  <2> QED
    BY <2>1, FS_EmptySet DEF CountInv
<1>2. ReviewInv /\ ReviewInv' /\ CountInv /\ [Next]_vars => CountInv'
  <2> SUFFICES ASSUME ReviewInv, CountInv, [Next]_vars
               PROVE  CountInv'
    OBVIOUS
  <2>1. OneShown /\ IsFiniteSet(Marked) /\ mails \in Nat /\ Cardinality(Marked) \in Nat
        /\ Cardinality(Marked) + (IF Credit THEN 1 ELSE 0) <= mails
    BY FS_CardinalityType DEF CountInv, ReviewInv, TypeOK
  <2>2. OneShown'
    BY <2>1, OneShownStep
  <2>3. /\ Credit' => Credit \/ SubmitMail
        /\ mails' = IF SubmitMail THEN mails + 1 ELSE mails
    BY <2>1, CreditStep
  <2>4. CASE Marked' \subseteq Marked
    <3>1. /\ IsFiniteSet(Marked') /\ Cardinality(Marked') <= Cardinality(Marked)
          /\ Cardinality(Marked') \in Nat
      BY <2>1, <2>4, FS_Subset, FS_CardinalityType
    <3>2. Cardinality(Marked') + (IF Credit' THEN 1 ELSE 0) <= mails'
      BY <2>1, <2>3, <3>1
    <3> QED
      BY <2>2, <3>1, <3>2 DEF CountInv
  <2>5. ASSUME NEW s \in DOMAIN screens, mailSent, AnswerYes(s),
               Marked' \subseteq Marked \cup {screens[s].draft}
        PROVE  CountInv'
    <3> DEFINE more == Marked \cup {screens[s].draft}
    <3>1. Credit /\ ~Credit'
      BY <2>1, <2>5, CreditStep
    <3>2. IsFiniteSet(more) /\ Cardinality(more) \in Nat
          /\ Cardinality(more) <= Cardinality(Marked) + 1
      <4> DEFINE c == Cardinality(Marked)
      <4>1. IsFiniteSet(Marked) /\ c \in Nat
        BY <2>1
      <4>2. /\ IsFiniteSet(more)
            /\ Cardinality(more) = IF screens[s].draft \in Marked THEN c ELSE c + 1
        BY <4>1, FS_AddElement, Zenon
      <4> HIDE DEF c, more
      <4> QED
        BY <4>1, <4>2 DEF c
    <3>3. /\ IsFiniteSet(Marked') /\ Cardinality(Marked') <= Cardinality(more)
          /\ Cardinality(Marked') \in Nat
      BY <2>5, <3>2, FS_Subset, FS_CardinalityType
    <3> HIDE DEF more
    <3>4. Cardinality(Marked') <= mails'
      BY <2>1, <2>3, <3>1, <3>2, <3>3
    <3> QED
      BY <2>2, <3>1, <3>3, <3>4 DEF CountInv
  <2> QED
    BY <2>4, <2>5, MarkedGrows
<1>3. ReviewInv /\ CountInv => NoMailCountsTwice
  <2> SUFFICES ASSUME ReviewInv, CountInv
               PROVE  NoMailCountsTwice
    OBVIOUS
  <2>1. IsFiniteSet(Marked) /\ Cardinality(Marked) \in Nat /\ mails \in Nat
        /\ Cardinality(Marked) <= mails
    BY FS_CardinalityType DEF CountInv, ReviewInv, TypeOK
  <2>2. SentDrafts \subseteq Marked
    BY DEF SentDrafts, Marked
  <2>3. Cardinality(SentDrafts) <= Cardinality(Marked) /\ Cardinality(SentDrafts) \in Nat
    BY <2>1, <2>2, FS_Subset, FS_CardinalityType
  <2> QED
    BY <2>1, <2>3 DEF NoMailCountsTwice
<1> QED
  BY <1>1, <1>2, <1>3, ReviewInvHolds, PTL DEF Spec

\* While a send is at canLaunchUrl or launchUrl, its screen is not disposed of.
StaysForLaunch ==
  \A s \in DOMAIN screens : screens[s].checking + screens[s].launching > 0 => Mounted(s)

\* The mail that is open is that of the screen the advisor comes back to, and a
\* mail she has sent is that of the screen that asks; so is every marked draft
\* the draft of a screen that was mailed.
OwnMailInv ==
  /\ OneShown
  /\ mail # 0 => \A t \in DOMAIN screens : Shown(screens[t]) => t = mail
  /\ mailSent => \A t \in DOMAIN screens : Unanswered(screens[t]) => screens[t].mailed
  /\ \A d \in Marked : \E s \in DOMAIN screens : screens[s].draft = d /\ screens[s].mailed

\* It is kept by every step before which no launching screen is gone.
LEMMA OwnMailStep ==
  ASSUME ReviewInv, OwnMailInv, StaysForLaunch, [Next]_vars
  PROVE  OwnMailInv'
<1>0. /\ screens \in Seq(Screen) /\ mail \in 0..Len(screens)
      /\ \A s \in DOMAIN screens : screens[s] \in Screen
      /\ OneShown
  BY DEF ReviewInv, TypeOK, OwnMailInv
<1>1. OneShown'
  BY <1>0, OneShownStep
\* Marked drafts stay drafts of mailed screens.
<1>2. ASSUME \A r \in DOMAIN screens :
               r \in DOMAIN screens' /\ Continues(screens[r], screens'[r])
      PROVE  \A d \in Marked' :
               \E s \in DOMAIN screens' : screens'[s].draft = d /\ screens'[s].mailed
  <2>1. ASSUME NEW s \in DOMAIN screens, mailSent, AnswerYes(s)
        PROVE  screens[s].mailed
    BY <2>1 DEF AnswerYes, Unanswered, OwnMailInv
  <2>2. \A d \in Marked' :
          \E s \in DOMAIN screens : screens[s].draft = d /\ screens[s].mailed
    BY <2>1, MarkedGrows DEF OwnMailInv
  <2> QED
    BY <1>2, <2>2 DEF Continues
<1>3. CASE OpenDraft
  <2>1. PICK d \in listed :
          screens' = Append(screens,
            [draft |-> d, route |-> "open", isSending |-> FALSE,
             waitingForResume |-> FALSE, checking |-> 0, launching |-> 0,
             asking |-> 0, patching |-> 0, mailed |-> FALSE])
    BY <1>3 DEF OpenDraft
  <2> DEFINE new == [draft |-> d, route |-> "open", isSending |-> FALSE,
                     waitingForResume |-> FALSE, checking |-> 0, launching |-> 0,
                     asking |-> 0, patching |-> 0, mailed |-> FALSE]
  <2>2. ~Unanswered(new)
    BY DEF Unanswered
  <2> HIDE DEF new
  <2>3. screens' = Append(screens, new)
    BY <2>1 DEF new
  <2>4. /\ DOMAIN screens' = DOMAIN screens \cup {Len(screens) + 1}
        /\ screens'[Len(screens) + 1] = new
        /\ \A s \in DOMAIN screens : screens'[s] = screens[s]
    BY <1>0, <2>3
  <2>5. mail' = 0 /\ mailSent' = mailSent
    BY <1>3 DEF OpenDraft, HomeOnTop, advisorVars
  <2>6. mailSent' => \A t \in DOMAIN screens' : Unanswered(screens'[t]) => screens'[t].mailed
    BY <2>2, <2>4, <2>5 DEF OwnMailInv
  <2>7. \A r \in DOMAIN screens :
          r \in DOMAIN screens' /\ Continues(screens[r], screens'[r])
    BY <2>4 DEF Continues
  <2> QED
    BY <1>1, <1>2, <2>5, <2>6, <2>7 DEF OwnMailInv
<1>4. ASSUME NEW t \in DOMAIN screens, ApproveAndSend(t)
      PROVE  OwnMailInv'
  <2>1. /\ DOMAIN screens' = DOMAIN screens
        /\ \A r \in DOMAIN screens : Continues(screens[r], screens'[r])
        /\ mail' = 0 /\ ~mailSent'
    BY <1>4, TapStep DEF Continues
  <2> QED
    BY <1>1, <1>2, <2>1 DEF OwnMailInv
<1>5. CASE ~OpenDraft /\ \A s \in DOMAIN screens : ~ApproveAndSend(s)
  <2>1. /\ DOMAIN screens' = DOMAIN screens
        /\ \A r \in DOMAIN screens : Fades(screens[r], screens'[r])
    BY <1>5, ScreensFade
  <2>2. \A d \in Marked' :
          \E s \in DOMAIN screens' : screens'[s].draft = d /\ screens'[s].mailed
    BY <1>2, <2>1 DEF Fades
  <2>3. CASE SubmitMail
    <3>1. mail' = mail /\ mail # 0 /\ screens' = [screens EXCEPT ![mail].mailed = TRUE]
      BY <2>3 DEF SubmitMail
    <3>2. mail \in DOMAIN screens /\ screens'[mail].mailed
      BY <1>0, <3>1 DEF Screen
    <3>3. \A t \in DOMAIN screens : Shown(screens'[t]) => t = mail
      BY <2>1, <3>1 DEF OwnMailInv, Fades
    <3>4. \A t \in DOMAIN screens : Unanswered(screens'[t]) => Shown(screens'[t])
      BY DEF Shown, Unanswered
    <3> QED
      BY <1>1, <2>1, <2>2, <3>1, <3>2, <3>3, <3>4 DEF OwnMailInv
  <2>4. CASE ~SubmitMail
    <3>1. /\ mailSent' = mailSent
          /\ mail' # 0 => \/ mail' = mail
                          \/ mail' \in DOMAIN screens /\ MailOpens(mail')
      <4>1. CASE Backend \/ List \/ Resumed \/ UNCHANGED vars
        BY <4>1 DEF Backend, NewDraft, RemoveClient, List, Reload, ShowPending, LoadFails,
                    Resumed, vars, appVars, advisorVars
      <4>2. ASSUME NEW t \in DOMAIN screens, MailOpens(t)
            PROVE  mailSent' = mailSent /\ mail' \in {0, t}
        BY <4>2 DEF MailOpens, advisorVars
      <4>3. ASSUME NEW t \in DOMAIN screens, ~MailOpens(t),
                   Navigate(t) \/ Send(t) \/ Confirm(t) \/ Patch(t)
            PROVE  mailSent' = mailSent /\ mail' = mail
        BY <1>5, <4>3
        DEF Navigate, Back, Dispose, Send, CannotLaunch, LaunchMail, Confirm, AnswerNo,
            AnswerYes, Patch, PatchSucceeds, PatchFails, advisorVars
      <4> QED
        BY <1>5, <2>4, <4>1, <4>2, <4>3 DEF Next
    <3>2. mailSent' => \A t \in DOMAIN screens : Unanswered(screens'[t]) => screens'[t].mailed
      BY <2>1, <3>1 DEF OwnMailInv, Fades, Continues
    <3>3. ASSUME mail' # 0, NEW t \in DOMAIN screens, Shown(screens'[t])
          PROVE  t = mail'
      <4>1. Shown(screens[t])
        BY <2>1, <3>3 DEF Fades
      <4>2. CASE mail' = mail
        BY <3>3, <4>1, <4>2 DEF OwnMailInv
      <4>3. ASSUME mail' \in DOMAIN screens, MailOpens(mail')
            PROVE  t = mail'
        <5> DEFINE s == mail'
        <5>1. screens[s].checking + screens[s].launching > 0
          <6>1. screens[s].checking \in Nat /\ screens[s].launching \in Nat
            BY <1>0, <4>3 DEF Screen
          <6>2. screens[s].launching > 0
            BY <4>3 DEF MailOpens
          <6> QED
            BY <6>1, <6>2
        <5>2. Shown(screens[s])
          BY <4>3, <5>1 DEF StaysForLaunch, Mounted, Shown
        <5> QED
          BY <1>0, <4>1, <4>3, <5>2 DEF OneShown
      <4> QED
        BY <3>1, <3>3, <4>2, <4>3
    <3> QED
      BY <1>1, <2>1, <2>2, <3>1, <3>2, <3>3 DEF OwnMailInv
  <2> QED
    BY <2>3, <2>4
<1> QED
  BY <1>3, <1>4, <1>5

\* What the dialog asks for holds of an advisor who does not leave a screen
\* while it opens the mail app: every draft marked as sent was mailed
\* (draft_detail_screen.dart:49-69).  So leaving it there is the only way to the
\* wrong mark that the code lets happen.
THEOREM SentIsMailed == Spec /\ []StaysForLaunch => []SentMeansMailed
<1>1. Init => OwnMailInv
  BY DEF Init, StoreInit, OwnMailInv, OneShown, Marked
<1>2. ReviewInv /\ StaysForLaunch /\ OwnMailInv /\ [Next]_vars => OwnMailInv'
  BY OwnMailStep
<1>3. OwnMailInv => SentMeansMailed
  BY DEF OwnMailInv, Marked, SentMeansMailed
<1> QED
  BY <1>1, <1>2, <1>3, ReviewInvHolds, PTL DEF Spec

---------------------------------------------------------------------------
(***************************************************************************)
(* Liveness.  That the advisor, the life cycle and the PATCH can go on is  *)
(* a hypothesis that TLC evaluates, because the provers cannot look into   *)
(* ENABLED, and so is one induction over numbers, which holds of any       *)
(* predicate but cannot be instantiated with a temporal formula.           *)
(***************************************************************************)
CanGoOn ==
  /\ mail # 0 => ENABLED <<Return>>_vars
  /\ \A s \in 1..MaxScreens :
       /\ s \in DOMAIN screens
       /\ (mail = 0 /\ screens[s].asking > 0) \/ screens[s].patching > 0
       => ENABLED <<Answer(s)>>_vars

\* The times the mail app can still come up without a tap on the button: a
\* screen that is checking can still launch, which counts for two steps.
Owed(s) == 2 * screens[s].checking + screens[s].launching
Opens == UNION {{s} \X (1..Owed(s)) : s \in DOMAIN screens}

\* The arithmetic of Owed: a launch costs one, a check in its place two.
LEMMA OwedSums ==
  ASSUME NEW c \in Nat, NEW l \in Nat
  PROVE  /\ 2 * c + l \in Nat
         /\ c > 0 => /\ 2 * (c - 1) + l < 2 * c + l
                     /\ 2 * (c - 1) + (l + 1) < 2 * c + l
         /\ l > 0 => 2 * c + (l - 1) < 2 * c + l
  OBVIOUS

\* There are finitely many of them at any time.
LEMMA OpensFinite == ReviewInv => IsFiniteSet(Opens)
<1> SUFFICES ASSUME ReviewInv
             PROVE  IsFiniteSet(Opens)
  OBVIOUS
<1> DEFINE Part(s) == {s} \X (1..Owed(s))
           Parts == {Part(s) : s \in DOMAIN screens}
<1>1. IsFiniteSet(DOMAIN screens)
  <2>1. Len(screens) \in Nat /\ DOMAIN screens = 1..Len(screens)
    BY DEF ReviewInv, TypeOK
  <2> QED
    BY <2>1, FS_Interval
<1>2. IsFiniteSet(Parts)
  <2> DEFINE f == [s \in DOMAIN screens |-> Part(s)]
  <2>1. f \in Surjection(DOMAIN screens, Parts)
    BY Zenon DEF Surjection
  <2> QED
    BY <1>1, <2>1, FS_Surjection DEF ExistsSurjection
<1>3. ASSUME NEW s \in DOMAIN screens
      PROVE  IsFiniteSet(Part(s))
  <2>1. Owed(s) \in Nat
    <3>1. screens[s] \in Screen
      BY DEF ReviewInv, TypeOK
    <3>2. screens[s].checking \in Nat /\ screens[s].launching \in Nat
      BY <3>1 DEF Screen
    <3> QED
      BY <3>2, OwedSums DEF Owed
  <2>2. IsFiniteSet({s})
    BY FS_Singleton, Zenon
  <2>3. IsFiniteSet(1..Owed(s))
    BY <2>1, FS_Interval
  <2> QED
    BY <2>2, <2>3, FS_Product, Zenon
<1>4. \A T \in Parts : IsFiniteSet(T)
  BY <1>3
<1>5. Opens = UNION Parts
  BY DEF Opens
<1> HIDE DEF Parts
<1> QED
  BY <1>2, <1>4, <1>5, FS_UNION

\* A screen that has to answer the question, or whose PATCH is on its way.
Asked(s) == s \in DOMAIN screens /\ screens[s].asking > 0
Marking(s) == s \in DOMAIN screens /\ screens[s].patching > 0
\* The mail is sent and the question is still to come.
Away(s) == Mailed(s) /\ ~Settled(s)

\* If four counts add up to one at most, at most one of them is not zero.
LEMMA OneOfFour ==
  ASSUME NEW c \in Nat, NEW w \in {0, 1}, NEW a \in Nat, NEW p \in Nat, c + w + a + p <= 1
  PROVE  /\ a > 0 => a = 1 /\ c = 0 /\ w = 0 /\ p = 0
         /\ p > 0 => p = 1 /\ c = 0 /\ w = 0 /\ a = 0
         /\ w = 1 => c = 0 /\ a = 0 /\ p = 0
         /\ a > 0 \/ p > 0 => c + w + a + p = 1
  OBVIOUS

\* A screen with one call of a send under way has no other.
LEMMA OneCall ==
  ASSUME NEW x \in Screen, Orderly(x)
  PROVE  /\ x.asking > 0 => x.asking = 1 /\ x.checking = 0 /\ x.patching = 0
         /\ x.patching > 0 => /\ x.patching = 1 /\ x.checking = 0 /\ x.asking = 0
                             /\ x.isSending
         /\ x.waitingForResume => x.checking = 0 /\ x.asking = 0 /\ x.patching = 0
<1> DEFINE w == IF x.waitingForResume THEN 1 ELSE 0
<1>1. /\ x.checking \in Nat /\ x.asking \in Nat /\ x.patching \in Nat
      /\ w \in {0, 1} /\ (x.waitingForResume => w = 1)
  BY DEF Screen
<1>2. UnderWay(x) = x.checking + w + x.asking + x.patching
  BY DEF UnderWay
<1>3. x.checking + w + x.asking + x.patching <= 1
  BY <1>2 DEF Orderly
<1> HIDE DEF w
<1> QED
  BY <1>1, <1>2, <1>3, OneOfFour DEF Orderly

\* A dialog covers what could be tapped.
LEMMA DialogCovers ==
  ASSUME NEW s, Asked(s)
  PROVE  /\ ~OpenDraft
         /\ \A t \in DOMAIN screens : ~ApproveAndSend(t) /\ ~Back(t)
  BY DEF Asked, OpenDraft, HomeOnTop, Dialog, ApproveAndSend, Back, OnTop

\* While a question waits no step adds to what is owed, and each opening of the
\* mail app takes from it.
LEMMA OpensRunOut ==
  ASSUME ReviewInv, ReviewInv', [Next]_vars, NEW s, Asked(s)
  PROVE  /\ Opens' \subseteq Opens
         /\ mail = 0 => mail' = 0 \/ Opens' # Opens
<1>0. /\ screens \in Seq(Screen) /\ \A t \in DOMAIN screens : screens[t] \in Screen
      /\ screens' \in Seq(Screen) /\ \A t \in DOMAIN screens' : screens'[t] \in Screen
  BY DEF ReviewInv, TypeOK
<1>1. ASSUME DOMAIN screens' = DOMAIN screens,
             \A t \in DOMAIN screens : screens'[t].checking = screens[t].checking
                                       /\ screens'[t].launching = screens[t].launching
      PROVE  Opens' = Opens
  BY <1>1 DEF Opens, Owed
<1>2. ASSUME NEW t \in DOMAIN screens, DOMAIN screens' = DOMAIN screens,
             \A r \in DOMAIN screens \ {t} : screens'[r] = screens[r],
             Owed(t)' < Owed(t), Owed(t) \in Nat, Owed(t)' \in Nat
      PROVE  Opens' \subseteq Opens /\ Opens' # Opens
  <2>1. \A r \in DOMAIN screens \ {t} : Owed(r)' = Owed(r)
    BY <1>2 DEF Owed
  <2>2. 1..Owed(t)' \subseteq 1..Owed(t) /\ Owed(t) \in 1..Owed(t) /\ Owed(t) \notin 1..Owed(t)'
    BY <1>2
  <2> HIDE DEF Owed
  <2>3. Opens' \subseteq Opens
    BY <1>2, <2>1, <2>2 DEF Opens
  <2>4. <<t, Owed(t)>> \in Opens /\ <<t, Owed(t)>> \notin Opens'
    BY <1>2, <2>2 DEF Opens
  <2> QED
    BY <2>3, <2>4
<1>3. CASE Backend \/ List \/ UNCHANGED vars
  <2>1. UNCHANGED <<screens, mail>>
    BY <1>3 DEF Backend, NewDraft, RemoveClient, List, Reload, ShowPending, LoadFails,
                vars, appVars
  <2> QED
    BY <1>1, <2>1
<1>4. CASE SubmitMail
  <2>1. mail \in DOMAIN screens /\ mail' = mail
        /\ screens' = [screens EXCEPT ![mail].mailed = TRUE]
    BY <1>4 DEF SubmitMail, ReviewInv, TypeOK
  <2>2. \A t \in DOMAIN screens : screens'[t].checking = screens[t].checking
                                 /\ screens'[t].launching = screens[t].launching
    BY <1>0, <2>1 DEF Screen
  <2> QED
    BY <1>0, <1>1, <2>1, <2>2
<1>5. CASE Resumed
  <2>1. /\ mail' = 0 /\ DOMAIN screens' = DOMAIN screens
        /\ \A t \in DOMAIN screens :
             \/ screens'[t] = [screens[t] EXCEPT !.waitingForResume = FALSE,
                                                 !.asking = screens[t].asking + 1]
             \/ screens'[t] = screens[t]
    BY <1>5 DEF Resumed
  <2>2. \A t \in DOMAIN screens : screens'[t].checking = screens[t].checking
                                 /\ screens'[t].launching = screens[t].launching
    BY <1>0, <2>1 DEF Screen
  <2> QED
    BY <1>1, <2>1, <2>2
<1>6. ASSUME NEW t \in DOMAIN screens, Navigate(t) \/ Send(t) \/ Confirm(t) \/ Patch(t)
      PROVE  /\ Opens' \subseteq Opens
             /\ mail = 0 => mail' = 0 \/ Opens' # Opens
  <2> DEFINE x == screens[t]
             y == screens'[t]
  <2>1. ~ApproveAndSend(t)
    BY DialogCovers
  <2>2. /\ DOMAIN screens' = DOMAIN screens
        /\ \A r \in DOMAIN screens \ {t} : screens'[r] = screens[r]
        /\ Moves(x, y)
    BY <1>6, <2>1, ScreenMoves
  <2>3. mail = 0 => mail' = 0 \/ MailOpens(t)
    BY <1>6, <2>1
    DEF Navigate, Back, Dispose, Send, CannotLaunch, LaunchMail, Confirm, AnswerNo,
        AnswerYes, Patch, PatchSucceeds, PatchFails
  <2>4. /\ x.checking \in Nat /\ x.launching \in Nat /\ x.asking \in Nat /\ x.patching \in Nat
        /\ y.checking \in Nat /\ y.launching \in Nat
    BY <1>0, <2>2 DEF Screen
  <2>5. CASE y.checking = x.checking /\ y.launching = x.launching
    <3>1. Opens' = Opens
      BY <1>1, <2>2, <2>5
    <3>2. ~MailOpens(t)
      <4>1. MailOpens(t) => y.launching = x.launching - 1
        BY <1>0, <2>2 DEF MailOpens, Screen
      <4> QED
        BY <2>4, <2>5, <4>1
    <3> QED
      BY <2>3, <3>1, <3>2
  <2>6. CASE \/ /\ x.checking > 0 /\ y.checking = x.checking - 1
                /\ y.launching \in {x.launching, x.launching + 1}
             \/ x.launching > 0 /\ y.launching = x.launching - 1 /\ y.checking = x.checking
    <3>1. /\ 2 * y.checking + y.launching < 2 * x.checking + x.launching
          /\ 2 * y.checking + y.launching \in Nat /\ 2 * x.checking + x.launching \in Nat
      BY <2>4, <2>6, OwedSums
    <3>2. Owed(t)' < Owed(t) /\ Owed(t) \in Nat /\ Owed(t)' \in Nat
      BY <3>1 DEF Owed
    <3> QED
      BY <1>2, <2>2, <3>2
  <2> QED
    BY <2>2, <2>5, <2>6 DEF Moves, SameCalls
<1> QED
  BY <1>3, <1>4, <1>5, <1>6, DialogCovers DEF Next

\* While the mail app is up for a screen nothing happens to it but the return of
\* the advisor, on which it asks.
LEMMA AwayStep ==
  ASSUME ReviewInv, [Next]_vars, NEW s, Away(s)
  PROVE  /\ Away(s)' \/ Asked(s)' \/ Settled(s)'
         /\ Return => Asked(s)'
<1>0. /\ screens \in Seq(Screen) /\ s \in DOMAIN screens /\ screens[s] \in Screen
      /\ mail = s /\ s # 0
      /\ screens[s].mailed /\ screens[s].waitingForResume
      /\ screens[s].isSending /\ screens[s].route = "open"
      /\ Orderly(screens[s])
  BY DEF ReviewInv, TypeOK, AllOrderly, Away, Mailed, Settled
<1>1. screens[s].checking = 0 /\ screens[s].asking = 0 /\ screens[s].patching = 0
  BY <1>0, OneCall
<1>2. ASSUME s \in DOMAIN screens', screens'[s] = screens[s], mail' = mail
      PROVE  Away(s)'
  BY <1>2 DEF Away, Mailed, Settled
<1>3. CASE Resumed
  <2>1. Asks(s)
    BY <1>0 DEF Asks, Mounted
  <2>2. s \in DOMAIN screens'
        /\ screens'[s] = [screens[s] EXCEPT !.waitingForResume = FALSE,
                                            !.asking = screens[s].asking + 1]
    BY <1>0, <1>3, <2>1 DEF Resumed
  <2>3. screens'[s].asking = 1
    BY <1>0, <1>1, <2>2 DEF Screen
  <2> QED
    BY <2>2, <2>3 DEF Asked
<1>m. CASE SubmitMail
  <2>1. screens' = [screens EXCEPT ![s].mailed = TRUE] /\ mail' = mail
    BY <1>0, <1>m DEF SubmitMail
  <2>2. /\ s \in DOMAIN screens' /\ screens'[s].mailed
        /\ screens'[s].waitingForResume /\ screens'[s].isSending
        /\ screens'[s].route = "open"
    BY <1>0, <2>1 DEF Screen
  <2>3. Away(s)'
    BY <1>0, <2>1, <2>2 DEF Away, Mailed, Settled
  <2>4. ~Return
    BY <1>0, <2>1 DEF Return, Resumed
  <2> QED
    BY <2>3, <2>4
<1>4. ASSUME Backend \/ List \/ OpenDraft \/ UNCHANGED vars
      PROVE  Away(s)'
  <2>1. ~OpenDraft
    BY <1>0 DEF OpenDraft, HomeOnTop
  <2>2. UNCHANGED <<screens, mail>>
    BY <1>4, <2>1
    DEF Backend, NewDraft, RemoveClient, List, Reload, ShowPending, LoadFails, vars,
        appVars
  <2> QED
    BY <1>0, <1>2, <2>2
<1>5. ASSUME NEW t \in DOMAIN screens, Navigate(t) \/ Send(t) \/ Confirm(t) \/ Patch(t)
      PROVE  Away(s)'
  <2>1. ~ApproveAndSend(t)
    BY <1>0 DEF ApproveAndSend, OnTop
  <2>2. /\ DOMAIN screens' = DOMAIN screens
        /\ \A r \in DOMAIN screens \ {t} : screens'[r] = screens[r]
        /\ Moves(screens[t], screens'[t])
    BY <1>5, <2>1, ScreenMoves
  <2>3. mail' = mail
    BY <1>0, <1>5, <2>1
    DEF Navigate, Back, Dispose, Send, CannotLaunch, LaunchMail, MailOpens, Confirm,
        AnswerNo, AnswerYes, Patch, PatchSucceeds, PatchFails
  <2>4. CASE t # s
    BY <1>0, <1>2, <2>2, <2>3, <2>4
  <2>5. CASE t = s
    <3>1. ~Navigate(s)
      BY <1>0 DEF Navigate, Back, OnTop, Dispose
    <3>2. ~Send(s) /\ ~Confirm(s) /\ ~Patch(s)
      BY <1>0, <1>1, <2>1, <2>5
      DEF Send, CannotLaunch, LaunchMail, MailOpens, Confirm, AnswerNo, AnswerYes, Patch,
          PatchSucceeds, PatchFails
    <3> QED
      BY <1>5, <2>5, <3>1, <3>2
  <2> QED
    BY <2>4, <2>5
<1>6. ~Resumed => ~Return
  BY DEF Return
<1> QED
  BY <1>3, <1>m, <1>4, <1>5, <1>6 DEF Next

\* A question waits until it is answered: by the PATCH or by the end of the send.
LEMMA AskedStep ==
  ASSUME ReviewInv, [Next]_vars, NEW s, Asked(s)
  PROVE  /\ Asked(s)' \/ Marking(s)' \/ Settled(s)'
         /\ Answer(s) => Marking(s)' \/ Settled(s)'
<1>0. /\ screens \in Seq(Screen) /\ s \in DOMAIN screens /\ screens[s] \in Screen
      /\ screens[s].asking > 0 /\ Orderly(screens[s])
  BY DEF ReviewInv, TypeOK, AllOrderly, Asked
<1>1. screens[s].asking = 1 /\ screens[s].checking = 0 /\ screens[s].patching = 0
  BY <1>0, OneCall
<1>2. ~OpenDraft /\ \A t \in DOMAIN screens : ~ApproveAndSend(t) /\ ~Back(t)
  BY DialogCovers
<1>3. ASSUME Backend \/ List \/ SubmitMail \/ Resumed \/ UNCHANGED vars
      PROVE  Asked(s)'
  <2>1. CASE Backend \/ List \/ UNCHANGED vars
    <3>1. UNCHANGED screens
      BY <2>1 DEF Backend, NewDraft, RemoveClient, List, Reload, ShowPending, LoadFails,
                  vars, appVars
    <3> QED
      BY <1>0, <3>1 DEF Asked
  <2>2. CASE SubmitMail
    <3>1. screens' = [screens EXCEPT ![mail].mailed = TRUE]
      BY <2>2 DEF SubmitMail
    <3>2. s \in DOMAIN screens' /\ screens'[s].asking = screens[s].asking
      BY <1>0, <3>1 DEF Screen
    <3> QED
      BY <1>0, <3>2 DEF Asked
  <2>3. CASE Resumed
    <3>1. /\ s \in DOMAIN screens'
          /\ \/ screens'[s] = [screens[s] EXCEPT !.waitingForResume = FALSE,
                                                 !.asking = screens[s].asking + 1]
             \/ screens'[s] = screens[s]
      BY <1>0, <2>3 DEF Resumed
    <3>2. screens'[s].asking \in {screens[s].asking, screens[s].asking + 1}
      BY <1>0, <3>1 DEF Screen
    <3>3. screens'[s].asking \in {1, 2}
      BY <1>1, <3>2
    <3> QED
      BY <3>1, <3>3 DEF Asked
  <2> QED
    BY <1>3, <2>1, <2>2, <2>3
<1>4. ASSUME NEW t \in DOMAIN screens, Navigate(t) \/ Send(t) \/ Confirm(t) \/ Patch(t)
      PROVE  /\ Asked(s)' \/ Marking(s)' \/ Settled(s)'
             /\ t = s /\ (Confirm(s) \/ Patch(s)) => Marking(s)' \/ Settled(s)'
  <2>1. /\ DOMAIN screens' = DOMAIN screens
        /\ \A r \in DOMAIN screens \ {t} : screens'[r] = screens[r]
        /\ Moves(screens[t], screens'[t])
    BY <1>2, <1>4, ScreenMoves
  <2>2. CASE t # s
    BY <1>0, <2>1, <2>2 DEF Asked
  <2>3. CASE t = s
    <3>1. \/ screens'[s].asking = 1
          \/ screens'[s].patching = 1 \/ ~screens'[s].isSending
      BY <1>1, <2>1, <2>3 DEF Moves, SameCalls
    <3>2. ~Patch(s)
      BY <1>1 DEF Patch, PatchSucceeds, PatchFails
    <3>3. Confirm(s) => screens'[s].patching = 1 \/ ~screens'[s].isSending
      <4>1. CASE AnswerNo(s)
        BY <1>0, <4>1 DEF AnswerNo, Screen
      <4>2. CASE AnswerYes(s)
        <5>1. screens'[s].patching = screens[s].patching + 1
          BY <1>0, <4>2 DEF AnswerYes, Screen
        <5> QED
          BY <1>1, <5>1
      <4> QED
        BY <4>1, <4>2 DEF Confirm
    <3> QED
      BY <1>0, <2>1, <3>1, <3>2, <3>3 DEF Asked, Marking, Settled
  <2> QED
    BY <2>2, <2>3
<1>5. Answer(s) => Confirm(s) \/ Patch(s)
  BY DEF Answer
<1> QED
  BY <1>0, <1>2, <1>3, <1>4, <1>5 DEF Next

\* A PATCH is on its way until its answer ends the send.
LEMMA MarkingStep ==
  ASSUME ReviewInv, [Next]_vars, NEW s, Marking(s)
  PROVE  /\ Marking(s)' \/ Settled(s)'
         /\ Answer(s) => Settled(s)'
<1>0. /\ screens \in Seq(Screen) /\ s \in DOMAIN screens /\ screens[s] \in Screen
      /\ screens[s].patching > 0 /\ Orderly(screens[s])
  BY DEF ReviewInv, TypeOK, AllOrderly, Marking
<1>1. /\ screens[s].patching = 1 /\ screens[s].asking = 0 /\ screens[s].checking = 0
      /\ screens[s].isSending
  BY <1>0, OneCall
<1>2. ASSUME Backend \/ List \/ OpenDraft \/ SubmitMail \/ Resumed \/ UNCHANGED vars
      PROVE  Marking(s)'
  <2>1. CASE Backend \/ List \/ UNCHANGED vars
    <3>1. UNCHANGED screens
      BY <2>1 DEF Backend, NewDraft, RemoveClient, List, Reload, ShowPending, LoadFails,
                  vars, appVars
    <3> QED
      BY <1>0, <3>1 DEF Marking
  <2>2. CASE OpenDraft
    <3>1. \E x : screens' = Append(screens, x)
      BY <2>2 DEF OpenDraft
    <3>2. s \in DOMAIN screens' /\ screens'[s] = screens[s]
      BY <1>0, <3>1
    <3> QED
      BY <1>0, <3>2 DEF Marking
  <2>3. CASE SubmitMail
    <3>1. screens' = [screens EXCEPT ![mail].mailed = TRUE]
      BY <2>3 DEF SubmitMail
    <3>2. s \in DOMAIN screens' /\ screens'[s].patching = screens[s].patching
      BY <1>0, <3>1 DEF Screen
    <3> QED
      BY <1>0, <3>2 DEF Marking
  <2>4. CASE Resumed
    <3>1. /\ s \in DOMAIN screens'
          /\ \/ screens'[s] = [screens[s] EXCEPT !.waitingForResume = FALSE,
                                                 !.asking = screens[s].asking + 1]
             \/ screens'[s] = screens[s]
      BY <1>0, <2>4 DEF Resumed
    <3>2. screens'[s].patching = screens[s].patching
      BY <1>0, <3>1 DEF Screen
    <3> QED
      BY <1>0, <3>1, <3>2 DEF Marking
  <2> QED
    BY <1>2, <2>1, <2>2, <2>3, <2>4
<1>3. ASSUME NEW t \in DOMAIN screens, ApproveAndSend(t)
      PROVE  Marking(s)'
  <2>1. t # s
    BY <1>1, <1>3 DEF ApproveAndSend
  <2>2. s \in DOMAIN screens' /\ screens'[s] = screens[s]
    BY <1>0, <1>3, <2>1 DEF ApproveAndSend
  <2> QED
    BY <1>0, <2>2 DEF Marking
<1>4. ASSUME NEW t \in DOMAIN screens, ~ApproveAndSend(t),
             Navigate(t) \/ Send(t) \/ Confirm(t) \/ Patch(t)
      PROVE  /\ Marking(s)' \/ Settled(s)'
             /\ t = s /\ (Confirm(s) \/ Patch(s)) => Settled(s)'
  <2>1. /\ DOMAIN screens' = DOMAIN screens
        /\ \A r \in DOMAIN screens \ {t} : screens'[r] = screens[r]
        /\ Moves(screens[t], screens'[t])
    BY <1>4, ScreenMoves
  <2>2. CASE t # s
    BY <1>0, <2>1, <2>2 DEF Marking
  <2>3. CASE t = s
    <3>1. \/ screens'[s].patching = 1
          \/ screens'[s].route # "open" \/ ~screens'[s].isSending
      BY <1>1, <2>1, <2>3 DEF Moves, SameCalls
    <3>2. ~Confirm(s)
      BY <1>1 DEF Confirm, AnswerNo, AnswerYes
    <3>3. Patch(s) => screens'[s].route # "open" \/ ~screens'[s].isSending
      <4>1. CASE PatchSucceeds(s)
        BY <1>0, <4>1 DEF PatchSucceeds, Pop, Screen
      <4>2. CASE PatchFails(s)
        <5>1. screens'[s].isSending = (screens[s].isSending /\ ~Mounted(s))
              /\ screens'[s].route = screens[s].route
          BY <1>0, <4>2 DEF PatchFails, FailedPatch, Screen
        <5> QED
          BY <5>1 DEF Mounted
      <4> QED
        BY <4>1, <4>2 DEF Patch
    <3> QED
      BY <1>0, <2>1, <3>1, <3>2, <3>3 DEF Marking, Settled
  <2> QED
    BY <2>2, <2>3
<1>5. Answer(s) => (Confirm(s) \/ Patch(s)) /\ ~ApproveAndSend(s)
  <2>1. ~ApproveAndSend(s)
    BY <1>1 DEF ApproveAndSend
  <2> QED
    BY <2>1 DEF Answer
<1> QED
  BY <1>0, <1>2, <1>3, <1>4, <1>5 DEF Next

\* The fairness of one screen out of that of all.
LEMMA FairScreen ==
  ASSUME NEW s \in 1..MaxScreens
  PROVE  FairSpec => Spec /\ Returns /\ Answers(s)
<1>1. AllAnswered => Answers(s)
  BY DEF AllAnswered
<1> QED
  BY <1>1, PTL DEF FairSpec

\* A mail that is sent leads to the question, or the screen is left.
LEMMA AwayEnds ==
  ASSUME NEW s \in 1..MaxScreens
  PROVE  Spec /\ Returns /\ []CanGoOn => (Mailed(s) ~> Asked(s) \/ Settled(s))
<1>1. ReviewInv /\ [Next]_vars /\ Away(s) =>
        /\ Away(s)' \/ Asked(s)' \/ Settled(s)'
        /\ Return => Asked(s)'
  BY AwayStep
<1>2. CanGoOn /\ Away(s) => ENABLED <<Return>>_vars
  BY DEF CanGoOn, Away, Mailed
<1>3. Mailed(s) => Away(s) \/ Settled(s)
  BY DEF Away
<1> QED
  BY <1>1, <1>2, <1>3, ReviewInvHolds, PTL DEF Spec, Returns

\* A PATCH is answered, and its answer ends the send.
LEMMA MarkingEnds ==
  ASSUME NEW s \in 1..MaxScreens
  PROVE  Spec /\ Answers(s) /\ []CanGoOn => (Marking(s) ~> Settled(s))
<1>1. ReviewInv /\ [Next]_vars /\ Marking(s) =>
        /\ Marking(s)' \/ Settled(s)'
        /\ Answer(s) => Settled(s)'
  BY MarkingStep
<1>2. CanGoOn /\ Marking(s) => ENABLED <<Answer(s)>>_vars
  BY DEF CanGoOn, Marking
<1> QED
  BY <1>1, <1>2, ReviewInvHolds, PTL DEF Spec, Answers

AskedWithin(s, n) == Asked(s) /\ Cardinality(Opens) < n ~> Marking(s) \/ Settled(s)

InductionOnOpens ==
  \A s \in 1..MaxScreens :
    /\ AskedWithin(s, 0)
    /\ \A n \in Nat : AskedWithin(s, n) => AskedWithin(s, n + 1)
    => \A n \in Nat : AskedWithin(s, n)

\* Their number is a natural number.
LEMMA OpensCount == ReviewInv => Cardinality(Opens) \in Nat
  BY OpensFinite, FS_CardinalityType

\* With one more opening of the mail app to come a question is answered all the
\* same: the advisor comes back, and then she answers or the opening is over.
LEMMA OneOpenLess ==
  ASSUME NEW s \in 1..MaxScreens, NEW n \in Nat
  PROVE  Spec /\ Returns /\ Answers(s) /\ []CanGoOn
           => (AskedWithin(s, n) => AskedWithin(s, n + 1))
<1> DEFINE c == Cardinality(Opens)
           Here == Asked(s) /\ c < n + 1
           Less == Asked(s) /\ c < n
           Goal == Marking(s) \/ Settled(s)
           Home == mail = 0
<1>0. (ReviewInv => Cardinality(Opens) \in Nat)'
  BY OpensCount, PTL
<1>1. ReviewInv /\ ReviewInv' /\ [Next]_vars /\ Here =>
        /\ (Here \/ Goal)'
        /\ Answer(s) => Goal'
        /\ Return => Home'
        /\ Home => (Home \/ Less \/ Goal)'
  <2> SUFFICES ASSUME ReviewInv, ReviewInv', [Next]_vars, Here
               PROVE  /\ (Here \/ Goal)'
                      /\ Answer(s) => Goal'
                      /\ Return => Home'
                      /\ Home => (Home \/ Less \/ Goal)'
    OBVIOUS
  <2>1. c \in Nat /\ c' \in Nat /\ IsFiniteSet(Opens)
    BY <1>0, OpensCount, OpensFinite
  <2>2. Opens' \subseteq Opens /\ (mail = 0 => mail' = 0 \/ Opens' # Opens)
    BY OpensRunOut
  <2>3. c' <= c /\ (Opens' # Opens => c' # c)
    BY <2>1, <2>2, FS_Subset
  <2>4. /\ Asked(s)' \/ Marking(s)' \/ Settled(s)'
        /\ Answer(s) => Marking(s)' \/ Settled(s)'
    BY AskedStep
  <2> HIDE DEF c
  <2>5. \A x, y \in Nat : x < n + 1 /\ y <= x => y < n + 1 /\ (y # x => y < n)
    OBVIOUS
  <2>6. c' < n + 1 /\ (Opens' # Opens => c' < n)
    BY <2>1, <2>3, <2>5
  <2>7. Return => mail' = 0
    BY DEF Return, Resumed
  <2> QED
    BY <2>2, <2>4, <2>6, <2>7
<1>2. CanGoOn /\ ~Home => ENABLED <<Return>>_vars
  BY DEF CanGoOn
<1>3. CanGoOn /\ Here /\ Home => ENABLED <<Answer(s)>>_vars
  BY DEF CanGoOn, Asked
<1> HIDE DEF Here, Less, Goal, Home
<1>4. Spec /\ Returns /\ Answers(s) /\ []CanGoOn /\ (Less ~> Goal) => (Here ~> Goal)
  BY <1>1, <1>2, <1>3, ReviewInvHolds, PTL DEF Spec, Returns, Answers
<1> QED
  BY <1>4 DEF AskedWithin, Here, Less, Goal

\* When the advisor is asked, she answers, however often the mail app comes up
\* in between.
LEMMA QuestionEnds ==
  ASSUME NEW s \in 1..MaxScreens
  PROVE  FairSpec /\ []CanGoOn /\ InductionOnOpens
           => (Asked(s) ~> Marking(s) \/ Settled(s))
<1> DEFINE Few(n) == Asked(s) /\ Cardinality(Opens) < n
           Goal == Marking(s) \/ Settled(s)
<1>0. FairSpec => Spec /\ Returns /\ Answers(s)
  BY FairScreen
<1>1. FairSpec => AskedWithin(s, 0)
  <2>1. ReviewInv /\ Asked(s) /\ Cardinality(Opens) < 0 => FALSE
    <3>1. \A x \in Nat : ~(x < 0)
      OBVIOUS
    <3> QED
      BY <3>1, OpensCount
  <2> QED
    BY <1>0, <2>1, ReviewInvHolds, PTL DEF AskedWithin
<1>2. ASSUME NEW n \in Nat
      PROVE  FairSpec /\ []CanGoOn => (AskedWithin(s, n) => AskedWithin(s, n + 1))
  <2>1. Spec /\ Returns /\ Answers(s) /\ []CanGoOn
          => (AskedWithin(s, n) => AskedWithin(s, n + 1))
    BY OneOpenLess
  <2> QED
    BY <1>0, <2>1
<1>3. FairSpec /\ []CanGoOn /\ InductionOnOpens => \A n \in Nat : AskedWithin(s, n)
  <2>1. FairSpec /\ []CanGoOn
          => \A n \in Nat : AskedWithin(s, n) => AskedWithin(s, n + 1)
    BY <1>2
  <2> QED
    BY <1>1, <2>1 DEF InductionOnOpens
<1>4. ReviewInv => (Asked(s) => \E n \in Nat : Few(n))
  <2>1. \A x \in Nat : x < x + 1 /\ x + 1 \in Nat
    OBVIOUS
  <2> QED
    BY <2>1, OpensCount
<1> HIDE DEF Few, Goal
<1>5. ASSUME NEW n \in Nat
      PROVE  AskedWithin(s, n) => [](Few(n) => <>Goal)
  BY PTL DEF AskedWithin, Few, Goal
<1>6. (\A n \in Nat : AskedWithin(s, n)) => \A n \in Nat : [](Few(n) => <>Goal)
  BY <1>5
<1>7. (\A n \in Nat : [](Few(n) => <>Goal)) => [](\A n \in Nat : (Few(n) => <>Goal))
  OBVIOUS
<1>8. (\A n \in Nat : (Few(n) => <>Goal)) => ((\E n \in Nat : Few(n)) => <>Goal)
  OBVIOUS
<1> QED
  BY <1>0, <1>3, <1>4, <1>6, <1>7, <1>8, ReviewInvHolds, PTL DEF Goal

\* An advisor who has sent the mail and stays is asked, and her answer ends the
\* send: the screen closes, or its button can be pressed again, for any number
\* of screens, of launches and of mails that come up late
\* (draft_detail_screen.dart:34-124).
THEOREM MailedSendsEnd == FairSpec /\ []CanGoOn /\ InductionOnOpens => MailedSendEnds
<1> SUFFICES ASSUME NEW s \in 1..MaxScreens
             PROVE  FairSpec /\ []CanGoOn /\ InductionOnOpens => (Mailed(s) ~> Settled(s))
  BY DEF MailedSendEnds
<1>0. FairSpec => Spec /\ Returns /\ Answers(s)
  BY FairScreen
<1>1. Spec /\ Returns /\ []CanGoOn => (Mailed(s) ~> Asked(s) \/ Settled(s))
  BY AwayEnds
<1>2. FairSpec /\ []CanGoOn /\ InductionOnOpens
        => (Asked(s) ~> Marking(s) \/ Settled(s))
  BY QuestionEnds
<1>3. Spec /\ Answers(s) /\ []CanGoOn => (Marking(s) ~> Settled(s))
  BY MarkingEnds
<1> QED
  BY <1>0, <1>1, <1>2, <1>3, PTL
===========================================================================
