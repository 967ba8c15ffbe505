---------------------------- MODULE DraftReview ---------------------------
(***************************************************************************)
(* The Inbox tab of the app: the list of pending drafts and the screen on  *)
(* which the advisor approves one, mails it with the mail app of the phone *)
(* and confirms on her return that it was sent, which marks it as sent.    *)
(*                                                                         *)
(* A screen is one State of DraftDetailScreen.  Its handlers suspend at    *)
(* their awaits (canLaunchUrl, the dialog, the PATCH), and go on when the  *)
(* screen has been left.  The backend's side is DraftStore; mail app,      *)
(* navigator and life cycle events are external.                           *)
(***************************************************************************)
EXTENDS DraftStore, FiniteSets

CONSTANTS
  MaxDrafts,   \* bound on the draft rows
  MaxScreens,  \* bound on the detail screens opened
  MaxLaunches, \* bound on the calls of launchUrl a screen has pending
  MaxMails,    \* bound on the mails the advisor sends
  Faults       \* the faults that can happen: a subset of FaultKinds

FaultKinds == {"network", "mail"}

ASSUME ReviewAssumption ==
  /\ MaxDrafts \in Nat
  /\ MaxScreens \in Nat
  /\ MaxLaunches \in Nat
  /\ MaxMails \in Nat
  /\ Faults \subseteq FaultKinds

VARIABLES
  inbox,    \* the future of the list: "loading", "error" or "data"
  listed,   \* the drafts on display when it is "data"
  home,     \* the inbox is on the navigator's stack
  screens,  \* the detail screens so far, oldest first
  mail,     \* the screen whose mail is open in the mail app, or 0
  mails,    \* history: how many mails the advisor has sent
  mailSent  \* what she knows: she has sent one since she last tapped
            \* "Approve & Send"

appVars == <<inbox, listed, home, screens, mail>>
advisorVars == <<mails, mailSent>>
vars == <<storeVars, appVars, advisorVars>>

\* route: on top, in its exit transition (still mounted), or disposed of;
\* isSending and waitingForResume are the fields of the State; checking,
\* launching, asking and patching count the calls suspended at canLaunchUrl,
\* launchUrl, showDialog and updateDraftStatus; mailed is history: the
\* advisor has sent the mail.
Screen == [draft : Nat,
           route : {"open", "leaving", "gone"},
           isSending : BOOLEAN, waitingForResume : BOOLEAN,
           checking : Nat, launching : Nat, asking : Nat, patching : Nat,
           mailed : BOOLEAN]

TypeOK ==
  /\ StoreTypeOK
  /\ inbox \in {"loading", "error", "data"}
  /\ listed \subseteq DOMAIN drafts
  /\ listed # {} => inbox = "data"
  /\ home \in BOOLEAN
  /\ screens \in Seq(Screen)
  /\ mail \in 0..Len(screens)
  /\ mails \in Nat /\ mailSent \in BOOLEAN
  /\ \A s \in DOMAIN screens : screens[s].draft \in DOMAIN drafts

Init ==
  /\ StoreInit
  /\ inbox = "loading" /\ listed = {}
  /\ home = TRUE
  /\ screens = <<>>
  /\ mail = 0
  /\ mails = 0 /\ mailSent = FALSE

Mounted(s) == screens[s].route # "gone"
\* A dialog covers everything below it.
Dialog == \E s \in DOMAIN screens : screens[s].asking > 0
\* The app is in the foreground, and so is the route the advisor acts on.
HomeOnTop ==
  /\ home /\ mail = 0 /\ ~Dialog
  /\ \A s \in DOMAIN screens : screens[s].route # "open"
OnTop(s) == screens[s].route = "open" /\ mail = 0 /\ ~Dialog

---------------------------------------------------------------------------
(***************************************************************************)
(* The backend: a worker writes a draft, a client is removed.              *)
(***************************************************************************)

NewDraft ==
  /\ Len(drafts) < MaxDrafts
  /\ \E c \in Clients : InsertDraft(c, 0)
  /\ UNCHANGED <<appVars, advisorVars>>

RemoveClient ==
  /\ \E c \in Clients : DeleteClient(c)
  /\ UNCHANGED <<appVars, advisorVars>>

---------------------------------------------------------------------------
(***************************************************************************)
(* The list.                                                               *)
(***************************************************************************)

\* A faulty Reload for the mutation runs: the old list stays on display.
ReloadBehindList ==
  /\ HomeOnTop
  /\ inbox' = "loading"
  /\ UNCHANGED <<storeVars, listed, home, screens, mail, advisorVars>>

\* _reload (pull to refresh, Retry), and a new State of InboxScreen after a
\* visit to the other tab: only the last future counts.
Reload ==
  /\ HomeOnTop
  /\ inbox' = "loading" /\ listed' = {}
  /\ UNCHANGED <<storeVars, home, screens, mail, advisorVars>>

\* GET /drafts/pending answers with the pending rows of all clients.
ShowPending ==
  /\ inbox = "loading"
  /\ inbox' = "data"
  /\ listed' = UNION {Pending(c) : c \in clients}
  /\ UNCHANGED <<storeVars, home, screens, mail, advisorVars>>

LoadFails ==
  /\ "network" \in Faults
  /\ inbox = "loading"
  /\ inbox' = "error"
  /\ UNCHANGED <<storeVars, listed, home, screens, mail, advisorVars>>

---------------------------------------------------------------------------
(***************************************************************************)
(* The detail screen.                                                      *)
(***************************************************************************)

\* A tile is tapped, when the transition of the screen above it is over.  The
\* list stays as it is below the new route.
OpenDraft ==
  /\ HomeOnTop /\ inbox = "data"
  /\ \A s \in DOMAIN screens : ~Mounted(s)
  /\ Len(screens) < MaxScreens
  /\ \E d \in listed :
       screens' = Append(screens,
         [draft |-> d, route |-> "open", isSending |-> FALSE,
          waitingForResume |-> FALSE, checking |-> 0, launching |-> 0,
          asking |-> 0, patching |-> 0, mailed |-> FALSE])
  /\ UNCHANGED <<storeVars, inbox, listed, home, mail, advisorVars>>

\* The back button, at any point of a send.
Back(s) ==
  /\ OnTop(s)
  /\ screens' = [screens EXCEPT ![s].route = "leaving"]
  /\ UNCHANGED <<storeVars, inbox, listed, home, mail, advisorVars>>

\* The exit transition is over; dispose() removes the life cycle observer.
Dispose(s) ==
  /\ screens[s].route = "leaving"
  /\ screens' = [screens EXCEPT ![s].route = "gone"]
  /\ UNCHANGED <<storeVars, inbox, listed, home, mail, advisorVars>>

\* "Approve & Send": _handleApproveAndSend up to canLaunchUrl.
ApproveAndSend(s) ==
  /\ OnTop(s) /\ ~screens[s].isSending
  /\ screens' = [screens EXCEPT ![s].isSending = TRUE, ![s].checking = @ + 1]
  /\ mailSent' = FALSE
  /\ UNCHANGED <<storeVars, inbox, listed, home, mail, mails>>

\* canLaunchUrl says no.
CannotLaunch(s) ==
  /\ "mail" \in Faults
  /\ screens[s].checking > 0
  /\ screens' = [screens EXCEPT ![s].checking = @ - 1, ![s].isSending = FALSE]
  /\ UNCHANGED <<storeVars, inbox, listed, home, mail, advisorVars>>

\* canLaunchUrl says yes, and launchUrl is called, also when the screen has
\* been left in the meantime.
LaunchMail(s) ==
  /\ screens[s].checking > 0 /\ screens[s].launching < MaxLaunches
  /\ screens' = [screens EXCEPT ![s].checking = @ - 1, ![s].launching = @ + 1,
                                ![s].waitingForResume = TRUE]
  /\ UNCHANGED <<storeVars, inbox, listed, home, mail, advisorVars>>

\* launchUrl opens the mail app, or fails, which nobody looks at.
MailOpens(s) ==
  /\ mail = 0 /\ screens[s].launching > 0
  /\ screens' = [screens EXCEPT ![s].launching = @ - 1]
  /\ mail' \in {s} \cup (IF "mail" \in Faults THEN {0} ELSE {})
  /\ UNCHANGED <<storeVars, inbox, listed, home, advisorVars>>

\* The advisor sends the mail in the mail app, if not for the first time.
SubmitMail ==
  /\ mail # 0 /\ mails < MaxMails
  /\ screens' = [screens EXCEPT ![mail].mailed = TRUE]
  /\ mails' = mails + 1 /\ mailSent' = TRUE
  /\ UNCHANGED <<storeVars, inbox, listed, home, mail>>

\* A faulty Asks for the mutation runs: dispose() leaves the observer in place.
AsksWhenGone(s) == screens[s].waitingForResume

\* A mounted screen observes the life cycle, and may wait for the next resume.
Asks(s) == Mounted(s) /\ screens[s].waitingForResume

\* A faulty Resumed for the mutation runs: the flag is not reset.
ResumedKeepsWaiting ==
  /\ mail # 0 \/ \E s \in DOMAIN screens : Asks(s)
  /\ mail' = 0
  /\ screens' = [s \in DOMAIN screens |->
       IF Asks(s) /\ screens[s].asking < 2
       THEN [screens[s] EXCEPT !.asking = @ + 1]
       ELSE screens[s]]
  /\ UNCHANGED <<storeVars, inbox, listed, home, advisorVars>>

\* "resumed" reaches the observers, that is the mounted screens: the one that
\* waits for it asks.  It also comes without a visit to the mail app.
Resumed ==
  /\ mail # 0 \/ \E s \in DOMAIN screens : Asks(s)
  /\ mail' = 0
  /\ screens' = [s \in DOMAIN screens |->
       IF Asks(s)
       THEN [screens[s] EXCEPT !.waitingForResume = FALSE, !.asking = @ + 1]
       ELSE screens[s]]
  /\ UNCHANGED <<storeVars, inbox, listed, home, advisorVars>>

\* "Not yet", or the back button, which closes the dialog too.
AnswerNo(s) ==
  /\ mail = 0 /\ screens[s].asking > 0
  /\ screens' = [screens EXCEPT ![s].asking = @ - 1, ![s].isSending = FALSE]
  /\ UNCHANGED <<storeVars, inbox, listed, home, mail, advisorVars>>

\* "Yes, sent": _markAsSent up to its PATCH, whichever mail the answer is about.
AnswerYes(s) ==
  /\ mail = 0 /\ screens[s].asking > 0
  /\ screens' = [screens EXCEPT ![s].asking = @ - 1, ![s].patching = @ + 1]
  /\ UNCHANGED <<storeVars, inbox, listed, home, mail, advisorVars>>

---------------------------------------------------------------------------
(***************************************************************************)
(* Marking the draft as sent.                                              *)
(***************************************************************************)

\* What the PATCH does to the row: status "sent", or nothing if it has it.
MarkRow(d) ==
  \/ UpdateStatus(d, "sent")
  \/ drafts[d].status = "sent" /\ UNCHANGED storeVars

\* Navigator.pop: the topmost route that is not yet on its way out, which for
\* a screen in its exit transition is the one below.
Pop(s) ==
  /\ home' = (home /\ screens[s].route # "leaving")
  /\ screens' = [screens EXCEPT
       ![s].patching = @ - 1,
       ![s].route = IF @ = "open" THEN "leaving" ELSE @]

PatchSucceeds(s) ==
  /\ screens[s].patching > 0
  /\ MarkRow(screens[s].draft)
  /\ Pop(s)
  /\ UNCHANGED <<inbox, listed, mail, advisorVars>>

\* A faulty FailedPatch for the mutation runs: the flag is not reset.
FailedPatchKeepsSending(s) ==
  screens' = [screens EXCEPT ![s].patching = @ - 1]

\* The PATCH fails, with or without its effect, or finds no row (404): the
\* button can be pressed again.
FailedPatch(s) ==
  screens' = [screens EXCEPT ![s].patching = @ - 1,
                             ![s].isSending = @ /\ ~Mounted(s)]

PatchFails(s) ==
  /\ screens[s].patching > 0
  /\ \/ "network" \in Faults /\ UNCHANGED storeVars
     \/ "network" \in Faults /\ MarkRow(screens[s].draft)
     \/ drafts[screens[s].draft].status = "deleted" /\ UNCHANGED storeVars
  /\ FailedPatch(s)
  /\ UNCHANGED <<inbox, listed, home, mail, advisorVars>>

---------------------------------------------------------------------------
Backend == NewDraft \/ RemoveClient
List == Reload \/ ShowPending \/ LoadFails
Navigate(s) == Back(s) \/ Dispose(s)
Send(s) == ApproveAndSend(s) \/ CannotLaunch(s) \/ LaunchMail(s) \/ MailOpens(s)
\* The advisor is honest.  The dialog names no draft, so she says yes when she
\* has sent a mail since she tapped the button, and not otherwise.
Confirm(s) == AnswerNo(s) \/ (mailSent /\ AnswerYes(s))
Patch(s) == PatchSucceeds(s) \/ PatchFails(s)

Next ==
  \/ Backend \/ List \/ OpenDraft \/ SubmitMail \/ Resumed
  \/ \E s \in DOMAIN screens : Navigate(s) \/ Send(s) \/ Confirm(s) \/ Patch(s)

Spec == Init /\ [][Next]_vars

\* The advisor comes back from the mail app and answers a dialog she is shown,
\* and HTTP requests end.
Return == mail # 0 /\ Resumed
Answer(s) == s \in DOMAIN screens /\ (Confirm(s) \/ Patch(s))
Returns == WF_vars(Return)
Answers(s) == WF_vars(Answer(s))
AllAnswered == \A s \in 1..MaxScreens : Answers(s)

FairSpec == Spec /\ Returns /\ AllAnswered

---------------------------------------------------------------------------
(***************************************************************************)
(* Properties.                                                             *)
(***************************************************************************)

\* No mail is counted twice: however many screens are left, resumed, failed or
\* asked about late, an honest advisor marks no more drafts as sent than the
\* mails she has sent.
SentDrafts == {d \in DOMAIN drafts : drafts[d].status = "sent"}
NoMailCountsTwice == Cardinality(SentDrafts) <= mails

\* A draft that an honest advisor marks as sent was mailed, as the dialog wants
\* it ("Please confirm that the message was submitted before marking this
\* draft as sent").  The code does not keep it: the mail of a screen that was
\* left can come up in place of that of the screen that asks.
SentMeansMailed ==
  \A d \in DOMAIN drafts :
    drafts[d].status = "sent" =>
      \E s \in DOMAIN screens : screens[s].draft = d /\ screens[s].mailed

\* At most one send is under way on a screen, whatever is tapped and however
\* often the app is resumed: one call, question or PATCH, or the wait for the
\* resume.  A pending launchUrl is not counted: after an early resume and "Not
\* yet" the next send starts beside it, and its mail comes up all the same.
OneSendAtATime ==
  \A s \in DOMAIN screens :
    LET waiting == IF screens[s].waitingForResume THEN 1 ELSE 0
    IN  /\ screens[s].checking + waiting + screens[s].asking + screens[s].patching <= 1
        /\ screens[s].checking + waiting + screens[s].asking + screens[s].patching = 1
             => screens[s].isSending

\* When the mail has been sent and the question is still to come, and the
\* advisor stays, she is asked, and the screen closes or the button comes back
\* in the end.
Mailed(s) ==
  /\ s \in DOMAIN screens
  /\ mail = s /\ screens[s].mailed /\ screens[s].waitingForResume
Settled(s) ==
  s \in DOMAIN screens => ~screens[s].isSending \/ screens[s].route # "open"

MailedSendEnds == \A s \in 1..MaxScreens : Mailed(s) ~> Settled(s)

===========================================================================
