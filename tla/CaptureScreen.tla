--------------------------- MODULE CaptureScreen --------------------------
(***************************************************************************)
(* The Capture tab of the app: the advisor picks a client, holds a button  *)
(* to record and releases it to upload.                                    *)
(*                                                                         *)
(* A hold is one long press of the button.  It starts a run of             *)
(* _onRecordStart, and its release one of _onRecordStop; both suspend at   *)
(* their awaits while the advisor goes on: other holds, other clients, the *)
(* other tab.  The code between two awaits is one step.  A callback set    *)
(* changes when a frame is drawn, not when the state it depends on does.   *)
(* Recorder, gestures and the widget life cycle are external.              *)
(***************************************************************************)
EXTENDS Entities, Naturals, Sequences

CONSTANTS
  NoClient,   \* no client is selected
  MaxHolds,   \* bound on the number of holds
  Faults      \* the faults that can happen: a subset of FaultKinds

FaultKinds == {"microphone", "network"}

ASSUME CaptureAssumption ==
  /\ NoClient \notin Clients
  /\ MaxHolds \in Nat
  /\ Faults \subseteq FaultKinds

VARIABLES
  shown,           \* the Capture tab is the one on display
  selected,        \* selectedClientProvider
  recordingState,  \* recordingStateProvider; "done" and "error" do not
                   \* outlive the step that sets them
  callbacks,       \* callbacks of the GestureDetector as of the last frame
  finger,          \* "none", "touching" or "holding" the button
  holds,           \* the holds so far, the current one last
  mic,             \* the hold whose recording is running, or 0
  stored           \* recordings in the bucket: [hold, rec, client], rec the
                   \* hold in which the recording was begun

vars == <<shown, selected, recordingState, callbacks, finger, holds, mic, stored>>

MaybeClient == Clients \cup {NoClient}

\* client: selected when the hold began; start, stop: where _onRecordStart and
\* _onRecordStop are ("late" is a start that took effect after its hold's
\* recording had been stopped); for: the client of the upload; rec: the
\* recording that stop() returned; alive: the State it belongs to is mounted.
Hold == [client : MaybeClient,
         start : {"waiting", "running", "late", "failed"},
         stop : {"none", "stopping", "presign", "put", "ended"},
         for : MaybeClient,
         rec : 0..MaxHolds,
         alive : BOOLEAN]
InProgress == {"stopping", "presign", "put"}

TypeOK ==
  /\ shown \in BOOLEAN
  /\ selected \in MaybeClient
  /\ recordingState \in {"idle", "recording", "uploading"}
  /\ callbacks \subseteq {"start", "end"}
  /\ finger \in {"none", "touching", "holding"}
  /\ holds \in Seq(Hold) /\ Len(holds) <= MaxHolds
  /\ mic \in 0..Len(holds)
  /\ stored \subseteq [hold : DOMAIN holds, rec : DOMAIN holds, client : Clients]
  /\ finger = "holding" => holds # <<>>
  /\ ~shown => finger = "none" /\ callbacks = {}

\* build(): the callbacks the button gets for the present state.
Callbacks ==
  {e \in {"start", "end"} :
     /\ selected # NoClient
     /\ e = "start" => recordingState # "uploading"
     /\ e = "end" => recordingState = "recording"}

Init ==
  /\ shown = TRUE
  /\ selected = NoClient
  /\ recordingState = "idle"
  /\ callbacks = {}
  /\ finger = "none"
  /\ holds = <<>>
  /\ mic = 0
  /\ stored = {}

---------------------------------------------------------------------------
(***************************************************************************)
(* Client picker, frames and tabs.                                         *)
(***************************************************************************)

\* A faulty SelectClient for the mutation runs: a dropdown, from which another
\* client can be chosen while one is selected.
SelectFromDropdown ==
  /\ shown
  /\ selected' \in Clients
  /\ UNCHANGED <<shown, recordingState, callbacks, finger, holds, mic, stored>>

\* Tapping a client in the list, which is on display from the frame on that
\* shows no client as selected.
SelectClient ==
  /\ shown /\ selected = NoClient /\ callbacks = {}
  /\ selected' \in Clients
  /\ UNCHANGED <<shown, recordingState, callbacks, finger, holds, mic, stored>>

\* The chip of the selected client is removed, also with a second finger.
ClearClient ==
  /\ shown /\ selected # NoClient
  /\ selected' = NoClient
  /\ UNCHANGED <<shown, recordingState, callbacks, finger, holds, mic, stored>>

\* The next frame.  Without callbacks there is no recognizer, and the finger
\* on the button is forgotten.
Rebuild ==
  /\ shown /\ callbacks # Callbacks
  /\ callbacks' = Callbacks
  /\ finger' = IF Callbacks = {} THEN "none" ELSE finger
  /\ UNCHANGED <<shown, selected, recordingState, holds, mic, stored>>

\* A faulty Leave for the mutation runs: the gesture survives its button.
LeaveHolding ==
  /\ shown
  /\ shown' = FALSE
  /\ holds' = [h \in DOMAIN holds |-> [holds[h] EXCEPT !.alive = FALSE]]
  /\ UNCHANGED <<selected, recordingState, callbacks, finger, mic, stored>>

\* The Inbox tab is chosen: the button's State is disposed of; providers and
\* suspended calls live on.
Leave ==
  /\ shown
  /\ shown' = FALSE
  /\ callbacks' = {}
  /\ finger' = "none"
  /\ holds' = [h \in DOMAIN holds |-> [holds[h] EXCEPT !.alive = FALSE]]
  /\ UNCHANGED <<selected, recordingState, mic, stored>>

\* Back to the Capture tab, with a new State.
Return ==
  /\ ~shown
  /\ shown' = TRUE
  /\ callbacks' = Callbacks
  /\ UNCHANGED <<selected, recordingState, finger, holds, mic, stored>>

---------------------------------------------------------------------------
(***************************************************************************)
(* Holding the button.                                                     *)
(***************************************************************************)

\* A finger goes down; the frame after the last gesture has long been drawn.
Touch ==
  /\ finger = "none"
  /\ callbacks # {} /\ callbacks = Callbacks
  /\ Len(holds) < MaxHolds
  /\ finger' = "touching"
  /\ UNCHANGED <<shown, selected, recordingState, callbacks, holds, mic, stored>>

\* The press is long enough: onLongPressStart, _onRecordStart up to its await.
LongPress ==
  /\ finger = "touching" /\ "start" \in callbacks
  /\ finger' = "holding"
  /\ recordingState' = "recording"
  /\ holds' = Append(holds, [client |-> selected, start |-> "waiting",
                             stop |-> "none", for |-> NoClient, rec |-> 0,
                             alive |-> TRUE])
  /\ UNCHANGED <<shown, selected, callbacks, mic, stored>>

\* The touch was a tap, or the system took the pointer away (a permission
\* dialog, a call): no callback runs.
LosePointer ==
  /\ finger # "none"
  /\ finger' = "none"
  /\ UNCHANGED <<shown, selected, recordingState, callbacks, holds, mic, stored>>

\* The release: onLongPressEnd, if a frame has set it, is _onRecordStop, which
\* returns when no client is selected any more.
Release ==
  /\ finger = "holding"
  /\ finger' = "none"
  /\ IF "end" \in callbacks /\ selected # NoClient
     THEN /\ recordingState' = "uploading"
          /\ holds' = [holds EXCEPT ![Len(holds)].stop = "stopping",
                                    ![Len(holds)].for = selected]
     ELSE UNCHANGED <<recordingState, holds>>
  /\ UNCHANGED <<shown, selected, callbacks, mic, stored>>

\* startRecording() has asked for permission and starts the recorder, which
\* takes its calls in order and ends a recording that is still running.
CanStart(h) ==
  /\ holds[h].start = "waiting"
  /\ \A g \in 1..(h - 1) : holds[g].start # "waiting" /\ holds[g].stop # "stopping"

RecorderStarts(h) ==
  /\ CanStart(h)
  /\ mic' = h
  /\ holds' = [holds EXCEPT ![h].start =
                 IF holds[h].stop \in {"none", "stopping"} THEN "running" ELSE "late"]
  /\ UNCHANGED <<shown, selected, recordingState, callbacks, finger, stored>>

\* No permission, or start() throws: back to idle, unless the State is gone,
\* whose ref throws instead.
StartFails(h) ==
  /\ "microphone" \in Faults
  /\ CanStart(h)
  /\ holds' = [holds EXCEPT ![h].start = "failed"]
  /\ recordingState' = IF holds[h].alive THEN "idle" ELSE recordingState
  /\ UNCHANGED <<shown, selected, callbacks, finger, mic, stored>>

---------------------------------------------------------------------------
(***************************************************************************)
(* After the release: stopAndUpload.                                       *)
(***************************************************************************)

\* A faulty Ended for the mutation runs: idle is set on success only.
EndedOnSuccess(h) ==
  /\ holds' = [holds EXCEPT ![h].stop = "ended"]
  /\ recordingState' = IF holds[h].alive /\ holds[h].stop = "put" THEN "idle"
                       ELSE recordingState

\* _onRecordStop comes to its end, by success, catch and finally alike: it
\* sets idle through the ref of its State, which throws when that is gone.
Ended(h) ==
  /\ holds' = [holds EXCEPT ![h].stop = "ended"]
  /\ recordingState' = IF holds[h].alive THEN "idle" ELSE recordingState

\* A faulty StopRecorder for the mutation runs: the path of the last recording
\* is returned whether it is still running or not.
StopKeepsPath(h) ==
  /\ holds[h].stop = "stopping"
  /\ IF mic = 0
     THEN Ended(h) /\ UNCHANGED mic
     ELSE /\ holds' = [holds EXCEPT ![h].stop = "presign", ![h].rec = mic]
          /\ UNCHANGED <<mic, recordingState>>
  /\ UNCHANGED <<shown, selected, callbacks, finger, stored>>

\* stop() returns the running recording, or null, which is an error.
StopRecorder(h) ==
  /\ holds[h].stop = "stopping"
  /\ IF mic = 0
     THEN Ended(h) /\ UNCHANGED mic
     ELSE /\ holds' = [holds EXCEPT ![h].stop = "presign", ![h].rec = mic]
          /\ mic' = 0
          /\ UNCHANGED recordingState
  /\ UNCHANGED <<shown, selected, callbacks, finger, stored>>

\* POST /audio/presign for the client of the upload.
PresignUpload(h) ==
  /\ holds[h].stop = "presign"
  /\ holds' = [holds EXCEPT ![h].stop = "put"]
  /\ UNCHANGED <<shown, selected, recordingState, callbacks, finger, mic, stored>>

\* The PUT to MinIO stores the recording; its temp file is deleted.
PutBytes(h) ==
  /\ holds[h].stop = "put"
  /\ stored' = stored \cup {[hold |-> h, rec |-> holds[h].rec, client |-> holds[h].for]}
  /\ Ended(h)
  /\ UNCHANGED <<shown, selected, callbacks, finger, mic>>

\* Presign or PUT fails (a client that is gone, no network): the temp file is
\* deleted all the same.
UploadFails(h) ==
  /\ "network" \in Faults
  /\ holds[h].stop \in {"presign", "put"}
  /\ Ended(h)
  /\ UNCHANGED <<shown, selected, callbacks, finger, mic, stored>>

---------------------------------------------------------------------------
Picker == SelectClient \/ ClearClient \/ Rebuild \/ Leave \/ Return
Gesture == Touch \/ LongPress \/ LosePointer \/ Release
Record(h) == RecorderStarts(h) \/ StartFails(h)
Upload(h) == StopRecorder(h) \/ PresignUpload(h) \/ PutBytes(h) \/ UploadFails(h)

Next ==
  \/ Picker
  \/ Gesture
  \/ \E h \in DOMAIN holds : Record(h) \/ Upload(h)

Spec == Init /\ [][Next]_vars

---------------------------------------------------------------------------
(***************************************************************************)
(* Properties.                                                             *)
(***************************************************************************)

\* A hold that lasts until the recorder runs uploads what was recorded in it,
\* for the client who was selected when it began, whatever was left running
\* by earlier holds and whatever is tapped meanwhile.
HoldIsFiledRight ==
  \A s \in stored :
    holds[s.hold].start = "running" =>
      /\ s.rec = s.hold
      /\ s.client = holds[s.hold].client

\* No recording is uploaded twice.
RecordingStoredOnce ==
  \A s, t \in stored : s.rec = t.rec => s = t

\* While the advisor stays on the tab and the microphone works, the button
\* shows an upload exactly when there is one, and there is at most one.
ButtonShowsUpload ==
  (\A h \in DOMAIN holds : holds[h].alive /\ holds[h].start # "failed") =>
    /\ recordingState = "uploading"
         <=> \E h \in DOMAIN holds : holds[h].stop \in InProgress
    /\ \A g, h \in DOMAIN holds :
         holds[g].stop \in InProgress /\ holds[h].stop \in InProgress => g = h

---------------------------------------------------------------------------
(***************************************************************************)
(* What the repository says and the code does not do.                      *)
(***************************************************************************)

\* capture_screen_test.dart:144, "selecting a client shows chip and enables
\* record button": once the frame is drawn, and no upload is in progress, it
\* can be held.
SelectionEnablesRecording ==
  /\ shown /\ selected # NoClient
  /\ callbacks = Callbacks
  /\ \A h \in DOMAIN holds : holds[h].stop \notin InProgress
  => "start" \in callbacks
===========================================================================
