------------------------ MODULE CaptureScreen_proofs ----------------------
(***************************************************************************)
(* Proofs about CaptureScreen, for any set of clients, any number of holds *)
(* and any faults.                                                         *)
(***************************************************************************)
EXTENDS CaptureScreen, TLAPS

\* A recording on its way to the bucket, and one the recorder has begun.
Sending(h) == holds[h].stop \in {"presign", "put"}
Begun(h) == h \in DOMAIN holds /\ holds[h].start \in {"running", "late"}

\* A finger needs a button, and while the last hold is held its client is the
\* only one that can be selected.
FingerOnButton ==
  /\ finger # "none" => callbacks # {}
  /\ finger = "touching" => Len(holds) < MaxHolds
  /\ finger = "holding" =>
       /\ selected \in {holds[Len(holds)].client, NoClient}
       /\ holds[Len(holds)].stop = "none"

\* The upload of a hold is for its client.
ForItsClient ==
  \A h \in DOMAIN holds :
    holds[h].stop # "none" => holds[h].for = holds[h].client /\ holds[h].client \in Clients

\* The recorder takes its calls in order.
InOrder ==
  \A g, h \in DOMAIN holds :
    g < h /\ Begun(h) => holds[g].start # "waiting" /\ holds[g].stop # "stopping"

\* A hold that is running has the recorder until its recording is stopped.
HasRecorder ==
  \A h \in DOMAIN holds :
    /\ holds[h].start = "running"
    /\ holds[h].stop = "stopping" \/ (holds[h].stop = "none" /\ h = Len(holds))
    => mic \in {0, h}

\* What is sent for a hold that was running is its own recording.
SendsItsOwn ==
  \A h \in DOMAIN holds : holds[h].start = "running" /\ Sending(h) => holds[h].rec = h

StoredWhenEnded ==
  \A s \in stored :
    /\ holds[s.hold].stop = "ended"
    /\ s.client = holds[s.hold].client
    /\ holds[s.hold].start = "running" => s.rec = s.hold

\* A recording is in the recorder, or on its way for one hold, or stored once.
OnePlace ==
  /\ mic # 0 => Begun(mic)
  /\ \A h \in DOMAIN holds :
       Sending(h) =>
         /\ Begun(holds[h].rec) /\ holds[h].rec # mic
         /\ \A g \in DOMAIN holds : Sending(g) /\ holds[g].rec = holds[h].rec => g = h
  /\ \A s \in stored :
       /\ Begun(s.rec) /\ s.rec # mic
       /\ \A h \in DOMAIN holds : Sending(h) => holds[h].rec # s.rec
  /\ RecordingStoredOnce

CaptureInv ==
  /\ TypeOK
  /\ FingerOnButton
  /\ ForItsClient
  /\ InOrder
  /\ HasRecorder
  /\ SendsItsOwn
  /\ StoredWhenEnded
  /\ OnePlace

\* The premise of ButtonShowsUpload.
Undisturbed == \A h \in DOMAIN holds : holds[h].alive /\ holds[h].start # "failed"

\* No hold is begun during an upload.
NoHoldDuringUpload ==
  /\ Undisturbed
  /\ finger = "holding" \/ (finger = "touching" /\ "start" \in callbacks)
  => recordingState # "uploading"

---------------------------------------------------------------------------
(***************************************************************************)
(* Steps on the holds.                                                     *)
(***************************************************************************)

HoldsFacts == /\ holds \in Seq(Hold) /\ Len(holds) \in Nat /\ MaxHolds \in Nat
              /\ DOMAIN holds = 1..Len(holds) /\ Len(holds) <= MaxHolds
              /\ mic \in 0..Len(holds)
              /\ \A h \in DOMAIN holds : holds[h] \in Hold

\* What TypeOK says of each hold, as the steps below use it.
LEMMA TypedHolds == TypeOK => HoldsFacts
BY CaptureAssumption DEF TypeOK, HoldsFacts

\* A step that changes one hold.
LEMMA OneHold ==
  ASSUME HoldsFacts, NEW h \in DOMAIN holds, NEW new \in Hold,
         holds' = [holds EXCEPT ![h] = new]
  PROVE  /\ holds' \in Seq(Hold) /\ Len(holds') = Len(holds)
         /\ DOMAIN holds' = DOMAIN holds
         /\ holds'[h] = new
         /\ \A g \in DOMAIN holds : g # h => holds'[g] = holds[g]
BY DEF HoldsFacts

\* What the invariant depends on stays as it is, but for finger and selection.
LEMMA HoldsKept ==
  ASSUME CaptureInv, TypeOK', FingerOnButton', UNCHANGED <<mic, stored>>,
         DOMAIN holds' = DOMAIN holds, Len(holds') = Len(holds),
         \A h \in DOMAIN holds :
           /\ holds'[h].client = holds[h].client /\ holds'[h].start = holds[h].start
           /\ holds'[h].stop = holds[h].stop /\ holds'[h].for = holds[h].for
           /\ holds'[h].rec = holds[h].rec
  PROVE  CaptureInv'
<1>1. \A s \in stored : s.hold \in DOMAIN holds /\ s.rec \in DOMAIN holds
  BY DEF CaptureInv, TypeOK
<1>2. \A h : /\ Begun(h)' <=> Begun(h)
             /\ h \in DOMAIN holds => (Sending(h)' <=> Sending(h))
  BY DEF Begun, Sending
<1>3. ForItsClient' /\ HasRecorder' /\ StoredWhenEnded'
  BY <1>1 DEF CaptureInv, ForItsClient, HasRecorder, StoredWhenEnded
<1>4. InOrder' /\ SendsItsOwn'
  BY <1>2 DEF CaptureInv, InOrder, SendsItsOwn
<1>5. OnePlace'
  BY <1>2 DEF CaptureInv, OnePlace, RecordingStoredOnce
<1> QED
  BY <1>3, <1>4, <1>5 DEF CaptureInv

---------------------------------------------------------------------------
\* The steps that leave the holds alone.
LEMMA PickerStep ==
  ASSUME CaptureInv,
         SelectClient \/ ClearClient \/ Rebuild \/ Return \/ Touch \/ LosePointer \/ UNCHANGED vars
  PROVE  CaptureInv'
<1>1. UNCHANGED <<holds, mic, stored>>
  BY DEF SelectClient, ClearClient, Rebuild, Return, Touch, LosePointer, vars
<1>0. TypeOK /\ FingerOnButton
  BY DEF CaptureInv
<1>2. CASE SelectClient
  BY <1>0, <1>1, <1>2, HoldsKept DEF SelectClient, TypeOK, FingerOnButton, MaybeClient
<1>3. CASE ClearClient
  BY <1>0, <1>1, <1>3, HoldsKept DEF ClearClient, TypeOK, FingerOnButton, MaybeClient
<1>4. CASE Rebuild
  <2>1. Callbacks \subseteq {"start", "end"}
    BY DEF Callbacks
  <2> QED
    BY <1>0, <1>1, <1>4, <2>1, HoldsKept DEF Rebuild, TypeOK, FingerOnButton
<1>5. CASE Return
  <2>1. Callbacks \subseteq {"start", "end"}
    BY DEF Callbacks
  <2> QED
    BY <1>0, <1>1, <1>5, <2>1, HoldsKept DEF Return, TypeOK, FingerOnButton
<1>6. CASE Touch
  BY <1>0, <1>1, <1>6, HoldsKept DEF Touch, TypeOK, FingerOnButton
<1>7. CASE LosePointer
  BY <1>0, <1>1, <1>7, HoldsKept DEF LosePointer, TypeOK, FingerOnButton
<1>8. CASE UNCHANGED vars
  BY <1>0, <1>1, <1>8, HoldsKept DEF vars, TypeOK, FingerOnButton
<1> QED
  BY <1>2, <1>3, <1>4, <1>5, <1>6, <1>7, <1>8

\* Leaving the tab or a lost pointer keeps what is claimed of a hold.
LEMMA LeaveStep ==
  ASSUME CaptureInv, Leave
  PROVE  CaptureInv'
<1>1. HoldsFacts
  BY TypedHolds DEF CaptureInv
<1>2. /\ DOMAIN holds' = DOMAIN holds
      /\ \A h \in DOMAIN holds : holds'[h] = [holds[h] EXCEPT !.alive = FALSE]
  BY DEF Leave
<1>3. \A h \in DOMAIN holds :
        /\ holds'[h] \in Hold
        /\ holds'[h].client = holds[h].client /\ holds'[h].start = holds[h].start
        /\ holds'[h].stop = holds[h].stop /\ holds'[h].for = holds[h].for
        /\ holds'[h].rec = holds[h].rec
  <2>1. ASSUME NEW x \in Hold
        PROVE  LET y == [x EXCEPT !.alive = FALSE]
               IN  /\ y \in Hold /\ y.client = x.client /\ y.start = x.start
                   /\ y.stop = x.stop /\ y.for = x.for /\ y.rec = x.rec
    BY DEF Hold
  <2> QED
    BY <1>1, <1>2, <2>1 DEF HoldsFacts
<1> DEFINE unmounted(h) == [holds[h] EXCEPT !.alive = FALSE]
<1>4. holds' = [h \in DOMAIN holds |-> holds'[h]]
  <2>1. holds' = [h \in DOMAIN holds |-> unmounted(h)]
    BY DEF Leave
  <2> HIDE DEF unmounted
  <2> QED
    BY <2>1
<1>5. holds' \in Seq(Hold) /\ Len(holds') = Len(holds)
  BY <1>1, <1>3, <1>4 DEF HoldsFacts
<1>6. TypeOK'
  BY <1>2, <1>5 DEF CaptureInv, TypeOK, Leave
<1>7. FingerOnButton'
  BY DEF Leave, FingerOnButton
<1> QED
  BY <1>2, <1>3, <1>5, <1>6, <1>7, HoldsKept DEF Leave

\* So does the beginning of a hold (onLongPressStart).
LEMMA LongPressStep ==
  ASSUME CaptureInv, LongPress
  PROVE  CaptureInv'
<1> DEFINE new == [client |-> selected, start |-> "waiting", stop |-> "none",
                   for |-> NoClient, rec |-> 0, alive |-> TRUE]
           n == Len(holds) + 1
<1>1. HoldsFacts /\ TypeOK
  BY TypedHolds DEF CaptureInv
<1>2. new \in Hold
  BY <1>1 DEF Hold, TypeOK, MaybeClient, HoldsFacts
<1>3. /\ holds' \in Seq(Hold) /\ Len(holds') = n /\ n \in Nat
      /\ DOMAIN holds' = DOMAIN holds \cup {n} /\ n \notin DOMAIN holds
      /\ holds'[n] = new
      /\ \A h \in DOMAIN holds : holds'[h] = holds[h] /\ h < n
  BY <1>1, <1>2 DEF LongPress, HoldsFacts
<1>4. /\ holds'[n].client = selected /\ holds'[n].start = "waiting"
      /\ holds'[n].stop = "none" /\ holds'[n].alive = TRUE
  BY <1>3
<1> HIDE DEF new
<1>5. UNCHANGED <<shown, selected, callbacks, mic, stored>> /\ finger' = "holding"
  BY DEF LongPress
<1>6. \A h : Begun(h)' <=> Begun(h)
  BY <1>3, <1>4 DEF Begun
<1>7. \A h : h \in DOMAIN holds' /\ Sending(h)' => h \in DOMAIN holds /\ Sending(h)
  BY <1>3, <1>4 DEF Sending
<1>8. n <= MaxHolds
  BY <1>1 DEF LongPress, CaptureInv, FingerOnButton, HoldsFacts
<1>9. TypeOK'
  BY <1>1, <1>3, <1>5, <1>8 DEF LongPress, TypeOK, HoldsFacts
<1>10. FingerOnButton'
  BY <1>3, <1>4, <1>5 DEF FingerOnButton, CaptureInv, LongPress
<1>11. ForItsClient'
  BY <1>3, <1>4 DEF CaptureInv, ForItsClient
<1>12. InOrder'
  <2> SUFFICES ASSUME NEW g \in DOMAIN holds', NEW h \in DOMAIN holds', g < h, Begun(h)'
               PROVE  holds'[g].start # "waiting" /\ holds'[g].stop # "stopping"
    BY DEF InOrder
  <2>1. Begun(h) /\ h \in DOMAIN holds
    BY <1>6 DEF Begun
  <2>2. g \in DOMAIN holds
    BY <1>1, <1>3, <2>1 DEF HoldsFacts
  <2> QED
    BY <1>3, <2>1, <2>2 DEF CaptureInv, InOrder
<1>13. HasRecorder'
  BY <1>1, <1>3, <1>4, <1>5 DEF CaptureInv, HasRecorder, HoldsFacts
<1>14. SendsItsOwn'
  BY <1>3, <1>7 DEF CaptureInv, SendsItsOwn
<1>15. StoredWhenEnded'
  BY <1>1, <1>3, <1>5 DEF CaptureInv, StoredWhenEnded, TypeOK
<1>16. OnePlace'
  BY <1>3, <1>5, <1>6, <1>7 DEF CaptureInv, OnePlace, RecordingStoredOnce
<1> QED
  BY <1>9, <1>10, <1>11, <1>12, <1>13, <1>14, <1>15, <1>16 DEF CaptureInv

\* So does its release (onLongPressEnd).
LEMMA ReleaseStep ==
  ASSUME CaptureInv, Release
  PROVE  CaptureInv'
<1> DEFINE n == Len(holds)
           x == holds[n]
           new == [x EXCEPT !.stop = "stopping", !.for = selected]
<1>1. HoldsFacts /\ TypeOK /\ FingerOnButton
  BY TypedHolds DEF CaptureInv
<1>2. CASE UNCHANGED holds
  BY <1>1, <1>2, HoldsKept DEF Release, TypeOK, FingerOnButton
<1>3. CASE ~UNCHANGED holds
  <2>1. /\ selected # NoClient
        /\ holds' = [holds EXCEPT ![Len(holds)].stop = "stopping",
                                  ![Len(holds)].for = selected]
    BY <1>3 DEF Release
  <2>2. n \in DOMAIN holds /\ x \in Hold /\ selected \in Clients
    BY <1>1, <2>1 DEF Release, TypeOK, HoldsFacts, MaybeClient
  <2>3. /\ holds' = [holds EXCEPT ![n] = new]
        /\ UNCHANGED <<shown, selected, callbacks, mic, stored>>
        /\ finger' = "none" /\ recordingState' \in {"uploading", recordingState}
    BY <2>1 DEF Release
  <2>4. x.stop = "none" /\ x.client = selected
    BY <1>1, <2>1 DEF Release, FingerOnButton
  <2> HIDE DEF x
  <2>5. new \in Hold
    BY <2>2, Zenon DEF Hold, MaybeClient
  <2>6. /\ new.client = x.client /\ new.start = x.start /\ new.rec = x.rec
        /\ new.stop = "stopping" /\ new.for = selected
    BY <2>2 DEF Hold
  <2> HIDE DEF new
  <2>7. /\ holds' \in Seq(Hold) /\ Len(holds') = n /\ DOMAIN holds' = DOMAIN holds
        /\ holds'[n] = new
        /\ \A g \in DOMAIN holds : g # n => holds'[g] = holds[g]
    BY <1>1, <2>2, <2>3, <2>5, OneHold
  <2>8. /\ holds'[n].client = x.client /\ holds'[n].start = x.start
        /\ holds'[n].rec = x.rec /\ holds'[n].stop = "stopping"
        /\ holds'[n].for = x.client /\ x.client \in Clients
    BY <2>2, <2>4, <2>6, <2>7
  <2>9. \A h : Begun(h)' <=> Begun(h)
    BY <2>2, <2>7, <2>8 DEF Begun, x
  <2>10. \A h \in DOMAIN holds : Sending(h)' <=> Sending(h)
    BY <2>4, <2>7, <2>8 DEF Sending, x
  <2>11. TypeOK'
    BY <1>1, <2>3, <2>7 DEF TypeOK, HoldsFacts
  <2>12. FingerOnButton'
    BY <2>3 DEF FingerOnButton
  <2>13. ForItsClient'
    BY <2>7, <2>8 DEF CaptureInv, ForItsClient
  <2>14. InOrder'
    <3>1. \A g, h \in DOMAIN holds : g < h => g # n
      BY <1>1 DEF HoldsFacts
    <3> QED
      BY <2>7, <2>9, <3>1 DEF CaptureInv, InOrder
  <2>15. HasRecorder'
    BY <2>3, <2>4, <2>7, <2>8 DEF CaptureInv, HasRecorder, x
  <2>16. SendsItsOwn'
    BY <2>7, <2>8, <2>10 DEF CaptureInv, SendsItsOwn, Sending
  <2>17. StoredWhenEnded'
    BY <1>1, <2>3, <2>4, <2>7, <2>8 DEF CaptureInv, StoredWhenEnded, TypeOK, x
  <2>18. OnePlace'
    BY <2>3, <2>7, <2>8, <2>9, <2>10 DEF CaptureInv, OnePlace, RecordingStoredOnce, x
  <2> QED
    BY <2>11, <2>12, <2>13, <2>14, <2>15, <2>16, <2>17, <2>18 DEF CaptureInv
<1> QED
  BY <1>2, <1>3

\* So do the steps of _onRecordStart.
LEMMA RecordStep ==
  ASSUME CaptureInv, NEW h \in DOMAIN holds, Record(h)
  PROVE  CaptureInv'
<1>1. HoldsFacts /\ TypeOK /\ FingerOnButton
  BY TypedHolds DEF CaptureInv
<1> DEFINE x == holds[h]
<1>2. PICK to \in {"running", "late", "failed"} :
        /\ holds' = [holds EXCEPT ![h].start = to]
        /\ to = "running" => x.stop \in {"none", "stopping"}
        /\ mic' = IF to = "failed" THEN mic ELSE h
  <2>1. CASE RecorderStarts(h)
    BY <2>1 DEF RecorderStarts
  <2>2. CASE StartFails(h)
    BY <2>2 DEF StartFails
  <2> QED
    BY <2>1, <2>2 DEF Record
<1>3. /\ UNCHANGED <<shown, selected, callbacks, finger, stored>>
      /\ recordingState' \in {"idle", recordingState}
      /\ CanStart(h)
  BY DEF Record, RecorderStarts, StartFails
<1> DEFINE new == [x EXCEPT !.start = to]
<1>4. holds' = [holds EXCEPT ![h] = new]
  BY <1>2
<1>5. x \in Hold /\ x.start = "waiting"
  BY <1>1, <1>3 DEF HoldsFacts, CanStart
<1> HIDE DEF x
<1>6. /\ new \in Hold /\ new.client = x.client /\ new.start = to /\ new.rec = x.rec
      /\ new.stop = x.stop /\ new.for = x.for
  BY <1>5 DEF Hold
<1> HIDE DEF new
<1>7. /\ holds' \in Seq(Hold) /\ Len(holds') = Len(holds) /\ DOMAIN holds' = DOMAIN holds
      /\ holds'[h] = new
      /\ \A g \in DOMAIN holds : g # h => holds'[g] = holds[g]
  BY <1>1, <1>4, <1>6, OneHold
<1>8. /\ \A g \in DOMAIN holds :
           /\ holds'[g].client = holds[g].client /\ holds'[g].rec = holds[g].rec
           /\ holds'[g].stop = holds[g].stop /\ holds'[g].for = holds[g].for
           /\ g # h => holds'[g].start = holds[g].start
      /\ holds'[h].start = to /\ holds[h].start = "waiting"
  BY <1>5, <1>6, <1>7 DEF x
<1>9. \A g : Begun(g)' <=> Begun(g) \/ (g = h /\ to # "failed")
  BY <1>7, <1>8 DEF Begun
<1>10. ~Begun(h)
  BY <1>8 DEF Begun
<1>11. \A g \in DOMAIN holds : Sending(g)' <=> Sending(g)
  BY <1>7, <1>8 DEF Sending
<1>12. mic' \in {mic, h} /\ (to # "failed" => mic' = h) /\ (to = "failed" => mic' = mic)
  BY <1>2
<1>13. TypeOK'
  BY <1>1, <1>3, <1>7, <1>12 DEF TypeOK, HoldsFacts
<1>14. FingerOnButton'
  <2>1. finger = "holding" => Len(holds) \in DOMAIN holds
    BY <1>1 DEF TypeOK, HoldsFacts
  <2> QED
    BY <1>1, <1>3, <1>7, <1>8, <2>1 DEF FingerOnButton
<1>15. ForItsClient'
  BY <1>7, <1>8 DEF CaptureInv, ForItsClient
<1>16. InOrder'
  <2> SUFFICES ASSUME NEW f \in DOMAIN holds, NEW g \in DOMAIN holds, f < g, Begun(g)'
               PROVE  holds'[f].start # "waiting" /\ holds'[f].stop # "stopping"
    BY <1>7 DEF InOrder
  <2>1. holds[f].start # "waiting" /\ holds[f].stop # "stopping"
    <3>1. CASE Begun(g)
      BY <3>1 DEF CaptureInv, InOrder
    <3>2. CASE g = h
      BY <1>1, <1>3, <3>2 DEF CanStart, HoldsFacts
    <3> QED
      BY <1>9, <3>1, <3>2
  <2> QED
    BY <1>8, <2>1
<1>17. HasRecorder'
  <2> SUFFICES ASSUME NEW g \in DOMAIN holds, holds'[g].start = "running",
                      holds'[g].stop = "stopping"
                        \/ (holds'[g].stop = "none" /\ g = Len(holds'))
               PROVE  mic' \in {0, g}
    BY <1>7 DEF HasRecorder
  <2>1. CASE g = h
    BY <1>8, <1>12, <2>1
  <2>2. CASE g # h
    <3>1. /\ holds[g].start = "running" /\ mic \in {0, g}
          /\ holds[g].stop = "stopping" \/ g = Len(holds)
      BY <1>7, <1>8, <2>2 DEF CaptureInv, HasRecorder
    <3>2. ~(h < g)
      BY <1>8, <3>1 DEF CaptureInv, InOrder, Begun
    <3>3. g < h
      BY <1>1, <2>2, <3>2 DEF HoldsFacts
    <3> QED
      BY <1>1, <1>3, <3>1, <3>3 DEF CanStart, HoldsFacts
  <2> QED
    BY <2>1, <2>2
<1>18. SendsItsOwn'
  <2>1. to = "running" => ~Sending(h)
    BY <1>2 DEF Sending, x
  <2> QED
    BY <1>7, <1>8, <1>11, <2>1 DEF CaptureInv, SendsItsOwn
<1>19. StoredWhenEnded'
  <2>1. to = "running" => holds[h].stop # "ended"
    BY <1>2 DEF x
  <2> QED
    BY <1>1, <1>3, <1>7, <1>8, <2>1 DEF CaptureInv, StoredWhenEnded, TypeOK
<1>20. OnePlace'
  <2>a. mic' = mic \/ mic' = h
    BY <1>12
  <2>b. /\ \A g \in DOMAIN holds : Sending(g) => Begun(holds[g].rec) /\ holds[g].rec # mic
        /\ \A s \in stored : Begun(s.rec) /\ s.rec # mic
    BY DEF CaptureInv, OnePlace
  <2>1. \A g \in DOMAIN holds : Sending(g) => holds[g].rec # mic'
    BY <1>10, <2>a, <2>b
  <2>2. \A s \in stored : s.rec # mic'
    BY <1>10, <2>a, <2>b
  <2>3. (mic # 0 => Begun(mic))'
    <3>1. mic # 0 => Begun(mic)
      BY DEF CaptureInv, OnePlace
    <3>2. CASE mic' = h /\ to # "failed"
      BY <1>7, <1>8, <3>2 DEF Begun
    <3>3. CASE mic' = mic
      <4>1. mic # 0 => mic \in DOMAIN holds /\ mic # h
        BY <1>10, <3>1 DEF Begun
      <4> QED
        BY <1>7, <3>1, <3>3, <4>1 DEF Begun
    <3> QED
      BY <1>12, <3>2, <3>3
  <2>4. \A g \in DOMAIN holds : Sending(g) =>
          /\ Begun(holds[g].rec)
          /\ \A f \in DOMAIN holds : Sending(f) /\ holds[f].rec = holds[g].rec => f = g
    BY DEF CaptureInv, OnePlace
  <2>5. ASSUME NEW g \in DOMAIN holds, Sending(g)
        PROVE  holds'[g].rec = holds[g].rec /\ holds'[g].rec # mic'
               /\ holds'[g].rec \in DOMAIN holds'
               /\ holds'[holds'[g].rec].start \in {"running", "late"}
    <3> DEFINE r == holds[g].rec
    <3>1. Begun(r) /\ r # mic'
      BY <2>1, <2>4, <2>5
    <3>2. r \in DOMAIN holds /\ r # h /\ holds[r].start \in {"running", "late"}
      BY <1>10, <3>1 DEF Begun
    <3>3. holds'[r].start = holds[r].start /\ holds'[g].rec = r
      BY <1>8, <3>2
    <3> HIDE DEF r
    <3> QED
      BY <1>7, <3>1, <3>2, <3>3 DEF r
  <2>6. (\A g \in DOMAIN holds :
          Sending(g) =>
            /\ Begun(holds[g].rec) /\ holds[g].rec # mic
            /\ \A f \in DOMAIN holds : Sending(f) /\ holds[f].rec = holds[g].rec => f = g)'
    BY <1>7, <1>11, <2>4, <2>5 DEF Begun
  <2>7. (\A s \in stored :
          /\ Begun(s.rec) /\ s.rec # mic
          /\ \A g \in DOMAIN holds : Sending(g) => holds[g].rec # s.rec)'
    BY <1>3, <1>7, <1>8, <1>9, <1>11, <2>2 DEF CaptureInv, OnePlace
  <2>8. RecordingStoredOnce'
    BY <1>3 DEF CaptureInv, OnePlace, RecordingStoredOnce
  <2> QED
    BY <2>3, <2>6, <2>7, <2>8 DEF OnePlace
<1> QED
  BY <1>13, <1>14, <1>15, <1>16, <1>17, <1>18, <1>19, <1>20 DEF CaptureInv

\* The four ways in which an upload goes on.
Taken(h, to, r) == /\ holds[h].stop = "stopping" /\ mic # 0 /\ to = "presign" /\ r = mic
                   /\ mic' = 0 /\ UNCHANGED <<stored, recordingState>>
Onward(h, to, r) == /\ holds[h].stop = "presign" /\ to = "put" /\ r = holds[h].rec
                    /\ UNCHANGED <<mic, stored, recordingState>>
Over(h, to, r) == /\ holds[h].stop \in InProgress /\ to = "ended" /\ r = holds[h].rec
                  /\ UNCHANGED <<mic, stored>>
                  /\ holds[h].alive => recordingState' = "idle"
Done(h, to, r) == /\ holds[h].stop = "put" /\ to = "ended" /\ r = holds[h].rec
                  /\ UNCHANGED mic
                  /\ holds[h].alive => recordingState' = "idle"
                  /\ stored' = stored \cup
                       {[hold |-> h, rec |-> holds[h].rec, client |-> holds[h].for]}

\* The steps of _onRecordStop and of the upload, case by case.
LEMMA UploadCases ==
  ASSUME HoldsFacts, NEW h \in DOMAIN holds, Upload(h)
  PROVE  /\ UNCHANGED <<shown, selected, callbacks, finger>>
         /\ recordingState' \in {"idle", recordingState}
         /\ \E to \in {"presign", "put", "ended"}, r \in 0..MaxHolds :
              /\ holds' = [holds EXCEPT ![h] = [holds[h] EXCEPT !.stop = to, !.rec = r]]
              /\ Taken(h, to, r) \/ Onward(h, to, r) \/ Over(h, to, r) \/ Done(h, to, r)
<1>1. UNCHANGED <<shown, selected, callbacks, finger>> /\ recordingState' \in {"idle", recordingState}
  BY DEF Upload, StopRecorder, PresignUpload, PutBytes, UploadFails, Ended
<1>2. /\ holds[h].rec \in 0..MaxHolds /\ mic \in 0..MaxHolds
      /\ holds[h] = [holds[h] EXCEPT !.rec = holds[h].rec]
  BY DEF HoldsFacts, Hold
<1>3. CASE StopRecorder(h) /\ mic = 0
  <2> DEFINE r == holds[h].rec
  <2>1. holds' = [holds EXCEPT ![h] = [holds[h] EXCEPT !.stop = "ended", !.rec = r]]
    <3>1. holds' = [holds EXCEPT ![h].stop = "ended"]
      BY <1>3 DEF StopRecorder, Ended
    <3>2. [holds[h] EXCEPT !.stop = "ended"] = [holds[h] EXCEPT !.stop = "ended", !.rec = r]
      BY <1>2
    <3> QED
      BY <3>1, <3>2
  <2>2. Over(h, "ended", r)
    BY <1>3 DEF StopRecorder, Ended, Over, InProgress
  <2> QED
    BY <1>1, <1>2, <2>1, <2>2
<1>4. CASE StopRecorder(h) /\ mic # 0
  BY <1>1, <1>2, <1>4 DEF StopRecorder, Taken
<1>5. CASE PresignUpload(h)
  BY <1>1, <1>2, <1>5 DEF PresignUpload, Onward
<1>6. CASE PutBytes(h)
  BY <1>1, <1>2, <1>6 DEF PutBytes, Ended, Done
<1>7. CASE UploadFails(h)
  BY <1>1, <1>2, <1>7 DEF UploadFails, Ended, Over, InProgress
<1> QED
  BY <1>3, <1>4, <1>5, <1>6, <1>7 DEF Upload

\* They keep what is claimed of a hold as well.
LEMMA UploadStep ==
  ASSUME CaptureInv, NEW h \in DOMAIN holds, Upload(h)
  PROVE  CaptureInv'
<1>1. HoldsFacts /\ TypeOK /\ FingerOnButton
  BY TypedHolds DEF CaptureInv
<1> DEFINE x == holds[h]
<1>2. PICK to \in {"presign", "put", "ended"}, r \in 0..MaxHolds :
        /\ holds' = [holds EXCEPT ![h] = [x EXCEPT !.stop = to, !.rec = r]]
        /\ Taken(h, to, r) \/ Onward(h, to, r) \/ Over(h, to, r) \/ Done(h, to, r)
  BY <1>1, UploadCases
<1>3. /\ UNCHANGED <<shown, selected, callbacks, finger>>
      /\ recordingState' \in {"idle", recordingState}
  BY <1>1, UploadCases
<1>4. x \in Hold /\ x.stop \in InProgress
  BY <1>1, <1>2 DEF Taken, Onward, Over, Done, HoldsFacts, InProgress
<1> DEFINE new == [x EXCEPT !.stop = to, !.rec = r]
<1>5. holds' = [holds EXCEPT ![h] = new]
  BY <1>2
<1> HIDE DEF x
<1>6. /\ new \in Hold /\ new.client = x.client /\ new.start = x.start
      /\ new.rec = r /\ new.stop = to /\ new.for = x.for
  BY <1>4 DEF Hold
<1> HIDE DEF new
<1>7. /\ holds' \in Seq(Hold) /\ Len(holds') = Len(holds) /\ DOMAIN holds' = DOMAIN holds
      /\ holds'[h] = new
      /\ \A g \in DOMAIN holds : g # h => holds'[g] = holds[g]
  BY <1>1, <1>5, <1>6, OneHold
<1>8. /\ \A g \in DOMAIN holds :
           /\ holds'[g].client = holds[g].client /\ holds'[g].start = holds[g].start
           /\ holds'[g].for = holds[g].for
           /\ g # h => holds'[g].stop = holds[g].stop /\ holds'[g].rec = holds[g].rec
      /\ holds'[h].stop = to /\ holds'[h].rec = r
  BY <1>6, <1>7 DEF x
<1>9. holds[h].stop \in InProgress
  BY <1>4 DEF x
<1>10. \A g : Begun(g)' <=> Begun(g)
  BY <1>7, <1>8 DEF Begun
<1>11. \A g \in DOMAIN holds : g # h => (Sending(g)' <=> Sending(g))
  BY <1>8 DEF Sending
<1>12. mic' \in {mic, 0}
  BY <1>2 DEF Taken, Onward, Over, Done
<1>13. holds[h].for = holds[h].client /\ holds[h].client \in Clients
  BY <1>9 DEF CaptureInv, ForItsClient, InProgress
<1>14. stored' = stored
         \/ /\ Sending(h) /\ to = "ended" /\ mic' = mic
            /\ stored' = stored \cup
                 {[hold |-> h, rec |-> holds[h].rec, client |-> holds[h].client]}
  BY <1>2, <1>13 DEF Taken, Onward, Over, Done, Sending
<1>15. TypeOK'
  <2>1. Sending(h) => holds[h].rec \in DOMAIN holds
    BY DEF CaptureInv, OnePlace, Begun
  <2>2. stored' \subseteq [hold : DOMAIN holds, rec : DOMAIN holds, client : Clients]
    BY <1>1, <1>13, <1>14, <2>1 DEF TypeOK
  <2> QED
    BY <1>1, <1>3, <1>7, <1>12, <2>2 DEF TypeOK, HoldsFacts
<1>16. FingerOnButton'
  <2>1. finger = "holding" => Len(holds) \in DOMAIN holds
    BY <1>1 DEF TypeOK, HoldsFacts
  <2> QED
    BY <1>1, <1>3, <1>7, <1>8, <1>9, <2>1 DEF FingerOnButton, InProgress
<1>17. ForItsClient'
  BY <1>7, <1>8, <1>13 DEF CaptureInv, ForItsClient
<1>18. InOrder'
  BY <1>7, <1>8, <1>10 DEF CaptureInv, InOrder
<1>19. HasRecorder'
  BY <1>7, <1>8, <1>12 DEF CaptureInv, HasRecorder
<1>a. ASSUME holds[h].start = "running", Sending(h) \/ Taken(h, to, r)
      PROVE  r = h
  <2>1. CASE Taken(h, to, r)
    BY <1>a, <2>1 DEF CaptureInv, HasRecorder, Taken
  <2>2. CASE ~Taken(h, to, r)
    <3>1. Sending(h) /\ r = holds[h].rec
      BY <1>2, <1>a, <2>2 DEF Onward, Over, Done
    <3> QED
      BY <1>a, <3>1 DEF CaptureInv, SendsItsOwn
  <2> QED
    BY <2>1, <2>2
<1>b. Sending(h)' => Sending(h) \/ Taken(h, to, r)
  BY <1>2, <1>8 DEF Onward, Over, Done, Sending
<1>20. SendsItsOwn'
  BY <1>7, <1>8, <1>11, <1>a, <1>b DEF CaptureInv, SendsItsOwn
<1>21. StoredWhenEnded'
  <2>1. \A s \in stored : s.hold \in DOMAIN holds /\ s.hold # h
    BY <1>1, <1>9 DEF CaptureInv, StoredWhenEnded, TypeOK, InProgress
  <2>2. Sending(h) /\ holds[h].start = "running" => holds[h].rec = h
    BY DEF CaptureInv, SendsItsOwn
  <2> QED
    BY <1>8, <1>14, <2>1, <2>2 DEF CaptureInv, StoredWhenEnded
<1>22. OnePlace'
  <2>1. (mic # 0 => Begun(mic))'
    BY <1>7, <1>8, <1>12 DEF CaptureInv, OnePlace, Begun
  <2>2. CASE Taken(h, to, r)
    <3>1. /\ mic # 0 /\ Begun(mic) /\ r = mic /\ mic' = 0 /\ stored' = stored
          /\ ~Sending(h)
      BY <2>2 DEF CaptureInv, OnePlace, Taken, Sending
    <3>2. \A g \in DOMAIN holds : Sending(g)' <=> Sending(g) \/ g = h
      BY <1>8, <1>11, <2>2 DEF Taken, Sending
    <3>3. (\A g \in DOMAIN holds :
            Sending(g) =>
              /\ Begun(holds[g].rec) /\ holds[g].rec # mic
              /\ \A f \in DOMAIN holds : Sending(f) /\ holds[f].rec = holds[g].rec => f = g)'
      <4>1. \A g \in DOMAIN holds :
              Sending(g)' => /\ holds'[g].rec = (IF g = h THEN mic ELSE holds[g].rec)
                             /\ Begun(IF g = h THEN mic ELSE holds[g].rec)
                             /\ g # h => holds[g].rec # mic
        BY <1>8, <3>1, <3>2 DEF CaptureInv, OnePlace
      <4>2. \A g \in DOMAIN holds :
              Sending(g)' => holds'[g].rec \in DOMAIN holds
                             /\ holds[holds'[g].rec].start \in {"running", "late"}
        BY <4>1 DEF Begun
      <4>3. \A f, g \in DOMAIN holds :
              Sending(f)' /\ Sending(g)' /\ holds'[f].rec = holds'[g].rec => f = g
        BY <3>2, <4>1 DEF CaptureInv, OnePlace
      <4> QED
        BY <1>1, <1>7, <1>8, <3>1, <4>2, <4>3 DEF Begun, HoldsFacts
    <3>4. (\A s \in stored :
            /\ Begun(s.rec) /\ s.rec # mic
            /\ \A g \in DOMAIN holds : Sending(g) => holds[g].rec # s.rec)'
      <4>1. \A s \in stored : Begun(s.rec) /\ s.rec # mic /\ s.rec # 0
        BY <1>1 DEF CaptureInv, OnePlace, Begun, HoldsFacts
      <4>2. \A s \in stored : \A g \in DOMAIN holds : Sending(g)' => holds'[g].rec # s.rec
        BY <1>8, <3>1, <3>2, <4>1 DEF CaptureInv, OnePlace
      <4> QED
        BY <1>7, <1>10, <3>1, <4>1, <4>2
    <3> QED
      BY <2>1, <3>1, <3>3, <3>4 DEF CaptureInv, OnePlace, RecordingStoredOnce
  <2>3. CASE ~Taken(h, to, r)
    <3>1. /\ mic' = mic /\ r = holds[h].rec
          /\ \A g \in DOMAIN holds : holds'[g].rec = holds[g].rec
      BY <1>2, <1>8, <2>3 DEF Onward, Over, Done
    <3>2. \A g \in DOMAIN holds : Sending(g)' => Sending(g)
      BY <1>11, <1>b, <2>3
    <3>3. (\A g \in DOMAIN holds :
            Sending(g) =>
              /\ Begun(holds[g].rec) /\ holds[g].rec # mic
              /\ \A f \in DOMAIN holds : Sending(f) /\ holds[f].rec = holds[g].rec => f = g)'
      <4>1. \A g \in DOMAIN holds :
              Sending(g)' => /\ holds[g].rec \in DOMAIN holds /\ holds[g].rec # mic
                             /\ holds[holds[g].rec].start \in {"running", "late"}
        BY <3>2 DEF CaptureInv, OnePlace, Begun
      <4>2. \A f, g \in DOMAIN holds :
              Sending(f)' /\ Sending(g)' /\ holds[f].rec = holds[g].rec => f = g
        BY <3>2 DEF CaptureInv, OnePlace
      <4> QED
        BY <1>7, <1>8, <3>1, <4>1, <4>2 DEF Begun
    <3>4. (\A s \in stored :
            /\ Begun(s.rec) /\ s.rec # mic
            /\ \A g \in DOMAIN holds : Sending(g) => holds[g].rec # s.rec)'
      <4>1. \A s \in stored :
              /\ Begun(s.rec) /\ s.rec # mic
              /\ \A g \in DOMAIN holds : Sending(g)' => holds[g].rec # s.rec
        BY <3>2 DEF CaptureInv, OnePlace
      <4>2. CASE stored' = stored
        BY <1>7, <1>10, <3>1, <4>1, <4>2
      <4>3. CASE stored' # stored
        <5> DEFINE t == [hold |-> h, rec |-> holds[h].rec, client |-> holds[h].client]
        <5>1. Sending(h) /\ to = "ended" /\ stored' = stored \cup {t}
          BY <1>14, <4>3
        <5>2. t.rec = holds[h].rec /\ Begun(t.rec) /\ t.rec # mic
          BY <5>1 DEF CaptureInv, OnePlace
        <5>3. \A g \in DOMAIN holds : Sending(g)' => g # h /\ holds[g].rec # t.rec
          BY <1>8, <3>2, <5>1 DEF CaptureInv, OnePlace, Sending
        <5> HIDE DEF t
        <5>4. \A s \in stored' :
                /\ Begun(s.rec) /\ s.rec # mic
                /\ \A g \in DOMAIN holds : Sending(g)' => holds[g].rec # s.rec
          BY <4>1, <5>1, <5>2, <5>3
        <5> QED
          BY <1>7, <1>10, <3>1, <5>4
      <4> QED
        BY <4>2, <4>3
    <3>5. RecordingStoredOnce'
      <4>1. \A s \in stored : Sending(h) => holds[h].rec # s.rec
        BY DEF CaptureInv, OnePlace
      <4> QED
        BY <1>14, <4>1 DEF CaptureInv, OnePlace, RecordingStoredOnce
    <3> QED
      BY <2>1, <3>3, <3>4, <3>5 DEF OnePlace
  <2> QED
    BY <2>2, <2>3
<1> QED
  BY <1>15, <1>16, <1>17, <1>18, <1>19, <1>20, <1>21, <1>22 DEF CaptureInv

---------------------------------------------------------------------------
\* The inductive step.
LEMMA CaptureStep == CaptureInv /\ [Next]_vars => CaptureInv'
<1> SUFFICES ASSUME CaptureInv, [Next]_vars
             PROVE  CaptureInv'
  OBVIOUS
<1>1. CASE Picker
  BY <1>1, PickerStep, LeaveStep DEF Picker
<1>2. CASE Gesture
  BY <1>2, PickerStep, LongPressStep, ReleaseStep DEF Gesture
<1>3. ASSUME NEW h \in DOMAIN holds, Record(h) \/ Upload(h)
      PROVE  CaptureInv'
  BY <1>3, RecordStep, UploadStep
<1>4. CASE UNCHANGED vars
  BY <1>4, PickerStep
<1> QED
  BY <1>1, <1>2, <1>3, <1>4 DEF Next

\* The inductive invariant holds in every reachable state.
LEMMA CaptureInvHolds == Spec => []CaptureInv
<1>1. Init => CaptureInv
  <2> SUFFICES ASSUME Init PROVE CaptureInv
    OBVIOUS
  <2>1. <<>> \in Seq(Hold) /\ Len(<<>>) = 0 /\ DOMAIN <<>> = {}
    OBVIOUS
  <2>2. TypeOK
    BY <2>1, CaptureAssumption DEF Init, TypeOK, MaybeClient
  <2>3. FingerOnButton
    BY DEF Init, FingerOnButton
  <2> QED
    BY <2>1, <2>2, <2>3
    DEF Init, CaptureInv, ForItsClient, InOrder, HasRecorder, SendsItsOwn,
        StoredWhenEnded, OnePlace, RecordingStoredOnce
<1> QED
  BY <1>1, CaptureStep, PTL DEF Spec

---------------------------------------------------------------------------
(***************************************************************************)
(* The button.                                                             *)
(***************************************************************************)

ButtonInv == NoHoldDuringUpload /\ ButtonShowsUpload

\* What the steps of _onRecordStart do to the stage of each hold.
LEMMA RecordFields ==
  ASSUME HoldsFacts, NEW h \in DOMAIN holds, Record(h)
  PROVE  /\ DOMAIN holds' = DOMAIN holds /\ Len(holds') = Len(holds)
         /\ \A g \in DOMAIN holds :
              /\ holds'[g].alive = holds[g].alive
              /\ holds'[g].stop = holds[g].stop
              /\ g # h => holds'[g].start = holds[g].start
         /\ holds[h].start # "failed"
         /\ UNCHANGED recordingState \/ holds'[h].start = "failed"
<1> DEFINE x == holds[h]
<1>1. PICK to \in {"running", "late", "failed"} :
        /\ holds' = [holds EXCEPT ![h] = [x EXCEPT !.start = to]]
        /\ UNCHANGED recordingState \/ to = "failed"
  BY DEF Record, RecorderStarts, StartFails
<1>2. x \in Hold /\ x.start = "waiting"
  BY DEF HoldsFacts, Record, RecorderStarts, StartFails, CanStart
<1> DEFINE new == [x EXCEPT !.start = to]
<1>3. holds' = [holds EXCEPT ![h] = new]
  BY <1>1
<1> HIDE DEF x
<1>4. new \in Hold /\ new.alive = x.alive /\ new.stop = x.stop /\ new.start = to
  BY <1>2 DEF Hold
<1> HIDE DEF new
<1>5. /\ Len(holds') = Len(holds) /\ DOMAIN holds' = DOMAIN holds /\ holds'[h] = new
      /\ \A g \in DOMAIN holds : g # h => holds'[g] = holds[g]
  BY <1>3, <1>4, OneHold
<1> QED
  BY <1>1, <1>2, <1>4, <1>5 DEF x

\* What the steps of _onRecordStop do to it.
LEMMA UploadFields ==
  ASSUME HoldsFacts, NEW h \in DOMAIN holds, Upload(h)
  PROVE  /\ DOMAIN holds' = DOMAIN holds /\ Len(holds') = Len(holds)
         /\ \A g \in DOMAIN holds :
              /\ holds'[g].alive = holds[g].alive
              /\ holds'[g].start = holds[g].start
              /\ g # h => holds'[g].stop = holds[g].stop
         /\ holds[h].stop \in InProgress
         /\ \/ holds'[h].stop \in InProgress /\ UNCHANGED recordingState
            \/ /\ holds'[h].stop \notin InProgress
               /\ holds[h].alive => recordingState' = "idle"
<1> DEFINE x == holds[h]
<1>1. PICK to \in {"presign", "put", "ended"}, r \in 0..MaxHolds :
        /\ holds' = [holds EXCEPT ![h] = [x EXCEPT !.stop = to, !.rec = r]]
        /\ Taken(h, to, r) \/ Onward(h, to, r) \/ Over(h, to, r) \/ Done(h, to, r)
  BY UploadCases
<1>2. x \in Hold /\ x.stop \in InProgress
  BY <1>1 DEF Taken, Onward, Over, Done, HoldsFacts, InProgress
<1> DEFINE new == [x EXCEPT !.stop = to, !.rec = r]
<1>3. holds' = [holds EXCEPT ![h] = new]
  BY <1>1
<1> HIDE DEF x
<1>4. /\ new \in Hold /\ new.alive = x.alive /\ new.start = x.start /\ new.stop = to
  BY <1>2 DEF Hold
<1> HIDE DEF new
<1>5. /\ Len(holds') = Len(holds) /\ DOMAIN holds' = DOMAIN holds /\ holds'[h] = new
      /\ \A g \in DOMAIN holds : g # h => holds'[g] = holds[g]
  BY <1>3, <1>4, OneHold
<1>6. holds'[h].stop = to
  BY <1>4, <1>5
<1>7. \/ to # "ended" /\ UNCHANGED recordingState
      \/ to = "ended" /\ (holds[h].alive => recordingState' = "idle")
  BY <1>1 DEF Taken, Onward, Over, Done
<1> QED
  BY <1>1, <1>2, <1>4, <1>5, <1>6, <1>7 DEF x, InProgress

\* What a release does to it.
LEMMA ReleaseFields ==
  ASSUME TypeOK, HoldsFacts, Release
  PROVE  \/ UNCHANGED <<holds, recordingState>>
         \/ /\ recordingState' = "uploading"
            /\ Len(holds) \in DOMAIN holds /\ DOMAIN holds' = DOMAIN holds
            /\ holds'[Len(holds)].stop = "stopping"
            /\ \A g \in DOMAIN holds :
                 /\ holds'[g].alive = holds[g].alive
                 /\ holds'[g].start = holds[g].start
                 /\ g # Len(holds) => holds'[g].stop = holds[g].stop
<1> DEFINE n == Len(holds)
           x == holds[n]
           new == [x EXCEPT !.stop = "stopping", !.for = selected]
<1> SUFFICES ASSUME ~UNCHANGED <<holds, recordingState>>
             PROVE  /\ recordingState' = "uploading"
                    /\ n \in DOMAIN holds /\ DOMAIN holds' = DOMAIN holds
                    /\ holds'[n].stop = "stopping"
                    /\ \A g \in DOMAIN holds :
                         /\ holds'[g].alive = holds[g].alive
                         /\ holds'[g].start = holds[g].start
                         /\ g # n => holds'[g].stop = holds[g].stop
  OBVIOUS
<1>1. /\ n \in DOMAIN holds /\ x \in Hold
      /\ selected \in MaybeClient /\ recordingState' = "uploading"
      /\ holds' = [holds EXCEPT ![n] = new]
  <2>1. n \in DOMAIN holds /\ selected \in MaybeClient
    BY DEF Release, TypeOK, HoldsFacts
  <2>2. x \in Hold
    BY <2>1 DEF HoldsFacts
  <2>3. /\ recordingState' = "uploading"
        /\ holds' = [holds EXCEPT ![Len(holds)].stop = "stopping",
                                  ![Len(holds)].for = selected]
    BY DEF Release
  <2> QED
    BY <2>1, <2>2, <2>3
<1> HIDE DEF x
<1>2. new \in Hold
  BY <1>1, Zenon DEF Hold
<1>3. new.alive = x.alive /\ new.start = x.start /\ new.stop = "stopping"
  BY <1>1 DEF Hold
<1> HIDE DEF new
<1>4. /\ DOMAIN holds' = DOMAIN holds /\ holds'[n] = new
      /\ \A g \in DOMAIN holds : g # n => holds'[g] = holds[g]
  BY <1>1, <1>2, OneHold
<1> QED
  BY <1>1, <1>3, <1>4 DEF x

\* A disturbance is there to stay.
LEMMA DisturbanceStays ==
  ASSUME TypeOK, HoldsFacts, Next, Undisturbed'
  PROVE  Undisturbed
<1> SUFFICES ASSUME NEW g \in DOMAIN holds
             PROVE  holds[g].alive /\ holds[g].start # "failed"
  BY DEF Undisturbed
<1>1. CASE UNCHANGED holds
  BY <1>1 DEF Undisturbed
<1>2. CASE Leave
  <2>1. holds[g] \in Hold /\ holds'[g] = [holds[g] EXCEPT !.alive = FALSE]
    BY <1>2 DEF Leave, HoldsFacts
  <2>2. holds'[g].alive = FALSE /\ g \in DOMAIN holds'
    BY <1>2, <2>1 DEF Hold, Leave
  <2> QED
    BY <2>2 DEF Undisturbed
<1>3. CASE LongPress
  BY <1>3 DEF LongPress, Undisturbed, HoldsFacts
<1>4. CASE Release
  BY <1>4, ReleaseFields DEF Undisturbed
<1>5. ASSUME NEW h \in DOMAIN holds, Record(h)
      PROVE  holds[g].alive /\ holds[g].start # "failed"
  BY <1>5, RecordFields DEF Undisturbed
<1>6. ASSUME NEW h \in DOMAIN holds, Upload(h)
      PROVE  holds[g].alive /\ holds[g].start # "failed"
  BY <1>6, UploadFields DEF Undisturbed
<1> QED
  BY <1>1, <1>2, <1>3, <1>4, <1>5, <1>6
  DEF Next, Picker, Gesture, SelectClient, ClearClient, Rebuild, Return, Touch, LosePointer

\* The state of the button follows the hold that uploads.
LEMMA ButtonStep ==
  ASSUME CaptureInv, ButtonInv, [Next]_vars
  PROVE  ButtonInv'
<1>0. HoldsFacts /\ TypeOK /\ FingerOnButton /\ ButtonInv
  BY TypedHolds DEF CaptureInv
<1> SUFFICES ASSUME Undisturbed'
             PROVE  ButtonInv'
  BY DEF ButtonInv, NoHoldDuringUpload, ButtonShowsUpload, Undisturbed
<1>1. Undisturbed
  BY <1>0, DisturbanceStays DEF vars, Undisturbed
<1> DEFINE busy == \E h \in DOMAIN holds : holds[h].stop \in InProgress
           single == \A g, h \in DOMAIN holds :
                       holds[g].stop \in InProgress /\ holds[h].stop \in InProgress => g = h
           held == finger = "holding" \/ (finger = "touching" /\ "start" \in callbacks)
<1>2. /\ recordingState = "uploading" <=> busy
      /\ single
      /\ held => recordingState # "uploading"
  BY <1>0, <1>1 DEF ButtonInv, NoHoldDuringUpload, ButtonShowsUpload, Undisturbed
<1> SUFFICES /\ recordingState' = "uploading" <=> busy'
             /\ single'
             /\ held' => recordingState' # "uploading"
  BY DEF ButtonInv, NoHoldDuringUpload, ButtonShowsUpload
\* A step that leaves the holds and the state of the button alone.
<1>3. ASSUME UNCHANGED <<holds, recordingState>>, held' => held \/ recordingState # "uploading"
      PROVE  /\ recordingState' = "uploading" <=> busy'
             /\ single'
             /\ held' => recordingState' # "uploading"
  BY <1>2, <1>3
<1>4. "start" \in Callbacks => recordingState # "uploading"
  BY DEF Callbacks
<1>5. CASE Picker /\ ~Leave
  BY <1>0, <1>3, <1>4, <1>5
  DEF Picker, SelectClient, ClearClient, Rebuild, Return, TypeOK
<1>6. CASE Leave
  <2>1. ASSUME NEW h \in DOMAIN holds
        PROVE  FALSE
    <3>1. holds[h] \in Hold /\ holds'[h] = [holds[h] EXCEPT !.alive = FALSE]
      BY <1>0, <1>6 DEF Leave, HoldsFacts
    <3>2. holds'[h].alive = FALSE /\ h \in DOMAIN holds'
      BY <1>6, <3>1 DEF Hold, Leave
    <3> QED
      BY <3>2 DEF Undisturbed
  <2> QED
    BY <1>2, <1>6, <2>1 DEF Leave
<1>7. CASE Touch \/ LosePointer \/ UNCHANGED vars
  BY <1>0, <1>3, <1>4, <1>7 DEF Touch, LosePointer, vars
<1>8. CASE LongPress
  <2>1. recordingState # "uploading" /\ recordingState' = "recording"
    BY <1>2, <1>8 DEF LongPress
  <2>2. ~busy'
    BY <1>0, <1>2, <1>8, <2>1 DEF LongPress, HoldsFacts, InProgress
  <2> QED
    BY <2>1, <2>2
<1>9. CASE Release
  <2>1. CASE UNCHANGED <<holds, recordingState>>
    BY <1>2, <1>9, <2>1 DEF Release
  <2>2. CASE ~UNCHANGED <<holds, recordingState>>
    <3>1. ~busy
      BY <1>2, <1>9 DEF Release
    <3> QED
      BY <1>0, <1>9, <2>2, <3>1, ReleaseFields DEF Release, InProgress
  <2> QED
    BY <2>1, <2>2
<1>10. ASSUME NEW h \in DOMAIN holds, Record(h)
       PROVE  /\ recordingState' = "uploading" <=> busy'
              /\ single'
              /\ held' => recordingState' # "uploading"
  <2>1. UNCHANGED <<callbacks, finger, recordingState>>
    BY <1>0, <1>10, RecordFields DEF Record, RecorderStarts, StartFails, Undisturbed
  <2> QED
    BY <1>0, <1>2, <1>10, <2>1, RecordFields
<1>11. ASSUME NEW h \in DOMAIN holds, Upload(h)
       PROVE  /\ recordingState' = "uploading" <=> busy'
              /\ single'
              /\ held' => recordingState' # "uploading"
  <2>1. UNCHANGED <<callbacks, finger>>
    BY <1>11 DEF Upload, StopRecorder, PresignUpload, PutBytes, UploadFails
  <2>2. holds[h].alive
    BY <1>1 DEF Undisturbed
  <2> QED
    BY <1>0, <1>2, <1>11, <2>1, <2>2, UploadFields
<1> QED
  BY <1>5, <1>6, <1>7, <1>8, <1>9, <1>10, <1>11 DEF Next, Picker, Gesture

---------------------------------------------------------------------------
(***************************************************************************)
(* The theorems.                                                           *)
(***************************************************************************)

\* The types of the screen hold, and the recorder never has a hold that does
\* not exist.
THEOREM CaptureTypes == Spec => []TypeOK
BY CaptureInvHolds, PTL DEF CaptureInv

\* Of a hold that lasts until the recorder runs, its own recording is stored
\* for its own client.
THEOREM FiledRight == Spec => []HoldIsFiledRight
<1>1. CaptureInv => HoldIsFiledRight
  BY DEF CaptureInv, StoredWhenEnded, HoldIsFiledRight
<1> QED
  BY <1>1, CaptureInvHolds, PTL

\* No recording is uploaded for two holds.
THEOREM StoredOnce == Spec => []RecordingStoredOnce
<1>1. CaptureInv => RecordingStoredOnce
  BY DEF CaptureInv, OnePlace
<1> QED
  BY <1>1, CaptureInvHolds, PTL

\* As long as nothing fails and the tab stays, the button tells the truth.
THEOREM ButtonTellsTruth == Spec => []ButtonShowsUpload
<1>1. Init => ButtonInv
  BY DEF Init, ButtonInv, NoHoldDuringUpload, ButtonShowsUpload
<1>2. CaptureInv /\ ButtonInv /\ [Next]_vars => ButtonInv'
  BY ButtonStep
<1>3. ButtonInv => ButtonShowsUpload
  BY DEF ButtonInv
<1> QED
  BY <1>1, <1>2, <1>3, CaptureInvHolds, PTL DEF Spec

---------------------------------------------------------------------------
(***************************************************************************)
(* Why the button can be stuck.                                            *)
(***************************************************************************)
Uploading == \E h \in DOMAIN holds : holds[h].stop \in InProgress

\* The tab is never left during an upload.
StaysForUploads == [][Uploading => ~Leave]_vars

\* The button shows an upload that there is, by a State that will reset it.
ButtonIsCurrent ==
  /\ recordingState = "uploading" => Uploading
  /\ \A h \in DOMAIN holds : holds[h].stop \in InProgress => holds[h].alive
  /\ finger = "holding" => holds[Len(holds)].alive

\* Each step keeps that, unless it leaves the tab during an upload.
LEMMA CurrentStep ==
  ASSUME TypeOK, ButtonIsCurrent, [Next]_vars, [Uploading => ~Leave]_vars
  PROVE  ButtonIsCurrent'
<1>0. HoldsFacts /\ (finger = "holding" => Len(holds) \in DOMAIN holds)
  <2>1. HoldsFacts
    BY TypedHolds
  <2>2. finger = "holding" => Len(holds) \in DOMAIN holds
    BY <2>1 DEF HoldsFacts, TypeOK
  <2> QED
    BY <2>1, <2>2
<1>1. CASE UNCHANGED <<holds, recordingState>> /\ finger' \in {finger, "none", "touching"}
  BY <1>1 DEF ButtonIsCurrent, Uploading
<1>2. CASE (Picker /\ ~Leave) \/ Touch \/ LosePointer \/ UNCHANGED vars
  BY <1>1, <1>2
  DEF Picker, SelectClient, ClearClient, Rebuild, Return, Touch, LosePointer, vars
<1>3. CASE Leave
  <2>1. ~Uploading
    BY <1>3 DEF Leave, vars
  <2>2. /\ DOMAIN holds' = DOMAIN holds /\ finger' = "none" /\ UNCHANGED recordingState
        /\ \A h \in DOMAIN holds : holds'[h] = [holds[h] EXCEPT !.alive = FALSE]
    BY <1>3 DEF Leave
  <2>3. \A h \in DOMAIN holds : holds'[h].stop = holds[h].stop
    BY <1>0, <2>2 DEF HoldsFacts, Hold
  <2> QED
    BY <2>1, <2>2, <2>3 DEF ButtonIsCurrent, Uploading
<1>4. CASE LongPress
  <2> DEFINE x == [client |-> selected, start |-> "waiting", stop |-> "none",
                   for |-> NoClient, rec |-> 0, alive |-> TRUE]
  <2>1. /\ holds' = Append(holds, x)
        /\ x.stop = "none" /\ x.alive = TRUE
    BY <1>4 DEF LongPress
  <2> HIDE DEF x
  <2>2. /\ Len(holds') = Len(holds) + 1 /\ DOMAIN holds' = 1..(Len(holds) + 1)
        /\ holds'[Len(holds) + 1] = x
        /\ \A h \in DOMAIN holds : holds'[h] = holds[h]
    BY <1>0, <2>1 DEF HoldsFacts
  <2>3. recordingState' = "recording"
    BY <1>4 DEF LongPress
  <2> QED
    BY <1>0, <2>1, <2>2, <2>3 DEF HoldsFacts, ButtonIsCurrent, InProgress
<1>5. CASE Release
  <2>1. finger = "holding" /\ finger' = "none"
    BY <1>5 DEF Release
  <2>2. CASE UNCHANGED <<holds, recordingState>>
    BY <1>1, <2>1, <2>2
  <2>3. CASE ~UNCHANGED <<holds, recordingState>>
    BY <1>0, <1>5, <2>1, <2>3, ReleaseFields
    DEF ButtonIsCurrent, Uploading, InProgress
  <2> QED
    BY <2>2, <2>3
<1>6. ASSUME NEW h \in DOMAIN holds, Record(h)
      PROVE  ButtonIsCurrent'
  <2>1. UNCHANGED finger /\ recordingState' \in {recordingState, "idle"}
    BY <1>6 DEF Record, RecorderStarts, StartFails
  <2> QED
    BY <1>0, <1>6, <2>1, RecordFields DEF ButtonIsCurrent, Uploading
<1>7. ASSUME NEW h \in DOMAIN holds, Upload(h)
      PROVE  ButtonIsCurrent'
  <2>1. UNCHANGED finger
    BY <1>7 DEF Upload, StopRecorder, PresignUpload, PutBytes, UploadFails
  <2> QED
    BY <1>0, <1>7, <2>1, UploadFields DEF ButtonIsCurrent, Uploading
<1> QED
  BY <1>2, <1>3, <1>4, <1>5, <1>6, <1>7 DEF Next, Picker, Gesture

\* The record button is stuck after a selection for one reason only: that the
\* tab is left during an upload, so that the State that would set "idle" again
\* is gone (record_button.dart:97).  No failure of the microphone or of the
\* network, and no order of taps, does it.
THEOREM StuckOnlyByLeaving == Spec /\ StaysForUploads => []SelectionEnablesRecording
<1>1. Init => ButtonIsCurrent
  BY DEF Init, ButtonIsCurrent
<1>2. TypeOK /\ ButtonIsCurrent /\ [Next]_vars /\ [Uploading => ~Leave]_vars
        => ButtonIsCurrent'
  BY CurrentStep
<1>3. ButtonIsCurrent => SelectionEnablesRecording
  BY DEF ButtonIsCurrent, SelectionEnablesRecording, Uploading, Callbacks
<1> QED
  BY <1>1, <1>2, <1>3, CaptureTypes, PTL DEF Spec, StaysForUploads
===========================================================================
