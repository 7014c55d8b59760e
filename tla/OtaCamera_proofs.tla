---------------------------- MODULE OtaCamera_proofs ----------------------------
(***************************************************************************)
(* Safety of firmware uploads, for every length of the callback queue, of  *)
(* an upload, and for any number of uploads.  Then the camera: it changes  *)
(* nothing of an upload, so OtaCamera implements OtaSession and what is    *)
(* proved of uploads holds with the camera, too; and what uploads, boot    *)
(* and reconnections do to the camera: CamInv says of every moment what    *)
(* the two properties say of some.                                         *)
(***************************************************************************)
EXTENDS OtaCamera, TLAPS

\* Events s[i], s[i + 1], ... are all progress.
OnlyProgress(s, i) == \A j \in i..Len(s) : s[j] = "progress"

\* What the update shown depends on: START of the upload under way, unless it was
\* dropped, is the last event in the queue that is not progress, or it has been
\* dispatched and nothing but progress has followed.
StartAhead ==
    post = "receiving" /\ ~startDropped =>
        \/ \E i \in 1..Len(queue) : queue[i] = "start" /\ OnlyProgress(queue, i + 1)
        \/ (callback = "camera" \/ modal = "updating") /\ OnlyProgress(queue, 1)

\* ota_start_cb holds the backlight before it shows the modal.
HeldWhileStarting == callback = "camera" \/ modal = "updating" => hold \/ endedEarly

IInv == StateTypeOK /\ FlagTypeOK /\ DismissedIsFailure /\ HeldWhileStarting /\ StartAhead

-----------------------------------------------------------------------------
(* The queue.                                                                *)

\* An event appended to the queue is its last.
LEMMA Appended ==
    ASSUME NEW s \in Seq(Event), NEW e \in Event
    PROVE  /\ Append(s, e) \in Seq(Event) /\ Len(Append(s, e)) = Len(s) + 1
           /\ Append(s, e)[Len(s) + 1] = e
           /\ \A i \in 1..Len(s) : Append(s, e)[i] = s[i]
    OBVIOUS

\* The event dispatched is the first, the others move up.
LEMMA Shifted ==
    ASSUME NEW s \in Seq(Event), s # <<>>
    PROVE  /\ Tail(s) \in Seq(Event) /\ Len(Tail(s)) = Len(s) - 1 /\ Len(s) \in Nat \ {0}
           /\ Head(s) = s[1] /\ Head(s) \in Event
           /\ \A i \in 1..Len(Tail(s)) : Tail(s)[i] = s[i + 1]
    OBVIOUS

-----------------------------------------------------------------------------
(* Each action keeps the invariant.                                          *)

\* The initial states satisfy IInv.
LEMMA InitOK == Init => IInv
<1> SUFFICES ASSUME Init PROVE IInv
  OBVIOUS
<1>1. StateTypeOK
  BY OtaConstants DEF Init, StateTypeOK
<1>1a. FlagTypeOK
  BY DEF Init, FlagTypeOK
<1>2. DismissedIsFailure /\ HeldWhileStarting /\ StartAhead
  BY DEF Init, DismissedIsFailure, HeldWhileStarting, StartAhead
<1> QED BY <1>1, <1>1a, <1>2 DEF IInv

\* A progress event leaves what is to be shown open.
LEMMA ReceiveOK == IInv /\ Receive => IInv'
<1> SUFFICES ASSUME IInv, Receive PROVE IInv'
  OBVIOUS
<1> USE DEF IInv
<1>1. CASE Dropped
  <2>1. StateTypeOK'
    <3>1. /\ remaining > 0 /\ remaining' = remaining - 1
          /\ UNCHANGED <<post, uploads, queue, callback, modal>>
      BY <1>1 DEF Receive, Dropped, screenVars
    <3> QED BY <3>1, OtaConstants DEF StateTypeOK
  <2>1a. FlagTypeOK'
    BY <1>1 DEF FlagTypeOK, Receive, Dropped, screenVars, dropVars
  <2>2. DismissedIsFailure' /\ HeldWhileStarting' /\ StartAhead'
    BY <1>1 DEF Receive, Dropped, DismissedIsFailure, HeldWhileStarting, StartAhead,
                OnlyProgress, screenVars, dropVars
  <2> QED BY <2>1, <2>1a, <2>2
<1>2. CASE Queued("progress")
  <2>1. queue \in Seq(Event) /\ "progress" \in Event /\ queue' = Append(queue, "progress")
    BY <1>2 DEF Queued, StateTypeOK, Event
  <2>2. /\ queue' \in Seq(Event) /\ Len(queue') = Len(queue) + 1
        /\ queue'[Len(queue) + 1] = "progress"
        /\ \A i \in 1..Len(queue) : queue'[i] = queue[i]
    BY <2>1, Appended
  <2>3. StateTypeOK'
    BY <2>2, <1>2, OtaConstants DEF StateTypeOK, Receive, Queued, Full, screenVars, dropVars
  <2>3a. FlagTypeOK'
    BY <1>2 DEF FlagTypeOK, Receive, screenVars, dropVars
  <2>4. DismissedIsFailure' /\ HeldWhileStarting'
    BY DEF Receive, DismissedIsFailure, HeldWhileStarting, screenVars, dropVars
  <2>5. ASSUME NEW i \in Nat \ {0}, OnlyProgress(queue, i) PROVE OnlyProgress(queue', i)
    BY <2>1, <2>2, <2>5 DEF OnlyProgress
  <2>6. StartAhead'
    <3>1. UNCHANGED <<post, startDropped, callback, modal>>
      BY DEF Receive, screenVars, dropVars
    <3>2. Len(queue) \in Nat
      BY <2>1
    <3>3. 1..Len(queue) \subseteq 1..Len(queue') /\ \A i \in 1..Len(queue) : i + 1 \in Nat \ {0}
      BY <2>2, <3>2
    <3> QED BY <2>2, <2>5, <3>1, <3>3 DEF StartAhead
  <2> QED BY <2>3, <2>3a, <2>4, <2>6
<1> QED BY <1>1, <1>2 DEF Receive

\* A new upload queues its START last, or has it dropped.
LEMMA AcceptOK == IInv /\ Accept => IInv'
<1> SUFFICES ASSUME IInv, Accept PROVE IInv'
  OBVIOUS
<1> USE DEF IInv
<1>1. DismissedIsFailure' /\ HeldWhileStarting'
  BY DEF Accept, DismissedIsFailure, HeldWhileStarting, screenVars
<1>2. CASE DroppedLate /\ startDropped' = TRUE
  <2>1. StateTypeOK'
    BY <1>2, OtaConstants DEF StateTypeOK, Accept, DroppedLate, Dropped, screenVars
  <2>1a. FlagTypeOK'
    BY <1>2 DEF FlagTypeOK, Accept, screenVars
  <2>2. StartAhead'
    BY <1>2 DEF StartAhead
  <2> QED BY <1>1, <2>1, <2>1a, <2>2
<1>3. CASE Queued("start") /\ startDropped' = FALSE
  <2>1. queue \in Seq(Event) /\ "start" \in Event /\ queue' = Append(queue, "start")
    BY <1>3 DEF Queued, StateTypeOK, Event
  <2>2. /\ queue' \in Seq(Event) /\ Len(queue') = Len(queue) + 1
        /\ queue'[Len(queue) + 1] = "start" /\ Len(queue) \in Nat
    BY <2>1, Appended
  <2>3. StateTypeOK'
    BY <2>2, <1>3, OtaConstants DEF StateTypeOK, Accept, Queued, Full, screenVars
  <2>3a. FlagTypeOK'
    BY <1>3 DEF FlagTypeOK, Accept, screenVars
  <2>4. OnlyProgress(queue', Len(queue') + 1)
    BY <2>2 DEF OnlyProgress
  <2>5. StartAhead'
    BY <2>2, <2>4 DEF StartAhead
  <2> QED BY <1>1, <2>3, <2>3a, <2>5
<1> QED BY <1>2, <1>3 DEF Accept

\* After a failure nothing is promised of the queue but its length.
LEMMA FailOK == IInv /\ (Fail \/ NoPartition) => IInv'
<1> SUFFICES ASSUME IInv, Fail \/ NoPartition PROVE IInv'
  OBVIOUS
<1> USE DEF IInv
<1>1. /\ DismissedIsFailure' /\ HeldWhileStarting'
      /\ UNCHANGED <<remaining, callback, hold, modal, dismiss, startDropped, endedEarly>>
      /\ post' = "none"
  BY DEF Fail, NoPartition, DismissedIsFailure, HeldWhileStarting, screenVars
<1>2. StartAhead'
  BY <1>1 DEF StartAhead
<1>3. errorDropped' \in BOOLEAN
  BY DEF Fail, NoPartition
<1>3a. uploads' \in 0..MaxUploads
  BY OtaConstants DEF Fail, NoPartition, StateTypeOK
<1>4. queue' \in Seq(Event) /\ Len(queue') <= Depth
  <2>1. CASE DroppedLate
    BY <2>1 DEF DroppedLate, Dropped, StateTypeOK
  <2>2. CASE Queued("error")
    <3>1. queue \in Seq(Event) /\ "error" \in Event /\ queue' = Append(queue, "error")
      BY <2>2 DEF Queued, StateTypeOK, Event
    <3>2. queue' \in Seq(Event) /\ Len(queue') = Len(queue) + 1
      BY <3>1, Appended
    <3> QED BY <2>2, <3>2, OtaConstants DEF Queued, Full, StateTypeOK
  <2> QED BY <2>1, <2>2 DEF Fail, NoPartition
<1>5. StateTypeOK'
  BY <1>1, <1>3a, <1>4 DEF StateTypeOK
<1>5a. FlagTypeOK'
  BY <1>1, <1>3 DEF FlagTypeOK
<1> QED BY <1>1, <1>2, <1>5, <1>5a

\* The end of an upload that succeeds reboots the device and keeps IInv.
LEMMA CompleteOK == IInv /\ Complete => IInv'
BY DEF IInv, Complete, StateTypeOK, FlagTypeOK, DismissedIsFailure, HeldWhileStarting, StartAhead,
       screenVars, dropVars

\* START is the first event that is not progress only if it is the last such one.
LEMMA StartHoldOK == IInv /\ StartHold => IInv'
<1> SUFFICES ASSUME IInv, StartHold PROVE IInv'
  OBVIOUS
<1> USE DEF IInv
<1>1. /\ queue \in Seq(Event) /\ queue # <<>> /\ Head(queue) = "start"
      /\ queue' = Tail(queue)
  BY DEF StartHold, Dispatch, StateTypeOK
<1>2. /\ queue' \in Seq(Event) /\ Len(queue') = Len(queue) - 1 /\ Len(queue) \in Nat \ {0}
      /\ \A i \in 1..Len(queue') : queue'[i] = queue[i + 1]
  BY <1>1, Shifted
<1>3. StateTypeOK'
  BY <1>2, OtaConstants DEF StateTypeOK, StartHold, sessionVars, dropVars
<1>3a. FlagTypeOK'
  BY DEF FlagTypeOK, StartHold, sessionVars, dropVars
<1>4. DismissedIsFailure' /\ HeldWhileStarting'
  BY DEF StartHold, DismissedIsFailure, HeldWhileStarting
<1>5. StartAhead'
  <2> SUFFICES ASSUME post = "receiving", ~startDropped PROVE StartAhead'
    BY DEF StartAhead, StartHold, sessionVars, dropVars
  <2>1. PICK i \in 1..Len(queue) : queue[i] = "start" /\ OnlyProgress(queue, i + 1)
    <3>1. ~OnlyProgress(queue, 1)
      BY <1>1, <1>2 DEF OnlyProgress
    <3> QED BY <3>1 DEF StartAhead
  <2>2. OnlyProgress(queue', i)
    BY <1>2, <2>1 DEF OnlyProgress
  <2>3. CASE i = 1
    BY <2>2, <2>3 DEF StartAhead, StartHold
  <2>4. CASE i # 1
    <3>1. i - 1 \in 1..Len(queue') /\ queue'[i - 1] = "start" /\ i - 1 + 1 = i
      BY <1>2, <2>1, <2>4
    <3> QED BY <2>2, <3>1 DEF StartAhead
  <2> QED BY <2>3, <2>4
<1> QED BY <1>3, <1>3a, <1>4, <1>5

\* Showing the modal of the upload under way keeps IInv.
LEMMA ShowOK == IInv /\ Show => IInv'
<1> SUFFICES ASSUME IInv, Show PROVE IInv'
  OBVIOUS
<1>1. StateTypeOK'
  BY DEF IInv, StateTypeOK, Show, sessionVars, dropVars
<1>1a. FlagTypeOK'
  BY DEF IInv, FlagTypeOK, Show, sessionVars, dropVars
<1>2. DismissedIsFailure' /\ HeldWhileStarting' /\ StartAhead'
  BY DEF IInv, Show, DismissedIsFailure, HeldWhileStarting, StartAhead, OnlyProgress,
         sessionVars, dropVars
<1> QED BY <1>1, <1>1a, <1>2 DEF IInv

\* Dispatching what is not START leaves START where it is, one place further on.
LEMMA ProgressOK == IInv /\ (Progress \/ ShowError) => IInv'
<1> SUFFICES ASSUME IInv, Progress \/ ShowError PROVE IInv'
  OBVIOUS
<1> USE DEF IInv
<1>1. /\ queue \in Seq(Event) /\ queue # <<>> /\ Head(queue) \in {"progress", "error"}
      /\ queue' = Tail(queue) /\ callback = "waiting"
      /\ Head(queue) = "error" \/ Progress
  BY DEF Progress, ShowError, Dispatch, StateTypeOK
<1>2. /\ queue' \in Seq(Event) /\ Len(queue') = Len(queue) - 1 /\ Len(queue) \in Nat \ {0}
      /\ Head(queue) = queue[1]
      /\ \A i \in 1..Len(queue') : queue'[i] = queue[i + 1]
  BY <1>1, Shifted
<1>3. /\ UNCHANGED <<post, remaining, uploads, callback, hold, startDropped, errorDropped,
                     endedEarly>>
      /\ modal' \in {"failed", modal} /\ dismiss' \in BOOLEAN
  BY DEF Progress, ShowError, StateTypeOK, FlagTypeOK, sessionVars, dropVars, screenVars
<1>4. StateTypeOK'
  BY <1>2, <1>3, OtaConstants DEF StateTypeOK
<1>4a. FlagTypeOK'
  BY <1>3 DEF FlagTypeOK
<1>5. DismissedIsFailure' /\ HeldWhileStarting'
  BY DEF Progress, ShowError, DismissedIsFailure, HeldWhileStarting, screenVars
<1>6. StartAhead'
  <2> SUFFICES ASSUME post = "receiving", ~startDropped PROVE StartAhead'
    BY <1>3 DEF StartAhead
  <2>1. ASSUME NEW i \in 1..Len(queue), queue[i] = "start", OnlyProgress(queue, i + 1)
        PROVE  StartAhead'
    <3>1. i # 1
      BY <1>1, <1>2, <2>1
    <3>2. i - 1 \in 1..Len(queue') /\ queue'[i - 1] = "start" /\ i - 1 + 1 = i
      BY <1>2, <2>1, <3>1
    <3>3. OnlyProgress(queue', i)
      BY <1>2, <2>1 DEF OnlyProgress
    <3> QED BY <3>2, <3>3 DEF StartAhead
  <2>2. CASE (callback = "camera" \/ modal = "updating") /\ OnlyProgress(queue, 1)
    <3>1. Progress
      BY <1>1, <1>2, <2>2 DEF OnlyProgress
    <3>2. modal' = modal /\ modal = "updating"
      BY <1>1, <2>2, <3>1 DEF Progress, screenVars
    <3>3. OnlyProgress(queue', 1)
      BY <1>2, <2>2 DEF OnlyProgress
    <3> QED BY <3>2, <3>3 DEF StartAhead
  <2> QED BY <2>1, <2>2 DEF StartAhead
<1> QED BY <1>4, <1>4a, <1>5, <1>6

\* The modal that is dismissed is that of a failure, never that of an update.
LEMMA DismissOK == IInv /\ Dismiss => IInv'
<1> SUFFICES ASSUME IInv, Dismiss PROVE IInv'
  OBVIOUS
<1>1. StateTypeOK'
  BY DEF IInv, StateTypeOK, Dismiss, sessionVars, dropVars
<1>1a. FlagTypeOK'
  BY DEF IInv, FlagTypeOK, Dismiss, sessionVars, dropVars
<1>2. DismissedIsFailure' /\ HeldWhileStarting'
  BY DEF IInv, Dismiss, DismissedIsFailure, HeldWhileStarting
<1>3. StartAhead'
  BY DEF IInv, Dismiss, DismissedIsFailure, StartAhead, OnlyProgress, sessionVars, dropVars
<1> QED BY <1>1, <1>1a, <1>2, <1>3 DEF IInv

\* Every step of a session keeps IInv.
LEMMA StepOK == IInv /\ [Next]_vars => IInv'
<1> SUFFICES ASSUME IInv, [Next]_vars PROVE IInv'
  OBVIOUS
<1>1. CASE UNCHANGED vars
  BY <1>1 DEF IInv, StateTypeOK, FlagTypeOK, DismissedIsFailure, HeldWhileStarting, StartAhead,
              OnlyProgress, vars, sessionVars, screenVars, dropVars
<1> QED BY <1>1, AcceptOK, ReceiveOK, FailOK, CompleteOK, StartHoldOK, ShowOK, ProgressOK,
           DismissOK DEF Next, Callback

-----------------------------------------------------------------------------
(* The theorems.                                                             *)

\* The inductive invariant holds in every reachable state of ota_server.c, its
\* callbacks and the modal.
THEOREM OtaInvariance == Spec => []IInv
<1> QED BY InitOK, StepOK, PTL DEF Spec

\* Every variable has its type: the callback queue never exceeds its length.
THEOREM OtaTypeCorrect == Spec => []OtaTypeOK
<1>1. IInv => OtaTypeOK
  BY DEF IInv, OtaTypeOK
<1> QED BY <1>1, OtaInvariance, PTL

\* The modal shows the upload under way and the backlight is held meanwhile,
\* unless its START event was dropped or an earlier failure was dismissed in its
\* ota_start_cb.
THEOREM UpdateShownAndHeldHolds == Spec => []UpdateShownAndHeld
<1>1. IInv => UpdateShownAndHeld
  <2> SUFFICES ASSUME IInv PROVE UpdateShownAndHeld
    OBVIOUS
  <2>1. modal = "updating" => hold \/ endedEarly
    BY DEF IInv, HeldWhileStarting
  <2>2. post = "receiving" /\ Handled => modal = "updating" \/ startDropped
    BY DEF IInv, StartAhead, Handled
  <2> QED BY <2>1, <2>2 DEF UpdateShownAndHeld
<1> QED BY <1>1, OtaInvariance, PTL

\* ota_modal_dismiss_cb only ever takes away the modal of a failure.
THEOREM DismissedIsFailureHolds == Spec => []DismissedIsFailure
<1>1. IInv => DismissedIsFailure
  BY DEF IInv
<1> QED BY <1>1, OtaInvariance, PTL

-----------------------------------------------------------------------------
\* A failure that is over is the last event in the queue, or is on the screen with
\* its dismissal to come, or has left nothing behind.
LastIsError == queue # <<>> /\ queue[Len(queue)] = "error"
Released == ~hold /\ modal = "hidden"
ReleaseAhead ==
    post = "none" /\ ~errorDropped =>
        LastIsError \/ (Handled /\ (dismiss \/ Released))

\* Every step of a failed upload's events keeps its release ahead.
LEMMA ReleaseStep == IInv /\ ReleaseAhead /\ [Next]_vars => ReleaseAhead'
<1> SUFFICES ASSUME IInv, ReleaseAhead, [Next]_vars, post' = "none", ~errorDropped'
             PROVE  LastIsError' \/ (Handled' /\ (dismiss' \/ Released'))
  BY DEF ReleaseAhead
<1>1. queue \in Seq(Event)
  BY DEF IInv, StateTypeOK
<1>2. CASE Fail \/ NoPartition
  <2>1. queue' = Append(queue, "error") /\ "error" \in Event
    BY <1>2 DEF Fail, NoPartition, Queued, Event
  <2>2. queue'[Len(queue')] = "error" /\ queue' # <<>>
    BY <1>1, <2>1
  <2> QED BY <2>2 DEF LastIsError
<1>3. CASE StartHold \/ Progress
  <2>1. /\ post = "none" /\ ~errorDropped /\ queue # <<>> /\ queue' = Tail(queue)
        /\ Head(queue) # "error"
    BY <1>3 DEF StartHold, Progress, Dispatch, sessionVars, dropVars
  <2>2. LastIsError
    BY <2>1 DEF ReleaseAhead, Handled
  <2>3. queue'[Len(queue')] = "error" /\ queue' # <<>>
    <3>1. Len(queue) # 1
      BY <1>1, <2>1, <2>2 DEF LastIsError
    <3> QED BY <1>1, <2>1, <2>2, <3>1, Shifted DEF LastIsError
  <2> QED BY <2>3 DEF LastIsError
<1>4. CASE ShowError
  <2>1. /\ post = "none" /\ ~errorDropped /\ queue # <<>> /\ queue' = Tail(queue)
        /\ callback' = "waiting" /\ dismiss'
    BY <1>4 DEF ShowError, Dispatch, sessionVars, dropVars
  <2>2. LastIsError
    BY <2>1 DEF ReleaseAhead, Handled
  <2>3. CASE queue' = <<>>
    BY <2>1, <2>3 DEF Handled
  <2>4. CASE queue' # <<>>
    BY <1>1, <2>1, <2>2, <2>4, Shifted DEF LastIsError
  <2> QED BY <2>3, <2>4
<1>5. CASE Show
  <2>1. LastIsError /\ UNCHANGED queue
    BY <1>5 DEF Show, ReleaseAhead, Handled, sessionVars, dropVars
  <2> QED BY <2>1 DEF LastIsError
<1>6. CASE Dismiss
  <2>1. post = "none" /\ ~errorDropped /\ UNCHANGED <<queue, callback>> /\ Released'
    BY <1>6 DEF Dismiss, Released, sessionVars, dropVars
  <2> QED BY <2>1 DEF ReleaseAhead, LastIsError, Handled
<1>7. CASE UNCHANGED vars
  BY <1>7 DEF vars, sessionVars, screenVars, dropVars, ReleaseAhead, LastIsError, Handled, Released
<1>8. CASE Accept \/ Receive \/ Complete
  BY <1>8 DEF Accept, Receive, Complete, IInv, StateTypeOK
<1> QED BY <1>2, <1>3, <1>4, <1>5, <1>6, <1>7, <1>8 DEF Next, Callback

\* After a failure the hold and the modal never stay with nobody to take them away:
\* the ERROR event is still to be handled or the dismiss timer runs, unless that
\* event was dropped.
FailureWillRelease ==
    post = "none" /\ (hold \/ modal # "hidden") => LastIsError \/ dismiss \/ errorDropped
THEOREM FailureWillReleaseHolds == Spec => []FailureWillRelease
<1>1. Init => ReleaseAhead
  BY DEF Init, ReleaseAhead, Handled, Released
<1>2. ReleaseAhead => FailureWillRelease
  BY DEF ReleaseAhead, FailureWillRelease, Released
<1> QED BY <1>1, <1>2, ReleaseStep, OtaInvariance, PTL DEF Spec

-----------------------------------------------------------------------------
(* With the camera.                                                          *)

\* A step of the composition is one of the upload, or leaves the upload alone.
LEMMA UploadStep == [CamNext]_allVars => [Next]_vars
<1> SUFFICES ASSUME [CamNext]_allVars PROVE [Next]_vars
  OBVIOUS
<1>1. CASE HttpTask
  BY <1>1 DEF HttpTask, Next
<1>2. CASE CallbackTask
  <2>1. CASE StartHold \/ Progress \/ ShowError
    BY <2>1 DEF Next, Callback
  <2>2. CASE Stop
    BY <2>2 DEF Stop, StopNothing, StopRequest, StopSeen, StopTimesOut
  <2>3. CASE ShowAfterStop
    BY <2>3 DEF ShowAfterStop, Next, Callback
  <2> QED BY <1>2, <2>1, <2>2, <2>3 DEF CallbackTask
<1>3. CASE DismissTimer
  BY <1>3 DEF DismissTimer, Next
<1>4. CASE Boot
  BY <1>4 DEF Boot, Claim, Register, Create, NotCreated
<1>5. CASE Camera
  BY <1>5 DEF Camera, Opened, NotOpened, Leave, Exit
<1>6. CASE Drop \/ Client
  BY <1>6 DEF Drop, Client, Reconnect, ReadOnline, Republish
<1>7. CASE UNCHANGED allVars
  BY <1>7 DEF allVars
<1> QED BY <1>1, <1>2, <1>3, <1>4, <1>5, <1>6, <1>7 DEF CamNext

\* With the camera, whatever it does, an upload is an upload: ota_start_cb waits for
\* the camera to stop, and nothing the camera does shows in modal, hold or queue.
THEOREM ImplementsSession == CamSpec => Spec
<1>1. CamInit => Init
  BY DEF CamInit
<1> QED BY <1>1, UploadStep, PTL DEF CamSpec, Spec

\* The modal shows the upload under way, held, also while the camera is stopped,
\* started or republished.
THEOREM UpdateShownWithCamera == CamSpec => []UpdateShownAndHeld
BY ImplementsSession, UpdateShownAndHeldHolds, PTL

-----------------------------------------------------------------------------
\* There is no camera before the boot creates its task, and it is online only then.
NotYet == boot \in {"before", "claimed", "registered"} => task = "none" /\ ~online

\* What the last stop of the camera knew of it.
Stopped == task = "none" \/ timedOut \/ created \/ ~started
StopOK == stop = "returned" \/ (modal = "updating" /\ callback = "waiting") => Stopped

\* What was last published of the camera, from its registration on.
ShownOK == boot \in {"registered", "done"} => shown = Word(online) \/ unsaid \/ late

CamTypeOK ==
    /\ online \in BOOLEAN /\ unsaid \in BOOLEAN /\ late \in BOOLEAN
    /\ boot \in {"before", "claimed", "registered", "done"}
    /\ stop # "ask" => callback = "camera"

CamInv == CamTypeOK /\ NotYet /\ StopOK /\ ShownOK

\* The HTTP task, the rest of the callbacks and the dismissal leave the camera
\* alone, and bring no update to the screen.
LEMMA SessionOK ==
    ASSUME CamInv, HttpTask \/ DismissTimer
                     \/ ((StartHold \/ Progress \/ ShowError) /\ UNCHANGED camVars)
    PROVE  CamInv'
<1> USE DEF camVars, bootVars, stopVars, topicVars, screenVars
<1>1. UNCHANGED camVars
  BY DEF HttpTask, DismissTimer
<1>2. modal' = "updating" => modal = "updating"
  BY DEF HttpTask, Accept, Receive, Fail, NoPartition, Complete, DismissTimer, Dismiss,
         StartHold, Progress, ShowError
<1>3. /\ callback' = "waiting" => callback = "waiting"
      /\ callback = "camera" => callback' = "camera"
  BY DEF HttpTask, Accept, Receive, Fail, NoPartition, Complete, DismissTimer, Dismiss,
         StartHold, Progress, ShowError, Dispatch
<1> QED BY <1>1, <1>2, <1>3
        DEF CamInv, CamTypeOK, NotYet, StopOK, Stopped, ShownOK, Word

\* The boot claims the camera, registers its handler and creates its task.
LEMMA BootOK == ASSUME CamInv, Boot PROVE CamInv'
<1> USE DEF CamInv, CamTypeOK, NotYet, StopOK, Stopped, ShownOK, Word, Publish,
            vars, screenVars, stopVars, topicVars
<1>1. CASE Claim
  BY <1>1 DEF Claim
<1>2. CASE Register
  BY <1>2 DEF Register
<1>3. CASE Create
  BY <1>3 DEF Create
<1>4. CASE NotCreated
  BY <1>4 DEF NotCreated
<1> QED BY <1>1, <1>2, <1>3, <1>4 DEF Boot

\* The camera's task publishes what it changes.
LEMMA CameraOK == ASSUME CamInv, Camera PROVE CamInv'
<1> USE DEF CamInv, CamTypeOK, NotYet, StopOK, Stopped, ShownOK, Word, Publish, NoPublish,
            vars, screenVars, stopVars
<1>1. CASE Opened
  BY <1>1 DEF Opened
<1>2. CASE NotOpened
  BY <1>2 DEF NotOpened
<1>3. CASE Leave
  BY <1>3 DEF Leave
<1>4. CASE Exit
  BY <1>4 DEF Exit, topicVars
<1> QED BY <1>1, <1>2, <1>3, <1>4 DEF Camera

\* An upload stops the camera, or finds nothing to stop, and only then is shown.
LEMMA StopStepOK == ASSUME CamInv, Stop \/ ShowAfterStop PROVE CamInv'
<1> USE DEF CamInv, CamTypeOK, NotYet, StopOK, Stopped, ShownOK, Word, StopLooks,
            vars, screenVars, bootVars, topicVars
<1>1. CASE StopNothing
  BY <1>1 DEF StopNothing
<1>2. CASE StopRequest
  BY <1>2 DEF StopRequest
<1>3. CASE StopSeen
  BY <1>3 DEF StopSeen
<1>4. CASE StopTimesOut
  BY <1>4 DEF StopTimesOut
<1>5. CASE ShowAfterStop
  BY <1>5 DEF ShowAfterStop, Show
<1> QED BY <1>1, <1>2, <1>3, <1>4, <1>5 DEF Stop

\* The connection, and the handler of a reconnection.
LEMMA ClientOK == ASSUME CamInv, Drop \/ Client PROVE CamInv'
<1> USE DEF CamInv, CamTypeOK, NotYet, StopOK, Stopped, ShownOK, Word,
            vars, screenVars, bootVars, stopVars
<1>1. CASE Drop
  BY <1>1 DEF Drop
<1>2. CASE Reconnect
  BY <1>2 DEF Reconnect
<1>3. CASE ReadOnline
  BY <1>3 DEF ReadOnline
<1>4. CASE Republish
  BY <1>4 DEF Republish
<1> QED BY <1>1, <1>2, <1>3, <1>4 DEF Client

\* Every behaviour of camera and uploads keeps the invariant.
THEOREM CamInvariance == CamSpec => []CamInv
<1>1. CamInit => CamInv
  BY DEF CamInit, Init, CamInv, CamTypeOK, NotYet, StopOK, ShownOK
<1>2. CamInv /\ [CamNext]_allVars => CamInv'
  <2> SUFFICES ASSUME CamInv, [CamNext]_allVars PROVE CamInv'
    OBVIOUS
  <2>1. CASE UNCHANGED allVars
    BY <2>1 DEF allVars, vars, screenVars, camVars, bootVars, stopVars, topicVars,
                CamInv, CamTypeOK, NotYet, StopOK, Stopped, ShownOK, Word
  <2>2. CASE CamNext
    BY <2>2, SessionOK, BootOK, CameraOK, StopStepOK, ClientOK DEF CamNext, CallbackTask
  <2> QED BY <2>1, <2>2
<1> QED BY <1>1, <1>2, PTL DEF CamSpec

\* No camera that stop could have known of runs while the modal tells of an update.
THEOREM CameraStopsForUploadHolds == CamSpec => []CameraStopsForUpload
<1>1. CamInv => CameraStopsForUpload
  BY DEF CamInv, StopOK, Stopped, CameraStopsForUpload
<1> QED BY <1>1, CamInvariance, PTL

\* Home Assistant sees the camera's availability as it is, unless its change was
\* not published or crossed a republication.
THEOREM CameraShownHolds == CamSpec => []CameraShown
<1>1. CamInv => CameraShown
  BY DEF CamInv, ShownOK, CameraShown
<1> QED BY <1>1, CamInvariance, PTL
=================================================================================
