------------------------------ MODULE OtaSession -------------------------------
(***************************************************************************)
(* A firmware upload, from the POST to the modal on the screen:            *)
(* main/connectivity/ota_server.c handles the request on the HTTP task and *)
(* queues events for its callback task, whose callbacks in app_main.c hold *)
(* the backlight, stop the camera and show the modal of ui_ota_modal.c. An *)
(* LVGL timer takes the modal of a failed upload, and the hold, away. The  *)
(* HTTP task handles one request at a time.                                *)
(***************************************************************************)
EXTENDS Integers, Sequences

CONSTANTS
    Depth,      \* OTA_CALLBACK_QUEUE_LENGTH
    Chunks,     \* reads an upload takes
    MaxUploads  \* bound on the uploads

ASSUME OtaConstants == Depth \in Nat \ {0} /\ Chunks \in Nat \ {0} /\ MaxUploads \in Nat

VARIABLES
    post,         \* ota_post_handler: no session, receiving, or about to restart
    remaining,    \* reads that are still to come
    queue,        \* s_callback_queue
    callback,     \* where the callback task is in ota_start_cb, or waiting
    hold,         \* the backlight is held
    modal,        \* s_modal: hidden, or with the title it shows
    dismiss,      \* s_modal.dismiss_timer exists
    uploads,      \* how many uploads were tried
    startDropped, \* history: the START event of this upload was dropped
    errorDropped, \* history: the ERROR event of the last upload was dropped
    endedEarly    \* history: the modal of an earlier failure was dismissed while
                  \* ota_start_cb of this upload was under way

sessionVars == <<post, remaining, uploads>>
screenVars == <<hold, modal, dismiss>>
dropVars == <<startDropped, errorDropped>>
vars == <<sessionVars, queue, callback, screenVars, dropVars, endedEarly>>

Event == {"start", "progress", "error"}

Full == Len(queue) = Depth
\* Fault: the event overtakes those of the upload before.
QueuedFirst(event) == ~Full /\ queue' = <<event>> \o queue
\* ota_queue_callback_event. START and ERROR wait for 50 ms, which a callback task
\* that has nothing else to do does not exceed; PROGRESS does not wait.
Queued(event) == ~Full /\ queue' = Append(queue, event)
Dropped == Full /\ UNCHANGED queue
DroppedLate == Dropped /\ callback # "waiting"

-----------------------------------------------------------------------------
(* ota_post_handler.                                                         *)

\* The session is claimed, and START queued. A request without a length, or for
\* too large an image, leaves nothing behind.
Accept ==
    /\ post = "none" /\ uploads < MaxUploads
    /\ post' = "receiving" /\ remaining' = Chunks /\ uploads' = uploads + 1
    /\ errorDropped' = FALSE
    /\ \/ Queued("start") /\ startDropped' = FALSE
       \/ DroppedLate /\ startDropped' = TRUE
    /\ UNCHANGED <<callback, screenVars, endedEarly>>

\* One read, written to flash.
Receive ==
    /\ post = "receiving" /\ remaining > 0 /\ remaining' = remaining - 1
    /\ Queued("progress") \/ Dropped
    /\ UNCHANGED <<post, uploads, callback, screenVars, dropVars, endedEarly>>

\* ota_fail_request, after any of the calls that may fail.
Fail ==
    /\ post = "receiving" /\ post' = "none"
    /\ \/ Queued("error") /\ errorDropped' = FALSE
       \/ DroppedLate /\ errorDropped' = TRUE
    /\ UNCHANGED <<remaining, uploads, callback, screenVars, startDropped, endedEarly>>
\* There is no partition to write to: the session fails before START.
NoPartition ==
    /\ post = "none" /\ uploads < MaxUploads /\ uploads' = uploads + 1
    /\ \/ Queued("error") /\ errorDropped' = FALSE
       \/ DroppedLate /\ errorDropped' = TRUE
    /\ UNCHANGED <<post, remaining, callback, screenVars, startDropped, endedEarly>>

\* The boot partition is set and the session released; esp_restart is all that
\* is left.
Complete ==
    /\ post = "receiving" /\ remaining = 0 /\ post' = "restarting"
    /\ UNCHANGED <<remaining, uploads, queue, callback, screenVars, dropVars, endedEarly>>

-----------------------------------------------------------------------------
(* The callback task: ota_dispatch_callback_event.                           *)

Dispatch(event) ==
    /\ callback = "waiting" /\ queue # <<>> /\ Head(queue) = event
    /\ queue' = Tail(queue)

\* ota_start_cb: hold, then stop the camera, which takes up to 2 s ...
StartHold ==
    /\ Dispatch("start") /\ callback' = "camera"
    /\ hold' = TRUE /\ endedEarly' = FALSE
    /\ UNCHANGED <<sessionVars, modal, dismiss, dropVars>>
\* ... then thermostat_ota_modal_show.
Show ==
    /\ callback = "camera" /\ callback' = "waiting"
    /\ modal' = "updating" /\ dismiss' = FALSE
    /\ UNCHANGED <<sessionVars, queue, hold, dropVars, endedEarly>>
\* ota_progress_cb only moves the bar.
Progress == Dispatch("progress") /\ UNCHANGED <<sessionVars, callback, screenVars, dropVars, endedEarly>>
\* ota_error_cb: thermostat_ota_modal_show_error.
ShowError ==
    /\ Dispatch("error") /\ modal' = "failed" /\ dismiss' = TRUE
    /\ UNCHANGED <<sessionVars, callback, hold, dropVars, endedEarly>>

\* Fault: the modal goes, the hold stays.
DismissModal ==
    /\ dismiss /\ dismiss' = FALSE /\ modal' = "hidden"
    /\ endedEarly' = (endedEarly \/ callback = "camera")
    /\ UNCHANGED <<sessionVars, queue, callback, hold, dropVars>>
\* ota_modal_dismiss_cb, on the LVGL task.
Dismiss ==
    /\ dismiss /\ dismiss' = FALSE /\ modal' = "hidden" /\ hold' = FALSE
    /\ endedEarly' = (endedEarly \/ callback = "camera")
    /\ UNCHANGED <<sessionVars, queue, callback, dropVars>>

Init ==
    /\ post = "none" /\ remaining = 0 /\ uploads = 0 /\ queue = <<>>
    /\ callback = "waiting" /\ hold = FALSE /\ modal = "hidden" /\ dismiss = FALSE
    /\ startDropped = FALSE /\ errorDropped = FALSE /\ endedEarly = FALSE

Callback == StartHold \/ Show \/ Progress \/ ShowError
Next == Accept \/ Receive \/ Fail \/ NoPartition \/ Complete \/ Callback \/ Dismiss

Spec == Init /\ [][Next]_vars
\* The callback task and the LVGL timer run on; a client may stall for ever.
FairSpec == Spec /\ WF_vars(Callback) /\ WF_vars(Dismiss)

-----------------------------------------------------------------------------
(* Properties.                                                               *)

FlagTypeOK ==
    /\ hold \in BOOLEAN /\ dismiss \in BOOLEAN
    /\ startDropped \in BOOLEAN /\ errorDropped \in BOOLEAN /\ endedEarly \in BOOLEAN
StateTypeOK ==
    /\ post \in {"none", "receiving", "restarting"} /\ remaining \in 0..Chunks
    /\ queue \in Seq(Event) /\ Len(queue) <= Depth /\ callback \in {"waiting", "camera"}
    /\ modal \in {"hidden", "updating", "failed"} /\ uploads \in 0..MaxUploads
\* The state has its type: in particular the queue never holds more than it may.
OtaTypeOK == StateTypeOK /\ FlagTypeOK

Handled == queue = <<>> /\ callback = "waiting"

\* As long as the modal tells of an update the backlight is held, and once all
\* events of an upload under way are handled it is the modal of that upload,
\* whatever the uploads before left behind; unless its START event was dropped,
\* or the dismissal of an earlier failure fell into its ota_start_cb.
UpdateShownAndHeld ==
    /\ modal = "updating" => hold \/ endedEarly
    /\ post = "receiving" /\ Handled => modal = "updating" \/ startDropped

\* Only a failure is dismissed: while the dismiss timer runs the modal tells of the
\* failure, and no update is taken off the screen by the timer of the one before.
DismissedIsFailure == dismiss => modal = "failed"

\* After a failure the modal, which swallows all touches, and the hold are gone
\* in the end, unless the ERROR event found the queue full for too long.
FailureReleasesUnlessDropped ==
    post = "none" /\ (hold \/ modal # "hidden")
        ~> (~hold /\ modal = "hidden") \/ post # "none" \/ errorDropped

\* The same without the exception, as the design has it: violated, since the
\* callback task may be busy with the camera for longer than the ERROR event
\* waits for room.
FailureReleases ==
    post = "none" /\ (hold \/ modal # "hidden")
        ~> (~hold /\ modal = "hidden") \/ post # "none"
================================================================================
