------------------------------- MODULE OtaCamera -------------------------------
(***************************************************************************)
(* The camera (main/streaming/camera_snapshot_publisher.c) and the upload  *)
(* that stops it: ota_start_cb of OtaSession calls                         *)
(* camera_snapshot_publisher_stop on the callback task, while app_main,    *)
(* which starts the server long before the camera, may be anywhere in the  *)
(* boot, the camera's task is opening or closing its device, and the MQTT  *)
(* client's task republishes the camera's availability on a reconnection.  *)
(***************************************************************************)
EXTENDS OtaSession

CONSTANT MaxDrops  \* bound on the losses of the MQTT connection

ASSUME CameraConstants == MaxDrops \in Nat

VARIABLES
    boot,     \* camera_snapshot_publisher_start on the main task
    started,  \* s_started
    stopReq,  \* s_stop_requested
    online,   \* s_camera_online
    handler,  \* s_mqtt_event_registered
    task,     \* the camera's task; s_task_handle is set unless it is "none"
    stop,     \* camera_snapshot_publisher_stop on the callback task
    link,     \* the MQTT connection is up
    drops,    \* how often it was lost
    client,   \* camera_snapshot_mqtt_event_handler on the client's task
    shown,    \* the retained availability of the camera
    created,  \* history: the task was created since the last stop looked
    timedOut, \* history: the last stop did not wait for the task's end
    unsaid,   \* history: the last change of s_camera_online was not published
    late      \* history: the handler published what it had read before a change

bootVars == <<boot, started, stopReq, online, handler, task, created>>
stopVars == <<stop, timedOut>>
topicVars == <<link, drops, client, shown, unsaid, late>>
camVars == <<bootVars, stopVars, topicVars>>
allVars == <<vars, camVars>>

Word(isOnline) == IF isOnline THEN "online" ELSE "offline"

\* publish_availability, with QoS 0: nothing is published without a connection.
Publish(isOnline) ==
    IF link THEN shown' = Word(isOnline) /\ unsaid' = FALSE /\ late' = FALSE
            ELSE unsaid' = TRUE /\ UNCHANGED <<shown, late>>
NoPublish == UNCHANGED <<shown, unsaid, late>>

CamInit ==
    /\ Init
    /\ boot = "before" /\ task = "none" /\ stop = "ask" /\ client = "idle"
    /\ started = FALSE /\ stopReq = FALSE /\ online = FALSE /\ handler = FALSE
    /\ link = TRUE /\ drops = 0 /\ shown \in {"online", "offline"}  \* of an earlier boot
    /\ created = FALSE /\ timedOut = FALSE /\ unsaid = FALSE /\ late = FALSE

-----------------------------------------------------------------------------
(* camera_snapshot_publisher_start, on the main task.                        *)

Claim ==
    /\ boot = "before" /\ boot' = "claimed"
    /\ started' = TRUE /\ stopReq' = FALSE /\ online' = FALSE
    /\ UNCHANGED <<vars, handler, task, created, stopVars, topicVars>>
\* register_mqtt_event_handler, then the entity is published.
Register ==
    /\ boot = "claimed" /\ boot' = "registered" /\ handler' = TRUE
    /\ Publish(online)
    /\ UNCHANGED <<vars, started, stopReq, online, task, created, stopVars, link, drops, client>>
Create ==
    /\ boot = "registered" /\ boot' = "done" /\ task' = "opening" /\ created' = TRUE
    /\ UNCHANGED <<vars, started, stopReq, online, handler, stopVars, topicVars>>
NotCreated ==
    /\ boot = "registered" /\ boot' = "done"
    /\ handler' = FALSE /\ started' = FALSE /\ stopReq' = FALSE /\ online' = FALSE
    /\ UNCHANGED <<vars, task, created, stopVars, topicVars>>

-----------------------------------------------------------------------------
(* camera_snapshot_task.                                                     *)

\* Fault: a request that came while the device was opened is forgotten.
OpenedAnew ==
    /\ task = "opening" /\ task' = "running" /\ stopReq' = FALSE
    /\ online' = TRUE /\ Publish(TRUE)
    /\ UNCHANGED <<vars, boot, started, handler, created, stopVars, link, drops, client>>
\* The device, the encoder and the stream are set up.
Opened ==
    /\ task = "opening" /\ task' = "running"
    /\ online' = TRUE /\ Publish(TRUE)
    /\ UNCHANGED <<vars, boot, started, stopReq, handler, created, stopVars, link, drops, client>>
NotOpened ==
    /\ task = "opening" /\ task' = "closing"
    /\ online' = FALSE /\ Publish(FALSE)
    /\ UNCHANGED <<vars, boot, started, stopReq, handler, created, stopVars, link, drops, client>>
\* Fault: the availability is set, not published.
LeaveSilently ==
    /\ task = "running" /\ stopReq /\ task' = "closing"
    /\ online' = FALSE /\ NoPublish
    /\ UNCHANGED <<vars, boot, started, stopReq, handler, created, stopVars, link, drops, client>>
\* The loop ends; set_camera_online publishes a change only.
Leave ==
    /\ task = "running" /\ stopReq /\ task' = "closing"
    /\ online' = FALSE
    /\ IF online THEN Publish(FALSE) ELSE NoPublish
    /\ UNCHANGED <<vars, boot, started, stopReq, handler, created, stopVars, link, drops, client>>
\* release_resources, unregister_mqtt_event_handler, and the task ends.
Exit ==
    /\ task = "closing" /\ task' = "none"
    /\ handler' = FALSE /\ started' = FALSE /\ stopReq' = FALSE
    /\ UNCHANGED <<vars, boot, online, created, stopVars, topicVars>>

-----------------------------------------------------------------------------
(* camera_snapshot_publisher_stop, within ota_start_cb.                      *)

StopLooks == callback = "camera" /\ stop = "ask" /\ timedOut' = FALSE /\ created' = FALSE
\* There is no camera, or it is not started yet. What was started by half goes on.
StopNothing ==
    /\ StopLooks /\ (~started \/ task = "none")
    /\ started' = FALSE /\ stopReq' = FALSE /\ online' = FALSE /\ handler' = FALSE
    /\ stop' = "returned" /\ unsaid' = (unsaid \/ online)
    /\ UNCHANGED <<vars, boot, task, link, drops, client, shown, late>>
StopRequest ==
    /\ StopLooks /\ started /\ task # "none"
    /\ stopReq' = TRUE /\ stop' = "wait"
    /\ UNCHANGED <<vars, boot, started, online, handler, task, topicVars>>
\* Fault: the request is as good as its completion.
StopNotAwaited ==
    /\ stop = "wait" /\ stop' = "returned"
    /\ UNCHANGED <<vars, bootVars, timedOut, topicVars>>
StopSeen ==
    /\ stop = "wait" /\ task = "none" /\ stop' = "returned"
    /\ UNCHANGED <<vars, bootVars, timedOut, topicVars>>
\* After 2 s; the request stays.
StopTimesOut ==
    /\ stop = "wait" /\ task # "none" /\ stop' = "returned" /\ timedOut' = TRUE
    /\ UNCHANGED <<vars, bootVars, topicVars>>
\* The rest of ota_start_cb.
ShowAfterStop ==
    /\ stop = "returned" /\ Show /\ stop' = "ask"
    /\ UNCHANGED <<bootVars, timedOut, topicVars>>

-----------------------------------------------------------------------------
(* The MQTT client's task.                                                   *)

Drop ==
    /\ link /\ drops < MaxDrops /\ client = "idle" /\ link' = FALSE /\ drops' = drops + 1
    /\ UNCHANGED <<vars, bootVars, stopVars, client, shown, unsaid, late>>
Reconnect ==
    /\ ~link /\ link' = TRUE /\ client' = IF handler THEN "called" ELSE "idle"
    /\ UNCHANGED <<vars, bootVars, stopVars, drops, shown, unsaid, late>>
\* republish_camera_entity reads the flag, and then publishes what it read.
ReadOnline ==
    /\ client = "called" /\ client' = Word(online)
    /\ UNCHANGED <<vars, bootVars, stopVars, link, drops, shown, unsaid, late>>
Republish ==
    /\ client \in {"online", "offline"} /\ client' = "idle"
    /\ shown' = client /\ late' = (client # Word(online)) /\ unsaid' = (unsaid /\ late')
    /\ UNCHANGED <<vars, bootVars, stopVars, link, drops>>

-----------------------------------------------------------------------------
Boot == Claim \/ Register \/ Create \/ NotCreated
Camera == Opened \/ NotOpened \/ Leave \/ Exit
Stop == StopNothing \/ StopRequest \/ StopSeen \/ StopTimesOut
Client == Reconnect \/ ReadOnline \/ Republish
CallbackTask ==
    \/ (StartHold \/ Progress \/ ShowError) /\ UNCHANGED camVars
    \/ Stop \/ ShowAfterStop
DismissTimer == Dismiss /\ UNCHANGED camVars
HttpTask == (Accept \/ Receive \/ Fail \/ NoPartition \/ Complete) /\ UNCHANGED camVars

CamNext == HttpTask \/ CallbackTask \/ DismissTimer \/ Boot \/ Camera \/ Drop \/ Client

CamSpec == CamInit /\ [][CamNext]_allVars

\* The callback task, the LVGL timer and the camera's task run on; a client may
\* stall, and the connection may stay down, for ever.
CamFairSpec == CamSpec /\ WF_allVars(CallbackTask) /\ WF_allVars(DismissTimer) /\ WF_allVars(Camera)

-----------------------------------------------------------------------------
(* Properties.                                                               *)

\* While the modal tells of an update and its ota_start_cb is over, no camera runs
\* that stop could have known of: unless it gave up after 2 s, the boot created the
\* camera only since, or this camera had been disowned while it was created.
CameraStopsForUpload ==
    modal = "updating" /\ callback = "waiting" =>
        task = "none" \/ timedOut \/ created \/ ~started

\* The retained availability is that of the camera, whatever reconnections, stops
\* and starts interleave; unless the change fell into an outage, was made by a stop
\* that found nothing to stop, or crossed the handler's republication.
CameraShown ==
    link /\ client = "idle" /\ boot = "done" => shown = Word(online) \/ unsaid \/ late

\* A camera that was asked to stop does so in the end, also if the asking upload has
\* long ceased to wait for it.
StopIsFinal == stopReq ~> task = "none"
================================================================================
