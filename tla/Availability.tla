----------------------------- MODULE Availability -----------------------------
(***************************************************************************)
(* main/connectivity/mqtt_manager.c on top of WifiLink: the retained       *)
(* availability topic.  The client task of esp-mqtt runs the event handler *)
(* with the client's lock held, and esp_mqtt_client_publish takes that     *)
(* lock, so a publication of the esp_timer task waits for a handler.  The  *)
(* manager's own variables have no lock: every access of the timer task to *)
(* them is a step.  Client, broker and its last will are external.         *)
(***************************************************************************)
EXTENDS WifiLink, FiniteSets

CONSTANTS
    Ids,       \* MQTT packet identifiers
    None,      \* -1, no identifier
    MaxOthers  \* bound on the publications of other tasks in the outbox

ASSUME AvailabilityConstants == None \notin Ids /\ MaxOthers \in Nat

VARIABLES
    connected, \* s_connected
    pending,   \* s_device_availability_online_pending
    msgId,     \* s_device_availability_online_msg_id
    armed,     \* s_device_availability_retry_timer is armed
    client,    \* the client task: "idle", or its place in the CONNECTED handler
    timerTask, \* the esp_timer task: "idle", or its place in the retry callback
    carried,   \* the identifier its publication returned
    outbox,    \* publications of "online" without an acknowledgement
    others,    \* and publications of other tasks with QoS 1
    acks,      \* acknowledgements on their way
    session,   \* what the broker has of this client: none, open, or half open
    ghost,     \* the broker still has a session of this device before its restart
    retained,  \* the retained payload of the topic
    lateWill   \* history: the will of such a session came after "online"

managerVars == <<connected, pending, msgId, armed, client, timerTask, carried>>
mqttVars == <<outbox, others, acks>>
brokerVars == <<session, ghost, retained, lateWill>>
vars == <<wifiVars, managerVars, mqttVars, brokerVars>>

InUse == outbox \union others \union {msgId, carried}

-----------------------------------------------------------------------------
(* esp-mqtt and the broker.                                                  *)

\* The outbox of the client is full, or the connection breaks: -1 or -2, but a
\* message with QoS 1 may be in the outbox all the same.
Refused == \/ UNCHANGED outbox
           \/ \E id \in Ids \ InUse : outbox' = outbox \union {id}
Queued(id) == id \in Ids \ InUse /\ outbox' = outbox \union {id}

\* A command of a drag is published with QoS 1, too (mqtt_dataplane.c).
PublishOther ==
    /\ connected /\ Cardinality(others) < MaxOthers
    /\ \E id \in Ids \ InUse : others' = others \union {id}
    /\ UNCHANGED <<wifiVars, managerVars, outbox, acks, brokerVars>>

\* The broker takes a message: the client sends whatever its outbox holds while
\* it is connected, and after a reconnection again.
DeliverOnline ==
    /\ session = "open" /\ connected
    /\ \E id \in outbox \ acks : acks' = acks \union {id}
    /\ retained' = "online" /\ lateWill' = FALSE
    /\ UNCHANGED <<wifiVars, managerVars, outbox, others, session, ghost>>
DeliverOther ==
    /\ session = "open" /\ connected
    /\ \E id \in others \ acks : acks' = acks \union {id}
    /\ UNCHANGED <<wifiVars, managerVars, outbox, others, brokerVars>>

\* Nobody acknowledged it for 30 s.
Expires ==
    /\ session # "open"
    /\ \E id \in outbox \union others :
         outbox' = outbox \ {id} /\ others' = others \ {id}
    /\ UNCHANGED <<wifiVars, managerVars, acks, brokerVars>>

\* The connection breaks, which the broker has yet to notice ...
LinkLost ==
    /\ session = "open" /\ session' = "half" /\ acks' = {}
    /\ UNCHANGED <<wifiVars, managerVars, outbox, others, ghost, retained, lateWill>>
\* Fault: the will is not retained.
BrokerNoticesOnly ==
    /\ session = "half" /\ session' = "none"
    /\ UNCHANGED <<wifiVars, managerVars, mqttVars, ghost, retained, lateWill>>
\* ... when one and a half keepalives are over: it publishes the last will.
BrokerNotices ==
    /\ session = "half" /\ session' = "none" /\ retained' = "offline"
    /\ UNCHANGED <<wifiVars, managerVars, mqttVars, ghost, lateWill>>
\* The session from before the restart had another, random client id.
GhostNoticed ==
    /\ ghost /\ ghost' = FALSE
    /\ retained' = "offline" /\ lateWill' = (session = "open")
    /\ UNCHANGED <<wifiVars, managerVars, mqttVars, session>>

-----------------------------------------------------------------------------
(* mqtt_event_handler, on the client task.                                   *)

\* reset_device_availability_online_pending.
Reset == pending' = FALSE /\ msgId' = None /\ armed' = FALSE

\* MQTT_EVENT_CONNECTED. The broker lets a half open session of the same client id
\* go first, with its will.
\* Fault: the message of an earlier connection counts as this one's.
ConnectedNotPending ==
    /\ boot = "started" /\ wifi = "up" /\ client = "idle" /\ ~connected
    /\ session \in {"none", "half"} /\ session' = "open"
    /\ retained' = IF session = "half" THEN "offline" ELSE retained
    /\ connected' = TRUE /\ client' = "publish"
    /\ UNCHANGED <<wifiVars, pending, msgId, armed, timerTask, carried, mqttVars, ghost, lateWill>>
Connected ==
    /\ boot = "started" /\ wifi = "up" /\ client = "idle" /\ ~connected
    /\ session \in {"none", "half"} /\ session' = "open"
    /\ retained' = IF session = "half" THEN "offline" ELSE retained
    /\ connected' = TRUE /\ pending' = TRUE /\ msgId' = None /\ client' = "publish"
    /\ UNCHANGED <<wifiVars, armed, timerTask, carried, mqttVars, ghost, lateWill>>

\* mqtt_manager_publish_device_availability within it ...
Announce ==
    /\ client = "publish" /\ client' = "schedule"
    /\ \/ Refused /\ UNCHANGED msgId
       \/ \E id \in Ids : Queued(id) /\ msgId' = id
    /\ UNCHANGED <<wifiVars, connected, pending, armed, timerTask, carried, others, acks, brokerVars>>
\* ... and schedule_device_availability_retry_timer: stop, then start.
AnnounceStop ==
    /\ client = "schedule" /\ client' = "start" /\ armed' = FALSE
    /\ UNCHANGED <<wifiVars, connected, pending, msgId, timerTask, carried, mqttVars, brokerVars>>
AnnounceStart ==
    /\ client = "start" /\ client' = "idle" /\ armed' = TRUE
    /\ UNCHANGED <<wifiVars, connected, pending, msgId, timerTask, carried, mqttVars, brokerVars>>

\* MQTT_EVENT_DISCONNECTED, and MQTT_EVENT_ERROR, which it follows.
Disconnected ==
    /\ connected /\ session # "open" /\ client = "idle"
    /\ connected' = FALSE /\ Reset
    /\ UNCHANGED <<wifiVars, client, timerTask, carried, mqttVars, brokerVars>>

Taken(id) == /\ outbox' = outbox \ {id} /\ others' = others \ {id} /\ acks' = acks \ {id}
\* MQTT_EVENT_PUBLISHED.
\* Fault: whichever message was acknowledged.
PublishedAny ==
    /\ client = "idle" /\ connected
    /\ \E id \in acks : Taken(id) /\ Reset
    /\ UNCHANGED <<wifiVars, connected, client, timerTask, carried, brokerVars>>
Published ==
    /\ client = "idle" /\ connected
    /\ \E id \in acks :
         /\ Taken(id)
         /\ IF pending /\ id = msgId THEN Reset ELSE UNCHANGED <<pending, msgId, armed>>
    /\ UNCHANGED <<wifiVars, connected, client, timerTask, carried, brokerVars>>

-----------------------------------------------------------------------------
(* device_availability_retry_timer_cb, on the esp_timer task.                *)

timerRest == <<wifiVars, connected, pending, client, others, acks, brokerVars>>

Fire ==
    /\ armed /\ timerTask = "idle" /\ armed' = FALSE /\ timerTask' = "check"
    /\ UNCHANGED <<timerRest, msgId, carried, outbox>>
\* Its own check, and that of mqtt_manager_publish_device_availability.
RetryCheck ==
    /\ timerTask = "check"
    /\ timerTask' = IF pending /\ connected THEN "publish" ELSE "idle"
    /\ UNCHANGED <<timerRest, msgId, armed, carried, outbox>>
\* esp_mqtt_client_publish. A failure schedules only what is still pending.
RetryFails ==
    /\ timerTask = "publish" /\ client = "idle"
    /\ Refused
    /\ timerTask' = IF pending THEN "schedule" ELSE "idle"
    /\ UNCHANGED <<timerRest, msgId, armed, carried>>
RetryQueued ==
    /\ timerTask = "publish" /\ client = "idle"
    /\ \E id \in Ids : Queued(id) /\ carried' = id
    /\ timerTask' = "store"
    /\ UNCHANGED <<timerRest, msgId, armed>>
\* Fault: a publication that was taken is not followed up.
RetryStoreOnly ==
    /\ timerTask = "store" /\ timerTask' = "idle"
    /\ msgId' = carried /\ carried' = None
    /\ UNCHANGED <<timerRest, armed, outbox>>
\* The acknowledgement may have been handled by now.
RetryStore ==
    /\ timerTask = "store" /\ timerTask' = "schedule"
    /\ msgId' = carried /\ carried' = None
    /\ UNCHANGED <<timerRest, armed, outbox>>
RetryStop ==
    /\ timerTask = "schedule"
    /\ \/ pending /\ connected /\ armed' = FALSE /\ timerTask' = "start"
       \/ ~(pending /\ connected) /\ UNCHANGED armed /\ timerTask' = "idle"
    /\ UNCHANGED <<timerRest, msgId, carried, outbox>>
RetryStart ==
    /\ timerTask = "start" /\ timerTask' = "idle" /\ armed' = TRUE
    /\ UNCHANGED <<timerRest, msgId, carried, outbox>>
TimerTask == \/ Fire \/ RetryCheck \/ RetryFails \/ RetryQueued \/ RetryStore
             \/ RetryStop \/ RetryStart

-----------------------------------------------------------------------------
ManagerStart ==
    /\ connected' = FALSE /\ pending' = FALSE /\ msgId' = None /\ armed' = FALSE
    /\ client' = "idle" /\ timerTask' = "idle" /\ carried' = None
    /\ outbox' = {} /\ others' = {} /\ acks' = {}

Init ==
    /\ WifiInit
    /\ connected = FALSE /\ pending = FALSE /\ msgId = None /\ armed = FALSE
    /\ client = "idle" /\ timerTask = "idle" /\ carried = None
    /\ outbox = {} /\ others = {} /\ acks = {}
    /\ session = "none" /\ ghost \in BOOLEAN /\ lateWill = FALSE
    /\ retained \in {"none", "online", "offline"} /\ (retained = "online" => ghost)

\* Without Wi-Fi the connection is broken, too.
WifiLost ==
    /\ StaDisconnected
    /\ session' = IF session = "open" THEN "half" ELSE session
    /\ acks' = {}
    /\ UNCHANGED <<managerVars, outbox, others, ghost, retained, lateWill>>

\* The broker is told nothing.
Restart ==
    /\ WifiRestart /\ ManagerStart
    /\ ghost' = (ghost \/ session # "none") /\ session' = "none" /\ lateWill' = FALSE
    /\ UNCHANGED retained

WifiSteps == (GotIp \/ WifiWaitEnds) /\ UNCHANGED <<managerVars, mqttVars, brokerVars>>
ClientTask == Connected \/ Announce \/ AnnounceStop \/ AnnounceStart \/ Disconnected \/ Published
Broker == DeliverOnline \/ DeliverOther \/ BrokerNotices \/ GhostNoticed
Next == \/ WifiSteps \/ WifiLost \/ Restart \/ ClientTask \/ TimerTask
        \/ PublishOther \/ Broker \/ Expires \/ LinkLost

Spec == Init /\ [][Next]_vars

\* The tasks run, the timer elapses, and the broker notices a dead session; an
\* outbox that refuses has room again when the callback tries often enough.
Fairness ==
    /\ WF_vars(ClientTask) /\ WF_vars(TimerTask) /\ SF_vars(RetryQueued)
    /\ WF_vars(DeliverOnline) /\ WF_vars(BrokerNotices) /\ WF_vars(GhostNoticed)
FairSpec == Spec /\ Fairness

-----------------------------------------------------------------------------
(* Properties.                                                               *)

ManagerFlagTypeOK ==
    /\ connected \in BOOLEAN /\ pending \in BOOLEAN /\ armed \in BOOLEAN
    /\ ghost \in BOOLEAN /\ lateWill \in BOOLEAN
ManagerStateTypeOK ==
    /\ msgId \in Ids \union {None} /\ carried \in Ids \union {None}
    /\ client \in {"idle", "publish", "schedule", "start"}
    /\ timerTask \in {"idle", "check", "publish", "store", "schedule", "start"}
    /\ outbox \subseteq Ids /\ others \subseteq Ids /\ acks \subseteq outbox \union others
    /\ session \in {"none", "open", "half"} /\ retained \in {"none", "online", "offline"}
\* Types; an acknowledgement is of a message the outbox still holds.
AvailabilityTypeOK == WifiTypeOK /\ ManagerFlagTypeOK /\ ManagerStateTypeOK

\* The manager stops retrying only when the broker has the device as online: no
\* acknowledgement of another message, or of an earlier connection, is taken for
\* that of "online"; unless the will of a session before the restart came late.
SettledMeansOnline ==
    connected /\ ~pending /\ session = "open" => retained = "online" \/ lateWill

\* As long as "online" is pending somebody will publish it again: the timer is
\* armed, or one of the two tasks is on its way to arm it.
RetryWillCome ==
    pending /\ connected => armed \/ client # "idle" \/ timerTask # "idle"

\* A session that stays open shows the device as online in the end.
OnlineInTheEnd ==
    session = "open" ~> retained = "online" \/ session # "open" \/ lateWill

\* When Wi-Fi is given up for good, Home Assistant learns that the device is gone.
GivenUpMeansOffline ==
    wifi = "given_up" ~> retained # "online" \/ wifi # "given_up"
===============================================================================
