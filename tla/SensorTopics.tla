----------------------------- MODULE SensorTopics -----------------------------
(***************************************************************************)
(* What main/sensors/env_sensors.c and radar_presence.c share: an entity   *)
(* with a retained configuration, availability and state, which its own    *)
(* task publishes and which is published again on every MQTT connection.   *)
(* All publications have QoS 0: they are skipped while s_connected is      *)
(* false, and lost when the connection is broken and nobody knows yet.     *)
(* The handler of the client task runs with the lock of the client held,   *)
(* which every other publication needs.                                    *)
(***************************************************************************)
EXTENDS Naturals

CONSTANTS
    None,      \* no reading
    MaxDrops,  \* bound on the connections that break
    Threshold  \* CONFIG_THEO_SENSOR_FAIL_THRESHOLD, CONFIG_THEO_RADAR_FAIL_THRESHOLD

VARIABLES
    connected,  \* mqtt_manager_is_ready()
    link,       \* "up", or "broken" whether that is known or not
    drops,      \* history: connections that broke
    broker,     \* the retained payload of each topic
    online,     \* the sensor is online
    discovered, \* discovery_published
    fails,      \* consecutive failures
    cache,      \* the cached reading
    reading,    \* the reading its task took last
    task,       \* that task's place in its loop
    client,     \* the client task's place in the CONNECTED handler
    copied,     \* the cached state it copied
    main        \* the place of the task that starts the sensor

linkVars == <<connected, link, drops>>
sensorVars == <<online, fails, cache, reading, task>>
clientVars == <<client, copied>>
topicVars == <<linkVars, broker, discovered, sensorVars, clientVars, main>>

LockFree == client = "idle"
Word(on) == IF on THEN "online" ELSE "offline"

\* A publication, and what it leaves of the retained payloads.
Reaches == connected /\ link = "up"
Publish(topic, payload) ==
    broker' = IF Reaches THEN [broker EXCEPT ![topic] = payload] ELSE broker
\* publish_discovery_config: a publication that is lost may have succeeded.
PublishConfig ==
    /\ Publish("config", TRUE)
    /\ \/ connected /\ discovered' = TRUE
       \/ ~Reaches /\ UNCHANGED discovered

-----------------------------------------------------------------------------
(* The connection.                                                           *)

Drop ==
    /\ link = "up" /\ drops < MaxDrops /\ link' = "broken" /\ drops' = drops + 1
    /\ UNCHANGED <<connected, broker, discovered, sensorVars, clientVars, main>>
Noticed ==
    /\ connected /\ link = "broken" /\ LockFree /\ connected' = FALSE
    /\ UNCHANGED <<link, drops, broker, discovered, sensorVars, clientVars, main>>
\* MQTT_EVENT_CONNECTED: the handler runs if it is registered by then.
Reconnect(registered) ==
    /\ ~connected /\ LockFree /\ connected' = TRUE /\ link' = "up"
    /\ client' = IF registered THEN "copy" ELSE "idle"
    /\ UNCHANGED <<drops, broker, discovered, sensorVars, copied, main>>

-----------------------------------------------------------------------------
(* The handler: republish_entities_on_connect, republish_mqtt_state.         *)

\* The state is copied under the mutex, unless that is not free for 50 or 100 ms.
RepublishCopy(cached) ==
    /\ client = "copy" /\ client' = "config" /\ copied' \in {cached, None}
    /\ UNCHANGED <<linkVars, broker, discovered, sensorVars, main>>
\* Fault: the configuration is left to the sensor's task.
RepublishNoConfig ==
    /\ client = "config" /\ client' = "availability"
    /\ UNCHANGED <<linkVars, broker, discovered, sensorVars, copied, main>>
RepublishConfig ==
    /\ client = "config" /\ client' = "availability"
    /\ PublishConfig
    /\ UNCHANGED <<linkVars, sensorVars, copied, main>>
\* Fault: the sensor counts as online once it has a reading.
RepublishCachedAvailability ==
    /\ client = "availability" /\ client' = "state"
    /\ Publish("availability", Word(copied # None))
    /\ UNCHANGED <<linkVars, discovered, sensorVars, copied, main>>
RepublishAvailability ==
    /\ client = "availability" /\ client' = "state"
    /\ Publish("availability", Word(online))
    /\ UNCHANGED <<linkVars, discovered, sensorVars, copied, main>>

TopicsInit ==
    /\ link \in {"up", "broken"} /\ connected = (link = "up") /\ drops = 0
    /\ online = FALSE /\ discovered = FALSE /\ fails = 0 /\ cache = None
    /\ reading = None /\ task = "none" /\ client = "idle" /\ copied = None

===============================================================================
