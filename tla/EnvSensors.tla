------------------------------ MODULE EnvSensors ------------------------------
(***************************************************************************)
(* main/sensors/env_sensors.c, for one of its four entities: the sampling  *)
(* task, the CONNECTED handler, and the main task, which starts the        *)
(* sampling task first and then publishes the entity itself, without the   *)
(* client's lock around the reads.                                         *)
(***************************************************************************)
EXTENDS SensorTopics

CONSTANT Values  \* readings

VARIABLES
    seen,      \* what the main task read of the entity for its publication
    lateAvail, \* history: it published an availability that was over by then
    lateState  \* history: it published such a state, or none because the cache had
               \* none yet or its mutex was busy

envVars == <<seen, lateAvail, lateState>>

Registered == main \notin {"create", "register"}

-----------------------------------------------------------------------------
(* env_sensors_start. A failure of its parts restarts the device.            *)

StartTask ==
    /\ main = "create" /\ main' = "register" /\ task = "none" /\ task' = "idle"
    /\ UNCHANGED <<linkVars, broker, discovered, online, fails, cache, reading, clientVars, envVars>>
Register ==
    /\ main = "register" /\ main' = "ready"
    /\ UNCHANGED <<linkVars, broker, discovered, sensorVars, clientVars, envVars>>
\* mqtt_manager_is_ready, and then the copy of the cached state.
StartCopy ==
    /\ main = "ready" /\ main' = IF connected THEN "config" ELSE "done"
    /\ seen' \in {[seen EXCEPT !.state = cache], seen}
    /\ UNCHANGED <<linkVars, broker, discovered, sensorVars, clientVars, lateAvail, lateState>>
StartConfig ==
    /\ main = "config" /\ LockFree /\ main' = "read"
    /\ PublishConfig
    /\ UNCHANGED <<linkVars, sensorVars, clientVars, envVars>>
StartRead ==
    /\ main = "read" /\ main' = "availability" /\ seen' = [seen EXCEPT !.online = online]
    /\ UNCHANGED <<linkVars, broker, discovered, sensorVars, clientVars, lateAvail, lateState>>
StartAvailability ==
    /\ main = "availability" /\ LockFree /\ main' = "state"
    /\ Publish("availability", Word(seen.online)) /\ lateAvail' = (seen.online # online)
    /\ UNCHANGED <<linkVars, discovered, sensorVars, clientVars, seen, lateState>>
StartState ==
    /\ main = "state" /\ LockFree /\ main' = "done"
    /\ IF seen.state = None THEN UNCHANGED broker ELSE Publish("state", seen.state)
    /\ lateState' = (seen.state # reading)
    /\ UNCHANGED <<linkVars, discovered, sensorVars, clientVars, seen, lateAvail>>
EnvStart == \/ StartTask \/ Register \/ StartCopy \/ StartConfig \/ StartRead
            \/ StartAvailability \/ StartState

-----------------------------------------------------------------------------
(* env_sensors_task.                                                         *)

\* A reading, stored unless the mutex is busy for 50 ms.
Read ==
    /\ task = "idle" /\ task' = "discover"
    /\ \E v \in Values : reading' = v /\ cache' \in {v, cache}
    /\ fails' = 0
    /\ UNCHANGED <<linkVars, broker, discovered, online, clientVars, main, envVars>>
\* handle_sensor_success.
Discover ==
    /\ task = "discover" /\ task' = "transition"
    /\ IF discovered THEN UNCHANGED <<broker, discovered>> ELSE LockFree /\ PublishConfig
    /\ UNCHANGED <<linkVars, online, fails, cache, reading, clientVars, main, envVars>>
\* Fault: the sensor is online, and nobody is told.
TransitionSilent ==
    /\ task = "transition" /\ task' = "state" /\ online' = TRUE
    /\ UNCHANGED <<linkVars, broker, discovered, fails, cache, reading, clientVars, main, envVars>>
Transition ==
    /\ task = "transition" /\ task' = IF online THEN "state" ELSE "announce"
    /\ online' = TRUE
    /\ UNCHANGED <<linkVars, broker, discovered, fails, cache, reading, clientVars, main, envVars>>
Announce ==
    /\ task = "announce" /\ LockFree /\ task' = "state"
    /\ Publish("availability", "online") /\ lateAvail' = FALSE
    /\ UNCHANGED <<linkVars, discovered, online, fails, cache, reading, clientVars, main, seen, lateState>>
PublishState ==
    /\ task = "state" /\ LockFree /\ task' = "idle"
    /\ Publish("state", reading) /\ lateState' = FALSE
    /\ UNCHANGED <<linkVars, discovered, online, fails, cache, reading, clientVars, main, seen, lateAvail>>

\* handle_sensor_failure. (The count stops at the threshold here.)
ReadFails ==
    /\ task = "idle"
    /\ fails' = IF fails < Threshold THEN fails + 1 ELSE fails
    /\ IF online /\ fails' >= Threshold THEN online' = FALSE /\ task' = "retract"
       ELSE UNCHANGED <<online, task>>
    /\ UNCHANGED <<linkVars, broker, discovered, cache, reading, clientVars, main, envVars>>
Retract ==
    /\ task = "retract" /\ LockFree /\ task' = "idle"
    /\ Publish("availability", "offline") /\ lateAvail' = FALSE
    /\ UNCHANGED <<linkVars, discovered, online, fails, cache, reading, clientVars, main, seen, lateState>>
EnvTask == Read \/ Discover \/ Transition \/ Announce \/ PublishState \/ ReadFails \/ Retract

-----------------------------------------------------------------------------
(* env_sensors_mqtt_event_handler.                                           *)

EnvCopy == RepublishCopy(cache) /\ UNCHANGED envVars
EnvConfig == RepublishConfig /\ UNCHANGED envVars
EnvAvailability == RepublishAvailability /\ lateAvail' = FALSE /\ UNCHANGED <<seen, lateState>>
\* Fault: only configuration and availability are published again.
EnvStateForgotten ==
    /\ client = "state" /\ client' = "idle" /\ copied' = None
    /\ UNCHANGED <<linkVars, broker, discovered, sensorVars, main, envVars>>
EnvState ==
    /\ client = "state" /\ client' = "idle" /\ copied' = None
    /\ IF copied = None THEN lateState' = (reading # None) /\ UNCHANGED broker
       ELSE Publish("state", copied) /\ lateState' = FALSE
    /\ UNCHANGED <<linkVars, discovered, sensorVars, main, seen, lateAvail>>
EnvHandler == EnvCopy \/ EnvConfig \/ EnvAvailability \/ EnvState

EnvConnection == (Drop \/ Noticed \/ Reconnect(Registered)) /\ UNCHANGED envVars

\* The broker keeps what an earlier boot published.
EnvInit ==
    /\ TopicsInit /\ main = "create"
    /\ broker \in [config : {TRUE}, availability : {"online", "offline"}, state : Values]
                  \union [config : {FALSE}, availability : {"none"}, state : {None}]
    /\ seen = [online |-> FALSE, state |-> None] /\ lateAvail = FALSE /\ lateState = FALSE
EnvNext == EnvStart \/ EnvTask \/ EnvHandler \/ EnvConnection

===============================================================================
