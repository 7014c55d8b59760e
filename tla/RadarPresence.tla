----------------------------- MODULE RadarPresence -----------------------------
(***************************************************************************)
(* main/sensors/radar_presence.c and the helper task of app_main.c that    *)
(* starts it: presence and distance are published when they change, from   *)
(* what was last published as its task remembers it.  Whether a frame sees *)
(* somebody, and at which distance, is one value of Frames; two distances  *)
(* differ by more than the 5 cm that make a publication.                   *)
(***************************************************************************)
EXTENDS SensorTopics

CONSTANTS
    Frames,  \* what a frame may tell
    Nobody   \* the frame without a target

VARIABLES
    last,     \* s_last_presence_published, s_last_distance_published
    waits,    \* main is in radar_start_with_timeout, or has left it in time or late
    missed,   \* history: topics the last connection left as they were
    stray     \* history: it published a distance the task does not remember

radarVars == <<last, waits, missed, stray>>

Sees(frame) == frame # Nobody
States == {"presence", "distance"}
Registered == main \in {"ready", "availability", "create"} \/ task # "none"

-----------------------------------------------------------------------------
(* radar_start_task, and main in radar_start_with_timeout.                   *)

startRest == <<linkVars, discovered, online, fails, cache, reading, clientVars, last, stray>>

\* ld2410_begin finds the radar or fails, which frees everything again.
Begin ==
    /\ main = "begin" /\ main' \in {"register", "report"}
    /\ UNCHANGED <<startRest, broker, task, waits, missed>>
Register ==
    /\ main = "register" /\ main' = "ready"
    /\ UNCHANGED <<startRest, broker, task, waits, missed>>
\* republish_mqtt_state: there is no state to publish before the task runs.
StartConfig ==
    /\ main = "ready" /\ LockFree
    /\ \/ ~connected /\ main' = "create" /\ UNCHANGED <<broker, discovered>>
       \/ connected /\ main' = "availability" /\ PublishConfig
    /\ UNCHANGED <<linkVars, sensorVars, clientVars, radarVars>>
StartAvailability ==
    /\ main = "availability" /\ LockFree /\ main' = "create"
    /\ Publish("availability", Word(online)) /\ missed' = States
    /\ UNCHANGED <<startRest, task, waits>>
\* Without a task the handler is taken back.
CreateTask ==
    /\ main = "create" /\ main' = "report"
    /\ task' = "idle" \/ (LockFree /\ UNCHANGED task)
    /\ UNCHANGED <<startRest, broker, waits, missed>>
\* ctx->result is written, ctx->done given, and main goes on.
Report ==
    /\ main = "report" /\ main' = "done"
    /\ waits' = IF waits = "waiting" THEN "left" ELSE waits
    /\ UNCHANGED <<startRest, broker, task, missed>>
\* 10 s are over: main frees the context.
StartTimeout ==
    /\ waits = "waiting" /\ waits' = "late"
    /\ UNCHANGED <<startRest, broker, task, main, missed>>
RadarStart == \/ Begin \/ Register \/ StartConfig \/ StartAvailability \/ CreateTask
              \/ Report \/ StartTimeout

-----------------------------------------------------------------------------
(* radar_task.                                                               *)

taskRest == <<linkVars, clientVars, main, waits>>

\* A frame; while somebody else has the mutex it is left for the next poll.
Frame ==
    /\ task = "idle" /\ task' = "discover"
    /\ \E f \in Frames : reading' = f /\ cache' = f
    /\ fails' = 0
    /\ UNCHANGED <<taskRest, broker, discovered, online, last, missed, stray>>
\* handle_frame_success.
Discover ==
    /\ task = "discover" /\ task' = "transition"
    /\ IF discovered THEN UNCHANGED <<broker, discovered>> ELSE LockFree /\ PublishConfig
    /\ UNCHANGED <<taskRest, online, fails, cache, reading, last, missed, stray>>
Transition ==
    /\ task = "transition" /\ task' = IF online THEN "presence" ELSE "announce"
    /\ online' = TRUE
    /\ UNCHANGED <<taskRest, broker, discovered, fails, cache, reading, last, missed, stray>>
Announce ==
    /\ task = "announce" /\ LockFree /\ task' = "presence"
    /\ Publish("availability", "online")
    /\ UNCHANGED <<taskRest, discovered, online, fails, cache, reading, last, missed, stray>>
PublishPresence ==
    /\ task = "presence" /\ task' = "distance"
    /\ IF Sees(reading) = last.presence THEN UNCHANGED <<broker, last, missed>>
       ELSE /\ LockFree /\ Publish("presence", Sees(reading))
            /\ last' = [last EXCEPT !.presence = Sees(reading)]
            /\ missed' = IF Reaches THEN missed \ {"presence"} ELSE missed
    /\ UNCHANGED <<taskRest, discovered, online, fails, cache, reading, stray>>
PublishDistance ==
    /\ task = "distance" /\ task' = "idle"
    /\ IF ~Sees(reading) \/ reading = last.distance THEN UNCHANGED <<broker, last, missed, stray>>
       ELSE /\ LockFree /\ Publish("distance", reading)
            /\ last' = [last EXCEPT !.distance = reading]
            /\ missed' = IF Reaches THEN missed \ {"distance"} ELSE missed
            /\ stray' = (stray /\ ~Reaches)
    /\ UNCHANGED <<taskRest, discovered, online, fails, cache, reading>>

\* handle_frame_timeout: no frame for a second.
FrameTimeout ==
    /\ task = "idle"
    /\ fails' = IF fails < Threshold THEN fails + 1 ELSE fails
    /\ IF online /\ fails' >= Threshold THEN online' = FALSE /\ task' = "retract"
       ELSE UNCHANGED <<online, task>>
    /\ UNCHANGED <<taskRest, broker, discovered, cache, reading, last, missed, stray>>
Retract ==
    /\ task = "retract" /\ LockFree /\ task' = "idle"
    /\ Publish("availability", "offline")
    /\ UNCHANGED <<taskRest, discovered, online, fails, cache, reading, last, missed, stray>>
RadarTask == \/ Frame \/ Discover \/ Transition \/ Announce \/ PublishPresence
             \/ PublishDistance \/ FrameTimeout \/ Retract

-----------------------------------------------------------------------------
(* radar_mqtt_event_handler.                                                 *)

RadarCopy == RepublishCopy(IF online THEN cache ELSE None) /\ UNCHANGED radarVars
RadarConfig == RepublishConfig /\ UNCHANGED radarVars
RadarAvailability == RepublishAvailability /\ UNCHANGED radarVars
\* Fault: the distance waits for the next change.
RepublishPresenceOnly ==
    /\ client = "state" /\ client' = "idle" /\ copied' = None
    /\ IF copied = None THEN missed' = States /\ UNCHANGED broker
       ELSE /\ Publish("presence", Sees(copied))
            /\ missed' = IF Reaches THEN missed \ {"presence"} ELSE missed
    /\ UNCHANGED <<linkVars, discovered, sensorVars, main, last, waits, stray>>
RepublishPresence ==
    /\ client = "state"
    /\ IF copied = None THEN client' = "idle" /\ missed' = States /\ UNCHANGED broker
       ELSE /\ client' = "distance" /\ Publish("presence", Sees(copied))
            /\ missed' = IF Reaches THEN missed \ {"presence"} ELSE missed
    /\ UNCHANGED <<linkVars, discovered, sensorVars, copied, main, last, waits, stray>>
RepublishDistance ==
    /\ client = "distance" /\ client' = "idle" /\ copied' = None
    /\ Publish("distance", copied)
    /\ missed' = IF Reaches THEN missed \ {"distance"} ELSE missed
    /\ stray' = (stray \/ (Reaches /\ copied # last.distance))
    /\ UNCHANGED <<linkVars, discovered, sensorVars, main, last, waits>>
RadarHandler == \/ RadarCopy \/ RadarConfig \/ RadarAvailability \/ RepublishPresence
                \/ RepublishDistance

RadarConnection == (Drop \/ Noticed \/ Reconnect(Registered)) /\ UNCHANGED radarVars

RadarInit ==
    /\ TopicsInit /\ main = "begin"
    /\ broker \in [config : {TRUE}, availability : {"online", "offline"},
                   presence : BOOLEAN, distance : Frames]
                  \union [config : {FALSE}, availability : {"none"},
                          presence : {FALSE}, distance : {None}]
    /\ last = [presence |-> FALSE, distance |-> None]
    /\ waits = "waiting" /\ missed = States /\ stray = FALSE
RadarNext == RadarStart \/ RadarTask \/ RadarHandler \/ RadarConnection

===============================================================================
