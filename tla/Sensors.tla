------------------------------- MODULE Sensors -------------------------------
(***************************************************************************)
(* The environment sensor or the radar, with the properties they share.    *)
(***************************************************************************)
EXTENDS Naturals

CONSTANTS None, MaxDrops, Threshold, Values, Frames, Nobody

ASSUME SensorConstants ==
    /\ MaxDrops \in Nat /\ Threshold \in Nat \ {0}
    /\ None \notin Values \cup Frames /\ Nobody \in Frames

VARIABLES kind, connected, link, drops, broker, online, discovered, fails, cache, reading,
          task, client, copied, main, seen, lateAvail, lateState, last, waits, missed, stray

Env == INSTANCE EnvSensors
Radar == INSTANCE RadarPresence

envOnly == <<seen, lateAvail, lateState>>
radarOnly == <<last, waits, missed, stray>>
vars == <<kind, connected, link, drops, broker, online, discovered, fails, cache, reading,
          task, client, copied, main, envOnly, radarOnly>>

Init ==
    \/ kind = "env" /\ Env!EnvInit
       /\ last = "none" /\ waits = "none" /\ missed = {} /\ stray = FALSE
    \/ kind = "radar" /\ Radar!RadarInit
       /\ seen = "none" /\ lateAvail = FALSE /\ lateState = FALSE

Next ==
    /\ kind' = kind
    /\ \/ kind = "env" /\ Env!EnvNext /\ UNCHANGED radarOnly
       \/ kind = "radar" /\ Radar!RadarNext /\ UNCHANGED envOnly

Spec == Init /\ [][Next]_vars

\* The tasks run on, and so does the start.
Run ==
    \/ kind = "env" /\ (Env!EnvStart \/ Env!EnvHandler) /\ UNCHANGED <<kind, radarOnly>>
    \/ kind = "radar" /\ (Radar!RadarStart \/ Radar!RadarHandler) /\ UNCHANGED <<kind, envOnly>>
Poll ==
    \/ kind = "env" /\ Env!EnvTask /\ UNCHANGED <<kind, radarOnly>>
    \/ kind = "radar" /\ Radar!RadarTask /\ UNCHANGED <<kind, envOnly>>
FairSpec == Spec /\ WF_vars(Run) /\ WF_vars(Poll)

-----------------------------------------------------------------------------
(* Properties.                                                               *)

\* Nobody is publishing, and the connection is up.
Quiet ==
    /\ main = "done" /\ task \in {"idle"} /\ client = "idle" /\ Env!Reaches

\* The retained availability of an entity is that of its sensor, however polls,
\* reconnections and the start interleave; unless the main task's own publication
\* came too late.
AvailabilityShown ==
    Quiet => broker.availability = Env!Word(online) \/ lateAvail

\* Home Assistant has the entity's configuration whenever nothing is under way, even
\* if the first one was lost with a connection.
EntityConfigured == Quiet => broker.config

\* The retained state is the last reading, once the sensor had one; unless the main
\* task's own publication came too late, or the mutex was busy when it was stored.
EnvStateShown ==
    kind = "env" /\ Quiet /\ reading # None
        => broker.state = reading \/ lateState \/ cache # reading

\* Home Assistant sees whether somebody is there as the radar's last frame does, and
\* how far away, although only changes are published; unless the connection was
\* made while there was no state to publish, or published a distance the task does
\* not know of.
RadarStateShown ==
    kind = "radar" /\ Quiet /\ online
        => /\ broker.presence = Radar!Sees(reading) \/ "presence" \in missed
           /\ Radar!Sees(reading) =>
                broker.distance = reading \/ "distance" \in missed \/ stray

\* A sensor that is online and stays connected is shown as online in the end.
OnlineShown ==
    online ~> broker.availability = "online" \/ ~online \/ ~Env!Reaches \/ lateAvail
==============================================================================
