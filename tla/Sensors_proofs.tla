---------------------------- MODULE Sensors_proofs ----------------------------
(***************************************************************************)
(* What Home Assistant is shown of the sensors, for every set of readings, *)
(* every number of connections that break and every threshold.  For each   *)
(* sensor an inductive invariant says, of every moment of a connection     *)
(* that holds, that a retained payload is right or who is about to         *)
(* publish it: the task of the sensor, the CONNECTED handler, or the       *)
(* start.  What the handler copied under the mutex may be old by the time  *)
(* it is published, but not while the lock of the client keeps the task    *)
(* from completing a poll: Copy* says so.                                  *)
(***************************************************************************)
EXTENDS Sensors, TLAPS

Holds == connected /\ link = "up"

\* The handler has yet to publish the configuration, the availability, the state.
ToConfig       == client \in {"copy", "config"}
ToAvailability == ToConfig \/ client = "availability"
ToState        == ToAvailability \/ client = "state"

\* A change of availability is published next, and which.
OnlineOK ==
    /\ task = "announce" => online
    /\ task = "retract" => ~online

-----------------------------------------------------------------------------
(* The environment sensor.                                                   *)

EnvBroker == [config : BOOLEAN, availability : {"online", "offline", "none"},
              state : Values \cup {None}]
EnvTypeOK ==
    /\ broker \in EnvBroker
    /\ reading \in Values \cup {None} /\ cache \in Values \cup {None}
    /\ copied \in Values \cup {None} /\ online \in BOOLEAN
    /\ seen \in [online : BOOLEAN, state : Values \cup {None}]

\* The places of env_sensors_start before each of its publications.
EnvToConfig       == main \in {"create", "register", "ready", "config"}
EnvToAvailability == EnvToConfig \/ main \in {"read", "availability"}
EnvToState        == EnvToAvailability \/ main = "state"

\* Between a reading and its publication.
EnvReadingAhead == task \in {"discover", "transition", "announce", "state"}

CopyOfCache ==
    client \in {"config", "availability", "state"}
        => copied \in {cache, None} \/ EnvReadingAhead

EnvConfigOK == Holds => broker.config \/ ToConfig \/ EnvToConfig
EnvAvailabilityOK ==
    Holds => \/ broker.availability = Env!Word(online) \/ lateAvail
             \/ task \in {"announce", "retract"} \/ ToAvailability \/ EnvToAvailability
EnvStateOK ==
    Holds /\ reading # None
        => \/ broker.state = reading \/ lateState \/ cache # reading
           \/ EnvReadingAhead \/ ToState \/ EnvToState

EnvInv == /\ EnvTypeOK /\ OnlineOK /\ CopyOfCache
          /\ EnvConfigOK /\ EnvAvailabilityOK /\ EnvStateOK

-----------------------------------------------------------------------------
(* The radar.                                                                *)

RadarBroker == [config : BOOLEAN, availability : {"online", "offline", "none"},
                presence : BOOLEAN, distance : Frames \cup {None}]
RadarTypeOK ==
    /\ broker \in RadarBroker
    /\ reading \in Frames \cup {None} /\ cache = reading
    /\ copied \in Frames \cup {None} /\ online \in BOOLEAN
    /\ last \in [presence : BOOLEAN, distance : Frames \cup {None}]
    /\ task \in {"none", "idle", "discover", "transition", "announce", "presence", "distance",
                "retract"}

\* The task is created by the start, and nothing is online without it.
RadarStartOK ==
    /\ main \in {"begin", "register", "ready", "availability", "create", "report", "done"}
    /\ main \in {"begin", "register", "ready", "availability", "create"} => task = "none"
    /\ task = "none" => ~online

\* The radar is not started, or could not be.
RadarUnstarted == main \in {"report", "done"} /\ task = "none"
RadarToConfig       == main \in {"begin", "register", "ready"} \/ RadarUnstarted
RadarToAvailability == RadarToConfig \/ main = "availability"

\* Between a frame and the publication of the presence it tells.
PresenceAhead == task \in {"discover", "transition", "announce", "presence"}

\* What the task remembers is the last frame, once it is through with it.
LastOK ==
    /\ task = "distance" \/ (task = "idle" /\ online) => last.presence = Radar!Sees(reading)
    /\ task = "idle" /\ online /\ Radar!Sees(reading) => last.distance = reading

CopyOfFrame ==
    client \in {"config", "availability", "state"} /\ copied # None
        => \/ Radar!Sees(copied) = last.presence
           \/ PresenceAhead /\ reading = copied

RadarConfigOK == Holds => broker.config \/ ToConfig \/ RadarToConfig
RadarAvailabilityOK ==
    Holds => \/ broker.availability = Radar!Word(online)
             \/ task \in {"announce", "retract"} \/ ToAvailability \/ RadarToAvailability
PresenceOK ==
    Holds => \/ broker.presence = last.presence \/ "presence" \in missed
             \/ PresenceAhead /\ broker.presence = Radar!Sees(reading)
             \/ ToState \/ RadarToAvailability
DistanceOK ==
    Holds => \/ broker.distance = last.distance \/ "distance" \in missed \/ stray
             \/ ToState \/ client = "distance" \/ RadarToAvailability

RadarInv == /\ RadarTypeOK /\ RadarStartOK /\ OnlineOK /\ LastOK /\ CopyOfFrame
            /\ RadarConfigOK /\ RadarAvailabilityOK /\ PresenceOK /\ DistanceOK

\* One sensor is modelled at a time; the other's history does not move.
IInv ==
    \/ kind = "env" /\ EnvInv
    \/ kind = "radar" /\ RadarInv /\ lateAvail = FALSE

-----------------------------------------------------------------------------
(* Publications.                                                             *)

\* A publication that reaches the broker replaces the payload of its topic, and
\* none changes another's.
LEMMA EnvPublishes ==
    ASSUME EnvTypeOK
    PROVE  /\ Env!PublishConfig =>
                /\ broker' \in EnvBroker /\ (Holds \/ broker.config => broker'.config)
                /\ broker'.availability = broker.availability /\ broker'.state = broker.state
           /\ \A word \in {"online", "offline"} : Env!Publish("availability", word) =>
                /\ broker' \in EnvBroker /\ (Holds => broker'.availability = word)
                /\ broker'.config = broker.config /\ broker'.state = broker.state
           /\ \A v \in Values \cup {None} : Env!Publish("state", v) =>
                /\ broker' \in EnvBroker /\ (Holds => broker'.state = v)
                /\ broker'.config = broker.config
                /\ broker'.availability = broker.availability
<1> USE DEF EnvBroker, EnvTypeOK, Holds, Env!Reaches
<1>1. Env!PublishConfig =>
          /\ broker' \in EnvBroker /\ (Holds \/ broker.config => broker'.config)
          /\ broker'.availability = broker.availability /\ broker'.state = broker.state
  BY DEF Env!PublishConfig, Env!Publish
<1>2. ASSUME NEW word \in {"online", "offline"}, Env!Publish("availability", word)
      PROVE  /\ broker' \in EnvBroker /\ (Holds => broker'.availability = word)
             /\ broker'.config = broker.config /\ broker'.state = broker.state
  BY <1>2 DEF Env!Publish
<1>3. ASSUME NEW v \in Values \cup {None}, Env!Publish("state", v)
      PROVE  /\ broker' \in EnvBroker /\ (Holds => broker'.state = v)
             /\ broker'.config = broker.config /\ broker'.availability = broker.availability
  BY <1>3 DEF Env!Publish
<1> QED BY <1>1, <1>2, <1>3

\* The same of the radar's topics.
LEMMA RadarPublishes ==
    ASSUME RadarTypeOK
    PROVE  /\ Radar!PublishConfig =>
                /\ broker' \in RadarBroker /\ (Holds \/ broker.config => broker'.config)
                /\ broker'.availability = broker.availability
                /\ broker'.presence = broker.presence /\ broker'.distance = broker.distance
           /\ \A word \in {"online", "offline"} : Radar!Publish("availability", word) =>
                /\ broker' \in RadarBroker /\ (Holds => broker'.availability = word)
                /\ broker'.config = broker.config
                /\ broker'.presence = broker.presence /\ broker'.distance = broker.distance
           /\ \A sees \in BOOLEAN : Radar!Publish("presence", sees) =>
                /\ broker' \in RadarBroker /\ (Holds => broker'.presence = sees)
                /\ broker'.config = broker.config
                /\ broker'.availability = broker.availability
                /\ broker'.distance = broker.distance
           /\ \A f \in Frames \cup {None} : Radar!Publish("distance", f) =>
                /\ broker' \in RadarBroker /\ (Holds => broker'.distance = f)
                /\ broker'.config = broker.config
                /\ broker'.availability = broker.availability
                /\ broker'.presence = broker.presence
<1> USE DEF RadarBroker, RadarTypeOK, Holds, Radar!PublishConfig, Radar!Publish, Radar!Reaches
<1>1. Radar!PublishConfig =>
         /\ broker' \in RadarBroker /\ (Holds \/ broker.config => broker'.config)
         /\ broker'.availability = broker.availability
         /\ broker'.presence = broker.presence /\ broker'.distance = broker.distance
  OBVIOUS
<1>2. ASSUME NEW word \in {"online", "offline"}, Radar!Publish("availability", word)
      PROVE  /\ broker' \in RadarBroker /\ (Holds => broker'.availability = word)
             /\ broker'.config = broker.config
             /\ broker'.presence = broker.presence /\ broker'.distance = broker.distance
  BY <1>2
<1>3. ASSUME NEW sees \in BOOLEAN, Radar!Publish("presence", sees)
      PROVE  /\ broker' \in RadarBroker /\ (Holds => broker'.presence = sees)
             /\ broker'.config = broker.config
             /\ broker'.availability = broker.availability
             /\ broker'.distance = broker.distance
  BY <1>3
<1>4. ASSUME NEW f \in Frames \cup {None}, Radar!Publish("distance", f)
      PROVE  /\ broker' \in RadarBroker /\ (Holds => broker'.distance = f)
             /\ broker'.config = broker.config
             /\ broker'.availability = broker.availability
             /\ broker'.presence = broker.presence
  BY <1>4
<1> HIDE DEF RadarBroker, RadarTypeOK, Holds, Radar!PublishConfig, Radar!Publish, Radar!Reaches
<1> QED BY <1>1, <1>2, <1>3, <1>4

-----------------------------------------------------------------------------
(* The steps of the environment sensor.                                      *)

\* What the connection does: a new one has the handler publish everything, or
\* finds the start before all of its publications.
LEMMA EnvConnectionOK == EnvInv /\ Env!EnvConnection => EnvInv'
<1> SUFFICES ASSUME EnvInv, Env!EnvConnection PROVE EnvInv'
  OBVIOUS
<1>1. UNCHANGED <<broker, online, cache, reading, task, copied, main, seen, lateAvail, lateState>>
  BY DEF Env!EnvConnection, Env!Drop, Env!Noticed, Env!Reconnect, Env!sensorVars, Env!clientVars,
         Env!envVars
<1>2. CASE Env!Drop \/ Env!Noticed
  <2>1. ~Holds' /\ UNCHANGED client
    BY <1>2 DEF Env!Drop, Env!Noticed, Env!clientVars, Holds
  <2> QED BY <1>1, <2>1 DEF EnvInv, EnvTypeOK, OnlineOK, CopyOfCache, EnvConfigOK,
          EnvAvailabilityOK, EnvStateOK, EnvReadingAhead
<1>3. CASE Env!Reconnect(Env!Registered)
  <2>1. client' = "copy" \/ (client' = "idle" /\ main' \in {"create", "register"})
    BY <1>1, <1>3 DEF Env!Reconnect, Env!Registered
  <2>2. ToConfig' \/ EnvToConfig'
    BY <2>1 DEF ToConfig, EnvToConfig
  <2> QED BY <1>1, <2>1, <2>2 DEF EnvInv, EnvTypeOK, OnlineOK, CopyOfCache, EnvConfigOK,
          EnvAvailabilityOK, EnvStateOK, ToAvailability, ToState, EnvToAvailability, EnvToState
<1> QED BY <1>2, <1>3 DEF Env!EnvConnection

\* The handler.
LEMMA EnvHandlerOK == EnvInv /\ Env!EnvHandler => EnvInv'
<1> SUFFICES ASSUME EnvInv, Env!EnvHandler PROVE EnvInv'
  OBVIOUS
<1> USE DEF EnvInv, OnlineOK, CopyOfCache, EnvConfigOK, EnvAvailabilityOK, EnvStateOK, Holds,
            ToConfig, ToAvailability, ToState, EnvToConfig, EnvToAvailability, EnvToState,
            EnvReadingAhead, Env!linkVars, Env!sensorVars, Env!clientVars, Env!envVars
<1>1. CASE Env!EnvCopy
  BY <1>1 DEF Env!EnvCopy, Env!RepublishCopy, EnvTypeOK
<1>2. CASE Env!EnvConfig
  <2>1. Env!PublishConfig
    BY <1>2 DEF Env!EnvConfig, Env!RepublishConfig
  <2> QED BY <1>2, <2>1, EnvPublishes DEF Env!EnvConfig, Env!RepublishConfig, EnvTypeOK, Env!Word
<1>3. CASE Env!EnvAvailability
  <2>1. Env!Publish("availability", Env!Word(online)) /\ Env!Word(online) \in {"online", "offline"}
    BY <1>3 DEF Env!EnvAvailability, Env!RepublishAvailability, Env!Word
  <2> QED BY <1>3, <2>1, EnvPublishes DEF Env!EnvAvailability, Env!RepublishAvailability, EnvTypeOK
<1>4. CASE Env!EnvState
  <2>1. CASE copied = None
    BY <1>4, <2>1 DEF Env!EnvState, EnvTypeOK, Env!Word
  <2>2. CASE copied # None
    <3>1. Env!Publish("state", copied)
      BY <1>4, <2>2 DEF Env!EnvState
    <3> QED BY <1>4, <2>2, <3>1, EnvPublishes DEF Env!EnvState, EnvTypeOK, Env!Word
  <2> QED BY <2>1, <2>2
<1> QED BY <1>1, <1>2, <1>3, <1>4 DEF Env!EnvHandler

\* env_sensors_start, up to and beside the task it creates first.
LEMMA EnvStartOK == EnvInv /\ Env!EnvStart => EnvInv'
<1> SUFFICES ASSUME EnvInv, Env!EnvStart PROVE EnvInv'
  OBVIOUS
<1> USE DEF EnvInv, OnlineOK, CopyOfCache, EnvConfigOK, EnvAvailabilityOK, EnvStateOK, Holds,
            ToConfig, ToAvailability, ToState, EnvToConfig, EnvToAvailability, EnvToState,
            EnvReadingAhead, Env!LockFree, Env!linkVars, Env!sensorVars, Env!clientVars,
            Env!envVars
<1>1. CASE Env!StartTask \/ Env!Register
  BY <1>1 DEF Env!StartTask, Env!Register, EnvTypeOK, Env!Word
<1>2. CASE Env!StartCopy
  <2>1. seen' \in [online : BOOLEAN, state : Values \cup {None}]
    BY <1>2 DEF Env!StartCopy, EnvTypeOK
  <2> QED BY <1>2, <2>1 DEF Env!StartCopy, EnvTypeOK, Env!Word
<1>3. CASE Env!StartConfig
  <2>1. Env!PublishConfig
    BY <1>3 DEF Env!StartConfig
  <2> QED BY <1>3, <2>1, EnvPublishes DEF Env!StartConfig, EnvTypeOK, Env!Word
<1>4. CASE Env!StartRead
  <2>1. seen' \in [online : BOOLEAN, state : Values \cup {None}]
    BY <1>4 DEF Env!StartRead, EnvTypeOK
  <2> QED BY <1>4, <2>1 DEF Env!StartRead, EnvTypeOK, Env!Word
<1>5. CASE Env!StartAvailability
  <2>1. /\ Env!Publish("availability", Env!Word(seen.online))
        /\ Env!Word(seen.online) \in {"online", "offline"}
        /\ Env!Word(seen.online) = Env!Word(online) \/ lateAvail'
    BY <1>5 DEF Env!StartAvailability, Env!Word
  <2>2. /\ broker' \in EnvBroker
        /\ Holds => broker'.availability = Env!Word(online) \/ lateAvail'
        /\ broker'.config = broker.config /\ broker'.state = broker.state
    BY <2>1, EnvPublishes
  <2>3. /\ main = "availability" /\ main' = "state"
        /\ UNCHANGED <<link, connected, online, cache, reading, task, client, copied, seen,
                       lateState>>
    BY <1>5 DEF Env!StartAvailability
  <2>4. EnvTypeOK' /\ OnlineOK' /\ CopyOfCache'
    BY <2>2, <2>3 DEF EnvTypeOK
  <2>5. EnvConfigOK' /\ EnvStateOK'
    BY <2>2, <2>3
  <2>6. EnvAvailabilityOK'
    BY <2>2, <2>3 DEF Env!Word
  <2> QED BY <2>4, <2>5, <2>6
<1>6. CASE Env!StartState
  <2>1. CASE seen.state = None
    BY <1>6, <2>1 DEF Env!StartState, EnvTypeOK, Env!Word
  <2>2. CASE seen.state # None
    <3>1. Env!Publish("state", seen.state) /\ seen.state \in Values \cup {None}
      BY <1>6, <2>2 DEF Env!StartState, EnvTypeOK
    <3>2. /\ broker' \in EnvBroker /\ (Holds => broker'.state = seen.state)
          /\ broker'.config = broker.config /\ broker'.availability = broker.availability
      BY <3>1, EnvPublishes
    <3>3. /\ main = "state" /\ main' = "done" /\ lateState' = (seen.state # reading)
          /\ UNCHANGED <<link, connected, online, cache, reading, task, client, copied, seen,
                         lateAvail>>
      BY <1>6 DEF Env!StartState
    <3>4. EnvTypeOK' /\ OnlineOK' /\ CopyOfCache'
      BY <3>2, <3>3 DEF EnvTypeOK
    <3>5. EnvConfigOK' /\ EnvStateOK'
      BY <3>2, <3>3
    <3>6. EnvAvailabilityOK'
      BY <3>2, <3>3 DEF Env!Word
    <3> QED BY <3>4, <3>5, <3>6
  <2> QED BY <2>1, <2>2
<1> QED BY <1>1, <1>2, <1>3, <1>4, <1>5, <1>6 DEF Env!EnvStart

\* The sampling task.
LEMMA EnvTaskOK == EnvInv /\ Env!EnvTask => EnvInv'
<1> SUFFICES ASSUME EnvInv, Env!EnvTask PROVE EnvInv'
  OBVIOUS
<1> USE DEF EnvInv, OnlineOK, CopyOfCache, EnvConfigOK, EnvAvailabilityOK, EnvStateOK, Holds,
            ToConfig, ToAvailability, ToState, EnvToConfig, EnvToAvailability, EnvToState,
            EnvReadingAhead, Env!LockFree, Env!linkVars, Env!sensorVars, Env!clientVars,
            Env!envVars
<1>1. CASE Env!Read
  BY <1>1 DEF Env!Read, EnvTypeOK, Env!Word
<1>2. CASE Env!Discover
  <2>1. CASE UNCHANGED broker
    BY <1>2, <2>1 DEF Env!Discover, EnvTypeOK, Env!Word
  <2>2. CASE Env!PublishConfig
    BY <1>2, <2>2, EnvPublishes DEF Env!Discover, EnvTypeOK, Env!Word
  <2> QED BY <1>2, <2>1, <2>2 DEF Env!Discover
<1>3. CASE Env!Transition
  BY <1>3 DEF Env!Transition, EnvTypeOK, Env!Word
<1>4. CASE Env!Announce
  <2>1. /\ Env!Publish("availability", "online") /\ online /\ lateAvail' = FALSE
        /\ task' = "state" /\ UNCHANGED <<link, connected, online, cache, reading, client,
                                         copied, main, seen, lateState>>
    BY <1>4 DEF Env!Announce
  <2>2. /\ broker' \in EnvBroker /\ (Holds => broker'.availability = "online")
        /\ broker'.config = broker.config
    BY <2>1, EnvPublishes
  <2>3. EnvTypeOK' /\ OnlineOK' /\ CopyOfCache'
    BY <2>1, <2>2 DEF EnvTypeOK
  <2>4. EnvConfigOK' /\ EnvStateOK'
    BY <2>1, <2>2
  <2>5. EnvAvailabilityOK'
    BY <2>1, <2>2 DEF Env!Word
  <2> QED BY <2>3, <2>4, <2>5
<1>5. CASE Env!PublishState
  <2>1. Env!Publish("state", reading) /\ reading \in Values \cup {None}
    BY <1>5 DEF Env!PublishState, EnvTypeOK
  <2> QED BY <1>5, <2>1, EnvPublishes DEF Env!PublishState, EnvTypeOK, Env!Word
<1>6. CASE Env!Retract
  BY <1>6, EnvPublishes DEF Env!Retract, EnvTypeOK, Env!Word
<1>7. CASE Env!ReadFails
  <2>1. CASE online' = FALSE /\ task' = "retract"
    BY <1>7, <2>1 DEF Env!ReadFails, EnvTypeOK, Env!Word
  <2>2. CASE UNCHANGED <<online, task>>
    BY <1>7, <2>2 DEF Env!ReadFails, EnvTypeOK, Env!Word
  <2> QED BY <1>7, <2>1, <2>2 DEF Env!ReadFails
<1> QED BY <1>1, <1>2, <1>3, <1>4, <1>5, <1>6, <1>7 DEF Env!EnvTask

-----------------------------------------------------------------------------
(* The steps of the radar.                                                   *)

LEMMA RadarConnectionOK == RadarInv /\ Radar!RadarConnection => RadarInv'
<1> SUFFICES ASSUME RadarInv, Radar!RadarConnection PROVE RadarInv'
  OBVIOUS
<1> USE DEF RadarInv, RadarStartOK, OnlineOK, LastOK, CopyOfFrame, RadarConfigOK,
            RadarAvailabilityOK, PresenceOK, DistanceOK, Holds, ToConfig, ToAvailability, ToState,
            RadarUnstarted, RadarToConfig, RadarToAvailability, PresenceAhead,
            Radar!LockFree, Radar!linkVars, Radar!clientVars, Radar!sensorVars, Radar!radarVars,
            Radar!startRest, Radar!taskRest
<1>1. CASE Radar!Drop \/ Radar!Noticed
  BY <1>1 DEF Radar!RadarConnection, Radar!Drop, Radar!Noticed, RadarTypeOK
<1>2. CASE Radar!Reconnect(Radar!Registered)
  <2>1. client' = "copy" \/ (client' = "idle" /\ RadarToConfig)
    BY <1>2 DEF Radar!RadarConnection, Radar!Reconnect, Radar!Registered
  <2> QED BY <1>2, <2>1 DEF Radar!RadarConnection, Radar!Reconnect, RadarTypeOK
<1> QED BY <1>1, <1>2 DEF Radar!RadarConnection

\* The handler: what it copied is the last frame the task has published, or one it
\* is going to publish as soon as the lock is free.
LEMMA RadarHandlerOK == RadarInv /\ Radar!RadarHandler => RadarInv'
<1> SUFFICES ASSUME RadarInv, Radar!RadarHandler PROVE RadarInv'
  OBVIOUS
<1> USE DEF RadarInv, RadarStartOK, OnlineOK, LastOK, CopyOfFrame, RadarConfigOK,
            RadarAvailabilityOK, PresenceOK, DistanceOK, Holds, ToConfig, ToAvailability, ToState,
            RadarUnstarted, RadarToConfig, RadarToAvailability, PresenceAhead,
            Radar!LockFree, Radar!linkVars, Radar!clientVars, Radar!sensorVars, Radar!radarVars,
            Radar!startRest, Radar!taskRest
<1>1. CASE Radar!RadarCopy
  <2>1. copied' \in {reading, None} /\ (copied' # None => online)
    BY <1>1 DEF Radar!RadarCopy, Radar!RepublishCopy, RadarTypeOK
  <2>2. CopyOfFrame'
    BY <1>1, <2>1 DEF Radar!RadarCopy, Radar!RepublishCopy, RadarTypeOK
  <2> QED BY <1>1, <2>1, <2>2 DEF Radar!RadarCopy, Radar!RepublishCopy, RadarTypeOK
<1>2. CASE Radar!RadarConfig
  <2>1. Radar!PublishConfig
    BY <1>2 DEF Radar!RadarConfig, Radar!RepublishConfig
  <2> QED BY <1>2, <2>1, RadarPublishes DEF Radar!RadarConfig, Radar!RepublishConfig, RadarTypeOK
<1>3. CASE Radar!RadarAvailability
  <2>1. /\ Radar!Publish("availability", Radar!Word(online))
        /\ Radar!Word(online) \in {"online", "offline"}
    BY <1>3 DEF Radar!RadarAvailability, Radar!RepublishAvailability, Radar!Word
  <2> QED BY <1>3, <2>1, RadarPublishes
       DEF Radar!RadarAvailability, Radar!RepublishAvailability, RadarTypeOK
<1>4. CASE Radar!RepublishPresence
  <2>1. CASE copied = None
    BY <1>4, <2>1 DEF Radar!RepublishPresence, Radar!States, RadarTypeOK
  <2>2. CASE copied # None
    <3>1. /\ Radar!Publish("presence", Radar!Sees(copied)) /\ Radar!Sees(copied) \in BOOLEAN
      BY <1>4, <2>2 DEF Radar!RepublishPresence, Radar!Sees
    <3> QED BY <1>4, <2>2, <3>1, RadarPublishes DEF Radar!RepublishPresence, RadarTypeOK
  <2> QED BY <2>1, <2>2
<1>5. CASE Radar!RepublishDistance
  <2>1. Radar!Publish("distance", copied) /\ copied \in Frames \cup {None}
    BY <1>5 DEF Radar!RepublishDistance, RadarTypeOK
  <2>2. Holds' /\ ~stray' => copied = last.distance
    BY <1>5 DEF Radar!RepublishDistance, Radar!Reaches
  <2> QED BY <1>5, <2>1, <2>2, RadarPublishes DEF Radar!RepublishDistance, RadarTypeOK
<1> QED BY <1>1, <1>2, <1>3, <1>4, <1>5 DEF Radar!RadarHandler

\* The start: the task does not exist before its end.
LEMMA RadarStartStepOK == RadarInv /\ Radar!RadarStart => RadarInv'
<1> SUFFICES ASSUME RadarInv, Radar!RadarStart PROVE RadarInv'
  OBVIOUS
<1> USE DEF RadarInv, RadarStartOK, OnlineOK, LastOK, CopyOfFrame, RadarConfigOK,
            RadarAvailabilityOK, PresenceOK, DistanceOK, Holds, ToConfig, ToAvailability, ToState,
            RadarUnstarted, RadarToConfig, RadarToAvailability, PresenceAhead,
            Radar!LockFree, Radar!linkVars, Radar!clientVars, Radar!sensorVars, Radar!radarVars,
            Radar!startRest, Radar!taskRest
<1>1. CASE Radar!Begin
  BY <1>1 DEF Radar!Begin, RadarTypeOK
<1>2. CASE Radar!Register
  BY <1>2 DEF Radar!Register, RadarTypeOK
<1>3. CASE Radar!StartConfig
  <2>1. CASE ~connected /\ main' = "create" /\ UNCHANGED <<broker, discovered>>
    BY <1>3, <2>1 DEF Radar!StartConfig, RadarTypeOK
  <2>2. CASE connected /\ main' = "availability" /\ Radar!PublishConfig
    BY <1>3, <2>2, RadarPublishes DEF Radar!StartConfig, RadarTypeOK
  <2> QED BY <1>3, <2>1, <2>2 DEF Radar!StartConfig
<1>4. CASE Radar!StartAvailability
  <2>1. /\ Radar!Publish("availability", Radar!Word(online))
        /\ Radar!Word(online) \in {"online", "offline"} /\ missed' = {"presence", "distance"}
    BY <1>4 DEF Radar!StartAvailability, Radar!Word, Radar!States
  <2> QED BY <1>4, <2>1, RadarPublishes DEF Radar!StartAvailability, RadarTypeOK
<1>5. CASE Radar!CreateTask
  BY <1>5 DEF Radar!CreateTask, RadarTypeOK
<1>6. CASE Radar!Report
  BY <1>6 DEF Radar!Report, RadarTypeOK
<1>7. CASE Radar!StartTimeout
  BY <1>7 DEF Radar!StartTimeout, RadarTypeOK
<1> QED BY <1>1, <1>2, <1>3, <1>4, <1>5, <1>6, <1>7 DEF Radar!RadarStart

\* The polling task: a frame is through once its presence and its distance are
\* published, or are what was published last.
LEMMA RadarTaskOK == RadarInv /\ Radar!RadarTask => RadarInv'
<1> SUFFICES ASSUME RadarInv, Radar!RadarTask PROVE RadarInv'
  OBVIOUS
<1> USE DEF RadarInv, RadarStartOK, OnlineOK, LastOK, CopyOfFrame, RadarConfigOK,
            RadarAvailabilityOK, PresenceOK, DistanceOK, Holds, ToConfig, ToAvailability, ToState,
            RadarUnstarted, RadarToConfig, RadarToAvailability, PresenceAhead,
            Radar!LockFree, Radar!linkVars, Radar!clientVars, Radar!sensorVars, Radar!radarVars,
            Radar!startRest, Radar!taskRest
<1>1. CASE Radar!Frame
  BY <1>1 DEF Radar!Frame, RadarTypeOK
<1>2. CASE Radar!Discover
  <2>1. CASE UNCHANGED broker
    BY <1>2, <2>1 DEF Radar!Discover, RadarTypeOK
  <2>2. CASE Radar!PublishConfig
    BY <1>2, <2>2, RadarPublishes DEF Radar!Discover, RadarTypeOK
  <2> QED BY <1>2, <2>1, <2>2 DEF Radar!Discover
<1>3. CASE Radar!Transition
  <2>1. CASE online
    <3>1. /\ task = "transition" /\ task' = "presence"
          /\ UNCHANGED <<online, broker, cache, reading, last, missed, stray, client, copied,
                         main, connected, link>>
      BY <1>3, <2>1 DEF Radar!Transition, RadarTypeOK
    <3>2. RadarTypeOK' /\ RadarStartOK' /\ OnlineOK' /\ LastOK'
      BY <3>1 DEF RadarTypeOK
    <3>3. CopyOfFrame' /\ PresenceOK'
      BY <3>1
    <3>4. RadarConfigOK' /\ RadarAvailabilityOK' /\ DistanceOK'
      BY <3>1
    <3> QED BY <3>2, <3>3, <3>4
  <2>2. CASE ~online
    BY <1>3, <2>2 DEF Radar!Transition, RadarTypeOK
  <2> QED BY <2>1, <2>2
<1>4. CASE Radar!Announce
  BY <1>4, RadarPublishes DEF Radar!Announce, Radar!Word, RadarTypeOK
<1>5. CASE Radar!PublishPresence
  <2>1. CASE Radar!Sees(reading) = last.presence
    BY <1>5, <2>1 DEF Radar!PublishPresence, RadarTypeOK
  <2>2. CASE Radar!Sees(reading) # last.presence
    <3>1. /\ Radar!Publish("presence", Radar!Sees(reading)) /\ Radar!Sees(reading) \in BOOLEAN
          /\ client = "idle" /\ missed' \subseteq missed /\ "distance" \in missed => "distance" \in missed'
      BY <1>5, <2>2 DEF Radar!PublishPresence, Radar!Sees
    <3>2. /\ last' \in [presence : BOOLEAN, distance : Frames \cup {None}]
          /\ last'.presence = Radar!Sees(reading) /\ last'.distance = last.distance
      BY <1>5, <2>2, <3>1 DEF Radar!PublishPresence, RadarTypeOK
    <3> QED BY <1>5, <3>1, <3>2, RadarPublishes DEF Radar!PublishPresence, RadarTypeOK
  <2> QED BY <2>1, <2>2
<1>6. CASE Radar!PublishDistance
  <2>1. CASE ~Radar!Sees(reading) \/ reading = last.distance
    BY <1>6, <2>1 DEF Radar!PublishDistance, RadarTypeOK
  <2>2. CASE Radar!Sees(reading) /\ reading # last.distance
    <3>1. /\ Radar!Publish("distance", reading) /\ reading \in Frames \cup {None}
          /\ client = "idle" /\ missed' \subseteq missed /\ "presence" \in missed => "presence" \in missed'
      BY <1>6, <2>2 DEF Radar!PublishDistance, RadarTypeOK
    <3>2. /\ last' \in [presence : BOOLEAN, distance : Frames \cup {None}]
          /\ last'.distance = reading /\ last'.presence = last.presence
      BY <1>6, <2>2, <3>1 DEF Radar!PublishDistance, RadarTypeOK
    <3> QED BY <1>6, <3>1, <3>2, RadarPublishes DEF Radar!PublishDistance, RadarTypeOK
  <2> QED BY <2>1, <2>2
<1>7. CASE Radar!FrameTimeout
  <2>1. CASE UNCHANGED <<online, task>>
    BY <1>7, <2>1 DEF Radar!FrameTimeout, RadarTypeOK
  <2>2. CASE online' = FALSE /\ task' = "retract"
    BY <1>7, <2>2, ZenonT(30) DEF Radar!FrameTimeout, RadarTypeOK
  <2> QED BY <1>7, <2>1, <2>2 DEF Radar!FrameTimeout
<1>8. CASE Radar!Retract
  BY <1>8, RadarPublishes DEF Radar!Retract, Radar!Word, RadarTypeOK
<1> QED BY <1>1, <1>2, <1>3, <1>4, <1>5, <1>6, <1>7, <1>8 DEF Radar!RadarTask

-----------------------------------------------------------------------------
(* The theorems.                                                             *)

LEMMA InitOK == Init => IInv
<1> SUFFICES ASSUME Init PROVE IInv
  OBVIOUS
<1>1. CASE kind = "env" /\ Env!EnvInit
  <2>1. EnvTypeOK
    BY <1>1 DEF Env!EnvInit, Env!TopicsInit, EnvTypeOK, EnvBroker
  <2> QED BY <1>1, <2>1 DEF IInv, EnvInv, Env!EnvInit, Env!TopicsInit, OnlineOK, CopyOfCache,
          EnvConfigOK, EnvAvailabilityOK, EnvStateOK, EnvToConfig, EnvToAvailability, EnvToState
<1>2. CASE kind = "radar" /\ Radar!RadarInit /\ lateAvail = FALSE
  <2>1. RadarTypeOK
    BY <1>2 DEF Radar!RadarInit, Radar!TopicsInit, RadarTypeOK, RadarBroker
  <2> QED BY <1>2, <2>1 DEF IInv, RadarInv, Radar!RadarInit, Radar!TopicsInit, OnlineOK, LastOK,
          CopyOfFrame, RadarStartOK, RadarConfigOK, RadarAvailabilityOK, PresenceOK, DistanceOK,
          RadarToConfig, RadarToAvailability
<1> QED BY <1>1, <1>2 DEF Init

LEMMA StepOK == IInv /\ [Next]_vars => IInv'
<1> SUFFICES ASSUME IInv, [Next]_vars PROVE IInv'
  OBVIOUS
<1>1. CASE kind = "env" /\ Env!EnvNext /\ kind' = kind
  <2>1. EnvInv
    BY <1>1 DEF IInv
  <2>2. EnvInv'
    BY <1>1, <2>1, EnvStartOK, EnvTaskOK, EnvHandlerOK, EnvConnectionOK DEF Env!EnvNext
  <2> QED BY <1>1, <2>2 DEF IInv
<1>2. CASE kind = "radar" /\ Radar!RadarNext /\ UNCHANGED envOnly /\ kind' = kind
  <2>1. RadarInv /\ lateAvail = FALSE /\ lateAvail' = FALSE
    BY <1>2 DEF IInv, envOnly
  <2>2. RadarInv'
    BY <1>2, <2>1, RadarStartStepOK, RadarTaskOK, RadarHandlerOK, RadarConnectionOK
    DEF Radar!RadarNext
  <2> QED BY <1>2, <2>1, <2>2 DEF IInv
<1>3. CASE UNCHANGED vars
  <2>1. kind' = kind /\ lateAvail' = lateAvail
    BY <1>3 DEF vars, envOnly
  <2>2. EnvInv => EnvInv'
    BY <1>3 DEF vars, envOnly, EnvInv, EnvTypeOK, OnlineOK, CopyOfCache, EnvConfigOK,
       EnvAvailabilityOK, EnvStateOK, Holds, ToConfig, ToAvailability, ToState, EnvToConfig,
       EnvToAvailability, EnvToState, EnvReadingAhead
  <2>3. RadarInv => RadarInv'
    BY <1>3 DEF vars, radarOnly, RadarInv, RadarTypeOK, RadarStartOK, OnlineOK, LastOK,
       CopyOfFrame, RadarConfigOK, RadarAvailabilityOK, PresenceOK, DistanceOK, Holds, ToConfig,
       ToAvailability, ToState, RadarUnstarted, RadarToConfig, RadarToAvailability, PresenceAhead
  <2> QED BY <2>1, <2>2, <2>3 DEF IInv
<1> QED BY <1>1, <1>2, <1>3 DEF Next

LEMMA IInvHolds == Spec => []IInv
BY InitOK, StepOK, PTL DEF Spec

\* Quiet is a moment of a connection that holds, with nobody about to publish.
LEMMA QuietMeans ==
    Quiet => /\ Holds /\ ~ToState /\ client # "distance" /\ task = "idle"
             /\ ~EnvToState /\ ~RadarToAvailability
BY DEF Quiet, Env!Reaches, Holds, ToState, ToAvailability, ToConfig, EnvToState,
       EnvToAvailability, EnvToConfig, RadarToAvailability, RadarToConfig, RadarUnstarted

\* Whatever connections break, and however the sampling task, the handler and the start
\* of env_sensors.c and radar_presence.c interleave, the retained availability is the
\* sensor's, unless the main task published an old one.
THEOREM AvailabilityShownHolds == Spec => []AvailabilityShown
<1>1. IInv => AvailabilityShown
  BY QuietMeans DEF IInv, AvailabilityShown, EnvInv, RadarInv, EnvAvailabilityOK,
     RadarAvailabilityOK, ToState, EnvToState, Env!Word, Radar!Word
<1> QED BY IInvHolds, <1>1, PTL

\* A configuration that was lost with a connection is published again.
THEOREM EntityConfiguredHolds == Spec => []EntityConfigured
<1>1. IInv => EntityConfigured
  BY QuietMeans DEF IInv, EntityConfigured, EnvInv, RadarInv, EnvConfigOK, RadarConfigOK,
     ToState, ToAvailability, EnvToState, EnvToAvailability, RadarToAvailability
<1> QED BY IInvHolds, <1>1, PTL

\* The retained state of an environment sensor is its last reading: the handler's copy
\* is never published after a newer one.
THEOREM EnvStateShownHolds == Spec => []EnvStateShown
<1>1. IInv => EnvStateShown
  BY QuietMeans DEF IInv, EnvStateShown, EnvInv, EnvStateOK, EnvReadingAhead
<1> QED BY IInvHolds, <1>1, PTL

\* Although radar_presence.c publishes only changes against what it remembers, the
\* retained presence and distance are those of its last frame.
THEOREM RadarStateShownHolds == Spec => []RadarStateShown
<1>1. IInv => RadarStateShown
  BY QuietMeans DEF IInv, RadarStateShown, RadarInv, LastOK, PresenceOK, DistanceOK,
     PresenceAhead
<1> QED BY IInvHolds, <1>1, PTL

===============================================================================
