-------------------------- MODULE Availability_proofs --------------------------
(***************************************************************************)
(* Proofs about Availability, for every set of packet identifiers, every   *)
(* number of reconnections and restarts.  WifiInv counts the               *)
(* disconnections that led to where the station is; AckInv says what an    *)
(* acknowledgement under way proves, and why none is mistaken for another: *)
(* no identifier the manager remembers is that of another task's message,  *)
(* and none outlives its connection.                                       *)
(***************************************************************************)
EXTENDS Availability, TLAPS

CountOK ==
    /\ wifi = "connecting" => failures = retries
    /\ wifi = "up" => failures = 0 /\ retries = 0
    /\ wifi = "given_up" => failures = MaxRetry + 1

WifiInv == WifiTypeOK /\ CountOK

AcksOK ==
    /\ session # "open" => acks = {}
    /\ outbox \cap others = {} /\ msgId \notin others /\ carried \notin others
    /\ session = "open" /\ acks \cap outbox # {} => retained = "online" \/ lateWill

AckInv == ManagerStateTypeOK /\ AcksOK /\ SettledMeansOnline

-----------------------------------------------------------------------------
(* Wi-Fi.                                                                    *)

WifiNext == GotIp \/ StaDisconnected \/ WifiWaitEnds \/ WifiRestart

\* Every step of the Wi-Fi manager keeps what WifiInv says of its retries.
LEMMA WifiStepOK == WifiInv /\ [WifiNext]_wifiVars => WifiInv'
<1> SUFFICES ASSUME WifiInv, [WifiNext]_wifiVars PROVE WifiInv'
  OBVIOUS
<1> USE WifiConstants DEF WifiInv, WifiTypeOK, CountOK, Bit
<1>1. CASE UNCHANGED wifiVars
  BY <1>1 DEF wifiVars
<1>2. CASE GotIp
  BY <1>2 DEF GotIp
<1>3. CASE StaDisconnected
  <2>1. /\ failures = retries /\ failures \in Nat /\ retries \in 0..MaxRetry
        /\ failures' = failures + 1 /\ UNCHANGED <<boot, restarts>>
    BY <1>3 DEF StaDisconnected
  <2>2. CASE /\ retries < MaxRetry /\ retries' = retries + 1 /\ wifi' = "connecting"
             /\ bits' = bits \ {"connected"}
    BY <2>1, <2>2
  <2>3. CASE /\ retries >= MaxRetry /\ wifi' = "given_up" /\ UNCHANGED retries
             /\ bits' = (bits \ {"connected"}) \union {"fail"}
    <3>1. retries = MaxRetry /\ failures' = MaxRetry + 1 /\ failures' \in 0..(MaxRetry + 1)
      BY <2>1, <2>3
    <3> QED BY <2>1, <2>3, <3>1
  <2> QED BY <1>3, <2>2, <2>3 DEF StaDisconnected
<1>4. CASE WifiWaitEnds
  BY <1>4 DEF WifiWaitEnds
<1>5. CASE WifiRestart
  BY <1>5 DEF WifiRestart
<1> QED BY <1>1, <1>2, <1>3, <1>4, <1>5 DEF WifiNext

\* Every step is one of Wi-Fi, or leaves it alone.
LEMMA WifiStep == [Next]_vars => [WifiNext]_wifiVars
BY DEF Next, vars, WifiNext, WifiSteps, WifiLost, Restart, ClientTask, TimerTask, Broker,
       PublishOther, Expires, LinkLost, Connected, Announce, AnnounceStop, AnnounceStart,
       Disconnected, Published, Fire, RetryCheck, RetryFails, RetryQueued, RetryStore,
       RetryStop, RetryStart, timerRest, DeliverOnline, DeliverOther, BrokerNotices, GhostNoticed

\* Wi-Fi is given up for good only after as many disconnections in a row as the
\* budget has reconnections, and one: no outage that ended counts.
THEOREM GivesUpOnlyInARowHolds == Spec => []GivesUpOnlyInARow
<1>1. Init => WifiInv
  BY WifiConstants DEF Init, WifiInit, WifiInv, WifiTypeOK, CountOK
<1>2. WifiInv /\ [Next]_vars => WifiInv'
  BY WifiStep, WifiStepOK
<1>3. WifiInv => GivesUpOnlyInARow
  BY DEF WifiInv, CountOK, GivesUpOnlyInARow
<1> QED BY <1>1, <1>2, <1>3, PTL DEF Spec

-----------------------------------------------------------------------------
(* The availability topic.                                                   *)

\* The initial states satisfy AckInv.
LEMMA AckInit == Init => AckInv
BY AvailabilityConstants DEF Init, AckInv, ManagerStateTypeOK, AcksOK, SettledMeansOnline

\* What leaves the manager, its messages and the broker alone keeps AckInv.
LEMMA AckUnchanged ==
    ASSUME AckInv,
           UNCHANGED <<connected, pending, msgId, client, timerTask, carried, mqttVars,
                       session, retained, lateWill>>
    PROVE  AckInv'
BY DEF AckInv, ManagerStateTypeOK, AcksOK, SettledMeansOnline, mqttVars

\* Messages on their way keep AckInv: a delivery of "online" happens in the session it was sent in.
LEMMA MessagesOK ==
    ASSUME AckInv, PublishOther \/ DeliverOnline \/ DeliverOther \/ Expires
    PROVE  AckInv'
<1> USE DEF AckInv, ManagerStateTypeOK, AcksOK, SettledMeansOnline, InUse, brokerVars, managerVars
<1>1. CASE PublishOther
  BY <1>1 DEF PublishOther
<1>2. CASE DeliverOnline
  BY <1>2 DEF DeliverOnline
<1>3. CASE DeliverOther
  BY <1>3 DEF DeliverOther
<1>4. CASE Expires
  BY <1>4 DEF Expires
<1> QED BY <1>1, <1>2, <1>3, <1>4

\* Losing the connection, and the broker noticing it, keep AckInv.
LEMMA BrokerOK ==
    ASSUME AckInv, LinkLost \/ BrokerNotices \/ GhostNoticed \/ WifiLost \/ Restart
    PROVE  AckInv'
<1> USE DEF AckInv, ManagerStateTypeOK, AcksOK, SettledMeansOnline, managerVars, mqttVars
<1>1. CASE LinkLost
  BY <1>1 DEF LinkLost
<1>2. CASE BrokerNotices
  BY <1>2 DEF BrokerNotices
<1>3. CASE GhostNoticed
  BY <1>3 DEF GhostNoticed
<1>4. CASE WifiLost
  BY <1>4 DEF WifiLost
<1>5. CASE Restart
  BY <1>5 DEF Restart, ManagerStart
<1> QED BY <1>1, <1>2, <1>3, <1>4, <1>5

\* The steps of the client task, handler of the events and of acknowledgements, keep AckInv.
LEMMA ClientTaskOK ==
    ASSUME AckInv, ClientTask
    PROVE  AckInv'
<1> USE AvailabilityConstants
    DEF AckInv, ManagerStateTypeOK, AcksOK, SettledMeansOnline, InUse, brokerVars, mqttVars
<1>1. CASE Connected
  BY <1>1 DEF Connected
<1>2. CASE Announce
  BY <1>2 DEF Announce, Refused, Queued
<1>3. CASE AnnounceStop \/ AnnounceStart
  BY <1>3 DEF AnnounceStop, AnnounceStart
<1>4. CASE Disconnected
  BY <1>4 DEF Disconnected, Reset
<1>5. CASE Published
  <2>1. PICK id \in acks :
          /\ Taken(id) /\ client = "idle" /\ connected
          /\ IF pending /\ id = msgId THEN Reset ELSE UNCHANGED <<pending, msgId, armed>>
          /\ UNCHANGED <<wifiVars, connected, client, timerTask, carried, brokerVars>>
    BY <1>5 DEF Published
  <2>2. /\ outbox' = outbox \ {id} /\ others' = others \ {id} /\ acks' = acks \ {id}
        /\ msgId' \in {msgId, None}
    BY <2>1 DEF Taken, Reset
  <2>3. ManagerStateTypeOK' /\ AcksOK'
    BY <2>1, <2>2
  <2>4. SettledMeansOnline'
    <3>1. CASE pending /\ id = msgId
      \* The acknowledged message is no other task's, and the session is this one.
      BY <2>1, <3>1
    <3>2. CASE ~(pending /\ id = msgId)
      BY <2>1, <3>2
    <3> QED BY <3>1, <3>2
  <2> QED BY <2>3, <2>4
<1> QED BY <1>1, <1>2, <1>3, <1>4, <1>5 DEF ClientTask

\* The steps of the retry timer keep AckInv, wherever the client task is.
LEMMA TimerTaskOK ==
    ASSUME AckInv, TimerTask
    PROVE  AckInv'
<1> USE AvailabilityConstants
    DEF AckInv, ManagerStateTypeOK, AcksOK, SettledMeansOnline, InUse, brokerVars, timerRest
<1>1. CASE Fire \/ RetryCheck \/ RetryStop \/ RetryStart
  BY <1>1 DEF Fire, RetryCheck, RetryStop, RetryStart
<1>2. CASE RetryFails
  BY <1>2 DEF RetryFails, Refused
<1>3. CASE RetryQueued
  BY <1>3 DEF RetryQueued, Queued
<1>4. CASE RetryStore
  BY <1>4 DEF RetryStore
<1> QED BY <1>1, <1>2, <1>3, <1>4 DEF TimerTask

\* Every step of the composition keeps AckInv.
LEMMA AckStep == AckInv /\ [Next]_vars => AckInv'
<1> SUFFICES ASSUME AckInv, [Next]_vars PROVE AckInv'
  OBVIOUS
<1>1. CASE UNCHANGED vars \/ WifiSteps
  BY <1>1, AckUnchanged DEF vars, WifiSteps, managerVars, mqttVars, brokerVars
<1> QED
  BY <1>1, MessagesOK, BrokerOK, ClientTaskOK, TimerTaskOK DEF Next, Broker

\* Every behaviour keeps AckInv.
THEOREM AckInvariance == Spec => []AckInv
  BY AckInit, AckStep, PTL DEF Spec

\* The manager never stops retrying on an acknowledgement that is not of "online" in
\* this very session, whatever identifiers other messages use.
THEOREM SettledMeansOnlineHolds == Spec => []SettledMeansOnline
<1>1. AckInv => SettledMeansOnline
  BY DEF AckInv
<1> QED BY <1>1, AckInvariance, PTL

\* As long as "online" is pending the timer is armed, or a task will arm it: no step
\* of the handler and of the callback between each other loses the retry.
THEOREM RetryWillComeHolds == Spec => []RetryWillCome
<1>1. Init => RetryWillCome
  BY DEF Init, RetryWillCome
<1>2. RetryWillCome /\ [Next]_vars => RetryWillCome'
  <2> SUFFICES ASSUME RetryWillCome, [Next]_vars PROVE RetryWillCome'
    OBVIOUS
  <2> USE DEF RetryWillCome
  <2>1. CASE UNCHANGED <<managerVars>>
    BY <2>1 DEF managerVars
  <2>2. CASE Restart
    BY <2>2 DEF Restart, ManagerStart
  <2>3. CASE ClientTask
    BY <2>3 DEF ClientTask, Connected, Announce, AnnounceStop, AnnounceStart, Disconnected,
                Published, Reset
  <2>4. CASE TimerTask
    BY <2>4 DEF TimerTask, Fire, RetryCheck, RetryFails, RetryQueued, RetryStore, RetryStop,
                RetryStart, timerRest
  <2>5. CASE WifiSteps \/ WifiLost \/ PublishOther \/ Broker \/ Expires \/ LinkLost
    BY <2>1, <2>5 DEF WifiSteps, WifiLost, PublishOther, Broker, Expires, LinkLost, DeliverOnline,
                      DeliverOther, BrokerNotices, GhostNoticed, managerVars
  <2> QED BY <2>1, <2>2, <2>3, <2>4, <2>5 DEF Next, vars
<1> QED BY <1>1, <1>2, PTL DEF Spec

===============================================================================
