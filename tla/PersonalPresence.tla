--------------------------- MODULE PersonalPresence ---------------------------
(***************************************************************************)
(* main/thermostat/thermostat_personal_presence.c composed with LedStatus: *)
(* the dataplane task matches a recognised face with the person count and  *)
(* runs the greeting (audio, which blocks it, then the LEDs, then a        *)
(* FreeRTOS timer); the LED timer's callback and the FreeRTOS timer's both *)
(* end it.  The struct is guarded by a spinlock, which is released before  *)
(* the timer is stopped: those two moments are separate steps.  What the   *)
(* dataplane task does within the LEDs is a call of its own.               *)
(***************************************************************************)
EXTENDS LedStatus

CONSTANT MaxFaces  \* bound on the face payloads of a behaviour

ASSUME MaxFacesAssumption == MaxFaces \in 0 .. MaxCalls

VARIABLES
    cue,        \* s_presence.cue_active
    timerArmed, \* s_presence.timer_armed
    cueTimer,   \* the FreeRTOS timer: "stopped" or "running"
    greeter,    \* the dataplane task: "idle", or its place in trigger_greeting
    someone,    \* person_count_valid, and somebody is counted
    consumed,   \* s_presence.initial_face_consumed
    toStop,     \* the LED callback will stop the timer it read under the lock
    faces,      \* history: face payloads processed
    raced       \* history: that stop hit the timer of a later greeting

presenceVars == <<cue, timerArmed, cueTimer, greeter, someone, consumed, toStop, faces, raced>>
allVars == <<vars, presenceVars>>

\* finish_greeting up to the end of its critical section.
Finish ==
    \/ ~cue /\ UNCHANGED <<cue, timerArmed>>
    \/ cue /\ cue' = FALSE /\ timerArmed' = FALSE

-----------------------------------------------------------------------------
(* The dataplane task. While a greeting is being launched it processes no    *)
(* other payload.                                                            *)

DataplaneFree == greeter = "idle" /\ Free("mqtt")

PersonCount ==
    /\ main # "init" /\ DataplaneFree
    /\ someone' \in BOOLEAN
    /\ UNCHANGED <<vars, cue, timerArmed, cueTimer, greeter, consumed, toStop, faces, raced>>

Greets(scott) == scott /\ someone /\ ~cue

\* process_face: the first payload is ignored when it is a retained one.
ProcessFace ==
    /\ main # "init" /\ DataplaneFree /\ faces < MaxFaces
    /\ faces' = faces + 1 /\ consumed' = TRUE
    /\ \E scott, retained \in BOOLEAN :
         LET ignored == retained /\ ~consumed
         IN \/ /\ ignored \/ ~Greets(scott)
               /\ UNCHANGED <<cue, timerArmed, greeter>>
            \/ /\ ~ignored /\ Greets(scott)
               /\ cue' = TRUE /\ timerArmed' = FALSE /\ greeter' = "audio"
    /\ UNCHANGED <<vars, cueTimer, someone, toStop, raced>>

\* trigger_greeting, in order: the clip has been played or refused,
PlayAudio ==
    /\ greeter = "audio" /\ greeter' = "leds"
    /\ UNCHANGED <<vars, cue, timerArmed, cueTimer, someone, consumed, toStop, faces, raced>>

\* the LEDs refuse, which ends the greeting,
LedsReject ==
    /\ greeter = "leds" /\ greeter' = "idle"
    /\ ~GreetingAllowed /\ Finish
    /\ UNCHANGED <<vars, cueTimer, someone, consumed, toStop, faces, raced>>

\* or fail, and end it once they have stopped again,
LedsUntimed ==
    /\ greeter = "leds" /\ greeter' = "failed"
    /\ GreetingUntimed
    /\ UNCHANGED <<cue, timerArmed, cueTimer, someone, consumed, toStop, faces, raced>>
LedsFailed ==
    /\ greeter = "failed" /\ Free("mqtt") /\ greeter' = "idle" /\ Finish
    /\ UNCHANGED <<vars, cueTimer, someone, consumed, toStop, faces, raced>>

\* or accept,
LedsAccept ==
    /\ greeter = "leds" /\ greeter' = "arm"
    /\ GreetingAccepted
    /\ UNCHANGED <<cue, timerArmed, cueTimer, someone, consumed, toStop, faces, raced>>

\* and start_greeting_timer arms the timer, or its command queue is full.
\* Fault: when the timer cannot be armed nothing ends the greeting.
ArmUnanswered ==
    /\ greeter = "arm" /\ Free("mqtt") /\ greeter' = "idle"
    /\ \/ cueTimer' = "running" /\ timerArmed' = TRUE /\ UNCHANGED cue
       \/ UNCHANGED <<cue, timerArmed, cueTimer>>
    /\ UNCHANGED <<vars, someone, consumed, toStop, faces, raced>>
ArmCueTimer ==
    /\ greeter = "arm" /\ Free("mqtt") /\ greeter' = "idle"
    /\ \/ cueTimer' = "running" /\ timerArmed' = TRUE /\ UNCHANGED cue
       \/ Finish /\ cueTimer' \in {"stopped", "running"}
    /\ UNCHANGED <<vars, someone, consumed, toStop, faces, raced>>

-----------------------------------------------------------------------------
(* The timer tasks.                                                          *)

\* greeting_timer_cb.
CueTimerElapses ==
    /\ cueTimer = "running" /\ cueTimer' = "stopped" /\ Finish
    /\ UNCHANGED <<vars, greeter, someone, consumed, toStop, faces, raced>>

\* thermostat_personal_presence_on_led_complete, within the LED callback.
LedComplete ==
    /\ At("timer", "presence") /\ ~toStop /\ Finish
    /\ toStop' = (cue /\ timerArmed)
    /\ IF toStop' THEN UNCHANGED vars ELSE PresenceTold("timer")
    /\ UNCHANGED <<cueTimer, greeter, someone, consumed, faces, raced>>

\* xTimerStop on the handle, whichever greeting it now belongs to.
LedCompleteStops ==
    /\ toStop /\ toStop' = FALSE /\ PresenceTold("timer")
    /\ cueTimer' = "stopped"
    /\ raced' = (raced \/ cue \/ greeter # "idle")
    /\ UNCHANGED <<cue, timerArmed, greeter, someone, consumed, faces>>

-----------------------------------------------------------------------------
PresenceInit ==
    /\ Init
    /\ cue = FALSE /\ timerArmed = FALSE /\ cueTimer = "stopped" /\ greeter = "idle"
    /\ someone = FALSE /\ consumed = FALSE /\ toStop = FALSE /\ faces = 0 /\ raced = FALSE

\* A command or an HVAC state needs the dataplane task between greetings, and the
\* bound on calls leaves room for the greetings that may still come.
Reserved == MaxFaces - faces + (IF greeter \in {"audio", "leds"} THEN 1 ELSE 0)
Unrelated ==
    /\ UNCHANGED presenceVars
    /\ \/ Background
       \/ \E t \in Task : Step(t)
       \/ /\ calls + Reserved < MaxCalls
          /\ ScreenSleep \/ ScreenWake \/ (DataplaneFree /\ (SetHvac \/ TriggerEgg))

PresenceNext ==
    \/ Unrelated \/ PersonCount \/ ProcessFace \/ PlayAudio
    \/ LedsReject \/ LedsUntimed \/ LedsFailed \/ LedsAccept
    \/ ArmCueTimer \/ CueTimerElapses \/ LedComplete \/ LedCompleteStops

PresenceSpec == PresenceInit /\ [][PresenceNext]_allVars

\* The clip ends, the dataplane task runs on, and the FreeRTOS timer elapses. Nothing
\* is asked of the LED timer.
PresenceFairness ==
    /\ WF_allVars(PlayAudio) /\ WF_allVars(LedsReject) /\ WF_allVars(LedsUntimed)
    /\ WF_allVars(LedsFailed) /\ WF_allVars(LedsAccept)
    /\ WF_allVars(Step("mqtt") /\ UNCHANGED presenceVars)
    /\ WF_allVars(ArmCueTimer) /\ WF_allVars(CueTimerElapses)
PresenceFairSpec == PresenceSpec /\ PresenceFairness

-----------------------------------------------------------------------------
(* Properties.                                                               *)

\* Every greeting ends on its own timers, unless that stop hit its timer.
CueEndsUnlessRaced == cue ~> (~cue \/ raced)

=============================================================================
