------------------------------ MODULE LedStatus ------------------------------
(***************************************************************************)
(* main/thermostat/thermostat_led_status.c on top of the effect engine: the*)
(* boot ceremony that also dismisses the splash, the HVAC waves and bias   *)
(* lighting, the easter-egg commands and the greeting, all of which share  *)
(* one one-shot timer and its stage.  The main task boots, the MQTT        *)
(* dataplane task delivers HVAC states, commands and greetings, the screen *)
(* is put to sleep and woken by the esp_timer task or another, and the     *)
(* esp_timer task runs the callback.  No lock is shared between them: a    *)
(* call is cut wherever another task could read or write in between.  Only *)
(* the guard and the cancellation of a request are one step with what its  *)
(* task did before: the launch that follows overrides whatever came        *)
(* between.                                                                *)
(***************************************************************************)
EXTENDS Leds

CONSTANTS
    Eggs,     \* the easter-egg commands that are sent
    MaxCalls  \* bound on the calls of a behaviour, see calls

Egg == {"rainbow", "heatwave", "coolwave", "sparkle"}

ASSUME EggsAssumption == Eggs \subseteq Egg
ASSUME MaxCallsAssumption == MaxCalls \in Nat

VARIABLES
    s,         \* s_status: the flags (bias_lighting_active is never read)
    stage,     \* s_status.timer_stage
    timer,     \* s_status.timer: "none" if not created, "stopped" or "armed"
    splash,    \* the splash screen: its "status" lines, or on its way to the "exit"
    main,      \* progress of app_main
    asleep,    \* backlight_manager's idle_sleep_active
    calls,     \* history: HVAC states, commands, greetings, sleeps and wakes so far
    preempted, \* history: a command or greeting played or took the timer in the ceremony
    clobbered, \* history: the ceremony took the timer another stage was waiting for
    erased,    \* history: a callback erased a stage scheduled while it ran
    intruded,  \* history: an HVAC wave came into the boot ceremony
    overtaken, \* history: tasks about to play a look for flags that have changed since
    stale      \* history: the last look played was chosen from such flags

flagVars == <<s, overtaken>>
timerVars == <<stage, timer, clobbered>>
envVars == <<main, asleep, calls>>
raceVars == <<preempted, intruded, stale>>
statusVars == <<flagVars, timerVars, splash, envVars, raceVars, erased>>
vars == <<ledsVars, statusVars>>

BootStage == {"boot_wait_sparkle", "boot_white_peak", "boot_hold", "boot_complete"}
Stage == BootStage \cup {"timed_effect_timeout", "greeting_complete"}

\* A call from outside.
Counted == calls < MaxCalls /\ calls' = calls + 1

Busy == s.booting \/ s.bootSeq \/ s.timed

\* The ceremony is under way, as soon as boot_complete has dealt with the sparkle.
InCeremony ==
    /\ splash # "exit"
    /\ s.bootSeq \/ (main = "done" /\ ~Free("main") /\ ~At("main", "stop") /\ ~At("main", "cancel"))

\* The looks of apply_hvac_effect and of the screen, chosen from the flags, and the
\* steps at which a task has read flags it is still going to use.
Chosen == {"heating", "cooling", "bias", "idle", "sleep"}
Choosing == Chosen \cup {"choose", "biasIfFree"}
\* Task t changes flags: others that have read them are overtaken.
Set(t, flags) ==
    /\ s' = flags
    /\ overtaken' = overtaken \cup {u \in Task \ {t} : \E step \in Choosing : At(u, step)}

-----------------------------------------------------------------------------
(* The steps of a call.                                                      *)

\* The second half of a request, for each cue.
Launch(t, cue) ==
    /\ Take(t, cue, <<>>) /\ leds' = Launched(leds, cue)
    /\ preempted' = (preempted \/ (cue \in Egg \cup {"greeting"} /\ InCeremony))
    /\ intruded' = (intruded \/ (cue \in {"heating", "cooling"} /\ InCeremony))
    /\ stale' = (t \in overtaken) /\ overtaken' = overtaken \ {t}
    /\ UNCHANGED <<synced, s, timerVars, splash, envVars, erased>>

\* Somebody's stage is pending or has just expired.
Pending == timer = "armed" \/ At("timer", "callback")
\* schedule_timer: without a timer nothing is scheduled and the stage is kept.
Schedule(t, next) ==
    /\ Take(t, next, <<>>)
    /\ IF timer = "none" THEN UNCHANGED <<stage, timer>> ELSE stage' = next /\ timer' = "armed"
    /\ clobbered' = (next \in BootStage /\ (clobbered \/ Pending \/ erased)) /\ erased' = FALSE
    /\ preempted' = (preempted \/ (next \notin BootStage /\ InCeremony))
    /\ IF next = "greeting_complete" THEN Set(t, [s EXCEPT !.timed = TRUE, !.greeting = TRUE])
       ELSE UNCHANGED flagVars
    /\ UNCHANGED <<leds, synced, splash, envVars, intruded, stale>>

\* apply_hvac_effect: the flags of who owns the strip are read, then those of the
\* HVAC state and the screen, and the look they call for is requested.
Apply(t) ==
    /\ Take(t, "apply", IF Busy THEN <<>> ELSE <<"choose">>)
    /\ UNCHANGED <<leds, synced, statusVars>>
HvacCue == IF s.heating THEN "heating" ELSE IF s.cooling THEN "cooling"
           ELSE IF s.screenOn THEN "bias" ELSE "idle"
Choose(t) ==
    /\ Take(t, "choose", Starts(leds, HvacCue)) /\ leds' = Requested(leds, HvacCue)
    /\ UNCHANGED <<synced, statusVars>>

\* start_boot_success_sequence. Without a timer it does all of the ceremony at once.
Success(t) ==
    LET l == [leds EXCEPT !.gated = TRUE]
    IN /\ Take(t, "success", Starts(l, "white") \o
                 IF timer = "none" THEN <<"exit", "sequenceOver", "apply">>
                 ELSE <<"boot_white_peak">>)
       /\ Set(t, [s EXCEPT !.bootSeq = TRUE]) /\ leds' = Requested(l, "white")
       /\ UNCHANGED <<synced, timerVars, splash, envVars, raceVars, erased>>
\* thermostat_splash_begin_fade waits for the display lock and takes the splash away;
\* then the LEDs fade. (Its white fade before only adds to the time of this step.)
Exit(t) ==
    /\ Take(t, "exit", Starts(leds, "fadeOff")) /\ splash' = "exit"
    /\ preempted' = FALSE /\ intruded' = FALSE
    /\ leds' = Requested(leds, "fadeOff")
    /\ UNCHANGED <<synced, flagVars, timerVars, envVars, stale, erased>>

\* The assignments that open and close the sequence, a timed effect or a greeting.
Assign(t, step, flags) ==
    /\ Take(t, step, <<>>) /\ Set(t, flags)
    /\ UNCHANGED <<leds, synced, timerVars, splash, envVars, raceVars, erased>>
Flags(t) ==
    \/ Assign(t, "sequence", [s EXCEPT !.bootSeq = TRUE])
    \/ Assign(t, "sequenceOver", [s EXCEPT !.bootSeq = FALSE])
    \/ Assign(t, "timedOver", [s EXCEPT !.timed = FALSE])
    \/ Assign(t, "greetingOff", [s EXCEPT !.timed = FALSE, !.greeting = FALSE])
\* timer_stage is cleared, even if a task has scheduled a stage meanwhile.
ClearStage(t) ==
    /\ Take(t, "noStage", <<>>) /\ stage' = "none"
    /\ erased' = (erased \/ timer = "armed")
    /\ UNCHANGED <<leds, synced, flagVars, timer, clobbered, splash, envVars, raceVars>>

-----------------------------------------------------------------------------
(* The main task.                                                            *)

\* thermostat_led_status_init and _booting.
StartBooting ==
    /\ main = "init" /\ main' = "boot"
    /\ Begin("main", IF s.ready THEN Starts(leds, "boot") ELSE <<>>)
    /\ leds' = IF s.ready THEN Requested(leds, "boot") ELSE leds
    /\ UNCHANGED <<synced, flagVars, timerVars, splash, asleep, calls, raceVars, erased>>

\* thermostat_led_status_boot_complete: the sparkle is asked to drain ...
BootComplete ==
    /\ main = "boot" /\ main' = "done"
    /\ \/ /\ ~s.ready /\ Begin("main", <<>>) /\ splash' = "exit" /\ UNCHANGED flagVars
       \/ /\ s.ready /\ Begin("main", <<"stop", "await">>)
          /\ Set("main", [s EXCEPT !.booting = FALSE]) /\ UNCHANGED splash
    /\ UNCHANGED <<leds, synced, timerVars, asleep, calls, raceVars, erased>>
\* ... and waited for, if there is anything to wait for.
Await(t) ==
    /\ Take(t, "await", IF timer # "none" /\ IsAnimating
                        THEN <<"sequence", "boot_wait_sparkle">> ELSE <<"success">>)
    /\ UNCHANGED <<leds, synced, statusVars>>

-----------------------------------------------------------------------------
(* The MQTT dataplane task, started while the device is booting.             *)

\* thermostat_led_status_set_hvac: each payload changes one of the two.
SetHvac ==
    /\ main # "init" /\ s.ready /\ Counted /\ Begin("mqtt", <<"apply">>)
    /\ \E on \in BOOLEAN :
         Set("mqtt", [s EXCEPT !.heating = on]) \/ Set("mqtt", [s EXCEPT !.cooling = on])
    /\ UNCHANGED <<leds, synced, timerVars, splash, main, asleep, raceVars, erased>>

\* thermostat_led_status_trigger_rainbow, _heatwave, _coolwave, _sparkle.
\* Fault: the timeout that ends the effect is not scheduled.
TriggerNoTimeout(egg) ==
    /\ main # "init" /\ s.ready /\ Counted
    /\ Begin("mqtt", Starts(leds, egg))
    /\ Set("mqtt", [s EXCEPT !.timed = TRUE]) /\ leds' = Requested(leds, egg)
    /\ UNCHANGED <<synced, timerVars, splash, main, asleep, raceVars, erased>>
Trigger(egg) ==
    /\ main # "init" /\ s.ready /\ Counted
    /\ Begin("mqtt", Starts(leds, egg) \o <<"timed_effect_timeout">>)
    /\ Set("mqtt", [s EXCEPT !.timed = TRUE]) /\ leds' = Requested(leds, egg)
    /\ UNCHANGED <<synced, timerVars, splash, main, asleep, raceVars, erased>>
TriggerEgg == \E egg \in Eggs : Trigger(egg)

\* thermostat_led_status_trigger_greeting: it is started, with a timer to end it ...
GreetingAllowed == s.ready /\ synced /\ ~Busy /\ ~s.heating /\ ~s.cooling
Greet(call) == Begin("mqtt", <<"greeting">> \o call) /\ leds' = Requested(leds, "greeting")
GreetingAccepted ==
    /\ main # "init" /\ GreetingAllowed /\ timer # "none"
    /\ Greet(<<"greeting_complete">>) /\ Counted
    /\ UNCHANGED <<synced, flagVars, timerVars, splash, main, asleep, raceVars, erased>>
\* ... or, without one, started and stopped again.
GreetingUntimed ==
    /\ main # "init" /\ GreetingAllowed /\ timer = "none"
    /\ Greet(<<"stop", "greetingOff">>)
    /\ UNCHANGED <<synced, statusVars>>

-----------------------------------------------------------------------------
(* The backlight manager, on its way into and out of idle sleep.             *)

Screen == {"timer", "screen"}

\* thermostat_led_status_on_screen_sleep, _wake.
ScreenSleep ==
    /\ main # "init" /\ ~asleep /\ asleep' = TRUE /\ Counted
    /\ \E t \in Screen : /\ t = "screen" => splash = "exit"
                         /\ Begin(t, IF s.ready THEN <<"screenOff">> ELSE <<>>)
    /\ UNCHANGED <<leds, synced, flagVars, timerVars, splash, main, raceVars, erased>>
ScreenOff(t) ==
    /\ Take(t, "screenOff", <<"sleep">>) /\ Set(t, [s EXCEPT !.screenOn = FALSE])
    /\ leds' = Requested(leds, "sleep")
    /\ UNCHANGED <<synced, timerVars, splash, envVars, raceVars, erased>>

ScreenWake ==
    /\ main # "init" /\ asleep /\ asleep' = FALSE /\ Counted
    /\ \E t \in Screen : Begin(t, IF s.ready THEN <<"screenOn">> ELSE <<>>)
    /\ UNCHANGED <<leds, synced, flagVars, timerVars, splash, main, raceVars, erased>>
ScreenOn(t) ==
    /\ Take(t, "screenOn", IF s.heating \/ s.cooling THEN <<"apply">> ELSE <<"biasIfFree">>)
    /\ Set(t, [s EXCEPT !.screenOn = TRUE])
    /\ UNCHANGED <<leds, synced, timerVars, splash, envVars, raceVars, erased>>
\* Fault: bias lighting starts whoever owns the strip.
BiasAnyway(t) ==
    /\ Take(t, "biasIfFree", Starts(leds, "bias")) /\ leds' = Requested(leds, "bias")
    /\ UNCHANGED <<synced, statusVars>>
BiasIfFree(t) ==
    /\ Take(t, "biasIfFree", IF Busy THEN <<>> ELSE Starts(leds, "bias"))
    /\ leds' = IF Busy THEN leds ELSE Requested(leds, "bias")
    /\ UNCHANGED <<synced, statusVars>>

-----------------------------------------------------------------------------
(* The esp_timer task.                                                       *)

\* The timer leaves the armed list for its callback, which has not read the stage yet.
Expire ==
    /\ timer = "armed" /\ timer' = "stopped" /\ Begin("timer", <<"callback">>)
    /\ UNCHANGED <<leds, synced, flagVars, stage, clobbered, splash, envVars, raceVars, erased>>

\* led_status_timer_cb, by the stage it reads.
\* Fault: the HVAC state is not restored when a timed effect ends.
CallbackForgets ==
    [none |-> <<>>,
     boot_wait_sparkle |-> IF IsAnimating THEN <<"boot_wait_sparkle">> ELSE <<"success">>,
     boot_white_peak |-> <<"boot_hold">>,
     boot_hold |-> <<"exit", "boot_complete">>,
     boot_complete |-> <<"sequenceOver", "noStage", "apply">>,
     timed_effect_timeout |-> <<"timedOver", "noStage", "stop">>,
     greeting_complete |-> <<"noStage", "complete">>]
Callback ==
    [none |-> <<>>,
     boot_wait_sparkle |-> IF IsAnimating THEN <<"boot_wait_sparkle">> ELSE <<"success">>,
     boot_white_peak |-> <<"boot_hold">>,
     boot_hold |-> <<"exit", "boot_complete">>,
     boot_complete |-> <<"sequenceOver", "noStage", "apply">>,
     timed_effect_timeout |-> <<"timedOver", "noStage", "apply">>,
     greeting_complete |-> <<"noStage", "complete">>]
TimerCallback(t) ==
    /\ Take(t, "callback", Callback[stage])
    /\ UNCHANGED <<leds, synced, statusVars>>

\* complete_greeting_effect, and its call of thermostat_personal_presence_on_led_complete.
CompleteGreeting(t) ==
    /\ Take(t, "complete", (IF s.greeting THEN <<"stop">> ELSE <<>>) \o <<"presence", "apply">>)
    /\ Set(t, [s EXCEPT !.greeting = FALSE, !.timed = FALSE])
    /\ UNCHANGED <<leds, synced, timerVars, splash, envVars, raceVars, erased>>
PresenceTold(t) ==
    /\ Take(t, "presence", <<>>) /\ UNCHANGED <<leds, synced, statusVars>>

-----------------------------------------------------------------------------
Init ==
    /\ LedsInit
    /\ \E ready, exists \in BOOLEAN :
         /\ s = [ready |-> ready, booting |-> TRUE, bootSeq |-> FALSE, timed |-> FALSE,
                 greeting |-> FALSE, heating |-> FALSE, cooling |-> FALSE,
                 screenOn |-> FALSE]
         /\ timer = IF exists THEN "stopped" ELSE "none"
         /\ exists => ready
    /\ stage = "none" /\ splash = "status" /\ main = "init"
    /\ asleep = FALSE /\ calls = 0 /\ preempted = FALSE /\ clobbered = FALSE
    /\ erased = FALSE /\ intruded = FALSE /\ overtaken = {} /\ stale = FALSE

\* A task goes on with its call.
Step(t) ==
    /\ ~Free(t)
    /\ LET next == Head(todo[t])
       IN \/ next \in Cue /\ Launch(t, next)
          \/ next \in Stage /\ Schedule(t, next)
          \/ EngineStep(t) /\ UNCHANGED statusVars
          \/ Apply(t) \/ Choose(t) \/ Success(t) \/ Exit(t) \/ Flags(t)
          \/ ClearStage(t) \/ Await(t) \/ ScreenOff(t) \/ ScreenOn(t) \/ BiasIfFree(t)
          \/ TimerCallback(t) \/ CompleteGreeting(t)

\* What starts by itself, and what others ask for.
Background ==
    \/ StartBooting \/ BootComplete \/ Expire
    \/ (LedTick \/ ClockSynced) /\ UNCHANGED statusVars
Call == SetHvac \/ TriggerEgg \/ ScreenSleep \/ ScreenWake

Next ==
    \/ Background \/ Call \/ GreetingAccepted \/ GreetingUntimed
    \/ \E t \in Task : Step(t) \/ PresenceTold(t)

Spec == Init /\ [][Next]_vars

\* Tasks run on, app_main to its end; esp_timer delivers, and effects end by the
\* clock, however many other callbacks the timer task has.
Progress ==
    /\ \A t \in Task : WF_vars(Step(t) \/ PresenceTold(t))
    /\ WF_vars(StartBooting) /\ WF_vars(BootComplete) /\ SF_vars(Expire)
    /\ SF_vars((FadeDone \/ SparkleDrained) /\ UNCHANGED statusVars)
FairSpec == Spec /\ Progress

-----------------------------------------------------------------------------
(* Properties.                                                               *)

\* No task is in a call, or about to run the callback. (Without a timer a greeting
\* is stopped and nothing is restored.)
Settled ==
    s.ready /\ timer = "stopped" /\ ~Busy /\ \A t \in Task : Free(t)
Wanted == IF s.heating THEN "rising" ELSE IF s.cooling THEN "falling"
          ELSE IF s.screenOn THEN "bias" ELSE "dark"

\* When nobody owns the strip it shows what apply_hvac_effect wants of the HVAC state
\* and the screen, whichever commands, greetings, sleeps and ceremonies went before.
\* The exceptions: the engine refused the last look for want of the time; the tick
\* cancelled or stopped what another task had just started (thermostat_leds.c:1194
\* to 1202, 488 to 498, 1254 to 1256); the look was chosen from flags that another
\* task changed before it was launched; and a screen that went to sleep stays dark,
\* even if an HVAC wave was playing.
SettledShowsState ==
    Settled => \/ leds.look = Wanted \/ leds.refused \/ leds.look = "lost" \/ stale
               \/ leds.look = "dark" /\ ~s.screenOn

\* The HVAC looks and bias lighting start only when no ceremony, command or greeting
\* owns the strip, unless its owner came between the task's check of the flags and
\* the launch (thermostat_led_status.c:292 to 320, 480 to 487).
OwnersRespected ==
    \A t \in Task, look \in {"heating", "cooling", "bias"} :
        At(t, look) /\ todo'[t] # todo[t] /\ Busy => t \in overtaken
PriorityKept == [][OwnersRespected]_vars

\* An effect whose tick timer another task's last tick stopped.
Frozen == leds.effect # "idle" /\ ~leds.running
\* The screen may fall asleep and wake only finitely often: each sleep starts a fade
\* that the ceremony's wait for the sparkle also waits for.
ScreenStopsSleeping == <>[][asleep => asleep']_asleep
\* The boot ceremony takes the splash away, through the drain of the sparkle and all
\* its timer stages. The exceptions: a command or greeting took its strip or its
\* timer; a callback erased the stage just scheduled (line 352, 358 or 363); an HVAC
\* wave came in between booting = false and boot_sequence_active = true (121 to 132)
\* and never drains; or the engine is left with an effect that is never ticked.
BootFinishes ==
    ScreenStopsSleeping =>
        ((main = "done") ~> (splash = "exit" \/ preempted \/ erased \/ intruded \/ []Frozen))

\* A timed effect ends, whatever else is scheduled on the one timer. The exceptions:
\* the ceremony scheduled its next stage over the effect's (its callback had already
\* read its stage, 344 to 348 or 388 to 400); the callback erased the stage; or there
\* is no timer.
TimedEffectEnds ==
    s.timed ~> (~s.timed \/ clobbered \/ erased \/ timer = "none")

=============================================================================
