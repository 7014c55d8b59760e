------------------------------- MODULE Backlight -------------------------------
(***************************************************************************)
(* main/thermostat/backlight_manager.c: when the screen is asleep, held or *)
(* lit.  Three tasks are in it without a lock: the esp_timer task (idle,   *)
(* presence, daypart and fade callbacks, one at a time), whoever holds the *)
(* LVGL lock (touches, remote setpoints, the OTA modal) and the callback   *)
(* task of the OTA server.  A call is the sequence of steps it has still   *)
(* to take, so that calls interleave between any two of them.              *)
(***************************************************************************)
EXTENDS Integers, Sequences, SequencesExt

CONSTANTS Day, Night  \* CONFIG_THEO_BACKLIGHT_DAY_ and _NIGHT_BRIGHTNESS_PERCENT

ASSUME BacklightConstants == Day \in Nat \ {0} /\ Night \in Nat \ {0}

VARIABLES
    uiReady,    \* ui_ready
    idle,       \* idle_sleep_active
    hold,       \* hold_active
    ignored,    \* presence_ignored
    presence,   \* presence_wake_pending, presence_holding, presence_hold_active
    idleTimer,  \* idle_timer is armed
    level,      \* current_brightness_percent; backlight_lit is level > 0
    fade,       \* fade_target_percent while fade_active, or NoFade
    todo,       \* per task: the steps of its call that are still to come
    crossed,    \* history: a wake and a sleep overlapped, or a fade was not
                \* stopped because the screen was at the new target just then
    lateStop,   \* history: the idle timer was stopped after the hold had ended
    heldLate    \* history: the hold began while another task fell asleep

screenVars == <<idle, ignored, level, fade, crossed>>
timerVars == <<idleTimer, lateStop>>
holdVars == <<hold, heldLate>>
outerVars == <<uiReady, presence>>
vars == <<outerVars, todo, screenVars, timerVars, holdVars>>

Task == {"timer", "lvgl", "ota"}

\* night_mode, which update_daypart sets, may have either value whenever it is read.
Brightness == {Day, Night}
Levels == 0..(Day + Night)
NoFade == -1
NoPresence == [wake |-> FALSE, holding |-> FALSE, counting |-> FALSE]

Free(t) == todo[t] = <<>>
Begin(t, call) == Free(t) /\ todo' = [todo EXCEPT ![t] = call]
\* Task t takes the step, and goes on with more before the rest of its call.
Take(t, step, more) ==
    /\ todo[t] # <<>> /\ Head(todo[t]) = step
    /\ todo' = [todo EXCEPT ![t] = more \o Tail(@)]

\* Another task is between a change of idle_sleep_active and the fade it calls
\* for, or between the last step of a fade and its end.
Transition == {"sleep", "blackOut", "wakeUp", "relight", "fadeEnd"}
MidTransition(t) == \E u \in Task \ {t} : ToSet(todo[u]) \cap Transition # {}
\* A change of idle_sleep_active while no other call is under way starts anew.
Crossing(t) ==
    (\E u \in Task \ {t} : ~Free(u)) /\ (crossed \/ MidTransition(t))

-----------------------------------------------------------------------------
(* The steps of a call.                                                      *)

\* A step of a fade moves the level, as far as the target at most.
Toward(a, b) == IF a < b THEN (a + 1)..b ELSE b..(a - 1)
\* Fault: a new fade does not take over from the one in progress.
StartFadeLater(t, target) ==
    /\ IF target = level \/ fade # NoFade THEN UNCHANGED <<level, fade>>
       ELSE level' \in Toward(level, target) /\ fade' = target
    /\ crossed' = (crossed \/ MidTransition(t))
\* start_backlight_fade with its first step: if the screen is at the target just
\* then, the fade in progress is not stopped.
StartFade(t, target) ==
    IF target = level
    THEN /\ crossed' = (crossed \/ MidTransition(t) \/ fade \notin {NoFade, target})
         /\ UNCHANGED <<level, fade>>
    ELSE /\ level' \in Toward(level, target) /\ fade' = target
         /\ crossed' = (crossed \/ MidTransition(t))

\* apply_current_brightness: after a wake ("wakeUp", with the LEDs told), a change
\* of the part of the day or a hold on a screen that is awake ("relight").
FadeIn(t) ==
    /\ Take(t, "wakeUp", <<>>) \/ Take(t, "relight", <<>>)
    /\ \E percent \in Brightness : StartFade(t, percent)
    /\ UNCHANGED <<outerVars, idle, ignored, timerVars, holdVars>>

\* Fault: the hold is forgotten.
EnterIdleUnheld(t) ==
    /\ Take(t, "enter", IF idle THEN <<>> ELSE <<"sleep", "blackOut">>)
    /\ UNCHANGED <<outerVars, screenVars, timerVars, holdVars>>
\* enter_idle_state: the flags are read, then set, then the fade starts.
EnterIdle(t) ==
    /\ Take(t, "enter", IF idle \/ hold THEN <<>> ELSE <<"sleep", "blackOut">>)
    /\ UNCHANGED <<outerVars, screenVars, timerVars, holdVars>>
FallAsleep(t) ==
    /\ Take(t, "sleep", <<>>) /\ idle' = TRUE /\ crossed' = Crossing(t)
    /\ UNCHANGED <<outerVars, ignored, level, fade, timerVars, holdVars>>
BlackOut(t) ==
    /\ Take(t, "blackOut", <<>>) /\ StartFade(t, 0)
    /\ UNCHANGED <<outerVars, idle, ignored, timerVars, holdVars>>

\* exit_idle_state, as far as the fade; presence does not clear the ignore.
ExitIdle(t, step, more, keepIgnored) ==
    IF idle
    THEN /\ Take(t, step, <<"wakeUp">> \o more)
         /\ idle' = FALSE /\ crossed' = Crossing(t)
         /\ ignored' = (ignored /\ keepIgnored)
         /\ UNCHANGED <<outerVars, level, fade, timerVars, holdVars>>
    ELSE /\ Take(t, step, more) /\ UNCHANGED <<outerVars, screenVars, timerVars, holdVars>>
Exit(t) ==
    \/ ExitIdle(t, "exit", <<>>, FALSE)
    \/ ExitIdle(t, "exitPresence", <<>>, TRUE)

\* schedule_idle_timer, after an interaction ("poke") with the presence count
\* started anew. A hold that is read stops the timer a moment later.
ScheduleIdle(t) ==
    /\ \/ Take(t, "schedule", IF hold THEN <<"stopIdle">> ELSE <<>>) /\ UNCHANGED presence
       \/ /\ Take(t, "poke", IF hold THEN <<"stopIdle">> ELSE <<>>)
          /\ presence' = [presence EXCEPT !.counting = FALSE]
    /\ IF hold THEN UNCHANGED timerVars ELSE idleTimer' = TRUE /\ lateStop' = FALSE
    /\ UNCHANGED <<uiReady, screenVars, holdVars>>
StopIdle(t) ==
    /\ Take(t, "stopIdle", <<>>) /\ idleTimer' = FALSE /\ lateStop' = ~hold
    /\ UNCHANGED <<outerVars, screenVars, holdVars>>

\* thermostat_power_icon_event: the click that wakes the screen is consumed.
PowerIcon(t) ==
    ExitIdle(t, "power", IF idle THEN <<"poke">> ELSE <<"poke", "request">>, FALSE)
\* backlight_manager_request_sleep
RequestSleep(t) ==
    /\ Take(t, "request", <<"enter">>) /\ ignored' = TRUE
    /\ UNCHANGED <<outerVars, idle, level, fade, crossed, timerVars, holdVars>>

\* backlight_manager_set_hold(true), then what it does to the screen.
SetHold(t) ==
    /\ Take(t, "hold", IF hold THEN <<>> ELSE <<"stopIdle", "show">>)
    /\ hold' = TRUE
    /\ heldLate' = IF hold THEN heldLate
                   ELSE \E u \in Task \ {t} : "sleep" \in ToSet(todo[u])
    /\ UNCHANGED <<outerVars, screenVars, timerVars>>
ShowHeld(t) == ExitIdle(t, "show", IF idle THEN <<>> ELSE <<"relight">>, FALSE)
\* Fault: the idle timer is not armed again.
ReleaseHoldOnly(t) ==
    /\ Take(t, "release", <<>>)
    /\ hold' = FALSE /\ heldLate' = FALSE
    /\ UNCHANGED <<outerVars, screenVars, timerVars>>
\* backlight_manager_set_hold(false)
ReleaseHold(t) ==
    /\ Take(t, "release", IF hold THEN <<"schedule">> ELSE <<>>)
    /\ hold' = FALSE /\ heldLate' = FALSE
    /\ UNCHANGED <<outerVars, screenVars, timerVars>>

-----------------------------------------------------------------------------
(* The callbacks of the esp_timer task.                                      *)

\* idle_timer_cb. An alarm that went off cannot be stopped any more. A timer armed
\* after set_hold stopped it does not go off before set_hold returns.
IdleFires ==
    /\ idleTimer /\ idleTimer' = FALSE
    /\ todo["ota"] \in {<<>>, <<"hold">>, <<"stopIdle", "show">>}
    /\ Begin("timer", IF presence.holding THEN <<"schedule">> ELSE <<"enter">>)
    /\ UNCHANGED <<outerVars, screenVars, lateStop, holdVars>>

\* presence_timer_cb, by what the radar reports: offline or nobody ...
PresenceGone(online) ==
    /\ Begin("timer", <<>>)
    /\ presence' = NoPresence /\ ignored' = (ignored /\ ~online)
    /\ UNCHANGED <<uiReady, idle, level, fade, crossed, timerVars, holdVars>>
\* Fault: presence is not ignored afterwards, and wakes the screen again.
PresenceExceededOnly ==
    /\ level > 0 /\ presence.counting
    /\ Begin("timer", <<"enter">>) /\ presence' = NoPresence
    /\ UNCHANGED <<uiReady, screenVars, timerVars, holdVars>>
\* ... somebody counted for too long ...
PresenceExceeded ==
    /\ level > 0 /\ presence.counting
    /\ Begin("timer", <<"enter">>)
    /\ presence' = NoPresence /\ ignored' = TRUE
    /\ UNCHANGED <<uiReady, idle, level, fade, crossed, timerVars, holdVars>>
\* ... somebody far away or not close for long enough ...
Seen == [presence EXCEPT !.holding = TRUE, !.counting = @ \/ level > 0]
PresenceSeen(close) ==
    /\ Begin("timer", <<>>)
    /\ presence' = [Seen EXCEPT !.wake = close]
    /\ UNCHANGED <<uiReady, screenVars, timerVars, holdVars>>
\* ... or somebody who stayed close, and wakes the screen.
PresenceDwelt ==
    /\ presence.wake
    /\ Begin("timer", IF idle /\ ~ignored THEN <<"exitPresence", "schedule">> ELSE <<>>)
    /\ presence' = [Seen EXCEPT !.wake = FALSE]
    /\ UNCHANGED <<uiReady, screenVars, timerVars, holdVars>>
Detected == PresenceExceeded \/ PresenceDwelt \/ \E close \in BOOLEAN : PresenceSeen(close)
NotDetected == \E online \in BOOLEAN : PresenceGone(online)

\* daypart_timer_cb, when the part of the day has changed.
DaypartChanges ==
    /\ Begin("timer", IF idle THEN <<>> ELSE <<"relight">>)
    /\ UNCHANGED <<outerVars, screenVars, timerVars, holdVars>>

\* fade_timer_cb: a step of the fade, and its last one, after which the fade is
\* stopped, even if another task has started a new one in between. How many
\* steps there are is left open.
FadeTick ==
    /\ fade \notin {NoFade, level} /\ Begin("timer", <<>>)
    /\ level' \in Toward(level, fade)
    /\ UNCHANGED <<outerVars, idle, ignored, fade, crossed, timerVars, holdVars>>
LastFadeTick ==
    /\ fade # NoFade /\ Begin("timer", <<"fadeEnd">>) /\ level' = fade
    /\ UNCHANGED <<outerVars, idle, ignored, fade, crossed, timerVars, holdVars>>
StopFade(t) ==
    /\ Take(t, "fadeEnd", <<>>) /\ fade' = NoFade
    /\ UNCHANGED <<outerVars, idle, ignored, level, crossed, timerVars, holdVars>>

-----------------------------------------------------------------------------
(* The callers.                                                              *)

Call(t, call) ==
    /\ Begin(t, call)
    /\ UNCHANGED <<presence, screenVars, timerVars, holdVars>>

\* backlight_manager_notify_interaction: a touch, or a remote setpoint. The UI is
\* attached in the same LVGL callback that then says it is ready.
Interaction == uiReady /\ Call("lvgl", <<"exit", "poke">>) /\ UNCHANGED uiReady
\* backlight_manager_on_ui_ready
UiReady == ~uiReady /\ uiReady' = TRUE /\ Call("lvgl", <<"exit", "poke">>)
ClickPower == uiReady /\ Call("lvgl", <<"power">>) /\ UNCHANGED uiReady
\* backlight_manager_schedule_remote_sleep: the timer is stopped, and armed anew.
ScheduleRemoteSleep ==
    /\ uiReady /\ Begin("lvgl", <<>>) /\ idleTimer' = TRUE /\ lateStop' = FALSE
    /\ UNCHANGED <<outerVars, screenVars, holdVars>>
\* ota_start_cb, and ota_modal_dismiss_cb after an error.
UpdateStarts == Call("ota", <<"hold">>) /\ UNCHANGED uiReady
UpdateDismissed == Call("lvgl", <<"release">>) /\ UNCHANGED uiReady

\* backlight_manager_init: initialized is set last, so that its own call of
\* schedule_idle_timer arms nothing.
Init ==
    /\ uiReady = FALSE /\ idle = FALSE /\ hold = FALSE /\ ignored = FALSE
    /\ presence = NoPresence
    /\ idleTimer = FALSE
    /\ fade \in Brightness /\ level \in 1..fade
    /\ todo = [t \in Task |-> <<>>]
    /\ crossed = FALSE /\ lateStop = FALSE /\ heldLate = FALSE

Timer ==
    \/ IdleFires \/ Detected \/ NotDetected \/ DaypartChanges \/ FadeTick \/ LastFadeTick
Callers ==
    \/ Interaction \/ UiReady \/ ClickPower \/ ScheduleRemoteSleep \/ UpdateStarts \/ UpdateDismissed
Step(t) ==
    \/ FadeIn(t) \/ BlackOut(t) \/ EnterIdle(t) \/ FallAsleep(t) \/ Exit(t)
    \/ ScheduleIdle(t) \/ StopIdle(t) \/ PowerIcon(t) \/ RequestSleep(t)
    \/ SetHold(t) \/ ShowHeld(t) \/ ReleaseHold(t) \/ StopFade(t)
Next == Timer \/ Callers \/ \E t \in Task : Step(t)

Spec == Init /\ [][Next]_vars

\* The timer task runs on, the idle timer goes off, the radar is polled and the cap
\* on presence is reached.
Fairness ==
    /\ WF_vars(Step("timer")) /\ SF_vars(IdleFires)
    /\ SF_vars(Detected \/ NotDetected) /\ SF_vars(PresenceExceeded)
FairSpec == Spec /\ Fairness

-----------------------------------------------------------------------------
(* Properties.                                                               *)

Steps == {"enter", "exit", "exitPresence", "poke", "schedule", "stopIdle", "power",
          "request", "hold", "show", "release"} \cup Transition
\* The state has its type: in particular the brightness never leaves the range.
BacklightTypeOK ==
    /\ {uiReady, idle, hold, ignored, idleTimer, crossed, lateStop, heldLate} \subseteq BOOLEAN
    /\ presence \in [wake : BOOLEAN, holding : BOOLEAN, counting : BOOLEAN]
    /\ level \in Levels /\ fade \in Levels \cup {NoFade}
    /\ todo \in [Task -> Seq(Steps)]

Quiet == \A t \in Task : Free(t)
Lit == IF fade = NoFade THEN level > 0 ELSE fade > 0

\* Between calls the screen is lit, or lighting up, when it is awake, and dark, or
\* darkening, when it is asleep, unless a wake and a sleep crossed: then an awake
\* screen may stay dark, and touches act on a display nobody sees.
ScreenFollowsIdle == Quiet /\ ~crossed => Lit = ~idle

\* A held screen is awake, unless the hold began just when another task had
\* found no hold and was falling asleep.
HoldKeepsAwake == Quiet /\ hold /\ idle => heldLate

\* A screen that is awake and not held has its idle timer running, unless a task
\* that still saw the hold stopped the timer after the hold had ended.
IdleTimerPending == Quiet /\ uiReady /\ ~idle /\ ~hold => idleTimer \/ lateStop

\* Whoever stands before it or not, a screen that neither touches nor updates reach
\* any more falls asleep and stays asleep: by its idle timer, or by the cap on presence, which is ignored then.
\* Who comes and goes for ever keeps it awake.
Steady == <>[][~Detected]_vars \/ <>[][~NotDetected]_vars
SleepsUntouched ==
    Steady /\ <>[](Free("lvgl") /\ Free("ota")) => <>[](idle \/ hold \/ lateStop \/ crossed \/ ~uiReady)
================================================================================
