-------------------------------- MODULE Leds --------------------------------
(***************************************************************************)
(* The effect engine of main/thermostat/thermostat_leds.c: one effect at a *)
(* time is rendered on the strip by a 10 ms esp_timer; starting an effect  *)
(* cancels the running one, sparkle is the only effect that drains before  *)
(* it stops, and once the boot stage is over a request is refused while    *)
(* the clock is not synchronised.  Any task may call it at any time, and   *)
(* it takes no lock: a call is the sequence of steps a task has still to   *)
(* take.  Pixels, colours and brightness are abstracted to the look an     *)
(* effect aims at.                                                         *)
(***************************************************************************)
EXTENDS Integers, Sequences

VARIABLES
    leds,   \* s_leds
    synced, \* time_sync has the time, or no quiet-hours window is configured
    todo    \* per task: the steps of its call that are still to come

ledsVars == <<leds, synced, todo>>

\* app_main, the MQTT dataplane task, the esp_timer task, which also runs the
\* ticks of the engine, and any other task that puts the screen to sleep or wakes it.
Task == {"main", "mqtt", "timer", "screen"}

Free(t) == todo[t] = <<>>
Begin(t, call) == Free(t) /\ todo' = [todo EXCEPT ![t] = call]
At(t, step) == todo[t] # <<>> /\ Head(todo[t]) = step
\* Task t takes the step, and goes on with more before the rest of its call.
Take(t, step, more) == At(t, step) /\ todo' = [todo EXCEPT ![t] = more \o Tail(@)]

-----------------------------------------------------------------------------
(* The cues the program plays: the effect of each and the look it aims at.   *)

EffectOf == [boot |-> "sparkle", white |-> "fade", fadeOff |-> "fade",
             heating |-> "wave", cooling |-> "wave", bias |-> "fade", idle |-> "fade",
             sleep |-> "fade", rainbow |-> "rainbow", heatwave |-> "wave",
             coolwave |-> "wave", sparkle |-> "sparkle", greeting |-> "greeting"]
LookOf == [boot |-> "sparkle", white |-> "white", fadeOff |-> "dark",
           heating |-> "rising", cooling |-> "falling", bias |-> "bias", idle |-> "dark",
           sleep |-> "dark", rainbow |-> "rainbow", heatwave |-> "rising",
           coolwave |-> "falling", sparkle |-> "sparkle", greeting |-> "greeting"]
Cue == DOMAIN LookOf

\* The effects that run until they are cancelled.
Endless == {"sparkle", "rainbow", "wave", "greeting"}
\* A look that was cancelled is "frozen"; it is "lost" when that was not meant for it.
Look == {LookOf[cue] : cue \in Cue} \cup {"frozen", "lost"}

\* effect, the look it aims at, whether sparkle was asked to stop, what the
\* strip shows of it, whether the last tick ended it, whether the tick timer
\* runs, quiet_gate_active after the boot stage, and (history) whether the last
\* request was refused.
LedsType == [effect : {"idle", "fade"} \cup Endless, look : Look, stopping : BOOLEAN,
             shown : Look \cup {"nothing"}, ended : BOOLEAN,
             running : BOOLEAN, gated : BOOLEAN, refused : BOOLEAN]

-----------------------------------------------------------------------------
(* The operations, as steps of the tasks that call them.                     *)

\* guard_output: quiet hours only dim, an unsynchronised clock refuses. Fading
\* off and the greeting do not ask.
Refuses(l, cue) ==
    cue \notin {"fadeOff", "idle", "sleep", "greeting"} /\ l.gated /\ ~synced

\* cancel_current_effect: the pixels stay as the last tick left them.
Cancelled(l, look) ==
    [l EXCEPT !.effect = "idle", !.look = look, !.stopping = FALSE, !.shown = "nothing",
              !.ended = FALSE, !.running = FALSE]

\* A request is guarded and cancels the running effect ...
Requested(l, cue) ==
    IF Refuses(l, cue) THEN [l EXCEPT !.refused = TRUE] ELSE Cancelled(l, "frozen")
Starts(l, cue) == IF Refuses(l, cue) THEN <<>> ELSE <<cue>>
\* ... and then sets its own and starts the timer.
Launched(l, cue) ==
    [l EXCEPT !.effect = EffectOf[cue], !.look = LookOf[cue], !.stopping = FALSE,
              !.shown = "nothing", !.ended = FALSE, !.running = TRUE, !.refused = FALSE]

\* stop_animation: the effect is read, then a sparkle is asked to drain and
\* whatever else then runs is cancelled. Fault: a sparkle is left alone.
StopButSparkle(t) ==
    /\ Take(t, "stop", IF leds.effect = "sparkle" THEN <<>> ELSE <<"cancel">>)
    /\ UNCHANGED <<leds, synced>>
Stop(t) ==
    /\ Take(t, "stop", IF leds.effect = "sparkle" THEN <<"drain">> ELSE <<"cancel">>)
    /\ UNCHANGED <<leds, synced>>
Drain(t) ==
    /\ Take(t, "drain", <<>>) /\ leds' = [leds EXCEPT !.stopping = TRUE]
    /\ UNCHANGED synced
Cancel(t) ==
    /\ Take(t, "cancel", <<>>) /\ leds' = Cancelled(leds, "frozen")
    /\ UNCHANGED synced

IsAnimating == leds.effect # "idle"

-----------------------------------------------------------------------------
(* led_effect_timer, a callback of the esp_timer task.                       *)

\* A tick of the running effect writes the strip, and goes on with what follows.
Tick(effect, shown, follow) ==
    /\ leds.effect = effect /\ leds.running /\ Begin("timer", follow)
    /\ leds' = [leds EXCEPT !.shown = shown, !.ended = FALSE] /\ UNCHANGED synced
\* The tick that writes the end of an effect cancels it afterwards.
LastTick(effect, look) ==
    /\ leds.effect = effect /\ leds.running /\ Begin("timer", <<"end">>)
    /\ leds' = [leds EXCEPT !.look = look, !.shown = look, !.ended = TRUE]
    /\ UNCHANGED synced

TickFade == Tick("fade", "nothing", <<"tail">>)
FadeDone == LastTick("fade", leds.look)
TickEndless ==
    \E effect \in {"sparkle", "rainbow", "wave"} : Tick(effect, leds.look, <<"tail">>)
\* Fault: the last pixels stay lit.
SparkleDrainedLit ==
    /\ leds.effect = "sparkle" /\ leds.stopping /\ leds.running /\ Begin("timer", <<"end">>)
    /\ leds' = [leds EXCEPT !.look = "dark", !.ended = TRUE] /\ UNCHANGED synced
\* A sparkle asked to stop spawns no more pixels and fades to black.
SparkleDrained == leds.stopping /\ LastTick("sparkle", "dark")
\* A greeting is running but no branch of the handler renders it.
TickGreeting == Tick("greeting", leds.shown, <<"tail">>)

LedTick == TickFade \/ FadeDone \/ TickEndless \/ SparkleDrained \/ TickGreeting

\* cancel_current_effect at the end of an effect: it takes whatever effect is
\* running by now, and the handler then finds none running.
EndEffect(t) ==
    /\ Take(t, "end", <<"stopTimer">>)
    /\ leds' = IF leds.effect = "idle" THEN leds
               ELSE IF leds.ended THEN [leds EXCEPT !.effect = "idle", !.running = FALSE,
                                                    !.stopping = FALSE, !.ended = FALSE]
               ELSE Cancelled(leds, "lost")
    /\ UNCHANGED synced
\* The handler stops the timer when no effect is running: one that was started
\* in between stays as it is, running but never ticked.
TickTail(t) ==
    /\ Take(t, "tail", IF leds.effect = "idle" THEN <<"stopTimer">> ELSE <<>>)
    /\ UNCHANGED <<leds, synced>>
StopTimer(t) ==
    /\ Take(t, "stopTimer", <<>>)
    /\ leds' = IF leds.effect = "idle" THEN [leds EXCEPT !.running = FALSE]
               ELSE [leds EXCEPT !.running = FALSE, !.look = "lost", !.shown = "nothing",
                                 !.ended = FALSE]
    /\ UNCHANGED synced

EngineStep(t) ==
    Stop(t) \/ Drain(t) \/ Cancel(t) \/ EndEffect(t) \/ TickTail(t) \/ StopTimer(t)

\* SNTP reports the time.
ClockSynced == ~synced /\ synced' = TRUE /\ UNCHANGED <<leds, todo>>

LedsInit ==
    /\ leds = [effect |-> "idle", look |-> "dark", stopping |-> FALSE, shown |-> "dark",
               ended |-> FALSE, running |-> FALSE, gated |-> FALSE, refused |-> FALSE]
    /\ synced \in BOOLEAN
    /\ todo = [t \in Task |-> <<>>]

\* The strip shows what the engine believes it shows: an endless effect once it was
\* ticked, and the end of an effect that ran to its end, whatever was cancelled,
\* refused or drained before. Only a greeting is never rendered.
RenderedUnlessGreeting ==
    \/ leds.effect \in Endless \ {"greeting"} /\ leds.shown # "nothing"
    \/ leds.effect = "idle" /\ leds.look \notin {"frozen", "lost"}
    => leds.shown = leds.look

=============================================================================
