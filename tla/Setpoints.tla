------------------------------ MODULE Setpoints ------------------------------
(***************************************************************************)
(* The two setpoints of the thermostat, from Home Assistant to the display *)
(* and back: main/thermostat/remote_setpoint_controller.c animates what the*)
(* dataplane delivers, ui_setpoint_input.c lets the user drag a slider and *)
(* publishes both setpoints on release.  Deliveries, touches, LVGL timers  *)
(* and animation frames all run under the LVGL lock, so each is one step.  *)
(* Temperatures are whole numbers; Home Assistant uses a wider range than  *)
(* the display.  A payload that is not a number is NaN.                    *)
(***************************************************************************)
EXTENDS Integers, Sequences

CONSTANTS
    Temp,         \* temperatures Home Assistant may set
    UiMin, UiMax, \* THERMOSTAT_MIN_TEMP_C, THERMOSTAT_MAX_TEMP_C
    Step, Gap,    \* THERMOSTAT_TEMP_STEP_C, and that plus the overrun
    CoolDefault, HeatDefault, \* setpoints shown until one is received
    FirstState,   \* setpoints Home Assistant may hold when the device boots
    MaxRemote,    \* bound on the changes made at Home Assistant
    MaxTouches,   \* bound on the drags of the user
    NaN, None,    \* a payload that is not a number, and nothing
    MaxOutages    \* bound on the losses of the connection

ASSUME SetpointConstants ==
    /\ Temp \subseteq Int /\ UiMin..UiMax \subseteq Temp /\ UiMin <= UiMax
    /\ UiMin \in Int /\ UiMax \in Int
    /\ CoolDefault \in UiMin..UiMax /\ HeatDefault \in UiMin..UiMax
    /\ Step \in Nat /\ Gap \in Nat /\ Step <= Gap
    /\ NaN \notin Temp /\ None \notin Temp \cup {NaN}
    /\ MaxRemote \in Nat /\ MaxTouches \in Nat /\ MaxOutages \in Nat

Target == {"cool", "heat"}

ASSUME FirstStateAssumption == FirstState \subseteq [Target -> Temp \cup {NaN}]

VARIABLES
    view,     \* g_view_model: the setpoint shown and dragged, per target
    valid,    \* cooling_setpoint_valid, heating_setpoint_valid
    ui,       \* g_ui_initialized
    r,        \* s_remote
    anim,     \* the targets an LVGL animation is running for
    drag,     \* the target being dragged, or None
    screen,   \* the backlight: asleep, lit, fading to black, remote sleep armed
    ha,       \* Home Assistant's setpoints
    down,     \* setpoint payloads on their way to the dataplane
    up,       \* temperature_command messages on their way to Home Assistant
    link,     \* the device is connected to the broker
    used,     \* how much of each bound is used up
    moved,    \* history: targets dragged since the controller last applied them
    failed    \* history: a command was not published, a message was lost, or
              \* Home Assistant's answer to a command found the device offline

shownVars == <<view, valid, anim, moved>>
haVars == <<ha, down, up, link, failed>>
vars == <<shownVars, ui, r, drag, screen, haVars, used>>

UiTemp == UiMin..UiMax
\* thermostat_clamp_temperature, thermostat_clamp_cooling and _heating.
Between(lo, v, hi) == IF v < lo THEN lo ELSE IF v > hi THEN hi ELSE v
Clamp(v) == Between(UiMin, v, UiMax)
Dragged(t, v) ==
    IF t = "cool" THEN Between(Clamp(view["heat"] + Gap), v, UiMax)
    ELSE Between(UiMin, v, Clamp(view["cool"] - Gap))

-----------------------------------------------------------------------------
(* The remote setpoint controller, as steps from a value rr of s_remote.     *)
(* A session that is not read any more is None: current outside a burst and  *)
(* pending unless has_pending. awaiting_initial_delay is true wherever it is *)
(* read and is left out; active_anim_count is the cardinality of anim.       *)

\* What backlight_manager_notify_interaction makes of the screen; the caller's
\* wake is consumed if it was asleep.
Woken == [screen EXCEPT !.asleep = FALSE, !.lit = screen.asleep \/ @, !.armed = FALSE]

\* remote_handle_animation_complete without a pending session.
Complete(rr) ==
    /\ r' = [rr EXCEPT !.phase = "post_delay"]
    /\ view' = [t \in Target |-> Clamp(rr.current[t].temp)]
    /\ valid' = [t \in Target |-> rr.current[t].ok]
    /\ anim' = {} /\ moved' = {}

\* remote_start_animation: a target is applied at once if its laid-out track,
\* which trails the view by a frame and is rounded to a pixel, is already there.
StartAnimation(rr, vw, vd) ==
    LET started == [rr EXCEPT !.phase = "animating", !.sameSerial = TRUE]
    IN /\ screen' = Woken
       /\ \/ Complete(started)
          \/ \E moving \in SUBSET Target \ {{}} :
                /\ r' = started /\ anim' = moving
                /\ view' = [t \in Target |->
                               IF t \in moving THEN vw[t] ELSE Clamp(rr.current[t].temp)]
                /\ valid' = [t \in Target |-> IF t \in moving THEN vd[t] ELSE rr.current[t].ok]
                /\ moved' = moved \cap moving

\* remote_start_pending_session.
StartPending(rr, vw, vd) ==
    StartAnimation([rr EXCEPT !.current = rr.pending, !.pending = None], vw, vd)

\* remote_queue_session, by phase.
QueueFirst(rr, session) ==
    /\ rr.phase = "idle"
    /\ screen' = Woken
    /\ r' = [rr EXCEPT !.current = session, !.wakeConsumed = screen.asleep,
                       !.sameSerial = TRUE,
                       !.phase = IF Woken.lit THEN "pre_delay" ELSE "wait_lit"]
    /\ UNCHANGED shownVars
\* Fault: an update that arrives before the animation is left for later.
QueueIgnored(rr, session) ==
    /\ rr.phase \in {"wait_lit", "pre_delay"}
    /\ r' = rr /\ UNCHANGED <<shownVars, screen>>
QueueBeforeAnimation(rr, session) ==
    /\ rr.phase \in {"wait_lit", "pre_delay"}
    /\ r' = [rr EXCEPT !.current = session]
    /\ UNCHANGED <<shownVars, screen>>
QueuePending(rr, session) ==
    /\ rr.phase = "animating"
    /\ r' = [rr EXCEPT !.pending = session]
    /\ UNCHANGED <<shownVars, screen>>
\* Fault: an update that arrives during the hold waits for an animation to end.
QueuePendingInHold(rr, session) ==
    /\ rr.phase = "post_delay"
    /\ r' = [rr EXCEPT !.pending = session]
    /\ UNCHANGED <<shownVars, screen>>
QueueDuringHold(rr, session) ==
    /\ rr.phase = "post_delay"
    /\ StartPending([rr EXCEPT !.pending = session], view, valid)
QueueSession(rr, session) ==
    \/ QueueFirst(rr, session) \/ QueueBeforeAnimation(rr, session)
    \/ QueuePending(rr, session) \/ QueueDuringHold(rr, session)

\* thermostat_remote_setpoint_controller_submit: a value equal to the one last
\* requested only records that it is valid, whatever is shown.
Submit(t, v) ==
    LET rr == [r EXCEPT !.desired[t] = [temp |-> v, ok |-> TRUE]]
    IN \/ /\ r.desired[t].temp = v
          /\ r' = rr /\ UNCHANGED <<shownVars, screen>>
       \/ r.desired[t].temp # v /\ QueueSession(rr, rr.desired)

\* The controller's LVGL timers.
WaitLitPoll ==
    /\ r.phase = "wait_lit" /\ screen.lit
    /\ r' = [r EXCEPT !.phase = "pre_delay"]
    /\ UNCHANGED <<shownVars, ui, drag, screen, haVars, used>>
PreDelayDone ==
    /\ r.phase = "pre_delay"
    /\ StartAnimation(r, view, valid)
    /\ UNCHANGED <<ui, drag, haVars, used>>

\* remote_schedule_sleep_if_needed.
SleepsAfterBurst == r.wakeConsumed /\ r.sameSerial
PostDelayDone ==
    /\ r.phase = "post_delay"
    /\ screen' = [screen EXCEPT !.armed = SleepsAfterBurst \/ @]
    /\ r' = [r EXCEPT !.phase = "idle", !.current = None, !.pending = None,
                      !.wakeConsumed = FALSE, !.sameSerial = TRUE]
    /\ UNCHANGED <<shownVars, ui, drag, haVars, used>>

\* One pass over the running animations.
AnimationFrame ==
    /\ anim # {}
    /\ \E f \in [anim -> UiTemp] :
          view' = [t \in Target |-> IF t \in anim THEN f[t] ELSE view[t]]
    /\ valid' = [t \in Target |-> IF t \in anim THEN r.current[t].ok ELSE valid[t]]
    /\ UNCHANGED <<anim, moved, ui, r, drag, screen, haVars, used>>
\* The pass in which they end: they start together and take equally long.
\* Fault: the end does not look for a pending session.
AnimationsReadyHold ==
    /\ anim # {} /\ Complete(r)
    /\ UNCHANGED <<screen, ui, drag, haVars, used>>
AnimationsReady ==
    /\ anim # {}
    /\ \/ r.pending = None /\ Complete(r) /\ UNCHANGED screen
       \/ /\ r.pending # None
          /\ StartPending(r, [t \in Target |-> Clamp(r.current[t].temp)],
                          [t \in Target |-> r.current[t].ok])
    /\ UNCHANGED <<ui, drag, haVars, used>>

-----------------------------------------------------------------------------
(* The dataplane, and Home Assistant behind the broker. That the queue of the *)
(* dataplane may be full is the subject of MqttReassembly.                   *)

Apply(t, v) ==
    \/ /\ v = NaN
       /\ valid' = [valid EXCEPT ![t] = FALSE]
       /\ UNCHANGED <<view, anim, moved, r, screen>>
    \/ /\ v # NaN /\ ~ui
       /\ view' = [view EXCEPT ![t] = v] /\ valid' = [valid EXCEPT ![t] = TRUE]
       /\ UNCHANGED <<anim, moved, r, screen>>
    \/ v # NaN /\ ui /\ Submit(t, v)
Deliver ==
    /\ down # <<>> /\ down' = Tail(down)
    /\ LET t == Head(down)[1]
           v == Head(down)[2]
       IN Apply(t, v)
    /\ UNCHANGED <<ui, drag, ha, up, link, failed, used>>

\* The statestream publishes a setpoint when it changes.
Change(t, new) == IF link /\ new[t] # ha[t] THEN <<<<t, new[t]>>>> ELSE <<>>
Changes(new) == Change("heat", new) \o Change("cool", new)
HaSet ==
    /\ used.remote < MaxRemote
    /\ \E t \in Target, v \in Temp \cup {NaN} :
          /\ ha[t] # v
          /\ ha' = [ha EXCEPT ![t] = v] /\ down' = down \o Changes(ha')
    /\ used' = [used EXCEPT !.remote = @ + 1]
    /\ UNCHANGED <<shownVars, ui, r, drag, screen, up, link, failed>>
HaCommand ==
    /\ up # <<>> /\ up' = Tail(up)
    /\ ha' = Head(up) /\ down' = down \o Changes(ha')
    /\ failed' = (failed \/ ~link)
    /\ UNCHANGED <<shownVars, ui, r, drag, screen, link, used>>

\* The connection is lost with what is on its way; when it is back, the new
\* subscription brings both retained setpoints.
LinkDown ==
    /\ link /\ link' = FALSE
    /\ used.outages < MaxOutages /\ used' = [used EXCEPT !.outages = @ + 1]
    /\ down' \in {down, <<>>} /\ up' \in {up, <<>>}
    /\ failed' = (failed \/ up' # up \/ down' # down)
    /\ UNCHANGED <<shownVars, ui, r, drag, screen, ha>>
LinkUp ==
    /\ ~link /\ link' = TRUE
    /\ down' = down \o <<<<"heat", ha["heat"]>>, <<"cool", ha["cool"]>>>>
    /\ UNCHANGED <<shownVars, ui, r, drag, screen, ha, up, failed, used>>

-----------------------------------------------------------------------------
(* The user, and the screen.                                                 *)

\* thermostat_vm_init and the controller's init, then backlight_manager_on_ui_ready.
UiInit ==
    /\ ~ui /\ ui' = TRUE
    /\ view' = [t \in Target |-> Clamp(IF valid[t] THEN view[t]
                                       ELSE IF t = "cool" THEN CoolDefault ELSE HeatDefault)]
    /\ r' = [r EXCEPT !.desired = [t \in Target |-> [temp |-> view'[t], ok |-> valid[t]]]]
    /\ screen' = Woken
    /\ UNCHANGED <<valid, anim, moved, drag, haVars, used>>

\* The serial of interactions is read only in a burst, which begins by noting it.
Interaction ==
    /\ screen' = Woken
    /\ r' = [r EXCEPT !.sameSerial = (r.phase = "idle")]

\* A touch that only wakes the screen, or on something other than a slider.
TouchElsewhere ==
    /\ ui /\ drag = None /\ Interaction
    /\ UNCHANGED <<shownVars, ui, drag, haVars, used>>

DragTo(t, v) ==
    /\ view' = [view EXCEPT ![t] = Dragged(t, v)]
    /\ moved' = moved \cup {t}
    /\ UNCHANGED <<valid, anim>>

\* LV_EVENT_PRESSED on a slider: on its stripe it anchors the drag, elsewhere
\* the setpoint jumps to the finger.
Press ==
    /\ ui /\ ~screen.asleep /\ drag = None /\ used.touches < MaxTouches
    /\ Interaction
    /\ \E t \in Target : drag' = t /\ (UNCHANGED shownVars \/ \E v \in UiTemp : DragTo(t, v))
    /\ used' = [used EXCEPT !.touches = @ + 1]
    /\ UNCHANGED <<ui, haVars>>
Pressing ==
    /\ drag # None /\ Interaction
    /\ \E v \in UiTemp : DragTo(drag, v)
    /\ UNCHANGED <<ui, drag, haVars, used>>

\* mqtt_dataplane_publish_temperature_command, through thermostat_commit_setpoints;
\* the MQTT client may refuse the message.
Commit(shown) ==
    \/ /\ link /\ shown["cool"] >= shown["heat"] + Step
       /\ up' = Append(up, shown) /\ UNCHANGED failed
    \/ failed' = TRUE /\ UNCHANGED up
Release ==
    /\ drag # None /\ drag' = None /\ Interaction
    /\ \E v \in UiTemp : DragTo(drag, v)
    /\ Commit(view')
    /\ UNCHANGED <<ui, ha, down, link, used>>

\* The idle timer, which every pressing event restarts; presence makes it wait.
ScreenSleeps ==
    /\ ui /\ ~screen.asleep /\ drag = None
    /\ screen' = [screen EXCEPT !.asleep = TRUE, !.fading = screen.lit, !.armed = FALSE]
    /\ UNCHANGED <<shownVars, ui, r, drag, haVars, used>>
IdleTimerPutOff ==
    /\ screen.armed /\ screen' = [screen EXCEPT !.armed = FALSE]
    /\ UNCHANGED <<shownVars, ui, r, drag, haVars, used>>
PresenceWakes ==
    /\ screen.asleep /\ screen' = Woken
    /\ r' = [r EXCEPT !.sameSerial = (r.phase = "idle")]
    /\ UNCHANGED <<shownVars, ui, drag, haVars, used>>

\* The last step of the fade to black, on the timer task: a wake that came
\* between may have stopped it, or may be overtaken by it.
FadeEnds ==
    /\ screen.fading
    /\ \E dark \in {screen.asleep, TRUE} :
          screen' = [screen EXCEPT !.fading = FALSE, !.lit = ~dark]
    /\ UNCHANGED <<shownVars, ui, r, drag, haVars, used>>
DaypartRelights ==
    /\ ~screen.asleep /\ ~screen.lit
    /\ screen' = [screen EXCEPT !.lit = TRUE, !.fading = FALSE]
    /\ UNCHANGED <<shownVars, ui, r, drag, haVars, used>>

-----------------------------------------------------------------------------
Init ==
    /\ view = [t \in Target |-> 0] /\ valid = [t \in Target |-> FALSE]
    /\ ui = FALSE /\ anim = {} /\ drag = None
    /\ r = [phase |-> "idle", wakeConsumed |-> FALSE, sameSerial |-> TRUE,
            current |-> None, pending |-> None,
            desired |-> [t \in Target |-> [temp |-> 0, ok |-> FALSE]]]
    /\ screen = [asleep |-> FALSE, lit |-> TRUE, fading |-> FALSE, armed |-> FALSE]
    /\ ha \in FirstState /\ down = <<>> /\ up = <<>> /\ link = FALSE
    /\ used = [remote |-> 0, touches |-> 0, outages |-> 0]
    /\ moved = {} /\ failed = FALSE

Next ==
    \/ WaitLitPoll \/ PreDelayDone \/ PostDelayDone \/ AnimationFrame \/ AnimationsReady
    \/ Deliver \/ HaSet \/ HaCommand \/ LinkDown \/ LinkUp
    \/ UiInit \/ TouchElsewhere \/ Press \/ Pressing \/ Release
    \/ ScreenSleeps \/ IdleTimerPutOff \/ PresenceWakes \/ FadeEnds \/ DaypartRelights

Spec == Init /\ [][Next]_vars

\* The LVGL, dataplane and timer tasks run what is due; the broker and Home
\* Assistant answer, the connection comes back, a finger is lifted in the end,
\* and the clock passes the ends of the night. The 50 ms poll sees a light that
\* lasts for the seconds before the next sleep: strong fairness.
Fairness ==
    /\ WF_vars(PreDelayDone) /\ WF_vars(PostDelayDone) /\ WF_vars(AnimationsReady)
    /\ WF_vars(Deliver) /\ WF_vars(HaCommand) /\ WF_vars(LinkUp)
    /\ WF_vars(UiInit) /\ WF_vars(Release) /\ WF_vars(FadeEnds)
    /\ WF_vars(DaypartRelights) /\ SF_vars(WaitLitPoll)
FairSpec == Spec /\ Fairness

-----------------------------------------------------------------------------
\* The session that will be shown last is the latest one requested: updates that
\* arrive in any phase of a burst replace one another and none is forgotten.
LatestWins ==
    r.phase # "idle" =>
        \A t \in Target :
            (IF r.pending # None THEN r.pending ELSE r.current)[t].temp = r.desired[t].temp

\* Between two animations the display shows the requested setpoints, except the
\* ones the user dragged since: no burst ends on an intermediate value.
ShownUnlessTouched ==
    ui /\ r.phase \in {"idle", "post_delay"} =>
        \A t \in Target \ moved : view[t] = Clamp(r.desired[t].temp)

\* Home Assistant and the display agree in the end, whoever changed what and in
\* whatever phase, unless a message was lost or refused, or the screen went to
\* sleep while the controller waits for it to be lit.
Agree == \A t \in Target : ha[t] # NaN => view[t] = Clamp(ha[t])
ConvergesUnlessFailed ==
    <>[](failed \/ (r.phase = "wait_lit" /\ screen.asleep) \/ Agree)

=============================================================================
