------------------------------- MODULE Splash -------------------------------
(***************************************************************************)
(* main/thermostat/ui_splash.c: the boot screen's status lines and its     *)
(* exit.  The main task and the MQTT client task (through the callback     *)
(* mqtt_manager_start stores) put lines into one ring; the LVGL task takes *)
(* the next one when an animation ends; a task that finds nothing          *)
(* animating starts one itself.  The ring, the history and the flags have  *)
(* no lock: the LVGL lock covers the widgets and their animations only.    *)
(* At the end of boot app_main shuts the statuses, loads the UI behind the *)
(* splash and starts the LED ceremony, whose timer gives the exit signal.  *)
(*                                                                         *)
(* A step is what a task does between two places where another task can    *)
(* come in.  The LVGL task holds its lock for the whole of a callback, so  *)
(* the lock is free for the others exactly when that task is idle.  Waits  *)
(* for the lock have no timeout: the retries after a failed one are left   *)
(* out, as are colours, the white fade and the rows' opacity.              *)
(***************************************************************************)
EXTENDS Naturals, Sequences

CONSTANTS
    Capacity,   \* SPLASH_PENDING_CAPACITY: the slots of the ring
    Rows,       \* SPLASH_HISTORY_COUNT: the lines on the screen
    Word,       \* the number of values of a size_t
    Labels,     \* the boot labels app_main shows, in this order
    MaxReports, \* bound on the broker's statuses in a behaviour
    HoldIsLong  \* whether app_main's final hold outlasts the animations

ASSUME SplashConstants ==
    /\ {Capacity, Rows} \subseteq Nat \ {0} /\ {Word, MaxReports} \subseteq Nat
    /\ Word > Capacity + 1 /\ HoldIsLong \in BOOLEAN

VARIABLES
    slot, head, tail, count, \* the ring: pending, pending_head, _tail, _count
    last,      \* last_status_text
    history,   \* the lines on the screen, the newest first
    animating, \* the flag that says an animation runs
    running,   \* LVGL's animations of the newest row: "slide", "fade"
    flags,     \* which of status_locked, status_updates_blocked,
               \* destroy_requested, line_fade_started, exit_signal_received
               \* and screen_fading are set; none is ever cleared
    pc, arg,   \* each task's place in ui_splash.c, and the line it carries
    seen,      \* the value of pending_count a task has read
    said,      \* boot labels shown so far
    ui,        \* the times destroy_cb has loaded the UI
    freed,     \* the times the context has been freed
    reports,   \* history: broker statuses so far
    late       \* history: one of them was under way at the end of boot or later

ring == <<slot, head, tail, count, seen>>
lines == <<last, history, said>>
ends == <<ui, freed, reports, late>>
vars == <<ring, lines, animating, running, flags, pc, arg, ends>>

Tasks == {"main", "mqtt", "lvgl", "led"}
Final == "Starting"  \* the line finalize_status sets
Report == "broker"   \* "Broker connected", "Broker disconnected", ...
NoLine == "none"

At(t, place) == pc[t] = place
Goto(t, place) == pc' = [pc EXCEPT ![t] = place]
Put(t) == arg' = [arg EXCEPT ![t] = NoLine] /\ seen' = [seen EXCEPT ![t] = 0]
Has(flag) == flag \in flags
LockFree(t) == t = "lvgl" \/ At("lvgl", "idle")
After(i) == (i + 1) % Capacity
Newer(line) == SubSeq(<<line>> \o history, 1, Rows)

\* thermostat_splash_create
Init ==
    /\ slot = [i \in 0..Capacity - 1 |-> NoLine]
    /\ head = 0 /\ tail = 0 /\ count = 0
    /\ last = NoLine /\ history = <<"running">> /\ said = 0
    /\ animating = FALSE /\ running = {} /\ flags = {}
    /\ pc = [t \in Tasks |-> "idle"] /\ arg = [t \in Tasks |-> NoLine]
    /\ seen = [t \in Tasks |-> 0]
    /\ ui = 0 /\ freed = 0 /\ reports = 0 /\ late = FALSE

-----------------------------------------------------------------------------
(* A line comes in: set_status and finalize_status, then enqueue.            *)

\* set_status up to the enqueue: no line once locked or blocked, nor the same twice.
Accepted(line) == ~Has("locked") /\ ~Has("blocked") /\ line # last
SetStatus(t, line) ==
    /\ At(t, "idle")
    /\ IF Accepted(line)
       THEN Goto(t, "enqueue") /\ arg' = [arg EXCEPT ![t] = line]
       ELSE UNCHANGED <<pc, arg>>
    /\ UNCHANGED <<ring, last, history, animating, running, flags, ui, freed>>

\* boot_stage_start: the main task's next label.
ShowLabel ==
    /\ said < Len(Labels)
    /\ said' = said + 1 /\ SetStatus("main", Labels[said + 1])
    /\ UNCHANGED <<reports, late>>

\* mqtt_manager_status_update, which outlives the splash it was given.
BrokerReport ==
    /\ reports < MaxReports /\ reports' = reports + 1
    /\ late' = (late \/ Has("destroy"))
    /\ SetStatus("mqtt", Report) /\ UNCHANGED said

\* finalize_status: only the final line from here on, whatever is still waiting.
Finalize ==
    /\ At("main", "idle") /\ said = Len(Labels) /\ ~Has("blocked")
    /\ flags' = flags \cup {"blocked"}
    /\ head' = 0 /\ tail' = 0 /\ count' = 0
    /\ arg' = [arg EXCEPT !["main"] = Final] /\ Goto("main", "enqueue")
    /\ UNCHANGED <<slot, seen, lines, animating, running, ends>>

\* splash_enqueue: a full ring loses its oldest line; the new one goes to the tail.
Enqueue(t) ==
    /\ At(t, "enqueue")
    /\ IF Has("destroy") THEN Goto(t, "idle") /\ UNCHANGED ring
       ELSE LET full == count = Capacity
                n == IF full THEN count - 1 ELSE count IN
            /\ slot' = [slot EXCEPT ![tail] = arg[t]]
            /\ head' = IF full THEN After(head) ELSE head
            /\ count' = n /\ seen' = [seen EXCEPT ![t] = n]
            /\ Goto(t, "counted") /\ UNCHANGED tail
    /\ UNCHANGED <<lines, animating, running, flags, arg, ends>>

\* pending_tail and pending_count++: another task may have changed the count
\* between the read and the write, and its change may be lost.
Counted(t) ==
    /\ At(t, "counted")
    /\ tail' = After(tail)
    /\ \E c \in {seen[t], count} : count' = (c + 1) % Word
    /\ last' = IF arg[t] = Final THEN last ELSE arg[t]
    /\ Put(t) /\ Goto(t, "start")
    /\ UNCHANGED <<slot, head, history, said, animating, running, flags, ends>>

-----------------------------------------------------------------------------
(* start_animation_if_idle, by a task that set a line or by the LVGL task.   *)

StartIfIdle(t) ==
    /\ At(t, "start")
    /\ Goto(t, IF animating \/ Has("locked") THEN "idle"
               ELSE IF Has("destroy") THEN "exit" ELSE "pop")
    /\ UNCHANGED <<ring, lines, animating, running, flags, arg, ends>>

\* pop_pending: the line is copied before it is taken out of the ring.
Pop(t) ==
    /\ At(t, "pop")
    /\ IF count = 0 THEN Goto(t, "idle") /\ UNCHANGED <<arg, seen>>
       ELSE /\ arg' = [arg EXCEPT ![t] = slot[head]]
            /\ seen' = [seen EXCEPT ![t] = count] /\ Goto(t, "popped")
    /\ UNCHANGED <<slot, head, tail, count, lines, animating, running, flags, ends>>

Popped(t) ==
    /\ At(t, "popped")
    /\ head' = After(head)
    /\ \E c \in {seen[t], count} : count' = (c + Word - 1) % Word
    /\ seen' = [seen EXCEPT ![t] = 0] /\ Goto(t, "rotate")
    /\ UNCHANGED <<slot, tail, lines, animating, running, flags, arg, ends>>

\* rotate_history: the other lines move down and the oldest falls off.
Rotate(t) ==
    /\ At(t, "rotate")
    /\ history' = Newer(arg[t]) /\ animating' = TRUE
    /\ Put(t) /\ Goto(t, "launch")
    /\ UNCHANGED <<slot, head, tail, count, last, said, running, flags, ends>>

\* launch_animations: LVGL replaces an animation of the same row and property, so
\* a line that is still fading in is never reported done.
Launch(t) ==
    /\ At(t, "launch") /\ LockFree(t)
    /\ running' = {"slide"} /\ Goto(t, "idle")
    /\ UNCHANGED <<ring, lines, animating, flags, arg, ends>>

-----------------------------------------------------------------------------
(* The LVGL task.                                                            *)

\* translate_ready: the rows take the history and the newest starts to fade in.
SlideDone ==
    /\ At("lvgl", "idle") /\ "slide" \in running /\ running' = {"fade"}
    /\ UNCHANGED <<ring, lines, animating, flags, pc, arg, ends>>

\* fade_in_ready: exit when asked to, else the next line.
FadeDone ==
    /\ At("lvgl", "idle") /\ "fade" \in running /\ running' = {}
    /\ animating' = FALSE /\ Goto("lvgl", "faded")
    /\ UNCHANGED <<ring, lines, flags, arg, ends>>
Faded ==
    /\ At("lvgl", "faded") /\ Goto("lvgl", IF Has("destroy") THEN "exit" ELSE "start")
    /\ UNCHANGED <<ring, lines, animating, running, flags, arg, ends>>

-----------------------------------------------------------------------------
(* The exit.                                                                 *)

\* destroy: from now on nothing is queued.  With HoldIsLong the delay before it
\* lets every animation come to its end.
Destroy ==
    /\ At("main", "idle") /\ Has("blocked") /\ ~Has("destroy")
    /\ HoldIsLong => running = {} /\ At("lvgl", "idle")
    /\ flags' = flags \cup {"destroy"} /\ Goto("main", "lock")
    /\ late' = (late \/ ~At("mqtt", "idle"))
    /\ UNCHANGED <<ring, lines, animating, running, arg, ui, freed, reports>>

\* lock_status_updates
LockStatus ==
    /\ At("main", "lock") /\ Goto("main", "line fade")
    /\ flags' = flags \cup {"locked", "blocked"}
    /\ head' = 0 /\ tail' = 0 /\ count' = 0
    /\ UNCHANGED <<slot, seen, lines, animating, running, arg, ends>>

\* begin_line_fade with cancel_row_anims: once no callback runs, the animations go.
\* Fault: it does not wait for the callback.
CancelRowAnims ==
    /\ At("main", "line fade") /\ Goto("main", "prepare")
    /\ flags' = flags \cup {"lineFade"} /\ animating' = FALSE
    /\ UNCHANGED <<ring, lines, arg, ends>>
LineFadeAtOnce == CancelRowAnims /\ running' = {}
\* Fault: the animations are left to run on.
LineFadeOnly == CancelRowAnims /\ LockFree("main") /\ UNCHANGED running
LineFade == CancelRowAnims /\ LockFree("main") /\ running' = {}

\* prepare_exit, with splash_post_fade_boot_continuation: the UI is built and
\* loaded, then the splash is put back in front of it.
PrepareExit ==
    /\ At("main", "prepare") /\ LockFree("main")
    /\ ui' = ui + 1 /\ Goto("main", IF animating THEN "boot complete" ELSE "exit")
    /\ UNCHANGED <<ring, lines, animating, running, flags, arg, freed, reports, late>>

\* thermostat_led_status_boot_complete: the LED ceremony may end from now on.
BootComplete ==
    /\ At("main", "boot complete") /\ Goto("main", "done")
    /\ UNCHANGED <<ring, lines, animating, running, flags, arg, ends>>

\* begin_fade, when the LEDs have held their white.
Signal ==
    /\ At("led", "idle") /\ At("main", "done") /\ ~Has("signal")
    /\ flags' = flags \cup {"signal"}
    /\ UNCHANGED <<ring, lines, animating, running, arg, ends>>
\* Fault: the exit is left to the next animation's end.
BeginFadeLater == Signal /\ UNCHANGED pc
BeginFade == Signal /\ Goto("led", "exit")

\* begin_exit_if_ready: both the destroy call and the signal are needed.
\* Fault: either is enough.
ReadyEither == ~Has("fading") /\ (Has("destroy") \/ Has("signal"))
Ready == ~Has("fading") /\ Has("destroy") /\ Has("signal")
Return(t) == IF t = "main" THEN "boot complete" ELSE "idle"
ExitIfReady(t) ==
    /\ At(t, "exit") /\ Goto(t, IF Ready THEN "leave" ELSE Return(t))
    /\ UNCHANGED <<ring, lines, animating, running, flags, arg, ends>>

\* start_exit_sequence: one task leaves, deletes the screen and frees the context.
Leave(t) ==
    /\ At(t, "leave")
    /\ IF Has("fading") THEN Goto(t, Return(t)) /\ UNCHANGED flags
       ELSE Goto(t, "free") /\ flags' = flags \cup {"fading"}
    /\ UNCHANGED <<ring, lines, animating, running, arg, ends>>
Free(t) ==
    /\ At(t, "free") /\ LockFree(t)
    /\ freed' = freed + 1 /\ Goto(t, Return(t))
    /\ UNCHANGED <<ring, lines, animating, running, flags, arg, ui, reports, late>>

-----------------------------------------------------------------------------
Step(t) ==
    \/ Enqueue(t) \/ Counted(t)
    \/ StartIfIdle(t) \/ Pop(t) \/ Popped(t) \/ Rotate(t) \/ Launch(t)
    \/ ExitIfReady(t) \/ Leave(t) \/ Free(t)
Main == ShowLabel \/ Finalize \/ Destroy \/ LockStatus \/ LineFade \/ PrepareExit \/ BootComplete
Lvgl == SlideDone \/ FadeDone \/ Faded

Next == (\E t \in Tasks : Step(t)) \/ Main \/ BrokerReport \/ Lvgl \/ BeginFade
Spec == Init /\ [][Next]_vars

\* Every task is scheduled, LVGL's animations end, and so does the LED ceremony.
FairSpec == Spec /\ (\A t \in Tasks : WF_vars(Step(t)))
                 /\ WF_vars(Main) /\ WF_vars(Lvgl) /\ WF_vars(BeginFade)

-----------------------------------------------------------------------------

(***************************************************************************)
(* Nobody uses the context after it is freed: not the task that freed it,  *)
(* not an LVGL callback of an animation that still runs, and no second     *)
(* exit, unless a broker status came at or after the end of boot.          *)
(***************************************************************************)
NoUseAfterFree ==
    freed > 0 /\ ~late =>
        /\ freed = 1 /\ running = {}
        /\ \A t \in Tasks : pc[t] \in {"idle", "done"}

(***************************************************************************)
(* The splash goes only when the UI has been loaded behind it, once, and   *)
(* the LED ceremony has given its signal, whatever the broker reports.     *)
(***************************************************************************)
UiBehindSplash == Has("fading") => ui = 1 /\ Has("signal") /\ Has("destroy")

(***************************************************************************)
(* Once the lines fade out nobody puts a new line on the screen or starts  *)
(* an animation, though tasks were inside start_animation_if_idle when the *)
(* fade began; a broker status under way then can.                         *)
(***************************************************************************)
StillAfterLineFade ==
    [][Has("lineFade") /\ ~late' => UNCHANGED <<history, running>>]_vars

(***************************************************************************)
(* The main task always gets past the splash and the splash always goes:   *)
(* no exit is lost because an animation, a broker status or the destroy    *)
(* call was under way when the signal came.                                *)
(***************************************************************************)
SplashGoes == <>(Has("fading") /\ freed > 0 /\ At("main", "done"))

(***************************************************************************)
(* proposal.md of animate-splash-screen: "New updates must wait for the    *)
(* active animation to finish before starting the next."                   *)
(***************************************************************************)
Launching(t) == At(t, "launch") /\ ~At(t, "launch")'
UpdatesNeverOverlap == [][(\E t \in Tasks : Launching(t)) => running = {}]_vars
=============================================================================
