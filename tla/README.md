# TLA+ models of the theoretical thermostat

The firmware under `main/` runs on an ESP32-P4: an LVGL touch UI, an MQTT link to
Home Assistant, an LED strip, a speaker, a camera and a few sensors. It is built
from FreeRTOS tasks, esp_timer callbacks, LVGL timers and event handlers that
share static structs, mostly without locks. These modules model the parts whose
correctness depends on the order in which those run. `components/` is vendored
and `main/assets` is generated; neither is modelled.

## Inventory

| Component | State | Operations | Talks to | What makes it correct |
|---|---|---|---|---|
| MQTT dataplane (`connectivity/mqtt_dataplane.c`) | `s_msg_queue`, `s_reassembly`, its payload buffer, drop counters, topic table | event handler (client task), dataplane task: subscribe, reassemble, dispatch | MQTT client and manager below; setpoints, LED status, presence above | a payload is whole or dropped and counted, until fragments are lost; a live session is subscribed to all the client accepts |
| MQTT manager (`connectivity/mqtt_manager.c`) | `s_connected`, pending availability message and its timer | connect, disconnect, acknowledge, error, retry | client, dataplane, publishers | a device that stays connected is shown online in the end, one that is gone is shown offline |
| Setpoints (`thermostat/remote_setpoint_controller.c`, `ui_setpoint_input.c`, `ui_setpoint_view.c`, `thermostat_ui.c`) | `s_remote`, setpoints and validity of `g_view_model`, the drag | submit, wait/delay/animate/hold timers, press, drag, release and publish | dataplane, backlight, Home Assistant | latest value wins; display and Home Assistant agree in the end |
| LED effect engine (`thermostat/thermostat_leds.c`) | `s_leds`: effect, target, gate | start and stop effects, 10 ms tick | time (quiet hours), strip driver | every effect started is rendered; sparkle drains |
| LED status (`thermostat/thermostat_led_status.c`) | flags, one timer, its stage | boot ceremony, HVAC, commands, greeting, sleep and wake, timer callback | engine, splash, dataplane, backlight, presence | whoever gives the strip up restores it; ceremonies and timed effects end |
| Personal presence (`thermostat/thermostat_personal_presence.c`) | `s_presence`, a FreeRTOS timer | face and person count payloads, two timers that end a greeting | dataplane, audio, LED status | a greeting in progress always ends |
| Backlight (`thermostat/backlight_manager.c`) | idle sleep, hold, presence, fade, interaction serial | interaction, idle timer, presence poll, hold, fade steps, day part | setpoints, touch, radar, OTA, LED status | awake means lit or lighting; a hold keeps it lit; it sleeps in the end |
| Splash (`thermostat/ui_splash.c`) | ring of pending lines, history, fades, flags | add a line, finalize, destroy, begin the white fade | boot, LED status, MQTT manager | one exit, with the UI behind it, freed when nobody uses it |
| UI entrance (`thermostat/ui_entrance_anim.c`) | widgets | a fixed sequence of animations | LVGL | layout only |
| Boot (`app_main.c`) | stages, `s_ui_...` callbacks, radar start context | start each service, wait for the initial state | all, splash, radar | a failing stage halts or is skipped, never half started |
| OTA (`connectivity/ota_server.c`, `thermostat/ui_ota_modal.c`) | session flag, callback queue, modal | upload, progress, finish | HTTP server, backlight hold, camera | one session at a time; the hold ends with it |
| Radar, environment sensors (`sensors/*.c`) | online flags, failure counters, caches, last published values | poll, publish, availability, republish on connect | MQTT manager, backlight, boot | the retained configuration, availability and state are right once nothing is under way |
| Camera (`streaming/camera_snapshot_publisher.c`) | capture task, running flags, availability | start, stop, capture, republish on connect | OTA, MQTT, boot | an update has the device to itself; the retained availability is right |
| Wi-Fi (`connectivity/wifi_remote_manager.c`) | event bits, retry budget | connect, retry, wait at boot | everything above | given up only after a whole budget of failures in a row |
| Time, hosted link (`connectivity/time_sync.c`, `esp_hosted_link.c`) | one flag each | synchronise, start | LEDs | whether the time is known is an input of `Leds` |
| Monitors (`connectivity/runtime_health.c`, `transport_monitor.c`, `thermostat/transport_overlay.c`) | previous samples | sample, report | overlay, MQTT | deltas without overflow or torn samples |
| Telemetry, discovery, identity, log mirror | started flags | format and publish | MQTT manager | no state worth a model |
| Audio, cues (`thermostat/audio_*.c`, `application_cues.c`) | quiet hours | play, blocking | presence, boot | seen from outside in `PersonalPresence` and `Leds` |
| UI helpers, IR LED | widgets | layout | LVGL | none beyond layout |

Behaviours that are hard to test: fragments lost to a full queue in the middle of
a message; a connection that comes up while the dataplane starts; an expired timer
whose callback has yet to run while another task reschedules it; one timer shared
by the boot ceremony, commands and greetings; a tick that cancels the effect another
task has just started; flags checked before a look is started; a lock released before the timer it
guards is stopped; payloads, touches, sleep and wake in every phase of a setpoint
animation; an acknowledgement that overtakes the store of its identifier; the last
will of a session from before a restart; a publication made from what was read
before a change; a camera stopped while it is created; a ring of lines that two
tasks pop and fill at once, in a context the exit frees. `PROJECT.json` lists each
at its line under "hazards", with the properties that would catch it.

## Modules

| Module | Models | Composes |
|---|---|---|
| `MqttReassembly` | client task, dataplane task and start-up around the bounded queue | |
| `MCMqttReassembly` | messages, topics and sizes for TLC, all with msg_id 0 | `MqttReassembly` |
| `PayloadChannel` | abstract: payloads in order, at most once, whole until a fragment is lost | |
| `MqttReassembly_proofs` | its inductive invariants; it implements `PayloadChannel` | `MqttReassembly`, TLAPS |
| `WifiLink` | the Wi-Fi event handler and the wait at boot, restarts | |
| `Availability` | the MQTT manager on the client and timer tasks, its outbox, the broker | `WifiLink` |
| `Availability_proofs` | its two inductive invariants and theorems | `Availability`, TLAPS |
| `SensorTopics` | what both sensors share: the connection, the topics, the CONNECTED handler | |
| `EnvSensors` | the sampling task and start of one environment entity | `SensorTopics` |
| `RadarPresence` | the radar's task, and its start with a timeout | `SensorTopics` |
| `Sensors` | either sensor in a behaviour, and the properties of both | `EnvSensors`, `RadarPresence` |
| `Sensors_proofs` | an inductive invariant for each sensor | `Sensors`, TLAPS |
| `Leds` | the effect engine, as the steps of the tasks that call it and of its ticks | |
| `LedStatus` | the status controller, its timer, boot, splash phases, sleep and wake | `Leds` |
| `PersonalPresence` | the greeting with both its timers | `LedStatus` |
| `LedStatus_proofs` | the strip's invariants, with and without greetings | `PersonalPresence`, TLAPS |
| `Setpoints` | remote controller, drags, publication, Home Assistant, the screen | |
| `MCSetpoints` | what Home Assistant holds at boot | `Setpoints` |
| `Setpoints_proofs` | its inductive invariant and theorems | `Setpoints`, TLAPS |
| `Backlight` | sleep, hold, presence and fades, as steps of the three tasks that are in it | |
| `Backlight_proofs` | the hold, the idle timer, what the screen shows | `Backlight`, TLAPS |
| `OtaSession` | an upload: HTTP task, callback queue and task, modal and its dismissal | |
| `OtaCamera` | start, stop and life of the camera beside uploads and reconnections | `OtaSession` |
| `OtaCamera_proofs` | the uploads' invariant and the camera's; it implements `OtaSession` | `OtaCamera`, TLAPS |
| `Splash` | the status lines and the exit, over four tasks | |
| `MCSplash` | the boot labels for TLC | `Splash` |
| `Splash_proofs` | its inductive invariant and theorems | `Splash`, TLAPS |

### MqttReassembly

`ReceiveData` is `mqtt_dataplane_event_handler` on one DATA event: oversized
payloads and topics are refused, the rest is copied to the queue or counted as
`queue_full`. `TaskStep` is one turn of `mqtt_dataplane_task`; `HandleFragment`
is the whole of `handle_fragment_message`, with preemption, out-of-order and
overlap drops. `HandleLinkEvent` is the second half of the dispatch of a link
event, after `mqtt_manager` has set `s_connected`: the two handlers run one after
the other while the main task is in `mqtt_dataplane_start` (`SetStarted`,
`InjectConnected`). A payload byte is represented by the message it came from,
so bytes of two messages in one payload, or bytes left in the static buffer by
an earlier one, are visible. A disconnect may cut a message anywhere. Histories
(`written`, `sent`, `lost`, `missed`, `offered`) exist for the properties only.

`handle_connected_event` subscribes to one topic after another; the client refuses
them when the link is down, and any of them when its outbox is full or memory short,
which is only logged and never tried again (`mqtt_dataplane.c:655`, `666`). So
`subscribed` is a set of topics, to which `HandleConnected` adds any subset, and
`refused` (a history) names the others of this session.

All subscriptions ask for QoS 0, so every DATA event carries msg_id 0 and the check of
`flow.msg_id` never tells two messages apart. That is how the module is checked; what
is proved of it holds for every use of identifiers, this one included.

`PayloadChannel` is what all of this is for, and says nothing of fragments: a message
ends (`Send`), and is handed over (`Deliver`) or not at all (`Skip`), in the order in
which the messages ended. Until a part of a message is lost (`Lose`) a payload is its
message, whole; after that it may be a `Splice`: bytes of messages, of the length of
the message that ended, handled as one of that length. `ImplementsChannel` maps its
queue to the ends of messages still in `s_msg_queue`.

### WifiLink, Availability

`StaDisconnected` and `GotIp` are the two events of the Wi-Fi handler, with the
budget of `MaxRetry` attempts; `WifiWaitEnds` is the main task's wait, which ends in
a restart when no address came. `Availability` puts the MQTT manager on top:
`Connected`, `Disconnected` and `Published` are its event handler, which runs on the
client task with the client's lock held; the retry callback runs on the esp_timer
task and is cut at every access to the manager's unlocked variables, so that an
acknowledgement may be handled between `esp_mqtt_client_publish` and the store of
the msg_id it returned (`RetryQueued`, `RetryStore`). The outbox, the identifiers in
it and the acknowledgements under way are esp-mqtt's, and external, as is the
broker: a broken connection leaves it a half open session until one and a half
keepalives are over, when it publishes the last will. Because the client id is
random on every boot, the session of before a restart is another one (`ghost`), whose
will may come after the new session said "online" (`lateWill`).

### SensorTopics, EnvSensors, RadarPresence, Sensors

Each sensor has a task that polls, a start on another task, and a handler of
MQTT_EVENT_CONNECTED that republishes everything; a publication with QoS 0 is lost
when the connection is broken. `LockFree` is the client's lock, held through the
handler. What a step reads and what it publishes are apart wherever the code does not
hold that lock. Merged: `s_online` and `meta.online`, which one function sets
together. One of the four environment entities is modelled, which share nothing but
a mutex that may be busy. The failure counter stops at the threshold. Exceptions:
* `lateAvail`, `lateState`: the main task republishes the environment entities after
  the sampling task was started, and may publish what it read before a change.
* `cache # reading`: the reading was taken while the mutex was busy.
* `missed`: a connection made before the radar had a frame leaves presence and
  distance as they are, and only changes are published afterwards.
* `stray`: the handler publishes a distance without remembering it, so that the task
  compares the next one with an older value.
`RadarPresence` also has the start of the radar on a helper task: main waits 10 s,
then frees the context the helper is still going to write to (`StartTimeout`,
`Report`, `waits = "late"`). That is a use after free whenever `ld2410_begin` is
slower, and no interleaving prevents it; there is nothing left to check about it.

### Leds, LedStatus, PersonalPresence

Four tasks call these files, and none takes a lock: `app_main`, the MQTT dataplane
task, the esp_timer task (ticks, LED timer, idle timer), and whichever other task puts
the screen to sleep or wakes it. As in `Backlight`, a call is the sequence of steps its
task still has to take (`todo`): `Begin` starts one, `Take` does its next step, which
may put further ones in front of the rest. The cuts, with their lines:
* `Requested` is guard and cancellation of a `thermostat_leds_...` function, `Launched`
  the start; anything may come in between. What a task does just before is one step
  with the guard: the launch overrides the effect of whoever comes in between.
* A tick that ends a fade or a drain writes the strip (`FadeDone`, `SparkleDrained`;
  `thermostat_leds.c:1194`, `488`) and then cancels whatever effect is current
  (`EndEffect`; 1202, 498); every tick then reads the effect (`TickTail`; 1254) and
  stops the timer if there is none (`StopTimer`; 1256). `thermostat_leds_stop_animation`
  reads the effect (`Stop`), then drains or cancels.
* `Apply` is the check of `thermostat_led_status.c:292`, `Choose` the reading of state
  and screen (298 to 320), `Launch` the start. The flags of one condition are read as one.
* `BootComplete` clears `booting` (121) and goes on with the stop, the look at the
  engine (`Await`; 129), and `boot_sequence_active` (132, or `Success`; 381).
* `Expire` takes the esp_timer off its list; `TimerCallback` reads the stage (326) and
  goes on as that stage does: `Exit` (344, which waits for the display lock)
  before the `Schedule` of 348; `ClearStage` (352, 358, 363) before `Apply`.
  `start_boot_success_sequence` is flag and white fade (`Success`), then the stage (400).
* `CompleteGreeting` calls out (`PresenceTold`) before it restores the strip.

What the strip aims at (`look`) and what it shows (`shown`) differ until a tick renders
it; brightness and pixels are abstracted away. `Refuses` is the quiet-hours gate: after
boot, while the clock is not synchronised, a request is refused and the old effect goes
on. The pulse effect, which nothing calls, is left out. Without locks this goes wrong in
the following ways, each a history or a look that the properties name; without any one
of these exceptions TLC finds a property that names it violated:
* A look is `"lost"`: the tick cancelled an effect another task had just started, or
  stopped its timer. `Frozen` is the latter: an effect that is never ticked.
* `overtaken`, `stale`: a task is about to start, or was the last to start, a look for
  flags that another task has changed since.
* `clobbered`: the ceremony scheduled its next stage over that of an effect; a command
  during the splash calls of 344 and 388 is enough, or one before `boot_complete`.
* `erased`: a callback cleared the stage another task had scheduled while it ran, so
  that the timer expires for nothing.
* `preempted`: a command or a greeting took the strip or the timer of the ceremony.
* `intruded`: an HVAC state between 121 and 132 or 381 started a wave, which never ends.

`PersonalPresence` refines `PresenceTold` into `LedComplete` and `LedCompleteStops`: the
spinlock is released between clearing the cue and stopping the timer. The greeting
itself is a series of steps of the dataplane task: audio (which blocks for longer than
the timers), the call into the LEDs, cut as above, and the timer. Without an LED timer
that call starts and stops the effect and fails (`LedsUntimed`, `LedsFailed`).

### Setpoints

`r` is `s_remote`; `Submit` and the four disjuncts of `QueueSession` are
`thermostat_remote_setpoint_controller_submit` and `remote_queue_session`, phase
by phase. All of the controller, the touch handlers and the dataplane's delivery
hold the LVGL lock, so each is one step. A frame of the animation shows any
temperature of the slider, since the eased path starts from a laid-out pixel and
the finger may have moved it; a target is applied at once, or not, for the same
reason. Home Assistant is external: it publishes a setpoint when it changes,
carries out commands in order, and its retained payloads come with every new
subscription. The screen's fade to black may end after the wake that should
have stopped it (`FadeEnds`), which is what makes `wait_lit` reachable.

### Backlight

`backlight_manager.c` has no lock. The esp_timer task runs its callbacks one at a
time, touches and remote setpoints come with the LVGL lock held, and the callback
task of the OTA server sets the hold. A call is the sequence of steps its task
still has to take (`todo`), cut wherever another task may see an intermediate
state: `enter_idle_state` reads its flags (`EnterIdle`), sets `idle_sleep_active`
(`FallAsleep`) and starts the fade (`BlackOut`); `set_hold` sets the flag, stops
the timer and shows the screen; the last step of a fade writes the level and then
stops the fade, which may be a new one by then (`LastFadeTick`, `StopFade`).
`night_mode` may have either value whenever it is read. Dropped: the serial of
interactions (part of `Setpoints`), `remote_sleep_armed`, which is never read, and
the LEDs (part of `LedStatus`). Three histories name the races the code has:
* `crossed`: a wake and a sleep overlap, so that the flag of one and the fade of
  the other win: awake but dark, or lit but asleep. It also covers a call of
  `start_backlight_fade` that returns because the screen is at the target just
  then, and does not stop the fade in progress.
* `lateStop`: `schedule_idle_timer` reads the hold and stops the timer after the
  hold has ended and armed it: the screen is awake without an idle timer.
* `heldLate`: a hold begins between the check in `enter_idle_state` and the sleep:
  asleep although held.
All other interleavings are right, which is what the run shows.

### OtaSession, OtaCamera

`Accept`, `Receive`, `Fail`, `NoPartition` and `Complete` are the paths of
`ota_post_handler`; rejected requests leave nothing behind. `Queued` and `Dropped`
are `ota_queue_callback_event`: a START or ERROR event waits 50 ms for room, so it
is dropped only while the callback task is busy for longer, which is in
`camera_snapshot_publisher_stop`, for up to 2 s (`callback = "camera"`). `Dismiss`
is the LVGL timer of a failed upload. It may fall into `ota_start_cb` of the next
one, after its hold and before its modal: the hold is released and the update goes
on unheld (`endedEarly`).

`OtaCamera` refines `callback = "camera"`: `StopNothing`, `StopRequest`, `StopSeen`
and `StopTimesOut` are `camera_snapshot_publisher_stop`, beside
`camera_snapshot_publisher_start` on the main task (`Claim`, `Register`, `Create`),
the camera's own task (`Opened`, `Leave`, `Exit`), and the reconnection handler
(`ReadOnline`, `Republish`). The HTTP server runs long before the camera is started,
so an upload may come anywhere in the boot. Its exceptions:
* `timedOut`: stop waits no longer than 2 s.
* `created`: the boot created the camera only after stop had looked.
* `~started`: stop came between claiming the camera and creating its task. Its early
  branch clears the flags, the task is created all the same, and as `s_started` stays
  FALSE no later upload stops it.
* `unsaid`: the last change of availability fell into an outage, or was made by that
  early branch, and was not published: a retained "online" stays.
* `late`: the handler of a reconnection published what it had read before a change.
Capturing a frame is left out, as it changes no state another task reads.

### Splash

`ui_splash.c` has no lock of its own: the main task and the MQTT client task queue
lines, the LVGL task starts the next line when an animation ends, and the timer
task of the LED ceremony begins the exit. Each function is cut where another task
may see or change the ring, the history or the flags; a decrement or increment of
`pending_count` reads and writes in two steps (`seen`), and the count wraps as a
size_t does (`Word`). LVGL's lock is held by the LVGL task during a callback,
which everybody else who takes that lock waits for (`LockFree`); that lock has no
timeout, so the retries after its failure are left out. Left out, too: colours,
the white fade itself, the opacity of the rows, the prepared flag, the error line
of a failed boot. The LED ceremony is a signal here (`BeginFade`), which comes
after `boot_complete`. What the model shows besides its properties:
* `late`: `s_status_ctx` of the MQTT manager is never cleared, so a broker status at
  or after the end of boot uses a splash that may be freed.
* `finalize_status` empties the ring while another task may be popping a line, and
  the final line may be the one that is lost, although
  `thermostat/ui_animation_timing.h:9` describes the hold as after the final line
  settles.
* Without a timer for the LEDs the ceremony is skipped and the splash is freed while
  its white fade still refers to it (`thermostat_led_status.c:389`); this path,
  which needs a failed allocation, is not modelled.

## Runs

All bounds are constants named `Max...` or the sizes below; deadlock checking is
off where the environment may simply stop (no payload, command or touch comes).

| Run | Question | Properties | Bounds |
|---|---|---|---|
| `reassembly` | is every payload handed over without stale bytes, in order, whole until a loss, every loss counted, every session subscribed, with the msg_id 0 of QoS 0? | `NoStaleBytes`, `SplicedOnlyAfterLoss`, `FragmentsAccounted`, `NothingSwallowed`, `SessionNotForgotten`, `EventuallySubscribed`, `ImplementsChannel` | 6 messages of 1 to 4 chunks on 2 topics, capacity 3, queue 2, 4 DATA events |
| `connection` | is the device shown online in the end, and offline when it is gone? | `GivesUpOnlyInARow`, `SettledMeansOnline`, `RetryWillCome`, `OnlineInTheEnd`, `GivenUpMeansOffline` | 1 retry, 1 restart, 3 identifiers, 1 other message |
| `sensors` | are configuration, availability and state of each entity right? | `AvailabilityShown`, `EntityConfigured`, `EnvStateShown`, `RadarStateShown`, `OnlineShown` | 1 broken connection, threshold 2, 2 readings, 3 frames |
| `leds` | does the strip go back to what it should show, and do HVAC looks respect its owner? | `SettledShowsState`, `RenderedUnlessGreeting`, `PriorityKept` | 3 calls (HVAC states, commands, greetings, sleeps, wakes), commands rainbow and sparkle |
| `leds_live` | does the ceremony end and take the splash away, and does a timed effect end? | `BootFinishes`, `TimedEffectEnds` | 2 calls, the same commands |
| `presence` | does every greeting end? | `CueEndsUnlessRaced` | 2 faces, 2 calls, command rainbow |
| `setpoints` | does the latest value win, does no burst end between two values, does the display agree with Home Assistant in the end? | `LatestWins`, `ShownUnlessTouched`, `ConvergesUnlessFailed` | 3 temperatures of which 2 on the slider, 1 change at Home Assistant, 1 drag, 1 lost connection |
| `backlight` | is the screen lit when awake, awake when held, and asleep in the end? | `ScreenFollowsIdle`, `HoldKeepsAwake`, `IdleTimerPending`, `SleepsUntouched` | brightness 2 by day and 1 at night; calls unbounded |
| `ota` | does the modal show the upload under way, held, without the camera, and is a failure released? | `UpdateShownAndHeld`, `CameraStopsForUpload`, `CameraShown`, `FailureReleasesUnlessDropped`, `StopIsFinal` | queue 2, 2 reads, 3 uploads, 1 lost connection |
| `splash` | does the splash leave once, with the UI behind it, and is it used by nobody afterwards? | `NoUseAfterFree`, `UiBehindSplash`, `StillAfterLineFade`, `SplashGoes` | ring of 1, 2 rows, counts modulo 4, 2 labels, 1 broker status |
| `ota_stuck` | violated: a failure is always released | `FailureReleases` | queue 2, 3 reads, 1 upload |
| `splash_overlap` | violated: updates wait for the active animation | `UpdatesNeverOverlap` | ring of 2, 2 rows, counts modulo 8, 2 labels, no broker status |

Why the bounds are enough. Reassembly: two messages of equal length and one
shorter, with a queue shorter than a message, allow every loss pattern within a
flow and preemption by an equal and by an unequal message; four events are two
messages, and when the last fragment of one is lost the next is spliced into it; two
topics are the fewest of which one is refused. The proofs lift these bounds for the
properties they cover.
LEDs: a race takes one or two calls besides the ceremony and the callbacks, which are
not counted; the third meets what they left, as a wake does after a sleep and an HVAC
state. Rainbow stands for the effects that run until they are cancelled, as the two
waves of commands do, and sparkle for the one that drains; every exception the
properties name occurs within these bounds. The proofs lift them for the safety
properties. Presence: the second face meets what the first left behind. Setpoints:
two deliveries at boot, one change and the answer to a drag make up to five
updates, more than a burst has phases; one temperature lies below the slider.
The step and the gap between the setpoints are below the resolution of that
instance, so a command is refused only when the setpoints cross.
Backlight: two levels of brightness are the fewest at which a fade to one can pass
the other, and each task has one call under way. Uploads: with START
and END an upload has more events than the queue is long, so that it fills; three
uploads, so that failures and their dismissals meet later ones, and a stop that timed
out meets the next; the proofs lift these bounds. Connection: three identifiers are
those of the two tasks' publications and of the other message, so that one is reused;
one restart is what a ghost session needs, and one retry tells a refilled budget from
an old one. Sensors: with two readings, and two frames that see somebody, a stale
publication differs from the right one; one broken connection is one more
CONNECTED handler than at boot. Splash: a ring of one is full with any line, so that every
overflow, wrap and lost update of the count occurs; a ring of two satisfies the same
invariants.

What the passing runs show is conditional where the code's guarantees are:
* `SplicedOnlyAfterLoss`, `ImplementsChannel`: with msg_id 0 two messages are mixed
  after a fragment was lost, and handled as one of their length.
* `SessionNotForgotten`, `EventuallySubscribed`: unless the announcement of the
  session found the queue full (`missed`), and but for the topics the client refused
  to subscribe to (`refused`).
* `SettledShowsState`, `PriorityKept`, `BootFinishes`, `TimedEffectEnds`: unless one of
  the races above occurred. After `clobbered` or `erased` `timed_effect_active`
  stays set and HVAC looks are suppressed until the next command. `SettledShowsState`
  further excepts a look refused for want of the time, and a strip that went dark
  with the screen while an HVAC wave was wanted.
* `CueEndsUnlessRaced`: unless the late stop hit the timer of a
  later greeting (`raced`).
* `RenderedUnlessGreeting`: a greeting effect has no branch in the tick handler and
  leaves the strip as it was, against the design of the greeting.
* `ScreenFollowsIdle`, `HoldKeepsAwake`, `IdleTimerPending`, `SleepsUntouched`:
  unless one of the three races above occurred (`crossed`, `heldLate`,
  `lateStop`); `SleepsUntouched` also assumes that people do not come and go for
  ever, and that touches and updates have ended.
* `SettledMeansOnline`, `OnlineInTheEnd`: unless the will of a session before the
  restart came after "online" (`lateWill`); nothing publishes it again until the next
  connection.
* `AvailabilityShown`, `EnvStateShown`, `RadarStateShown`, `OnlineShown`,
  `CameraStopsForUpload`, `CameraShown`: the exceptions of their sections above.
* `NoUseAfterFree`, `StillAfterLineFade`: unless a broker status was `late`.
  `SplashGoes` takes it that the LED ceremony ends; `BootFinishes` is about that, and
  excepts the boots named above.
* `UpdateShownAndHeld`, `FailureReleasesUnlessDropped`: unless the START or the
  ERROR event was dropped, or an earlier failure was dismissed in the
  `ota_start_cb` of the update (`endedEarly`).
* `ConvergesUnlessFailed`: unless a command was not published, a message was
  lost, or Home Assistant carried out a command while the device was offline:
  then the display may keep a value that was changed back meanwhile, because the
  controller compares a payload with its last request and not with the display.

Every property has a fault in its module, or in one it is built on (an operator
marked "Fault"), that TLC finds to violate it; no specification uses those
operators.

## Findings

Two code bugs, each with a run that finds it violated; `PROJECT.json` quotes the lines.
A failed upload whose ERROR event finds the callback queue full leaves the modal, and
the hold, for good. Two tasks may each start a splash line at once, although updates
are to wait for the active animation.

Other disagreements with the repository's documents met while modelling. Each is an
exception that a passing property names, and has no run of its own:
* A command during the boot ceremony takes the timer that dismisses the splash
  (`thermostat_led_status.c:154`; `docs/manual-test-plan.md:22`).
* Bias lighting is not restored before the first sleep and wake
  (`thermostat_led_status.c:312`; design of 2025-12-18-improve-power-experience, line 87).
* A setpoint equal to the last one requested is not shown as valid
  (`remote_setpoint_controller.c:107`; `docs/manual-test-plan.md:12`).
* A touch before an animation starts does not prevent the auto-sleep
  (`remote_setpoint_controller.c:415`; `docs/manual-test-plan.md:17`).
* After a restart the last will of the old session may leave a running device
  "offline" (`mqtt_manager.c:307`; `docs/manual-test-plan.md:96`, and line 29 of the
  proposal of 2026-01-20-report-device-availability).

The other exceptions listed above are weaknesses too: a foreign fragment of equal
length can enter a flow, as all msg_ids are 0; a refused subscription is not repeated;
a greeting is never rendered; the races of the LED layer, after which an HVAC wave may
block the ceremony for good or a look stay lost until the next call; a late
stop can end the cue timer of the next greeting, after which no greeting is played;
the three races of the backlight; stale publications of sensors and camera; a camera
that no upload stops; a broker status that uses a freed splash.

## Fairness and atomicity

Fairness is given to what the scheduler, the timers and the main task do
(`SetStarted`, `InjectConnected`, the dataplane task, timer expiry and callbacks,
the end of fades and of the sparkle drain), never to a payload, a command, a
face, a touch or the clock's synchronisation. In `LedStatus` every task goes on with
its call; the expiry of the timer and the end of a fade or drain are strongly fair, as
each needs the timer task to be free, which it is again and again. `BootFinishes`
assumes that the screen does not fall asleep again for ever (`ScreenStopsSleeping`),
just before every poll; the bound on calls gives the run that, the formula says it for
a specification without one. In `PersonalPresence` nothing is asked of the LED timer. In `Setpoints` the
broker answers, the connection comes back, a finger is lifted, the day part
changes, and the 50 ms poll for light is strongly fair: light lasts for seconds.

In `Backlight` the timer task runs on, the idle timer goes off, the radar is
polled and its cap on presence is reached, as esp_timer callbacks do; strong
fairness, because each needs the timer task to be free, which it is again and
again. In `OtaSession` the callback task and the LVGL timer run on; a client may
stall for ever. `OtaCamera` adds the camera's task.

In `Availability` the client task and the timer task run on, and the broker delivers
and notices dead sessions. `RetryQueued` is strongly fair: an outbox that refuses has
room again, and the callback tries again and again. In `Sensors` the tasks, the start
and the handler run on; a poll has some outcome, but never a fair one. In `Splash`
every task is scheduled, LVGL's animations end, and the LED ceremony signals. Losing
or gaining a link, Wi-Fi, a broker status or an upload is fair nowhere.

One step stands for: a function under the LVGL lock; what a task does in the LED layer
or the backlight up to the next access that another task could come before to any
effect; a queue operation; one turn of a task between two blocking calls. The
backlight is taken as atomic in `Setpoints`, except for the end of a fade; its own
module has its steps.

## Proofs

Every safety invariant and every action property of the passing runs is a theorem of
its specification. What the constants are assumed to be is in the named assumptions of
each module, which TLC evaluates; hypotheses beyond those are said here.

`MqttReassembly_proofs` holds for every set of messages, sizes, identifiers,
capacity, chunk size, queue depth and number of events. `TypeOK` alone is not
inductive: that no payload has a
stale byte needs to know how far the active flow has written (`FlowOK`), that
queued fragments passed the length checks (`QueueOK`) and that the stream stays
inside its message (`StreamOK`). `IInv` is the conjunction; `InitOK`, one lemma
per action and `StepOK` give `Invariance`, and from it `TypeCorrect`,
`NoStaleBytesHolds` and `QueuedFragmentsFitHolds`. More invariants stand on it:
* `LInv`, that as long as nothing was lost every byte of the flow is of its first
  message (`PrefixOK`), which no check of identifiers could say. Until a loss the
  fragments from the one the dataplane task takes next to the one the client receives
  next form a path: each follows the one before it in the same message, or begins a
  message after the end of one (`Place`, `Leads`, `Path`). The active flow is the
  first place, the stream the last. `SplicedOnlyAfterLossHolds` and
  `NothingSwallowedHolds` follow for every use of identifiers, also when all are 0, as
  at QoS 0. TLC checks both properties at that use.
* `SInv`, that `s_connected` and an event not yet dispatched agree with the link, for
  `SessionNotForgottenHolds`: the start-up injection and the handler cannot both miss
  a session.
* `CInv`, that each DATA event waits, was accepted or was counted under one reason,
  for `FragmentsAccountedHolds`; it rests on lemmas on the number of elements of a
  queue that satisfy a predicate, before and after an append and a tail.

`ImplementsChannelHolds` shows that every step is one of `PayloadChannel` or a
stutter, whatever identifiers messages share, if none is called `Nothing`. It adds to
`LInv` that the bytes a flow has written are bytes of messages (`RInv`), which is what
is left of a payload after a loss.

`Availability_proofs`: `WifiInv` ties `s_retry_count` to the failures in a row, and
with it `GivesUpOnlyInARowHolds`; `AckInv` adds to the types that an identifier under
way belongs to one message, and that an acknowledgement of "online" means that the
broker has it, and gives `SettledMeansOnlineHolds` for every set of identifiers.
`RetryWillCome`, the safety half of `OnlineInTheEnd`, is inductive as it stands.

`Sensors_proofs`, for every set of readings, any number of broken connections and
every threshold: what Home Assistant shows is right whenever nobody is about to
correct it, so the inductive invariant has to say who is. Of every moment of a
connection that holds, `EnvConfigOK`, `EnvAvailabilityOK` and `EnvStateOK` (and their
like for the radar, with `DistanceOK` and `PresenceOK`) say that the retained payload
is right or that the task, the CONNECTED handler or the start has yet to publish it.
`CopyOfCache` and `CopyOfFrame` say when the handler's copy may be old: only while the
task of the sensor still has the newer reading to publish. With the types and
`OnlineOK` they make `EnvInv` and `RadarInv`, and give `AvailabilityShownHolds`,
`EntityConfiguredHolds`, `EnvStateShownHolds` and `RadarStateShownHolds`.

`LedStatus_proofs`, for every set of commands and every number of calls and faces. That
a settled strip shows its state needs to say who restores it while it does not, however
many calls are half done: `CaredFor` says that the strip has an owner, shows what it
should, or is owed its look by a call under way or by the timer's stage. A call owes it
if its last step is one that restores (`Restores`), so the invariant is about the ends of
sequences: whatever a task does, its call still ends so (`Ending`), only its next step
uses flags that were read before (`Single`), and these are as they were, or the task was
overtaken (`Fresh`). `EngineOK` is what the engine shows of the look it runs. The
lemmas on sequences (`Goes`, `EndsOK`, `Appended`) and on a task that begins, goes on
with or ends a call (`BeginOK`, `GoesOnOK`, `LastOK`) carry the steps, of which each then
needs a few lines. `SettledShowsStateHolds`, `PriorityKeptHolds` and `RenderedHolds`
follow. `PresenceImplementsLeds` shows that `PersonalPresence` takes only steps of
`LedStatus` or none, so that `LedsSafeWithPresence` carries all of it over to greetings;
`CueHasTimerHolds` is the safety half of the end of a greeting.

`Setpoints_proofs`: `IInv` is the shape of `s_remote`, that sliders move and
updates are pending in the animating phase only (`PhaseOK`), and the two
properties, which are inductive with that; for every set of temperatures and every
slider, if `None` is no session. `AgreeInv` is about the display and Home Assistant:
`TrackOK` says of each setpoint of Home Assistant that the controller has it or that the
last payload on its way for that target is it, and `TouchedOK` that a setpoint the user
moved, and for which no burst is under way, is the one the controller was last asked for
or that a message is on its way that will make it so. `SettledAgreesHolds` follows: with
nothing on its way, no finger and no burst, both agree unless a message was lost or
refused. It takes `None` to be no session and no target.

`Backlight_proofs`, at every brightness by day and by night. `HoldInv` is the type
invariant with `OtaCalls`, what the callback task of the OTA server still has to do
when the hold is set or not, and `HeldAwake`, that a held screen is awake, with no
task about to put it to sleep, or the OTA server's task has yet to show it; it gives
`BacklightTypeCorrect` and `HoldKeepsAwakeHolds`. The others need the shape of every
task's remaining call (`ShapesOK`): a call is a short sequence of steps, and only so
many exist. `TimerOK` says that an awake screen without a hold has its timer armed or
a task with a call that arms it, and `TimerInv` gives `IdleTimerPendingHolds`;
`ScreenOK` says that the panel is as the flag `idle` has it or a task owes the fade,
and `ScreenInv` gives `ScreenFollowsIdleHolds`. The exceptions are those the
properties name: a sleep that crossed a wake (`crossed`), a timer stopped too late
(`lateStop`).

`OtaCamera_proofs` is about uploads first, for every queue length, number of reads and
number of uploads. `UpdateShownAndHeld` says what the modal shows once all events are
handled; to be inductive it needs to say where START is before that. `StartAhead`:
START of the upload under way is the last event in the queue that is not progress,
or has been dispatched and only progress has followed. `HeldWhileStarting` adds
that `ota_start_cb` holds before it shows. With the types and `DismissedIsFailure`
they make the invariant of `OtaInvariance`. `ImplementsSession` shows that the
composition with the camera implements `OtaSession`, so that
`UpdateShownWithCamera` follows. For `FailureWillReleaseHolds`, `ReleaseAhead` says where
the ERROR event of a failure is: last in the queue until it is handled, and then its
dismissal is to come or nothing is left to release. `CamInv` relates the flags, the task and the place of
stop, and gives `CameraStopsForUploadHolds` and `CameraShownHolds`.

`Splash_proofs`: `TypeInv`, `PlaceInv` (which task can be where once which flag is
set), `LeaveInv` (one task frees, once) and `StillInv` (without a late status
nothing runs, and neither the LVGL nor the MQTT task is inside, once the lines
fade), for every ring, history and set of labels. `GoInv` says that somebody is always
on the way out: the LED timer's task from its signal to the flag that takes the exit,
and the task that took it until the context is freed; `ExitNotLostHolds` follows.

Only model-checked: the properties that speak of fairness, which is out of the
prover's reach: `EventuallySubscribed`, `OnlineInTheEnd`, `GivenUpMeansOffline`,
`OnlineShown`, `BootFinishes`, `TimedEffectEnds`,
`CueEndsUnlessRaced`, `ConvergesUnlessFailed`, `SleepsUntouched`,
`FailureReleasesUnlessDropped`, `StopIsFinal`, `SplashGoes`. Of most the safety half is
proved, that whoever has to act is there, or that what is settled is right:
`SessionNotForgotten`, `RetryWillCome`, `CueHasTimer`, `IdleTimerPending`,
`SettledAgrees`, `FailureWillRelease`, `ExitNotLost`.

## Not modelled, and the plan

Most of the repository's lines are generated fonts, images and sounds in
`main/assets`, and vendored code in `components/`; they hold no logic of the device.
Of the firmware itself these parts are not modelled:
* `runtime_health.c` and `transport_monitor.c` with the overlay: samples and their
  thresholds, on one task each, on which no decision depends. The stale handle of the
  camera's task that `runtime_health.c:369` keeps is listed as a hazard.
* `device_telemetry.c`, `ha_discovery.c`, identity and IP publishers, log mirror:
  formatting and publication, without state beyond a started flag.
* `time_sync.c` and `esp_hosted_link.c`: library calls with one flag each.
* `ui_entrance_anim.c`, top bar, theme, helpers, IR LED: widgets and layout.
* In the dataplane: the initial-state wait, the digest, and the weather, room and HVAC
  labels, each a store of a parsed value that is drawn.
* In the sensors and the camera: calibration and `radar_presence_stop`, which nothing
  calls, and the capture and encoding of a frame.

Possible next steps: the safety halves of `OnlineShown` and `StopIsFinal`; an abstract
screen (`asleep`, `lit`) that `Backlight` implements and that `Setpoints` and
`LedStatus` take as given.

Left out for good: pixels, colours, layout and fonts; JSON and number formatting;
I2S and camera drivers; failures of allocation and of the strip driver, which are
permanent; HTTP parsing in the vendored server.
