--------------------------- MODULE Backlight_proofs ---------------------------
(***************************************************************************)
(* Proofs about Backlight for every brightness by day and by night: types, *)
(* that a hold keeps the screen awake unless it began just when another    *)
(* task was falling asleep, that an awake screen without a hold has its    *)
(* idle timer running, and that the screen shows whether it is awake       *)
(* unless a wake and a sleep crossed. HoldInv says why a hold works: while *)
(* one is in force no task has a "sleep" left to take, and a screen still  *)
(* asleep is about to be shown by set_hold. TimerInv and ScreenInv go on   *)
(* from the calls there are (Shapes) to what each still owes: the timer    *)
(* armed, or the fade that the flag calls for.                             *)
(***************************************************************************)
EXTENDS Backlight, TLAPS

\* The calls of the OTA server's task, and what is left of them; no other task
\* calls set_hold(true).
OtaCalls ==
    /\ todo["ota"] \in {<<>>, <<"hold">>, <<"stopIdle", "show">>, <<"show">>,
                        <<"wakeUp">>, <<"relight">>}
    /\ \A t \in {"timer", "lvgl"} : ToSet(todo[t]) \cap {"hold", "show"} = {}

HeldAwake ==
    hold /\ ~heldLate =>
        /\ idle => todo["ota"] \in {<<"stopIdle", "show">>, <<"show">>}
        /\ \A t \in Task : "sleep" \notin ToSet(todo[t])

HoldInv == BacklightTypeOK /\ OtaCalls /\ HeldAwake

-----------------------------------------------------------------------------
(* The steps of a call.                                                      *)

\* The members of a short sequence, and of two sequences in a row.
LEMMA Members ==
    /\ ToSet(<<>>) = {}
    /\ \A a : ToSet(<<a>>) = {a}
    /\ \A a, b : ToSet(<<a, b>>) = {a, b}
BY DEF ToSet

LEMMA MembersOfBoth ==
    ASSUME NEW s \in Seq(Steps), NEW r \in Seq(Steps)
    PROVE  ToSet(s \o r) \subseteq ToSet(s) \cup ToSet(r)
BY DEF ToSet

\* Taking a step leaves the rest of the call, after what the step adds to it,
\* and the calls of the other tasks.
LEMMA TakeOK ==
    ASSUME todo \in [Task -> Seq(Steps)], NEW t \in Task, NEW step, NEW more \in Seq(Steps),
           Take(t, step, more)
    PROVE  /\ todo' \in [Task -> Seq(Steps)]
           /\ todo'[t] = more \o Tail(todo[t])
           /\ \A u \in Task : u # t => todo'[u] = todo[u]
           /\ step \in ToSet(todo[t])
           /\ ToSet(todo'[t]) \subseteq ToSet(more) \cup ToSet(todo[t])
<1>1. /\ todo[t] \in Seq(Steps) /\ todo[t] # <<>> /\ Head(todo[t]) = step
      /\ todo' = [todo EXCEPT ![t] = more \o Tail(todo[t])]
  BY DEF Take
<1>2. Tail(todo[t]) \in Seq(Steps) /\ more \o Tail(todo[t]) \in Seq(Steps)
  BY <1>1
<1>3. ToSet(Tail(todo[t])) \subseteq ToSet(todo[t]) /\ step \in ToSet(todo[t])
  BY <1>1 DEF ToSet
<1>4. ToSet(more \o Tail(todo[t])) \subseteq ToSet(more) \cup ToSet(Tail(todo[t]))
  BY <1>2, MembersOfBoth
<1>5. /\ todo' \in [Task -> Seq(Steps)] /\ todo'[t] = more \o Tail(todo[t])
      /\ \A u \in Task : u # t => todo'[u] = todo[u]
  BY <1>1, <1>2
<1> QED BY <1>3, <1>4, <1>5

\* A task that is free begins the call.
LEMMA BeginOK ==
    ASSUME todo \in [Task -> Seq(Steps)], NEW t \in Task, NEW call \in Seq(Steps),
           Begin(t, call)
    PROVE  /\ todo' \in [Task -> Seq(Steps)] /\ todo'[t] = call /\ todo[t] = <<>>
           /\ \A u \in Task : u # t => todo'[u] = todo[u]
BY DEF Begin, Free

-----------------------------------------------------------------------------
(* Types.                                                                    *)

\* A fade stays between where it starts and its target.
LEMMA TowardOK ==
    ASSUME NEW a \in Levels, NEW b \in Levels
    PROVE  Toward(a, b) \subseteq Levels
BY BacklightConstants DEF Toward, Levels

LEMMA StartFadeOK ==
    ASSUME level \in Levels, fade \in Levels \cup {NoFade}, NEW t, NEW target \in Levels,
           StartFade(t, target)
    PROVE  level' \in Levels /\ fade' \in Levels \cup {NoFade}
BY TowardOK DEF StartFade

\* Both brightnesses, and the dark, are levels.
LEMMA LevelsOK == Brightness \subseteq Levels /\ 0 \in Levels
BY BacklightConstants DEF Brightness, Levels

\* The sequences of steps that a step adds to a call, or a call consists of.
Calls == {<<>>, <<"sleep", "blackOut">>, <<"stopIdle">>, <<"enter">>, <<"stopIdle", "show">>,
          <<"relight">>, <<"schedule">>, <<"exitPresence", "schedule">>, <<"exit", "poke">>,
          <<"power">>, <<"hold">>, <<"release">>, <<"fadeEnd">>, <<"poke">>,
          <<"poke", "request">>}
LEMMA CallsOK ==
    /\ Calls \subseteq Seq(Steps)
    /\ \A more \in Calls : <<"wakeUp">> \o more \in Seq(Steps)
BY DEF Calls, Steps, Transition

\* What each step leaves to be done is a call.
LEMMA StepTakes ==
    ASSUME NEW t \in Task, Step(t)
    PROVE  \E step \in Steps, more \in Seq(Steps) : Take(t, step, more)
<1>1. CASE FadeIn(t) \/ BlackOut(t) \/ FallAsleep(t) \/ StopIdle(t) \/ RequestSleep(t) \/ StopFade(t)
  BY <1>1, CallsOK DEF FadeIn, BlackOut, FallAsleep, StopIdle, RequestSleep, StopFade, Calls, Steps, Transition
<1>2. CASE EnterIdle(t) \/ ScheduleIdle(t) \/ SetHold(t) \/ ReleaseHold(t)
  BY <1>2, CallsOK DEF EnterIdle, ScheduleIdle, SetHold, ReleaseHold, Calls, Steps
<1>3. CASE Exit(t) \/ PowerIcon(t) \/ ShowHeld(t)
  BY <1>3, CallsOK DEF Exit, PowerIcon, ShowHeld, ExitIdle, Calls, Steps
<1> QED BY <1>1, <1>2, <1>3 DEF Step

LEMMA OuterBegins ==
    ASSUME Timer \/ Callers
    PROVE  \E t \in Task, call \in Calls : Begin(t, call)
<1>1. CASE Timer
  BY <1>1 DEF Timer, IdleFires, Detected, NotDetected, PresenceGone, PresenceExceeded, PresenceSeen,
       PresenceDwelt, DaypartChanges, FadeTick, LastFadeTick, Task, Calls
<1>2. CASE Callers
  BY <1>2 DEF Callers, Call, Interaction, UiReady, ClickPower, ScheduleRemoteSleep, UpdateStarts,
       UpdateDismissed, Task, Calls
<1> QED BY <1>1, <1>2

\* Every step keeps the types.
LEMMA TypesOK == BacklightTypeOK /\ [Next]_vars => BacklightTypeOK'
<1> SUFFICES ASSUME BacklightTypeOK, [Next]_vars PROVE BacklightTypeOK'
  OBVIOUS
<1>1. todo' \in [Task -> Seq(Steps)]
  <2>1. CASE Timer \/ Callers
    BY <2>1, OuterBegins, CallsOK, BeginOK DEF BacklightTypeOK
  <2>2. CASE \E t \in Task : Step(t)
    BY <2>2, StepTakes, TakeOK DEF BacklightTypeOK
  <2>3. CASE UNCHANGED vars
    BY <2>3 DEF BacklightTypeOK, vars
  <2> QED BY <2>1, <2>2, <2>3 DEF Next
<1>2. level' \in Levels /\ fade' \in Levels \cup {NoFade}
  <2>1. level \in Levels /\ fade \in Levels \cup {NoFade}
    BY DEF BacklightTypeOK
  <2>2. CASE UNCHANGED <<level, fade>>
    BY <2>1, <2>2
  <2>3. ASSUME NEW t \in Task, FadeIn(t) \/ BlackOut(t) PROVE level' \in Levels /\ fade' \in Levels \cup {NoFade}
    BY <2>1, <2>3, LevelsOK, StartFadeOK DEF FadeIn, BlackOut
  <2>4. CASE FadeTick \/ LastFadeTick
    BY <2>1, <2>4, TowardOK DEF FadeTick, LastFadeTick
  <2>5. ASSUME NEW t \in Task, StopFade(t) PROVE level' \in Levels /\ fade' \in Levels \cup {NoFade}
    BY <2>1, <2>5 DEF StopFade
  <2>6. ASSUME NEW t \in Task, Step(t) PROVE FadeIn(t) \/ BlackOut(t) \/ StopFade(t) \/ UNCHANGED <<level, fade>>
    BY <2>6 DEF Step, EnterIdle, FallAsleep, Exit, ExitIdle, ScheduleIdle, StopIdle, PowerIcon,
         RequestSleep, SetHold, ShowHeld, ReleaseHold, screenVars
  <2>7. Timer => FadeTick \/ LastFadeTick \/ UNCHANGED <<level, fade>>
    BY DEF Timer, IdleFires, Detected, NotDetected, PresenceGone, PresenceExceeded, PresenceSeen,
       PresenceDwelt, DaypartChanges, screenVars
  <2>8. Callers => UNCHANGED <<level, fade>>
    BY DEF Callers, Call, Interaction, UiReady, ClickPower, ScheduleRemoteSleep, UpdateStarts,
       UpdateDismissed, screenVars
  <2>9. UNCHANGED vars => UNCHANGED <<level, fade>>
    BY DEF vars, screenVars
  <2> QED BY <2>2, <2>3, <2>4, <2>5, <2>6, <2>7, <2>8, <2>9 DEF Next
<1>3. presence' \in [wake : BOOLEAN, holding : BOOLEAN, counting : BOOLEAN]
  <2>1. presence \in [wake : BOOLEAN, holding : BOOLEAN, counting : BOOLEAN]
    BY DEF BacklightTypeOK
  <2>2. \/ UNCHANGED presence \/ presence' = NoPresence
        \/ presence' = [presence EXCEPT !.counting = FALSE]
        \/ \E close \in BOOLEAN : presence' = [Seen EXCEPT !.wake = close]
    BY DEF Next, Timer, IdleFires, Detected, NotDetected, PresenceGone, PresenceExceeded, PresenceSeen,
       PresenceDwelt, DaypartChanges, FadeTick, LastFadeTick, Callers, Call, Interaction, UiReady,
       ClickPower, ScheduleRemoteSleep, UpdateStarts, UpdateDismissed, Step, FadeIn, BlackOut, EnterIdle,
       FallAsleep, Exit, ExitIdle, ScheduleIdle, StopIdle, PowerIcon, RequestSleep, SetHold, ShowHeld,
       ReleaseHold, StopFade, vars, outerVars
  <2>3. Seen \in [wake : BOOLEAN, holding : BOOLEAN, counting : BOOLEAN]
    BY <2>1 DEF Seen
  <2>4. \A r \in [wake : BOOLEAN, holding : BOOLEAN, counting : BOOLEAN], b \in BOOLEAN :
          /\ [r EXCEPT !.counting = b] \in [wake : BOOLEAN, holding : BOOLEAN, counting : BOOLEAN]
          /\ [r EXCEPT !.wake = b] \in [wake : BOOLEAN, holding : BOOLEAN, counting : BOOLEAN]
    OBVIOUS
  <2>5. NoPresence \in [wake : BOOLEAN, holding : BOOLEAN, counting : BOOLEAN]
    BY DEF NoPresence
  <2>6. CASE UNCHANGED presence \/ presence' = NoPresence
    BY <2>1, <2>5, <2>6
  <2>7. CASE presence' = [presence EXCEPT !.counting = FALSE]
    BY <2>1, <2>4, <2>7, Zenon
  <2>8. CASE \E close \in BOOLEAN : presence' = [Seen EXCEPT !.wake = close]
    <3>1. PICK close \in BOOLEAN : presence' = [Seen EXCEPT !.wake = close]
      BY <2>8
    <3>2. [Seen EXCEPT !.wake = close] \in [wake : BOOLEAN, holding : BOOLEAN, counting : BOOLEAN]
      BY <2>3, <2>4, Zenon
    <3> QED BY <3>1, <3>2, Zenon
  <2> QED BY <2>2, <2>6, <2>7, <2>8
<1>4. {uiReady', idle', hold', ignored', idleTimer', crossed', lateStop', heldLate'} \subseteq BOOLEAN
  <2>1. CASE Timer
    <3>1. /\ UNCHANGED <<uiReady, idle, crossed, lateStop, holdVars>>
          /\ idleTimer' = idleTimer \/ idleTimer' = FALSE
      BY <2>1 DEF Timer, IdleFires, Detected, NotDetected, PresenceGone, PresenceExceeded,
         PresenceSeen, PresenceDwelt, DaypartChanges, FadeTick, LastFadeTick, outerVars, screenVars,
         timerVars, holdVars
    <3>2. \/ ignored' = ignored \/ ignored' = TRUE
          \/ \E online \in BOOLEAN : ignored' = (ignored /\ ~online)
      BY <2>1 DEF Timer, IdleFires, Detected, NotDetected, PresenceGone, PresenceExceeded,
         PresenceSeen, PresenceDwelt, DaypartChanges, FadeTick, LastFadeTick, screenVars
    <3>3. ignored' \in BOOLEAN
      BY <3>2 DEF BacklightTypeOK
    <3> QED BY <3>1, <3>3 DEF BacklightTypeOK, holdVars
  <2>2. CASE Callers
    BY <2>2 DEF BacklightTypeOK, Callers, Call, Interaction, UiReady, ClickPower, ScheduleRemoteSleep,
       UpdateStarts, UpdateDismissed, outerVars, screenVars, timerVars, holdVars
  <2>3. ASSUME NEW t \in Task, Step(t)
        PROVE  {uiReady', idle', hold', ignored', idleTimer', crossed', lateStop', heldLate'} \subseteq BOOLEAN
    BY <2>3 DEF BacklightTypeOK, Step, FadeIn, BlackOut, StartFade, EnterIdle, FallAsleep, Crossing, Exit,
       ExitIdle, ScheduleIdle, StopIdle, PowerIcon, RequestSleep, SetHold, ShowHeld, ReleaseHold, StopFade,
       MidTransition, outerVars, screenVars, timerVars, holdVars
  <2>4. CASE UNCHANGED vars
    BY <2>4 DEF BacklightTypeOK, vars, outerVars, screenVars, timerVars, holdVars
  <2> QED BY <2>1, <2>2, <2>3, <2>4 DEF Next
<1> QED BY <1>1, <1>2, <1>3, <1>4 DEF BacklightTypeOK

-----------------------------------------------------------------------------
(* The hold.                                                                 *)

\* The short calls without a step of set_hold(true) or of falling asleep.
Harmless == Steps \ {"hold", "show", "sleep"}
Other == {<<>>} \cup {<<a>> : a \in Harmless} \cup {<<a, b>> : a, b \in Harmless}
LEMMA OtherMembers ==
    \A more \in Other : /\ more \in Seq(Steps)
                        /\ ToSet(more) \cap {"hold", "show", "sleep"} = {}
<1> SUFFICES ASSUME NEW more \in Other
             PROVE  more \in Seq(Steps) /\ ToSet(more) \cap {"hold", "show", "sleep"} = {}
  OBVIOUS
<1>1. CASE more = <<>>
  BY <1>1, Members
<1>2. CASE \E a \in Harmless : more = <<a>>
  <2>1. PICK a \in Harmless : more = <<a>>
    BY <1>2
  <2> QED BY <2>1, Members DEF Harmless
<1>3. CASE \E a, b \in Harmless : more = <<a, b>>
  <2>1. PICK a \in Harmless, b \in Harmless : more = <<a, b>>
    BY <1>3
  <2> QED BY <2>1, Members DEF Harmless
<1> QED BY <1>1, <1>2, <1>3 DEF Other

\* The calls that are one of these.
LEMMA OtherCalls ==
    {<<>>, <<"stopIdle">>, <<"enter">>, <<"relight">>, <<"schedule">>, <<"power">>, <<"release">>,
     <<"fadeEnd">>, <<"poke">>, <<"exitPresence", "schedule">>, <<"exit", "poke">>,
     <<"poke", "request">>} \subseteq Other
<1>1. {"stopIdle", "enter", "relight", "schedule", "exitPresence", "exit", "poke", "power",
       "release", "fadeEnd", "request"} \subseteq Harmless
  BY DEF Harmless, Steps, Transition
<1>2. \A a, b \in Harmless : {<<>>, <<a>>, <<a, b>>} \subseteq Other
  BY DEF Other
<1> HIDE DEF Other
<1> QED BY <1>1, <1>2

\* Only the OTA server's task begins a call that holds.
LEMMA OuterBeginsOther ==
    ASSUME Timer \/ Callers
    PROVE  /\ UNCHANGED <<hold, heldLate, idle>>
           /\ \/ \E t \in {"timer", "lvgl"}, call \in Other : Begin(t, call)
              \/ Begin("ota", <<"hold">>)
<1>1. CASE Timer
  BY <1>1, OtherCalls DEF Timer, IdleFires, Detected, NotDetected, PresenceGone, PresenceExceeded, PresenceSeen,
       PresenceDwelt, DaypartChanges, FadeTick, LastFadeTick, screenVars, holdVars
<1>2. CASE Callers
  BY <1>2, OtherCalls DEF Callers, Call, Interaction, UiReady, ClickPower, ScheduleRemoteSleep, UpdateStarts,
       UpdateDismissed, screenVars, holdVars
<1> QED BY <1>1, <1>2

\* A wake on top of a call that does not hold is such a call.
LEMMA WakeOnTop ==
    \A more \in Other : /\ <<"wakeUp">> \o more \in Seq(Steps)
                        /\ ToSet(<<"wakeUp">> \o more) \cap {"hold", "show", "sleep"} = {}
<1> SUFFICES ASSUME NEW more \in Other
             PROVE  /\ <<"wakeUp">> \o more \in Seq(Steps)
                    /\ ToSet(<<"wakeUp">> \o more) \cap {"hold", "show", "sleep"} = {}
  OBVIOUS
<1>1. <<"wakeUp">> \in Seq(Steps) /\ ToSet(<<"wakeUp">>) = {"wakeUp"}
  BY Members DEF Steps, Transition
<1>2. more \in Seq(Steps) /\ ToSet(more) \cap {"hold", "show", "sleep"} = {}
  BY OtherMembers
<1>3. ToSet(<<"wakeUp">> \o more) \subseteq ToSet(<<"wakeUp">>) \cup ToSet(more)
  BY <1>1, <1>2, MembersOfBoth, Zenon
<1>4. <<"wakeUp">> \o more \in Seq(Steps)
  BY <1>1, <1>2
<1> QED BY <1>1, <1>2, <1>3, <1>4

\* A step other than those of set_hold(true) never brings about a hold, nor
\* sleep under one.
LEMMA OtherStep ==
    ASSUME NEW t \in Task, Step(t), ~SetHold(t), ~ShowHeld(t)
    PROVE  /\ hold' => hold /\ (heldLate' <=> heldLate)
           /\ idle' => idle \/ Take(t, "sleep", <<>>)
           /\ \E step \in Steps \ {"hold", "show"}, more \in Seq(Steps) :
                /\ Take(t, step, more)
                /\ ToSet(more) \cap {"hold", "show"} = {}
                /\ hold => "sleep" \notin ToSet(more)
<1> DEFINE Plain(step, more) == /\ Take(t, step, more)
                                /\ ToSet(more) \cap {"hold", "show"} = {}
                                /\ hold => "sleep" \notin ToSet(more)
<1>1. ASSUME NEW step \in Steps \ {"hold", "show"}, NEW more \in Other, Take(t, step, more)
      PROVE  Plain(step, more) /\ more \in Seq(Steps)
  BY <1>1, OtherMembers
<1>2. CASE EnterIdle(t)
  <2>1. CASE Take(t, "enter", <<>>)
    BY <1>1, <1>2, <2>1, OtherCalls DEF EnterIdle, Steps, screenVars, holdVars
  <2>2. CASE ~hold /\ Take(t, "enter", <<"sleep", "blackOut">>)
    <3>1. <<"sleep", "blackOut">> \in Seq(Steps) /\ Plain("enter", <<"sleep", "blackOut">>)
      BY <2>2, Members DEF Steps, Transition
    <3>2. UNCHANGED <<hold, heldLate, idle>>
      BY <1>2 DEF EnterIdle, screenVars, holdVars
    <3> QED BY <3>1, <3>2 DEF Steps
  <2> QED BY <1>2, <2>1, <2>2 DEF EnterIdle
<1>3. ASSUME NEW step \in {"exit", "exitPresence", "power"}, NEW more \in Other,
             NEW keep, ExitIdle(t, step, more, keep)
      PROVE  /\ UNCHANGED <<hold, heldLate>> /\ (idle' => idle)
             /\ \E m \in Seq(Steps) : Plain(step, m)
  <2>1. UNCHANGED <<hold, heldLate>> /\ (idle' => idle)
    BY <1>3 DEF ExitIdle, screenVars, holdVars
  <2>2. Take(t, step, <<"wakeUp">> \o more) \/ Take(t, step, more)
    BY <1>3 DEF ExitIdle
  <2> QED BY <2>1, <2>2, WakeOnTop, OtherMembers
<1>4. CASE Exit(t) \/ PowerIcon(t)
  <2>1. PICK step \in {"exit", "exitPresence", "power"}, more \in Other, keep \in BOOLEAN :
          ExitIdle(t, step, more, keep)
    BY <1>4, OtherCalls DEF Exit, PowerIcon
  <2> QED BY <1>3, <2>1 DEF Steps
<1>5. CASE FallAsleep(t)
  BY <1>1, <1>5, OtherCalls DEF FallAsleep, Steps, Transition, holdVars
<1>6. CASE FadeIn(t) \/ BlackOut(t) \/ StopIdle(t) \/ RequestSleep(t) \/ StopFade(t) \/ ScheduleIdle(t)
  <2>1. UNCHANGED <<hold, heldLate, idle>>
    BY <1>6 DEF FadeIn, BlackOut, StopIdle, RequestSleep, StopFade, ScheduleIdle, screenVars, holdVars
  <2>2. \E step \in Steps \ {"hold", "show"}, more \in Other : Take(t, step, more)
    BY <1>6, OtherCalls DEF FadeIn, BlackOut, StopIdle, RequestSleep, StopFade, ScheduleIdle, Steps, Transition
  <2> QED BY <1>1, <2>1, <2>2
<1>7. CASE ReleaseHold(t)
  <2>1. ~hold' /\ UNCHANGED idle
    BY <1>7 DEF ReleaseHold, screenVars
  <2>2. \E more \in Other : Take(t, "release", more)
    BY <1>7, OtherCalls DEF ReleaseHold
  <2> QED BY <1>1, <2>1, <2>2 DEF Steps
<1> QED BY <1>2, <1>4, <1>5, <1>6, <1>7 DEF Step

\* What the OTA server's task takes, and what that leaves of its call.
LEMMA OtaTakes ==
    ASSUME todo \in [Task -> Seq(Steps)], OtaCalls, NEW step, NEW more \in Seq(Steps),
           Take("ota", step, more)
    PROVE  \/ /\ step \in {"hold", "show", "wakeUp", "relight"}
              /\ todo["ota"] = <<step>> /\ todo'["ota"] = more
           \/ /\ step = "stopIdle" /\ todo["ota"] = <<"stopIdle", "show">>
              /\ todo'["ota"] = more \o <<"show">>
<1>1. Head(todo["ota"]) = step /\ todo["ota"] # <<>>
  BY DEF Take
<1>2. todo'["ota"] = more \o Tail(todo["ota"])
  BY TakeOK DEF Task
<1>3. more \o <<>> = more
  OBVIOUS
<1>4. CASE todo["ota"] = <<"stopIdle", "show">>
  BY <1>1, <1>2, <1>4
<1>5. \A a : Head(<<a>>) = a /\ Tail(<<a>>) = <<>>
  OBVIOUS
<1> QED BY <1>1, <1>2, <1>3, <1>4, <1>5 DEF OtaCalls

\* A call that does not hold leaves HoldInv as it is, whoever begins it.
LEMMA OuterKeepsHold ==
    ASSUME HoldInv, Timer \/ Callers
    PROVE  OtaCalls' /\ HeldAwake'
<1>1. todo \in [Task -> Seq(Steps)] /\ UNCHANGED <<hold, heldLate, idle>>
  BY OuterBeginsOther DEF HoldInv, BacklightTypeOK
<1>2. CASE \E t \in {"timer", "lvgl"}, call \in Other : Begin(t, call)
  <2>1. PICK t \in {"timer", "lvgl"}, call \in Other : Begin(t, call)
    BY <1>2
  <2>2. /\ todo'[t] = call /\ \A u \in Task : u # t => todo'[u] = todo[u]
        /\ ToSet(call) \cap {"hold", "show", "sleep"} = {}
    BY <1>1, <2>1, OtherMembers, BeginOK DEF Task
  <2> QED BY <1>1, <2>1, <2>2 DEF HoldInv, OtaCalls, HeldAwake, Task
<1>3. CASE Begin("ota", <<"hold">>)
  <2>1. <<"hold">> \in Seq(Steps) /\ ToSet(<<"hold">>) = {"hold"}
    BY Members DEF Steps
  <2>2. /\ todo'["ota"] = <<"hold">> /\ todo["ota"] = <<>>
        /\ \A u \in Task : u # "ota" => todo'[u] = todo[u]
    BY <1>1, <1>3, <2>1, BeginOK DEF Task
  <2> QED BY <1>1, <2>1, <2>2 DEF HoldInv, OtaCalls, HeldAwake, Task
<1> QED BY <1>2, <1>3, OuterBeginsOther

\* Nor do the steps of the other two tasks disturb it.
LEMMA OthersKeepHold ==
    ASSUME HoldInv, NEW t \in {"timer", "lvgl"}, Step(t)
    PROVE  OtaCalls' /\ HeldAwake'
<1>1. todo \in [Task -> Seq(Steps)] /\ t \in Task /\ "ota" \in Task
  BY DEF HoldInv, BacklightTypeOK, Task
<1>2. ASSUME NEW step, NEW more, Take(t, step, more) PROVE step \in ToSet(todo[t])
  BY <1>1, <1>2 DEF Take, ToSet
<1>3. ~SetHold(t) /\ ~ShowHeld(t)
  BY <1>2 DEF SetHold, ShowHeld, ExitIdle, HoldInv, OtaCalls
<1>4. PICK step \in Steps \ {"hold", "show"}, more \in Seq(Steps) :
        /\ Take(t, step, more)
        /\ ToSet(more) \cap {"hold", "show"} = {}
        /\ hold => "sleep" \notin ToSet(more)
  BY <1>1, <1>3, OtherStep
<1>5. /\ \A u \in Task : u # t => todo'[u] = todo[u]
      /\ ToSet(todo'[t]) \subseteq ToSet(more) \cup ToSet(todo[t])
  BY <1>1, <1>4, TakeOK
<1>6. OtaCalls'
  <2>1. todo'["ota"] = todo["ota"]
    BY <1>1, <1>5
  <2>2. \A u \in {"timer", "lvgl"} : ToSet(todo'[u]) \cap {"hold", "show"} = {}
    <3>1. \A u \in {"timer", "lvgl"} : u \in Task /\ ToSet(todo[u]) \cap {"hold", "show"} = {}
      BY DEF HoldInv, OtaCalls, Task
    <3>2. ToSet(todo'[t]) \cap {"hold", "show"} = {}
      BY <1>4, <1>5, <3>1
    <3> QED BY <1>5, <3>1, <3>2
  <2> QED BY <2>1, <2>2 DEF HoldInv, OtaCalls
<1>7. HeldAwake'
  <2> SUFFICES ASSUME hold', ~heldLate'
               PROVE  /\ idle' => todo'["ota"] \in {<<"stopIdle", "show">>, <<"show">>}
                      /\ \A u \in Task : "sleep" \notin ToSet(todo'[u])
    BY DEF HeldAwake
  <2>1. hold /\ ~heldLate /\ (idle' => idle \/ Take(t, "sleep", <<>>))
    BY <1>1, <1>3, OtherStep
  <2>2. \A u \in Task : "sleep" \notin ToSet(todo[u])
    BY <2>1 DEF HoldInv, HeldAwake
  <2>3. ~Take(t, "sleep", <<>>)
    BY <1>1, <1>2, <2>2
  <2>4. idle' => todo'["ota"] \in {<<"stopIdle", "show">>, <<"show">>}
    BY <1>1, <1>5, <2>1, <2>3 DEF HoldInv, HeldAwake
  <2>5. \A u \in Task : "sleep" \notin ToSet(todo'[u])
    BY <1>4, <1>5, <2>1, <2>2
  <2> QED BY <2>4, <2>5
<1> QED BY <1>6, <1>7

\* Nor the call of set_hold(true), which shows the screen as its last step.
LEMMA OtaKeepsHold ==
    ASSUME HoldInv, Step("ota")
    PROVE  OtaCalls' /\ HeldAwake'
<1>1. todo \in [Task -> Seq(Steps)] /\ "ota" \in Task /\ OtaCalls
  BY DEF HoldInv, BacklightTypeOK, Task
<1>2. \A a \in Steps, b \in Steps : <<>> \in Seq(Steps) /\ <<a>> \in Seq(Steps) /\ <<a, b>> \in Seq(Steps)
  OBVIOUS
<1>3. ASSUME NEW step \in Steps, NEW more \in Seq(Steps), Take("ota", step, more)
      PROVE  /\ step \in {"hold", "show", "wakeUp", "relight", "stopIdle"}
             /\ \A u \in Task : u # "ota" => todo'[u] = todo[u]
  BY <1>1, <1>3, OtaTakes, TakeOK
<1>4. ASSUME NEW more \in Seq(Steps), Take("ota", "hold", more)
      PROVE  todo["ota"] = <<"hold">> /\ todo'["ota"] = more
  BY <1>1, <1>4, OtaTakes
<1>5. CASE SetHold("ota")
  <2>1. CASE hold
    <3>1. Take("ota", "hold", <<>>) /\ UNCHANGED <<hold, heldLate, idle>>
      BY <1>5, <2>1 DEF SetHold, screenVars
    <3>2. /\ todo["ota"] = <<"hold">> /\ todo'["ota"] = <<>>
          /\ \A u \in Task : u # "ota" => todo'[u] = todo[u]
      <4>1. "hold" \in Steps /\ <<>> \in Seq(Steps)
        BY DEF Steps
      <4>2. todo["ota"] = <<"hold">> /\ todo'["ota"] = <<>>
        BY <1>4, <3>1, <4>1, Zenon
      <4> QED BY <1>3, <3>1, <4>1, <4>2
    <3>3. \A u \in Task : ToSet(todo'[u]) \subseteq ToSet(todo[u])
      BY <3>2, Members
    <3> QED BY <3>1, <3>2, <3>3 DEF HoldInv, OtaCalls, HeldAwake, Task
  <2>2. CASE ~hold
    <3>1. /\ Take("ota", "hold", <<"stopIdle", "show">>) /\ UNCHANGED idle
          /\ heldLate' = \E u \in Task \ {"ota"} : "sleep" \in ToSet(todo[u])
      BY <1>5, <2>2 DEF SetHold, screenVars
    <3>2. /\ todo'["ota"] = <<"stopIdle", "show">>
          /\ \A u \in Task : u # "ota" => todo'[u] = todo[u]
      <4>1. "hold" \in Steps /\ <<"stopIdle", "show">> \in Seq(Steps)
        BY DEF Steps
      <4>2. todo'["ota"] = <<"stopIdle", "show">>
        BY <1>4, <3>1, <4>1, Zenon
      <4> QED BY <1>3, <3>1, <4>1, <4>2
    <3>3. OtaCalls'
      BY <3>2 DEF HoldInv, OtaCalls, Task
    <3>4. "sleep" \notin ToSet(todo'["ota"])
      BY <3>2, Members
    <3>5. ~heldLate' => \A u \in Task : "sleep" \notin ToSet(todo'[u])
      BY <3>1, <3>2, <3>4
    <3> QED BY <3>2, <3>3, <3>5 DEF HeldAwake
  <2> QED BY <2>1, <2>2
<1>6. CASE ShowHeld("ota")
  <2>1. PICK more \in {<<>>, <<"wakeUp">>, <<"relight">>} : Take("ota", "show", more)
    <3>1. <<"wakeUp">> \o <<>> = <<"wakeUp">>
      OBVIOUS
    <3> QED BY <1>6, <3>1 DEF ShowHeld, ExitIdle
  <2>2. ~idle' /\ UNCHANGED <<hold, heldLate>>
    BY <1>6 DEF ShowHeld, ExitIdle, holdVars, screenVars
  <2>3. more \in Seq(Steps) /\ "sleep" \notin ToSet(more)
    <3>1. <<>> \in Seq(Steps) /\ <<"wakeUp">> \in Seq(Steps) /\ <<"relight">> \in Seq(Steps)
      BY DEF Steps, Transition
    <3>2. ToSet(<<>>) = {} /\ ToSet(<<"wakeUp">>) = {"wakeUp"} /\ ToSet(<<"relight">>) = {"relight"}
      BY Members
    <3>3. CASE more = <<>>
      BY <3>1, <3>2, <3>3, Zenon
    <3>4. CASE more = <<"wakeUp">>
      <4>1. "sleep" \notin ToSet(<<"wakeUp">>)
        BY <3>2
      <4> QED BY <3>1, <3>4, <4>1, Zenon
    <3>5. CASE more = <<"relight">>
      <4>1. "sleep" \notin ToSet(<<"relight">>)
        BY <3>2
      <4> QED BY <3>1, <3>5, <4>1, Zenon
    <3> QED BY <2>1, <3>3, <3>4, <3>5, Zenon
  <2>4. todo'["ota"] = more /\ \A u \in Task : u # "ota" => todo'[u] = todo[u]
    BY <1>1, <1>3, <2>1, <2>3, OtaTakes DEF Steps
  <2>5. OtaCalls'
    BY <2>1, <2>4 DEF HoldInv, OtaCalls, Task
  <2> QED BY <2>2, <2>3, <2>4, <2>5 DEF HoldInv, HeldAwake
<1>7. CASE StopIdle("ota")
  <2>1. Take("ota", "stopIdle", <<>>) /\ UNCHANGED <<hold, heldLate, idle>>
    BY <1>7 DEF StopIdle, holdVars, screenVars
  <2>2. /\ todo["ota"] = <<"stopIdle", "show">> /\ todo'["ota"] = <<>> \o <<"show">>
        /\ \A u \in Task : u # "ota" => todo'[u] = todo[u]
    BY <1>1, <1>2, <1>3, <2>1, OtaTakes DEF Steps
  <2>3. todo'["ota"] = <<"show">>
    BY <2>2
  <2>4. ToSet(<<"show">>) = {"show"}
    BY Members
  <2>5. OtaCalls'
    BY <2>2, <2>3 DEF HoldInv, OtaCalls, Task
  <2>6. HeldAwake'
    BY <2>1, <2>2, <2>3, <2>4 DEF HoldInv, HeldAwake
  <2> QED BY <2>5, <2>6
<1>8. CASE FadeIn("ota")
  <2>1. PICK step \in {"wakeUp", "relight"} : Take("ota", step, <<>>)
    BY <1>8 DEF FadeIn
  <2>2. UNCHANGED <<hold, heldLate, idle>>
    BY <1>8 DEF FadeIn, holdVars
  <2>3. step \in Steps
    BY <2>1 DEF Steps, Transition
  <2>4. /\ todo["ota"] = <<step>> /\ todo'["ota"] = <<>>
        /\ \A u \in Task : u # "ota" => todo'[u] = todo[u]
    BY <1>1, <1>2, <1>3, <2>1, <2>3, OtaTakes
  <2>5. hold /\ ~heldLate => ~idle
    BY <2>1, <2>4 DEF HoldInv, HeldAwake
  <2> QED BY <2>2, <2>4, <2>5, Members DEF HoldInv, OtaCalls, HeldAwake, Task
<1>9. SetHold("ota") \/ ShowHeld("ota") \/ StopIdle("ota") \/ FadeIn("ota")
  <2>1. ASSUME NEW step, NEW more, Take("ota", step, more)
        PROVE  step \in {"hold", "show", "wakeUp", "relight", "stopIdle"}
    <3>1. Head(todo["ota"]) = step /\ todo["ota"] # <<>>
      BY <2>1 DEF Take
    <3> QED BY <1>1, <3>1 DEF OtaCalls
  <2> QED BY <2>1 DEF Step, BlackOut, EnterIdle, FallAsleep, Exit, ExitIdle, ScheduleIdle, PowerIcon,
         RequestSleep, ReleaseHold, StopFade
<1> QED BY <1>5, <1>6, <1>7, <1>8, <1>9

\* Every step keeps HoldInv.
LEMMA HoldStep == HoldInv /\ [Next]_vars => HoldInv'
<1> SUFFICES ASSUME HoldInv, [Next]_vars PROVE OtaCalls' /\ HeldAwake'
  BY TypesOK DEF HoldInv
<1>1. CASE UNCHANGED vars
  BY <1>1 DEF vars, screenVars, holdVars, HoldInv, OtaCalls, HeldAwake
<1>2. CASE Next
  <2>1. Timer \/ Callers \/ Step("ota") \/ \E t \in {"timer", "lvgl"} : Step(t)
    BY <1>2 DEF Next, Task
  <2> QED BY <2>1, OuterKeepsHold, OthersKeepHold, OtaKeepsHold
<1> QED BY <1>1, <1>2

\* The initial states satisfy HoldInv.
LEMMA HoldInit == Init => HoldInv
<1> SUFFICES ASSUME Init PROVE HoldInv
  OBVIOUS
<1>1. BacklightTypeOK
  <2>1. level \in Levels /\ fade \in Levels
    BY BacklightConstants DEF Init, Levels, Brightness
  <2>2. todo \in [Task -> Seq(Steps)]
    <3>1. <<>> \in Seq(Steps)
      OBVIOUS
    <3> QED BY <3>1 DEF Init
  <2>3. {uiReady, idle, hold, ignored, idleTimer, crossed, lateStop, heldLate} \subseteq BOOLEAN
    BY DEF Init
  <2>4. presence \in [wake : BOOLEAN, holding : BOOLEAN, counting : BOOLEAN]
    BY DEF Init, NoPresence
  <2> QED BY <2>1, <2>2, <2>3, <2>4 DEF BacklightTypeOK
<1>2. OtaCalls /\ HeldAwake
  BY Members DEF Init, OtaCalls, HeldAwake, Task
<1> QED BY <1>1, <1>2 DEF HoldInv

\* Every behaviour keeps HoldInv.
THEOREM HoldInvariance == Spec => []HoldInv
  BY HoldInit, HoldStep, PTL DEF Spec

\* Brightness, calls and flags keep their types, at every brightness by day and
\* by night: a fade never leaves the range between its start and its target.
THEOREM BacklightTypeCorrect == Spec => []BacklightTypeOK
<1>1. HoldInv => BacklightTypeOK
  BY DEF HoldInv
<1> QED BY <1>1, HoldInvariance, PTL

\* However touches, presence, the idle timer and updates interleave in the code
\* without a lock, a held screen is awake between calls, unless the hold began
\* just when another task had found no hold and was falling asleep.
THEOREM HoldKeepsAwakeHolds == Spec => []HoldKeepsAwake
<1>1. HoldInv => HoldKeepsAwake
  BY DEF HoldInv, HeldAwake, HoldKeepsAwake, Quiet, Free, Task
<1> QED BY <1>1, HoldInvariance, PTL

-----------------------------------------------------------------------------
(* The idle timer and the screen: what a call can be, at any of its steps.   *)

Waking  == {<<"wakeUp">>, <<"wakeUp", "poke">>, <<"wakeUp", "schedule">>}
\* The calls that are going to arm the idle timer.
WillArm == {<<"schedule">>, <<"poke">>, <<"poke", "request">>, <<"exit", "poke">>,
            <<"exitPresence", "schedule">>, <<"wakeUp", "schedule">>, <<"wakeUp", "poke">>}
Shapes == Waking \cup WillArm \cup
          {<<>>, <<"enter">>, <<"sleep", "blackOut">>, <<"blackOut">>, <<"stopIdle">>,
           <<"relight">>, <<"fadeEnd">>, <<"power">>, <<"stopIdle", "request">>,
           <<"request">>, <<"release">>, <<"hold">>, <<"stopIdle", "show">>, <<"show">>}
ShapesOK ==
    /\ \A t \in Task : todo[t] \in Shapes
    /\ todo["lvgl"] # <<"fadeEnd">>

LEMMA ShortSequences ==
    \A a, b : /\ <<a>> # <<>> /\ Head(<<a>>) = a /\ Tail(<<a>>) = <<>>
              /\ <<a, b>> # <<>> /\ Head(<<a, b>>) = a /\ Tail(<<a, b>>) = <<b>>
              /\ <<>> \o <<>> = <<>> /\ <<>> \o <<a>> = <<a>> /\ <<a>> \o <<>> = <<a>>
              /\ <<a>> \o <<b>> = <<a, b>> /\ <<a, b>> \o <<>> = <<a, b>>
<1>1. \A a, b : <<a>> # <<>> /\ <<a, b>> # <<>>
  OBVIOUS
<1>2. \A a, b : Head(<<a>>) = a /\ Head(<<a, b>>) = a
  OBVIOUS
<1>3. \A a : Tail(<<a>>) = <<>>
  OBVIOUS
<1>4. \A a, b : Tail(<<a, b>>) = <<b>>
  OBVIOUS
<1>5. <<>> \o <<>> = <<>>
  OBVIOUS
<1>6. \A a : <<>> \o <<a>> = <<a>> /\ <<a>> \o <<>> = <<a>>
  OBVIOUS
<1>7. \A a, b : <<a>> \o <<b>> = <<a, b>>
  <2> TAKE a, b
  <2> DEFINE q == <<a>> \o <<b>>
  <2>1. q \in Seq({a, b}) /\ Len(q) = 2
    OBVIOUS
  <2>2. q[1] = a /\ q[2] = b
    OBVIOUS
  <2> HIDE DEF q
  <2>3. q = <<a, b>>
    BY <2>1, <2>2
  <2> QED BY <2>3 DEF q
<1>8. \A a, b : <<a, b>> \o <<>> = <<a, b>>
  OBVIOUS
<1> QED BY <1>1, <1>2, <1>3, <1>4, <1>5, <1>6, <1>7, <1>8

\* The first step of a call tells which call it is.
LEMMA ByHead ==
    ASSUME NEW c \in Shapes, c # <<>>
    PROVE  /\ Head(c) \in {"enter", "blackOut", "power", "request", "release", "hold", "show",
                          "relight", "fadeEnd", "schedule"}
              => c = <<Head(c)>>
           /\ Head(c) = "sleep" => c = <<"sleep", "blackOut">>
           /\ Head(c) = "exit" => c = <<"exit", "poke">>
           /\ Head(c) = "exitPresence" => c = <<"exitPresence", "schedule">>
           /\ Head(c) = "poke" => c \in {<<"poke">>, <<"poke", "request">>}
           /\ Head(c) = "wakeUp" => c \in Waking
           /\ Head(c) = "stopIdle" =>
                c \in {<<"stopIdle">>, <<"stopIdle", "request">>, <<"stopIdle", "show">>}
BY ShortSequences DEF Shapes, Waking, WillArm

\* The call of task t, which was old, goes on as new; the other calls do not.
Becomes(t, old, new) ==
    /\ todo[t] = old /\ todo'[t] = new
    /\ \A u \in Task : u # t => todo'[u] = todo[u]

\* Taking a step of a call of one step leaves what the step adds, and of a call of
\* two its second after that.
LEMMA TakeCall ==
    ASSUME todo \in [Task -> Seq(Steps)], ShapesOK, NEW t \in Task, NEW step,
           NEW more \in Seq(Steps), Take(t, step, more)
    PROVE  /\ todo[t] \in Shapes /\ todo[t] # <<>> /\ Head(todo[t]) = step
           /\ todo[t] = <<step>> => Becomes(t, <<step>>, more)
           /\ \A next : todo[t] = <<step, next>> =>
                Becomes(t, <<step, next>>, more \o <<next>>)
<1>1. /\ todo[t] \in Shapes /\ todo[t] # <<>> /\ Head(todo[t]) = step
      /\ todo' = [todo EXCEPT ![t] = more \o Tail(todo[t])]
  BY DEF Take, ShapesOK
<1>2. todo'[t] = more \o Tail(todo[t]) /\ \A u \in Task : u # t => todo'[u] = todo[u]
  BY <1>1
<1>3. more \o <<>> = more
  OBVIOUS
<1>4. Tail(<<step>>) = <<>> /\ \A next : Tail(<<step, next>>) = <<next>>
  BY ShortSequences
<1>5. CASE todo[t] = <<step>>
  BY <1>1, <1>2, <1>3, <1>4, <1>5 DEF Becomes
<1>6. ASSUME NEW next, todo[t] = <<step, next>>
      PROVE  Becomes(t, <<step, next>>, more \o <<next>>)
  BY <1>2, <1>4, <1>6 DEF Becomes
<1> QED BY <1>1, <1>5, <1>6

\* What the calls of two steps have in common: the first is replaced.
LEMMA TakeFirst ==
    ASSUME todo \in [Task -> Seq(Steps)], ShapesOK, NEW t \in Task, NEW step
    PROVE  /\ \A next : Take(t, step, <<>>) /\ todo[t] = <<step, next>>
                => Becomes(t, <<step, next>>, <<next>>)
           /\ \A next : \A a \in Steps : Take(t, step, <<a>>) /\ todo[t] = <<step, next>>
                => Becomes(t, <<step, next>>, <<a, next>>)
<1>1. <<>> \in Seq(Steps) /\ \A a \in Steps : <<a>> \in Seq(Steps)
  OBVIOUS
<1>2. \A next : <<>> \o <<next>> = <<next>>
  BY ShortSequences
<1>3. \A next, a : <<a>> \o <<next>> = <<a, next>>
  BY ShortSequences
<1>4. ASSUME NEW next, Take(t, step, <<>>), todo[t] = <<step, next>>
      PROVE  Becomes(t, <<step, next>>, <<next>>)
  BY <1>1, <1>2, <1>4, TakeCall
<1>5. ASSUME NEW next, NEW a \in Steps, Take(t, step, <<a>>), todo[t] = <<step, next>>
      PROVE  Becomes(t, <<step, next>>, <<a, next>>)
  BY <1>1, <1>3, <1>5, TakeCall
<1> QED BY <1>4, <1>5

\* The steps of a call, by the call they are a step of and what it becomes.
LEMMA Effects ==
    ASSUME todo \in [Task -> Seq(Steps)], ShapesOK, NEW t \in Task
    PROVE  /\ FadeIn(t) => \/ Becomes(t, <<"relight">>, <<>>) \/ Becomes(t, <<"wakeUp">>, <<>>)
                           \/ Becomes(t, <<"wakeUp", "poke">>, <<"poke">>)
                           \/ Becomes(t, <<"wakeUp", "schedule">>, <<"schedule">>)
           /\ EnterIdle(t) => \/ (idle \/ hold) /\ Becomes(t, <<"enter">>, <<>>)
                              \/ Becomes(t, <<"enter">>, <<"sleep", "blackOut">>)
           /\ FallAsleep(t) => Becomes(t, <<"sleep", "blackOut">>, <<"blackOut">>)
           /\ BlackOut(t) => Becomes(t, <<"blackOut">>, <<>>)
           /\ Exit(t) => \/ idle /\ Becomes(t, <<"exit", "poke">>, <<"wakeUp", "poke">>)
                         \/ idle /\ Becomes(t, <<"exitPresence", "schedule">>,
                                               <<"wakeUp", "schedule">>)
                         \/ ~idle /\ Becomes(t, <<"exit", "poke">>, <<"poke">>)
                         \/ ~idle /\ Becomes(t, <<"exitPresence", "schedule">>, <<"schedule">>)
           /\ ScheduleIdle(t) =>
                \/ Becomes(t, <<"schedule">>, IF hold THEN <<"stopIdle">> ELSE <<>>)
                \/ Becomes(t, <<"poke">>, IF hold THEN <<"stopIdle">> ELSE <<>>)
                \/ Becomes(t, <<"poke", "request">>,
                           IF hold THEN <<"stopIdle", "request">> ELSE <<"request">>)
           /\ StopIdle(t) => \/ Becomes(t, <<"stopIdle">>, <<>>)
                             \/ Becomes(t, <<"stopIdle", "request">>, <<"request">>)
                             \/ Becomes(t, <<"stopIdle", "show">>, <<"show">>)
           /\ PowerIcon(t) => \/ idle /\ Becomes(t, <<"power">>, <<"wakeUp", "poke">>)
                              \/ ~idle /\ Becomes(t, <<"power">>, <<"poke", "request">>)
           /\ RequestSleep(t) => Becomes(t, <<"request">>, <<"enter">>)
           /\ SetHold(t) => Becomes(t, <<"hold">>, IF hold THEN <<>> ELSE <<"stopIdle", "show">>)
           /\ ShowHeld(t) => Becomes(t, <<"show">>, IF idle THEN <<"wakeUp">> ELSE <<"relight">>)
           /\ ReleaseHold(t) => Becomes(t, <<"release">>, IF hold THEN <<"schedule">> ELSE <<>>)
           /\ StopFade(t) => Becomes(t, <<"fadeEnd">>, <<>>)
<1>1. /\ <<>> \in Seq(Steps)
      /\ \A a \in Steps, b \in Steps : <<a>> \in Seq(Steps) /\ <<a, b>> \in Seq(Steps)
  OBVIOUS
<1>2. {"enter", "blackOut", "power", "request", "release", "hold", "show", "relight", "fadeEnd",
       "schedule", "wakeUp", "stopIdle", "poke", "sleep"} \subseteq Steps
  BY DEF Steps, Transition
<1>3. ASSUME NEW step \in {"enter", "blackOut", "power", "request", "release", "hold", "show",
                          "relight", "fadeEnd", "schedule"},
             NEW more \in Seq(Steps), Take(t, step, more)
      PROVE  Becomes(t, <<step>>, more)
  <2>1. todo[t] \in Shapes /\ todo[t] # <<>> /\ Head(todo[t]) = step
    BY <1>3, TakeCall
  <2>2. todo[t] = <<step>>
    BY <2>1, ByHead
  <2> QED BY <1>3, <2>2, TakeCall
<1>4. ASSUME NEW step, NEW more \in Seq(Steps), Take(t, step, more)
      PROVE  /\ step = "sleep" => todo[t] = <<step, "blackOut">>
             /\ step = "exit" => todo[t] = <<step, "poke">>
             /\ step = "exitPresence" => todo[t] = <<step, "schedule">>
             /\ step = "poke" => todo[t] \in {<<step>>, <<step, "request">>}
             /\ step = "wakeUp" => todo[t] \in {<<step>>, <<step, "poke">>, <<step, "schedule">>}
             /\ step = "stopIdle" =>
                  todo[t] \in {<<step>>, <<step, "request">>, <<step, "show">>}
  <2>1. todo[t] \in Shapes /\ todo[t] # <<>> /\ Head(todo[t]) = step
    BY <1>4, TakeCall
  <2> QED BY <2>1, ByHead DEF Waking
<1>5. FadeIn(t) => \/ Becomes(t, <<"relight">>, <<>>) \/ Becomes(t, <<"wakeUp">>, <<>>)
                   \/ Becomes(t, <<"wakeUp", "poke">>, <<"poke">>)
                   \/ Becomes(t, <<"wakeUp", "schedule">>, <<"schedule">>)
  <2>1. Take(t, "relight", <<>>) => Becomes(t, <<"relight">>, <<>>)
    BY <1>1, <1>3
  <2>2. ASSUME Take(t, "wakeUp", <<>>)
        PROVE  \/ Becomes(t, <<"wakeUp">>, <<>>)
               \/ Becomes(t, <<"wakeUp", "poke">>, <<"poke">>)
               \/ Becomes(t, <<"wakeUp", "schedule">>, <<"schedule">>)
    <3>1. todo[t] \in {<<"wakeUp">>, <<"wakeUp", "poke">>, <<"wakeUp", "schedule">>}
      BY <1>1, <1>4, <2>2
    <3> QED BY <1>1, <2>2, <3>1, TakeCall, TakeFirst
  <2> QED BY <2>1, <2>2 DEF FadeIn
<1>6. EnterIdle(t) => \/ (idle \/ hold) /\ Becomes(t, <<"enter">>, <<>>)
                      \/ Becomes(t, <<"enter">>, <<"sleep", "blackOut">>)
  <2>1. <<>> \in Seq(Steps) /\ <<"sleep", "blackOut">> \in Seq(Steps)
    BY <1>1, <1>2
  <2> QED BY <1>3, <2>1 DEF EnterIdle
<1>7. FallAsleep(t) => Becomes(t, <<"sleep", "blackOut">>, <<"blackOut">>)
  BY <1>1, <1>4, TakeFirst DEF FallAsleep
<1>8. BlackOut(t) => Becomes(t, <<"blackOut">>, <<>>)
  BY <1>1, <1>3 DEF BlackOut
<1>9. Exit(t) => \/ idle /\ Becomes(t, <<"exit", "poke">>, <<"wakeUp", "poke">>)
                 \/ idle /\ Becomes(t, <<"exitPresence", "schedule">>, <<"wakeUp", "schedule">>)
                 \/ ~idle /\ Becomes(t, <<"exit", "poke">>, <<"poke">>)
                 \/ ~idle /\ Becomes(t, <<"exitPresence", "schedule">>, <<"schedule">>)
  <2>1. <<"wakeUp">> \o <<>> = <<"wakeUp">> /\ "wakeUp" \in Steps /\ <<"wakeUp">> \in Seq(Steps)
    BY <1>1, <1>2, ShortSequences
  <2>2. ASSUME NEW step, NEW next, NEW keep, ExitIdle(t, step, <<>>, keep), todo[t] = <<step, next>>
        PROVE  \/ idle /\ Becomes(t, <<step, next>>, <<"wakeUp", next>>)
               \/ ~idle /\ Becomes(t, <<step, next>>, <<next>>)
    BY <2>1, <2>2, TakeFirst DEF ExitIdle
  <2>3. ASSUME NEW step, NEW keep, ExitIdle(t, step, <<>>, keep)
        PROVE  Take(t, step, <<>>) \/ Take(t, step, <<"wakeUp">>)
    BY <2>1, <2>3 DEF ExitIdle
  <2>4. CASE ExitIdle(t, "exit", <<>>, FALSE)
    <3>1. todo[t] = <<"exit", "poke">>
      BY <1>1, <1>4, <2>1, <2>3, <2>4
    <3> QED BY <2>2, <2>4, <3>1
  <2>5. CASE ExitIdle(t, "exitPresence", <<>>, TRUE)
    <3>1. todo[t] = <<"exitPresence", "schedule">>
      BY <1>1, <1>4, <2>1, <2>3, <2>5
    <3> QED BY <2>2, <2>5, <3>1
  <2> QED BY <2>4, <2>5 DEF Exit
<1>10. ScheduleIdle(t) =>
            \/ Becomes(t, <<"schedule">>, IF hold THEN <<"stopIdle">> ELSE <<>>)
            \/ Becomes(t, <<"poke">>, IF hold THEN <<"stopIdle">> ELSE <<>>)
            \/ Becomes(t, <<"poke", "request">>,
                       IF hold THEN <<"stopIdle", "request">> ELSE <<"request">>)
  <2> DEFINE more == IF hold THEN <<"stopIdle">> ELSE <<>>
  <2>1. more \in Seq(Steps) /\ "stopIdle" \in Steps
    BY <1>1, <1>2
  <2>2. ASSUME Take(t, "schedule", more) PROVE Becomes(t, <<"schedule">>, more)
    BY <1>3, <2>1, <2>2
  <2>3. ASSUME Take(t, "poke", more)
        PROVE  \/ Becomes(t, <<"poke">>, more)
               \/ Becomes(t, <<"poke", "request">>,
                          IF hold THEN <<"stopIdle", "request">> ELSE <<"request">>)
    <3>1. CASE todo[t] = <<"poke">>
      BY <2>1, <2>3, <3>1, TakeCall
    <3>2. CASE todo[t] = <<"poke", "request">>
      <4>1. CASE hold
        BY <2>1, <2>3, <3>2, <4>1, TakeFirst
      <4>2. CASE ~hold
        BY <2>3, <3>2, <4>2, TakeFirst
      <4> QED BY <4>1, <4>2
    <3> QED BY <1>4, <2>1, <2>3, <3>1, <3>2
  <2>4. ScheduleIdle(t) => Take(t, "schedule", more) \/ Take(t, "poke", more)
    BY DEF ScheduleIdle
  <2> HIDE DEF more
  <2>5. ScheduleIdle(t) => \/ Becomes(t, <<"schedule">>, more) \/ Becomes(t, <<"poke">>, more)
                           \/ Becomes(t, <<"poke", "request">>,
                                  IF hold THEN <<"stopIdle", "request">> ELSE <<"request">>)
    BY <2>2, <2>3, <2>4
  <2> QED BY <2>5 DEF more
<1>11. StopIdle(t) => \/ Becomes(t, <<"stopIdle">>, <<>>)
                      \/ Becomes(t, <<"stopIdle", "request">>, <<"request">>)
                      \/ Becomes(t, <<"stopIdle", "show">>, <<"show">>)
  <2> SUFFICES ASSUME Take(t, "stopIdle", <<>>)
               PROVE  \/ Becomes(t, <<"stopIdle">>, <<>>)
                      \/ Becomes(t, <<"stopIdle", "request">>, <<"request">>)
                      \/ Becomes(t, <<"stopIdle", "show">>, <<"show">>)
    BY DEF StopIdle
  <2>1. todo[t] \in {<<"stopIdle">>, <<"stopIdle", "request">>, <<"stopIdle", "show">>}
    BY <1>1, <1>4
  <2> QED BY <1>1, <2>1, TakeCall, TakeFirst
<1>12. PowerIcon(t) => \/ idle /\ Becomes(t, <<"power">>, <<"wakeUp", "poke">>)
                       \/ ~idle /\ Becomes(t, <<"power">>, <<"poke", "request">>)
  <2>1. <<"wakeUp">> \o <<"poke">> = <<"wakeUp", "poke">>
    BY ShortSequences
  <2>2. <<"wakeUp", "poke">> \in Seq(Steps) /\ <<"poke", "request">> \in Seq(Steps)
    BY <1>1, <1>2
  <2>3. PowerIcon(t) => \/ idle /\ Take(t, "power", <<"wakeUp", "poke">>)
                        \/ ~idle /\ Take(t, "power", <<"poke", "request">>)
    BY <2>1 DEF PowerIcon, ExitIdle
  <2> QED BY <1>3, <2>2, <2>3
<1>13. RequestSleep(t) => Becomes(t, <<"request">>, <<"enter">>)
  BY <1>1, <1>2, <1>3 DEF RequestSleep
<1>14. SetHold(t) => Becomes(t, <<"hold">>, IF hold THEN <<>> ELSE <<"stopIdle", "show">>)
  <2>1. (IF hold THEN <<>> ELSE <<"stopIdle", "show">>) \in Seq(Steps)
    BY <1>1, <1>2
  <2> QED BY <1>3, <2>1 DEF SetHold
<1>15. ShowHeld(t) => Becomes(t, <<"show">>, IF idle THEN <<"wakeUp">> ELSE <<"relight">>)
  <2>1. <<"wakeUp">> \in Seq(Steps) /\ <<"relight">> \in Seq(Steps)
    BY <1>1, <1>2
  <2>2. <<"wakeUp">> \o <<>> = <<"wakeUp">>
    BY ShortSequences
  <2>3. ShowHeld(t) => Take(t, "show", IF idle THEN <<"wakeUp">> ELSE <<"relight">>)
    BY <2>2 DEF ShowHeld, ExitIdle
  <2> QED BY <1>3, <2>1, <2>3
<1>16. ReleaseHold(t) => Becomes(t, <<"release">>, IF hold THEN <<"schedule">> ELSE <<>>)
  <2>1. (IF hold THEN <<"schedule">> ELSE <<>>) \in Seq(Steps)
    BY <1>1, <1>2
  <2> QED BY <1>3, <2>1 DEF ReleaseHold
<1>17. StopFade(t) => Becomes(t, <<"fadeEnd">>, <<>>)
  BY <1>1, <1>3 DEF StopFade
<1> QED BY <1>5, <1>6, <1>7, <1>8, <1>9, <1>10, <1>11, <1>12, <1>13, <1>14, <1>15, <1>16, <1>17

\* What a new call is: it begins where there was none.
LEMMA OuterShapes ==
    ASSUME todo \in [Task -> Seq(Steps)], Timer \/ Callers
    PROVE  \E t \in Task :
             \E call \in {<<>>, <<"schedule">>, <<"enter">>, <<"exitPresence", "schedule">>,
                        <<"relight">>, <<"fadeEnd">>, <<"exit", "poke">>, <<"power">>,
                        <<"hold">>, <<"release">>} :
               /\ Becomes(t, <<>>, call)
               /\ call = <<"hold">> <=> t = "ota"
               /\ call = <<"fadeEnd">> => t = "timer" /\ LastFadeTick
               /\ call = <<"relight">> => DaypartChanges
<1>1. \A t \in Task : \A call : Begin(t, call) => Becomes(t, <<>>, call)
  BY DEF Begin, Free, Becomes
<1>2. \A a, b : <<a>> # <<>> /\ <<a>> = <<b>> => a = b
  BY ShortSequences
<1>3. \A a, b, c : <<a, b>> # <<c>>
  BY ShortSequences
<1>4. CASE Timer
  <2>1. CASE IdleFires
    BY <1>1, <1>2, <1>3, <2>1 DEF IdleFires, Task
  <2>2. CASE NotDetected
    BY <1>1, <1>2, <1>3, <2>2 DEF NotDetected, PresenceGone, Task
  <2>3. CASE PresenceExceeded \/ \E close \in BOOLEAN : PresenceSeen(close)
    BY <1>1, <1>2, <1>3, <2>3 DEF PresenceExceeded, PresenceSeen, Task
  <2>4. CASE PresenceDwelt
    BY <1>1, <1>2, <1>3, <2>4 DEF PresenceDwelt, Task
  <2>5. CASE DaypartChanges
    BY <1>1, <1>2, <1>3, <2>5 DEF DaypartChanges, Task
  <2>6. CASE FadeTick
    BY <1>1, <1>2, <1>3, <2>6 DEF FadeTick, Task
  <2>7. CASE LastFadeTick
    BY <1>1, <1>2, <1>3, <2>7 DEF LastFadeTick, Task
  <2> QED BY <1>4, <2>1, <2>2, <2>3, <2>4, <2>5, <2>6, <2>7 DEF Timer, Detected
<1>5. CASE Callers
  <2>1. CASE Interaction \/ UiReady \/ ClickPower
    BY <1>1, <1>2, <1>3, <2>1 DEF Interaction, UiReady, ClickPower, Call, Task
  <2>2. CASE ScheduleRemoteSleep \/ UpdateDismissed
    BY <1>1, <1>2, <1>3, <2>2 DEF ScheduleRemoteSleep, UpdateDismissed, Call, Task
  <2>3. CASE UpdateStarts
    BY <1>1, <1>2, <1>3, <2>3 DEF UpdateStarts, Call, Task
  <2> QED BY <1>5, <2>1, <2>2, <2>3 DEF Callers
<1> QED BY <1>4, <1>5

\* Calls stay calls, and only the timer task ends fades.
LEMMA ShapesStep == HoldInv /\ ShapesOK /\ [Next]_vars => ShapesOK'
<1> SUFFICES ASSUME HoldInv, ShapesOK, [Next]_vars PROVE ShapesOK'
  OBVIOUS
<1>1. todo \in [Task -> Seq(Steps)]
  BY DEF HoldInv, BacklightTypeOK
<1>2. ASSUME NEW t \in Task, NEW old, NEW new \in Shapes, Becomes(t, old, new),
             t = "lvgl" => new # <<"fadeEnd">>
      PROVE  ShapesOK'
  BY <1>2 DEF Becomes, ShapesOK, Task
<1>3. CASE Timer \/ Callers
  BY <1>1, <1>2, <1>3, OuterShapes DEF Shapes, WillArm
<1>4. ASSUME NEW t \in Task, Step(t) PROVE ShapesOK'
  <2>1. ASSUME NEW old, NEW new \in Shapes, Becomes(t, old, new), new # <<"fadeEnd">>
        PROVE  ShapesOK'
    BY <1>2, <2>1
  <2> USE <1>1, <1>4, <2>1, Effects, ShortSequences DEF Shapes, Waking, WillArm
  <2>2. CASE FadeIn(t) \/ EnterIdle(t) \/ FallAsleep(t)
    BY <2>2
  <2>3. CASE BlackOut(t) \/ Exit(t) \/ ScheduleIdle(t)
    BY <2>3
  <2>4. CASE StopIdle(t) \/ PowerIcon(t) \/ RequestSleep(t)
    BY <2>4
  <2>5. CASE SetHold(t) \/ ShowHeld(t) \/ ReleaseHold(t) \/ StopFade(t)
    BY <2>5
  <2> QED BY <2>2, <2>3, <2>4, <2>5 DEF Step
<1>5. CASE UNCHANGED vars
  BY <1>5 DEF vars, ShapesOK
<1> QED BY <1>3, <1>4, <1>5 DEF Next

\* An awake screen without a hold has its idle timer armed, or a call on its way
\* that arms it or puts the screen to sleep; and a hold that was released while it
\* was being set leaves the same behind before it shows the screen.
WillAct == WillArm \cup {<<"enter">>, <<"sleep", "blackOut">>}
TimerOK ==
    uiReady /\ ~idle /\ ~hold
        => idleTimer \/ lateStop \/ \E t \in Task : todo[t] \in WillAct
ShowOK ==
    todo["ota"] = <<"show">> /\ ~hold
        => idleTimer \/ lateStop \/ \E t \in {"timer", "lvgl"} : todo[t] \in WillArm

TimerInv == HoldInv /\ ShapesOK /\ TimerOK /\ ShowOK

\* The calls that neither arm the timer nor put the screen to sleep.
LEMMA NoAct ==
    {<<>>, <<"blackOut">>, <<"stopIdle">>, <<"relight">>, <<"fadeEnd">>, <<"power">>,
     <<"stopIdle", "request">>, <<"request">>, <<"release">>, <<"hold">>,
     <<"stopIdle", "show">>, <<"show">>, <<"wakeUp">>} \cap WillAct = {}
BY ShortSequences DEF WillAct, WillArm

\* A step that changes none of the flags keeps both, if what was going to act is.
LEMMA TimerKept ==
    ASSUME TimerOK, ShowOK, UNCHANGED <<idle, hold, timerVars>>, uiReady' => uiReady,
           NEW t \in Task, NEW old, NEW new, Becomes(t, old, new),
           old \in WillArm => new \in WillArm,
           old \in WillAct => new \in WillAct,
           t = "ota" => new # <<"show">>
    PROVE  TimerOK' /\ ShowOK'
<1>1. UNCHANGED <<idle, hold, idleTimer, lateStop>>
  BY DEF timerVars
<1>2. \A u \in Task : todo[u] \in WillAct => todo'[u] \in WillAct
  BY DEF Becomes
<1>3. \A u \in Task : todo[u] \in WillArm => todo'[u] \in WillArm
  BY DEF Becomes
<1>4. todo'["ota"] = <<"show">> => todo["ota"] = <<"show">>
  BY DEF Becomes, Task
<1>5. TimerOK'
  BY <1>1, <1>2 DEF TimerOK
<1>6. ShowOK'
  BY <1>1, <1>3, <1>4 DEF ShowOK, Task
<1> QED BY <1>5, <1>6

\* A step whose task is then going to arm the timer, or that arms it, keeps both.
LEMMA TimerArmed ==
    ASSUME TimerOK, ShowOK, NEW t \in Task, NEW old, NEW new, Becomes(t, old, new),
           \/ new \in WillArm
           \/ ~hold' => idleTimer' \/ lateStop',
           t = "ota" => lateStop' \/ hold'
    PROVE  TimerOK' /\ ShowOK'
<1>1. todo'[t] = new /\ WillArm \subseteq WillAct
  BY DEF Becomes, WillAct
<1>2. TimerOK'
  BY <1>1 DEF TimerOK
<1>3. ShowOK'
  BY <1>1 DEF ShowOK, Task
<1> QED BY <1>2, <1>3

\* A call that begins.
LEMMA OuterKeepsTimer ==
    ASSUME TimerInv, Timer \/ Callers
    PROVE  TimerOK' /\ ShowOK'
<1>1. todo \in [Task -> Seq(Steps)] /\ TimerOK /\ ShowOK
  BY DEF TimerInv, HoldInv, BacklightTypeOK
<1>2. PICK t \in Task,
           call \in {<<>>, <<"schedule">>, <<"enter">>, <<"exitPresence", "schedule">>,
                    <<"relight">>, <<"fadeEnd">>, <<"exit", "poke">>, <<"power">>,
                    <<"hold">>, <<"release">>} :
        /\ Becomes(t, <<>>, call)
        /\ call = <<"hold">> <=> t = "ota"
  BY <1>1, OuterShapes
<1>3. /\ <<>> \notin WillAct /\ <<>> \notin WillArm
      /\ t = "ota" => call # <<"show">>
  BY <1>2, NoAct, ShortSequences DEF WillAct
<1>4. UNCHANGED <<idle, hold>>
  BY OuterBeginsOther
<1>5. CASE UNCHANGED <<uiReady, timerVars>>
  BY <1>1, <1>2, <1>3, <1>4, <1>5, TimerKept
<1>6. CASE ScheduleRemoteSleep
  <2>1. idleTimer' = TRUE
    BY <1>6 DEF ScheduleRemoteSleep
  <2> QED BY <2>1 DEF TimerOK, ShowOK
<1>7. CASE IdleFires
  <2>0. <<"show">> \notin {<<>>, <<"hold">>, <<"stopIdle", "show">>}
    BY ShortSequences
  <2>1. todo["ota"] # <<"show">> /\ \E c \in {<<"schedule">>, <<"enter">>} : Begin("timer", c)
    BY <1>7, <2>0 DEF IdleFires
  <2>2. PICK c \in {<<"schedule">>, <<"enter">>} : Begin("timer", c)
    BY <2>1
  <2>3. todo'["timer"] = c /\ todo'["ota"] = todo["ota"]
    BY <1>1, <2>2 DEF Begin, Task
  <2>4. c \in WillAct
    BY <2>2 DEF WillAct, WillArm
  <2> QED BY <2>1, <2>3, <2>4 DEF TimerOK, ShowOK, Task
<1>8. CASE UiReady
  <2>1. Begin("lvgl", <<"exit", "poke">>)
    BY <1>8 DEF UiReady, Call
  <2>2. Becomes("lvgl", <<>>, <<"exit", "poke">>)
    BY <1>1, <2>1 DEF Begin, Free, Becomes, Task
  <2>3. <<"exit", "poke">> \in WillArm
    BY DEF WillArm
  <2> QED BY <1>1, <2>2, <2>3, TimerArmed DEF Task
<1>9. UNCHANGED <<uiReady, timerVars>> \/ ScheduleRemoteSleep \/ IdleFires \/ UiReady
  BY DEF Timer, Callers, Detected, NotDetected, PresenceGone, PresenceExceeded, PresenceSeen,
     PresenceDwelt, DaypartChanges, FadeTick, LastFadeTick, Call, Interaction, ClickPower,
     UpdateStarts, UpdateDismissed, outerVars
<1> QED BY <1>5, <1>6, <1>7, <1>8, <1>9

\* A step of a call.
LEMMA StepKeepsTimer ==
    ASSUME TimerInv, NEW t \in Task, Step(t)
    PROVE  TimerOK' /\ ShowOK'
<1>1. todo \in [Task -> Seq(Steps)] /\ ShapesOK /\ TimerOK /\ ShowOK
  BY DEF TimerInv, HoldInv, BacklightTypeOK
<1>2. ASSUME NEW old \in Shapes \ WillAct, NEW new, Becomes(t, old, new), new # <<"show">>,
             UNCHANGED <<uiReady, idle, hold, timerVars>>
      PROVE  TimerOK' /\ ShowOK'
  BY <1>1, <1>2, TimerKept DEF WillAct
<1>3. /\ {<<"relight">>, <<"wakeUp">>, <<"blackOut">>, <<"request">>, <<"release">>, <<"fadeEnd">>}
         \subseteq Shapes \ WillAct
      /\ <<"show">> \notin {<<>>, <<"poke">>, <<"schedule">>, <<"enter">>, <<"sleep", "blackOut">>}
  BY NoAct, ShortSequences DEF Shapes, Waking
<1>4. CASE FadeIn(t)
  <2>1. UNCHANGED <<uiReady, idle, hold, timerVars>>
    BY <1>4 DEF FadeIn, outerVars, holdVars
  <2>2. CASE Becomes(t, <<"relight">>, <<>>) \/ Becomes(t, <<"wakeUp">>, <<>>)
    BY <1>2, <1>3, <2>1, <2>2
  <2>3. ASSUME NEW c \in {"poke", "schedule"}, Becomes(t, <<"wakeUp", c>>, <<c>>)
        PROVE  TimerOK' /\ ShowOK'
    <3>1. <<c>> \in WillArm /\ <<c>> \in WillAct /\ <<c>> # <<"show">>
      BY ShortSequences DEF WillArm, WillAct
    <3> QED BY <1>1, <2>1, <2>3, <3>1, TimerKept
  <2> QED BY <1>1, <1>4, <2>2, <2>3, Effects
<1>5. CASE EnterIdle(t)
  <2>1. UNCHANGED <<uiReady, idle, hold, timerVars>>
    BY <1>5 DEF EnterIdle, outerVars, screenVars, holdVars
  <2>2. CASE (idle \/ hold) /\ Becomes(t, <<"enter">>, <<>>)
    <3>1. <<"enter">> \notin WillArm
      BY ShortSequences DEF WillArm
    <3>2. TimerOK'
      BY <2>1, <2>2 DEF TimerOK
    <3>3. \A u \in {"timer", "lvgl"} : todo[u] \in WillArm => todo'[u] \in WillArm
      BY <2>2, <3>1 DEF Becomes, Task
    <3>4. todo'["ota"] = <<"show">> => todo["ota"] = <<"show">>
      BY <1>3, <2>2 DEF Becomes, Task
    <3>5. ShowOK'
      BY <1>1, <2>1, <3>3, <3>4 DEF ShowOK, timerVars
    <3> QED BY <3>2, <3>5
  <2>3. CASE Becomes(t, <<"enter">>, <<"sleep", "blackOut">>)
    <3>1. <<"enter">> \notin WillArm /\ <<"sleep", "blackOut">> \in WillAct
      BY ShortSequences DEF WillArm, WillAct
    <3> QED BY <1>1, <1>3, <2>1, <2>3, <3>1, TimerKept
  <2> QED BY <1>1, <1>5, <2>2, <2>3, Effects
<1>6. CASE FallAsleep(t)
  <2>1. /\ Becomes(t, <<"sleep", "blackOut">>, <<"blackOut">>) /\ idle'
        /\ UNCHANGED <<hold, idleTimer, lateStop>>
    BY <1>1, <1>6, Effects DEF FallAsleep, holdVars, timerVars
  <2>2. <<"sleep", "blackOut">> \notin WillArm /\ <<"blackOut">> # <<"show">>
    BY ShortSequences DEF WillArm
  <2>3. TimerOK'
    BY <2>1 DEF TimerOK
  <2>4. ShowOK'
    BY <1>1, <2>1, <2>2 DEF ShowOK, Becomes, Task
  <2> QED BY <2>3, <2>4
<1>7. CASE BlackOut(t) \/ RequestSleep(t) \/ StopFade(t)
  <2>1. UNCHANGED <<uiReady, idle, hold, timerVars>>
    BY <1>7 DEF BlackOut, RequestSleep, StopFade, outerVars, holdVars
  <2>2. \/ Becomes(t, <<"blackOut">>, <<>>) \/ Becomes(t, <<"request">>, <<"enter">>)
        \/ Becomes(t, <<"fadeEnd">>, <<>>)
    BY <1>1, <1>7, Effects
  <2> QED BY <1>2, <1>3, <2>1, <2>2
<1>8. CASE Exit(t) \/ PowerIcon(t)
  <2>1. \E old \in Shapes, new \in WillArm : Becomes(t, old, new) /\ old # <<>>
    BY <1>1, <1>8, Effects, ShortSequences DEF Shapes, WillArm
  <2>2. t # "ota"
    <3>1. \A next : todo[t] = <<"exit", next>> \/ todo[t] = <<"exitPresence", next>>
                    \/ todo[t] = <<"power">> => t # "ota"
      <4>1. ASSUME NEW call \in {<<"hold">>, <<"stopIdle", "show">>, <<"show">>, <<"wakeUp">>,
                               <<"relight">>}
            PROVE  call # <<>> /\ Head(call) \notin {"exit", "exitPresence", "power"}
        BY ShortSequences
      <4>2. t = "ota" => todo[t] = <<>> \/ Head(todo[t]) \notin {"exit", "exitPresence", "power"}
        BY <4>1 DEF TimerInv, HoldInv, OtaCalls
      <4> QED BY <4>2, ShortSequences
    <3> QED BY <1>1, <1>8, <3>1, Effects DEF Becomes
  <2> QED BY <1>1, <2>1, <2>2, TimerArmed
<1>9. CASE ScheduleIdle(t)
  <2>1. UNCHANGED hold /\ (~hold => idleTimer')
    BY <1>9 DEF ScheduleIdle, holdVars
  <2>2. t # "ota"
    <3>1. todo[t] = <<"schedule">> \/ todo[t] = <<"poke">> \/ todo[t] = <<"poke", "request">>
            => t # "ota"
      BY ShortSequences DEF TimerInv, HoldInv, OtaCalls
    <3> QED BY <1>1, <1>9, <3>1, Effects DEF Becomes
  <2>3. \E old, new : Becomes(t, old, new)
    BY <1>1, <1>9, Effects
  <2> QED BY <1>1, <2>1, <2>2, <2>3, TimerArmed
<1>10. CASE StopIdle(t)
  <2>1. UNCHANGED hold /\ lateStop' = ~hold
    BY <1>10 DEF StopIdle, holdVars
  <2> QED BY <2>1 DEF TimerOK, ShowOK
<1>11. CASE SetHold(t)
  BY <1>11 DEF SetHold, TimerOK, ShowOK
<1>12. CASE ShowHeld(t)
  <2>1. /\ todo[t] = <<"show">> /\ todo'[t] # <<"show">>
        /\ \A u \in Task : u # t => todo'[u] = todo[u]
    BY <1>1, <1>12, Effects, ShortSequences DEF Becomes
  <2>2. t = "ota"
    <3>1. "show" \in ToSet(todo[t])
      BY <2>1, Members
    <3> QED BY <3>1 DEF TimerInv, HoldInv, OtaCalls, Task
  <2>3. UNCHANGED <<uiReady, hold, idleTimer, lateStop>> /\ ~idle'
    BY <1>12 DEF ShowHeld, ExitIdle, outerVars, holdVars, timerVars, screenVars
  <2>4. ~hold => idleTimer \/ lateStop \/ \E u \in {"timer", "lvgl"} : todo[u] \in WillAct
    BY <1>1, <2>1, <2>2 DEF ShowOK, WillAct
  <2>5. TimerOK'
    BY <2>1, <2>2, <2>3, <2>4 DEF TimerOK, Task
  <2> QED BY <2>1, <2>2, <2>5 DEF ShowOK
<1>13. CASE ReleaseHold(t)
  <2>1. UNCHANGED <<uiReady, idle, timerVars>>
    BY <1>13 DEF ReleaseHold, outerVars, screenVars
  <2>2. CASE hold
    <3>1. Becomes(t, <<"release">>, <<"schedule">>) /\ <<"schedule">> \in WillArm
      BY <1>1, <1>13, <2>2, Effects DEF WillArm
    <3>2. t # "ota"
      BY <3>1, ShortSequences DEF Becomes, TimerInv, HoldInv, OtaCalls
    <3> QED BY <1>1, <3>1, <3>2, TimerArmed
  <2>3. CASE ~hold
    <3>1. Becomes(t, <<"release">>, <<>>) /\ hold' = hold
      <4>1. hold = FALSE /\ hold' = FALSE
        BY <1>13, <2>3 DEF ReleaseHold, TimerInv, HoldInv, BacklightTypeOK
      <4> QED BY <1>1, <1>13, <2>3, <4>1, Effects
    <3> QED BY <1>2, <1>3, <2>1, <3>1
  <2> QED BY <2>2, <2>3
<1> QED BY <1>4, <1>5, <1>6, <1>7, <1>8, <1>9, <1>10, <1>11, <1>12, <1>13 DEF Step

LEMMA TimerStep == TimerInv /\ [Next]_vars => TimerInv'
<1> SUFFICES ASSUME TimerInv, [Next]_vars PROVE TimerInv'
  OBVIOUS
<1>1. HoldInv' /\ ShapesOK'
  BY HoldStep, ShapesStep DEF TimerInv
<1>2. CASE Timer \/ Callers
  BY <1>1, <1>2, OuterKeepsTimer DEF TimerInv
<1>3. ASSUME NEW t \in Task, Step(t) PROVE TimerInv'
  BY <1>1, <1>3, StepKeepsTimer DEF TimerInv
<1>4. CASE UNCHANGED vars
  <2>1. TimerOK' /\ ShowOK'
    BY <1>4 DEF TimerInv, TimerOK, ShowOK, vars, outerVars, screenVars, timerVars, holdVars
  <2> QED BY <1>1, <2>1 DEF TimerInv
<1> QED BY <1>2, <1>3, <1>4 DEF Next

LEMMA TimerInit == Init => TimerInv
<1> SUFFICES ASSUME Init PROVE TimerInv
  OBVIOUS
<1>1. \A t \in Task : todo[t] = <<>>
  BY DEF Init
<1>2. HoldInv
  BY HoldInit
<1>3. ShapesOK
  BY <1>1, ShortSequences DEF ShapesOK, Shapes, Task
<1>4. TimerOK
  BY DEF Init, TimerOK
<1>5. ShowOK
  BY <1>1, ShortSequences DEF ShowOK, Task
<1> QED BY <1>2, <1>3, <1>4, <1>5 DEF TimerInv

\* Every reachable state satisfies what the idle timer depends on.
THEOREM TimerInvariance == Spec => []TimerInv
<1> QED BY TimerInit, TimerStep, PTL DEF Spec

\* A screen that is awake and not held has its idle timer running between calls,
\* unless a task that still saw the hold stopped the timer after the hold had ended.
THEOREM IdleTimerPendingHolds == Spec => []IdleTimerPending
<1>1. TimerInv => IdleTimerPending
  <2> SUFFICES ASSUME TimerInv, Quiet PROVE IdleTimerPending
    BY DEF IdleTimerPending
  <2>1. \A t \in Task : todo[t] \notin WillAct
    BY NoAct DEF Quiet, Free
  <2> QED BY <2>1 DEF TimerInv, TimerOK, IdleTimerPending
<1> QED BY <1>1, TimerInvariance, PTL

-----------------------------------------------------------------------------
(* What the screen shows.                                                    *)

\* The calls that bring the screen to where the flag says it is.
Settling == Waking \cup {<<"blackOut">>}
\* The calls between a change of the flag and its fade, or before a fade's end.
Mid == Settling \cup {<<"relight">>, <<"sleep", "blackOut">>, <<"fadeEnd">>}

\* Unless a wake and a sleep crossed, a fade that is still to come is one the flag
\* calls for, and the screen shows the flag or is going to.
ScreenOK ==
    ~crossed =>
        /\ \A t \in Task : /\ todo[t] \in Waking \cup {<<"relight">>} => ~idle
                           /\ todo[t] = <<"blackOut">> => idle
        /\ (Lit <=> ~idle) \/ \E t \in Task : todo[t] \in Settling
        /\ todo["timer"] = <<"fadeEnd">> => fade # NoFade /\ level = fade

ScreenInv == HoldInv /\ ShapesOK /\ ScreenOK

LEMMA MidCalls ==
    /\ \A call \in Mid : call # <<>> /\ ToSet(call) \cap Transition # {}
    /\ Waking \subseteq Settling /\ Settling \subseteq Mid
<1>1. \A a : ToSet(<<a>>) = {a} /\ <<a>> # <<>>
  BY Members, ShortSequences
<1>2. \A a, b : ToSet(<<a, b>>) = {a, b} /\ <<a, b>> # <<>>
  BY Members, ShortSequences
<1>3. {"wakeUp", "blackOut", "relight", "sleep", "fadeEnd"} \subseteq Transition
  BY DEF Transition
<1>4. \A call \in Mid : \/ \E a \in Transition : call = <<a>>
                        \/ \E a \in Transition : \E b : call = <<a, b>>
  BY <1>3 DEF Mid, Settling, Waking
<1>5. \A call \in Mid : call # <<>> /\ ToSet(call) \cap Transition # {}
  BY <1>1, <1>2, <1>4
<1> QED BY <1>5 DEF Mid, Settling

\* A change of the flag or of the fade without crossing meets no such call.
LEMMA NoneMid ==
    ASSUME NEW t \in Task, ~Crossing(t) \/ ~MidTransition(t)
    PROVE  \A u \in Task : u # t => todo[u] \notin Mid
<1>1. CASE ~MidTransition(t)
  BY <1>1, MidCalls DEF MidTransition
<1>2. CASE \A u \in Task \ {t} : Free(u)
  BY <1>2, MidCalls DEF Free
<1> QED BY <1>1, <1>2 DEF Crossing

\* What no fade is.
LEMMA NotMid ==
    {<<>>, <<"enter">>, <<"stopIdle">>, <<"power">>, <<"stopIdle", "request">>, <<"request">>,
     <<"release">>, <<"hold">>, <<"stopIdle", "show">>, <<"show">>, <<"schedule">>, <<"poke">>,
     <<"poke", "request">>, <<"exit", "poke">>, <<"exitPresence", "schedule">>} \cap Mid = {}
<1>1. \A a, b, c : <<a>> # <<b, c>> /\ <<>> # <<a>> /\ <<>> # <<b, c>>
  BY ShortSequences
<1>2. \A a, b : <<a>> = <<b>> => a = b
  BY ShortSequences
<1>3. \A a, b, c, d : <<a, b>> = <<c, d>> => a = c /\ b = d
  BY ShortSequences
<1> QED BY <1>1, <1>2, <1>3 DEF Mid, Settling, Waking

\* A step that changes nothing of the screen keeps it, if its call was not settling
\* the screen and brings no fade that the flag does not call for.
LEMMA ScreenKept ==
    ASSUME ScreenOK, UNCHANGED <<idle, level, fade, crossed>>,
           NEW t \in Task, NEW old, NEW new, Becomes(t, old, new),
           old \notin Settling, new \notin Settling, new # <<"fadeEnd">>,
           new = <<"relight">> => ~idle
    PROVE  ScreenOK'
<1>1. Lit' = Lit
  BY DEF Lit
<1>2. \A u \in Task : u # t => todo'[u] = todo[u]
  BY DEF Becomes
<1>3. todo[t] = old /\ todo'[t] = new
  BY DEF Becomes
<1> SUFFICES ASSUME ~crossed' PROVE ScreenOK'
  BY DEF ScreenOK
<1>4. \A u \in Task : /\ todo'[u] \in Waking \cup {<<"relight">>} => ~idle'
                      /\ todo'[u] = <<"blackOut">> => idle'
  BY <1>2, <1>3, MidCalls DEF ScreenOK, Settling
<1>5. (Lit' <=> ~idle') \/ \E u \in Task : todo'[u] \in Settling
  BY <1>1, <1>2, <1>3 DEF ScreenOK
<1>6. todo'["timer"] = <<"fadeEnd">> => fade' # NoFade /\ level' = fade'
  BY <1>2, <1>3 DEF ScreenOK, Task
<1> QED BY <1>4, <1>5, <1>6 DEF ScreenOK

\* A step that changes the flag, or fades to what it calls for, decides alone.
LEMMA ScreenDecided ==
    ASSUME NEW t \in Task, NEW old, NEW new, Becomes(t, old, new),
           ~Crossing(t) \/ ~MidTransition(t),
           \/ new \in Waking /\ ~idle'
           \/ new = <<"blackOut">> /\ idle'
           \/ new \notin Mid /\ (Lit' <=> ~idle')
    PROVE  ScreenOK'
<1>1. \A u \in Task : u # t => todo'[u] \notin Mid
  BY NoneMid DEF Becomes
<1>2. todo'[t] = new
  BY DEF Becomes
<1>3. <<"fadeEnd">> \in Mid /\ <<"relight">> \in Mid /\ <<"blackOut">> \in Settling
  BY DEF Mid, Settling
<1>4. <<"blackOut">> \notin Waking /\ <<"fadeEnd">> \notin Settling /\ <<"blackOut">> # <<"relight">>
  BY ShortSequences DEF Waking, Settling
<1>5. \A u \in Task : /\ todo'[u] \in Waking \cup {<<"relight">>} => ~idle'
                      /\ todo'[u] = <<"blackOut">> => idle'
  BY <1>1, <1>2, <1>3, <1>4, MidCalls
<1>6. (Lit' <=> ~idle') \/ \E u \in Task : todo'[u] \in Settling
  BY <1>2, <1>3, MidCalls
<1>7. todo'["timer"] # <<"fadeEnd">>
  BY <1>1, <1>2, <1>3, <1>4, MidCalls DEF Task
<1> QED BY <1>5, <1>6, <1>7 DEF ScreenOK

\* A call that begins, and a step of a fade.
LEMMA OuterKeepsScreen ==
    ASSUME ScreenInv, Timer \/ Callers
    PROVE  ScreenOK'
<1>1. todo \in [Task -> Seq(Steps)] /\ ScreenOK
  BY DEF ScreenInv, HoldInv, BacklightTypeOK
<1>2. PICK t \in Task,
           call \in {<<>>, <<"schedule">>, <<"enter">>, <<"exitPresence", "schedule">>,
                    <<"relight">>, <<"fadeEnd">>, <<"exit", "poke">>, <<"power">>,
                    <<"hold">>, <<"release">>} :
        /\ Becomes(t, <<>>, call)
        /\ call = <<"fadeEnd">> => t = "timer" /\ LastFadeTick
        /\ call = <<"relight">> => DaypartChanges
  BY <1>1, OuterShapes
<1>3. <<>> \notin Settling /\ call \notin Settling
  BY <1>2, NotMid, MidCalls, ShortSequences DEF Settling, Waking
<1>4. \A u \in Task : u # t => todo'[u] = todo[u]
  BY <1>2 DEF Becomes
<1>5. CASE FadeTick
  <2>1. fade # NoFade /\ fade' = fade /\ UNCHANGED <<idle, crossed>>
    BY <1>5 DEF FadeTick
  <2>2. todo["timer"] = <<>> /\ todo' = todo
    BY <1>1, <1>5 DEF FadeTick, Begin, Free, Task
  <2>3. Lit' = Lit
    BY <2>1 DEF Lit
  <2>4. <<"fadeEnd">> # <<>>
    BY ShortSequences
  <2> QED BY <1>1, <2>1, <2>2, <2>3, <2>4 DEF ScreenOK
<1>6. CASE LastFadeTick
  <2>1. fade # NoFade /\ fade' = fade /\ level' = fade /\ UNCHANGED <<idle, crossed>>
    BY <1>6 DEF LastFadeTick
  <2>2. /\ todo["timer"] = <<>> /\ todo'["timer"] = <<"fadeEnd">>
        /\ \A u \in Task : u # "timer" => todo'[u] = todo[u]
    BY <1>1, <1>6 DEF LastFadeTick, Begin, Free, Task
  <2>3. Lit' = Lit
    BY <2>1 DEF Lit
  <2>4. <<"fadeEnd">> \notin Waking \cup {<<"relight">>} /\ <<"fadeEnd">> # <<"blackOut">>
    BY ShortSequences DEF Waking
  <2> SUFFICES ASSUME ~crossed' PROVE ScreenOK'
    BY DEF ScreenOK
  <2>5. \A u \in Task : /\ todo'[u] \in Waking \cup {<<"relight">>} => ~idle'
                        /\ todo'[u] = <<"blackOut">> => idle'
    BY <1>1, <2>1, <2>2, <2>4 DEF ScreenOK
  <2>6. (Lit' <=> ~idle') \/ \E u \in Task : todo'[u] \in Settling
    BY <1>1, <1>3, <2>1, <2>2, <2>3 DEF ScreenOK
  <2> QED BY <2>1, <2>5, <2>6 DEF ScreenOK
<1>7. ASSUME ~FadeTick, ~LastFadeTick PROVE ScreenOK'
  <2>1. UNCHANGED <<idle, level, fade, crossed>>
    BY <1>7 DEF Timer, Callers, Call, IdleFires, Detected, NotDetected, PresenceGone,
       PresenceExceeded, PresenceSeen, PresenceDwelt, DaypartChanges, Interaction, UiReady,
       ClickPower, ScheduleRemoteSleep, UpdateStarts, UpdateDismissed, screenVars
  <2>2. call = <<"relight">> => ~idle
    <3>1. ASSUME DaypartChanges, idle PROVE todo'["timer"] = <<>> /\ todo["timer"] = <<>>
                                            /\ todo' = todo
      BY <1>1, <3>1 DEF DaypartChanges, Begin, Free, Task
    <3> QED BY <1>2, <3>1, ShortSequences DEF Becomes
  <2> QED BY <1>1, <1>2, <1>3, <1>7, <2>1, <2>2, ScreenKept
<1> QED BY <1>5, <1>6, <1>7

\* A fade to a brightness that the flag calls for, which did not cross a wake or a
\* sleep, shows it.
LEMMA FadeShows ==
    ASSUME BacklightTypeOK, NEW t \in Task, NEW target \in Levels, StartFade(t, target), ~crossed'
    PROVE  ~crossed /\ ~MidTransition(t) /\ (Lit' <=> target > 0)
<1>1. target # NoFade /\ target \in Int
  BY BacklightConstants DEF NoFade, Levels
<1>2. CASE target = level
  <2>1. /\ ~crossed /\ ~MidTransition(t) /\ fade \in {NoFade, target}
        /\ UNCHANGED <<level, fade>>
    BY <1>2 DEF StartFade
  <2> QED BY <1>1, <1>2, <2>1 DEF Lit
<1>3. CASE target # level
  <2>1. ~crossed /\ ~MidTransition(t) /\ fade' = target
    BY <1>3 DEF StartFade
  <2> QED BY <1>1, <2>1 DEF Lit
<1> QED BY <1>2, <1>3

\* A step of a call.
LEMMA StepKeepsScreen ==
    ASSUME ScreenInv, NEW t \in Task, Step(t)
    PROVE  ScreenOK'
<1>1. todo \in [Task -> Seq(Steps)] /\ ShapesOK /\ ScreenOK /\ BacklightTypeOK
  BY DEF ScreenInv, HoldInv, BacklightTypeOK
<1> DEFINE Still == {<<>>, <<"enter">>, <<"stopIdle">>, <<"power">>, <<"stopIdle", "request">>,
                     <<"request">>, <<"release">>, <<"hold">>, <<"stopIdle", "show">>, <<"show">>,
                     <<"schedule">>, <<"poke">>, <<"poke", "request">>, <<"exit", "poke">>,
                     <<"exitPresence", "schedule">>}
<1>2. \A call \in Still : call \notin Mid /\ call \notin Settling
  BY NotMid, MidCalls
<1>3. ASSUME NEW old \in Still, NEW new \in Still \cup {<<"sleep", "blackOut">>},
             Becomes(t, old, new), UNCHANGED <<idle, level, fade, crossed>>
      PROVE  ScreenOK'
  <2>1. /\ <<"sleep", "blackOut">> \notin Settling
        /\ new # <<"fadeEnd">> /\ new # <<"relight">>
    BY ShortSequences DEF Settling, Waking
  <2> QED BY <1>1, <1>2, <1>3, <2>1, ScreenKept
<1>4. CASE FadeIn(t)
  <2>1. UNCHANGED idle /\ \E percent \in Brightness : StartFade(t, percent)
    BY <1>4 DEF FadeIn
  <2>2. PICK percent \in Brightness : StartFade(t, percent)
    BY <2>1
  <2>3. percent \in Levels /\ percent > 0
    BY LevelsOK, BacklightConstants DEF Brightness
  <2> SUFFICES ASSUME ~crossed' PROVE ScreenOK'
    BY DEF ScreenOK
  <2>4. ~crossed /\ ~MidTransition(t) /\ Lit'
    BY <1>1, <2>2, <2>3, FadeShows
  <2>5. \E old \in Waking \cup {<<"relight">>}, new \in {<<>>, <<"poke">>, <<"schedule">>} :
          Becomes(t, old, new)
    BY <1>1, <1>4, Effects DEF Waking
  <2>6. PICK old \in Waking \cup {<<"relight">>}, new \in {<<>>, <<"poke">>, <<"schedule">>} :
          Becomes(t, old, new)
    BY <2>5
  <2>7. ~idle /\ new \notin Mid
    BY <1>1, <1>2, <2>4, <2>6 DEF ScreenOK, Becomes
  <2> QED BY <2>1, <2>4, <2>6, <2>7, ScreenDecided
<1>5. CASE BlackOut(t)
  <2>1. UNCHANGED idle /\ StartFade(t, 0) /\ Becomes(t, <<"blackOut">>, <<>>)
    BY <1>1, <1>5, Effects DEF BlackOut
  <2> SUFFICES ASSUME ~crossed' PROVE ScreenOK'
    BY DEF ScreenOK
  <2>2. ~crossed /\ ~MidTransition(t) /\ ~Lit'
    BY <1>1, <2>1, LevelsOK, FadeShows
  <2>3. idle
    BY <1>1, <2>1, <2>2 DEF ScreenOK, Becomes
  <2> QED BY <1>2, <2>1, <2>2, <2>3, ScreenDecided
<1>6. CASE EnterIdle(t)
  <2>1. UNCHANGED <<idle, level, fade, crossed>>
    BY <1>6 DEF EnterIdle, screenVars
  <2>2. Becomes(t, <<"enter">>, <<>>) \/ Becomes(t, <<"enter">>, <<"sleep", "blackOut">>)
    BY <1>1, <1>6, Effects
  <2> QED BY <1>3, <2>1, <2>2
<1>7. CASE FallAsleep(t)
  <2>1. idle' /\ crossed' = Crossing(t) /\ Becomes(t, <<"sleep", "blackOut">>, <<"blackOut">>)
    BY <1>1, <1>7, Effects DEF FallAsleep
  <2> SUFFICES ASSUME ~crossed' PROVE ScreenOK'
    BY DEF ScreenOK
  <2> QED BY <2>1, ScreenDecided
<1>8. CASE Exit(t) \/ PowerIcon(t) \/ ShowHeld(t)
  <2>1. CASE idle
    <3>1. ~idle' /\ crossed' = Crossing(t)
      BY <1>8, <2>1 DEF Exit, PowerIcon, ShowHeld, ExitIdle
    <3>2. \E old, new : new \in Waking /\ Becomes(t, old, new)
      BY <1>1, <1>8, <2>1, Effects DEF Waking
    <3> SUFFICES ASSUME ~crossed' PROVE ScreenOK'
      BY DEF ScreenOK
    <3> QED BY <3>1, <3>2, ScreenDecided
  <2>2. CASE ~idle
    <3>1. UNCHANGED <<idle, level, fade, crossed>>
      BY <1>8, <2>2 DEF Exit, PowerIcon, ShowHeld, ExitIdle, screenVars
    <3>2. \/ \E old \in Still, new \in Still : Becomes(t, old, new)
          \/ Becomes(t, <<"show">>, <<"relight">>)
      BY <1>1, <1>8, <2>2, Effects
    <3>3. CASE Becomes(t, <<"show">>, <<"relight">>)
      <4>1. /\ <<"show">> \notin Settling /\ <<"relight">> \notin Settling
            /\ <<"relight">> # <<"fadeEnd">>
        BY <1>2, ShortSequences DEF Settling, Waking
      <4> QED BY <1>1, <2>2, <3>1, <3>3, <4>1, ScreenKept
    <3> QED BY <1>3, <3>1, <3>2, <3>3
  <2> QED BY <2>1, <2>2
<1>9. CASE ScheduleIdle(t) \/ StopIdle(t) \/ RequestSleep(t) \/ SetHold(t) \/ ReleaseHold(t)
  <2>1. UNCHANGED <<idle, level, fade, crossed>>
    BY <1>9 DEF ScheduleIdle, StopIdle, RequestSleep, SetHold, ReleaseHold, screenVars
  <2>2. \E old \in Still, new \in Still : Becomes(t, old, new)
    BY <1>1, <1>9, Effects
  <2> QED BY <1>3, <2>1, <2>2
<1>10. CASE StopFade(t)
  <2>1. fade' = NoFade /\ UNCHANGED <<idle, level, crossed>> /\ Becomes(t, <<"fadeEnd">>, <<>>)
    BY <1>1, <1>10, Effects DEF StopFade
  <2>2. t = "timer"
    <3>1. todo["ota"] # <<"fadeEnd">>
      BY ShortSequences DEF ScreenInv, HoldInv, OtaCalls
    <3> QED BY <1>1, <2>1, <3>1 DEF ShapesOK, Becomes, Task
  <2> SUFFICES ASSUME ~crossed' PROVE ScreenOK'
    BY DEF ScreenOK
  <2>3. fade # NoFade /\ level = fade
    BY <1>1, <2>1, <2>2 DEF ScreenOK, Becomes
  <2>4. Lit' <=> Lit
    BY <2>1, <2>3 DEF Lit
  <2>5. /\ <<>> # <<"blackOut">> /\ <<>> # <<"fadeEnd">> /\ <<>> \notin Waking \cup {<<"relight">>}
        /\ <<"fadeEnd">> \notin Settling
    BY ShortSequences DEF Settling, Waking
  <2>6. todo[t] = <<"fadeEnd">> /\ todo'[t] = <<>> /\ \A u \in Task : u # t => todo'[u] = todo[u]
    BY <2>1 DEF Becomes
  <2>7. \A u \in Task : /\ todo'[u] \in Waking \cup {<<"relight">>} => ~idle'
                        /\ todo'[u] = <<"blackOut">> => idle'
    BY <1>1, <2>1, <2>5, <2>6 DEF ScreenOK
  <2>8. (Lit' <=> ~idle') \/ \E u \in Task : todo'[u] \in Settling
    BY <1>1, <2>1, <2>4, <2>5, <2>6 DEF ScreenOK
  <2> QED BY <2>2, <2>5, <2>6, <2>7, <2>8 DEF ScreenOK
<1> QED BY <1>4, <1>5, <1>6, <1>7, <1>8, <1>9, <1>10 DEF Step

LEMMA ScreenStep == ScreenInv /\ [Next]_vars => ScreenInv'
<1> SUFFICES ASSUME ScreenInv, [Next]_vars PROVE ScreenInv'
  OBVIOUS
<1>1. HoldInv' /\ ShapesOK'
  BY HoldStep, ShapesStep DEF ScreenInv
<1>2. CASE Timer \/ Callers
  BY <1>1, <1>2, OuterKeepsScreen DEF ScreenInv
<1>3. ASSUME NEW t \in Task, Step(t) PROVE ScreenInv'
  BY <1>1, <1>3, StepKeepsScreen DEF ScreenInv
<1>4. CASE UNCHANGED vars
  <2>1. UNCHANGED <<todo, idle, level, fade, crossed>>
    BY <1>4 DEF vars, screenVars
  <2>2. Lit' = Lit
    BY <2>1 DEF Lit
  <2> QED BY <1>1, <2>1, <2>2 DEF ScreenInv, ScreenOK
<1> QED BY <1>2, <1>3, <1>4 DEF Next

LEMMA ScreenInit == Init => ScreenInv
<1> SUFFICES ASSUME Init PROVE ScreenInv
  OBVIOUS
<1>1. HoldInv /\ ShapesOK
  BY TimerInit DEF TimerInv
<1>2. Lit /\ ~idle
  BY BacklightConstants DEF Init, Lit, Brightness, NoFade
<1>3. \A t \in Task : todo[t] = <<>>
  BY DEF Init
<1>4. <<>> # <<"blackOut">> /\ <<>> # <<"fadeEnd">>
  BY ShortSequences
<1> QED BY <1>1, <1>2, <1>3, <1>4 DEF ScreenInv, ScreenOK, Task

\* Every reachable state satisfies what the screen depends on.
THEOREM ScreenInvariance == Spec => []ScreenInv
<1> QED BY ScreenInit, ScreenStep, PTL DEF Spec

\* Between calls the screen is lit, or lighting up, exactly when it is awake, unless
\* a wake and a sleep crossed.
THEOREM ScreenFollowsIdleHolds == Spec => []ScreenFollowsIdle
<1>1. ScreenInv => ScreenFollowsIdle
  <2> SUFFICES ASSUME ScreenInv, Quiet, ~crossed PROVE Lit = ~idle
    BY DEF ScreenFollowsIdle
  <2>1. \A t \in Task : todo[t] \notin Settling
    BY NotMid, MidCalls DEF Quiet, Free
  <2>2. Lit <=> ~idle
    BY <2>1 DEF ScreenInv, ScreenOK
  <2>3. idle \in BOOLEAN
    BY DEF ScreenInv, HoldInv, BacklightTypeOK
  <2> QED BY <2>2, <2>3 DEF Lit
<1> QED BY <1>1, ScreenInvariance, PTL

=============================================================================
