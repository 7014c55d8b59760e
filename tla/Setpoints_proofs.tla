--------------------------- MODULE Setpoints_proofs ---------------------------
(***************************************************************************)
(* The remote setpoint controller, for every range of temperatures, every  *)
(* number of changes, drags and outages, and whatever Home Assistant       *)
(* holds.  LatestWins is inductive once it is known in which phases there  *)
(* is a pending session, and that a display that is not there yet, or an   *)
(* animation, leaves no doubt of the phase (PhaseOK).  AgreeInv follows    *)
(* a setpoint on its way to Home Assistant and back: display and Home      *)
(* Assistant agree whenever nothing is under way.                          *)
(***************************************************************************)
EXTENDS Setpoints, TLAPS

\* None, which stands for a session that is not read any more, is no session.
NoneIsNoSession == DOMAIN None # Target

\* s_remote has its fields, a session has both targets.
Rec(x) == x = [phase |-> x.phase, wakeConsumed |-> x.wakeConsumed,
               sameSerial |-> x.sameSerial, current |-> x.current,
               pending |-> x.pending, desired |-> x.desired]
Session(s) == s = [t \in Target |-> [temp |-> s[t].temp, ok |-> s[t].ok]]
Same(s, d) == \A t \in Target : s[t].temp = d[t].temp

ShapeOK ==
    /\ Rec(r) /\ Session(r.desired)
    /\ view = [t \in Target |-> view[t]]

PhaseOK ==
    /\ ~ui => r.phase = "idle"
    /\ anim # {} => r.phase = "animating"
    /\ r.phase # "animating" => r.pending = None

IInv == ShapeOK /\ PhaseOK /\ LatestWins /\ ShownUnlessTouched

\* A clamped temperature stays as it is.
LEMMA ClampTwice == ASSUME NEW v PROVE Clamp(Clamp(v)) = Clamp(v)
<1>1. CASE v < UiMin
  BY <1>1, SetpointConstants DEF Clamp, Between
<1>2. CASE ~(v < UiMin) /\ v > UiMax
  BY <1>2, SetpointConstants DEF Clamp, Between
<1>3. CASE ~(v < UiMin) /\ ~(v > UiMax)
  BY <1>3 DEF Clamp, Between
<1> QED BY <1>1, <1>2, <1>3

\* An assignment to a field of s_remote leaves the others.
LEMMA FieldSet ==
    ASSUME NEW x, Rec(x), NEW v
    PROVE  /\ Rec([x EXCEPT !.phase = v]) /\ Rec([x EXCEPT !.sameSerial = v])
           /\ Rec([x EXCEPT !.current = v]) /\ Rec([x EXCEPT !.pending = v])
           /\ Rec([x EXCEPT !.desired = v]) /\ Rec([x EXCEPT !.wakeConsumed = v])
BY DEF Rec

\* What remote_start_animation sets, and what remote_start_pending_session does.
LEMMA StartedFields ==
    ASSUME NEW x, Rec(x)
    PROVE  LET started == [x EXCEPT !.phase = "animating", !.sameSerial = TRUE]
           IN  /\ Rec(started) /\ started.phase = "animating" /\ started.pending = x.pending
               /\ started.current = x.current /\ started.desired = x.desired
<1> DEFINE z == [x EXCEPT !.phase = "animating"]
           started == [x EXCEPT !.phase = "animating", !.sameSerial = TRUE]
<1>1. Rec(z)
  BY FieldSet
<1>2. Rec([z EXCEPT !.sameSerial = TRUE])
  <2> HIDE DEF z
  <2> QED BY <1>1, FieldSet
<1>3. started = [z EXCEPT !.sameSerial = TRUE]
  OBVIOUS
<1>4. /\ started.phase = "animating" /\ started.pending = x.pending
      /\ started.current = x.current /\ started.desired = x.desired
  BY DEF Rec
<1> QED BY <1>2, <1>3, <1>4

LEMMA PendingFields ==
    ASSUME NEW x, Rec(x)
    PROVE  LET y == [x EXCEPT !.current = x.pending, !.pending = None]
           IN  Rec(y) /\ y.pending = None /\ y.current = x.pending /\ y.desired = x.desired
<1> DEFINE z == [x EXCEPT !.current = x.pending]
           y == [x EXCEPT !.current = x.pending, !.pending = None]
<1>1. Rec(z)
  BY FieldSet
<1>2. Rec([z EXCEPT !.pending = None])
  <2> HIDE DEF z
  <2> QED BY <1>1, FieldSet
<1>3. y = [z EXCEPT !.pending = None]
  OBVIOUS
<1>4. y.pending = None /\ y.current = x.pending /\ y.desired = x.desired
  BY DEF Rec
<1> QED BY <1>2, <1>3, <1>4

\* Nothing is requested yet when the device boots.
LEMMA InitOK == Init => IInv
BY DEF Init, IInv, ShapeOK, Rec, Session, PhaseOK, LatestWins, ShownUnlessTouched

\* A burst that ends shows what was requested.
LEMMA CompleteOK ==
    ASSUME NEW x, Rec(x), Session(x.desired), x.pending = None,
           Same(x.current, x.desired), ui, UNCHANGED ui, Complete(x)
    PROVE  IInv'
<1>1. /\ r' = [x EXCEPT !.phase = "post_delay"] /\ anim' = {} /\ moved' = {}
      /\ view' = [t \in Target |-> Clamp(x.current[t].temp)]
  BY DEF Complete
<1>2. /\ Rec(r') /\ r'.phase = "post_delay" /\ r'.pending = None
      /\ r'.current = x.current /\ r'.desired = x.desired
  BY <1>1 DEF Rec
<1>3. ShapeOK' /\ PhaseOK'
  BY <1>1, <1>2 DEF ShapeOK, PhaseOK
<1>4. LatestWins'
  BY <1>2 DEF LatestWins, Same
<1>5. ShownUnlessTouched'
  BY <1>1, <1>2 DEF ShownUnlessTouched, Same
<1> QED BY <1>3, <1>4, <1>5 DEF IInv

\* An animation that starts is for the latest session.
LEMMA StartOK ==
    ASSUME NEW x, Rec(x), Session(x.desired), x.pending = None,
           Same(x.current, x.desired), ui, UNCHANGED ui,
           NEW vw, NEW vd, StartAnimation(x, vw, vd)
    PROVE  IInv'
<1> DEFINE started == [x EXCEPT !.phase = "animating", !.sameSerial = TRUE]
<1>1. /\ Rec(started) /\ started.phase = "animating" /\ started.pending = x.pending
      /\ started.current = x.current /\ started.desired = x.desired
  BY StartedFields
<1>2. CASE Complete(started)
  <2> HIDE DEF started
  <2> QED BY <1>1, <1>2, CompleteOK
<1>3. CASE ~Complete(started)
  <2>1. /\ r' = started
        /\ \E moving \in SUBSET Target \ {{}} :
             view' = [t \in Target |-> IF t \in moving THEN vw[t] ELSE Clamp(x.current[t].temp)]
    BY <1>1, <1>3 DEF StartAnimation
  <2> HIDE DEF started
  <2>2. ShapeOK' /\ PhaseOK'
    BY <1>1, <2>1 DEF ShapeOK, PhaseOK
  <2>3. LatestWins' /\ ShownUnlessTouched'
    BY <1>1, <2>1 DEF LatestWins, ShownUnlessTouched, Same
  <2> QED BY <2>2, <2>3 DEF IInv
<1> QED BY <1>2, <1>3

\* So is one for a pending session.
LEMMA StartPendingOK ==
    ASSUME NEW x, Rec(x), Session(x.desired), Same(x.pending, x.desired), ui, UNCHANGED ui,
           NEW vw, NEW vd, StartPending(x, vw, vd)
    PROVE  IInv'
<1> DEFINE y == [x EXCEPT !.current = x.pending, !.pending = None]
<1>1. Rec(y) /\ y.pending = None /\ y.current = x.pending /\ y.desired = x.desired
  BY PendingFields
<1>2. StartAnimation(y, vw, vd)
  BY DEF StartPending
<1> HIDE DEF y
<1> QED BY <1>1, <1>2, StartOK

\* Whatever leaves the setpoints and the burst alone.
LEMMA BurstUnchanged ==
    ASSUME IInv, UNCHANGED <<view, ui, anim>>, moved \subseteq moved',
           Rec(r'), r'.phase = r.phase, r'.current = r.current,
           r'.pending = r.pending, r'.desired = r.desired
    PROVE  IInv'
BY DEF IInv, ShapeOK, PhaseOK, LatestWins, ShownUnlessTouched

\* A payload of Home Assistant, in every phase of a burst.
LEMMA SubmitOK ==
    ASSUME NoneIsNoSession, IInv, ui, UNCHANGED ui, NEW t, NEW v, Submit(t, v)
    PROVE  IInv'
<1> DEFINE session == [r.desired EXCEPT ![t] = [temp |-> v, ok |-> TRUE]]
           rr == [r EXCEPT !.desired[t] = [temp |-> v, ok |-> TRUE]]
<1>1. /\ Session(session) /\ session # None /\ Same(session, session)
  BY DEF IInv, ShapeOK, Session, Same, NoneIsNoSession
<1>2. /\ Rec(rr) /\ rr.desired = session /\ rr.phase = r.phase
      /\ rr.current = r.current /\ rr.pending = r.pending
  <2>1. Rec(r)
    BY DEF IInv, ShapeOK
  <2>2. rr = [r EXCEPT !.desired = session]
    BY <2>1 DEF Rec
  <2> HIDE DEF session
  <2>3. LET q == [r EXCEPT !.desired = session]
        IN q.desired = session /\ q.phase = r.phase /\ q.current = r.current /\ q.pending = r.pending
    BY <2>1 DEF Rec
  <2> QED BY <2>1, <2>2, <2>3, FieldSet
<1>3. \/ r.desired[t].temp = v /\ r' = rr /\ UNCHANGED <<shownVars, screen>>
      \/ r.desired[t].temp # v /\ QueueSession(rr, session)
  BY <1>2 DEF Submit
<1>4. r.desired[t].temp = v => Same(session, r.desired)
  BY DEF IInv, ShapeOK, Session, Same
<1> HIDE DEF session, rr
<1>5. CASE r.desired[t].temp = v /\ r' = rr /\ UNCHANGED <<shownVars, screen>>
  BY <1>1, <1>2, <1>4, <1>5
     DEF IInv, ShapeOK, PhaseOK, LatestWins, ShownUnlessTouched, Same, shownVars
<1>6. CASE QueueSession(rr, session)
  <2>1. CASE QueueFirst(rr, session)
    <3>1. /\ Rec(r') /\ r'.phase \in {"wait_lit", "pre_delay"} /\ r'.pending = None
          /\ r'.current = session /\ r'.desired = session /\ UNCHANGED <<view, anim>>
      BY <1>2, <2>1 DEF QueueFirst, IInv, PhaseOK, Rec, shownVars
    <3>2. anim = {}
      BY <1>2, <2>1 DEF QueueFirst, IInv, PhaseOK
    <3> QED BY <1>1, <3>1, <3>2
            DEF IInv, ShapeOK, PhaseOK, LatestWins, ShownUnlessTouched, Same
  <2>2. CASE QueueBeforeAnimation(rr, session)
    <3>1. /\ Rec(r') /\ r'.phase = r.phase /\ r.phase \in {"wait_lit", "pre_delay"}
          /\ r'.pending = r.pending
          /\ r'.current = session /\ r'.desired = session /\ UNCHANGED <<view, anim>>
      BY <1>2, <2>2 DEF QueueBeforeAnimation, Rec, shownVars
    <3> QED BY <1>1, <3>1
            DEF IInv, ShapeOK, PhaseOK, LatestWins, ShownUnlessTouched, Same
  <2>3. CASE QueuePending(rr, session)
    <3>1. /\ Rec(r') /\ r'.phase = "animating" /\ r'.pending = session
          /\ r'.desired = session /\ UNCHANGED <<view, anim>>
      BY <1>2, <2>3 DEF QueuePending, Rec, shownVars
    <3> QED BY <1>1, <3>1
            DEF IInv, ShapeOK, PhaseOK, LatestWins, ShownUnlessTouched, Same
  <2>4. CASE QueueDuringHold(rr, session)
    <3> DEFINE x == [rr EXCEPT !.pending = session]
    <3>1. Rec(x) /\ x.pending = session /\ x.desired = session
      BY <1>2 DEF Rec
    <3>2. StartPending(x, view, valid)
      BY <2>4 DEF QueueDuringHold
    <3> HIDE DEF x
    <3> QED BY <1>1, <3>1, <3>2, StartPendingOK
  <2> QED BY <1>6, <2>1, <2>2, <2>3, <2>4 DEF QueueSession
<1> QED BY <1>3, <1>5, <1>6

\* A delivery, before and after the display is there.
LEMMA DeliverOK == ASSUME NoneIsNoSession, IInv, Deliver PROVE IInv'
<1> DEFINE t == Head(down)[1]
           v == Head(down)[2]
<1>1. Apply(t, v) /\ UNCHANGED ui
  BY DEF Deliver
<1> HIDE DEF t, v
<1>2. CASE v = NaN \/ ~ui
  BY <1>1, <1>2
     DEF Apply, Submit, IInv, ShapeOK, PhaseOK, LatestWins, ShownUnlessTouched
<1>3. CASE v # NaN /\ ui
  BY <1>1, <1>3, SubmitOK DEF Apply
<1> QED BY <1>2, <1>3

\* The timers of a burst: it waits, starts, and ends.
LEMMA TimersOK == ASSUME IInv, WaitLitPoll \/ PreDelayDone \/ PostDelayDone PROVE IInv'
<1>1. Rec(r) /\ Session(r.desired)
  BY DEF IInv, ShapeOK
<1>2. CASE WaitLitPoll
  <2>1. /\ Rec(r') /\ r'.phase = "pre_delay" /\ r.phase = "wait_lit" /\ r'.pending = r.pending
        /\ r'.current = r.current /\ r'.desired = r.desired
    BY <1>1, <1>2, FieldSet DEF WaitLitPoll, Rec
  <2>2. UNCHANGED <<view, ui, anim>>
    BY <1>2 DEF WaitLitPoll, shownVars
  <2> QED BY <2>1, <2>2 DEF IInv, ShapeOK, PhaseOK, LatestWins, ShownUnlessTouched
<1>3. CASE PreDelayDone
  <2>1. ui /\ UNCHANGED ui /\ r.pending = None /\ StartAnimation(r, view, valid)
    BY <1>3 DEF PreDelayDone, IInv, PhaseOK
  <2>2. Same(r.current, r.desired)
    BY <1>3, <2>1 DEF PreDelayDone, IInv, LatestWins, Same
  <2> QED BY <1>1, <2>1, <2>2, StartOK
<1>4. CASE PostDelayDone
  <2>1. /\ r.phase = "post_delay" /\ UNCHANGED <<view, ui, anim, moved>>
        /\ r' = [r EXCEPT !.phase = "idle", !.current = None, !.pending = None,
                          !.wakeConsumed = FALSE, !.sameSerial = TRUE]
    BY <1>4 DEF PostDelayDone, shownVars
  <2>2. r'.phase = "idle" /\ r'.pending = None /\ r'.desired = r.desired
    BY <1>1, <2>1 DEF Rec
  <2>3. Rec(r')
    <3> DEFINE a == [r EXCEPT !.phase = "idle"]
               b == [a EXCEPT !.current = None]
               c == [b EXCEPT !.pending = None]
               d == [c EXCEPT !.wakeConsumed = FALSE]
    <3>1. r' = [d EXCEPT !.sameSerial = TRUE]
      BY <2>1
    <3>2. Rec(a)
      BY <1>1, FieldSet
    <3> HIDE DEF a
    <3>3. Rec(b)
      BY <3>2, FieldSet
    <3> HIDE DEF b
    <3>4. Rec(c)
      BY <3>3, FieldSet
    <3> HIDE DEF c
    <3>5. Rec(d)
      BY <3>4, FieldSet
    <3> HIDE DEF d
    <3> QED BY <3>1, <3>5, FieldSet
  <2> QED BY <2>1, <2>2, <2>3 DEF IInv, ShapeOK, PhaseOK, LatestWins, ShownUnlessTouched
<1> QED BY <1>2, <1>3, <1>4

\* The frames of an animation, and its end, with or without a pending session.
LEMMA FramesOK == ASSUME IInv, AnimationFrame \/ AnimationsReady PROVE IInv'
<1>1. /\ anim # {} /\ r.phase = "animating" /\ ui /\ UNCHANGED ui
      /\ Rec(r) /\ Session(r.desired)
  BY DEF IInv, PhaseOK, ShapeOK, AnimationFrame, AnimationsReady
<1>2. CASE AnimationFrame
  <2>1. UNCHANGED <<r, anim, moved>> /\ view' = [t \in Target |-> view'[t]]
    BY <1>2 DEF AnimationFrame
  <2> QED BY <1>1, <2>1 DEF IInv, ShapeOK, PhaseOK, LatestWins, ShownUnlessTouched
<1>3. CASE AnimationsReady
  <2>1. CASE r.pending = None
    <3>1. Same(r.current, r.desired)
      BY <1>1, <2>1 DEF IInv, LatestWins, Same
    <3> QED BY <1>1, <1>3, <2>1, <3>1, CompleteOK DEF AnimationsReady
  <2>2. CASE r.pending # None
    <3>1. Same(r.pending, r.desired)
      BY <1>1, <2>2 DEF IInv, LatestWins, Same
    <3> QED BY <1>1, <1>3, <2>2, <3>1, StartPendingOK DEF AnimationsReady
  <2> QED BY <2>1, <2>2
<1> QED BY <1>2, <1>3

\* The display comes up with what was received, or with the defaults.
LEMMA UiInitOK == ASSUME IInv, UiInit PROVE IInv'
<1>1. /\ r.phase = "idle" /\ r.pending = None /\ Rec(r) /\ ui'
      /\ view' = [t \in Target |-> view'[t]] /\ UNCHANGED anim
      /\ r' = [r EXCEPT !.desired = [t \in Target |-> [temp |-> view'[t], ok |-> valid[t]]]]
  BY DEF IInv, PhaseOK, ShapeOK, UiInit
<1>2. \A t \in Target : view'[t] = Clamp(view'[t])
  BY ClampTwice DEF UiInit
<1>3. /\ Rec(r') /\ r'.phase = "idle" /\ r'.pending = None
      /\ r'.desired = [t \in Target |-> [temp |-> view'[t], ok |-> valid[t]]]
  BY <1>1, FieldSet DEF Rec
<1>4. Session(r'.desired)
  BY <1>3 DEF Session
<1> QED BY <1>1, <1>2, <1>3, <1>4
        DEF IInv, ShapeOK, PhaseOK, LatestWins, ShownUnlessTouched

\* A touch notes that the user was there; a drag marks the target it moves.
LEMMA TouchOK ==
    ASSUME IInv, Interaction, UNCHANGED ui,
           UNCHANGED shownVars \/ \E t, v : DragTo(t, v)
    PROVE  IInv'
<1>1. /\ Rec(r') /\ r'.phase = r.phase /\ r'.current = r.current
      /\ r'.pending = r.pending /\ r'.desired = r.desired
  BY FieldSet DEF Interaction, IInv, ShapeOK, Rec
<1>2. CASE UNCHANGED shownVars
  BY <1>1, <1>2, BurstUnchanged DEF shownVars
<1>3. CASE \E t, v : DragTo(t, v)
  <2>1. PICK t, v : DragTo(t, v)
    BY <1>3
  <2>2. /\ UNCHANGED anim /\ moved' = moved \cup {t}
        /\ \E w : view' = [view EXCEPT ![t] = w]
    BY <2>1 DEF DragTo
  <2> QED BY <1>1, <2>2 DEF IInv, ShapeOK, PhaseOK, LatestWins, ShownUnlessTouched
<1> QED BY <1>2, <1>3

\* What the user does, with the display or before it.
LEMMA UserOK ==
    ASSUME IInv, TouchElsewhere \/ Press \/ Pressing \/ Release \/ PresenceWakes
    PROVE  IInv'
<1>1. UNCHANGED ui /\ (UNCHANGED shownVars \/ \E t, v : DragTo(t, v))
  BY DEF TouchElsewhere, Press, Pressing, Release, PresenceWakes
<1>2. Interaction
  BY DEF TouchElsewhere, Press, Pressing, Release, PresenceWakes, Interaction
<1> QED BY <1>1, <1>2, TouchOK

\* Every step keeps the invariant.
LEMMA StepOK == ASSUME NoneIsNoSession, IInv, [Next]_vars PROVE IInv'
<1>1. CASE UNCHANGED <<shownVars, ui, r>>
  BY <1>1 DEF IInv, ShapeOK, PhaseOK, LatestWins, ShownUnlessTouched, shownVars
<1>2. CASE HaSet \/ HaCommand \/ LinkDown \/ LinkUp \/ ScreenSleeps \/ IdleTimerPutOff
           \/ FadeEnds \/ DaypartRelights
  BY <1>1, <1>2 DEF HaSet, HaCommand, LinkDown, LinkUp, ScreenSleeps, IdleTimerPutOff,
                    FadeEnds, DaypartRelights
<1> QED BY <1>1, <1>2, DeliverOK, TimersOK, FramesOK, UiInitOK, UserOK DEF Next, vars

\* Every behaviour keeps the invariant.
THEOREM SetpointInvariance == ASSUME NoneIsNoSession PROVE Spec => []IInv
<1>1. IInv /\ [Next]_vars => IInv'
  BY StepOK
<1> QED BY <1>1, InitOK, PTL DEF Spec

\* Updates that arrive in any phase of a burst replace one another and none is
\* forgotten, for every sequence of payloads, drags and outages.
THEOREM LatestWinsHolds == ASSUME NoneIsNoSession PROVE Spec => []LatestWins
<1>1. IInv => LatestWins
  BY DEF IInv
<1> QED BY <1>1, SetpointInvariance, PTL

\* No burst ends on an intermediate value: between animations the display shows
\* what was requested, except what the user dragged since.
THEOREM ShownUnlessTouchedHolds == ASSUME NoneIsNoSession PROVE Spec => []ShownUnlessTouched
<1>1. IInv => ShownUnlessTouched
  BY DEF IInv
<1> QED BY <1>1, SetpointInvariance, PTL
-----------------------------------------------------------------------------
(* The display and Home Assistant.  AgreeInv says, of a setpoint of Home      *)
(* Assistant, that the device knows it or that the last payload on its way   *)
(* is it; and of a setpoint the user dragged, that it is what the controller *)
(* was last asked for, or a message is on its way that will make it so.      *)

\* Messages are compared with a target's name, which None is not.
NoneIsNoTarget == None \notin Target

Calm == r.phase \in {"idle", "post_delay"}
\* Home Assistant and the display agree whenever nothing is on its way between
\* them and no finger or animation moves a slider, unless a message was lost or
\* refused: the controller waits for no further payload.
SettledAgrees ==
    ui /\ link /\ ~failed /\ down = <<>> /\ up = <<>> /\ drag = None /\ Calm => Agree

Value == Temp \cup {NaN}
Payload == Target \X Value

\* The payloads in q for target t: none, or v is the last, or one asks for a
\* display other than x. The commands in q: one asks for another value than x.
Absent(t, q) == \A i \in 1..Len(q) : q[i][1] # t
LastIs(t, q, v) ==
    \E i \in 1..Len(q) : q[i] = <<t, v>> /\ \A j \in 1..Len(q) : j > i => q[j][1] # t
Differs(t, q, x) ==
    \E i \in 1..Len(q) : q[i][1] = t /\ q[i][2] # NaN /\ Clamp(q[i][2]) # x
Sends(t, q, x) == \E i \in 1..Len(q) : q[i][t] # x

ValuesOK ==
    /\ view \in [Target -> Int] /\ (ui => view \in [Target -> UiTemp])
    /\ \A t \in Target : r.desired[t].temp \in Int
    /\ r.phase # "idle" => \A t \in Target : r.current[t].temp \in Int
    /\ ha \in [Target -> Value] /\ down \in Seq(Payload) /\ up \in Seq([Target -> UiTemp])
    /\ drag \in Target \cup {None} /\ moved \subseteq Target
    /\ ~ui => moved = {} /\ drag = None /\ DOMAIN valid = Target

\* What the device has of Home Assistant's setpoint; before there is a display
\* the view has it as it came.
Known(t) ==
    \/ ha[t] = NaN
    \/ ui /\ Clamp(r.desired[t].temp) = Clamp(ha[t])
    \/ ~ui /\ valid[t] /\ view[t] = ha[t]
TrackOK ==
    link => \A t \in Target : LastIs(t, down, ha[t]) \/ (Known(t) /\ Absent(t, down))

Coming(t, x) == view[t] = x \/ Sends(t, up, x) \/ Differs(t, down, x)
TouchedOK ==
    Calm /\ ~failed =>
        \A t \in moved : drag = t \/ Coming(t, Clamp(r.desired[t].temp))

AgreeInv == IInv /\ ValuesOK /\ TrackOK /\ TouchedOK

\* Clamping gives a temperature of the display, and leaves those alone.
LEMMA ClampRange ==
    /\ \A v \in Int : Clamp(v) \in UiTemp
    /\ \A v \in UiTemp : Clamp(v) = v /\ v \in Temp /\ v # NaN
BY SetpointConstants DEF Clamp, Between, UiTemp

\* Payloads that are added leave the earlier ones, and may be the last.
LEMMA Added ==
    ASSUME NEW q \in Seq(Payload), NEW c \in Seq(Payload), NEW t, NEW v, NEW x
    PROVE  /\ LastIs(t, c, v) => LastIs(t, q \o c, v)
           /\ LastIs(t, q, v) /\ Absent(t, c) => LastIs(t, q \o c, v)
           /\ Absent(t, q) /\ Absent(t, c) => Absent(t, q \o c)
           /\ Differs(t, q, x) => Differs(t, q \o c, x)
<1>1. /\ Len(q) \in Nat /\ Len(c) \in Nat /\ Len(q \o c) = Len(q) + Len(c)
      /\ \A i \in 1..Len(q) : (q \o c)[i] = q[i]
      /\ \A i \in 1..Len(c) : (q \o c)[Len(q) + i] = c[i]
      /\ \A i \in 1..Len(q) + Len(c) : i \in 1..Len(q) \/ i - Len(q) \in 1..Len(c)
  OBVIOUS
<1>2. \A i \in 1..Len(q) + Len(c) :
          i \notin 1..Len(q) => (q \o c)[i] = c[i - Len(q)] /\ i - Len(q) \in 1..Len(c)
  OBVIOUS
<1>3. ASSUME LastIs(t, c, v) PROVE LastIs(t, q \o c, v)
  <2>1. PICK i \in 1..Len(c) : c[i] = <<t, v>> /\ \A j \in 1..Len(c) : j > i => c[j][1] # t
    BY <1>3 DEF LastIs
  <2>2. /\ Len(q) + i \in 1..Len(q \o c) /\ (q \o c)[Len(q) + i] = <<t, v>>
    BY <1>1, <2>1
  <2>3. ASSUME NEW j \in 1..Len(q \o c), j > Len(q) + i PROVE (q \o c)[j][1] # t
    BY <1>1, <1>2, <2>1, <2>3
  <2> QED BY <2>2, <2>3 DEF LastIs
<1>4. ASSUME LastIs(t, q, v), Absent(t, c) PROVE LastIs(t, q \o c, v)
  <2>1. PICK i \in 1..Len(q) : q[i] = <<t, v>> /\ \A j \in 1..Len(q) : j > i => q[j][1] # t
    BY <1>4 DEF LastIs
  <2>2. i \in 1..Len(q \o c) /\ (q \o c)[i] = <<t, v>>
    BY <1>1, <2>1
  <2>3. ASSUME NEW j \in 1..Len(q \o c), j > i PROVE (q \o c)[j][1] # t
    BY <1>1, <1>2, <1>4, <2>1, <2>3 DEF Absent
  <2> QED BY <2>2, <2>3 DEF LastIs
<1>5. ASSUME Absent(t, q), Absent(t, c) PROVE Absent(t, q \o c)
  BY <1>1, <1>2, <1>5 DEF Absent
<1>6. ASSUME Differs(t, q, x) PROVE Differs(t, q \o c, x)
  <2>1. PICK i \in 1..Len(q) : q[i][1] = t /\ q[i][2] # NaN /\ Clamp(q[i][2]) # x
    BY <1>6 DEF Differs
  <2>2. i \in 1..Len(q \o c) /\ (q \o c)[i] = q[i]
    BY <1>1
  <2> QED BY <2>1, <2>2 DEF Differs
<1> QED BY <1>3, <1>4, <1>5, <1>6

\* The payload that is taken is the last, or the others are still there.
LEMMA Taken ==
    ASSUME NEW q \in Seq(Payload), q # <<>>, NEW t, NEW v, NEW x
    PROVE  /\ LastIs(t, q, v) => \/ LastIs(t, Tail(q), v)
                                 \/ Absent(t, Tail(q)) /\ Head(q) = <<t, v>>
           /\ Absent(t, q) => Absent(t, Tail(q)) /\ Head(q)[1] # t
           /\ Differs(t, q, x) => \/ Differs(t, Tail(q), x)
                                  \/ /\ Head(q)[1] = t /\ Head(q)[2] # NaN
                                     /\ Clamp(Head(q)[2]) # x
<1>1. /\ Len(q) \in Nat /\ Len(q) >= 1 /\ Len(Tail(q)) = Len(q) - 1
      /\ \A i \in 1..Len(Tail(q)) : Tail(q)[i] = q[i + 1] /\ i + 1 \in 1..Len(q)
      /\ Head(q) = q[1]
  OBVIOUS
<1>2. \A i \in 1..Len(q) : i = 1 \/ (i - 1 \in 1..Len(Tail(q)) /\ Tail(q)[i - 1] = q[i])
  BY <1>1
<1>3. ASSUME LastIs(t, q, v)
      PROVE  LastIs(t, Tail(q), v) \/ (Absent(t, Tail(q)) /\ Head(q) = <<t, v>>)
  <2>1. PICK i \in 1..Len(q) : q[i] = <<t, v>> /\ \A j \in 1..Len(q) : j > i => q[j][1] # t
    BY <1>3 DEF LastIs
  <2>2. CASE i = 1
    BY <1>1, <2>1, <2>2 DEF Absent
  <2>3. CASE i # 1
    <3>1. i - 1 \in 1..Len(Tail(q)) /\ Tail(q)[i - 1] = <<t, v>>
      BY <1>2, <2>1, <2>3
    <3>2. ASSUME NEW j \in 1..Len(Tail(q)), j > i - 1 PROVE Tail(q)[j][1] # t
      BY <1>1, <2>1, <3>2
    <3> QED BY <3>1, <3>2 DEF LastIs
  <2> QED BY <2>2, <2>3
<1>4. ASSUME Absent(t, q) PROVE Absent(t, Tail(q)) /\ Head(q)[1] # t
  BY <1>1, <1>4 DEF Absent
<1>5. ASSUME Differs(t, q, x)
      PROVE  \/ Differs(t, Tail(q), x)
             \/ Head(q)[1] = t /\ Head(q)[2] # NaN /\ Clamp(Head(q)[2]) # x
  <2>1. PICK i \in 1..Len(q) : q[i][1] = t /\ q[i][2] # NaN /\ Clamp(q[i][2]) # x
    BY <1>5 DEF Differs
  <2>2. CASE i = 1
    BY <1>1, <2>1, <2>2
  <2>3. CASE i # 1
    <3>1. i - 1 \in 1..Len(Tail(q)) /\ Tail(q)[i - 1] = q[i]
      BY <1>1, <1>2, <2>1, <2>3
    <3> QED BY <2>1, <3>1 DEF Differs
  <2> QED BY <2>2, <2>3
<1> QED BY <1>3, <1>4, <1>5

\* A last payload that shows something else differs.
LEMMA LastDiffers ==
    ASSUME NEW q, NEW t, NEW v, NEW x, LastIs(t, q, v), v # NaN, Clamp(v) # x
    PROVE  Differs(t, q, x)
BY DEF LastIs, Differs

\* Nothing is known and nothing is shown before the connection is there.
LEMMA AgreeInit == ASSUME NoneIsNoTarget, Init PROVE AgreeInv
<1>1. ha \in [Target -> Value]
  BY FirstStateAssumption DEF Init, Value
<1>2. ValuesOK
  BY <1>1 DEF Init, ValuesOK
<1>3. TrackOK /\ TouchedOK
  BY DEF Init, TrackOK, TouchedOK
<1> QED BY <1>2, <1>3, InitOK DEF AgreeInv

\* What is left of the invariant by steps that touch neither messages nor setpoints.
LEMMA ScreenStep ==
    ASSUME AgreeInv, IInv', UNCHANGED <<shownVars, ui, haVars>>,
           drag' = drag,
           r'.desired = r.desired, r'.current = r.current, r'.phase = r.phase
    PROVE  AgreeInv'
<1>1. ValuesOK'
  BY DEF AgreeInv, ValuesOK, shownVars, haVars
<1>2. TrackOK'
  BY DEF AgreeInv, TrackOK, Known, shownVars, haVars
<1>3. TouchedOK'
  BY DEF AgreeInv, TouchedOK, Coming, Calm, shownVars, haVars
<1> QED BY <1>1, <1>2, <1>3 DEF AgreeInv

-----------------------------------------------------------------------------
(* Home Assistant and the connection.                                        *)

\* A payload for each setpoint that changes, and for no other.
LEMMA ChangesAre ==
    ASSUME NEW new \in [Target -> Value]
    PROVE  /\ Changes(new) \in Seq(Payload)
           /\ \A t \in Target :
                 IF link /\ new[t] # ha[t] THEN LastIs(t, Changes(new), new[t])
                 ELSE Absent(t, Changes(new))
<1>1. ASSUME NEW t \in Target, NEW s \in Target, NEW p \in Payload, p = <<t, new[t]>>
      PROVE  /\ LastIs(t, <<p>>, new[t]) /\ Absent(t, <<>>) /\ (s # t => Absent(s, <<p>>))
             /\ <<p>> \in Seq(Payload) /\ <<>> \in Seq(Payload) /\ Absent(s, <<>>)
  BY <1>1 DEF LastIs, Absent
<1>2. ASSUME NEW t \in Target
      PROVE  /\ Change(t, new) \in Seq(Payload)
             /\ \A s \in Target : s # t => Absent(s, Change(t, new))
             /\ IF link /\ new[t] # ha[t] THEN LastIs(t, Change(t, new), new[t])
                ELSE Absent(t, Change(t, new))
  <2>1. <<t, new[t]>> \in Payload
    BY DEF Payload
  <2>2. CASE link /\ new[t] # ha[t]
    <3>1. Change(t, new) = <<<<t, new[t]>>>>
      BY <2>2 DEF Change
    <3> QED BY <1>1, <2>1, <2>2, <3>1
  <2>3. CASE ~(link /\ new[t] # ha[t])
    <3>1. Change(t, new) = <<>>
      BY <2>3 DEF Change
    <3> QED BY <1>1, <2>1, <2>3, <3>1
  <2> QED BY <2>2, <2>3
<1>3. "heat" \in Target /\ "cool" \in Target /\ \A t \in Target : t = "heat" \/ t = "cool"
  BY DEF Target
<1>4. Change("heat", new) \in Seq(Payload) /\ Change("cool", new) \in Seq(Payload)
  BY <1>2, <1>3
<1>5. Changes(new) = Change("heat", new) \o Change("cool", new)
  BY DEF Changes
<1>6. IF link /\ new["heat"] # ha["heat"] THEN LastIs("heat", Changes(new), new["heat"])
      ELSE Absent("heat", Changes(new))
  BY <1>2, <1>3, <1>4, <1>5, Added
<1>7. IF link /\ new["cool"] # ha["cool"] THEN LastIs("cool", Changes(new), new["cool"])
       ELSE Absent("cool", Changes(new))
  BY <1>2, <1>3, <1>4, <1>5, Added
<1> QED BY <1>3, <1>4, <1>5, <1>6, <1>7

\* What Home Assistant changes while it is connected, it sends.
LEMMA ChangeTracked ==
    ASSUME AgreeInv, NEW new \in [Target -> Value], ha' = new,
           down' = down \o Changes(new), UNCHANGED <<link, ui, r, view, valid>>
    PROVE  TrackOK' /\ down' \in Seq(Payload)
<1>1. down \in Seq(Payload) /\ ha \in [Target -> Value] /\ Changes(new) \in Seq(Payload)
  BY ChangesAre DEF AgreeInv, ValuesOK
<1>2. ASSUME link', NEW t \in Target
      PROVE  LastIs(t, down', ha'[t]) \/ (Known(t)' /\ Absent(t, down'))
  <2>1. link
    BY <1>2
  <2>2. CASE new[t] # ha[t]
    <3>1. LastIs(t, Changes(new), new[t])
      BY <2>1, <2>2, ChangesAre
    <3> QED BY <1>1, <3>1, Added
  <2>3. CASE new[t] = ha[t]
    <3>1. Absent(t, Changes(new))
      BY <2>3, ChangesAre
    <3>2. LastIs(t, down, new[t]) \/ (Known(t) /\ Absent(t, down))
      BY <2>1, <2>3 DEF AgreeInv, TrackOK
    <3>3. Known(t) => Known(t)'
      BY <2>3 DEF Known
    <3> QED BY <1>1, <3>1, <3>2, <3>3, Added
  <2> QED BY <2>2, <2>3
<1>3. down' \in Seq(Payload)
  BY <1>1
<1> QED BY <1>2, <1>3 DEF TrackOK

\* A setpoint is changed at Home Assistant.
LEMMA HaSetAgrees == ASSUME AgreeInv, HaSet PROVE AgreeInv'
<1>1. PICK t \in Target, v \in Value :
          ha' = [ha EXCEPT ![t] = v] /\ down' = down \o Changes(ha')
  BY DEF HaSet, Value
<1>2. ha' \in [Target -> Value]
  BY <1>1 DEF AgreeInv, ValuesOK
<1>3. UNCHANGED <<shownVars, view, valid, anim, moved, ui, r, drag, screen, up, link, failed>>
  BY DEF HaSet, shownVars
<1>4. IInv'
  BY <1>3 DEF AgreeInv, IInv, ShapeOK, PhaseOK, LatestWins, ShownUnlessTouched
<1>5. TrackOK' /\ down' \in Seq(Payload)
  BY <1>1, <1>2, <1>3, ChangeTracked
<1>6. ValuesOK'
  BY <1>2, <1>3, <1>5 DEF AgreeInv, ValuesOK
<1>7. \A x, s : Differs(s, down, x) => Differs(s, down', x)
  BY <1>1, <1>2, ChangesAre, Added DEF AgreeInv, ValuesOK
<1>8. TouchedOK'
  BY <1>3, <1>7 DEF AgreeInv, TouchedOK, Coming, Calm
<1> QED BY <1>4, <1>5, <1>6, <1>8 DEF AgreeInv

\* A command is obeyed: if the setpoint was not what the display shows, the
\* answer to the last command is.
LEMMA HaCommandAgrees == ASSUME AgreeInv, HaCommand PROVE AgreeInv'
<1>1. /\ up \in Seq([Target -> UiTemp]) /\ up # <<>> /\ up' = Tail(up) /\ ha' = Head(up)
      /\ down' = down \o Changes(ha') /\ down \in Seq(Payload)
  BY DEF HaCommand, AgreeInv, ValuesOK
<1>2. Head(up) \in [Target -> UiTemp] /\ Tail(up) \in Seq([Target -> UiTemp])
  BY <1>1
<1>3. ha' \in [Target -> Value]
  BY <1>1, <1>2, ClampRange DEF Value
<1>4. /\ UNCHANGED <<shownVars, view, valid, anim, moved, ui, r, drag, screen, link>>
      /\ failed' = (failed \/ ~link)
  BY DEF HaCommand, shownVars
<1>5. IInv'
  BY <1>4 DEF AgreeInv, IInv, ShapeOK, PhaseOK, LatestWins, ShownUnlessTouched
<1>6. TrackOK' /\ down' \in Seq(Payload)
  BY <1>1, <1>3, <1>4, ChangeTracked
<1>7. ValuesOK'
  BY <1>1, <1>2, <1>3, <1>4, <1>6 DEF AgreeInv, ValuesOK
<1>8. \A x, s : Differs(s, down, x) => Differs(s, down', x)
  BY <1>1, <1>3, ChangesAre, Added
<1>9. ASSUME Calm', ~failed', NEW t \in moved'
      PROVE  drag' = t \/ Coming(t, Clamp(r.desired[t].temp))'
  <2> DEFINE x == Clamp(r.desired[t].temp)
  <2>1. /\ t \in moved /\ t \in Target /\ link' /\ ui' /\ r' = r
        /\ drag = t \/ Coming(t, x)
    BY <1>4, <1>9 DEF AgreeInv, TouchedOK, Calm, ValuesOK
  <2> HIDE DEF x
  <2>2. CASE Sends(t, up, x) /\ ~Sends(t, Tail(up), x)
    <3>1. Head(up)[t] # x
      <4>1. PICK i \in 1..Len(up) : up[i][t] # x
        BY <2>2 DEF Sends
      <4>2. i # 1 => i - 1 \in 1..Len(Tail(up)) /\ Tail(up)[i - 1] = up[i]
        BY <1>1
      <4>3. i = 1
        BY <2>2, <4>1, <4>2 DEF Sends
      <4> QED BY <1>1, <4>1, <4>3
    <3>2. /\ ha'[t] \in UiTemp /\ ha'[t] # NaN /\ Clamp(ha'[t]) # x
      BY <1>1, <1>2, <2>1, <3>1, ClampRange
    <3>3. ~Known(t)'
      BY <2>1, <3>2 DEF Known, x
    <3>4. LastIs(t, down', ha'[t])
      BY <1>6, <2>1, <3>3 DEF TrackOK
    <3> QED BY <2>1, <3>2, <3>4, LastDiffers DEF Coming, x
  <2>3. CASE ~(Sends(t, up, x) /\ ~Sends(t, Tail(up), x))
    BY <1>1, <1>4, <1>8, <2>1, <2>3 DEF Coming, x
  <2> QED BY <2>2, <2>3
<1>10. TouchedOK'
  BY <1>9 DEF TouchedOK
<1> QED BY <1>5, <1>6, <1>7, <1>10 DEF AgreeInv

\* A loss of the connection that costs a message is a failure.
LEMMA LinkDownAgrees == ASSUME AgreeInv, LinkDown PROVE AgreeInv'
<1>1. /\ UNCHANGED <<shownVars, view, valid, anim, moved, ui, r, drag, screen, ha>>
      /\ ~link' /\ down' \in {down, <<>>} /\ up' \in {up, <<>>}
      /\ failed' = (failed \/ up' # up \/ down' # down)
  BY DEF LinkDown, shownVars
<1>2. IInv'
  BY <1>1 DEF AgreeInv, IInv, ShapeOK, PhaseOK, LatestWins, ShownUnlessTouched
<1>3. ValuesOK'
  <2>1. <<>> \in Seq(Payload) /\ <<>> \in Seq([Target -> UiTemp])
    OBVIOUS
  <2>2. down \in Seq(Payload) /\ up \in Seq([Target -> UiTemp])
    BY DEF AgreeInv, ValuesOK
  <2>3. down' \in Seq(Payload) /\ up' \in Seq([Target -> UiTemp])
    BY <1>1, <2>1, <2>2
  <2> QED BY <1>1, <2>3 DEF AgreeInv, ValuesOK
<1>4. TrackOK'
  BY <1>1 DEF TrackOK
<1>5. TouchedOK'
  BY <1>1 DEF AgreeInv, TouchedOK, Coming, Calm
<1> QED BY <1>2, <1>3, <1>4, <1>5 DEF AgreeInv

\* The new subscription brings both setpoints.
LEMMA LinkUpAgrees == ASSUME AgreeInv, LinkUp PROVE AgreeInv'
<1> DEFINE h == <<"heat", ha["heat"]>>
           c == <<"cool", ha["cool"]>>
<1>1. /\ UNCHANGED <<shownVars, view, valid, anim, moved, ui, r, drag, screen, ha, up, failed>>
      /\ down' = down \o <<h, c>> /\ down \in Seq(Payload)
  BY DEF LinkUp, shownVars, AgreeInv, ValuesOK
<1>2. h \in Payload /\ c \in Payload /\ h[1] = "heat" /\ c[1] = "cool"
  BY DEF Payload, Target, AgreeInv, ValuesOK
<1>3. LastIs("heat", <<h, c>>, ha["heat"]) /\ LastIs("cool", <<h, c>>, ha["cool"])
  BY <1>2 DEF LastIs
<1> HIDE DEF h, c
<1>4. <<h, c>> \in Seq(Payload) /\ down' \in Seq(Payload)
  BY <1>1, <1>2
<1>5. \A t \in Target : LastIs(t, down', ha'[t])
  BY <1>1, <1>3, <1>4, Added DEF Target
<1>6. IInv'
  BY <1>1 DEF AgreeInv, IInv, ShapeOK, PhaseOK, LatestWins, ShownUnlessTouched
<1>7. ValuesOK'
  BY <1>1, <1>4 DEF AgreeInv, ValuesOK
<1>8. \A x, s : Differs(s, down, x) => Differs(s, down', x)
  BY <1>1, <1>4, Added
<1>9. TouchedOK'
  BY <1>1, <1>8 DEF AgreeInv, TouchedOK, Coming, Calm
<1> QED BY <1>5, <1>6, <1>7, <1>9 DEF AgreeInv, TrackOK

-----------------------------------------------------------------------------
(* The device.                                                               *)

\* A step of a burst, which is for session d, shows temperatures of the display;
\* once it has ended, nothing is left that the user dragged.
BurstGoesOn(d) ==
    /\ r'.desired = d /\ r'.phase # "idle" /\ \A t \in Target : r'.current[t].temp \in Int
    /\ view' \in [Target -> UiTemp]
    /\ moved' \subseteq moved /\ (Calm' => moved' = {})

LEMMA CompleteEffect ==
    ASSUME NEW x, Rec(x), \A t \in Target : x.current[t].temp \in Int, Complete(x)
    PROVE  BurstGoesOn(x.desired)
<1>1. /\ r' = [x EXCEPT !.phase = "post_delay"] /\ moved' = {}
      /\ view' = [t \in Target |-> Clamp(x.current[t].temp)]
  BY DEF Complete
<1>2. r'.desired = x.desired /\ r'.current = x.current /\ r'.phase = "post_delay"
  BY <1>1 DEF Rec
<1>3. view' \in [Target -> UiTemp]
  BY <1>1, ClampRange
<1> QED BY <1>1, <1>2, <1>3 DEF BurstGoesOn

LEMMA StartEffect ==
    ASSUME NEW x, Rec(x), \A t \in Target : x.current[t].temp \in Int,
           NEW vw \in [Target -> UiTemp], NEW vd, StartAnimation(x, vw, vd)
    PROVE  BurstGoesOn(x.desired)
<1> DEFINE started == [x EXCEPT !.phase = "animating", !.sameSerial = TRUE]
<1>1. /\ Rec(started) /\ started.phase = "animating" /\ started.pending = x.pending
      /\ started.current = x.current /\ started.desired = x.desired
  BY StartedFields
<1>2. \/ Complete(started)
      \/ \E moving \in SUBSET Target \ {{}} :
            /\ r' = started /\ moved' = moved \cap moving
            /\ view' = [t \in Target |->
                           IF t \in moving THEN vw[t] ELSE Clamp(x.current[t].temp)]
  BY <1>1 DEF StartAnimation
<1> HIDE DEF started
<1>3. CASE Complete(started)
  BY <1>1, <1>3, CompleteEffect
<1>4. CASE ~Complete(started)
  <2>1. PICK moving \in SUBSET Target \ {{}} :
            /\ r' = started /\ moved' = moved \cap moving
            /\ view' = [t \in Target |->
                           IF t \in moving THEN vw[t] ELSE Clamp(x.current[t].temp)]
    BY <1>2, <1>4
  <2>2. view' \in [Target -> UiTemp]
    BY <2>1, ClampRange
  <2> QED BY <1>1, <2>1, <2>2 DEF BurstGoesOn, Calm
<1> QED BY <1>3, <1>4

LEMMA StartPendingEffect ==
    ASSUME NEW x, Rec(x), \A t \in Target : x.pending[t].temp \in Int,
           NEW vw \in [Target -> UiTemp], NEW vd, StartPending(x, vw, vd)
    PROVE  BurstGoesOn(x.desired)
<1> DEFINE y == [x EXCEPT !.current = x.pending, !.pending = None]
<1>1. Rec(y) /\ y.current = x.pending /\ y.desired = x.desired
  BY PendingFields
<1>2. StartAnimation(y, vw, vd)
  BY DEF StartPending
<1> HIDE DEF y
<1> QED BY <1>1, <1>2, StartEffect

\* A burst that goes on for the session requested keeps the agreement.
LEMMA BurstAgrees ==
    ASSUME AgreeInv, IInv', ui, BurstGoesOn(r.desired), UNCHANGED <<ui, drag, haVars>>
    PROVE  AgreeInv'
<1>1. ValuesOK'
  <2>1. \A v \in UiTemp : v \in Int
    BY SetpointConstants DEF UiTemp
  <2>2. view' \in [Target -> Int]
    BY <2>1 DEF BurstGoesOn
  <2> QED BY <2>2 DEF AgreeInv, ValuesOK, BurstGoesOn, haVars
<1>2. TrackOK'
  BY DEF AgreeInv, TrackOK, Known, BurstGoesOn, haVars
<1>3. TouchedOK'
  BY DEF TouchedOK, BurstGoesOn
<1> QED BY <1>1, <1>2, <1>3 DEF AgreeInv

\* The timers and frames of a burst.
LEMMA ControllerAgrees ==
    ASSUME AgreeInv,
           WaitLitPoll \/ PreDelayDone \/ PostDelayDone \/ AnimationFrame \/ AnimationsReady
    PROVE  AgreeInv'
<1>1. Rec(r) /\ IInv' /\ UNCHANGED <<ui, drag, haVars>>
  BY TimersOK, FramesOK
     DEF AgreeInv, IInv, ShapeOK, WaitLitPoll, PreDelayDone, PostDelayDone, AnimationFrame,
         AnimationsReady
<1>2. ui /\ view \in [Target -> UiTemp] /\ \A t \in Target : r.current[t].temp \in Int
  BY DEF AgreeInv, IInv, PhaseOK, ValuesOK, WaitLitPoll, PreDelayDone, PostDelayDone,
         AnimationFrame, AnimationsReady
<1>3. CASE WaitLitPoll
  <2>1. /\ r'.desired = r.desired /\ r'.current = r.current /\ r'.phase = "pre_delay"
        /\ UNCHANGED shownVars
    BY <1>1, <1>3 DEF WaitLitPoll, Rec
  <2>2. BurstGoesOn(r.desired)
    BY <1>2, <2>1 DEF BurstGoesOn, Calm, shownVars
  <2> QED BY <1>1, <1>2, <2>2, BurstAgrees
<1>4. CASE PreDelayDone
  BY <1>1, <1>2, <1>4, StartEffect, BurstAgrees DEF PreDelayDone
<1>5. CASE PostDelayDone
  <2>1. r'.desired = r.desired /\ r'.phase = "idle" /\ Calm /\ UNCHANGED shownVars
    BY <1>1, <1>5 DEF PostDelayDone, Rec, Calm
  <2>2. ValuesOK'
    BY <1>1, <2>1 DEF AgreeInv, ValuesOK, shownVars, haVars
  <2>3. TrackOK'
    BY <1>1, <2>1 DEF AgreeInv, TrackOK, Known, shownVars, haVars
  <2>4. TouchedOK'
    BY <1>1, <2>1 DEF AgreeInv, TouchedOK, Coming, shownVars, haVars
  <2> QED BY <1>1, <2>2, <2>3, <2>4 DEF AgreeInv
<1>6. CASE AnimationFrame
  <2>1. r' = r /\ UNCHANGED moved /\ r.phase = "animating" /\ view' \in [Target -> UiTemp]
    BY <1>2, <1>6 DEF AnimationFrame, AgreeInv, IInv, PhaseOK
  <2>2. BurstGoesOn(r.desired)
    BY <1>2, <2>1 DEF BurstGoesOn, Calm
  <2> QED BY <1>1, <1>2, <2>2, BurstAgrees
<1>7. CASE AnimationsReady
  <2>1. CASE Complete(r)
    BY <1>1, <1>2, <2>1, CompleteEffect, BurstAgrees
  <2>2. CASE ~Complete(r)
    <3> DEFINE vw == [t \in Target |-> Clamp(r.current[t].temp)]
               vd == [t \in Target |-> r.current[t].ok]
    <3>1. r.pending # None /\ StartPending(r, vw, vd)
      BY <1>7, <2>2 DEF AnimationsReady
    <3>2. vw \in [Target -> UiTemp]
      BY <1>2, ClampRange
    <3>3. r.phase # "idle" /\ \A t \in Target : r.pending[t].temp = r.desired[t].temp
      BY <1>7, <3>1 DEF AnimationsReady, AgreeInv, IInv, PhaseOK, LatestWins
    <3>4. \A t \in Target : r.pending[t].temp \in Int
      BY <3>3 DEF AgreeInv, ValuesOK
    <3> HIDE DEF vw, vd
    <3> QED BY <1>1, <1>2, <3>1, <3>2, <3>4, StartPendingEffect, BurstAgrees
  <2> QED BY <2>1, <2>2
<1> QED BY <1>3, <1>4, <1>5, <1>6, <1>7

\* A setpoint submitted is what is requested; if it is a new one, a burst begins
\* or goes on.
LEMMA SubmitEffect ==
    ASSUME AgreeInv, ui, NEW t \in Target, NEW v \in Int, Submit(t, v)
    PROVE  /\ \A s \in Target : r'.desired[s].temp = IF s = t THEN v ELSE r.desired[s].temp
           /\ r'.phase # "idle" => \A s \in Target : r'.current[s].temp \in Int
           /\ view' \in [Target -> UiTemp]
           /\ moved' \subseteq moved
           /\ \/ Calm' => moved' = {}
              \/ v = r.desired[t].temp /\ UNCHANGED <<view, moved>> /\ r'.phase = r.phase
<1> DEFINE session == [r.desired EXCEPT ![t] = [temp |-> v, ok |-> TRUE]]
           rr == [r EXCEPT !.desired[t] = [temp |-> v, ok |-> TRUE]]
<1>1. /\ Rec(r) /\ Session(r.desired) /\ view \in [Target -> UiTemp]
      /\ \A s \in Target : r.desired[s].temp \in Int
      /\ r.phase # "idle" => \A s \in Target : r.current[s].temp \in Int
  BY DEF AgreeInv, IInv, ShapeOK, ValuesOK
<1>2. \A s \in Target : /\ session[s].temp = IF s = t THEN v ELSE r.desired[s].temp
                        /\ session[s].temp \in Int
  BY <1>1 DEF Session
<1>3. /\ Rec(rr) /\ rr.desired = session /\ rr.phase = r.phase
      /\ rr.current = r.current /\ rr.pending = r.pending
  <2>1. rr = [r EXCEPT !.desired = session]
    BY <1>1 DEF Rec
  <2> HIDE DEF session
  <2>2. LET q == [r EXCEPT !.desired = session]
        IN q.desired = session /\ q.phase = r.phase /\ q.current = r.current /\ q.pending = r.pending
    BY <1>1 DEF Rec
  <2> QED BY <1>1, <2>1, <2>2, FieldSet
<1>4. \/ r.desired[t].temp = v /\ r' = rr /\ UNCHANGED <<shownVars, screen>>
      \/ QueueSession(rr, session)
  BY <1>3 DEF Submit
<1> HIDE DEF session, rr
<1>5. CASE r.desired[t].temp = v /\ r' = rr /\ UNCHANGED <<shownVars, screen>>
  BY <1>1, <1>2, <1>3, <1>5 DEF shownVars
<1>6. CASE QueueSession(rr, session)
  <2>1. SUFFICES BurstGoesOn(session)
    BY <1>2, <2>1 DEF BurstGoesOn
  <2>2. CASE QueueFirst(rr, session)
    <3>1. /\ r'.desired = session /\ r'.current = session /\ r'.phase \in {"wait_lit", "pre_delay"}
          /\ UNCHANGED <<view, moved>>
      BY <1>3, <2>2 DEF QueueFirst, Rec, shownVars
    <3> QED BY <1>1, <1>2, <3>1 DEF BurstGoesOn, Calm
  <2>3. CASE QueueBeforeAnimation(rr, session)
    <3>1. /\ r'.desired = session /\ r'.current = session /\ r'.phase \in {"wait_lit", "pre_delay"}
          /\ UNCHANGED <<view, moved>>
      BY <1>3, <2>3 DEF QueueBeforeAnimation, Rec, shownVars
    <3> QED BY <1>1, <1>2, <3>1 DEF BurstGoesOn, Calm
  <2>4. CASE QueuePending(rr, session)
    <3>1. /\ r'.desired = session /\ r'.current = r.current /\ r'.phase = "animating"
          /\ r.phase = "animating" /\ UNCHANGED <<view, moved>>
      BY <1>3, <2>4 DEF QueuePending, Rec, shownVars
    <3> QED BY <1>1, <3>1 DEF BurstGoesOn, Calm
  <2>5. CASE QueueDuringHold(rr, session)
    <3> DEFINE x == [rr EXCEPT !.pending = session]
    <3>1. Rec(x) /\ x.pending = session /\ x.desired = session
      BY <1>3 DEF Rec
    <3>2. StartPending(x, view, valid)
      BY <2>5 DEF QueueDuringHold
    <3> HIDE DEF x
    <3> QED BY <1>1, <1>2, <3>1, <3>2, StartPendingEffect
  <2> QED BY <1>6, <2>2, <2>3, <2>4, <2>5 DEF QueueSession
<1> QED BY <1>4, <1>5, <1>6

\* The payload that is taken is known from now on, if it was the last; if it does
\* not begin a burst, it was not the one to bring the display along.
LEMMA DeliverAgrees == ASSUME NoneIsNoSession, AgreeInv, Deliver PROVE AgreeInv'
<1>1. /\ down \in Seq(Payload) /\ down # <<>> /\ down' = Tail(down)
      /\ Apply(Head(down)[1], Head(down)[2])
      /\ UNCHANGED <<ui, drag, ha, up, link, failed>>
  BY DEF Deliver, AgreeInv, ValuesOK
<1>2. PICK t \in Target, v \in Value : Head(down) = <<t, v>> /\ Apply(t, v)
  <2>1. \A p \in Payload : p[1] \in Target /\ p[2] \in Value /\ p = <<p[1], p[2]>>
    BY DEF Payload
  <2>2. Head(down) \in Payload
    BY <1>1
  <2> QED BY <1>1, <2>1, <2>2
<1>3. IInv' /\ Tail(down) \in Seq(Payload) /\ (v # NaN => v \in Int)
  BY <1>1, DeliverOK, SetpointConstants DEF AgreeInv, Value
\* What each way to apply the payload owes.
<1>4. SUFFICES
        /\ ValuesOK'
        /\ \A s \in Target \ {t} : Known(s) => Known(s)'
        /\ ha[t] = v => Known(t)'
        /\ Calm' => \/ moved' = {}
                    \/ /\ v = NaN \/ Clamp(v) = Clamp(r.desired[t].temp)
                       /\ UNCHANGED <<view, moved>> /\ r'.phase = r.phase
                       /\ \A s \in Target : r'.desired[s].temp = r.desired[s].temp
  <2>1. ASSUME link', NEW s \in Target
        PROVE  LastIs(s, down', ha'[s]) \/ (Known(s)' /\ Absent(s, down'))
    <3>1. link /\ (LastIs(s, down, ha[s]) \/ (Known(s) /\ Absent(s, down)))
      BY <1>1, <2>1 DEF AgreeInv, TrackOK
    <3>2. CASE LastIs(s, down, ha[s])
      <4>1. \/ LastIs(s, Tail(down), ha[s])
            \/ Absent(s, Tail(down)) /\ Head(down) = <<s, ha[s]>>
        BY <1>1, <3>2, Taken
      <4>2. Head(down) = <<s, ha[s]>> => s = t /\ ha[t] = v
        BY <1>2
      <4> QED BY <1>1, <1>4, <4>1, <4>2
    <3>3. CASE Known(s) /\ Absent(s, down)
      <4>1. Absent(s, Tail(down)) /\ Head(down)[1] # s
        BY <1>1, <3>3, Taken
      <4> QED BY <1>1, <1>2, <1>4, <3>3, <4>1
    <3> QED BY <3>1, <3>2, <3>3
  <2>2. ASSUME Calm', ~failed', NEW s \in moved'
        PROVE  drag' = s \/ Coming(s, Clamp(r.desired[s].temp))'
    <3> DEFINE x == Clamp(r.desired[s].temp)
    <3>1. /\ v = NaN \/ Clamp(v) = Clamp(r.desired[t].temp)
          /\ UNCHANGED <<view, moved>> /\ Calm /\ s \in Target
          /\ r'.desired[s].temp = r.desired[s].temp
      BY <1>4, <2>2 DEF Calm, AgreeInv, ValuesOK
    <3>2. drag = s \/ Coming(s, x)
      BY <1>1, <2>2, <3>1 DEF AgreeInv, TouchedOK
    <3>3. \/ Differs(s, down, x) => Differs(s, down', x)
          \/ Head(down)[1] = s /\ Head(down)[2] # NaN /\ Clamp(Head(down)[2]) # x
      <4> HIDE DEF x
      <4> QED BY <1>1, Taken
    <3>4. Differs(s, down, x) => Differs(s, down', x)
      BY <1>2, <3>1, <3>3
    <3>5. x' = x
      BY <3>1
    <3> HIDE DEF x
    <3> QED BY <1>1, <3>1, <3>2, <3>4, <3>5 DEF Coming, x
  <2> QED BY <1>3, <1>4, <2>1, <2>2 DEF AgreeInv, TrackOK, TouchedOK
<1>5. CASE v = NaN
  <2>1. valid' = [valid EXCEPT ![t] = FALSE] /\ UNCHANGED <<view, anim, moved, r, screen>>
    BY <1>2, <1>5 DEF Apply
  <2>2. ValuesOK'
    BY <1>1, <1>3, <2>1 DEF AgreeInv, ValuesOK
  <2> QED BY <1>1, <1>5, <2>1, <2>2 DEF Known
<1>6. CASE v # NaN /\ ~ui
  <2>1. /\ view' = [view EXCEPT ![t] = v] /\ valid' = [valid EXCEPT ![t] = TRUE]
        /\ UNCHANGED <<anim, moved, r, screen>>
    BY <1>2, <1>6 DEF Apply
  <2>2. ValuesOK' /\ moved' = {}
    BY <1>1, <1>3, <1>6, <2>1 DEF AgreeInv, ValuesOK
  <2>3. ASSUME NEW s \in Target \ {t}, Known(s) PROVE Known(s)'
    BY <1>1, <1>6, <2>1, <2>3 DEF Known
  <2>4. ha[t] = v => Known(t)'
    <3>1. t \in DOMAIN view /\ t \in DOMAIN valid
      BY <1>2, <1>6 DEF AgreeInv, ValuesOK
    <3> QED BY <1>1, <1>2, <1>6, <2>1, <3>1 DEF Known
  <2> QED BY <2>2, <2>3, <2>4
<1>7. CASE v # NaN /\ ui
  <2>1. Submit(t, v) /\ v \in Int
    BY <1>2, <1>3, <1>7 DEF Apply
  <2>2. /\ \A s \in Target : r'.desired[s].temp = IF s = t THEN v ELSE r.desired[s].temp
        /\ r'.phase # "idle" => \A s \in Target : r'.current[s].temp \in Int
        /\ view' \in [Target -> UiTemp]
        /\ moved' \subseteq moved
        /\ \/ Calm' => moved' = {}
           \/ v = r.desired[t].temp /\ UNCHANGED <<view, moved>> /\ r'.phase = r.phase
    BY <1>2, <1>7, <2>1, SubmitEffect
  <2>3. ValuesOK'
    <3>1. \A w \in UiTemp : w \in Int
      BY SetpointConstants DEF UiTemp
    <3>2. view' \in [Target -> Int]
      BY <2>2, <3>1
    <3> QED BY <1>1, <1>3, <1>7, <2>1, <2>2, <3>2 DEF AgreeInv, ValuesOK
  <2>4. ASSUME NEW s \in Target \ {t}, Known(s) PROVE Known(s)'
    BY <1>1, <1>7, <2>2, <2>4 DEF Known
  <2>5. ha[t] = v => Known(t)'
    BY <1>1, <1>2, <1>7, <2>2 DEF Known
  <2>6. Calm' => \/ moved' = {}
                 \/ /\ v = NaN \/ Clamp(v) = Clamp(r.desired[t].temp)
                    /\ UNCHANGED <<view, moved>> /\ r'.phase = r.phase
                    /\ \A s \in Target : r'.desired[s].temp = r.desired[s].temp
    BY <2>2
  <2> QED BY <2>3, <2>4, <2>5, <2>6
<1> QED BY <1>5, <1>6, <1>7

\* The display comes up with the setpoints that are known, or with the defaults.
LEMMA UiInitAgrees == ASSUME AgreeInv, UiInit PROVE AgreeInv'
<1>1. /\ Rec(r) /\ view \in [Target -> Int] /\ ~ui /\ moved = {}
      /\ UNCHANGED <<valid, anim, moved, drag, haVars>> /\ ui'
      /\ view' = [t \in Target |-> Clamp(IF valid[t] THEN view[t]
                                         ELSE IF t = "cool" THEN CoolDefault ELSE HeatDefault)]
      /\ r' = [r EXCEPT !.desired = [t \in Target |-> [temp |-> view'[t], ok |-> valid[t]]]]
  BY DEF UiInit, AgreeInv, IInv, ShapeOK, ValuesOK
<1>2. CoolDefault \in Int /\ HeatDefault \in Int /\ \A v \in UiTemp : v \in Int
  BY SetpointConstants DEF UiTemp
<1>3. view' \in [Target -> UiTemp] /\ view' \in [Target -> Int]
  <2>1. ASSUME NEW t \in Target PROVE view'[t] \in UiTemp
    BY <1>1, <1>2, ClampRange
  <2> QED BY <1>1, <1>2, <2>1
<1>4. /\ r'.desired = [t \in Target |-> [temp |-> view'[t], ok |-> valid[t]]]
      /\ r'.phase = r.phase /\ r'.current = r.current
  BY <1>1 DEF Rec
<1>5. ValuesOK'
  BY <1>1, <1>3, <1>4 DEF AgreeInv, ValuesOK, haVars
<1>6. ASSUME NEW t \in Target, Known(t) PROVE Known(t)'
  <2>1. CASE ha[t] = NaN
    BY <1>1, <2>1 DEF Known, haVars
  <2>2. CASE valid[t] /\ view[t] = ha[t]
    <3>1. r'.desired[t].temp = Clamp(ha[t])
      BY <1>1, <1>4, <2>2
    <3> QED BY <1>1, <3>1, ClampTwice DEF Known, haVars
  <2> QED BY <1>1, <1>6, <2>1, <2>2 DEF Known
<1>7. TrackOK'
  BY <1>1, <1>6 DEF AgreeInv, TrackOK, haVars
<1>8. TouchedOK'
  BY <1>1 DEF TouchedOK
<1> QED BY <1>5, <1>7, <1>8, UiInitOK DEF AgreeInv

\* A target is dragged within the range of the display, past no other.
LEMMA DragInRange ==
    ASSUME AgreeInv, ui, NEW t \in Target, NEW v \in UiTemp, DragTo(t, v)
    PROVE  /\ view' \in [Target -> UiTemp] /\ view' = [view EXCEPT ![t] = view'[t]]
           /\ moved' = moved \cup {t}
<1>1. view \in [Target -> UiTemp] /\ \A w \in UiTemp : w \in Int
  BY SetpointConstants DEF AgreeInv, ValuesOK, UiTemp
<1>2. "cool" \in Target /\ "heat" \in Target /\ Gap \in Int
  BY SetpointConstants DEF Target
<1>3. view["heat"] + Gap \in Int /\ view["cool"] - Gap \in Int
  BY <1>1, <1>2
<1>4. Clamp(view["heat"] + Gap) \in UiTemp /\ Clamp(view["cool"] - Gap) \in UiTemp
  BY <1>3, ClampRange
<1>5. Dragged(t, v) \in UiTemp
  BY <1>4, SetpointConstants DEF Dragged, Between, UiTemp
<1> QED BY <1>1, <1>5 DEF DragTo

\* A finger that moves, or is put down, excuses the target it is on.
LEMMA FingerAgrees ==
    ASSUME NoneIsNoTarget, AgreeInv, IInv', Interaction, ui, UNCHANGED <<ui, haVars>>,
           drag' \in Target, drag \in {None, drag'},
           UNCHANGED shownVars \/ \E v \in UiTemp : DragTo(drag', v)
    PROVE  AgreeInv'
<1>1. /\ r'.desired = r.desired /\ r'.current = r.current /\ r'.phase = r.phase
  BY DEF Interaction, AgreeInv, IInv, ShapeOK, Rec
<1>2. /\ view' \in [Target -> UiTemp] /\ \A t \in Target \ {drag'} : view'[t] = view[t]
      /\ moved \subseteq moved' /\ moved' \subseteq moved \cup {drag'}
  <2>1. CASE UNCHANGED shownVars
    BY <2>1 DEF shownVars, AgreeInv, ValuesOK
  <2>2. CASE \E v \in UiTemp : DragTo(drag', v)
    <3>1. PICK v \in UiTemp : DragTo(drag', v)
      BY <2>2
    <3>2. /\ view' \in [Target -> UiTemp] /\ view' = [view EXCEPT ![drag'] = view'[drag']]
          /\ moved' = moved \cup {drag'}
      BY <3>1, DragInRange
    <3>3. view \in [Target -> UiTemp]
      BY DEF AgreeInv, ValuesOK
    <3> QED BY <3>2, <3>3
  <2> QED BY <2>1, <2>2
<1>3. ValuesOK'
  <2>1. view' \in [Target -> Int]
    BY <1>2, SetpointConstants DEF UiTemp
  <2> QED BY <1>1, <1>2, <2>1 DEF AgreeInv, ValuesOK, haVars
<1>4. TrackOK'
  BY <1>1 DEF AgreeInv, TrackOK, Known, haVars
<1>5. ASSUME Calm', ~failed', NEW t \in moved', t # drag'
      PROVE  Coming(t, Clamp(r.desired[t].temp))'
  <2>1. /\ Calm /\ ~failed /\ t \in moved /\ t \in Target /\ drag # t
    BY <1>1, <1>2, <1>5 DEF Calm, haVars, AgreeInv, ValuesOK, NoneIsNoTarget
  <2>2. Coming(t, Clamp(r.desired[t].temp))
    BY <2>1 DEF AgreeInv, TouchedOK
  <2> QED BY <1>1, <1>2, <1>5, <2>1, <2>2 DEF Coming, haVars
<1>6. TouchedOK'
  BY <1>5 DEF TouchedOK
<1> QED BY <1>3, <1>4, <1>6 DEF AgreeInv

\* What a finger leaves on the display is published when it is lifted.
LEMMA ReleaseAgrees == ASSUME NoneIsNoTarget, AgreeInv, Release PROVE AgreeInv'
<1>1. /\ drag \in Target /\ drag' = None /\ Interaction /\ UNCHANGED <<ui, ha, down, link>>
      /\ ui /\ IInv' /\ up \in Seq([Target -> UiTemp])
  BY UserOK DEF Release, AgreeInv, ValuesOK
<1>2. PICK v \in UiTemp : DragTo(drag, v)
  BY DEF Release
<1>3. /\ view' \in [Target -> UiTemp] /\ view' = [view EXCEPT ![drag] = view'[drag]]
      /\ moved' = moved \cup {drag}
  BY <1>1, <1>2, DragInRange
<1>4. /\ r'.desired = r.desired /\ r'.current = r.current /\ r'.phase = r.phase
  BY <1>1 DEF Interaction, AgreeInv, IInv, ShapeOK, Rec
<1>5. (up' = Append(up, view') /\ failed' = failed) \/ (failed' = TRUE /\ up' = up)
  BY DEF Release, Commit
<1>6. /\ up' \in Seq([Target -> UiTemp])
      /\ \A s, x : Sends(s, up, x) => Sends(s, up', x)
      /\ ~failed' => ~failed /\ \A s, x : view'[s] # x => Sends(s, up', x)
  <2>1. CASE up' = up /\ failed' = TRUE
    BY <1>1, <2>1
  <2>2. CASE up' = Append(up, view') /\ failed' = failed
    <3>1. /\ Len(up') = Len(up) + 1 /\ up'[Len(up) + 1] = view' /\ Len(up) \in Nat
          /\ \A i \in 1..Len(up) : up'[i] = up[i]
      BY <1>1, <2>2
    <3>2. up' \in Seq([Target -> UiTemp])
      BY <1>1, <1>3, <2>2
    <3> QED BY <2>2, <3>1, <3>2 DEF Sends
  <2> QED BY <1>5, <2>1, <2>2
<1>7. ValuesOK'
  <2>1. view' \in [Target -> Int]
    BY <1>3, SetpointConstants DEF UiTemp
  <2> QED BY <1>1, <1>3, <1>4, <1>6, <2>1 DEF AgreeInv, ValuesOK
<1>8. TrackOK'
  BY <1>1, <1>4 DEF AgreeInv, TrackOK, Known
<1>9. ASSUME Calm', ~failed', NEW t \in moved'
      PROVE  Coming(t, Clamp(r.desired[t].temp))'
  <2>1. t \in Target /\ r' .desired = r.desired /\ down' = down
    BY <1>1, <1>3, <1>4 DEF AgreeInv, ValuesOK
  <2>2. CASE t = drag
    BY <1>6, <1>9, <2>1 DEF Coming
  <2>3. CASE t # drag
    <3>1. Coming(t, Clamp(r.desired[t].temp)) /\ view'[t] = view[t]
      <4>1. t \in moved /\ Calm /\ ~failed
        BY <1>3, <1>4, <1>6, <1>9, <2>3 DEF Calm
      <4>2. view'[t] = view[t]
        BY <1>3, <2>1, <2>3
      <4> QED BY <2>3, <4>1, <4>2 DEF AgreeInv, TouchedOK
    <3> QED BY <1>6, <2>1, <3>1 DEF Coming
  <2> QED BY <2>2, <2>3
<1>10. TouchedOK'
  BY <1>9 DEF TouchedOK
<1> QED BY <1>1, <1>7, <1>8, <1>10 DEF AgreeInv

\* What the user does, and presence.
LEMMA UserAgrees ==
    ASSUME NoneIsNoTarget, AgreeInv,
           TouchElsewhere \/ Press \/ Pressing \/ Release \/ PresenceWakes
    PROVE  AgreeInv'
<1>1. IInv'
  BY UserOK DEF AgreeInv
<1>2. CASE TouchElsewhere \/ PresenceWakes
  <2>1. /\ r'.desired = r.desired /\ r'.current = r.current /\ r'.phase = r.phase
    BY <1>2 DEF TouchElsewhere, PresenceWakes, Interaction, AgreeInv, IInv, ShapeOK, Rec
  <2> QED BY <1>1, <1>2, <2>1, ScreenStep DEF TouchElsewhere, PresenceWakes
<1>3. CASE Press
  <2>1. PICK t \in Target : drag' = t /\ (UNCHANGED shownVars \/ \E v \in UiTemp : DragTo(t, v))
    BY <1>3 DEF Press
  <2> QED BY <1>1, <1>3, <2>1, FingerAgrees DEF Press
<1>4. CASE Pressing
  <2>1. drag \in Target /\ drag' = drag /\ ui
    BY <1>4 DEF Pressing, AgreeInv, ValuesOK
  <2> QED BY <1>1, <1>4, <2>1, FingerAgrees DEF Pressing
<1> QED BY <1>2, <1>3, <1>4, ReleaseAgrees

\* Every step keeps the agreement.
LEMMA AgreeStep ==
    ASSUME NoneIsNoSession, NoneIsNoTarget, AgreeInv, [Next]_vars
    PROVE  AgreeInv'
<1>1. CASE \/ IdleTimerPutOff \/ ScreenSleeps \/ FadeEnds \/ DaypartRelights
           \/ UNCHANGED vars
  <2>1. UNCHANGED <<shownVars, ui, haVars>> /\ drag' = drag /\ r' = r
    BY <1>1 DEF IdleTimerPutOff, ScreenSleeps, FadeEnds, DaypartRelights, vars
  <2> QED BY <2>1, StepOK, ScreenStep DEF AgreeInv
<1> QED BY <1>1, DeliverAgrees, HaSetAgrees, HaCommandAgrees, LinkDownAgrees, LinkUpAgrees,
           ControllerAgrees, UiInitAgrees, UserAgrees DEF Next

\* The invariant of the agreement holds in every reachable state.
THEOREM AgreeInvariance ==
    ASSUME NoneIsNoSession, NoneIsNoTarget PROVE Spec => []AgreeInv
<1>1. Init => AgreeInv
  BY AgreeInit
<1>2. AgreeInv /\ [Next]_vars => AgreeInv'
  BY AgreeStep
<1> QED BY <1>1, <1>2, PTL DEF Spec

\* The display and Home Assistant never disagree for good: when no message is on
\* its way, nobody touches a slider and no burst is under way, they agree, whatever
\* was changed where and when, unless a message was lost or refused.
THEOREM SettledAgreesHolds ==
    ASSUME NoneIsNoSession, NoneIsNoTarget PROVE Spec => []SettledAgrees
<1>1. ASSUME AgreeInv PROVE SettledAgrees
  <2> SUFFICES ASSUME ui, link, ~failed, down = <<>>, up = <<>>, drag = None, Calm,
                      NEW t \in Target, ha[t] # NaN
               PROVE  view[t] = Clamp(ha[t])
    BY DEF SettledAgrees, Agree
  <2>1. \A x, v : ~Sends(t, up, x) /\ ~Differs(t, down, x) /\ ~LastIs(t, down, v)
    BY DEF Sends, Differs, LastIs
  <2>2. Clamp(r.desired[t].temp) = Clamp(ha[t])
    BY <1>1, <2>1 DEF AgreeInv, TrackOK, Known
  <2>3. CASE t \notin moved
    BY <1>1, <2>2, <2>3 DEF AgreeInv, IInv, ShownUnlessTouched, Calm
  <2>4. CASE t \in moved
    BY <1>1, <2>1, <2>2, <2>4 DEF AgreeInv, TouchedOK, Coming, NoneIsNoTarget
  <2> QED BY <2>3, <2>4
<1> QED BY <1>1, AgreeInvariance, PTL
=============================================================================
