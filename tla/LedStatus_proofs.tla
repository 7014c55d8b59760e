---------------------------- MODULE LedStatus_proofs ----------------------------
(***************************************************************************)
(* Proofs about the strip of LEDs for every number of calls and faces: it  *)
(* shows what the engine believes it shows, HVAC looks take it from no     *)
(* owner, and a strip nobody owns shows the state of the device, outside   *)
(* the races their properties name.  IInv adds what they rest on: whatever *)
(* a task does in a call, its last step is one that restores the strip, so *)
(* that a spoiled strip is owned, or somebody still owes it its look.      *)
(* PersonalPresence takes only steps of LedStatus or none, so all of it    *)
(* holds with the greetings it launches.                                   *)
(***************************************************************************)
EXTENDS PersonalPresence, SequenceTheorems, TLAPS

StatusType == [ready : BOOLEAN, booting : BOOLEAN, bootSeq : BOOLEAN, timed : BOOLEAN,
               greeting : BOOLEAN, heating : BOOLEAN, cooling : BOOLEAN, screenOn : BOOLEAN]

\* An engine in state l shows what it believes it shows; RenderedUnlessGreeting
\* says it of the engine.
Rendered(l) ==
    \/ l.effect \in Endless \ {"greeting"} /\ l.shown # "nothing"
    \/ l.effect = "idle" /\ l.look \notin {"frozen", "lost"}
    => l.shown = l.look

\* Besides, an effect that the last tick ended is shown to its end, and a sparkle
\* that is ticked looks like one, or has drained.
EngineOK(l) ==
    /\ l \in LedsType /\ Rendered(l)
    /\ l.ended => l.shown = l.look
    /\ l.effect = "sparkle" /\ l.running => l.look \in {"sparkle", "dark"}

\* The steps after which the strip has its look, an owner, or a stage to give it one;
\* those of the engine, of boot and of the timer that are the whole of a call; and
\* all others.
Restoring == Stage \cup Choosing
             \cup {"apply", "complete", "await", "success", "screenOff", "screenOn"}
Alone == {"boot", "end", "tail", "stopTimer", "callback"}
Spoiling == {"stop", "drain", "cancel", "exit", "sequence", "sequenceOver", "timedOver",
             "greetingOff", "noStage", "presence", "white", "fadeOff", "rainbow",
             "heatwave", "coolwave", "sparkle", "greeting"}
Steps == Restoring \cup Alone \cup Spoiling
\* Those that may come later in a call: only its next step is one that uses flags read
\* before, or the sparkle of boot.
Deferred == Steps \ (Choosing \cup {"boot"})

TypesOK ==
    /\ EngineOK(leds)
    /\ s \in StatusType /\ stage \in Stage \cup {"none"}
    /\ todo \in [Task -> Seq(Steps)]
    /\ main # "done" => s.booting

Single == \A t \in Task : todo[t] # <<>> => Tail(todo[t]) \in Seq(Deferred)

\* A call that is under way ends with restoring the strip.
Restores(q) == q # <<>> /\ q[Len(q)] \in Restoring
Ends(q) == q = <<>> \/ Restores(q) \/ (Len(q) = 1 /\ q[1] \in Alone)
Ending == timer # "none" => \A t \in Task : Ends(todo[t])

\* Nobody is about to take an owned strip for an HVAC look, and the look somebody is
\* about to launch is that of the flags, unless these have changed since. The sparkle
\* of boot is launched before boot_complete.
NotYetOvertaken(t) ==
    /\ At(t, "choose") \/ At(t, "heating") \/ At(t, "cooling") \/ At(t, "bias") => ~Busy
    /\ At(t, "heating") => Wanted = "rising"
    /\ At(t, "cooling") => Wanted = "falling"
    /\ At(t, "bias") => Wanted = "bias"
    /\ At(t, "idle") => Wanted = "dark"
    /\ At(t, "sleep") => ~s.screenOn
    /\ At(t, "biasIfFree") => ~s.heating /\ ~s.cooling /\ s.screenOn
FreshAt(t) ==
    /\ t \notin overtaken => NotYetOvertaken(t)
    /\ At(t, "boot") => t = "main" /\ main = "boot"
Fresh == \A t \in Task : FreshAt(t)

\* A strip is owned, shows what it should, or will be restored by a call that is
\* under way or by the timer.
Good == \/ leds.look = Wanted \/ leds.refused \/ leds.look = "lost" \/ stale
        \/ leds.look = "dark" /\ ~s.screenOn
Owed == \/ \E t \in Task : Restores(todo[t])
        \/ Pending /\ stage # "none"
CaredFor == timer # "none" /\ s.ready => Busy \/ Good \/ Owed

IInv == TypesOK /\ Single /\ Ending /\ Fresh /\ CaredFor

-----------------------------------------------------------------------------
(* The operations of the engine.                                             *)

LEMMA CueNames ==
    Cue = {"boot", "white", "fadeOff", "heating", "cooling", "bias", "idle", "sleep",
           "rainbow", "heatwave", "coolwave", "sparkle", "greeting"}
BY DEF Cue, LookOf

LEMMA CueLooks ==
    ASSUME NEW request \in Cue
    PROVE  /\ EffectOf[request] \in {"fade"} \cup Endless /\ LookOf[request] \in Look
           /\ EffectOf[request] = "sparkle" => LookOf[request] = "sparkle"
<1>1. LookOf[request] \in Look
  BY DEF Look
<1>2. EffectOf[request] \in {"fade"} \cup Endless
  BY CueNames DEF EffectOf, Endless
<1>3. EffectOf[request] = "sparkle" => LookOf[request] = "sparkle"
  BY CueNames DEF EffectOf, LookOf
<1> QED BY <1>1, <1>2, <1>3

\* A launched effect is not yet ticked, and has the look of its cue.
LEMMA LaunchedOK ==
    ASSUME NEW l, EngineOK(l), NEW request \in Cue
    PROVE  EngineOK(Launched(l, request)) /\ Launched(l, request).look = LookOf[request]
<1> DEFINE r == Launched(l, request)
<1>1. r \in LedsType
  BY CueLooks DEF EngineOK, LedsType, Launched
<1>2. /\ r.effect = EffectOf[request] /\ r.look = LookOf[request] /\ r.shown = "nothing" /\ ~r.ended
      /\ r.effect # "idle"
  BY CueLooks DEF EngineOK, LedsType, Launched, Endless
<1> HIDE DEF r
<1>3. EngineOK(r) /\ r.look = LookOf[request]
  BY <1>1, <1>2, CueLooks DEF EngineOK, Rendered
<1> QED BY <1>3 DEF r

LEMMA CancelledOK ==
    ASSUME NEW l, EngineOK(l), NEW look \in {"frozen", "lost"}
    PROVE  EngineOK(Cancelled(l, look)) /\ Cancelled(l, look).look = look
<1> DEFINE r == Cancelled(l, look)
<1>1. /\ r \in LedsType /\ r.effect = "idle" /\ r.look = look /\ ~r.ended
  BY DEF EngineOK, LedsType, Cancelled, Look
<1> HIDE DEF r
<1>2. EngineOK(r) /\ r.look = look
  BY <1>1 DEF EngineOK, Rendered, Endless
<1> QED BY <1>2 DEF r

\* A request is refused, or cancels what it will replace.
LEMMA RequestedOK ==
    ASSUME NEW l, EngineOK(l), NEW request
    PROVE  /\ EngineOK(Requested(l, request))
           /\ Starts(l, request) = <<>> => Requested(l, request).refused
           /\ Starts(l, request) = <<>> \/ Starts(l, request) = <<request>>
<1>1. CASE Refuses(l, request)
  <2> DEFINE r == [l EXCEPT !.refused = TRUE]
  <2>1. /\ r \in LedsType /\ r.refused
        /\ r.effect = l.effect /\ r.look = l.look /\ r.shown = l.shown
        /\ r.ended = l.ended /\ r.running = l.running
    BY DEF EngineOK, LedsType
  <2> HIDE DEF r
  <2>2. EngineOK(r)
    BY <2>1 DEF EngineOK, Rendered
  <2> QED BY <1>1, <2>1, <2>2 DEF r, Requested, Starts
<1>2. CASE ~Refuses(l, request)
  BY <1>2, CancelledOK DEF Requested, Starts
<1> QED BY <1>1, <1>2

\* One tick keeps the look, or ends a sparkle in the dark.
LEMMA TickOK ==
    ASSUME EngineOK(leds), LedTick
    PROVE  /\ EngineOK(leds') /\ leds'.refused = leds.refused
           /\ leds'.look = leds.look \/ (leds.look = "sparkle" /\ leds'.look = "dark")
           /\ Begin("timer", <<"tail">>) \/ Begin("timer", <<"end">>)
<1>1. "dark" \in Look
  BY CueNames DEF Look, LookOf
<1> USE DEF EngineOK, LedsType, Rendered, Endless
<1>2. CASE TickFade
  BY <1>2 DEF TickFade, Tick
<1>3. CASE FadeDone
  BY <1>3 DEF FadeDone, LastTick
<1>4. CASE TickEndless
  BY <1>4 DEF TickEndless, Tick
<1>5. CASE SparkleDrained
  BY <1>1, <1>5 DEF SparkleDrained, LastTick
<1>6. CASE TickGreeting
  BY <1>6 DEF TickGreeting, Tick
<1> QED BY <1>2, <1>3, <1>4, <1>5, <1>6 DEF LedTick

\* What else the engine does to its state: a look that nobody asked to end is lost.
LEMMA EngineStepLooks ==
    ASSUME EngineOK(leds), NEW t, EngineStep(t)
    PROVE  /\ EngineOK(leds')
           /\ EndEffect(t) \/ TickTail(t) \/ StopTimer(t)
              => leds'.look \in {leds.look, "lost"} /\ leds'.refused = leds.refused
<1>1. CASE Stop(t) \/ TickTail(t)
  BY <1>1 DEF Stop, TickTail
<1>2. CASE Drain(t)
  BY <1>2 DEF Drain, EngineOK, LedsType, Rendered
<1>3. CASE Cancel(t)
  BY <1>3, CancelledOK DEF Cancel, EndEffect, TickTail, StopTimer, Take, At
<1>4. CASE EndEffect(t)
  <2>1. CASE leds.effect = "idle" \/ leds.ended
    BY <1>4, <2>1 DEF EndEffect, EngineOK, LedsType, Rendered, Endless
  <2>2. CASE ~(leds.effect = "idle" \/ leds.ended)
    BY <1>4, <2>2, CancelledOK DEF EndEffect, Cancelled, EngineOK, LedsType
  <2> QED BY <2>1, <2>2
<1>5. CASE StopTimer(t)
  BY <1>5 DEF StopTimer, EngineOK, LedsType, Rendered, Endless, Look
<1> QED BY <1>1, <1>2, <1>3, <1>4, <1>5 DEF EngineStep

-----------------------------------------------------------------------------
(* The steps of a call, whatever they do.                                    *)

\* What a task has left to do after a step.
LEMMA Goes ==
    ASSUME NEW q \in Seq(Steps), q # <<>>, Tail(q) \in Seq(Deferred), NEW more \in Seq(Steps)
    PROVE  LET r == more \o Tail(q)
           IN /\ r \in Seq(Steps)
              /\ more \in Seq(Deferred) => r \in Seq(Deferred)
              /\ Len(more) = 1 => Head(r) = more[1] /\ r # <<>> /\ Tail(r) \in Seq(Deferred)
              /\ Len(q) = 1 => r = more
              /\ Len(q) # 1 => r # <<>> /\ r[Len(r)] = q[Len(q)]
<1> DEFINE r == more \o Tail(q)
<1>1. Tail(q) \in Seq(Steps) /\ Len(Tail(q)) = Len(q) - 1 /\ Len(q) \in Nat \ {0}
  OBVIOUS
<1>2. r \in Seq(Steps) /\ Len(r) = Len(more) + Len(q) - 1
  BY <1>1
<1>3. more \in Seq(Deferred) => r \in Seq(Deferred)
  BY ConcatProperties
<1>4. ASSUME Len(more) = 1
      PROVE  Head(r) = more[1] /\ r # <<>> /\ Tail(r) \in Seq(Deferred)
  <2>1. r # <<>> /\ Head(r) = more[1]
    BY <1>1, <1>2, <1>4
  <2>2. Tail(r) = Tail(q)
    BY <1>1, <1>2, <1>4
  <2> QED BY <2>1, <2>2
<1>5. ASSUME Len(q) = 1
      PROVE  r = more
  <2>1. Tail(q) \in Seq(Steps) /\ Len(Tail(q)) = 0
    BY <1>1, <1>5
  <2>2. Tail(q) = <<>>
    BY <2>1, EmptySeq
  <2> QED BY <2>2, ConcatEmptySeq
<1>6. ASSUME Len(q) # 1
      PROVE  r # <<>> /\ r[Len(r)] = q[Len(q)]
  <2> DEFINE n == Len(q) - 1
  <2>1. /\ n \in 1 .. Len(Tail(q)) /\ Len(more) \in Nat
        /\ Len(r) = Len(more) + n /\ Len(r) \in 1 .. Len(more) + Len(Tail(q))
    BY <1>1, <1>2, <1>6
  <2>2. r[Len(r)] = IF Len(r) <= Len(more) THEN more[Len(r)] ELSE Tail(q)[Len(r) - Len(more)]
    BY <1>1, <2>1, ConcatProperties
  <2>3. Len(r) - Len(more) = n /\ ~(Len(r) <= Len(more))
    BY <2>1
  <2>4. r[Len(r)] = Tail(q)[n]
    BY <2>2, <2>3
  <2>5. Tail(q)[n] = q[Len(q)]
    BY <1>1, <2>1, HeadTailProperties
  <2>6. r # <<>>
    <3>1. Len(r) # 0
      BY <2>1
    <3>2. Len(<<>>) = 0
      OBVIOUS
    <3> QED BY <3>1, <3>2
  <2> QED BY <2>4, <2>5, <2>6
<1> QED BY <1>2, <1>3, <1>4, <1>5, <1>6

\* A task that has taken a step still ends its call with restoring the strip, unless
\* the step was the last one.
LEMMA EndsOK ==
    ASSUME NEW q \in Seq(Steps), q # <<>>, Tail(q) \in Seq(Deferred), Ends(q),
           NEW more \in Seq(Steps)
    PROVE  /\ (Head(q) \in Restoring \cup Alone => Ends(more)) => Ends(more \o Tail(q))
           /\ Head(q) \notin Restoring \cup Alone \/ Restores(more)
              => Restores(more \o Tail(q))
<1> DEFINE r == more \o Tail(q)
<1>1. /\ r \in Seq(Steps)
      /\ Len(q) = 1 => r = more
      /\ Len(q) # 1 => r # <<>> /\ r[Len(r)] = q[Len(q)]
  BY Goes
<1>2. CASE Len(q) = 1
  <2>1. Head(q) = q[1]
    OBVIOUS
  <2>2. Head(q) \in Restoring \cup Alone
    BY <1>2, <2>1 DEF Ends, Restores
  <2> QED BY <1>1, <1>2, <2>2 DEF Ends
<1>3. CASE Len(q) # 1
  <2>1. Restores(q)
    BY <1>3 DEF Ends
  <2>2. Restores(r)
    BY <1>1, <1>3, <2>1 DEF Restores
  <2> QED BY <2>2 DEF Ends
<1> QED BY <1>2, <1>3

\* Who changes flags overtakes all tasks that have read them.
Flagged(t) ==
    \/ UNCHANGED flagVars
    \/ s' = s /\ overtaken' = overtaken \ {t}
    \/ \E flags : Set(t, flags)

LEMMA OthersFresh ==
    ASSUME Fresh, NEW t \in Task, Flagged(t), main' = main \/ main = "init" \/ t = "main",
           NEW u \in Task \ {t}, todo'[u] = todo[u]
    PROVE  FreshAt(u)'
<1>0. \A step : At(u, step)' <=> At(u, step)
  BY DEF At
<1>1. At(u, "boot")' => u = "main" /\ main' = "boot"
  BY <1>0 DEF Fresh, FreshAt
<1>2. CASE s' = s /\ (u \in overtaken' <=> u \in overtaken)
  <2>1. (Busy' <=> Busy) /\ Wanted' = Wanted
    BY <1>2 DEF Busy, Wanted
  <2>2. NotYetOvertaken(u)' <=> NotYetOvertaken(u)
    BY <1>0, <1>2, <2>1 DEF NotYetOvertaken
  <2> QED BY <1>1, <1>2, <2>2 DEF Fresh, FreshAt
<1>3. CASE \E flags : Set(t, flags)
  <2>1. CASE \E step \in Choosing : At(u, step)
    BY <1>1, <1>3, <2>1 DEF Set, FreshAt
  <2>2. CASE ~\E step \in Choosing : At(u, step)
    BY <1>0, <1>1, <2>2 DEF FreshAt, NotYetOvertaken, Choosing, Chosen
  <2> QED BY <2>1, <2>2
<1> QED BY <1>2, <1>3 DEF Flagged, flagVars

\* A task that has not yet read the flags it will use is fresh.
LEMMA DeferredFresh ==
    ASSUME NEW t, todo'[t] \in Seq(Deferred)
    PROVE  FreshAt(t)'
<1>1. \A step \in Choosing \cup {"boot"} : ~At(t, step)'
  BY DEF At, Deferred
<1> QED BY <1>1 DEF FreshAt, NotYetOvertaken, Choosing, Chosen

\* The types but for those of calls, and that the timer is there or not.
Typed ==
    /\ EngineOK(leds') /\ s' \in StatusType /\ stage' \in Stage \cup {"none"}
    /\ main' # "done" => s'.booting
    /\ (timer' = "none") = (timer = "none")

\* A step of task t leaves all of the invariant but what restores the strip.
LEMMA TakeOK ==
    ASSUME IInv, Typed, UNCHANGED main, NEW t \in Task, Flagged(t), NEW step, NEW more \in Seq(Steps),
           Take(t, step, more),
           more \in Seq(Deferred) \/ (Len(more) = 1 /\ FreshAt(t)'),
           step \in Restoring \cup Alone /\ timer # "none" => Ends(more)
    PROVE  /\ TypesOK' /\ Single' /\ Ending' /\ Fresh'
           /\ step \notin Restoring \cup Alone \/ Restores(more) => CaredFor'
<1> DEFINE q == todo[t]
           r == more \o Tail(q)
<1>1. /\ q \in Seq(Steps) /\ q # <<>> /\ Head(q) = step /\ Tail(q) \in Seq(Deferred)
      /\ todo' = [todo EXCEPT ![t] = r] /\ todo'[t] = r
      /\ \A u \in Task \ {t} : todo'[u] = todo[u]
  BY DEF IInv, TypesOK, Single, Take, At
<1>2. /\ r \in Seq(Steps)
      /\ more \in Seq(Deferred) => r \in Seq(Deferred)
      /\ Len(more) = 1 => r # <<>> /\ Tail(r) \in Seq(Deferred)
  BY <1>1, Goes
<1>3. TypesOK'
  BY <1>1, <1>2 DEF IInv, TypesOK, Typed
<1>4. r # <<>> => Tail(r) \in Seq(Deferred)
  BY <1>2
<1>5. Single'
  BY <1>1, <1>4 DEF IInv, Single
<1>6. Fresh'
  <2>1. FreshAt(t)'
    BY <1>1, <1>2, DeferredFresh
  <2> QED BY <1>1, <2>1, OthersFresh DEF IInv, Fresh
<1>7. timer # "none"
      => /\ Ends(r)
         /\ step \notin Restoring \cup Alone \/ Restores(more) => Restores(r)
  BY <1>1, EndsOK DEF IInv, Ending
<1>8. Ending'
  BY <1>1, <1>7 DEF IInv, Ending, Typed
<1>9. step \notin Restoring \cup Alone \/ Restores(more) => CaredFor'
  BY <1>1, <1>7 DEF CaredFor, Owed, Typed
<1> QED BY <1>3, <1>5, <1>6, <1>8, <1>9

\* A task begins a call that ends with restoring the strip, or that is none.
LEMMA BeginOK ==
    ASSUME IInv, Typed, NEW t \in Task, Flagged(t), NEW call \in Seq(Steps),
           call # <<>> => Tail(call) \in Seq(Deferred),
           call \in Seq(Deferred) \/ FreshAt(t)',
           main' = main \/ main = "init" \/ t = "main",
           Begin(t, call), timer # "none" => Ends(call)
    PROVE  /\ TypesOK' /\ Single' /\ Ending' /\ Fresh'
           /\ Restores(call) => CaredFor'
<1>1. /\ todo' = [todo EXCEPT ![t] = call] /\ todo'[t] = call
      /\ \A u \in Task \ {t} : todo'[u] = todo[u]
  BY DEF IInv, TypesOK, Begin
<1>2. TypesOK'
  BY <1>1 DEF IInv, TypesOK, Typed
<1>3. Single'
  BY <1>1 DEF IInv, Single
<1>4. Fresh'
  <2>1. FreshAt(t)'
    BY <1>1, DeferredFresh
  <2> QED BY <1>1, <2>1, OthersFresh DEF IInv, Fresh
<1>5. Ending'
  BY <1>1 DEF IInv, Ending, Typed
<1>6. Restores(call) => CaredFor'
  BY <1>1 DEF CaredFor, Owed, Typed
<1> QED BY <1>2, <1>3, <1>4, <1>5, <1>6

\* The calls a step goes on with.
LEMMA Lists ==
    ASSUME NEW S, NEW x \in S, NEW y \in S, NEW z \in S
    PROVE  /\ <<>> \in Seq(S) /\ <<x>> \in Seq(S)
           /\ <<x, y>> \in Seq(S) /\ <<x, y, z>> \in Seq(S)
           /\ Restores(<<x>>) <=> x \in Restoring
           /\ Restores(<<x, y>>) <=> y \in Restoring
           /\ Restores(<<x, y, z>>) <=> z \in Restoring
           /\ Ends(<<>>) /\ (x \in Restoring \cup Alone => Ends(<<x>>))
<1>1. /\ <<>> \in Seq(S) /\ <<x>> \in Seq(S)
      /\ <<x, y>> \in Seq(S) /\ <<x, y, z>> \in Seq(S)
  OBVIOUS
<1>2. /\ Restores(<<x>>) <=> x \in Restoring
      /\ Restores(<<x, y>>) <=> y \in Restoring
      /\ Restores(<<x, y, z>>) <=> z \in Restoring
  BY DEF Restores
<1>3. Ends(<<>>) /\ (x \in Restoring \cup Alone => Ends(<<x>>))
  BY <1>2 DEF Ends
<1> QED BY <1>1, <1>2, <1>3

\* A call that is put together ends as its last part.
LEMMA Appended ==
    ASSUME NEW S, NEW a \in Seq(S), NEW b \in Seq(S), Restores(b)
    PROVE  a \o b \in Seq(S) /\ Restores(a \o b)
<1> DEFINE r == a \o b
<1>1. Len(b) \in Nat \ {0} /\ Len(a) \in Nat
  BY EmptySeq, LenProperties DEF Restores
<1>2. r \in Seq(S) /\ Len(r) = Len(a) + Len(b)
  BY ConcatProperties
<1>3. Len(r) \in 1 .. Len(a) + Len(b) /\ ~(Len(r) <= Len(a)) /\ Len(r) - Len(a) = Len(b)
  BY <1>1, <1>2
<1>4. r[Len(r)] = b[Len(b)]
  BY <1>3, ConcatProperties
<1>5. r # <<>>
  BY <1>1, <1>2, EmptySeq
<1> QED BY <1>2, <1>4, <1>5 DEF Restores

LEMMA Words ==
    /\ Spoiling \subseteq Deferred /\ Spoiling \cap (Restoring \cup Alone) = {}
    /\ Stage \subseteq Deferred /\ Stage \subseteq Restoring
    /\ {"apply", "success", "await", "screenOff", "screenOn", "complete"} \subseteq Deferred
    /\ {"apply", "success", "await", "screenOff", "screenOn", "complete"} \subseteq Restoring
    /\ {"end", "tail", "stopTimer", "callback"} \subseteq Deferred
    /\ Alone \cap Restoring = {}
<1> USE DEF Choosing, Chosen, Stage, BootStage
<1>1. Spoiling \cap (Restoring \cup Alone) = {}
  BY DEF Spoiling, Restoring, Alone
<1>2. Spoiling \subseteq Deferred
  BY DEF Spoiling, Deferred, Steps
<1>3. Stage \subseteq Deferred
  BY DEF Deferred, Steps, Restoring
<1>4. Stage \subseteq Restoring
  BY DEF Restoring
<1>5. {"apply", "success", "await", "screenOff", "screenOn", "complete"} \subseteq Deferred
  BY DEF Deferred, Steps, Restoring
<1>6. {"apply", "success", "await", "screenOff", "screenOn", "complete"} \subseteq Restoring
  BY DEF Restoring
<1>7. {"end", "tail", "stopTimer", "callback"} \subseteq Deferred
  BY DEF Deferred, Steps, Alone
<1>8. Alone \cap Restoring = {}
  BY DEF Alone, Restoring
<1> QED BY <1>1, <1>2, <1>3, <1>4, <1>5, <1>6, <1>7, <1>8

\* A step that is not the one that restores leaves the rest of its call to do so.
LEMMA SpoilingOK ==
    ASSUME IInv, Typed, UNCHANGED main, NEW t \in Task, Flagged(t),
           NEW step \in Spoiling, NEW more \in Seq(Deferred), Take(t, step, more)
    PROVE  IInv'
<1>1. more \in Seq(Steps) /\ step \notin Restoring \cup Alone
  BY SeqMonotonic, Words DEF Deferred
<1> QED BY <1>1, TakeOK DEF IInv

\* A step that restores may leave it to what it goes on with ...
LEMMA GoesOnOK ==
    ASSUME IInv, Typed, UNCHANGED main, NEW t \in Task, Flagged(t),
           NEW step, NEW more \in Seq(Deferred), Restores(more), Take(t, step, more)
    PROVE  IInv'
<1>1. more \in Seq(Steps) /\ Ends(more)
  BY SeqMonotonic DEF Deferred, Ends
<1> QED BY <1>1, TakeOK DEF IInv

\* ... which may be one step that uses the flags as they are now.
LEMMA ChoosingOK ==
    ASSUME IInv, Typed, UNCHANGED main, NEW t \in Task, Flagged(t),
           NEW step, NEW x \in Choosing, Take(t, step, <<x>>),
           t \notin overtaken' =>
             /\ x \in {"choose", "heating", "cooling", "bias"} => ~Busy'
             /\ x = "heating" => Wanted' = "rising"
             /\ x = "cooling" => Wanted' = "falling"
             /\ x = "bias" => Wanted' = "bias"
             /\ x = "idle" => Wanted' = "dark"
             /\ x = "sleep" => ~s'.screenOn
             /\ x = "biasIfFree" => ~s'.heating /\ ~s'.cooling /\ s'.screenOn
    PROVE  IInv'
<1>1. x \in Steps /\ x \in Restoring /\ x # "boot"
  BY DEF Steps, Restoring, Choosing, Chosen
<1>2. <<x>> \in Seq(Steps) /\ Restores(<<x>>) /\ Ends(<<x>>) /\ Len(<<x>>) = 1
  BY <1>1, Lists
<1>3. /\ todo[t] \in Seq(Steps) /\ todo[t] # <<>> /\ Tail(todo[t]) \in Seq(Deferred)
      /\ todo'[t] = <<x>> \o Tail(todo[t])
  BY DEF IInv, TypesOK, Single, Take, At
<1>4. Head(todo'[t]) = x
  BY <1>2, <1>3, Goes
<1>5. \A y : At(t, y)' => y = x
  BY <1>4 DEF At
<1>6. FreshAt(t)'
  BY <1>1, <1>5 DEF FreshAt, NotYetOvertaken
<1> QED BY <1>2, <1>6, TakeOK DEF IInv

\* A step that restores the strip itself is the end of it.
LEMMA LastOK ==
    ASSUME IInv, Typed, UNCHANGED main, NEW t \in Task, Flagged(t),
           NEW step, Take(t, step, <<>>), CaredFor'
    PROVE  IInv'
<1>1. <<>> \in Seq(Deferred) /\ <<>> \in Seq(Steps) /\ Ends(<<>>)
  BY DEF Ends
<1> QED BY <1>1, TakeOK DEF IInv

\* The launch that follows a request of the ceremony, a command or a greeting.
LEMMA StartsOK ==
    ASSUME NEW l, EngineOK(l), NEW look \in Spoiling
    PROVE  Starts(l, look) \in Seq(Deferred)
<1>1. look \in Deferred
  BY Words
<1>2. <<>> \in Seq(Deferred) /\ <<look>> \in Seq(Deferred)
  BY <1>1
<1> QED BY <1>2, RequestedOK

-----------------------------------------------------------------------------
(* The steps of the status controller.                                       *)

LEMMA LaunchOK == ASSUME IInv, NEW t \in Task, NEW look \in Cue, Launch(t, look) PROVE IInv'
<1>1. /\ Take(t, look, <<>>) /\ s' = s /\ overtaken' = overtaken \ {t}
      /\ stale' = (t \in overtaken) /\ leds' = Launched(leds, look)
      /\ UNCHANGED <<stage, timer, main>>
  BY DEF Launch, timerVars, envVars
<1>2. Flagged(t)
  BY <1>1 DEF Flagged
<1>3. Typed /\ leds'.look = LookOf[look]
  BY <1>1, LaunchedOK DEF Typed, IInv, TypesOK
<1>4. At(t, look) /\ FreshAt(t)
  BY <1>1 DEF Take, IInv, Fresh
<1>5. Wanted' = Wanted /\ (Busy' <=> Busy)
  BY <1>1 DEF Wanted, Busy
<1>6. CASE look \in Spoiling
  <2>1. <<>> \in Seq(Deferred)
    OBVIOUS
  <2> QED BY <1>1, <1>2, <1>3, <1>6, <2>1, SpoilingOK
<1>7. CASE look \in Chosen
  <2>1. t \notin overtaken => leds'.look = Wanted \/ (leds'.look = "dark" /\ ~s.screenOn)
    BY <1>3, <1>4, <1>7 DEF FreshAt, NotYetOvertaken, Chosen, LookOf
  <2>2. CaredFor'
    BY <1>1, <1>5, <2>1 DEF CaredFor, Good
  <2> QED BY <1>1, <1>2, <1>3, <2>2, LastOK
<1>8. CASE look = "boot"
  <2>1. s'.booting
    BY <1>1, <1>4, <1>8 DEF FreshAt, IInv, TypesOK
  <2>2. CaredFor'
    BY <2>1 DEF CaredFor, Busy
  <2> QED BY <1>1, <1>2, <1>3, <2>2, LastOK
<1> QED BY <1>6, <1>7, <1>8, CueNames DEF Spoiling, Chosen

LEMMA ScheduleOK == ASSUME IInv, NEW t \in Task, NEW next \in Stage, Schedule(t, next) PROVE IInv'
<1>1. /\ Take(t, next, <<>>) /\ UNCHANGED <<leds, main>>
      /\ IF timer = "none" THEN UNCHANGED <<stage, timer>> ELSE stage' = next /\ timer' = "armed"
      /\ UNCHANGED flagVars \/ Set(t, [s EXCEPT !.timed = TRUE, !.greeting = TRUE])
  BY DEF Schedule, envVars
<1>2. Flagged(t)
  BY <1>1 DEF Flagged
<1>3. s' \in StatusType /\ s'.booting = s.booting
  BY <1>1 DEF IInv, TypesOK, Set, StatusType, flagVars
<1>4. Typed
  BY <1>1, <1>3 DEF Typed, IInv, TypesOK
<1>5. CaredFor'
  BY <1>1 DEF CaredFor, Owed, Pending, Stage, BootStage
<1> QED BY <1>1, <1>2, <1>4, <1>5, LastOK

\* A step of the engine that is the whole of a call keeps what others owe.
LEMMA OwedKept ==
    ASSUME IInv, NEW t \in Task, NEW step \in Alone, NEW more \in Seq(Steps),
           Take(t, step, more), step = "callback" => stage = "none",
           UNCHANGED <<stage, timer>>, timer # "none", Owed
    PROVE  Owed'
<1>1. /\ todo[t] \in Seq(Steps) /\ todo[t] # <<>> /\ Head(todo[t]) = step
      /\ Tail(todo[t]) \in Seq(Deferred)
      /\ todo'[t] = more \o Tail(todo[t])
      /\ \A u \in Task \ {t} : todo'[u] = todo[u]
  BY DEF IInv, TypesOK, Single, Take, At
<1>2. CASE Pending /\ stage # "none"
  <2>1. Pending'
    BY <1>1, <1>2 DEF Pending, At, Alone, Task
  <2> QED BY <1>2, <2>1 DEF Owed
<1>3. ASSUME NEW u \in Task, Restores(todo[u])
      PROVE  Restores(todo'[u])
  <2>1. CASE u # t
    BY <1>1, <1>3, <2>1
  <2>2. CASE u = t
    <3>1. Len(todo[t]) # 1
      <4>1. todo[t][1] = step
        BY <1>1
      <4> QED BY <1>3, <2>2, <4>1, Words DEF Restores
    <3>2. todo'[t] # <<>> /\ todo'[t][Len(todo'[t])] = todo[t][Len(todo[t])]
      BY <1>1, <3>1, Goes
    <3> QED BY <1>3, <2>2, <3>2 DEF Restores
  <2> QED BY <2>1, <2>2
<1> QED BY <1>2, <1>3 DEF Owed

LEMMA EngineStepOK ==
    ASSUME IInv, NEW t \in Task, EngineStep(t), UNCHANGED statusVars PROVE IInv'
<1>1. UNCHANGED <<s, overtaken, stage, timer, main, stale>> /\ UNCHANGED flagVars
  BY DEF statusVars, flagVars, timerVars, envVars, raceVars
<1>2. Flagged(t) /\ Typed
  BY <1>1, EngineStepLooks DEF Flagged, Typed, IInv, TypesOK
<1>3. /\ <<>> \in Seq(Deferred) /\ <<"drain">> \in Seq(Deferred) /\ <<"cancel">> \in Seq(Deferred)
  BY Words, Lists DEF Spoiling
<1>4. CASE Stop(t) \/ Drain(t) \/ Cancel(t)
  BY <1>1, <1>2, <1>3, <1>4, SpoilingOK DEF Stop, Drain, Cancel, Spoiling
<1>5. CASE EndEffect(t) \/ TickTail(t) \/ StopTimer(t)
  <2>1. PICK step \in {"end", "tail", "stopTimer"}, more \in {<<>>, <<"stopTimer">>} :
          Take(t, step, more)
    <3>1. EndEffect(t) => Take(t, "end", <<"stopTimer">>)
      BY DEF EndEffect
    <3>2. TickTail(t) => Take(t, "tail", <<"stopTimer">>) \/ Take(t, "tail", <<>>)
      BY DEF TickTail
    <3>3. StopTimer(t) => Take(t, "stopTimer", <<>>)
      BY DEF StopTimer
    <3> QED BY <1>5, <3>1, <3>2, <3>3
  <2>2. "stopTimer" \in Deferred /\ "stopTimer" \in Steps /\ "stopTimer" \in Alone
    BY Words DEF Deferred, Alone
  <2>3. /\ more \in Seq(Deferred) /\ more \in Seq(Steps) /\ Ends(more)
    BY <2>1, <2>2, Lists
  <2>4. leds'.look \in {leds.look, "lost"} /\ leds'.refused = leds.refused
    BY <1>5, EngineStepLooks DEF IInv, TypesOK
  <2>5. Owed /\ timer # "none" => Owed'
    BY <1>1, <2>1, <2>3, OwedKept DEF Alone
  <2>6. CaredFor'
    BY <1>1, <2>4, <2>5 DEF IInv, CaredFor, Good, Busy, Wanted
  <2> QED BY <1>1, <1>2, <2>1, <2>3, <2>6, TakeOK DEF IInv
<1> QED BY <1>4, <1>5 DEF EngineStep

LEMMA ApplyOK == ASSUME IInv, NEW t \in Task, Apply(t) PROVE IInv'
<1>1. /\ Take(t, "apply", IF Busy THEN <<>> ELSE <<"choose">>)
      /\ UNCHANGED <<leds, flagVars, stage, timer, main, stale>>
  BY DEF Apply, statusVars, timerVars, envVars, raceVars
<1>2. Flagged(t) /\ Typed /\ (Busy' <=> Busy)
  BY <1>1 DEF Flagged, Typed, IInv, TypesOK, Busy, flagVars
<1>3. CASE Busy
  BY <1>1, <1>2, <1>3, LastOK DEF CaredFor
<1>4. CASE ~Busy
  BY <1>1, <1>2, <1>4, ChoosingOK DEF Choosing
<1> QED BY <1>3, <1>4

\* A look that was chosen is about to be launched, or refused.
LEMMA ChosenOK ==
    ASSUME IInv, NEW t \in Task, NEW step, NEW look \in Chosen,
           Take(t, step, Starts(leds, look)), leds' = Requested(leds, look),
           Typed, Flagged(t), UNCHANGED <<main>>,
           t \notin overtaken' =>
             /\ look \in {"heating", "cooling", "bias"} => ~Busy'
             /\ look = "heating" => Wanted' = "rising"
             /\ look = "cooling" => Wanted' = "falling"
             /\ look = "bias" => Wanted' = "bias"
             /\ look = "idle" => Wanted' = "dark"
             /\ look = "sleep" => ~s'.screenOn
    PROVE  IInv'
<1>1. /\ Starts(leds, look) = <<>> => leds'.refused
      /\ Starts(leds, look) = <<>> \/ Starts(leds, look) = <<look>>
  BY RequestedOK DEF IInv, TypesOK
<1>2. CASE Starts(leds, look) = <<>>
  BY <1>1, <1>2, LastOK DEF CaredFor, Good
<1>3. CASE Starts(leds, look) = <<look>>
  <2>1. look \in Choosing /\ look # "choose" /\ look # "biasIfFree"
    BY DEF Choosing, Chosen
  <2>2. Take(t, step, <<look>>)
    BY <1>3
  <2> QED BY <2>1, <2>2, ChoosingOK
<1> QED BY <1>1, <1>2, <1>3

LEMMA ChooseOK == ASSUME IInv, NEW t \in Task, Choose(t) PROVE IInv'
<1>1. /\ Take(t, "choose", Starts(leds, HvacCue)) /\ leds' = Requested(leds, HvacCue)
      /\ UNCHANGED <<flagVars, stage, timer, main>>
  BY DEF Choose, statusVars, timerVars, envVars
<1>2. Flagged(t) /\ Typed /\ (Busy' <=> Busy) /\ Wanted' = Wanted /\ overtaken' = overtaken
  BY <1>1, RequestedOK DEF Flagged, Typed, IInv, TypesOK, Busy, Wanted, flagVars
<1>3. t \notin overtaken => ~Busy
  BY <1>1 DEF Take, IInv, Fresh, FreshAt, NotYetOvertaken
<1>4. /\ HvacCue \in Chosen /\ HvacCue # "sleep"
      /\ HvacCue = "heating" => Wanted = "rising"
      /\ HvacCue = "cooling" => Wanted = "falling"
      /\ HvacCue = "bias" => Wanted = "bias"
      /\ HvacCue = "idle" => Wanted = "dark"
  BY DEF HvacCue, Wanted, Chosen
<1> DEFINE look == HvacCue
<1> HIDE DEF look
<1>5. IInv'
  BY <1>1, <1>2, <1>3, <1>4, ChosenOK DEF look
<1> QED BY <1>5

LEMMA BiasIfFreeOK == ASSUME IInv, NEW t \in Task, BiasIfFree(t) PROVE IInv'
<1>1. /\ Take(t, "biasIfFree", IF Busy THEN <<>> ELSE Starts(leds, "bias"))
      /\ leds' = IF Busy THEN leds ELSE Requested(leds, "bias")
      /\ UNCHANGED <<flagVars, stage, timer, main>>
  BY DEF BiasIfFree, statusVars, timerVars, envVars
<1>2. Flagged(t) /\ Typed /\ (Busy' <=> Busy) /\ Wanted' = Wanted /\ overtaken' = overtaken
  BY <1>1, RequestedOK DEF Flagged, Typed, IInv, TypesOK, Busy, Wanted, flagVars
<1>3. CASE Busy
  BY <1>1, <1>2, <1>3, LastOK DEF CaredFor
<1>4. CASE ~Busy
  <2>1. t \notin overtaken => Wanted = "bias"
    BY <1>1 DEF Take, IInv, Fresh, FreshAt, NotYetOvertaken, Wanted
  <2>2. "bias" \in Chosen
    BY DEF Chosen
  <2> QED BY <1>1, <1>2, <1>4, <2>1, <2>2, ChosenOK
<1> QED BY <1>3, <1>4

LEMMA ScreenOffOK == ASSUME IInv, NEW t \in Task, ScreenOff(t) PROVE IInv'
<1>1. /\ Take(t, "screenOff", <<"sleep">>) /\ Set(t, [s EXCEPT !.screenOn = FALSE])
      /\ leds' = Requested(leds, "sleep") /\ UNCHANGED <<stage, timer, main>>
  BY DEF ScreenOff, timerVars, envVars
<1>2. s' \in StatusType /\ s'.booting = s.booting /\ ~s'.screenOn
  BY <1>1 DEF Set, IInv, TypesOK, StatusType
<1>3. Flagged(t) /\ Typed
  BY <1>1, <1>2, RequestedOK DEF Flagged, Typed, IInv, TypesOK
<1> QED BY <1>1, <1>2, <1>3, ChoosingOK DEF Choosing, Chosen

LEMMA ScreenOnOK == ASSUME IInv, NEW t \in Task, ScreenOn(t) PROVE IInv'
<1>1. /\ Take(t, "screenOn", IF s.heating \/ s.cooling THEN <<"apply">> ELSE <<"biasIfFree">>)
      /\ Set(t, [s EXCEPT !.screenOn = TRUE]) /\ UNCHANGED <<leds, stage, timer, main>>
  BY DEF ScreenOn, timerVars, envVars
<1>2. /\ s' \in StatusType /\ s'.booting = s.booting /\ s'.screenOn
      /\ s'.heating = s.heating /\ s'.cooling = s.cooling
  BY <1>1 DEF Set, IInv, TypesOK, StatusType
<1>3. Flagged(t) /\ Typed
  BY <1>1, <1>2 DEF Flagged, Typed, IInv, TypesOK
<1>4. CASE s.heating \/ s.cooling
  <2>1. <<"apply">> \in Seq(Deferred) /\ Restores(<<"apply">>)
    BY Words, Lists
  <2> QED BY <1>1, <1>3, <1>4, <2>1, GoesOnOK
<1>5. CASE ~(s.heating \/ s.cooling)
  BY <1>1, <1>2, <1>3, <1>5, ChoosingOK DEF Choosing
<1> QED BY <1>4, <1>5

LEMMA SuccessOK == ASSUME IInv, NEW t \in Task, Success(t) PROVE IInv'
<1> DEFINE l == [leds EXCEPT !.gated = TRUE]
           rest == IF timer = "none" THEN <<"exit", "sequenceOver", "apply">>
                   ELSE <<"boot_white_peak">>
<1>1. /\ Take(t, "success", Starts(l, "white") \o rest) /\ Set(t, [s EXCEPT !.bootSeq = TRUE])
      /\ leds' = Requested(l, "white") /\ UNCHANGED <<stage, timer, main>>
  BY DEF Success, timerVars, envVars
<1>2. s' \in StatusType /\ s'.booting = s.booting
  BY <1>1 DEF Set, IInv, TypesOK, StatusType
<1>3. EngineOK(l)
  <2>1. /\ l \in LedsType /\ l.effect = leds.effect /\ l.look = leds.look
        /\ l.shown = leds.shown /\ l.ended = leds.ended /\ l.running = leds.running
    BY DEF IInv, TypesOK, EngineOK, LedsType
  <2> HIDE DEF l
  <2> QED BY <2>1 DEF IInv, TypesOK, EngineOK, Rendered
<1>4. Flagged(t) /\ Typed
  BY <1>1, <1>2, <1>3, RequestedOK DEF Flagged, Typed, IInv, TypesOK
<1>5. Starts(l, "white") \in Seq(Deferred)
  BY <1>3, StartsOK DEF Spoiling
<1>6. rest \in Seq(Deferred) /\ Restores(rest)
  BY Words, Lists DEF Spoiling, Stage, BootStage
<1> HIDE DEF l, rest
<1>7. Starts(l, "white") \o rest \in Seq(Deferred) /\ Restores(Starts(l, "white") \o rest)
  BY <1>5, <1>6, Appended
<1> QED BY <1>1, <1>4, <1>7, GoesOnOK

LEMMA ExitOK == ASSUME IInv, NEW t \in Task, Exit(t) PROVE IInv'
<1>1. /\ Take(t, "exit", Starts(leds, "fadeOff")) /\ leds' = Requested(leds, "fadeOff")
      /\ UNCHANGED <<flagVars, stage, timer, main>>
  BY DEF Exit, timerVars, envVars
<1>2. Flagged(t) /\ Typed
  BY <1>1, RequestedOK DEF Flagged, Typed, IInv, TypesOK, flagVars
<1>3. Starts(leds, "fadeOff") \in Seq(Deferred)
  BY StartsOK DEF Spoiling, IInv, TypesOK
<1> QED BY <1>1, <1>2, <1>3, SpoilingOK DEF Spoiling

LEMMA FlagsOK == ASSUME IInv, NEW t \in Task, Flags(t) PROVE IInv'
<1>1. PICK step \in {"sequence", "sequenceOver", "timedOver", "greetingOff"},
           seq \in BOOLEAN, timed \in BOOLEAN, greeting \in BOOLEAN :
        Assign(t, step, [s EXCEPT !.bootSeq = seq, !.timed = timed, !.greeting = greeting])
  <2>1. /\ [s EXCEPT !.bootSeq = TRUE]
           = [s EXCEPT !.bootSeq = TRUE, !.timed = s.timed, !.greeting = s.greeting]
        /\ [s EXCEPT !.bootSeq = FALSE]
           = [s EXCEPT !.bootSeq = FALSE, !.timed = s.timed, !.greeting = s.greeting]
        /\ [s EXCEPT !.timed = FALSE]
           = [s EXCEPT !.bootSeq = s.bootSeq, !.timed = FALSE, !.greeting = s.greeting]
        /\ [s EXCEPT !.timed = FALSE, !.greeting = FALSE]
           = [s EXCEPT !.bootSeq = s.bootSeq, !.timed = FALSE, !.greeting = FALSE]
        /\ s.bootSeq \in BOOLEAN /\ s.timed \in BOOLEAN /\ s.greeting \in BOOLEAN
    BY DEF IInv, TypesOK, StatusType
  <2> QED BY <2>1 DEF Flags
<1> DEFINE flags == [s EXCEPT !.bootSeq = seq, !.timed = timed, !.greeting = greeting]
<1>2. Take(t, step, <<>>) /\ Set(t, flags) /\ UNCHANGED <<leds, stage, timer, main>>
  BY <1>1 DEF Assign, timerVars, envVars
<1>3. flags \in StatusType /\ flags.booting = s.booting
  BY DEF IInv, TypesOK, StatusType
<1>4. Flagged(t) /\ Typed
  BY <1>2, <1>3 DEF Flagged, Typed, IInv, TypesOK, Set
<1>5. <<>> \in Seq(Deferred)
  OBVIOUS
<1> QED BY <1>2, <1>4, <1>5, SpoilingOK DEF Spoiling

LEMMA ClearStageOK == ASSUME IInv, NEW t \in Task, ClearStage(t) PROVE IInv'
<1>1. /\ Take(t, "noStage", <<>>) /\ stage' = "none" /\ UNCHANGED <<leds, flagVars, timer, main>>
  BY DEF ClearStage, envVars
<1>2. Flagged(t) /\ Typed /\ <<>> \in Seq(Deferred)
  BY <1>1 DEF Flagged, Typed, IInv, TypesOK, flagVars
<1> QED BY <1>1, <1>2, SpoilingOK DEF Spoiling

LEMMA AwaitOK == ASSUME IInv, NEW t \in Task, Await(t) PROVE IInv'
<1>1. /\ \/ Take(t, "await", <<"sequence", "boot_wait_sparkle">>)
         \/ Take(t, "await", <<"success">>)
      /\ UNCHANGED <<leds, flagVars, stage, timer, main>>
  BY DEF Await, statusVars, timerVars, envVars
<1>2. Flagged(t) /\ Typed
  BY <1>1 DEF Flagged, Typed, IInv, TypesOK, flagVars
<1>3. /\ <<"sequence", "boot_wait_sparkle">> \in Seq(Deferred) /\ <<"success">> \in Seq(Deferred)
      /\ Restores(<<"sequence", "boot_wait_sparkle">>) /\ Restores(<<"success">>)
  BY Words, Lists DEF Spoiling, Stage, BootStage
<1> QED BY <1>1, <1>2, <1>3, GoesOnOK

\* The callback goes on with the next stage, or gives the strip back.
LEMMA TimerCallbackOK == ASSUME IInv, NEW t \in Task, TimerCallback(t) PROVE IInv'
<1>1. Take(t, "callback", Callback[stage]) /\ UNCHANGED <<leds, flagVars, stage, timer, main, stale>>
  BY DEF TimerCallback, statusVars, timerVars, envVars, raceVars
<1>2. Flagged(t) /\ Typed
  BY <1>1 DEF Flagged, Typed, IInv, TypesOK, flagVars
<1>3. CASE stage # "none"
  <2>1. Callback[stage] \in Seq(Deferred) /\ Restores(Callback[stage])
    <3>1. \/ Callback[stage] \in {<<"boot_wait_sparkle">>, <<"success">>, <<"boot_hold">>}
          \/ Callback[stage] \in {<<"exit", "boot_complete">>, <<"noStage", "complete">>}
          \/ Callback[stage] \in {<<"sequenceOver", "noStage", "apply">>,
                                  <<"timedOver", "noStage", "apply">>}
      BY <1>3 DEF Callback, Stage, BootStage, IInv, TypesOK
    <3>2. /\ {"boot_wait_sparkle", "success", "boot_hold", "boot_complete", "complete", "apply"}
             \subseteq Deferred \cap Restoring
          /\ {"exit", "noStage", "sequenceOver", "timedOver"} \subseteq Deferred
      BY Words DEF Spoiling, Stage, BootStage
    <3>3. \A x \in {"boot_wait_sparkle", "success", "boot_hold"} :
            <<x>> \in Seq(Deferred) /\ Restores(<<x>>)
      BY <3>2 DEF Restores
    <3>4. /\ <<"exit", "boot_complete">> \in Seq(Deferred)
          /\ <<"noStage", "complete">> \in Seq(Deferred)
          /\ <<"sequenceOver", "noStage", "apply">> \in Seq(Deferred)
          /\ <<"timedOver", "noStage", "apply">> \in Seq(Deferred)
      BY <3>2
    <3>5. /\ Restores(<<"exit", "boot_complete">>) /\ Restores(<<"noStage", "complete">>)
          /\ Restores(<<"sequenceOver", "noStage", "apply">>)
          /\ Restores(<<"timedOver", "noStage", "apply">>)
      BY <3>2 DEF Restores
    <3> QED BY <3>1, <3>3, <3>4, <3>5
  <2> QED BY <1>1, <1>2, <2>1, GoesOnOK
<1>4. CASE stage = "none"
  <2>1. Take(t, "callback", <<>>)
    BY <1>1, <1>4 DEF Callback
  <2>2. <<>> \in Seq(Steps)
    OBVIOUS
  <2>3. Owed /\ timer # "none" => Owed'
    BY <1>1, <1>4, <2>1, <2>2, OwedKept DEF Alone
  <2>4. CaredFor'
    BY <1>1, <2>3 DEF IInv, CaredFor, Good, Busy, Wanted, flagVars
  <2> QED BY <1>1, <1>2, <2>1, <2>4, LastOK
<1> QED BY <1>3, <1>4

LEMMA CompleteGreetingOK == ASSUME IInv, NEW t \in Task, CompleteGreeting(t) PROVE IInv'
<1> DEFINE first == IF s.greeting THEN <<"stop">> ELSE <<>>
<1>1. /\ Take(t, "complete", first \o <<"presence", "apply">>)
      /\ Set(t, [s EXCEPT !.greeting = FALSE, !.timed = FALSE])
      /\ UNCHANGED <<leds, stage, timer, main>>
  BY DEF CompleteGreeting, timerVars, envVars
<1>2. s' \in StatusType /\ s'.booting = s.booting
  BY <1>1 DEF Set, IInv, TypesOK, StatusType
<1>3. Flagged(t) /\ Typed
  BY <1>1, <1>2 DEF Flagged, Typed, IInv, TypesOK
<1>4. first \in Seq(Deferred) /\ <<"presence", "apply">> \in Seq(Deferred)
      /\ Restores(<<"presence", "apply">>)
  <2>1. {"stop", "presence", "apply"} \subseteq Deferred /\ "apply" \in Restoring
    BY Words DEF Spoiling
  <2>2. first \in Seq(Deferred)
    BY <2>1
  <2>3. <<"presence", "apply">> \in Seq(Deferred)
    BY <2>1
  <2> QED BY <2>1, <2>2, <2>3 DEF Restores
<1> HIDE DEF first
<1>5. first \o <<"presence", "apply">> \in Seq(Deferred)
      /\ Restores(first \o <<"presence", "apply">>)
  BY <1>4, Appended
<1> QED BY <1>1, <1>3, <1>5, GoesOnOK

LEMMA PresenceToldOK == ASSUME IInv, NEW t \in Task, PresenceTold(t) PROVE IInv'
<1>1. Take(t, "presence", <<>>) /\ UNCHANGED <<leds, flagVars, stage, timer, main>>
  BY DEF PresenceTold, statusVars, timerVars, envVars
<1>2. Flagged(t) /\ Typed /\ <<>> \in Seq(Deferred)
  BY <1>1 DEF Flagged, Typed, IInv, TypesOK, flagVars
<1> QED BY <1>1, <1>2, SpoilingOK DEF Spoiling

\* A task goes on with its call.
LEMMA StepOK == ASSUME IInv, NEW t \in Task, Step(t) \/ PresenceTold(t) PROVE IInv'
BY LaunchOK, ScheduleOK, EngineStepOK, ApplyOK, ChooseOK, SuccessOK, ExitOK, FlagsOK,
   ClearStageOK, AwaitOK, ScreenOffOK, ScreenOnOK, BiasIfFreeOK, TimerCallbackOK,
   CompleteGreetingOK, PresenceToldOK DEF Step

-----------------------------------------------------------------------------
(* The calls, and what starts by itself.                                     *)

\* A call that ends with restoring the strip.
LEMMA CallOK ==
    ASSUME IInv, Typed, NEW t \in Task, Flagged(t), NEW call \in Seq(Deferred),
           main' = main \/ main = "init" \/ t = "main",
           Begin(t, call), timer # "none" => Restores(call)
    PROVE  IInv'
<1>1. call \in Seq(Steps) /\ (call # <<>> => Tail(call) \in Seq(Deferred))
  BY SeqMonotonic, HeadTailProperties DEF Deferred
<1>2. (timer # "none" => Ends(call)) /\ (timer = "none" => CaredFor')
  BY DEF Ends, CaredFor, Typed
<1> QED BY <1>1, <1>2, BeginOK DEF IInv

\* One that has nothing to do, or whose step the strip does not depend on.
LEMMA AloneOK ==
    ASSUME IInv, Typed, NEW t \in Task, Flagged(t),
           NEW call \in {<<>>, <<"end">>, <<"tail">>, <<"callback">>},
           main' = main \/ main = "init" \/ t = "main",
           Begin(t, call), CaredFor'
    PROVE  IInv'
<1>1. {"end", "tail", "callback"} \subseteq Deferred \cap Steps \cap Alone
  BY Words DEF Deferred, Alone
<1>2. call \in Seq(Deferred) /\ call \in Seq(Steps) /\ Ends(call)
  BY <1>1, Lists
<1>3. call # <<>> => Tail(call) \in Seq(Deferred)
  BY <1>2, HeadTailProperties
<1> QED BY <1>2, <1>3, BeginOK DEF IInv

LEMMA StartBootingOK == IInv /\ StartBooting => IInv'
<1> SUFFICES ASSUME IInv, StartBooting PROVE IInv'
  OBVIOUS
<1> DEFINE call == IF s.ready THEN Starts(leds, "boot") ELSE <<>>
<1>1. /\ main = "init" /\ main' = "boot" /\ Begin("main", call)
      /\ leds' = leds \/ leds' = Requested(leds, "boot")
      /\ UNCHANGED <<flagVars, stage, timer>>
  BY DEF StartBooting, timerVars
<1>2. Typed /\ Flagged("main")
  BY <1>1, RequestedOK DEF Typed, Flagged, IInv, TypesOK, flagVars
<1>3. call = <<>> \/ call = <<"boot">>
  BY RequestedOK DEF IInv, TypesOK
<1>4. CaredFor'
  BY <1>1 DEF CaredFor, Busy, IInv, TypesOK, flagVars
<1>5. "boot" \in Steps /\ "boot" \in Alone /\ "main" \in Task
  BY DEF Steps, Alone, Task
<1>6. call \in Seq(Steps) /\ Ends(call) /\ (call # <<>> => Tail(call) \in Seq(Deferred))
  <2> HIDE DEF call
  <2>1. CASE call = <<>>
    BY <2>1 DEF Ends
  <2>2. CASE call = <<"boot">>
    <3>1. Tail(<<"boot">>) = <<>> /\ <<>> \in Seq(Deferred)
      OBVIOUS
    <3> QED BY <1>5, <2>2, <3>1 DEF Ends
  <2> QED BY <1>3, <2>1, <2>2
<1>7. \A step : step # "boot" => ~At("main", step)'
  BY <1>1, <1>3 DEF Begin, At, IInv, TypesOK, Task
<1>8. FreshAt("main")'
  BY <1>1, <1>7 DEF FreshAt, NotYetOvertaken
<1> HIDE DEF call
<1> QED BY <1>1, <1>2, <1>4, <1>5, <1>6, <1>8, BeginOK DEF IInv

LEMMA BootCompleteOK == IInv /\ BootComplete => IInv'
<1> SUFFICES ASSUME IInv, BootComplete PROVE IInv'
  OBVIOUS
<1>1. main' = "done" /\ UNCHANGED <<leds, stage, timer>> /\ "main" \in Task
  BY DEF BootComplete, timerVars, Task
<1>2. CASE ~s.ready /\ Begin("main", <<>>) /\ UNCHANGED flagVars
  <2>1. Typed /\ Flagged("main")
    BY <1>1, <1>2 DEF Typed, Flagged, IInv, TypesOK, flagVars
  <2>2. CaredFor'
    BY <1>2 DEF CaredFor, flagVars
  <2> QED BY <1>1, <1>2, <2>1, <2>2, AloneOK
<1>3. CASE /\ Begin("main", <<"stop", "await">>)
           /\ Set("main", [s EXCEPT !.booting = FALSE])
  <2>1. s' \in StatusType
    BY <1>3 DEF Set, IInv, TypesOK, StatusType
  <2>2. Typed /\ Flagged("main")
    BY <1>1, <1>3, <2>1 DEF Typed, Flagged, IInv, TypesOK
  <2>3. <<"stop", "await">> \in Seq(Deferred) /\ Restores(<<"stop", "await">>)
    BY Words, Lists DEF Spoiling
  <2> QED BY <1>1, <1>3, <2>2, <2>3, CallOK
<1> QED BY <1>2, <1>3 DEF BootComplete

LEMMA SetHvacOK == IInv /\ SetHvac => IInv'
<1> SUFFICES ASSUME IInv, SetHvac PROVE IInv'
  OBVIOUS
<1>1. /\ Begin("mqtt", <<"apply">>) /\ UNCHANGED <<leds, stage, timer, main>> /\ "mqtt" \in Task
      /\ \E on \in BOOLEAN :
           Set("mqtt", [s EXCEPT !.heating = on]) \/ Set("mqtt", [s EXCEPT !.cooling = on])
  BY DEF SetHvac, timerVars, Task
<1>2. s' \in StatusType /\ s'.booting = s.booting
  BY <1>1 DEF Set, IInv, TypesOK, StatusType
<1>3. Typed /\ Flagged("mqtt")
  BY <1>1, <1>2 DEF Typed, Flagged, IInv, TypesOK
<1>4. <<"apply">> \in Seq(Deferred) /\ Restores(<<"apply">>)
  BY Words, Lists
<1> QED BY <1>1, <1>3, <1>4, CallOK

LEMMA TriggerOK == IInv /\ TriggerEgg => IInv'
<1> SUFFICES ASSUME IInv, NEW egg \in Eggs, Trigger(egg) PROVE IInv'
  BY DEF TriggerEgg
<1> DEFINE call == Starts(leds, egg) \o <<"timed_effect_timeout">>
<1>1. /\ Begin("mqtt", call) /\ Set("mqtt", [s EXCEPT !.timed = TRUE])
      /\ leds' = Requested(leds, egg) /\ UNCHANGED <<stage, timer, main>> /\ "mqtt" \in Task
  BY DEF Trigger, timerVars, Task
<1>2. s' \in StatusType /\ s'.booting = s.booting
  BY <1>1 DEF Set, IInv, TypesOK, StatusType
<1>3. Typed /\ Flagged("mqtt")
  BY <1>1, <1>2, RequestedOK DEF Typed, Flagged, IInv, TypesOK
<1>4. Starts(leds, egg) \in Seq(Deferred)
  BY EggsAssumption, StartsOK DEF Egg, Spoiling, IInv, TypesOK
<1>5. <<"timed_effect_timeout">> \in Seq(Deferred) /\ Restores(<<"timed_effect_timeout">>)
  BY Words, Lists DEF Stage
<1>6. call \in Seq(Deferred) /\ Restores(call)
  BY <1>4, <1>5, Appended
<1> HIDE DEF call
<1> QED BY <1>1, <1>3, <1>6, CallOK

LEMMA GreetingOK == IInv /\ (GreetingAccepted \/ GreetingUntimed) => IInv'
<1> SUFFICES ASSUME IInv, GreetingAccepted \/ GreetingUntimed PROVE IInv'
  OBVIOUS
<1>1. PICK rest \in {<<"greeting_complete">>, <<"stop", "greetingOff">>} :
        /\ Begin("mqtt", <<"greeting">> \o rest) /\ leds' = Requested(leds, "greeting")
        /\ timer # "none" => rest = <<"greeting_complete">>
        /\ UNCHANGED <<flagVars, stage, timer, main>> /\ "mqtt" \in Task
  BY DEF GreetingAccepted, GreetingUntimed, Greet, statusVars, timerVars, envVars, Task
<1>2. Typed /\ Flagged("mqtt")
  BY <1>1, RequestedOK DEF Typed, Flagged, IInv, TypesOK, flagVars
<1>3. /\ <<"greeting">> \in Seq(Deferred) /\ <<"greeting_complete">> \in Seq(Deferred)
      /\ <<"stop", "greetingOff">> \in Seq(Deferred) /\ Restores(<<"greeting_complete">>)
  BY Words, Lists DEF Spoiling, Stage
<1>4. <<"greeting">> \o rest \in Seq(Deferred)
  BY <1>3, ConcatProperties
<1>5. timer # "none" => Restores(<<"greeting">> \o rest)
  BY <1>1, <1>3, Appended
<1> QED BY <1>1, <1>2, <1>4, <1>5, CallOK

LEMMA ScreenOK == IInv /\ (ScreenSleep \/ ScreenWake) => IInv'
<1> SUFFICES ASSUME IInv, ScreenSleep \/ ScreenWake PROVE IInv'
  OBVIOUS
<1>1. PICK t \in Task : /\ \/ Begin(t, IF s.ready THEN <<"screenOff">> ELSE <<>>)
                           \/ Begin(t, IF s.ready THEN <<"screenOn">> ELSE <<>>)
                        /\ UNCHANGED <<leds, flagVars, stage, timer, main>>
  BY DEF ScreenSleep, ScreenWake, timerVars, Screen, Task
<1>2. Typed /\ Flagged(t)
  BY <1>1 DEF Typed, Flagged, IInv, TypesOK, flagVars
<1>3. CASE s.ready
  <2>1. /\ <<"screenOff">> \in Seq(Deferred) /\ <<"screenOn">> \in Seq(Deferred)
        /\ Restores(<<"screenOff">>) /\ Restores(<<"screenOn">>)
    BY Words, Lists
  <2> QED BY <1>1, <1>2, <1>3, <2>1, CallOK
<1>4. CASE ~s.ready
  <2>1. CaredFor'
    BY <1>1, <1>4 DEF CaredFor, flagVars
  <2> QED BY <1>1, <1>2, <1>4, <2>1, AloneOK
<1> QED BY <1>3, <1>4

\* What is owed stays owed when the free timer task begins a callback.
LEMMA OwedBegun ==
    ASSUME IInv, NEW call, Begin("timer", call), UNCHANGED stage,
           timer' = timer \/ At("timer", "callback")', Owed
    PROVE  Owed'
<1>1. /\ todo["timer"] = <<>>
      /\ \A u \in Task \ {"timer"} : todo'[u] = todo[u]
  BY DEF Begin, Free, IInv, TypesOK
<1>2. \A u \in Task : Restores(todo[u]) => Restores(todo'[u])
  BY <1>1 DEF Restores
<1>3. Pending => Pending'
  BY <1>1 DEF Pending, At
<1> QED BY <1>2, <1>3 DEF Owed

LEMMA ExpireOK == IInv /\ Expire => IInv'
<1> SUFFICES ASSUME IInv, Expire PROVE IInv'
  OBVIOUS
<1>1. /\ Begin("timer", <<"callback">>) /\ timer # "none" /\ timer' # "none"
      /\ UNCHANGED <<leds, flagVars, stage, main, stale>> /\ "timer" \in Task
  BY DEF Expire, envVars, raceVars, Task
<1>2. Typed /\ Flagged("timer")
  BY <1>1 DEF Typed, Flagged, IInv, TypesOK, flagVars
<1>3. At("timer", "callback")'
  BY <1>1 DEF Begin, At, IInv, TypesOK
<1>4. CaredFor'
  BY <1>1, <1>3, OwedBegun DEF IInv, CaredFor, Good, Busy, Wanted, flagVars
<1> QED BY <1>1, <1>2, <1>4, AloneOK

LEMMA LedTickOK == IInv /\ LedTick /\ UNCHANGED statusVars => IInv'
<1> SUFFICES ASSUME IInv, LedTick, UNCHANGED statusVars PROVE IInv'
  OBVIOUS
<1>1. /\ EngineOK(leds') /\ leds'.refused = leds.refused
      /\ leds'.look = leds.look \/ (leds.look = "sparkle" /\ leds'.look = "dark")
      /\ UNCHANGED <<flagVars, stage, timer, main, stale>> /\ "timer" \in Task
  BY TickOK DEF IInv, TypesOK, statusVars, timerVars, envVars, raceVars, Task
<1>2. PICK call \in {<<"tail">>, <<"end">>} : Begin("timer", call)
  BY TickOK DEF IInv, TypesOK
<1>3. Typed /\ Flagged("timer")
  BY <1>1 DEF Typed, Flagged, IInv, TypesOK, flagVars
<1>4. CaredFor'
  BY <1>1, <1>2, OwedBegun DEF IInv, CaredFor, Good, Busy, Wanted, flagVars
<1> QED BY <1>1, <1>2, <1>3, <1>4, AloneOK

\* Steps that change neither the strip nor the flags nor any call.
LEMMA StutterOK ==
    ASSUME IInv, UNCHANGED <<leds, todo, s, overtaken, stage, timer, main, stale>>
    PROVE  IInv'
<1>1. \A t \in Task : \A step : At(t, step)' <=> At(t, step)
  BY DEF At
<1>2. (Busy' <=> Busy) /\ Wanted' = Wanted /\ (Good' <=> Good)
  BY DEF Busy, Wanted, Good
<1>3. Owed' <=> Owed
  BY <1>1 DEF Owed, Pending, Restores, Task
<1>4. Fresh'
  BY <1>1, <1>2 DEF IInv, Fresh, FreshAt, NotYetOvertaken
<1> QED BY <1>2, <1>3, <1>4 DEF IInv, TypesOK, Single, Ending, Ends, Restores, CaredFor

-----------------------------------------------------------------------------
(* The theorems about LedStatus.                                             *)

LEMMA InitOK == Init => IInv
<1> SUFFICES ASSUME Init PROVE IInv
  OBVIOUS
<1>1. EngineOK(leds)
  BY DEF Init, LedsInit, EngineOK, LedsType, Rendered, Endless, Look, LookOf, Cue
<1>2. /\ s \in StatusType /\ s.booting /\ stage = "none"
      /\ todo = [t \in Task |-> <<>>]
  BY DEF Init, LedsInit, StatusType
<1>3. \A t \in Task : Free(t) /\ \A step : ~At(t, step)
  BY <1>2 DEF Free, At
<1>4. Single /\ Ending /\ Fresh
  BY <1>2, <1>3 DEF Single, Ending, Ends, Fresh, FreshAt, NotYetOvertaken
<1>5. TypesOK
  BY <1>1, <1>2 DEF TypesOK
<1> QED BY <1>2, <1>4, <1>5 DEF IInv, CaredFor, Busy

LEMMA NextOK == IInv /\ [Next]_vars => IInv'
<1> SUFFICES ASSUME IInv, [Next]_vars PROVE IInv'
  OBVIOUS
<1>1. CASE UNCHANGED vars
  BY <1>1, StutterOK
  DEF vars, ledsVars, statusVars, flagVars, timerVars, envVars, raceVars
<1>2. CASE Background
  <2>1. CASE ClockSynced /\ UNCHANGED statusVars
    BY <2>1, StutterOK DEF ClockSynced, statusVars, flagVars, timerVars, envVars, raceVars
  <2> QED BY <1>2, <2>1, StartBootingOK, BootCompleteOK, ExpireOK, LedTickOK DEF Background
<1>3. CASE Call
  BY <1>3, SetHvacOK, TriggerOK, ScreenOK DEF Call
<1> QED BY <1>1, <1>2, <1>3, GreetingOK, StepOK DEF Next

LEMMA IInvHolds == Spec => []IInv
BY InitOK, NextOK, PTL DEF Spec

\* Every path that gives the strip up restores what the HVAC state and the screen
\* ask for, however the unlocked calls of thermostat_led_status.c and the ticks of
\* thermostat_leds.c interleave: only the named races leave another look.
THEOREM SettledShowsStateHolds == Spec => []SettledShowsState
<1>1. IInv => SettledShowsState
  <2> SUFFICES ASSUME IInv, Settled PROVE Good
    BY DEF SettledShowsState, Good
  <2>1. timer = "stopped" /\ s.ready /\ ~Busy /\ \A t \in Task : todo[t] = <<>>
    BY DEF Settled, Free
  <2>2. ~Owed
    BY <2>1 DEF Owed, Restores, Pending, At, Task
  <2> QED BY <2>1, <2>2 DEF IInv, CaredFor
<1> QED BY IInvHolds, <1>1, PTL

\* No HVAC update, wake-up or timer callback takes the strip from the boot ceremony
\* or a timed effect for an HVAC look or bias lighting, unless that began after the
\* flags were read.
THEOREM PriorityKeptHolds == Spec => PriorityKept
<1>1. IInv /\ [Next]_vars => [OwnersRespected]_vars
  BY DEF IInv, Fresh, FreshAt, NotYetOvertaken, OwnersRespected
<1> QED BY IInvHolds, <1>1, PTL DEF Spec, PriorityKept

\* However effects are started, cancelled, refused and drained, the strip shows what
\* thermostat_leds.c believes it shows, but for the greeting no tick renders.
THEOREM RenderedHolds == Spec => []RenderedUnlessGreeting
<1>1. IInv => RenderedUnlessGreeting
  BY DEF IInv, TypesOK, EngineOK, Rendered, RenderedUnlessGreeting
<1> QED BY IInvHolds, <1>1, PTL

-----------------------------------------------------------------------------
(* With the greetings of thermostat_personal_presence.c.                     *)

LEMMA PresenceStep == [PresenceNext]_allVars => [Next]_vars
<1> SUFFICES ASSUME [PresenceNext]_allVars PROVE [Next]_vars
  OBVIOUS
<1>1. CASE Unrelated
  BY <1>1 DEF Unrelated, Next, Call
<1>2. CASE PersonCount \/ ProcessFace \/ PlayAudio \/ ArmCueTimer \/ CueTimerElapses
  BY <1>2 DEF PersonCount, ProcessFace, PlayAudio, ArmCueTimer, CueTimerElapses
<1>3. CASE LedsReject \/ LedsUntimed \/ LedsFailed \/ LedsAccept
  BY <1>3 DEF LedsReject, LedsUntimed, LedsFailed, LedsAccept, Next
<1>4. CASE LedComplete \/ LedCompleteStops
  <2>1. UNCHANGED vars \/ PresenceTold("timer")
    BY <1>4 DEF LedComplete, LedCompleteStops
  <2>2. "timer" \in Task
    BY DEF Task
  <2> QED BY <2>1, <2>2 DEF Next
<1>5. CASE UNCHANGED allVars
  BY <1>5 DEF allVars
<1> QED BY <1>1, <1>2, <1>3, <1>4, <1>5 DEF PresenceNext

\* The presence component, its cue and its own timer use the LEDs only as any
\* caller of thermostat_led_status.c may.
THEOREM PresenceImplementsLeds == PresenceSpec => Spec
<1>1. PresenceInit => Init
  BY DEF PresenceInit
<1> QED BY <1>1, PresenceStep, PTL DEF PresenceSpec, Spec

\* So what is proved of the strip holds with the greetings it launches.
THEOREM LedsSafeWithPresence ==
    PresenceSpec => [](SettledShowsState /\ RenderedUnlessGreeting) /\ PriorityKept
BY PresenceImplementsLeds, SettledShowsStateHolds, RenderedHolds, PriorityKeptHolds, PTL

\* A greeting that is under way is being launched, or its own timer is running
\* and known to be: it is never left with nothing but the LED timer to end it,
\* unless the stop that was decided under the lock hit the timer of a later one.
CueHasTimer ==
    cue /\ ~raced => greeter # "idle" \/ (timerArmed /\ cueTimer = "running")

LEMMA CueStepOK == CueHasTimer /\ [PresenceNext]_allVars => CueHasTimer'
<1> SUFFICES ASSUME CueHasTimer, [PresenceNext]_allVars PROVE CueHasTimer'
  OBVIOUS
<1> USE DEF CueHasTimer, Finish
<1>1. CASE Unrelated \/ UNCHANGED allVars
  BY <1>1 DEF Unrelated, allVars, presenceVars
<1>2. CASE PersonCount \/ ProcessFace \/ PlayAudio
  BY <1>2 DEF PersonCount, ProcessFace, PlayAudio
<1>3. CASE LedsReject \/ LedsUntimed \/ LedsFailed \/ LedsAccept
  BY <1>3 DEF LedsReject, LedsUntimed, LedsFailed, LedsAccept
<1>4. CASE ArmCueTimer
  BY <1>4 DEF ArmCueTimer
<1>5. CASE CueTimerElapses
  BY <1>5 DEF CueTimerElapses
<1>6. CASE LedComplete
  BY <1>6 DEF LedComplete
<1>7. CASE LedCompleteStops
  BY <1>7 DEF LedCompleteStops
<1> QED BY <1>1, <1>2, <1>3, <1>4, <1>5, <1>6, <1>7 DEF PresenceNext

\* The safety half of CueEndsUnlessRaced, for thermostat_personal_presence.c with
\* any number of face payloads.
THEOREM CueHasTimerHolds == PresenceSpec => []CueHasTimer
<1>1. PresenceInit => CueHasTimer
  BY DEF PresenceInit, CueHasTimer
<1> QED BY <1>1, CueStepOK, PTL DEF PresenceSpec

=================================================================================
