----------------------------- MODULE Splash_proofs -----------------------------
(***************************************************************************)
(* The exit of the splash, for every ring, history, set of labels and      *)
(* number of broker statuses.  What the flags say is what the main task    *)
(* has done (PlaceInv): the signal of the LEDs comes only when it is done  *)
(* with the splash, so whoever leaves finds the UI loaded.  One task       *)
(* leaves (LeaveInv).  And once the lines fade only the LED timer's task   *)
(* is still in the splash, unless a broker status came late (StillInv).    *)
(***************************************************************************)
EXTENDS Splash, TLAPS

\* Where the main task is before it asks for the exit, once the lines fade, and
\* once the UI is loaded.
Early == {"idle", "enqueue", "counted", "start", "pop", "popped", "rotate", "launch"}
Leaving == {"exit", "leave", "free", "boot complete", "done"}
Fading == {"prepare"} \cup Leaving
Place == Early \cup {"lock", "line fade"} \cup Fading \cup {"faded"}
Flag == {"locked", "blocked", "destroy", "lineFade", "signal", "fading"}

TypeInv == pc \in [Tasks -> Place] /\ flags \subseteq Flag /\ late \in BOOLEAN

PlaceInv ==
    /\ Has("destroy") <=> pc["main"] \notin Early
    /\ Has("lineFade") <=> pc["main"] \in Fading
    /\ pc["main"] # "faded"
    /\ ui = (IF pc["main"] \in Leaving THEN 1 ELSE 0)
    /\ Has("signal") => pc["main"] = "done"
    /\ pc["led"] \in {"idle", "exit", "leave", "free"}
    /\ pc["led"] # "idle" => Has("signal")
    /\ \A t \in Tasks : pc[t] \in {"leave", "free"} => Has("signal")
    /\ Has("fading") => Has("signal")

LeaveInv ==
    /\ freed \in {0, 1} /\ (~Has("fading") => freed = 0)
    /\ \A t \in Tasks : pc[t] = "free" =>
          /\ freed = 0 /\ Has("fading")
          /\ \A u \in Tasks : pc[u] = "free" => u = t

StillInv ==
    ~late =>
        /\ Has("destroy") => pc["mqtt"] = "idle"
        /\ Has("lineFade") => running = {} /\ pc["lvgl"] = "idle"
        /\ freed = 1 => pc["led"] = "idle"

Inv == TypeInv /\ PlaceInv /\ LeaveInv /\ StillInv

\* The splash as it is created satisfies the invariant.
LEMMA InitOK == Init => Inv
BY DEF Init, Inv, TypeInv, PlaceInv, LeaveInv, StillInv, Tasks, Place, Early, Fading, Leaving, Flag, Has

USE DEF Tasks, Has

\* A task that moves within the lines, or returns, changes nothing of the exit.
LEMMA WithinLines ==
    ASSUME Inv, NEW t \in Tasks, NEW place \in Early \cup {"exit"},
           pc[t] \in Early \ {"idle"}, Goto(t, place),
           place = "exit" => Has("destroy"),
           UNCHANGED <<flags, ui, freed, late>>,
           running' = running \/ pc[t] = "launch"
    PROVE  Inv'
<1>1. t # "led"
  BY DEF Inv, PlaceInv, Early
<1>2. t = "mqtt" => late \/ ~Has("destroy")
  BY DEF Inv, StillInv, Early
<1>3. t = "lvgl" => late \/ ~Has("lineFade")
  BY DEF Inv, StillInv, Early
<1>4. t = "main" => ~Has("destroy") /\ ~Has("lineFade") /\ ~Has("signal") /\ place \in Early
  BY DEF Inv, PlaceInv, Early, Fading, Leaving
<1>5. TypeInv'
  BY DEF Inv, TypeInv, Goto, Place, Early, Fading, Leaving
<1>6. PlaceInv'
  BY <1>1, <1>4 DEF Inv, TypeInv, PlaceInv, Goto, Early, Fading, Leaving
<1>7. StillInv'
  BY <1>1, <1>2, <1>3, <1>4 DEF Inv, TypeInv, PlaceInv, StillInv, Goto, Early, Fading, Leaving
<1>8. LeaveInv'
  BY <1>1, <1>4 DEF Inv, TypeInv, LeaveInv, Goto, Early
<1> QED BY <1>5, <1>6, <1>7, <1>8 DEF Inv

\* The steps from a line's arrival to its animation.
LEMMA LineStepOK ==
    ASSUME Inv, NEW t \in Tasks,
           \/ Enqueue(t) \/ Counted(t) \/ StartIfIdle(t) \/ Pop(t) \/ Popped(t)
           \/ Rotate(t) \/ Launch(t)
    PROVE  Inv'
<1>1. CASE Enqueue(t)
  BY <1>1, WithinLines DEF Enqueue, At, Early, lines, ends
<1>2. CASE Counted(t)
  BY <1>2, WithinLines DEF Counted, At, Early, ends
<1>3. CASE StartIfIdle(t)
  BY <1>3, WithinLines DEF StartIfIdle, At, Early, lines, ends
<1>4. CASE Pop(t)
  BY <1>4, WithinLines DEF Pop, At, Early, lines, ends
<1>5. CASE Popped(t)
  BY <1>5, WithinLines DEF Popped, At, Early, lines, ends
<1>6. CASE Rotate(t)
  BY <1>6, WithinLines DEF Rotate, At, Early, ends
<1>7. CASE Launch(t)
  BY <1>7, WithinLines DEF Launch, At, Early, lines, ends
<1> QED BY <1>1, <1>2, <1>3, <1>4, <1>5, <1>6, <1>7

\* A step that neither frees, nor sends a task to do it, nor decides who does.
LEMMA NobodyLeaves ==
    ASSUME TypeInv, LeaveInv, NEW t \in Tasks, NEW place \in Place \ {"free"},
           Goto(t, place) \/ UNCHANGED pc, UNCHANGED freed,
           Has("fading")' <=> Has("fading")
    PROVE  LeaveInv'
BY DEF TypeInv, LeaveInv, Goto

\* Only a task with the signal gets past ExitIfReady, and the first one leaves.
LEMMA ExitStepOK ==
    ASSUME Inv, NEW t \in Tasks, ExitIfReady(t) \/ Leave(t) \/ Free(t)
    PROVE  Inv'
<1> USE DEF Inv, At, Goto, lines, ends, Return, Place, Early, Fading, Leaving, Flag
<1>1. CASE ExitIfReady(t)
  <2>1. LeaveInv'
    BY <1>1, NobodyLeaves DEF ExitIfReady
  <2>2. TypeInv' /\ PlaceInv' /\ StillInv'
    <3>1. CASE Ready
      BY <1>1, <3>1 DEF ExitIfReady, Ready, TypeInv, PlaceInv, StillInv
    <3>2. CASE ~Ready
      BY <1>1, <3>2 DEF ExitIfReady, TypeInv, PlaceInv, StillInv
    <3> QED BY <3>1, <3>2
  <2> QED BY <2>1, <2>2
<1>2. CASE Leave(t)
  <2>1. TypeInv' /\ PlaceInv' /\ StillInv'
    <3>1. CASE Has("fading")
      <4>1. /\ pc[t] = "leave" /\ t # "main" /\ Goto(t, "idle")
            /\ UNCHANGED <<running, flags, ui, freed, late>>
        BY <1>2, <3>1 DEF Leave, PlaceInv
      <4>2. TypeInv'
        BY <4>1 DEF TypeInv
      <4>3. PlaceInv'
        BY <4>1 DEF TypeInv, PlaceInv
      <4>4. StillInv'
        BY <4>1 DEF TypeInv, PlaceInv, StillInv
      <4> QED BY <4>2, <4>3, <4>4
    <3>2. CASE ~Has("fading")
      <4>1. /\ pc[t] = "leave" /\ pc' = [pc EXCEPT ![t] = "free"]
            /\ flags' = flags \cup {"fading"} /\ UNCHANGED <<running, ui, freed, late>>
        BY <1>2, <3>2 DEF Leave
      <4>2. TypeInv'
        BY <4>1 DEF TypeInv
      <4>3. Has("signal") /\ pc["main"] = "done" /\ t # "main"
        BY <4>1 DEF PlaceInv
      <4>4. PlaceInv'
        BY <4>1, <4>3 DEF TypeInv, PlaceInv
      <4>5. StillInv'
        BY <4>1, <4>3 DEF TypeInv, LeaveInv, PlaceInv, StillInv
      <4> QED BY <4>2, <4>4, <4>5
    <3> QED BY <3>1, <3>2
  <2>2. LeaveInv'
    <3>1. CASE Has("fading")
      BY <1>2, <3>1, NobodyLeaves DEF Leave
    <3>2. CASE ~Has("fading")
      BY <1>2, <3>2 DEF Leave, TypeInv, LeaveInv
    <3> QED BY <3>1, <3>2
  <2> QED BY <2>1, <2>2
<1>3. CASE Free(t)
  <2>1. Has("signal") /\ pc["main"] = "done" /\ t # "main"
    BY <1>3 DEF Free, PlaceInv
  <2>2. freed = 0 /\ freed' = 1 /\ Has("fading")
    <3>1. pc[t] = "free" /\ freed' = freed + 1
      BY <1>3 DEF Free
    <3>2. freed = 0 /\ Has("fading")
      BY <3>1 DEF LeaveInv
    <3> QED BY <3>1, <3>2
  <2>3. pc' = [pc EXCEPT ![t] = "idle"]
    BY <1>3, <2>1 DEF Free
  <2>4. UNCHANGED <<running, flags, ui, late>>
    BY <1>3 DEF Free
  <2>5. TypeInv'
    BY <2>3, <2>4 DEF TypeInv
  <2>6. PlaceInv'
    BY <2>1, <2>3, <2>4 DEF TypeInv, PlaceInv
  <2>7. \A u \in Tasks : pc'[u] # "free"
    BY <1>3, <2>3 DEF Free, TypeInv, LeaveInv
  <2>8. LeaveInv'
    BY <2>2, <2>4, <2>7 DEF LeaveInv
  <2>9. ~late => t = "led"
    BY <1>3, <2>1 DEF Free, PlaceInv, StillInv
  <2>10. StillInv'
    BY <2>2, <2>3, <2>4, <2>9 DEF TypeInv, StillInv
  <2> QED BY <2>5, <2>6, <2>8, <2>10
<1> QED BY <1>1, <1>2, <1>3

\* The main task: labels, the final line, and the call of destroy.
LEMMA MainOK == ASSUME Inv, Main PROVE Inv'
<1> USE DEF Inv, At, Goto, lines, ends, Place, Early, Fading, Leaving, Flag
<1>1. CASE ShowLabel
  <2>1. CASE Accepted(Labels[said + 1])
    <3>1. /\ Goto("main", "enqueue") /\ pc["main"] = "idle"
          /\ UNCHANGED <<running, flags, ui, freed, late>>
      BY <1>1, <2>1 DEF ShowLabel, SetStatus
    <3>2. TypeInv' /\ PlaceInv'
      BY <3>1 DEF TypeInv, PlaceInv
    <3>3. LeaveInv'
      BY <3>1, NobodyLeaves
    <3>4. StillInv'
      BY <3>1 DEF TypeInv, StillInv
    <3> QED BY <3>2, <3>3, <3>4
  <2>2. CASE ~Accepted(Labels[said + 1])
    BY <1>1, <2>2 DEF ShowLabel, SetStatus, TypeInv, PlaceInv, LeaveInv, StillInv
  <2> QED BY <2>1, <2>2
<1>2. CASE Finalize
  BY <1>2, NobodyLeaves DEF Finalize, TypeInv, PlaceInv, StillInv
<1>3. CASE Destroy
  BY <1>3, NobodyLeaves DEF Destroy, TypeInv, PlaceInv, StillInv
<1>4. CASE LockStatus
  BY <1>4, NobodyLeaves DEF LockStatus, TypeInv, PlaceInv, StillInv
<1>5. CASE LineFade
  BY <1>5, NobodyLeaves DEF LineFade, CancelRowAnims, LockFree, TypeInv, PlaceInv, StillInv
<1>6. CASE PrepareExit
  <2>1. pc["main"] = "prepare" /\ ui' = ui + 1 /\ UNCHANGED <<running, flags, freed, late>>
    BY <1>6 DEF PrepareExit
  <2>2. ui = 0
    BY <2>1 DEF PlaceInv
  <2>3. ui' = 1
    BY <2>1, <2>2
  <2>4. PICK place \in {"boot complete", "exit"} : Goto("main", place)
    BY <1>6 DEF PrepareExit
  <2>5. LeaveInv'
    BY <2>1, <2>4, NobodyLeaves
  <2>6. TypeInv' /\ StillInv'
    BY <2>1, <2>4 DEF TypeInv, StillInv
  <2>7. PlaceInv'
    <3>1. /\ pc'["main"] \in {"boot complete", "exit"}
          /\ \A t \in Tasks \ {"main"} : pc'[t] = pc[t]
      BY <2>4 DEF TypeInv
    <3> QED BY <2>1, <2>3, <3>1 DEF PlaceInv
  <2> QED BY <2>5, <2>6, <2>7
<1>7. CASE BootComplete
  BY <1>7, NobodyLeaves DEF BootComplete, TypeInv, PlaceInv, StillInv
<1> QED BY <1>1, <1>2, <1>3, <1>4, <1>5, <1>6, <1>7 DEF Main

\* The broker's statuses, LVGL's callbacks and the signal of the LEDs.
LEMMA OthersOK == ASSUME Inv, BrokerReport \/ Lvgl \/ BeginFade PROVE Inv'
<1> USE DEF Inv, At, Goto, lines, ends, Place, Early, Fading, Leaving, Flag
<1>1. CASE BrokerReport
  <2>1. CASE Accepted(Report)
    <3>1. /\ Goto("mqtt", "enqueue") /\ pc["mqtt"] = "idle"
          /\ UNCHANGED <<running, flags, ui, freed>> /\ late' = (late \/ Has("destroy"))
      BY <1>1, <2>1 DEF BrokerReport, SetStatus
    <3>2. TypeInv' /\ PlaceInv'
      BY <3>1 DEF TypeInv, PlaceInv
    <3>3. LeaveInv'
      BY <3>1, NobodyLeaves
    <3>4. StillInv'
      BY <3>1 DEF TypeInv, PlaceInv, StillInv
    <3> QED BY <3>2, <3>3, <3>4
  <2>2. CASE ~Accepted(Report)
    BY <1>1, <2>2 DEF BrokerReport, SetStatus, TypeInv, PlaceInv, LeaveInv, StillInv
  <2> QED BY <2>1, <2>2
<1>2. CASE SlideDone
  BY <1>2 DEF SlideDone, TypeInv, PlaceInv, LeaveInv, StillInv
<1>3. CASE FadeDone
  BY <1>3, NobodyLeaves DEF FadeDone, TypeInv, PlaceInv, StillInv
<1>4. CASE Faded
  BY <1>4, NobodyLeaves DEF Faded, TypeInv, PlaceInv, StillInv
<1>5. CASE BeginFade
  <2>1. pc' = [pc EXCEPT !["led"] = "exit"] /\ pc["led"] = "idle" /\ pc["main"] = "done"
    BY <1>5 DEF BeginFade, Signal
  <2>2. flags' = flags \cup {"signal"} /\ UNCHANGED <<running, ui, freed, late>> /\ ~Has("signal")
    BY <1>5 DEF BeginFade, Signal
  <2>3. LeaveInv'
    BY <2>1, <2>2, NobodyLeaves
  <2>4. TypeInv' /\ PlaceInv'
    BY <2>1, <2>2 DEF TypeInv, PlaceInv
  <2>5. freed' # 1
    <3>1. ~Has("fading")
      BY <2>2 DEF PlaceInv
    <3>2. freed = 0
      BY <3>1 DEF LeaveInv
    <3> QED BY <2>2, <3>2
  <2>6. StillInv'
    <3>1. Has("destroy")' = Has("destroy") /\ Has("lineFade")' = Has("lineFade")
      BY <2>2
    <3>2. \A t \in Tasks \ {"led"} : pc'[t] = pc[t]
      BY <2>1 DEF TypeInv
    <3> QED BY <2>2, <2>5, <3>1, <3>2 DEF StillInv
  <2> QED BY <2>3, <2>4, <2>6
<1> QED BY <1>1, <1>2, <1>3, <1>4, <1>5 DEF Lvgl

\* Every step keeps the invariant.
LEMMA StepOK == Inv /\ [Next]_vars => Inv'
<1> SUFFICES ASSUME Inv, [Next]_vars PROVE Inv'
  OBVIOUS
<1>1. CASE \E t \in Tasks : Step(t)
  BY <1>1, LineStepOK, ExitStepOK DEF Step
<1>2. CASE Main
  BY <1>2, MainOK
<1>3. CASE BrokerReport \/ Lvgl \/ BeginFade
  BY <1>3, OthersOK
<1>4. CASE UNCHANGED vars
  BY <1>4 DEF vars, ends, Inv, TypeInv, PlaceInv, LeaveInv, StillInv
<1> QED BY <1>1, <1>2, <1>3, <1>4 DEF Next

\* Every behaviour of the splash keeps the invariant.
THEOREM ExitInvariance == Spec => []Inv
BY InitOK, StepOK, PTL DEF Spec

\* Whatever is queued or reported, the splash goes only when the UI has been loaded
\* behind it, once, and the LEDs have given their signal.
THEOREM UiBehindSplashHolds == Spec => []UiBehindSplash
<1>1. Inv => UiBehindSplash
  BY DEF Inv, PlaceInv, UiBehindSplash, Early, Leaving
<1> QED BY <1>1, ExitInvariance, PTL

\* Without a late broker status nobody uses the context after it is freed.
THEOREM NoUseAfterFreeHolds == Spec => []NoUseAfterFree
<1>1. Inv => NoUseAfterFree
  <2> SUFFICES ASSUME Inv, freed > 0, ~late
               PROVE  /\ freed = 1 /\ running = {}
                      /\ \A t \in Tasks : pc[t] \in {"idle", "done"}
    BY DEF NoUseAfterFree
  <2>1. freed = 1 /\ Has("signal") /\ pc["led"] = "idle"
    BY DEF Inv, PlaceInv, LeaveInv, StillInv
  <2>2. pc["main"] = "done" /\ Has("destroy") /\ Has("lineFade")
    BY <2>1 DEF Inv, PlaceInv, Early, Fading, Leaving
  <2> QED BY <2>1, <2>2 DEF Inv, StillInv
<1> QED BY <1>1, ExitInvariance, PTL

\* Once the lines fade, no line moves and no animation starts.
THEOREM StillAfterLineFadeHolds == Spec => StillAfterLineFade
<1>1. Inv /\ [Next]_vars => [Has("lineFade") /\ ~late' => UNCHANGED <<history, running>>]_vars
  <2> SUFFICES ASSUME Inv, Next, Has("lineFade"), ~late'
               PROVE  UNCHANGED <<history, running>>
    OBVIOUS
  <2>1. ~late
    BY DEF Next, Step, Main, Lvgl, Enqueue, Counted, StartIfIdle, Pop, Popped, Rotate, Launch,
           ExitIfReady, Leave, Free, ShowLabel, Finalize, Destroy, LockStatus, LineFade,
           CancelRowAnims, PrepareExit, BootComplete, BrokerReport, SlideDone, FadeDone, Faded,
           BeginFade, Signal, ends
  <2>2. running = {} /\ pc["lvgl"] = "idle" /\ pc["mqtt"] = "idle" /\ pc["main"] \in Fading
    BY <2>1 DEF Inv, PlaceInv, StillInv, Early, Fading, Leaving
  <2>3. \A t \in Tasks : pc[t] \notin {"rotate", "launch"}
    BY <2>2 DEF Inv, PlaceInv, Fading, Leaving
  <2> QED
    BY <2>2, <2>3 DEF Next, Step, Main, Lvgl, Enqueue, Counted, StartIfIdle, Pop, Popped, Rotate,
           Launch, ExitIfReady, Leave, Free, ShowLabel, SetStatus, Finalize, Destroy, LockStatus,
           LineFade, CancelRowAnims, PrepareExit, BootComplete, BrokerReport, SlideDone, FadeDone,
           Faded, BeginFade, Signal, At, lines, ends
<1> QED BY <1>1, ExitInvariance, PTL DEF Spec, StillAfterLineFade
-----------------------------------------------------------------------------
(* That the splash goes, up to the scheduling of its tasks: who finds the    *)
(* signal and the call of destroy leaves, whoever else is in ExitIfReady.    *)

GoInv ==
    /\ Has("signal") => Has("fading") \/ pc["led"] \in {"exit", "leave"}
    /\ Has("fading") => freed = 1 \/ \E t \in Tasks : pc[t] = "free"

\* A step of a task that is not leaving.
LEMMA StillGoes ==
    ASSUME Inv, GoInv, NEW t \in Tasks \ {"led"}, pc[t] # "free", NEW place,
           Goto(t, place) \/ UNCHANGED pc, UNCHANGED freed,
           Has("signal")' <=> Has("signal"), Has("fading")' <=> Has("fading")
    PROVE  GoInv'
BY DEF Inv, TypeInv, GoInv, Goto

\* The steps of a line, which the LED timer's task never takes.
LEMMA LinesGo ==
    ASSUME Inv, GoInv, NEW t \in Tasks,
           \/ Enqueue(t) \/ Counted(t) \/ StartIfIdle(t) \/ Pop(t) \/ Popped(t)
           \/ Rotate(t) \/ Launch(t)
    PROVE  GoInv'
<1>1. /\ pc[t] \in Early \ {"idle"} /\ UNCHANGED <<flags, freed>>
      /\ UNCHANGED pc \/ \E place \in Place : Goto(t, place)
  BY DEF Enqueue, Counted, StartIfIdle, Pop, Popped, Rotate, Launch, At, Early, Leaving,
         Fading, Place, lines, ends
<1>2. t # "led" /\ pc[t] # "free"
  BY <1>1 DEF Inv, PlaceInv, Early
<1> QED BY <1>1, <1>2, StillGoes

\* The context is freed for the first time.
LEMMA FreesOnce == ASSUME Inv, NEW t \in Tasks, Free(t) PROVE freed' = 1 /\ Has("fading")'
<1>1. freed' = freed + 1 /\ pc[t] = "free" /\ UNCHANGED flags
  BY DEF Free, At
<1>2. freed = 0 /\ Has("fading")
  BY <1>1 DEF Inv, LeaveInv
<1>3. freed' = 1
  BY <1>1, <1>2
<1>4. Has("fading")'
  BY <1>1, <1>2
<1> QED BY <1>3, <1>4

\* A task that finds the exit ready takes it, or another has.
LEMMA ExitGoes ==
    ASSUME Inv, GoInv, NEW t \in Tasks, ExitIfReady(t) \/ Leave(t) \/ Free(t)
    PROVE  GoInv'
<1> USE DEF Inv, TypeInv, At, Goto, lines, ends, Place, Early, Fading, Leaving
<1>1. CASE ExitIfReady(t)
  <2>1. /\ pc[t] = "exit" /\ UNCHANGED <<flags, freed>>
        /\ \A u \in Tasks \ {t} : pc'[u] = pc[u]
        /\ Ready => pc'[t] = "leave"
    BY <1>1 DEF ExitIfReady
  <2>2. Has("signal") => Has("fading") \/ Ready
    BY DEF PlaceInv, Ready
  <2>3. Has("signal")' => Has("fading")' \/ pc'["led"] \in {"exit", "leave"}
    BY <2>1, <2>2 DEF GoInv
  <2>4. Has("fading")' => freed' = 1 \/ \E u \in Tasks : pc'[u] = "free"
    BY <2>1 DEF GoInv
  <2> QED BY <2>3, <2>4 DEF GoInv
<1>2. CASE Leave(t)
  <2>1. /\ pc[t] = "leave" /\ UNCHANGED freed /\ flags \subseteq flags'
        /\ \A u \in Tasks \ {t} : pc'[u] = pc[u]
        /\ Has("fading") \/ (pc'[t] = "free" /\ flags' = flags \cup {"fading"})
    BY <1>2 DEF Leave
  <2>2. Has("fading")'
    BY <2>1
  <2>3. CASE Has("fading")
    <3>1. freed = 1 \/ \E u \in Tasks \ {t} : pc[u] = "free"
      BY <2>1, <2>3 DEF GoInv
    <3> QED BY <2>1, <2>2, <3>1 DEF GoInv
  <2>4. CASE ~Has("fading")
    <3>1. pc'[t] = "free"
      BY <2>1, <2>4
    <3>2. \E u \in Tasks : pc'[u] = "free"
      BY <3>1
    <3> QED BY <2>2, <3>2 DEF GoInv
  <2> QED BY <2>3, <2>4
<1>3. CASE Free(t)
  <2>1. freed' = 1 /\ Has("fading")'
    BY <1>3, FreesOnce
  <2> QED BY <2>1 DEF GoInv
<1> QED BY <1>1, <1>2, <1>3

\* Every step keeps somebody on the way out.
LEMMA GoStep == Inv /\ GoInv /\ [Next]_vars => GoInv'
<1> SUFFICES ASSUME Inv, GoInv, [Next]_vars PROVE GoInv'
  OBVIOUS
<1>1. CASE \E t \in Tasks : Step(t)
  BY <1>1, LinesGo, ExitGoes DEF Step
<1>2. CASE Main
  <2>1. pc["main"] # "free"
    BY <1>2 DEF Main, ShowLabel, SetStatus, Finalize, Destroy, LockStatus, LineFade, CancelRowAnims,
                PrepareExit, BootComplete, At
  <2>2. UNCHANGED freed /\ (UNCHANGED pc \/ \E place : Goto("main", place))
    BY <1>2 DEF Main, ShowLabel, SetStatus, Finalize, Destroy, LockStatus, LineFade, CancelRowAnims,
                PrepareExit, BootComplete, ends, Goto
  <2>3. (Has("signal")' <=> Has("signal")) /\ (Has("fading")' <=> Has("fading"))
    BY <1>2 DEF Main, ShowLabel, SetStatus, Finalize, Destroy, LockStatus, LineFade, CancelRowAnims,
                PrepareExit, BootComplete
  <2> QED BY <2>1, <2>2, <2>3, StillGoes
<1>3. CASE BrokerReport
  <2>1. pc["mqtt"] # "free" /\ UNCHANGED <<freed, flags>>
        /\ (UNCHANGED pc \/ \E place : Goto("mqtt", place))
    BY <1>3 DEF BrokerReport, SetStatus, At
  <2> QED BY <2>1, StillGoes
<1>4. CASE Lvgl
  <2>1. pc["lvgl"] # "free" /\ UNCHANGED <<freed, flags>>
        /\ (UNCHANGED pc \/ \E place : Goto("lvgl", place))
    BY <1>4 DEF Lvgl, SlideDone, FadeDone, Faded, At, ends
  <2> QED BY <2>1, StillGoes
<1>5. CASE BeginFade
  <2>1. pc' = [pc EXCEPT !["led"] = "exit"] /\ ~Has("signal") /\ flags' = flags \cup {"signal"}
    BY <1>5 DEF BeginFade, Signal, Goto
  <2>2. ~Has("fading")
    BY <2>1 DEF Inv, PlaceInv
  <2> QED BY <2>1, <2>2 DEF Inv, TypeInv, GoInv
<1>6. CASE UNCHANGED vars
  BY <1>6 DEF vars, ends, GoInv
<1> QED BY <1>1, <1>2, <1>3, <1>4, <1>5, <1>6 DEF Next

\* The exit is never lost: once the LEDs have given the signal and every task is out
\* of the splash again, one of them has freed it, whatever animation, status or
\* destroy call was under way.
ExitNotLost ==
    Has("signal") /\ (\A t \in Tasks : pc[t] \in {"idle", "done"}) => Has("fading") /\ freed = 1
THEOREM ExitNotLostHolds == Spec => []ExitNotLost
<1>1. Init => GoInv
  BY DEF Init, GoInv
<1>2. GoInv => ExitNotLost
  BY DEF GoInv, ExitNotLost
<1> QED BY <1>1, <1>2, GoStep, ExitInvariance, PTL DEF Spec
=============================================================================
