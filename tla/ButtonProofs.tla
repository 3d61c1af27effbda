---------------------------- MODULE ButtonProofs ----------------------------
(***************************************************************************)
(* What Button guarantees for every value of its constants.  Each property *)
(* names, through upset, the disturbances it tolerates: the safety ones    *)
(* all but an edge inside app_button_init, the timing ones none.           *)
(***************************************************************************)
EXTENDS Button, TLAPS

(* Before app_button_init ends nothing has started. *)
QuietBoot ==
  phase # "ready" /\ upset # "early"
    => btn_state = "INIT" /\ ~irq /\ timer = Off /\ ~queued /\ report = "idle"

SafeInv == TypeOK /\ QuietBoot /\ NoStuckGesture /\ StateMatchesLevel

(* How long the work still waits, 0 once it has been submitted. *)
Remaining == IF timer = Off THEN 0 ELSE timer

(* An edge is served before the work is due, and the work is in one place. *)
OneAtATime ==
  /\ irq => ~Busy /\ timer # 0 /\ stable = 0
  /\ Busy => timer = Off
  /\ report # "idle" => ~queued
  /\ timer # Off \/ queued => btn_state # "INIT"
  /\ 2 * uptime < Wrap

(* A pending edge is a change of level late enough to be accepted. *)
EdgeWillBeTaken ==
  irq /\ btn_state # "INIT" =>
    /\ pressed # btn_value
    /\ uptime - updatetime >= Debounce

(* With no edge pending the pin is the accepted level, and has been for as *)
(* long as the delay that is already over.                                 *)
DelayIsHold ==
  btn_state # "INIT" /\ ~irq /\ report = "idle" =>
    /\ pressed = btn_value
    /\ uptime - updatetime >= stable
    /\ btn_state \in {"FIRST_PRESS", "SECOND_PRESS"} => stable + Remaining >= LongPress
    /\ btn_state = "SINGLE_CLICK" => stable + Remaining >= ClickWait

(* Until the first disturbance the pin, the accepted level and the timer   *)
(* tell the same story.                                                    *)
Undisturbed == OneAtATime /\ EdgeWillBeTaken /\ DelayIsHold

TimingInv == SafeInv /\ (upset = "none" => Undisturbed)

-----------------------------------------------------------------------------

(* The initial states satisfy the safety invariant. *)
LEMMA InitSafe == Init => SafeInv
<1> SUFFICES ASSUME Init PROVE SafeInv
  OBVIOUS
<1> USE ButtonAssumption DEF ButtonAssumption, Init, Off
<1>1. timer \in Off .. LongPress /\ updatetime \in -Wrap .. Wrap
  OBVIOUS
<1>2. stable \in 0 .. LongPress /\ uptime \in 0 .. Wrap - 1
  OBVIOUS
<1>3. TypeOK
  BY <1>1, <1>2 DEF TypeOK, States, Disturbances
<1> QED
  BY <1>3 DEF SafeInv, QuietBoot, NoStuckGesture, StateMatchesLevel, Busy

(* An int holds the uptime in the range TypeOK gives updatetime. *)
LEMMA AsIntRange ==
  ASSUME NEW t \in 0 .. Wrap - 1
  PROVE  AsInt(t) \in -Wrap .. Wrap
  BY ButtonAssumption DEF ButtonAssumption, AsInt

(* Every step keeps the variables in their types. *)
LEMMA NextType == TypeOK /\ [Next]_vars => TypeOK'
<1> SUFFICES ASSUME TypeOK, [Next]_vars PROVE TypeOK'
  OBVIOUS
<1> USE ButtonAssumption DEF ButtonAssumption, TypeOK, Off, Disturbances
<1>1. CASE Toggle
  BY <1>1 DEF Toggle, Worst, work
<1>2. CASE IsrSwallow
  BY <1>2 DEF IsrSwallow, clock, work
<1>3. CASE IsrAccept
  <2>1. updatetime' \in -Wrap .. Wrap
    BY <1>3, AsIntRange DEF IsrAccept
  <2>2. btn_state' \in States /\ timer' \in Off .. LongPress
    <3>1. Delays \subseteq 0 .. LongPress
      BY DEF Delays
    <3> QED
      BY <1>3, <3>1 DEF IsrAccept
  <2> QED
    BY <1>3, <2>1, <2>2 DEF IsrAccept, clock
<1>4. CASE EnableEvents
  BY <1>4 DEF EnableEvents, clock, work
<1>5. CASE FinishInit
  <2>1. timer' \in Off .. LongPress
    BY <1>5 DEF FinishInit
  <2> QED
    BY <1>5, <2>1 DEF FinishInit, clock
<1>6. CASE TimerExpire
  BY <1>6 DEF TimerExpire, clock
<1>7. CASE HandlerConfirm
  BY <1>7 DEF HandlerConfirm, clock, GestureOf, Gestures, States
<1>8. CASE HandlerReset
  BY <1>8 DEF HandlerReset, clock, States
<1>9. CASE Tick
  BY <1>9 DEF Tick, Worst
<1>10. CASE Reboot
  <2>1. timer' \in Off .. LongPress
    BY <1>10 DEF Reboot
  <2>2. updatetime' \in -Wrap .. Wrap /\ uptime' \in 0 .. Wrap - 1
    BY <1>10 DEF Reboot
  <2> QED
    BY <1>10, <2>1, <2>2 DEF Reboot, States
<1>11. CASE UNCHANGED vars
  BY <1>11 DEF vars
<1> QED
  BY <1>1, <1>2, <1>3, <1>4, <1>5, <1>6, <1>7, <1>8, <1>9, <1>10, <1>11 DEF Next

(* Every step keeps the safety invariant. *)
LEMMA NextSafe == SafeInv /\ [Next]_vars => SafeInv'
<1> SUFFICES ASSUME SafeInv, [Next]_vars
             PROVE  QuietBoot' /\ NoStuckGesture' /\ StateMatchesLevel'
  BY NextType DEF SafeInv
<1> USE ButtonAssumption
    DEF ButtonAssumption, SafeInv, TypeOK, QuietBoot, NoStuckGesture, StateMatchesLevel, Busy, Off
<1>1. CASE Toggle
  BY <1>1 DEF Toggle, Worst, work
<1>2. CASE IsrSwallow
  BY <1>2 DEF IsrSwallow, clock, work
<1>3. CASE IsrAccept
  <2>1. CASE Ignores(btn_state, pressed) /\ UNCHANGED <<btn_state, timer>>
    BY <1>3, <2>1 DEF IsrAccept, Ignores, clock
  <2>2. CASE \E s2 \in States, d \in Delays :
               Moves(btn_state, pressed, s2, d) /\ btn_state' = s2 /\ timer' = d
    BY <1>3, <2>2 DEF IsrAccept, Moves, Delays, clock
  <2> QED
    BY <1>3, <2>1, <2>2 DEF IsrAccept
<1>4. CASE EnableEvents
  BY <1>4 DEF EnableEvents, clock, work
<1>5. CASE FinishInit
  BY <1>5 DEF FinishInit, clock
<1>6. CASE TimerExpire
  BY <1>6 DEF TimerExpire, clock
<1>7. CASE HandlerConfirm
  BY <1>7 DEF HandlerConfirm, clock, GestureOf, States
<1>8. CASE HandlerReset
  BY <1>8 DEF HandlerReset, clock
<1>9. CASE Tick
  BY <1>9 DEF Tick, Worst
<1>10. CASE Reboot
  BY <1>10 DEF Reboot
<1>11. CASE UNCHANGED vars
  BY <1>11 DEF vars
<1> QED
  BY <1>1, <1>2, <1>3, <1>4, <1>5, <1>6, <1>7, <1>8, <1>9, <1>10, <1>11 DEF Next

(* Type correctness, for any waits, clock and environment. *)
THEOREM ButtonTypeOK == Spec => []TypeOK
<1>1. Init => TypeOK
  BY InitSafe DEF SafeInv
<1> QED
  BY <1>1, NextType, PTL DEF Spec

(* Unless an edge hits app_button_init, a gesture under way always has its *)
(* delayed work armed, queued or running.                                  *)
THEOREM ButtonNoStuckGesture == Spec => []NoStuckGesture
<1>1. SafeInv => NoStuckGesture
  BY DEF SafeInv
<1> QED
  BY InitSafe, NextSafe, <1>1, PTL DEF Spec

(* The state always agrees with the last accepted level, whatever the pin  *)
(* bounces and the races do.                                               *)
THEOREM ButtonStateMatchesLevel == Spec => []StateMatchesLevel
<1>1. SafeInv => StateMatchesLevel
  BY DEF SafeInv
<1> QED
  BY InitSafe, NextSafe, <1>1, PTL DEF Spec

-----------------------------------------------------------------------------

(* In the first half of the clock the int is the uptime itself. *)
LEMMA AsIntCalm ==
  ASSUME NEW t \in Nat, 2 * t < Wrap
  PROVE  AsInt(t) = t
  BY DEF AsInt

(* Every step that disturbs nothing keeps the timing invariant. *)
LEMMA NextTiming == TimingInv /\ [Next]_vars => TimingInv'
<1> SUFFICES ASSUME TimingInv, [Next]_vars, upset' = "none"
             PROVE  OneAtATime' /\ EdgeWillBeTaken' /\ DelayIsHold'
  BY NextSafe DEF TimingInv, Undisturbed
<1>a. SafeInv /\ SafeInv'
  BY NextSafe DEF TimingInv
<1> USE ButtonAssumption, <1>a
    DEF ButtonAssumption, SafeInv, TypeOK, QuietBoot,
        StateMatchesLevel, OneAtATime, EdgeWillBeTaken, DelayIsHold, Remaining,
        Busy, Off
<1>1. CASE Reboot
  BY <1>1 DEF Reboot
<1>2. CASE ~Reboot
  <2>a. upset = "none"
    BY <1>2 DEF Next, vars, Toggle, IsrSwallow, IsrAccept, EnableEvents, FinishInit,
       TimerExpire, HandlerConfirm, HandlerReset, Tick, Worst, Disturbances
  <2>b. OneAtATime /\ EdgeWillBeTaken /\ DelayIsHold
    BY <2>a DEF TimingInv, Undisturbed
  <2>c. AsInt(uptime) = uptime
    BY <2>b, AsIntCalm
  <2>1. CASE Toggle
    <3>1. stable >= Debounce /\ phase # "enabled" /\ ~Busy /\ timer # 0
      BY <2>1 DEF Toggle, Worst
    <3>2. OneAtATime'
      BY <2>1, <2>b, <3>1 DEF Toggle, Worst, work
    <3>3. EdgeWillBeTaken'
      BY <2>1, <2>b, <3>1 DEF Toggle, Worst, work
    <3>4. DelayIsHold'
      BY <2>1, <2>b, <3>1 DEF Toggle, Worst, work
    <3> QED
      BY <3>2, <3>3, <3>4
  <2>2. CASE IsrSwallow
    BY <2>2, <2>b, <2>c DEF IsrSwallow, Swallowed, clock, work
  <2>3. CASE IsrAccept
    <3>1. CASE Ignores(btn_state, pressed) /\ UNCHANGED <<btn_state, timer>>
      BY <2>3, <2>b, <2>c, <3>1 DEF IsrAccept, Swallowed, Ignores, clock
    <3>2. CASE \E s2 \in States, d \in Delays :
                 Moves(btn_state, pressed, s2, d) /\ btn_state' = s2 /\ timer' = d
      BY <2>3, <2>b, <2>c, <3>2 DEF IsrAccept, Swallowed, Moves, Delays, clock
    <3> QED
      BY <2>3, <3>1, <3>2 DEF IsrAccept
  <2>4. CASE EnableEvents
    BY <2>4, <2>b DEF EnableEvents, clock, work
  <2>5. CASE FinishInit
    BY <2>5, <2>a, <2>b DEF FinishInit, clock
  <2>6. CASE TimerExpire
    BY <2>6, <2>b DEF TimerExpire, clock
  <2>7. CASE HandlerConfirm
    BY <2>7, <2>b DEF HandlerConfirm, clock, GestureOf, States
  <2>8. CASE HandlerReset
    <3>1. timer = Off /\ ~irq
      BY <2>8, <2>b DEF HandlerReset
    <3> QED
      BY <2>8, <2>b, <3>1 DEF HandlerReset, clock
  <2>9. CASE Tick
    <3>1. ~Busy /\ 2 * (uptime + 1) < Wrap
      BY <2>9, <2>a DEF Tick, Worst
    <3> QED
      BY <2>9, <2>b, <3>1 DEF Tick, Worst
  <2>10. CASE UNCHANGED vars
    BY <2>10, <2>b DEF vars
  <2> QED
    BY <1>2, <2>1, <2>2, <2>3, <2>4, <2>5, <2>6, <2>7, <2>8, <2>9, <2>10 DEF Next
<1> QED
  BY <1>1, <1>2

(* The work handler decides for a hold or a click only after the whole     *)
(* delay has passed at the level of the decision.                          *)
LEMMA ConfirmTiming ==
  ASSUME TimingInv, [Next]_vars, upset = "none", report = "idle", report' # "idle"
  PROVE  /\ report' \in {"long_press", "click_and_press"}
              => pressed /\ stable >= LongPress
         /\ report' = "single_click" => ~pressed /\ stable >= ClickWait
<1>1. HandlerConfirm
  BY DEF Next, vars, Toggle, IsrSwallow, IsrAccept, EnableEvents, FinishInit,
         TimerExpire, HandlerReset, Tick, Reboot, work
<1> QED
  BY <1>1, ButtonAssumption
  DEF ButtonAssumption, TimingInv, SafeInv, TypeOK, StateMatchesLevel, States,
      Undisturbed, OneAtATime, DelayIsHold, Remaining, Busy, Off, HandlerConfirm,
      GestureOf

(* While nothing disturbs the recogniser, a long press is reported only    *)
(* for a button held for the whole LongPress, and a single click only for  *)
(* one released for the whole ClickWait, for any waits and debounce time.  *)
THEOREM ButtonTiming == Spec => GesturesMean
<1>1. Init => TimingInv
  BY InitSafe, ButtonAssumption
  DEF ButtonAssumption, Init, TimingInv, Undisturbed, OneAtATime, EdgeWillBeTaken,
      DelayIsHold, Busy, Off
<1>2. TimingInv /\ [Next]_vars => TimingInv'
  BY NextTiming
<1>3. TimingInv /\ [Next]_vars
        => [upset = "none" /\ report = "idle"
              /\ report' \in {"long_press", "click_and_press"}
                => pressed /\ stable >= LongPress]_vars
  BY ConfirmTiming
<1>4. TimingInv /\ [Next]_vars
        => [upset = "none" /\ report = "idle" /\ report' = "single_click"
              => ~pressed /\ stable >= ClickWait]_vars
  BY ConfirmTiming
<1> QED
  BY <1>1, <1>2, <1>3, <1>4, PTL
  DEF Spec, GesturesMean, LongPressMeansHeld, ClickMeansReleased

-----------------------------------------------------------------------------
(* What PressIsReported and GestureEnds rest on, fairness apart *)

(* The order in which a gesture goes through its states. *)
Rank(s) ==
  CASE s = "INIT" -> 0 [] s = "FIRST_PRESS" -> 1 [] s = "SINGLE_CLICK" -> 2
    [] s = "SECOND_PRESS" -> 3 [] OTHER -> 4

(* A gesture under way is neither dropped nor answered by the default      *)
(* branch: it goes on, or the next thing is its report, or a restart.      *)
PressKept ==
  [][phase = "ready" /\ btn_state # "INIT" /\ report = "idle"
       => \/ btn_state' # "INIT" /\ report' = "idle"
          \/ report' = GestureOf(btn_state) /\ report' \in Gestures
          \/ phase' = "boot"]_vars

(* It never goes back, and only going on re-arms the delayed work: no      *)
(* bouncing can put its end off more than three times.                     *)
GoesForward ==
  [][btn_state # "INIT" /\ btn_state' # "INIT"
       => \/ Rank(btn_state) < Rank(btn_state')
          \/ btn_state' = btn_state /\ timer' <= timer]_vars

(* From any state a gesture is kept until it is reported and moves towards *)
(* its report only, whatever the pin does: with NoStuckGesture, the parts  *)
(* of its liveness that do not rest on fairness.                           *)
THEOREM ButtonGestureKept == Spec => PressKept /\ GoesForward
<1>1. ASSUME TypeOK, [Next]_vars
      PROVE  /\ [phase = "ready" /\ btn_state # "INIT" /\ report = "idle"
                   => \/ btn_state' # "INIT" /\ report' = "idle"
                      \/ report' = GestureOf(btn_state) /\ report' \in Gestures
                      \/ phase' = "boot"]_vars
             /\ [btn_state # "INIT" /\ btn_state' # "INIT"
                   => \/ Rank(btn_state) < Rank(btn_state')
                      \/ btn_state' = btn_state /\ timer' <= timer]_vars
  <2> USE <1>1, ButtonAssumption DEF ButtonAssumption, TypeOK, Off, work, clock
  <2>1. CASE IsrAccept
    <3>1. CASE Ignores(btn_state, pressed) /\ UNCHANGED <<btn_state, timer>>
      BY <2>1, <3>1 DEF IsrAccept
    <3>2. CASE \E s2 \in States, d \in Delays :
                 Moves(btn_state, pressed, s2, d) /\ btn_state' = s2 /\ timer' = d
      BY <2>1, <3>2 DEF IsrAccept, Moves, Rank
    <3> QED
      BY <2>1, <3>1, <3>2 DEF IsrAccept
  <2>2. CASE HandlerConfirm
    BY <2>2 DEF HandlerConfirm, GestureOf, Gestures, States
  <2>3. CASE HandlerReset
    BY <2>3 DEF HandlerReset
  <2>4. CASE Reboot
    BY <2>4 DEF Reboot
  <2>5. CASE Tick
    BY <2>5 DEF Tick
  <2>6. CASE FinishInit \/ TimerExpire
    BY <2>6 DEF FinishInit, TimerExpire
  <2>7. CASE Toggle \/ IsrSwallow \/ EnableEvents
    BY <2>7 DEF Toggle, IsrSwallow, EnableEvents
  <2>8. CASE UNCHANGED vars
    BY <2>8
  <2> QED
    BY <2>1, <2>2, <2>3, <2>4, <2>5, <2>6, <2>7, <2>8 DEF Next
<1> QED
  BY <1>1, ButtonTypeOK, PTL DEF Spec, PressKept, GoesForward
=============================================================================
