------------------------------- MODULE Button -------------------------------
(***************************************************************************)
(* The gesture recogniser of lib/button/button.c.                          *)
(*                                                                         *)
(* Two actors share btn_state: the GPIOTE interrupt handler                *)
(* button_state_change_handler, which debounces edges of the pin and moves *)
(* the state forward, and confirm_btn_state_work_handler, which the system *)
(* work queue runs when the delayed work expires, reports the gesture and  *)
(* goes back to BTN_INIT.  The interrupt may preempt the handler between   *)
(* its reading of btn_state and its reset of it.                           *)
(*                                                                         *)
(* Time is counted in ticks.  Uptime is a cyclic counter of Wrap ticks:    *)
(* button.c:40 keeps the 64-bit uptime in an int, so nothing but the       *)
(* uptime modulo 2^32 reaches the code, and timers are remaining times.    *)
(*                                                                         *)
(* The pin changes and time passes as they like.  The history variable     *)
(* upset keeps the worst disturbance since the restart, so that a property *)
(* can say under which of them it holds.                                   *)
(***************************************************************************)
EXTENDS Integers

CONSTANTS
  Debounce,     \* 10 ms, button.c:41
  ClickWait,    \* 500 ms, button.c:62
  DoubleWait,   \* 600 ms, button.c:75
  LongPress,    \* 3000 ms, button.c:55 and 68
  Wrap          \* 2^32 ms: the values of an int

ASSUME ButtonAssumption ==
  /\ Debounce \in Nat \ {0} /\ ClickWait \in Nat \ {0}
  /\ DoubleWait \in Nat \ {0} /\ LongPress \in Nat \ {0}
  /\ ClickWait <= LongPress /\ DoubleWait <= LongPress
  /\ Wrap \in Nat \ {0}

VARIABLES
  pressed,     \* the physical button (the pin is active low)
  stable,      \* ticks since the pin last changed, up to LongPress
  irq,         \* an edge waits for the interrupt handler
  uptime,      \* k_uptime_get() modulo Wrap
  phase,       \* how far app_button_init is
  btn_state, updatetime, btn_value,
  timer,       \* ticks until the delayed work is submitted, or Off
  queued,      \* the work is in the system work queue
  report,      \* what the running work handler reports, or "idle"
  upset        \* history: the worst of Disturbances since the restart

clock == <<pressed, stable, uptime>>
work  == <<timer, queued, report>>
vars  == <<pressed, stable, irq, uptime, phase, btn_state, updatetime,
           btn_value, timer, queued, report, upset>>

States   == {"INIT", "FIRST_PRESS", "SINGLE_CLICK", "SECOND_PRESS", "DOUBLE_CLICK"}
Gestures == {"long_press", "single_click", "click_and_press", "double_click"}
Off == -1

(* Nothing; an edge, or time, overtook a work that was due; an edge within *)
(* Debounce of the last, or an uptime that no int holds; an edge inside    *)
(* app_button_init.                                                        *)
Disturbances == {"none", "late", "rough", "early"}

(* The 64-bit uptime stored in an int. *)
AsInt(t) == IF 2 * t < Wrap THEN t ELSE t - Wrap

(* Mutant: the long press has lost its case. *)
GestureOfNoPress(s) ==
  CASE s = "SINGLE_CLICK" -> "single_click"
    [] s = "SECOND_PRESS" -> "click_and_press"
    [] s = "DOUBLE_CLICK" -> "double_click"
    [] OTHER -> "none"

(* The callback chosen for a state; "none" is the default branch. *)
GestureOf(s) ==
  CASE s = "FIRST_PRESS"  -> "long_press"
    [] s = "SINGLE_CLICK" -> "single_click"
    [] s = "SECOND_PRESS" -> "click_and_press"
    [] s = "DOUBLE_CLICK" -> "double_click"
    [] OTHER -> "none"

(* Mutant: a first press waits for a click's time only. *)
MovesHasty(s, val, s2, delay) ==
  \/ s = "INIT"         /\ val  /\ s2 = "FIRST_PRESS"  /\ delay = ClickWait
  \/ s = "FIRST_PRESS"  /\ ~val /\ s2 = "SINGLE_CLICK" /\ delay = ClickWait
  \/ s = "SINGLE_CLICK" /\ val  /\ s2 = "SECOND_PRESS" /\ delay = LongPress
  \/ s = "SECOND_PRESS" /\ ~val /\ s2 = "DOUBLE_CLICK" /\ delay = DoubleWait

(* An accepted edge to level val moves s to s2 and re-arms the work. *)
Moves(s, val, s2, delay) ==
  \/ s = "INIT"         /\ val  /\ s2 = "FIRST_PRESS"  /\ delay = LongPress
  \/ s = "FIRST_PRESS"  /\ ~val /\ s2 = "SINGLE_CLICK" /\ delay = ClickWait
  \/ s = "SINGLE_CLICK" /\ val  /\ s2 = "SECOND_PRESS" /\ delay = LongPress
  \/ s = "SECOND_PRESS" /\ ~val /\ s2 = "DOUBLE_CLICK" /\ delay = DoubleWait

(* The edges the state machine has no case for. *)
Ignores(s, val) ==
  \/ s = "INIT" /\ ~val
  \/ s \in {"FIRST_PRESS", "SECOND_PRESS"} /\ val
  \/ s = "SINGLE_CLICK" /\ ~val
  \/ s = "DOUBLE_CLICK"

Delays == {LongPress, ClickWait, DoubleWait}

Busy == queued \/ report # "idle"

(* The worst disturbance after one more of the given kinds. *)
Worst(early, rough, late) ==
  IF early \/ upset = "early" THEN "early"
  ELSE IF rough \/ upset = "rough" THEN "rough"
  ELSE IF late \/ upset = "late" THEN "late" ELSE "none"

Init ==
  /\ pressed \in BOOLEAN /\ stable = 0 /\ uptime = 0 /\ irq = FALSE
  /\ phase = "boot"
  /\ btn_state = "INIT" /\ updatetime = 0 /\ btn_value = FALSE
  /\ timer = Off /\ queued = FALSE /\ report = "idle"
  /\ upset = "none"

(* The user (or the contact's bounce) changes the pin: GPIOTE latches it.  *)
(* Before events are enabled no edge is latched.                           *)
Toggle ==
  /\ pressed' = ~pressed
  /\ stable' = 0
  /\ irq' = (phase # "boot")
  /\ upset' = Worst(phase = "enabled", stable < Debounce, Busy \/ timer = 0)
  /\ UNCHANGED <<uptime, phase, btn_state, updatetime, btn_value, work>>

(* The edges button_state_change_handler returns from at once. *)
Swallowed == AsInt(uptime) - updatetime < Debounce \/ pressed = btn_value

IsrSwallow ==
  /\ irq /\ Swallowed
  /\ irq' = FALSE
  /\ UNCHANGED <<clock, phase, btn_state, updatetime, btn_value, work, upset>>

(* Mutant: the accepted level is not remembered. *)
IsrAcceptNoLevel ==
  /\ irq /\ ~Swallowed
  /\ irq' = FALSE
  /\ updatetime' = AsInt(uptime)
  /\ \/ \E s2 \in States, d \in Delays :
          /\ Moves(btn_state, pressed, s2, d)
          /\ btn_state' = s2
          /\ timer' = d
     \/ Ignores(btn_state, pressed) /\ UNCHANGED <<btn_state, timer>>
  /\ UNCHANGED <<clock, phase, btn_value, queued, report, upset>>

(* Mutant: a timer that runs is extended. *)
IsrAcceptExtends ==
  /\ irq /\ ~Swallowed
  /\ irq' = FALSE
  /\ btn_value' = pressed
  /\ updatetime' = AsInt(uptime)
  /\ \/ \E s2 \in States, d \in Delays :
          /\ Moves(btn_state, pressed, s2, d)
          /\ btn_state' = s2
          /\ timer' = IF timer = Off THEN d ELSE timer + d
     \/ Ignores(btn_state, pressed) /\ UNCHANGED <<btn_state, timer>>
  /\ UNCHANGED <<clock, phase, queued, report, upset>>

IsrAccept ==
  /\ irq /\ ~Swallowed
  /\ irq' = FALSE
  /\ btn_value' = pressed
  /\ updatetime' = AsInt(uptime)
  /\ \/ \E s2 \in States, d \in Delays :
          /\ Moves(btn_state, pressed, s2, d)
          /\ btn_state' = s2
          /\ timer' = d
     \/ Ignores(btn_state, pressed) /\ UNCHANGED <<btn_state, timer>>
  /\ UNCHANGED <<clock, phase, queued, report, upset>>

(* app_button_init enables the edge events of the pin first ... *)
EnableEvents ==
  /\ phase = "boot"
  /\ phase' = "enabled"
  /\ UNCHANGED <<clock, irq, btn_state, updatetime, btn_value, work, upset>>

(* ... and then lets k_delayed_work_init zero the work, with whatever an   *)
(* edge taken in between has armed.                                        *)
FinishInit ==
  /\ phase = "enabled"
  /\ phase' = "ready"
  /\ timer' = Off
  /\ queued' = FALSE
  /\ UNCHANGED <<clock, irq, btn_state, updatetime, btn_value, report, upset>>

(* The delayed work's timeout: a queued work stays queued once. *)
TimerExpire ==
  /\ timer = 0
  /\ timer' = Off
  /\ queued' = TRUE
  /\ UNCHANGED <<clock, irq, phase, btn_state, updatetime, btn_value, report, upset>>

(* The system work queue runs the handler up to the callback ... *)
HandlerConfirm ==
  /\ queued /\ report = "idle"
  /\ queued' = FALSE
  /\ report' = GestureOf(btn_state)
  /\ UNCHANGED <<clock, irq, phase, btn_state, updatetime, btn_value, timer, upset>>

(* Mutant: the handler does not go back to BTN_INIT. *)
HandlerNoReset ==
  /\ report # "idle"
  /\ report' = "idle"
  /\ UNCHANGED <<clock, irq, phase, btn_state, updatetime, btn_value, timer, queued, upset>>

(* Mutant: after a long press the state waits for the release. *)
HandlerKeepsHeld ==
  /\ report # "idle"
  /\ report' = "idle"
  /\ btn_state' = IF report = "long_press" THEN btn_state ELSE "INIT"
  /\ UNCHANGED <<clock, irq, phase, updatetime, btn_value, timer, queued, upset>>

(* ... and from the callback to its end. *)
HandlerReset ==
  /\ report # "idle"
  /\ report' = "idle"
  /\ btn_state' = "INIT"
  /\ UNCHANGED <<clock, irq, phase, updatetime, btn_value, timer, queued, upset>>

(* One tick: interrupts and due timeouts are served within it. *)
Tick ==
  /\ phase # "enabled" /\ ~irq /\ timer # 0
  /\ uptime' = IF uptime + 1 = Wrap THEN 0 ELSE uptime + 1
  /\ stable' = IF stable < LongPress THEN stable + 1 ELSE stable
  /\ timer' = IF timer = Off THEN Off ELSE timer - 1
  /\ upset' = Worst(FALSE, 2 * (uptime + 1) >= Wrap, Busy)
  /\ UNCHANGED <<pressed, irq, phase, btn_state, updatetime, btn_value, queued, report>>

(* A restart at any moment: everything but the physical button is lost. *)
Reboot ==
  /\ uptime' = 0 /\ irq' = FALSE /\ phase' = "boot"
  /\ btn_state' = "INIT" /\ updatetime' = 0 /\ btn_value' = FALSE
  /\ timer' = Off /\ queued' = FALSE /\ report' = "idle"
  /\ upset' = "none"
  /\ UNCHANGED <<pressed, stable>>

Next ==
  \/ Toggle \/ IsrSwallow \/ IsrAccept \/ EnableEvents \/ FinishInit \/ TimerExpire
  \/ HandlerConfirm \/ HandlerReset \/ Tick \/ Reboot

Spec == Init /\ [][Next]_vars

(* Interrupts are served, the work queue runs what is queued, *)
(* and time passes however often the pin interrupts it.                  *)
Fairness ==
  /\ WF_vars(IsrSwallow \/ IsrAccept)
  /\ WF_vars(EnableEvents \/ FinishInit)
  /\ WF_vars(TimerExpire)
  /\ WF_vars(HandlerConfirm)
  /\ WF_vars(HandlerReset)
  /\ SF_vars(Tick)

FairSpec == Spec /\ Fairness

-----------------------------------------------------------------------------

(* Every variable stays in its type; timers never exceed the longest wait. *)
TypeOK ==
  /\ pressed \in BOOLEAN /\ stable \in 0 .. LongPress /\ irq \in BOOLEAN
  /\ uptime \in 0 .. Wrap - 1 /\ phase \in {"boot", "enabled", "ready"}
  /\ btn_state \in States /\ updatetime \in -Wrap .. Wrap /\ btn_value \in BOOLEAN
  /\ timer \in Off .. LongPress /\ queued \in BOOLEAN
  /\ report \in Gestures \cup {"idle", "none"}
  /\ upset \in Disturbances

(* A gesture under way (btn_state # INIT) always has somebody left to end  *)
(* it: the delayed work is armed, waits in the queue, or is running.       *)
(* Losing all three would leave the recogniser in a state no timeout ends. *)
(* Only an edge inside app_button_init can do that.                        *)
NoStuckGesture ==
  btn_state # "INIT" /\ upset # "early" => timer # Off \/ Busy

(* The state the interrupt handler advances agrees with the debounced      *)
(* level it last accepted, whatever edges were swallowed or raced with the *)
(* work handler's reset: otherwise an edge could match no case and be lost.*)
StateMatchesLevel ==
  /\ btn_state \in {"FIRST_PRESS", "SECOND_PRESS"} => btn_value
  /\ btn_state = "SINGLE_CLICK" => ~btn_value

(* button.c:54 "detect long press": a long press is reported only when the *)
(* button has been down for LongPress, without a break, until the report,  *)
(* while nothing has disturbed the recogniser.                             *)
LongPressMeansHeld ==
  [][upset = "none" /\ report = "idle" /\ report' \in {"long_press", "click_and_press"}
       => pressed /\ stable >= LongPress]_vars

(* A single click is reported only when ClickWait has passed with the      *)
(* button up, while nothing has disturbed the recogniser.                  *)
ClickMeansReleased ==
  [][upset = "none" /\ report = "idle" /\ report' = "single_click"
       => ~pressed /\ stable >= ClickWait]_vars

(* Gestures that rest on a time mean what the button did for that time. *)
GesturesMean == LongPressMeansHeld /\ ClickMeansReleased

(* button.c:61 "after the release, if there is no further click, confirm", *)
(* of the ClickWait timer: a click is confirmed ClickWait after its release *)
(* was accepted, even when the work queue is late.                         *)
ClickWaitsForSecond ==
  [][(upset \in {"none", "late"}) /\ report = "idle" /\ report' = "single_click"
       => AsInt(uptime) - updatetime >= ClickWait]_vars

(* A press accepted while no report is under way is reported as some       *)
(* gesture unless the device restarts first or its initialisation was hit: *)
(* neither bouncing, nor a race of an edge with the expiring work, nor the *)
(* wrap of the int uptime drops it.                                        *)
PressIsReported ==
  (phase = "ready" /\ btn_state = "FIRST_PRESS" /\ report = "idle" /\ upset # "early")
     ~> (report \in Gestures \/ phase = "boot")

(* Every gesture ends: whatever the pin does, the recogniser comes back to *)
(* BTN_INIT, because no state re-arms the work for ever.                   *)
GestureEnds == btn_state # "INIT" /\ upset # "early" ~> btn_state = "INIT"
=============================================================================
