---------------------------- MODULE ShutterProofs ----------------------------
(***************************************************************************)
(* Theorems about Shutter for every duration, divider and pause.           *)
(***************************************************************************)
EXTENDS Shutter, TLAPS

(* What FailSafe needs to be inductive: an output that is on and not timed   *)
(* has a context that is about to time it or to switch it off.               *)
SomeoneAt(labels) == \E c \in Contexts : pc[c] \in labels

Covered ==
    /\ relay["up"] => ShutterTimed \/ SomeoneAt({"arm", "dropUp"})
    /\ relay["down"] => ShutterTimed \/ SomeoneAt({"arm", "dropUp", "dropDown"})
    /\ pressed => OverheadTimed \/ SomeoneAt({"armOverhead", "release"})

Actions(c) ==
    \/ Step(c)
    \/ \E o \in {"up", "down", "overhead", "close", "task"} :
           Call(c, o) /\ stage' \in {"commands", "clock", "task"}

(* Next, sorted by what a step does rather than by who takes it.             *)
LEMMA NextCases ==
    ASSUME TypeOK, Next
    PROVE  (\E c \in Contexts : Actions(c)) \/ NextStage \/ Tick \/ Boot
  BY DEF Next, MainNext, WebNext, MainCommand, WebCommand, AutoClose, RunTask,
         Actions, Contexts, TypeOK

LEMMA LedTypes ==
    /\ LedOff \in Led /\ LedOn \in Led
    /\ LedActivate(BlinkInterval, BlinkDuration) \in Led
  BY ShutterAssumption DEF Led, LedOff, LedOn, LedActivate

LEMMA LedTickType == ASSUME NEW l \in Led PROVE LedTick(l) \in Led
  <1> DEFINE counter == (l.counter + 1) % 65536
             toggles == l.interval > 0 /\ counter % l.interval = 0
             next == [l EXCEPT !.counter = counter,
                               !.state = IF toggles THEN ~@ ELSE @]
  <1>1. counter \in Nat
    BY DEF Led
  <1>2. (IF toggles THEN ~l.state ELSE l.state) \in BOOLEAN
    <2> HIDE DEF toggles
    <2>1. l.state \in BOOLEAN
      BY DEF Led
    <2> QED  BY <2>1, Zenon
  <1>3. next \in Led
    <2> HIDE DEF counter, toggles
    <2> QED  BY <1>1, <1>2 DEF Led
  <1>4. LedTick(l) = l \/ LedTick(l) = LedOff \/ LedTick(l) = next
    BY DEF LedTick
  <1> QED
    BY <1>3, <1>4, LedTypes

(* One second of a countdown keeps its timer or raises its flag.             *)
LEMMA CountdownKeeps ==
    ASSUME NEW n \in Nat, NEW f \in BOOLEAN, NEW m, NEW g,
           m = IF n > 0 THEN n - 1 ELSE 0,
           g = IF n = 1 THEN TRUE ELSE f
    PROVE  m \in Nat /\ g \in BOOLEAN /\ (n > 0 \/ f => m > 0 \/ g)
  <1>1. m \in Nat /\ (n > 1 => m > 0)
    OBVIOUS
  <1>2. n = 1 => g = TRUE
    BY Zenon
  <1>3. n # 1 => g = f
    BY Zenon
  <1>4. n > 0 => n = 1 \/ n > 1
    OBVIOUS
  <1>5. n = 1 \/ n # 1
    OBVIOUS
  <1> QED
    BY <1>1, <1>2, <1>3, <1>4, <1>5, Zenon

LEMMA TickKeeps ==
    ASSUME TypeOK, Tick
    PROVE  /\ div' \in 0 .. TicksPerSecond - 1
           /\ relay_remaining_seconds' \in Nat /\ rshutter_must_stop' \in BOOLEAN
           /\ overhead_remaining_seconds' \in Nat /\ overhead_must_stop' \in BOOLEAN
           /\ ShutterTimed => ShutterTimed'
           /\ OverheadTimed => OverheadTimed'
  <1> USE DEF TypeOK, ShutterTimed, OverheadTimed
  <1>1. div' \in 0 .. TicksPerSecond - 1
    BY ShutterAssumption DEF Tick, rshutter_tick
  <1>2. CASE div + 1 >= TicksPerSecond
    <2>1. /\ Countdown(relay_remaining_seconds, rshutter_must_stop)
          /\ Countdown(overhead_remaining_seconds, overhead_must_stop)
      BY <1>2, Zenon DEF Tick, rshutter_tick
    <2> QED
      BY <1>1, <2>1, CountdownKeeps, Zenon DEF Countdown
  <1>3. CASE ~(div + 1 >= TicksPerSecond)
    BY <1>1, <1>3, Zenon DEF Tick, rshutter_tick, timers, flags
  <1> QED
    BY <1>2, <1>3

LEMMA InitType == Init => TypeOK
  <1> SUFFICES ASSUME Init PROVE TypeOK
    OBVIOUS
  <1>1. relay \in [Directions -> BOOLEAN] /\ led \in [Directions -> Led]
    BY LedTypes DEF Init
  <1>2. op \in [Contexts -> Operations] /\ pc \in [Contexts -> Labels]
    BY DEF Init, Operations, Labels
  <1>3. sleep \in [Contexts -> 0 .. PauseTicks] /\ rest \in 0 .. PauseTicks
    BY ShutterAssumption DEF Init
  <1>4. div \in 0 .. TicksPerSecond - 1
    BY ShutterAssumption DEF Init
  <1> QED
    BY <1>1, <1>2, <1>3, <1>4 DEF Init, TypeOK

LEMMA TypeStep == TypeOK /\ [Next]_vars => TypeOK'
  <1> SUFFICES ASSUME TypeOK, [Next]_vars PROVE TypeOK'
    OBVIOUS
  <1> USE ShutterAssumption
  <1>0. CASE UNCHANGED vars
    BY <1>0 DEF TypeOK, vars, outputs, timers, flags
  <1>1. ASSUME NEW c \in Contexts, Actions(c) PROVE TypeOK'
    <2> USE DEF TypeOK, outputs, timers, flags, Goto, Return, At
    <2>1. CASE DropUp(c)
      BY <2>1, LedTypes DEF DropUp, SwitchOff, Labels, Directions
    <2>2. CASE DropDown(c)
      BY <2>2, LedTypes DEF DropDown, SwitchOff, Labels, Directions
    <2>3. CASE Wake(c)
      BY <2>3 DEF Wake, Labels
    <2>4. CASE Energise(c)
      BY <2>4, LedTypes DEF Energise, Labels, Direction, Directions
    <2>5. CASE Arm(c)
      BY <2>5 DEF Arm, Labels, Operations
    <2>6. CASE Press(c)
      BY <2>6, LedTypes DEF Press, Labels
    <2>7. CASE ArmOverhead(c)
      BY <2>7 DEF ArmOverhead, Labels, Operations
    <2>8. CASE CheckShutter(c) \/ ClearShutter(c)
      BY <2>8 DEF CheckShutter, ClearShutter, Labels
    <2>9. CASE CheckOverhead(c) \/ ClearOverhead(c) \/ Release(c)
      BY <2>9 DEF CheckOverhead, ClearOverhead, Release, Labels, Operations
    <2>10. ASSUME NEW o \in {"up", "down", "overhead", "close", "task"},
                  Call(c, o), stage' \in {"commands", "clock", "task"}
           PROVE  TypeOK'
      BY <2>10 DEF Call, Entry, Labels, Operations
    <2> QED
      BY <1>1, <2>1, <2>2, <2>3, <2>4, <2>5, <2>6, <2>7, <2>8, <2>9, <2>10
         DEF Actions, Step
  <1>2. CASE NextStage
    BY <1>2 DEF NextStage, TypeOK, outputs, timers, flags
  <1>3. CASE Tick
    <2>1. led' \in [Directions -> Led]
      BY <1>3, LedTickType DEF Tick, TypeOK
    <2>2. sleep' \in [Contexts -> 0 .. PauseTicks] /\ rest' \in 0 .. PauseTicks
      BY <1>3 DEF Tick, TypeOK
    <2> QED
      BY <1>3, <2>1, <2>2, TickKeeps DEF Tick, TypeOK
  <1>4. CASE Boot
    <2>1. /\ relay' \in [Directions -> BOOLEAN]
          /\ led' \in [Directions -> Led]
      BY <1>4, LedTypes DEF Boot
    <2>2. op' \in [Contexts -> Operations] /\ pc' \in [Contexts -> Labels]
      BY <1>4 DEF Boot, Operations, Labels
    <2>3. sleep' \in [Contexts -> 0 .. PauseTicks] /\ rest' \in 0 .. PauseTicks
      BY <1>4 DEF Boot
    <2>4. div' \in 0 .. TicksPerSecond - 1
      BY <1>4 DEF Boot
    <2> QED
      BY <1>4, <2>1, <2>2, <2>3, <2>4 DEF Boot, TypeOK
  <1> QED
    BY <1>0, <1>1, <1>2, <1>3, <1>4, NextCases

(* Every variable keeps the type TypeOK gives it, WiFi on or off.            *)
THEOREM TypeCorrect == Spec => []TypeOK
  <1>1. Init => TypeOK
    BY InitType
  <1>2. TypeOK /\ [Next]_vars => TypeOK'
    BY TypeStep
  <1> QED
    BY <1>1, <1>2, PTL DEF Spec

LEMMA CoveredStep == TypeOK /\ Covered /\ [Next]_vars => Covered'
  <1> SUFFICES ASSUME TypeOK, Covered, [Next]_vars PROVE Covered'
    OBVIOUS
  <1> USE ShutterAssumption
  <1> USE DEF Covered, SomeoneAt, ShutterTimed, OverheadTimed
  <1>0. CASE UNCHANGED vars
    BY <1>0 DEF vars, outputs, timers, flags
  <1>1. ASSUME NEW c \in Contexts, Actions(c) PROVE Covered'
    <2> USE DEF TypeOK, outputs, timers, flags, Goto, Return, At
    <2>1. CASE DropUp(c)
      BY <2>1 DEF DropUp, SwitchOff, Directions
    <2>2. CASE DropDown(c)
      BY <2>2 DEF DropDown, SwitchOff, Directions
    <2>3. CASE Wake(c)
      BY <2>3 DEF Wake
    <2>4. CASE Energise(c)
      BY <2>4 DEF Energise
    <2>5. CASE Arm(c)
      BY <2>5 DEF Arm
    <2>6. CASE Press(c)
      BY <2>6 DEF Press
    <2>7. CASE ArmOverhead(c)
      BY <2>7 DEF ArmOverhead
    <2>8. CASE CheckShutter(c) \/ ClearShutter(c)
      BY <2>8 DEF CheckShutter, ClearShutter
    <2>9. CASE CheckOverhead(c) \/ ClearOverhead(c) \/ Release(c)
      BY <2>9 DEF CheckOverhead, ClearOverhead, Release
    <2>10. ASSUME NEW o \in {"up", "down", "overhead", "close", "task"},
                  Call(c, o)
           PROVE  Covered'
      BY <2>10 DEF Call, Idle
    <2> QED
      BY <1>1, <2>1, <2>2, <2>3, <2>4, <2>5, <2>6, <2>7, <2>8, <2>9, <2>10
         DEF Actions, Step
  <1>2. CASE NextStage
    BY <1>2 DEF NextStage, outputs, timers, flags
  <1>3. CASE Tick
    BY <1>3, TickKeeps DEF Tick
  <1>4. CASE Boot
    BY <1>4 DEF Boot, Directions
  <1> QED
    BY <1>0, <1>1, <1>2, <1>3, <1>4, NextCases

(* No output is left on for ever: between door functions an energised relay  *)
(* or a pressed button has its countdown or its stop flag.                   *)
THEOREM FailSafeHolds == Spec => []FailSafe
  <1>1. Init => Covered
    BY DEF Init, Covered, Directions
  <1>2. TypeOK /\ Covered /\ [Next]_vars => Covered'
    BY CoveredStep
  <1>3. Covered => FailSafe
    BY DEF Covered, FailSafe, SomeoneAt, Idle, AllOff
  <1> QED
    BY <1>1, <1>2, <1>3, TypeCorrect, PTL DEF Spec

-----------------------------------------------------------------------------
(* A LED that burns steadily has its relay on, in the middle of a door       *)
(* function too: every statement that changes the one changes the other.     *)
Steady(l) == l.active /\ l.duration = 0

Shown ==
    /\ \A d \in Directions : Steady(led[d]) => relay[d]
    /\ relay["up"] => led["up"] = LedOn

LEMMA LedTickKeeps ==
    ASSUME NEW l \in Led
    PROVE  LedTick(LedOn) = LedOn /\ (Steady(LedTick(l)) => Steady(l))
  <1> DEFINE counter == (l.counter + 1) % 65536
             toggles == l.interval > 0 /\ counter % l.interval = 0
             state == IF toggles THEN ~l.state ELSE l.state
             next == [l EXCEPT !.counter = counter, !.state = state]
  <1>1. next.active = l.active /\ next.duration = l.duration
    <2> HIDE DEF counter, state
    <2> QED  BY DEF Led
  <1>2. LedTick(l) = l \/ LedTick(l) = LedOff \/ LedTick(l) = next
    BY DEF LedTick
  <1>3. ~Steady(LedOff) /\ LedTick(LedOn) = LedOn
    BY DEF Steady, LedOff, LedOn, LedActivate, LedTick
  <1> QED
    <2> HIDE DEF next
    <2> QED  BY <1>1, <1>2, <1>3 DEF Steady

LEMMA ShownStep == TypeOK /\ Shown /\ [Next]_vars => Shown'
  <1> SUFFICES ASSUME TypeOK, Shown, [Next]_vars PROVE Shown'
    OBVIOUS
  <1> USE DEF Shown
  <1>0. CASE UNCHANGED outputs
    BY <1>0 DEF outputs
  <1>1. ASSUME NEW c \in Contexts, Actions(c) PROVE Shown'
    <2> USE DEF TypeOK, Directions
    <2>1. ~Steady(LedOff)
      BY DEF Steady, LedOff
    <2>2. CASE DropUp(c)
      BY <2>1, <2>2 DEF DropUp, SwitchOff
    <2>3. CASE DropDown(c)
      BY <2>1, <2>3 DEF DropDown, SwitchOff
    <2>4. CASE Energise(c)
      BY <2>4 DEF Energise, Direction
    <2>5. CASE Press(c)
      <3>1. ~Steady(LedActivate(BlinkInterval, BlinkDuration))
        BY ShutterAssumption DEF Steady, LedActivate
      <3> QED  BY <2>5, <3>1 DEF Press
    <2>6. CASE Release(c)
      BY <2>6 DEF Release
    <2>7. CASE Wake(c) \/ Arm(c) \/ ArmOverhead(c) \/ CheckShutter(c)
               \/ ClearShutter(c) \/ CheckOverhead(c) \/ ClearOverhead(c)
      BY <1>0, <2>7 DEF Wake, Arm, ArmOverhead, CheckShutter, ClearShutter,
         CheckOverhead, ClearOverhead
    <2>8. CASE \E o \in {"up", "down", "overhead", "close", "task"} : Call(c, o)
      BY <1>0, <2>8 DEF Call
    <2> QED
      BY <1>1, <2>2, <2>3, <2>4, <2>5, <2>6, <2>7, <2>8 DEF Actions, Step
  <1>2. CASE NextStage
    BY <1>0, <1>2 DEF NextStage
  <1>3. CASE Tick
    <2>1. relay' = relay /\ \A d \in Directions : led'[d] = LedTick(led[d])
      BY <1>3 DEF Tick
    <2>2. \A d \in Directions : Steady(led'[d]) => Steady(led[d])
      BY <2>1, LedTickKeeps DEF TypeOK
    <2>3. LedTick(LedOn) = LedOn
      BY LedTypes, LedTickKeeps
    <2> QED
      BY <2>1, <2>2, <2>3 DEF Directions
  <1>4. CASE Boot
    BY <1>4 DEF Boot, Directions, Steady, LedOff
  <1>5. CASE UNCHANGED vars
    BY <1>0, <1>5 DEF vars
  <1> QED
    BY <1>1, <1>2, <1>3, <1>4, <1>5, NextCases

(* Between door functions a LED that burns steadily belongs to a relay that  *)
(* is on, and the UP LED burns when its relay is on.                         *)
THEOREM LedsTrue == Spec => []LedsTruthful
  <1>1. Init => Shown
    BY DEF Init, Shown, Directions, Steady, LedOff
  <1>2. TypeOK /\ Shown /\ [Next]_vars => Shown'
    BY ShownStep
  <1>3. Shown => LedsTruthful
    BY DEF Shown, LedsTruthful, Steady, LedOn, LedActivate
  <1> QED
    BY <1>1, <1>2, <1>3, TypeCorrect, PTL DEF Spec

-----------------------------------------------------------------------------
(* The refinement of Motor, while no web request interrupts a door function. *)

(* One context at a time is in a door function; in its pause the outputs are *)
(* off, and have been for all of the pause that is over.                     *)
Undisturbed ==
    /\ Idle("main") \/ Idle("web")
    /\ ~(relay["up"] /\ relay["down"])
    /\ \A c \in Contexts :
        /\ pc[c] = "dropDown" => ~relay["up"]
        /\ pc[c] = "pause" => AllOff /\ rest + sleep[c] >= PauseTicks
        /\ pc[c] = "energise" => AllOff /\ rest = PauseTicks

(* A step that leaves the relays, their history and the pauses alone.        *)
Quiet(c) ==
    /\ UNCHANGED <<relay, rest, sleep>>
    /\ \E l \in Labels \ {"dropDown", "pause", "energise"} : pc' = [pc EXCEPT ![c] = l]

LEMMA UndisturbedCases ==
    ASSUME TypeOK, Undisturbed, NextUndisturbed
    PROVE  \/ \E c \in Contexts :
                /\ \A b \in Contexts : b # c => Idle(b)
                /\ DropUp(c) \/ DropDown(c) \/ Wake(c) \/ Energise(c) \/ Quiet(c)
           \/ UNCHANGED <<relay, rest, sleep, pc>>
           \/ Tick \/ Boot
  <1> USE DEF TypeOK, Contexts, Idle
  <1>1. ASSUME NEW c \in Contexts, NEW o \in {"up", "down", "overhead", "close", "task"},
               Call(c, o)
        PROVE  Quiet(c)
    BY <1>1 DEF Call, Entry, Quiet, Labels, outputs
  <1>2. ASSUME NEW c \in Contexts, Step(c)
        PROVE  DropUp(c) \/ DropDown(c) \/ Wake(c) \/ Energise(c) \/ Quiet(c)
    <2> USE DEF Quiet, Labels, outputs, Goto, Return
    <2>1. CASE Arm(c) \/ Press(c) \/ ArmOverhead(c)
      BY <2>1 DEF Arm, Press, ArmOverhead
    <2>2. CASE CheckShutter(c) \/ ClearShutter(c)
      BY <2>2 DEF CheckShutter, ClearShutter
    <2>3. CASE CheckOverhead(c) \/ ClearOverhead(c) \/ Release(c)
      BY <2>3 DEF CheckOverhead, ClearOverhead, Release
    <2> QED
      BY <1>2, <2>1, <2>2, <2>3 DEF Step
  <1>3. CASE MainCommand \/ AutoClose \/ RunTask
    BY <1>1, <1>3 DEF MainCommand, AutoClose, RunTask, Call, MayRun
  <1>4. CASE Idle("main") /\ WebCommand
    BY <1>1, <1>4 DEF WebCommand
  <1>5. CASE NextStage
    BY <1>5 DEF NextStage, outputs
  <1>6. ASSUME NEW c \in Contexts, Step(c)
        PROVE  \A b \in Contexts : b # c => Idle(b)
    <2>1. MayRun(c) /\ ~Idle(c)
      BY <1>6 DEF Step, At, DropUp, DropDown, Wake, Energise, Arm, Press,
         ArmOverhead, CheckShutter, ClearShutter, CheckOverhead, ClearOverhead,
         Release
    <2> QED
      BY <2>1 DEF MayRun, Undisturbed
  <1> QED
    BY <1>2, <1>3, <1>4, <1>5, <1>6 DEF NextUndisturbed, MainNext

LEMMA UndisturbedInit == Init => Undisturbed /\ MotorSpec!Init
  BY ShutterAssumption
     DEF Init, Undisturbed, MotorSpec!Init, motor, Idle, AllOff, Contexts, Directions

(* Every step keeps the invariant and is a step of Motor, or stutters there. *)
LEMMA UndisturbedStep ==
    ASSUME TypeOK, Undisturbed, [NextUndisturbed]_vars
    PROVE  Undisturbed' /\ [MotorSpec!Next]_(MotorSpec!vars)
  <1> USE ShutterAssumption
  <1> USE DEF Undisturbed, AllOff, Idle, motor, MotorSpec!vars
  <1>0. CASE UNCHANGED <<relay, rest, sleep, pc>>
    BY <1>0
  <1>1. ASSUME NEW c \in Contexts, \A b \in Contexts : b # c => Idle(b),
               DropUp(c) \/ DropDown(c) \/ Wake(c) \/ Energise(c) \/ Quiet(c)
        PROVE  Undisturbed' /\ [MotorSpec!Next]_(MotorSpec!vars)
    <2> USE DEF TypeOK, Directions, Goto, At
    <2>1. CASE DropUp(c)
      <3>1. Undisturbed'
        BY <1>1, <2>1 DEF DropUp, SwitchOff, Contexts
      <3>2. [MotorSpec!Next]_(MotorSpec!vars)
        BY <2>1 DEF DropUp, SwitchOff, MotorSpec!Next, MotorSpec!Stop
      <3> QED  BY <3>1, <3>2
    <2>2. CASE DropDown(c)
      <3>1. Undisturbed'
        BY <1>1, <2>2 DEF DropDown, SwitchOff, Contexts
      <3>2. [MotorSpec!Next]_(MotorSpec!vars)
        BY <2>2 DEF DropDown, SwitchOff, MotorSpec!Next, MotorSpec!Stop
      <3> QED  BY <3>1, <3>2
    <2>3. CASE Wake(c)
      BY <1>1, <2>3 DEF Wake, outputs, Contexts
    <2>4. CASE Energise(c)
      <3>1. AllOff /\ rest = PauseTicks /\ relay' = [relay EXCEPT ![Direction(c)] = TRUE]
        BY <2>4 DEF Energise
      <3>2. Direction(c) = "up" \/ Direction(c) = "down"
        BY DEF Direction
      <3>3. Undisturbed'
        BY <1>1, <2>4, <3>1, <3>2 DEF Energise, Contexts
      <3>4. MotorSpec!Start("up") \/ MotorSpec!Start("down")
        BY <2>4, <3>1, <3>2 DEF Energise, MotorSpec!Start
      <3> QED  BY <3>3, <3>4 DEF MotorSpec!Next
    <2>5. CASE Quiet(c)
      BY <1>1, <2>5 DEF Quiet, Labels, Contexts
    <2> QED
      BY <1>1, <2>1, <2>2, <2>3, <2>4, <2>5
  <1>2. CASE Tick
    <2>1. Undisturbed'
      BY <1>2 DEF Tick, TypeOK
    <2>2. [MotorSpec!Next]_(MotorSpec!vars)
      BY <1>2 DEF Tick, TypeOK, MotorSpec!Next, MotorSpec!Rest
    <2> QED  BY <2>1, <2>2
  <1>3. CASE Boot
    <2>1. Undisturbed'
      BY <1>3 DEF Boot, Directions, Contexts
    <2>2. MotorSpec!Reset
      BY <1>3 DEF Boot, Directions, MotorSpec!Reset
    <2> QED  BY <2>1, <2>2 DEF MotorSpec!Next
  <1>4. CASE UNCHANGED vars
    BY <1>0, <1>4 DEF vars, outputs
  <1> QED
    BY <1>0, <1>1, <1>2, <1>3, <1>4, UndisturbedCases

(* As long as no web request interrupts a door function, the relays never    *)
(* drive the motor both ways and never reverse it without the pause.         *)
THEOREM MotorRefinement == SpecUndisturbed => ImplementsMotor
  <1>1. Init => TypeOK /\ Undisturbed /\ MotorSpec!Init
    BY InitType, UndisturbedInit
  <1>2. TypeOK /\ Undisturbed /\ [NextUndisturbed]_vars
            => /\ TypeOK' /\ Undisturbed'
               /\ [MotorSpec!Next]_(MotorSpec!vars)
    <2>1. NextUndisturbed => Next
      BY DEF NextUndisturbed, Next, WebNext
    <2> QED
      BY <2>1, TypeStep, UndisturbedStep
  <1> QED
    BY <1>1, <1>2, PTL DEF SpecUndisturbed, ImplementsMotor, MotorSpec!Spec
=============================================================================
