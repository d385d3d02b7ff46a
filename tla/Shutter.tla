------------------------------ MODULE Shutter ------------------------------
(***************************************************************************)
(* The door control of src/rshutter.c, with the outputs of hardware.c and  *)
(* the two door LEDs of led.c, run by the three contexts of the firmware:  *)
(*                                                                         *)
(*   "main"  the loop of main.c: commands from the console and the modem,  *)
(*           then clock_task (AUTO CLOSE), then rshutter_task;             *)
(*   "web"   the lwIP callbacks (router.c), a low-priority interrupt: it   *)
(*           preempts "main" between any two statements and finishes       *)
(*           before "main" goes on, and calls the same functions;          *)
(*   Tick    the repeating timer: preempts both at any point.              *)
(*                                                                         *)
(* One label of pc is one statement that another context can observe; the  *)
(* LED call is taken together with the pin write it accompanies.  Time is  *)
(* the number of ticks: a label may wait for any number of them, so a slow *)
(* command (an SMS that takes 15 s) is one of the behaviours.              *)
(***************************************************************************)
EXTENDS Led

CONSTANTS
    ShutterDurations,    \* values cfg.duration_shutter takes, in seconds
    OverheadDurations,   \* values cfg.duration_overhead takes, in seconds
    TicksPerSecond,      \* 1000 / ISR_REPEAT_MS
    PauseTicks,          \* the ticks sleep_ms(500) waits for
    BlinkInterval,       \* the LED call of overhead_down: 500 ms and 60 s
    BlinkDuration

ASSUME ShutterAssumption ==
    /\ ShutterDurations \in SUBSET (Nat \ {0})
    /\ OverheadDurations \in SUBSET (Nat \ {0})
    /\ TicksPerSecond \in Nat \ {0}
    /\ PauseTicks \in Nat
    /\ BlinkInterval \in Nat \ {0}
    /\ BlinkDuration \in Nat \ {0}

Contexts == {"main", "web"}
Directions == {"up", "down"}

VARIABLES
    relay,                        \* GPIO_RELAY_UP and GPIO_RELAY_DOWN
    pressed,                      \* GPIO_OVERHEAD pulled low
    led,                          \* GPIO_LED_UP and GPIO_LED_DOWN
    relay_remaining_seconds,
    overhead_remaining_seconds,
    rshutter_must_stop,
    overhead_must_stop,
    div,                          \* rshutter_tick's divider, in ticks
    stage,                        \* what the main loop calls next
    op,                           \* the function each context is in
    pc,                           \* and its next statement
    sleep,                        \* ticks left of its sleep_ms
    rest                          \* history: ticks since both relays are off

outputs == <<relay, pressed, led>>
timers == <<relay_remaining_seconds, overhead_remaining_seconds>>
flags == <<rshutter_must_stop, overhead_must_stop>>
vars == <<outputs, timers, flags, div, stage, op, pc, sleep, rest>>

Operations == {"none", "up", "down", "overhead", "close", "task"}
Labels == {"idle", "dropUp", "dropDown", "pause", "energise", "arm", "press",
           "armOverhead", "checkShutter", "clearShutter", "checkOverhead",
           "clearOverhead", "release"}

TypeOK ==
    /\ relay \in [Directions -> BOOLEAN]
    /\ pressed \in BOOLEAN
    /\ led \in [Directions -> Led]
    /\ relay_remaining_seconds \in Nat
    /\ overhead_remaining_seconds \in Nat
    /\ rshutter_must_stop \in BOOLEAN
    /\ overhead_must_stop \in BOOLEAN
    /\ div \in 0 .. TicksPerSecond - 1
    /\ stage \in {"commands", "clock", "task"}
    /\ op \in [Contexts -> Operations]
    /\ pc \in [Contexts -> Labels]
    /\ sleep \in [Contexts -> 0 .. PauseTicks]
    /\ rest \in 0 .. PauseTicks

AllOff == ~relay["up"] /\ ~relay["down"]

Init ==
    /\ relay = [d \in Directions |-> FALSE]
    /\ pressed = FALSE
    /\ led = [d \in Directions |-> LedOff]
    /\ relay_remaining_seconds = 0 /\ overhead_remaining_seconds = 0
    /\ rshutter_must_stop = FALSE /\ overhead_must_stop = FALSE
    /\ div = 0
    /\ stage = "commands"
    /\ op = [c \in Contexts |-> "none"]
    /\ pc = [c \in Contexts |-> "idle"]
    /\ sleep = [c \in Contexts |-> 0]
    /\ rest = PauseTicks

-----------------------------------------------------------------------------
(* Control flow *)

Idle(c) == pc[c] = "idle"

(* "main" only advances while the interrupt is not being served. *)
MayRun(c) == c = "web" \/ Idle("web")

At(c, label) == MayRun(c) /\ pc[c] = label

Goto(c, label) == pc' = [pc EXCEPT ![c] = label] /\ UNCHANGED op

Return(c) ==
    /\ pc' = [pc EXCEPT ![c] = "idle"]
    /\ op' = [op EXCEPT ![c] = "none"]

Entry(o) ==
    CASE o \in {"up", "down", "close"} -> "dropUp"
      [] o = "overhead" -> "press"
      [] o = "task" -> "checkShutter"

Call(c, o) ==
    /\ MayRun(c) /\ Idle(c)
    /\ op' = [op EXCEPT ![c] = o]
    /\ pc' = [pc EXCEPT ![c] = Entry(o)]
    /\ UNCHANGED <<outputs, timers, flags, div, sleep, rest>>

(* A door command arrives over the console or as an SMS. *)
MainCommand ==
    /\ stage = "commands"
    /\ \E o \in {"up", "down", "overhead"} : Call("main", o)
    /\ UNCHANGED stage

(* clock_task finds that it is closing time: rshutter_down, overhead_down. *)
AutoClose == stage = "clock" /\ Call("main", "close") /\ stage' = "task"

RunTask == stage = "task" /\ Call("main", "task") /\ stage' = "commands"

(* console_uart_task and modem_uart_task have drained their UARTs, or       *)
(* clock_task has nothing to do.                                            *)
NextStage ==
    /\ MayRun("main") /\ Idle("main")
    /\ \/ stage = "commands" /\ stage' = "clock"
       \/ stage = "clock" /\ stage' = "task"
    /\ UNCHANGED <<outputs, timers, flags, div, op, pc, sleep, rest>>

(* /open, /close, /overhead, or a command from the web page's console.     *)
WebCommand ==
    /\ \E o \in {"up", "down", "overhead"} : Call("web", o)
    /\ UNCHANGED stage

-----------------------------------------------------------------------------
(* rshutter_stop, the first statements of rshutter_up and rshutter_down *)

(* Slip: the LED is forgotten. *)
SwitchOff_LedForgotten(c, d, next) ==
    /\ relay' = [relay EXCEPT ![d] = FALSE]
    /\ rest' = IF relay[d] THEN 0 ELSE rest
    /\ Goto(c, next)
    /\ UNCHANGED <<led, pressed, timers, flags, div, stage>>

SwitchOff(c, d, next) ==
    /\ relay' = [relay EXCEPT ![d] = FALSE]
    /\ led' = [led EXCEPT ![d] = LedOff]
    /\ rest' = IF relay[d] THEN 0 ELSE rest
    /\ Goto(c, next)
    /\ UNCHANGED <<pressed, timers, flags, div, stage>>

(* Slip: going up, only the relay of that direction is dropped. *)
DropUp_OneRelay(c) ==
    /\ At(c, "dropUp")
    /\ SwitchOff(c, "up", IF op[c] = "up" THEN "pause" ELSE "dropDown")
    /\ UNCHANGED sleep

DropUp(c) == At(c, "dropUp") /\ SwitchOff(c, "up", "dropDown") /\ UNCHANGED sleep

DropDown(c) ==
    /\ At(c, "dropDown")
    /\ SwitchOff(c, "down", "pause")
    /\ sleep' = [sleep EXCEPT ![c] = PauseTicks]

Wake(c) ==
    /\ At(c, "pause") /\ sleep[c] = 0
    /\ Goto(c, IF op[c] = "task" THEN "checkOverhead" ELSE "energise")
    /\ UNCHANGED <<outputs, timers, flags, div, stage, sleep, rest>>

(* The rest of rshutter_up and rshutter_down *)

Direction(c) == IF op[c] = "up" THEN "up" ELSE "down"

Energise(c) ==
    /\ At(c, "energise")
    /\ relay' = [relay EXCEPT ![Direction(c)] = TRUE]
    /\ led' = [led EXCEPT ![Direction(c)] = LedOn]
    /\ rest' = 0
    /\ Goto(c, "arm")
    /\ UNCHANGED <<pressed, timers, flags, div, stage, sleep>>

Arm(c) ==
    /\ At(c, "arm")
    /\ relay_remaining_seconds' \in ShutterDurations
    /\ IF op[c] = "close" THEN Goto(c, "press") ELSE Return(c)
    /\ UNCHANGED <<outputs, overhead_remaining_seconds, flags, div, stage,
                   sleep, rest>>

(* overhead_down *)

Press(c) ==
    /\ At(c, "press")
    /\ led' = [led EXCEPT !["down"] = LedActivate(BlinkInterval, BlinkDuration)]
    /\ pressed' = TRUE
    /\ Goto(c, "armOverhead")
    /\ UNCHANGED <<relay, timers, flags, div, stage, sleep, rest>>

ArmOverhead(c) ==
    /\ At(c, "armOverhead")
    /\ overhead_remaining_seconds' \in OverheadDurations
    /\ Return(c)
    /\ UNCHANGED <<outputs, relay_remaining_seconds, flags, div, stage,
                   sleep, rest>>

-----------------------------------------------------------------------------
(* rshutter_task *)

CheckShutter(c) ==
    /\ At(c, "checkShutter")
    /\ Goto(c, IF rshutter_must_stop THEN "clearShutter" ELSE "checkOverhead")
    /\ UNCHANGED <<outputs, timers, flags, div, stage, sleep, rest>>

(* Slip: the flag is cleared and the stop left to a later round. *)
ClearShutter_NoStop(c) ==
    /\ At(c, "clearShutter")
    /\ rshutter_must_stop' = FALSE
    /\ Goto(c, "checkOverhead")
    /\ UNCHANGED <<outputs, timers, overhead_must_stop, div, stage, sleep, rest>>

ClearShutter(c) ==
    /\ At(c, "clearShutter")
    /\ rshutter_must_stop' = FALSE
    /\ Goto(c, "dropUp")
    /\ UNCHANGED <<outputs, timers, overhead_must_stop, div, stage, sleep, rest>>

CheckOverhead(c) ==
    /\ At(c, "checkOverhead")
    /\ IF overhead_must_stop THEN Goto(c, "clearOverhead") ELSE Return(c)
    /\ UNCHANGED <<outputs, timers, flags, div, stage, sleep, rest>>

ClearOverhead(c) ==
    /\ At(c, "clearOverhead")
    /\ overhead_must_stop' = FALSE
    /\ Goto(c, "release")
    /\ UNCHANGED <<outputs, timers, rshutter_must_stop, div, stage, sleep, rest>>

Release(c) ==
    /\ At(c, "release")
    /\ pressed' = FALSE
    /\ Return(c)
    /\ UNCHANGED <<relay, led, timers, flags, div, stage, sleep, rest>>

-----------------------------------------------------------------------------
(* The timer interrupt: rshutter_tick, then led_tick; sleepers advance.     *)

(* Slip: the flag says whether this second was the last one. *)
Countdown_FlagLost(remaining, flag) ==
    /\ remaining' = IF remaining > 0 THEN remaining - 1 ELSE 0
    /\ flag' = (remaining = 1)

(* One second less; the flag is raised by the second that reaches zero. *)
Countdown(remaining, flag) ==
    /\ remaining' = IF remaining > 0 THEN remaining - 1 ELSE 0
    /\ flag' = IF remaining = 1 THEN TRUE ELSE flag

(* Slip: the divider counts one tick too many. *)
rshutter_tick_LateReset ==
    IF div + 1 > TicksPerSecond
    THEN /\ div' = 0
         /\ Countdown(relay_remaining_seconds, rshutter_must_stop)
         /\ Countdown(overhead_remaining_seconds, overhead_must_stop)
    ELSE div' = div + 1 /\ UNCHANGED <<timers, flags>>

rshutter_tick ==
    IF div + 1 >= TicksPerSecond
    THEN /\ div' = 0
         /\ Countdown(relay_remaining_seconds, rshutter_must_stop)
         /\ Countdown(overhead_remaining_seconds, overhead_must_stop)
    ELSE div' = div + 1 /\ UNCHANGED <<timers, flags>>

Tick ==
    /\ rshutter_tick
    /\ led' = [d \in Directions |-> LedTick(led[d])]
    /\ sleep' = [c \in Contexts |-> IF sleep[c] > 0 THEN sleep[c] - 1 ELSE 0]
    /\ rest' = IF AllOff /\ rest < PauseTicks THEN rest + 1 ELSE rest
    /\ UNCHANGED <<relay, pressed, stage, op, pc>>

(* Power loss, the watchdog or /reset: RAM and pins start afresh.           *)
Boot ==
    /\ relay' = [d \in Directions |-> FALSE]
    /\ pressed' = FALSE
    /\ led' = [d \in Directions |-> LedOff]
    /\ relay_remaining_seconds' = 0 /\ overhead_remaining_seconds' = 0
    /\ rshutter_must_stop' = FALSE /\ overhead_must_stop' = FALSE
    /\ div' = 0
    /\ stage' = "commands"
    /\ op' = [c \in Contexts |-> "none"]
    /\ pc' = [c \in Contexts |-> "idle"]
    /\ sleep' = [c \in Contexts |-> 0]
    /\ rest' = PauseTicks

-----------------------------------------------------------------------------
Step(c) ==
    \/ DropUp(c) \/ DropDown(c) \/ Wake(c) \/ Energise(c) \/ Arm(c)
    \/ Press(c) \/ ArmOverhead(c)
    \/ CheckShutter(c) \/ ClearShutter(c)
    \/ CheckOverhead(c) \/ ClearOverhead(c) \/ Release(c)

MainNext == MainCommand \/ AutoClose \/ RunTask \/ NextStage \/ Step("main")
WebNext == WebCommand \/ Step("web")

Next == MainNext \/ WebNext \/ Tick \/ Boot

(* As Next, but no request of the web interface arrives while the loop is   *)
(* inside a door function: always so while the access point is off, which   *)
(* it is except for 15 minutes at a time.                                   *)
NextUndisturbed ==
    \/ MainNext \/ Tick \/ Boot
    \/ Idle("main") /\ WebCommand
    \/ Step("web")

Spec == Init /\ [][Next]_vars
SpecUndisturbed == Init /\ [][NextUndisturbed]_vars

(* The timer fires, an entered function goes on, the loop comes round.  The *)
(* loop needs strong fairness: requests and received characters suspend it  *)
(* again and again, but arrive at a finite rate, so it runs in between.     *)
Fairness ==
    /\ WF_vars(Tick)
    /\ WF_vars(Step("web"))
    /\ SF_vars(Step("main")) /\ SF_vars(NextStage) /\ SF_vars(RunTask)

FairSpec == Spec /\ Fairness

-----------------------------------------------------------------------------
(* Properties *)

ShutterTimed == relay_remaining_seconds > 0 \/ rshutter_must_stop
OverheadTimed == overhead_remaining_seconds > 0 \/ overhead_must_stop

(* Whenever no door function is being executed, an output that is on has a  *)
(* countdown that will end it, or the flag with which rshutter_task ends    *)
(* it: whatever the main loop, the web callbacks and the timer interleave,  *)
(* no motor and no button press is left on for ever.                        *)
FailSafe ==
    (\A c \in Contexts : Idle(c)) =>
        /\ ~AllOff => ShutterTimed
        /\ pressed => OverheadTimed

(* rshutter_up/down and rshutter_stop: between commands a LED that burns    *)
(* steadily belongs to a relay that is on, and the UP LED shows its relay.  *)
(* (The DOWN LED does not: overhead_down turns it into a blinking one.)     *)
LedsTruthful ==
    (\A c \in Contexts : Idle(c)) =>
        /\ \A d \in Directions : led[d].active /\ led[d].duration = 0 => relay[d]
        /\ relay["up"] => led["up"].state

(* The relays never drive the motor both ways, and reverse it only after    *)
(* the pause of rshutter_stop: the outputs implement Motor.                 *)
motor == IF relay["up"] /\ relay["down"] THEN "both"
         ELSE IF relay["up"] THEN "up" ELSE IF relay["down"] THEN "down"
         ELSE "off"
MotorSpec == INSTANCE Motor WITH RestTicks <- PauseTicks
ImplementsMotor == MotorSpec!Spec

(* rshutter_tick and rshutter_task end what a command has begun: the motor   *)
(* stops, and the overhead door's button is released unless it is pressed   *)
(* again - although commands keep the loop busy, and callbacks preempt it.  *)
MotionsEnd ==
    /\ ~AllOff ~> AllOff
    /\ pressed ~> (~pressed \/ \E c \in Contexts : op[c] \in {"overhead", "close"})
=============================================================================
