---------------------------- MODULE AccessPoint ----------------------------
(***************************************************************************)
(* The access point of webserver.c: on for fifteen minutes by command or by *)
(* a long press of the button, off by command or in wifi_task.  The main    *)
(* loop goes through wifi_on_15min and wifi_off in steps; a command WIFI of  *)
(* the web page runs in a callback, which preempts it between any two.       *)
(*                                                                         *)
(* Time is counted in ticks.  wifi_timeout_ms and press_start are kept as    *)
(* their distance from the clock, which has Clock values and wraps.          *)
(***************************************************************************)
EXTENDS WebServer

CONSTANTS
    Minutes15,  \* ticks the access point stays on
    Hold,       \* ticks the button must be held
    Clock,      \* values of the millisecond clock, 2^32 in the code
    MaxStall    \* bound: ticks a turn of the main loop may take

ASSUME AccessPointAssumption ==
    /\ Minutes15 \in Nat \ {0} /\ Hold \in Nat \ {0} /\ MaxStall \in Nat
    /\ Clock \in Nat /\ Clock % 2 = 0 /\ 2 * (Minutes15 + MaxStall + 1) < Clock

VARIABLES
    wifi_enabled,
    left,      \* (int32_t)(wifi_timeout_ms - now)
    button,    \* the button is pressed
    active,    \* of wifi_button_task
    held,      \* now - press_start
    pc,        \* where the main loop is
    stall,     \* ticks since the last turn of the loop
    taken,     \* history: the port was not free when the server was started
    asked,     \* history: ticks since the access point, now on, was last asked for
    pressed,   \* history: ticks for which the button has been down
    unseen,    \* history: the button was released, and no turn has seen that
    raced      \* history: commands of the page that came inside this call; 2 stays

wifiVars == <<wifi_enabled, left, button, active, held, pc, stall, taken, asked, pressed, unseen, raced>>
vars == <<webVars, wifiVars>>

Half == Clock \div 2

Signed(n) == LET m == n % Clock IN IF m < Half THEN m ELSE m - Clock

AskedMax == Minutes15 + 2 * MaxStall + 2

TypeOK ==
    /\ WebTypeOK
    /\ wifi_enabled \in BOOLEAN /\ left \in -Half .. Half - 1
    /\ button \in BOOLEAN /\ active \in BOOLEAN /\ held \in 0 .. Clock - 1
    /\ pc \in {"task", "start", "enable", "deadline", "off", "server", "close", "down"}
    /\ stall \in 0 .. MaxStall
    /\ asked \in 0 .. AskedMax /\ pressed \in 0 .. Hold
    /\ taken \in BOOLEAN /\ unseen \in BOOLEAN /\ raced \in 0 .. 2

Init ==
    /\ WebInit
    /\ wifi_enabled = FALSE /\ left = 0
    /\ button = FALSE /\ active = FALSE /\ held = 0
    /\ pc = "task" /\ stall = 0
    /\ taken = FALSE
    /\ asked = 0 /\ pressed = 0 /\ unseen = FALSE /\ raced = 0

-----------------------------------------------------------------------------
(* wifi_on_15min in the main loop: the test, ws_start, the flag, the time.   *)

AskOn ==
    /\ pc' = IF wifi_enabled THEN "deadline" ELSE "start"
    /\ UNCHANGED <<webVars, wifi_enabled, left, button, taken, asked, pressed, unseen, raced>>

(* A command by SMS or on the console *)
WifiOn ==
    /\ pc = "task" /\ AskOn /\ stall' = 0
    /\ UNCHANGED <<active, held>>

(* ws_start: ws_open fails while a connection of before is on its port, and  *)
(* no one looks.                                                            *)
Port == {c \in Conns : pcb[c] # "none"}

Open ==
    /\ ap' = TRUE
    /\ listening' = (listening \/ Port = {})
    /\ taken' = ~listening'

Step(from, to) ==
    /\ pc = from /\ pc' = to
    /\ raced' = IF to = "task" /\ raced = 1 THEN 0 ELSE raced
    /\ UNCHANGED <<connVars, button, active, held, stall, pressed, unseen>>

Start ==
    /\ Step("start", "enable") /\ Open
    /\ UNCHANGED <<wifi_enabled, left, asked>>

Enable ==
    /\ Step("enable", "deadline") /\ wifi_enabled' = TRUE
    /\ UNCHANGED <<ap, listening, left, taken, asked>>

(* A slip: asked again, the access point keeps its first deadline.          *)
Deadline_OnlyFirst ==
    /\ Step("deadline", "task")
    /\ left' = IF left > 0 THEN left ELSE Minutes15
    /\ asked' = 0
    /\ UNCHANGED <<ap, listening, wifi_enabled, taken>>

(* A slip: asked again, the time is added to what is left.                  *)
Deadline_Adds ==
    /\ Step("deadline", "task")
    /\ left' = Signed(left + Minutes15) /\ asked' = 0
    /\ UNCHANGED <<ap, listening, wifi_enabled, taken>>

Deadline ==
    /\ Step("deadline", "task")
    /\ left' = Minutes15 /\ asked' = 0
    /\ UNCHANGED <<ap, listening, wifi_enabled, taken>>

(* wifi_off: the UDP services (not modelled), the server's pcb - tested,     *)
(* then closed -, the access point, the flag.                               *)
WifiOff ==
    /\ pc = "task" /\ wifi_enabled /\ pc' = "server" /\ stall' = 0
    /\ UNCHANGED <<webVars, wifi_enabled, left, button, active, held, taken, asked,
                   pressed, unseen, raced>>

TestServer ==
    /\ Step("server", IF listening THEN "close" ELSE "down")
    /\ UNCHANGED <<ap, listening, wifi_enabled, left, taken, asked>>

(* A slip: server_pcb is not set to NULL.                                   *)
CloseServer_Dangling ==
    /\ Step("close", "down")
    /\ UNCHANGED <<ap, listening, wifi_enabled, left, taken, asked>>

CloseServer ==
    /\ Step("close", "down") /\ listening' = FALSE
    /\ UNCHANGED <<ap, wifi_enabled, left, taken, asked>>

Down ==
    /\ Step("down", "task")
    /\ ap' = FALSE /\ wifi_enabled' = FALSE /\ asked' = 0
    /\ UNCHANGED <<listening, left, taken>>

-----------------------------------------------------------------------------
(* wifi_task, once a turn of the loop                                       *)

Expired == left <= 0

(* While on, the time is looked at; wifi_off looks at the flag again.        *)
TaskOn ==
    /\ pc = "task" /\ wifi_enabled
    /\ pc' = IF Expired THEN "off" ELSE "task"
    /\ stall' = 0
    /\ UNCHANGED <<webVars, wifi_enabled, left, button, active, held, taken, asked,
                   pressed, unseen, raced>>

Off ==
    /\ Step("off", IF wifi_enabled THEN "server" ELSE "task")
    /\ UNCHANGED <<ap, listening, wifi_enabled, left, taken, asked>>

(* wifi_button_task, while off                                              *)
LongPress == button /\ active /\ held >= Hold

(* A slip: a release does not end the press.                                *)
ButtonTask_NoReset ==
    /\ pc = "task" /\ ~wifi_enabled /\ ~LongPress
    /\ active' = (active \/ button) /\ held' = IF button /\ ~active THEN 0 ELSE held
    /\ unseen' = (unseen /\ button) /\ stall' = 0
    /\ UNCHANGED <<webVars, wifi_enabled, left, button, pc, taken, asked, pressed, raced>>

ButtonTask ==
    /\ pc = "task" /\ ~wifi_enabled /\ ~LongPress
    /\ active' = button /\ held' = IF button /\ ~active THEN 0 ELSE held
    /\ unseen' = (unseen /\ button) /\ stall' = 0
    /\ UNCHANGED <<webVars, wifi_enabled, left, button, pc, taken, asked, pressed, raced>>

ButtonOn ==
    /\ pc = "task" /\ ~wifi_enabled /\ LongPress
    /\ AskOn /\ active' = FALSE /\ stall' = 0
    /\ UNCHANGED held

-----------------------------------------------------------------------------
(* WIFI ON and WIFI OFF from the web page: handle_cmd in ws_recv, so that an *)
(* answer is written afterwards.                                            *)
Races == raced' = IF pc # "task" /\ raced < 2 THEN raced + 1 ELSE raced

PageOn(c) ==
    /\ Unhandled(c) /\ Races
    /\ LET s == [state[c] EXCEPT !.handled = TRUE, !.header_len = 1, !.result_len = 1]
       IN  state' = [state EXCEPT ![c] = Chunked(s, TRUE)]
    /\ written' = [written EXCEPT ![c] = <<Header, 1>>]
    /\ IF wifi_enabled THEN UNCHANGED <<ap, listening, taken>> ELSE Open
    /\ wifi_enabled' = TRUE /\ left' = Minutes15 /\ asked' = 0
    /\ UNCHANGED <<pcb, registered, acked, lost, leaked, fault,
                   button, active, held, pc, stall, pressed, unseen>>

PageOff(c) ==
    /\ Unhandled(c) /\ Races
    /\ LET s == [state[c] EXCEPT !.handled = TRUE, !.header_len = 1, !.result_len = 1]
       IN  state' = [state EXCEPT ![c] = Chunked(s, TRUE)]
    /\ written' = [written EXCEPT ![c] = <<Header, 1>>]
    /\ IF wifi_enabled
       THEN wifi_enabled' = FALSE /\ ap' = FALSE /\ listening' = FALSE /\ asked' = 0
       ELSE UNCHANGED <<wifi_enabled, ap, listening, asked>>
    /\ UNCHANGED <<pcb, registered, acked, lost, leaked, fault,
                   left, button, active, held, pc, stall, taken, pressed, unseen>>

(* The clock, and a finger.  left is only looked at while on, held only     *)
(* while active, and both are set before.                                   *)
Tick ==
    /\ stall < MaxStall /\ stall' = stall + 1
    /\ left' = IF wifi_enabled THEN Signed(left - 1) ELSE 0
    /\ held' = IF active THEN (held + 1) % Clock ELSE 0
    /\ asked' = IF wifi_enabled /\ asked < AskedMax THEN asked + 1 ELSE asked
    /\ pressed' = IF button /\ pressed < Hold THEN pressed + 1 ELSE pressed
    /\ UNCHANGED <<webVars, wifi_enabled, button, active, pc, taken, unseen, raced>>

Press ==
    /\ ~button /\ button' = TRUE
    /\ UNCHANGED <<webVars, wifi_enabled, left, active, held, pc, stall, taken, asked,
                   pressed, unseen, raced>>

Release ==
    /\ button /\ button' = FALSE /\ pressed' = 0 /\ unseen' = active
    /\ UNCHANGED <<webVars, wifi_enabled, left, active, held, pc, stall, taken, asked, raced>>

LoopSteps ==
    \/ Start \/ Enable \/ Deadline \/ TestServer \/ CloseServer \/ Down
    \/ TaskOn \/ Off \/ ButtonTask \/ ButtonOn

Next ==
    \/ LoopSteps \/ WifiOn \/ WifiOff
    \/ \E c \in Conns : (ConnNext(c) /\ UNCHANGED wifiVars) \/ PageOn(c) \/ PageOff(c)
    \/ Tick \/ Press \/ Release

(* The client acknowledges what it has been sent, and lwIP's timer polls.    *)
Fairness ==
    \A c \in Conns :
        /\ WF_vars((\E n \in 1 .. MaxBody + 1 : Sent(c, n)) /\ UNCHANGED wifiVars)
        /\ WF_vars(Poll(c) /\ UNCHANGED wifiVars)

Spec == Init /\ [][Next]_vars /\ Fairness

-----------------------------------------------------------------------------
(* webserver.c:326-381: between two calls the flag says whether the access   *)
(* point is up, and the server listens exactly when it is - unless its port  *)
(* was not free when it was started, which nobody notices, or two commands   *)
(* of the page came inside one call.  One such command does no harm, but     *)
(* without any a server is only closed while it listens.                     *)
Consistent ==
    /\ pc = "task" /\ raced = 0 => ap = wifi_enabled /\ listening = (wifi_enabled /\ ~taken)
    /\ pc = "close" => listening \/ raced > 0

(* webserver.c:383-391: the access point is on no longer than its time and   *)
(* two turns of the loop, also when the clock wraps in between.              *)
OffInTime ==
    wifi_enabled /\ pc \notin {"enable", "deadline"} => asked <= Minutes15 + 2 * MaxStall

(* webserver.c:358-391: the access point is not switched off for its time    *)
(* before fifteen minutes after it was last asked for - unless the page asks *)
(* between the look at the clock and wifi_off.                               *)
OnLongEnough ==
    [][ pc = "off" /\ pc' = "server" => asked >= Minutes15 \/ raced > 0 ]_vars

(* webserver.c:396-423: a press of the button that switches the access point *)
(* on has lasted the three seconds, unless the button was let go without a   *)
(* turn of wifi_button_task to see it - in a long turn of the loop, or while *)
(* the access point was on.                                                  *)
ButtonHeld ==
    [][ active /\ ~active' /\ pc' # pc => pressed >= Hold \/ unseen ]_vars
=============================================================================
