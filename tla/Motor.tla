------------------------------- MODULE Motor -------------------------------
(***************************************************************************)
(* What the relay outputs promise to the motor of the roller shutter: it   *)
(* is off, runs up or runs down - never both - and is only started after   *)
(* it has been without current for RestTicks timer ticks, which is what    *)
(* sleep_ms(500) in rshutter_stop is for.  A reset of the board takes at    *)
(* least the two seconds main() sleeps before its loop.                    *)
(***************************************************************************)
EXTENDS Naturals

CONSTANT RestTicks

VARIABLES motor, rest

vars == <<motor, rest>>

Init == motor = "off" /\ rest = RestTicks

Start(direction) ==
    /\ motor = "off" /\ rest = RestTicks
    /\ motor' = direction /\ rest' = 0

Stop == motor # "off" /\ motor' = "off" /\ rest' = 0

Rest ==
    /\ motor = "off" /\ rest < RestTicks
    /\ rest' = rest + 1
    /\ UNCHANGED motor

Reset == motor' = "off" /\ rest' = RestTicks

Next == Start("up") \/ Start("down") \/ Stop \/ Rest \/ Reset

Spec == Init /\ [][Next]_vars
=============================================================================
