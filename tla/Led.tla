-------------------------------- MODULE Led --------------------------------
(***************************************************************************)
(* One entry of the table leds[] of src/led.c and what the four functions  *)
(* of that file do to it.  interval and duration are in timer ticks (the   *)
(* code divides its milliseconds by ISR_REPEAT_MS); state is the level of  *)
(* the pin.  The lookup by pin number, led_find, is the caller's index.    *)
(***************************************************************************)
EXTENDS Naturals

Led == [interval : Nat, duration : Nat, counter : Nat,
        active : BOOLEAN, state : BOOLEAN]

(* led_off: everything is cleared and the pin goes low. *)
LedOff == [interval |-> 0, duration |-> 0, counter |-> 0,
           active |-> FALSE, state |-> FALSE]

LedActivate(interval, duration) ==
    [interval |-> interval, duration |-> duration, counter |-> 0,
     active |-> TRUE, state |-> TRUE]

LedOn == LedActivate(0, 0)

(* led_tick for one LED.  The 16-bit counter is kept at 0 for a LED that    *)
(* neither blinks nor expires, and is dropped with the rest when the        *)
(* duration is over: nothing reads it in either case.                       *)
LedTick(l) ==
    LET counter == (l.counter + 1) % 65536
        toggles == l.interval > 0 /\ counter % l.interval = 0
        expires == l.duration > 0 /\ counter >= l.duration
    IN  IF ~l.active \/ (l.interval = 0 /\ l.duration = 0) THEN l
        ELSE IF expires THEN LedOff
        ELSE [l EXCEPT !.counter = counter,
                       !.state = IF toggles THEN ~@ ELSE @]
=============================================================================
