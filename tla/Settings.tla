------------------------------ MODULE Settings ------------------------------
(***************************************************************************)
(* The settings: config.c, the commands and the page's request that change  *)
(* them (commands.c, router.c), and what a boot makes of them - main.c and   *)
(* the start of the modem, which is given the PIN of its SIM.                *)
(*                                                                         *)
(* A handler sets cfg, then saves it: the sector is erased, then programmed, *)
(* with interrupts disabled.  The main loop copies a text in two halves; a   *)
(* request of the web page runs in a callback and may come between any two    *)
(* steps of the loop.  Power may fail at any time.                           *)
(*                                                                         *)
(* A text is <<t, n>>, the first n characters of t, and a request holds what *)
(* the page was asked to save.  External: the flash, the modem and its SIM.  *)
(***************************************************************************)
EXTENDS Integers, Sequences, FiniteSets

CONSTANTS
    Requests,     \* what the page may be asked to save
    Texts,        \* Texts[f]: what a command may be given for the text f
    Times,        \* close times for CLOSEAT
    Numeric,      \* the texts made of digits
    TruePin,      \* the PIN of the SIM
    MaxRestarts   \* bound: restarts of any kind

TextFields == {"ssid", "pass", "sim_pin"}

Length(text) == text[2]

(* The form has a box for close_enabled, and a SIM has a PIN that sim_pin can *)
(* hold.                                                                    *)
ASSUME SettingsAssumption ==
    /\ \A q \in Requests :
          /\ q.door \in Nat /\ q.overhead \in Nat /\ q.close_enabled \in {0, 1}
          /\ q.close_hour \in Nat /\ q.close_min \in Nat
    /\ DOMAIN Texts = TextFields /\ MaxRestarts \in Nat
    /\ Times \subseteq 0 .. 24 * 60 - 1
    /\ Length(TruePin) \in 4 .. 6

VARIABLES
    cfg, flash,
    pc,           \* where main is; a turn of the loop is "loop"
    step2,        \* the command of modem_init_step2 that waits for OK, or 0
    stack,        \* handlers that save settings, the innermost last
    initialized,  \* modem_initialized
    fed,          \* two-second waits since the watchdog was fed, at most
    toPico,       \* lines of the modem
    sim,          \* "pin", "ready" or "puk"
    attempts,     \* left to enter the PIN
    announced,    \* the modem has reported the SIM since its start
    setUp,        \* the commands of modem_init_step2 it has had since
    blame,        \* history: someone or something gave a wrong PIN
    missed,       \* history: a line was lost, or the modem restarted, since the boot
    restarts

simVars == <<sim, attempts, announced, setUp>>
vars == <<cfg, flash, pc, step2, stack, initialized, fed, toPico, simVars, blame, missed, restarts>>

DISABLED == 65535   \* CLOSE_DISABLED

Empty == <<"", 0>>

Blank == [magic |-> FALSE, ssid |-> Empty, pass |-> Empty, sim_pin |-> Empty,
          close_time |-> DISABLED, duration_shutter |-> 65535, duration_overhead |-> 65535]

Defaults == [magic |-> TRUE, ssid |-> <<"SMSdoor", 7>>, pass |-> <<"12345678", 8>>,
             sim_pin |-> <<"0000", 4>>, close_time |-> DISABLED,
             duration_shutter |-> 180, duration_overhead |-> 1]

Mixed == <<"mixed", 4>>   \* the halves of two texts

Asked == {q.ssid : q \in Requests} \cup {q.password : q \in Requests}
         \cup {q.simpin : q \in Requests}

Commanded == UNION {Texts[f] : f \in TextFields}

Known == {TruePin} \cup Asked \cup Commanded \cup {Defaults[f] : f \in TextFields}

Names == {"", "mixed"} \cup {t[1] : t \in Known}

Text == Names \X Nat

(* The texts and the PIN are given as such pairs.                            *)
ASSUME TextsAssumption == Known \subseteq Text

Whole(text) == \E t \in Known : text[1] = t[1] /\ text[2] \in 0 .. t[2]

-----------------------------------------------------------------------------
(* get_query_param and the numbers of handle_update_settings, on the part of *)
(* the URI that fits in 127 characters.                                      *)
Least(m, n) == IF m < n THEN m ELSE n

Cut(text, n) == <<text[1], Least(text[2], n)>>

Order == <<"ssid", "password", "simpin", "door", "overhead",
           "close_enabled", "close_hour", "close_min">>

(* "/settings/update", then ? or &, the key and = of the parameters up to k    *)
KeysUpTo == <<22, 32, 40, 46, 56, 71, 83, 94>>

PowersOfTen == <<10, 100, 1000, 10000, 100000>>

Digits(n) == 1 + Cardinality({d \in 1 .. 5 : n >= PowersOfTen[d]})

ValueLength(q, k) == IF k <= 3 THEN Length(q[Order[k]]) ELSE Digits(q[Order[k]])

(* The values of the parameters before k                                     *)
ValuesBefore(q, k) ==
    LET length(i) == IF i < k THEN ValueLength(q, i) ELSE 0
    IN  length(1) + length(2) + length(3) + length(4) + length(5) + length(6) + length(7)

Start(q, k) == KeysUpTo[k] + ValuesBefore(q, k)

(* The characters of the value of parameter k that are left                  *)
Room_OneLess(q, k) == IF Start(q, k) > 126 THEN 0 ELSE 126 - Start(q, k)

Room(q, k) == IF Start(q, k) > 127 THEN 0 ELSE 127 - Start(q, k)

(* A slip: a parameter's buffer is one character too short.                 *)
TextParam_Short(q, k, size) == Cut(q[Order[k]], Least(Room(q, k), size - 2))

TextParam(q, k, size) == Cut(q[Order[k]], Least(Room(q, k), size - 1))

NumberParam(q, k) ==
    LET n == q[Order[k]]
        room == Room(q, k)
    IN  IF room >= Digits(n) THEN n ELSE IF room = 0 THEN 0 ELSE n \div PowersOfTen[Digits(n) - room]

(* The casts to uint16_t and uint8_t                                         *)
Received(q) ==
    [ssid |-> TextParam(q, 1, 33), pass |-> TextParam(q, 2, 64), sim_pin |-> TextParam(q, 3, 7),
     door |-> NumberParam(q, 4) % 65536, overhead |-> NumberParam(q, 5) % 65536,
     close_enabled |-> NumberParam(q, 6) % 256,
     close_hour |-> NumberParam(q, 7) % 256, close_min |-> NumberParam(q, 8) % 256]

Parsed == [q \in Requests |-> Received(q)]

TextOK(f, text) ==
    CASE f = "ssid" -> Length(text) \in 2 .. 32
      [] f = "pass" -> Length(text) \in 8 .. 63
      [] f = "sim_pin" -> Length(text) \in 4 .. 6 /\ text[1] \in Numeric

Accepted(r) ==
    /\ \A f \in TextFields : TextOK(f, r[f])
    /\ r.door \in 1 .. 300 /\ r.overhead \in 1 .. 300
    /\ r.close_hour <= 23 /\ r.close_min <= 59

Stored(r) ==
    [magic |-> TRUE, ssid |-> r.ssid, pass |-> r.pass, sim_pin |-> r.sim_pin,
     close_time |-> IF r.close_enabled # 0 THEN r.close_hour * 60 + r.close_min ELSE DISABLED,
     duration_shutter |-> r.door, duration_overhead |-> r.overhead]

-----------------------------------------------------------------------------
ConfigOK(c) ==
    \/ c = Blank
    \/ /\ c.magic
       /\ \A f \in TextFields : Whole(c[f]) \/ c[f] = Mixed
       /\ c.close_time \in 0 .. 24 * 60 - 1 \cup {DISABLED}
       /\ c.duration_shutter \in 1 .. 300 /\ c.duration_overhead \in 1 .. 300

TypeOK ==
    /\ ConfigOK(cfg) /\ ConfigOK(flash)
    /\ pc \in {"init", "at", "echo", "cpin", "loop"} /\ step2 \in 0 .. 5
    /\ Len(stack) <= 2
    /\ \A i \in DOMAIN stack : stack[i].at \in {"set", "save", "program", "reset", "cfun"}
    /\ initialized \in BOOLEAN /\ fed \in Nat
    /\ toPico \in Seq({"pin", "ready", "puk", "incorrect", "error"})
    /\ sim \in {"pin", "ready", "puk"} /\ attempts \in 0 .. 3
    /\ announced \in BOOLEAN /\ setUp \subseteq 1 .. 5
    /\ blame \in BOOLEAN /\ missed \in BOOLEAN /\ restarts \in 0 .. MaxRestarts

(* A new device, or one that knows its SIM; attempts of others may have failed *)
Init ==
    /\ flash \in {Blank, [Defaults EXCEPT !.sim_pin = TruePin]}
    /\ cfg = Blank /\ pc = "init" /\ step2 = 0 /\ stack = <<>>
    /\ initialized = FALSE /\ fed = 0 /\ toPico = <<>>
    /\ sim = "pin" /\ attempts \in {1, 3} /\ announced = FALSE /\ setUp = {}
    /\ blame = FALSE /\ missed = FALSE /\ restarts = 0

-----------------------------------------------------------------------------
(* Handlers                                                                 *)

Top == stack[Len(stack)]
Replace(frame) == [stack EXCEPT ![Len(stack)] = frame]
Save(next) == [at |-> "save", next |-> next]

(* The second half of a text of the loop's command; the page may have set    *)
(* it since the first.                                                      *)
SetRest ==
    /\ stack # <<>> /\ Top.at = "set"
    /\ cfg' = [cfg EXCEPT ![Top.field] = IF @ = Mixed THEN Top.value ELSE Mixed]
    /\ stack' = Replace(Save(Top.next))
    /\ UNCHANGED <<flash, pc, step2, initialized, fed, toPico, simVars, blame, missed, restarts>>

(* config_save: flash_range_erase, flash_range_program                       *)
Erase ==
    /\ stack # <<>> /\ Top.at = "save"
    /\ flash' = Blank
    /\ stack' = Replace([at |-> "program", next |-> Top.next])
    /\ UNCHANGED <<cfg, pc, step2, initialized, fed, toPico, simVars, blame, missed, restarts>>

Program ==
    /\ stack # <<>> /\ Top.at = "program"
    /\ flash' = cfg
    /\ stack' = IF Top.next = "return" THEN SubSeq(stack, 1, Len(stack) - 1)
                ELSE Replace([at |-> Top.next])
    /\ UNCHANGED <<cfg, pc, step2, initialized, fed, toPico, simVars, blame, missed, restarts>>

(* Nothing reads the UART meanwhile, and its buffer holds 32 characters.     *)
LoseLine ==
    /\ stack # <<>> /\ Top.at = "program" /\ toPico # <<>>
    /\ toPico' = Tail(toPico) /\ missed' = TRUE
    /\ UNCHANGED <<cfg, flash, pc, step2, stack, initialized, fed, simVars, blame, restarts>>

(* The modem starts; a blocked SIM stays blocked.                            *)
ModemStarts ==
    /\ sim' = IF sim = "puk" THEN "puk" ELSE "pin"
    /\ announced' = FALSE /\ setUp' = {}
    /\ UNCHANGED attempts

CountRestart == restarts < MaxRestarts /\ restarts' = restarts + 1

Restart ==
    /\ cfg' = Blank /\ pc' = "init" /\ step2' = 0 /\ stack' = <<>>
    /\ initialized' = FALSE /\ fed' = 0 /\ toPico' = <<>> /\ missed' = FALSE
    /\ UNCHANGED flash

(* watchdog_reboot at the end of a handler, of PIN after AT+CFUN=1,1; it is   *)
(* counted when the handler starts.                                         *)
Reset ==
    /\ stack # <<>> /\ Top.at \in {"reset", "cfun"} /\ Restart
    /\ IF Top.at = "cfun" THEN ModemStarts ELSE UNCHANGED simVars
    /\ UNCHANGED <<blame, restarts>>

PowerFails == CountRestart /\ Restart /\ ModemStarts /\ UNCHANGED blame

-----------------------------------------------------------------------------
(* Commands by SMS and on the console: cmd_ssid, cmd_pass, cmd_pin (not by   *)
(* SMS), cmd_closeat.  Arguments are cut to 31 characters.                   *)

InLoop == pc = "loop" /\ step2 = 0 /\ stack = <<>>
Then(f) == IF f = "sim_pin" THEN "cfun" ELSE "reset"
Wrong(f, text) == f = "sim_pin" /\ text # TruePin

TextCommand(f, text) ==
    LET arg == Cut(text, 31)
    IN  /\ InLoop /\ TextOK(f, arg) /\ CountRestart
        /\ cfg' = [cfg EXCEPT ![f] = Mixed]
        /\ stack' = <<[at |-> "set", field |-> f, value |-> arg, next |-> Then(f)]>>
        /\ blame' = (blame \/ Wrong(f, text))
        /\ UNCHANGED <<flash, pc, step2, initialized, fed, toPico, simVars, missed>>

CloseAt(time) ==
    /\ InLoop
    /\ cfg' = [cfg EXCEPT !.close_time = time] /\ stack' = <<Save("return")>>
    /\ UNCHANGED <<flash, pc, step2, initialized, fed, toPico, simVars, blame, missed, restarts>>

(* The page, in a callback: it finds the loop anywhere but in config_save.   *)
(* A PIN that is being copied may be spoiled, or saved half copied.          *)
Callback == pc = "loop" /\ (stack = <<>> \/ (Len(stack) = 1 /\ Top.at # "program"))
Copying(f) == stack # <<>> /\ Top.at = "set" /\ Top.field = f

(* handle_update_settings                                                   *)
Update_NotSaved(q) ==
    LET r == Parsed[q]
    IN  /\ Callback /\ Accepted(r)
        /\ cfg' = Stored(r)
        /\ blame' = (blame \/ Wrong("sim_pin", q.simpin) \/ Copying("sim_pin"))
        /\ UNCHANGED <<flash, pc, step2, stack, initialized, fed, toPico, simVars, missed, restarts>>

Update(q) ==
    LET r == Parsed[q]
    IN  /\ Callback /\ Accepted(r)
        /\ cfg' = Stored(r) /\ stack' = Append(stack, Save("return"))
        /\ blame' = (blame \/ Wrong("sim_pin", q.simpin) \/ Copying("sim_pin"))
        /\ UNCHANGED <<flash, pc, step2, initialized, fed, toPico, simVars, missed, restarts>>

(* handle_cmd with one of these commands                                    *)
PageText(f, text) ==
    LET arg == Cut(text, 31)
    IN  /\ Callback /\ TextOK(f, arg) /\ CountRestart
        /\ cfg' = [cfg EXCEPT ![f] = arg] /\ stack' = Append(stack, Save(Then(f)))
        /\ blame' = (blame \/ Wrong(f, text) \/ Copying("sim_pin"))
        /\ UNCHANGED <<flash, pc, step2, initialized, fed, toPico, simVars, missed>>

PageCloseAt(time) ==
    /\ Callback
    /\ cfg' = [cfg EXCEPT !.close_time = time] /\ stack' = Append(stack, Save("return"))
    /\ blame' = (blame \/ Copying("sim_pin"))
    /\ UNCHANGED <<flash, pc, step2, initialized, fed, toPico, simVars, missed, restarts>>

(* handle_reset                                                             *)
PageReset == Callback /\ CountRestart /\ Restart /\ UNCHANGED <<simVars, blame>>

-----------------------------------------------------------------------------
(* The boot: config_init, then modem_init                                   *)

ConfigInit ==
    /\ pc = "init" /\ pc' = "at"
    /\ cfg' = IF flash.magic THEN flash ELSE Defaults
    /\ stack' = IF flash.magic THEN <<>> ELSE <<Save("return")>>
    /\ blame' = (blame \/ (~flash.magic /\ Defaults.sim_pin # TruePin))
    /\ UNCHANGED <<flash, step2, initialized, fed, toPico, simVars, missed, restarts>>

Main(from) == pc = from /\ step2 = 0 /\ stack = <<>>
Waited == fed' = fed + 1

(* "AT" until the modem answers, two seconds after the watchdog is fed       *)
AtRetry ==
    /\ Main("at") /\ fed' = 0
    /\ UNCHANGED <<cfg, flash, pc, step2, stack, initialized, toPico, simVars, blame, missed, restarts>>

AtAnswered ==
    /\ Main("at") /\ pc' = "echo" /\ Waited
    /\ UNCHANGED <<cfg, flash, step2, stack, initialized, toPico, simVars, blame, missed, restarts>>

(* ATE0, then AT+CPIN?, which the modem answers                              *)
Echo ==
    /\ Main("echo") /\ pc' = "cpin" /\ Waited
    /\ toPico' = Append(toPico, sim)
    /\ UNCHANGED <<cfg, flash, step2, stack, initialized, simVars, blame, missed, restarts>>

ModemInitDone ==
    /\ Main("cpin") /\ pc' = "loop" /\ fed' = 0
    /\ UNCHANGED <<cfg, flash, step2, stack, initialized, toPico, simVars, blame, missed, restarts>>

(* modem_feed_char on a line about the SIM, in the loop and in every wait    *)
Line(l) ==
    /\ pc # "init" /\ stack = <<>> /\ toPico # <<>> /\ Head(toPico) = l

(* AT+CPIN with the stored PIN                                              *)
SendPin ==
    /\ Line("pin")
    /\ IF sim # "pin"
       THEN toPico' = Append(Tail(toPico), "error") /\ UNCHANGED <<sim, attempts>>
       ELSE IF cfg.sim_pin = TruePin
       THEN toPico' = Append(Tail(toPico), "ready") /\ sim' = "ready" /\ attempts' = 3
       ELSE /\ toPico' = Append(Tail(toPico), "incorrect")
            /\ attempts' = attempts - 1
            /\ sim' = IF attempts = 1 THEN "puk" ELSE "pin"
    /\ UNCHANGED <<cfg, flash, pc, step2, stack, initialized, fed, announced, setUp,
                   blame, missed, restarts>>

(* A slip: the flag is set and the set-up forgotten.                        *)
SimReady_NoSetUp ==
    /\ Line("ready") /\ toPico' = Tail(toPico)
    /\ initialized' = TRUE
    /\ UNCHANGED <<cfg, flash, pc, step2, stack, fed, simVars, blame, missed, restarts>>

SimReady ==
    /\ Line("ready") /\ toPico' = Tail(toPico)
    /\ initialized' = TRUE
    /\ step2' = IF initialized THEN step2 ELSE 1
    /\ fed' = IF ~initialized /\ pc # "loop" THEN fed + 1 ELSE fed
    /\ UNCHANGED <<cfg, flash, pc, stack, simVars, blame, missed, restarts>>

(* PUK and errors: a LED and an entry in the log                             *)
SimTrouble ==
    /\ \E l \in {"puk", "incorrect", "error"} : Line(l)
    /\ toPico' = Tail(toPico)
    /\ UNCHANGED <<cfg, flash, pc, step2, stack, initialized, fed, simVars, blame, missed, restarts>>

(* modem_init_step2: the watchdog is fed after the third wait and, on return *)
(* to the loop, after the last.                                             *)
Step2_NotFed ==
    /\ step2 # 0 /\ stack = <<>>
    /\ setUp' = setUp \cup {step2}
    /\ step2' = IF step2 = 5 THEN 0 ELSE step2 + 1
    /\ fed' = IF step2 = 5 /\ pc = "loop" THEN 0 ELSE fed + 1
    /\ UNCHANGED <<cfg, flash, pc, stack, initialized, toPico, sim, attempts, announced,
                   blame, missed, restarts>>

Step2 ==
    /\ step2 # 0 /\ stack = <<>>
    /\ setUp' = setUp \cup {step2}
    /\ step2' = IF step2 = 5 THEN 0 ELSE step2 + 1
    /\ fed' = IF step2 \in {3, 5} THEN 0 ELSE fed + 1
    /\ UNCHANGED <<cfg, flash, pc, stack, initialized, toPico, sim, attempts, announced,
                   blame, missed, restarts>>

(* The modem: it reports the SIM once after its start, and may start alone.  *)
Announce ==
    /\ ~announced /\ announced' = TRUE
    /\ toPico' = IF pc = "init" THEN toPico ELSE Append(toPico, sim)
    /\ UNCHANGED <<cfg, flash, pc, step2, stack, initialized, fed, sim, attempts, setUp,
                   blame, missed, restarts>>

ModemRestarts ==
    /\ CountRestart
    /\ ModemStarts /\ missed' = TRUE
    /\ UNCHANGED <<cfg, flash, pc, step2, stack, initialized, fed, toPico, blame>>

Handlers == SetRest \/ Erase \/ Program \/ Reset
Boot == ConfigInit \/ AtRetry \/ AtAnswered \/ Echo \/ ModemInitDone
Lines == SendPin \/ SimReady \/ SimTrouble

Next ==
    \/ Handlers \/ Boot \/ Lines \/ Step2
    \/ \E f \in TextFields : \E text \in Texts[f] : TextCommand(f, text) \/ PageText(f, text)
    \/ \E time \in Times \cup {DISABLED} : CloseAt(time) \/ PageCloseAt(time)
    \/ \E q \in Requests : Update(q)
    \/ PageReset \/ LoseLine \/ PowerFails \/ Announce \/ ModemRestarts

(* Main goes on, and the modem answers AT one day.  Commands and the page may *)
(* keep the loop busy, but callbacks leave it time, and every turn of it      *)
(* reads the UART until it is empty.                                        *)
Fairness ==
    /\ WF_vars(Handlers) /\ SF_vars(Len(stack) = 1 /\ Handlers)
    /\ WF_vars(Boot) /\ SF_vars(AtAnswered)
    /\ SF_vars(Lines) /\ SF_vars(Step2)

Spec == Init /\ [][Next]_vars /\ Fairness

-----------------------------------------------------------------------------
(* config.c:37 and its callers: while no handler is at work, and before it   *)
(* restarts the device, the flash holds the settings in use - also when the  *)
(* page changes them in the middle of a command.                             *)
Kept == pc # "init" /\ (stack = <<>> \/ Top.at \in {"reset", "cfun"}) => flash = cfg

(* modem.c:170-211: the SIM is never blocked unless someone has given a      *)
(* wrong PIN, the settings were lost and the default PIN is wrong, or the    *)
(* page came while a PIN was copied.                                         *)
SimSafe == sim = "puk" => blame

(* main.c:42 (a watchdog of 15 seconds, says its comment), modem.c:321-380:   *)
(* from modem_init on it is fed in time, also when the modem answers every    *)
(* command at the last moment and step 2 runs inside the wait of modem_init:  *)
(* the waits that are over and the one that is going on are within its time.  *)
FedInTime == 2 * (fed + 1) < 15

AsAsked(q) ==
    Stored([ssid |-> q.ssid, pass |-> q.password, sim_pin |-> q.simpin,
            door |-> q.door, overhead |-> q.overhead, close_enabled |-> q.close_enabled,
            close_hour |-> q.close_hour, close_min |-> q.close_min])

(* The URI is stored in full, texts and numbers fit their variables.         *)
Fits(q) ==
    /\ Start(q, 8) + Digits(q.close_min) <= 127
    /\ Length(q.ssid) <= 32 /\ Length(q.password) <= 63 /\ Length(q.simpin) <= 6
    /\ q.door < 65536 /\ q.overhead < 65536 /\ q.close_hour < 256 /\ q.close_min < 256

(* router.c:473-627: what the page is asked to save is stored as it was      *)
(* asked, and never outside the limits of the form, if the URI fits.         *)
SavedAsAsked ==
    [][ \A q \in Requests : Update(q) /\ Fits(q) =>
          /\ cfg' = AsAsked(q)
          /\ q.close_hour \in 0 .. 23 /\ q.close_min \in 0 .. 59
          /\ q.door \in 1 .. 300 /\ q.overhead \in 1 .. 300 ]_vars

(* webserver.c:165 "Volledige URI opslaan" (store the full URI): what the     *)
(* page is asked to save is stored as it was asked, also by a long request.  *)
SavedInFull ==
    [][ \A q \in Requests : Update(q) => cfg' = AsAsked(q) ]_vars

(* modem.c:321-380: a boot with the right PIN makes the SIM ready and the    *)
(* modem set up, unless the device restarts, the modem restarts by itself,   *)
(* a line is lost, or the PIN is changed.                                    *)
BootsUp ==
    pc = "at" /\ cfg.sim_pin = TruePin /\ sim # "puk"
        ~> \/ sim = "ready" /\ setUp = 1 .. 5
           \/ pc = "init" \/ missed \/ cfg.sim_pin # TruePin
=============================================================================
