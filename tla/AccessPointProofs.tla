--------------------------- MODULE AccessPointProofs ---------------------------
(***************************************************************************)
(* Proofs about AccessPoint and the connections of WebServer, for any       *)
(* number of connections, any memory and answers of any length, any times   *)
(* and any clock.                                                           *)
(***************************************************************************)
EXTENDS AccessPoint, FiniteSetTheorems, SequenceTheorems, TLAPS

(* A turn of the main loop takes less than the fifteen minutes.              *)
ShortTurns == MaxStall <= Minutes15

(* Blocks: what ws_accept allocates belongs to an open connection, and what  *)
(* is registered for a closed one is the poll callback only.                *)
Block == [held : {TRUE}, handled : BOOLEAN, longpoll : BOOLEAN, header_len : Nat,
          result_len : Nat, file_offset : Nat, sent_len : Nat]

Holding == {c \in Conns : state[c].held}

BlockInv ==
    /\ pcb \in [Conns -> {"none", "open", "lingers"}]
    /\ state \in [Conns -> Block \cup {NoState}]
    /\ registered \in [Conns -> SUBSET Callbacks]
    /\ leaked \in Nat /\ fault \in BOOLEAN /\ ~fault
    /\ \A c \in Conns : state[c].held <=> pcb[c] = "open"
    /\ \A c \in Conns : pcb[c] # "open" => registered[c] \subseteq {"poll"}
    /\ Cardinality(Holding) + leaked <= Heap

(* Time: while the access point is on, what is left of its time and the time *)
(* since it was asked for add up, and the loop is not late - except from the *)
(* moment it is switched on until its deadline is written.                  *)
TimeInv ==
    /\ wifi_enabled \in BOOLEAN /\ stall \in 0 .. MaxStall
    /\ asked \in 0 .. AskedMax /\ raced \in 0 .. 2
    /\ pc \in {"task", "start", "enable", "deadline", "off", "server", "close", "down"}
    /\ wifi_enabled /\ pc \notin {"enable", "deadline"} =>
          /\ left = Minutes15 - asked
          /\ asked < Minutes15 + stall + (IF pc \in {"task", "start"} THEN 0 ELSE MaxStall)
    /\ pc = "off" /\ raced = 0 => wifi_enabled /\ asked >= Minutes15

(* Flags: what the flag says, at every place of a call, if at most one       *)
(* command of the page has come inside it.                                  *)
Agree == (ap <=> wifi_enabled) /\ (listening <=> wifi_enabled /\ ~taken)

FlagInv ==
    /\ wifi_enabled \in BOOLEAN /\ ap \in BOOLEAN /\ listening \in BOOLEAN /\ taken \in BOOLEAN
    /\ raced \in {0, 1, 2} /\ (raced = 1 => pc # "task")
    /\ pc \in {"task", "start", "enable", "deadline", "off", "server", "close", "down"}
    /\ raced # 2 =>
          /\ pc \in {"task", "start", "deadline", "off", "server"} => Agree
          /\ pc = "enable" => ap /\ (listening <=> ~taken)
          /\ pc = "down" => ~listening
    /\ raced = 0 =>
          /\ pc \in {"start", "enable"} => ~wifi_enabled
          /\ pc \in {"server", "close", "down"} => wifi_enabled
          /\ pc = "close" => listening

(* Button: a press that is being timed has lasted as long as it was timed,   *)
(* unless the button was let go unseen.                                     *)
ButtonInv ==
    /\ pressed \in 0 .. Hold /\ held \in Nat
    /\ active \in BOOLEAN /\ button \in BOOLEAN /\ unseen \in BOOLEAN
    /\ active /\ ~unseen => button /\ (held <= pressed \/ pressed = Hold)

(* The steps of Next, in groups that leave the same things alone.            *)
Connection(c) == ConnNext(c) /\ UNCHANGED wifiVars
Finger == Press \/ Release
InCall == Start \/ Enable \/ Deadline \/ TestServer \/ CloseServer \/ Down \/ Off
Turn == WifiOn \/ WifiOff \/ TaskOn \/ ButtonTask \/ ButtonOn

LEMMA ByStep ==
    Next <=> \/ InCall \/ Turn \/ Tick \/ Finger
             \/ \E c \in Conns : Connection(c) \/ PageOn(c) \/ PageOff(c)
  BY DEF Next, LoopSteps, InCall, Turn, Finger, Connection

LEMMA ConnectionLeaves ==
    ASSUME NEW c \in Conns, Connection(c)
    PROVE  UNCHANGED <<ap, listening, wifiVars>>
  BY DEF Connection, ConnNext, Accept, BadRequest, LongPoll, ClientCloses, Request, Sent, Poll,
         Reset, Abort, Expire, Closing, Answering

-----------------------------------------------------------------------------
(* The deadline                                                             *)

LEMMA Numbers ==
    /\ Minutes15 \in Nat /\ Minutes15 > 0 /\ Hold \in Nat /\ Hold > 0 /\ MaxStall \in Nat
    /\ Clock \in Nat /\ Half \in Nat /\ Minutes15 + MaxStall + 1 <= Half
    /\ AskedMax = Minutes15 + 2 * MaxStall + 2
  BY AccessPointAssumption DEF Half, AskedMax

(* The distance of two times is true as long as it is less than half of the  *)
(* clock.                                                                   *)
LEMMA SignedTrue ==
    ASSUME NEW n \in Int, -Half <= n, n < Half PROVE Signed(n) = n
  <1>1. Clock \in Nat /\ Clock > 0 /\ Half = Clock \div 2
    BY Numbers DEF Half
  <1>2. CASE n >= 0
    <2>1. n % Clock = n
      BY <1>1, <1>2
    <2> QED
      BY <2>1, <1>2 DEF Signed
  <1>3. CASE n < 0
    <2>1. n % Clock = n + Clock /\ ~(n + Clock < Half)
      BY <1>1, <1>3
    <2> QED
      BY <1>1, <1>3, <2>1 DEF Signed
  <1> QED
    BY <1>2, <1>3

LEMMA TimeTick == ASSUME ShortTurns, TimeInv, Tick PROVE TimeInv'
  <1>1. /\ stall < MaxStall /\ stall' = stall + 1
        /\ left' = IF wifi_enabled THEN Signed(left - 1) ELSE 0
        /\ asked' = IF wifi_enabled /\ asked < AskedMax THEN asked + 1 ELSE asked
        /\ UNCHANGED <<wifi_enabled, pc, raced>>
    BY DEF Tick
  <1>2. stall \in Nat /\ asked \in Nat /\ asked <= AskedMax /\ stall' \in 0 .. MaxStall
    BY <1>1, Numbers DEF TimeInv
  <1>3. asked' \in 0 .. AskedMax /\ asked' >= asked
    BY <1>1, <1>2, Numbers
  <1>4. ASSUME wifi_enabled, pc \notin {"enable", "deadline"}
        PROVE  /\ left' = Minutes15 - asked'
               /\ asked' < Minutes15 + stall' + (IF pc \in {"task", "start"} THEN 0 ELSE MaxStall)
    <2>1. left = Minutes15 - asked /\ asked < Minutes15 + stall + MaxStall
      BY <1>2, <1>4, Numbers DEF TimeInv
    <2>2. asked' = asked + 1
      BY <1>1, <1>2, <1>4, <2>1, Numbers
    <2>3. left - 1 \in Int /\ -Half <= left - 1 /\ left - 1 < Half
      BY <1>1, <1>2, <2>1, Numbers DEF ShortTurns
    <2>4. left' = left - 1
      BY <1>1, <1>4, <2>3, SignedTrue
    <2>5. left' = Minutes15 - asked'
      BY <1>2, <2>1, <2>2, <2>4, Numbers
    <2>6. CASE pc \in {"task", "start"}
      <3>1. asked < Minutes15 + stall
        BY <1>2, <1>4, <2>6, Numbers DEF TimeInv
      <3>2. asked' < Minutes15 + stall'
        BY <1>1, <1>2, <2>2, <3>1, Numbers
      <3> QED
        BY <1>2, <2>5, <2>6, <3>2, Numbers
    <2>7. CASE pc \notin {"task", "start"}
      <3>1. asked' < Minutes15 + stall' + MaxStall
        BY <1>1, <1>2, <2>1, <2>2, Numbers
      <3> QED
        BY <2>5, <2>7, <3>1
    <2> QED
      BY <2>6, <2>7
  <1>5. pc = "off" /\ raced = 0 => wifi_enabled /\ asked' >= Minutes15
    BY <1>2, <1>3, Numbers DEF TimeInv
  <1> QED
    BY <1>1, <1>2, <1>3, <1>4, <1>5 DEF TimeInv

LEMMA TimeTurn == ASSUME TimeInv, Turn PROVE TimeInv'
  <1>1. stall' = 0 /\ pc = "task" /\ UNCHANGED <<wifi_enabled, left, asked, raced>>
    BY DEF Turn, WifiOn, WifiOff, TaskOn, ButtonTask, ButtonOn, AskOn
  <1>2. \/ pc' = "task" /\ (wifi_enabled => ~Expired)
        \/ pc' = "off" /\ wifi_enabled /\ Expired
        \/ pc' = "start" /\ ~wifi_enabled
        \/ pc' \in {"deadline", "server"}
    BY <1>1 DEF Turn, WifiOn, WifiOff, TaskOn, ButtonTask, ButtonOn, AskOn
  <1>3. stall \in Nat /\ asked \in Nat /\ stall <= MaxStall /\ 0 \in 0 .. MaxStall
    BY <1>1, Numbers DEF TimeInv
  <1>4. wifi_enabled => left = Minutes15 - asked /\ asked < Minutes15 + stall
    BY <1>1, <1>3, Numbers DEF TimeInv
  <1>5. pc' = "off" => wifi_enabled /\ asked >= Minutes15
    BY <1>1, <1>2, <1>3, <1>4, Numbers DEF Expired
  <1>6. wifi_enabled /\ pc' = "task" => asked < Minutes15
    BY <1>1, <1>2, <1>3, <1>4, Numbers DEF Expired
  <1>7. wifi_enabled => asked < Minutes15 + 0 + MaxStall
    BY <1>3, <1>4, Numbers
  <1>8. wifi_enabled /\ pc' = "task" => asked < Minutes15 + 0 + 0
    BY <1>3, <1>6, Numbers
  <1>9. wifi_enabled =>
          asked < Minutes15 + 0 + (IF pc' \in {"task", "start"} THEN 0 ELSE MaxStall)
    BY <1>2, <1>7, <1>8
  <1>10. pc' \in {"task", "start", "enable", "deadline", "off", "server", "close", "down"}
    BY <1>2
  <1>11. raced \in 0 .. 2 /\ wifi_enabled \in BOOLEAN /\ asked \in 0 .. AskedMax
    BY DEF TimeInv
  <1> QED
    BY <1>1, <1>3, <1>4, <1>5, <1>9, <1>10, <1>11 DEF TimeInv

LEMMA TimeCall == ASSUME TimeInv, InCall PROVE TimeInv'
  <1>1. stall \in Nat /\ asked \in Nat /\ stall <= MaxStall
    BY Numbers DEF TimeInv
  <1>2. 0 \in 0 .. AskedMax /\ 0 < Minutes15 + stall /\ Minutes15 = Minutes15 - 0
    BY <1>1, Numbers
  <1>3. raced' \in 0 .. 2 /\ UNCHANGED stall
    BY DEF InCall, Start, Enable, Deadline, TestServer, CloseServer, Down, Off, Step, TimeInv
  <1>4. CASE Start \/ Enable
    BY <1>3, <1>4 DEF Start, Enable, Step, TimeInv
  <1>5. CASE Deadline
    <2>1. pc' = "task" /\ left' = Minutes15 /\ asked' = 0 /\ UNCHANGED wifi_enabled
      BY <1>5 DEF Deadline, Step
    <2>2. 0 < Minutes15 + stall + (IF pc' \in {"task", "start"} THEN 0 ELSE MaxStall)
      BY <1>1, <2>1, Numbers
    <2> QED
      BY <1>2, <1>3, <2>1, <2>2 DEF TimeInv
  <1>6. CASE TestServer \/ CloseServer
    BY <1>3, <1>6 DEF TestServer, CloseServer, Step, TimeInv
  <1>7. CASE Down
    BY <1>2, <1>3, <1>7 DEF Down, Step, TimeInv
  <1>8. CASE Off
    BY <1>3, <1>8 DEF Off, Step, TimeInv
  <1> QED
    BY <1>4, <1>5, <1>6, <1>7, <1>8 DEF InCall

LEMMA TimePage ==
    ASSUME TimeInv, NEW c \in Conns, PageOn(c) \/ PageOff(c) PROVE TimeInv'
  <1>1. stall \in Nat /\ asked \in Nat /\ stall <= MaxStall /\ raced \in 0 .. 2
    BY Numbers DEF TimeInv
  <1>2. 0 \in 0 .. AskedMax /\ 0 < Minutes15 + stall /\ 0 < Minutes15 + stall + MaxStall
        /\ Minutes15 = Minutes15 - 0
    BY <1>1, Numbers
  <1>3. UNCHANGED <<pc, stall>> /\ Races
    BY DEF PageOn, PageOff
  <1>4. raced' \in 0 .. 2 /\ (pc # "task" => raced' # 0)
    BY <1>1, <1>3 DEF Races
  <1>5. CASE PageOn(c)
    <2>1. wifi_enabled' = TRUE /\ left' = Minutes15 /\ asked' = 0
      BY <1>5 DEF PageOn
    <2>2. 0 < Minutes15 + stall + (IF pc \in {"task", "start"} THEN 0 ELSE MaxStall)
      BY <1>1, Numbers
    <2> QED
      BY <1>2, <1>3, <1>4, <2>1, <2>2 DEF TimeInv
  <1>6. CASE PageOff(c) /\ wifi_enabled
    <2>1. wifi_enabled' = FALSE /\ left' = left /\ asked' = 0
      BY <1>6 DEF PageOff
    <2> QED
      BY <1>2, <1>3, <1>4, <2>1 DEF TimeInv
  <1>7. CASE PageOff(c) /\ ~wifi_enabled
    <2>1. UNCHANGED <<wifi_enabled, left, asked>>
      BY <1>7 DEF PageOff
    <2> QED
      BY <1>3, <1>4, <1>7, <2>1 DEF TimeInv
  <1> QED
    BY <1>5, <1>6, <1>7

LEMMA TimeStep == ASSUME ShortTurns, TimeInv, [Next]_vars PROVE TimeInv'
  <1>1. CASE UNCHANGED <<wifi_enabled, left, asked, raced, pc, stall>>
    BY <1>1 DEF TimeInv
  <1>2. Finger \/ UNCHANGED vars \/ (\E c \in Conns : Connection(c))
           => UNCHANGED <<wifi_enabled, left, asked, raced, pc, stall>>
    BY DEF Finger, Press, Release, vars, wifiVars, Connection
  <1> QED
    BY <1>1, <1>2, ByStep, TimeTick, TimeTurn, TimeCall, TimePage

THEOREM TimeAlways == ShortTurns => (Spec => []TimeInv)
  <1> SUFFICES ASSUME ShortTurns PROVE Spec => []TimeInv
    OBVIOUS
  <1>1. Init => TimeInv
    <2>1. 0 \in 0 .. MaxStall /\ 0 \in 0 .. AskedMax /\ 0 \in 0 .. 2
      BY Numbers
    <2>2. Init => stall = 0 /\ asked = 0 /\ raced = 0 /\ wifi_enabled = FALSE /\ pc = "task"
      BY DEF Init
    <2> QED
      BY <2>1, <2>2 DEF TimeInv
  <1>2. TimeInv /\ [Next]_vars => TimeInv'
    BY TimeStep
  <1> QED
    BY <1>1, <1>2, PTL DEF Spec

(* webserver.c:383-391: the access point is on no longer than its time and   *)
(* two turns of the loop, for any clock more than twice as large.           *)
THEOREM OffOnTime == ShortTurns => (Spec => []OffInTime)
  <1> SUFFICES ASSUME ShortTurns PROVE Spec => []OffInTime
    OBVIOUS
  <1>1. TimeInv => OffInTime
    <2>1. ASSUME TimeInv, wifi_enabled, pc \notin {"enable", "deadline"}
          PROVE  asked <= Minutes15 + 2 * MaxStall
      <3>1. stall \in Nat /\ asked \in Nat /\ stall <= MaxStall
        BY <2>1, Numbers DEF TimeInv
      <3>2. asked < Minutes15 + stall + (IF pc \in {"task", "start"} THEN 0 ELSE MaxStall)
        BY <2>1 DEF TimeInv
      <3> QED
        BY <3>1, <3>2, Numbers
    <2> QED
      BY <2>1 DEF OffInTime
  <1> QED
    BY <1>1, TimeAlways, PTL

(* webserver.c:358-391: the access point is not switched off for its time    *)
(* before that has gone by since it was last asked for, unless the page asks *)
(* between the look at the clock and wifi_off.                               *)
THEOREM OnUntilThen == ShortTurns => (Spec => OnLongEnough)
  <1> SUFFICES ASSUME ShortTurns PROVE Spec => OnLongEnough
    OBVIOUS
  <1>1. TimeInv => [pc = "off" /\ pc' = "server" => asked >= Minutes15 \/ raced > 0]_vars
    BY DEF TimeInv
  <1> QED
    BY <1>1, TimeAlways, PTL DEF OnLongEnough

-----------------------------------------------------------------------------
(* The flag and the access point                                            *)

LEMMA ThreeCounts == 0 # 1 /\ 0 # 2 /\ 1 # 2
  OBVIOUS

LEMMA FlagCall == ASSUME FlagInv, InCall PROVE FlagInv'
  <1> USE DEF FlagInv, Agree, Step
  <1>1. CASE Start
    BY <1>1 DEF Start, Open
  <1>2. CASE Enable
    BY <1>2 DEF Enable
  <1>3. CASE Deadline
    BY <1>3 DEF Deadline
  <1>4. CASE TestServer
    BY <1>4 DEF TestServer
  <1>5. CASE CloseServer
    BY <1>5 DEF CloseServer
  <1>6. CASE Down
    <2>1. /\ pc = "down" /\ pc' = "task" /\ ap' = FALSE /\ wifi_enabled' = FALSE
          /\ UNCHANGED <<listening, taken>>
          /\ raced' = IF raced = 1 THEN 0 ELSE raced
      BY <1>6 DEF Down
    <2>2. raced' \in {0, 2} /\ (raced' = 0 => raced # 2)
      BY <2>1, ThreeCounts, Zenon
    <2>3. raced' = 0 => Agree'
      BY <2>1, <2>2, Zenon
    <2> QED
      BY <2>1, <2>2, <2>3, ThreeCounts, Zenon
  <1>7. CASE Off
    BY <1>7 DEF Off
  <1> QED
    BY <1>1, <1>2, <1>3, <1>4, <1>5, <1>6, <1>7 DEF InCall

LEMMA FlagTurn == ASSUME FlagInv, Turn \/ Tick PROVE FlagInv'
  <1> USE DEF FlagInv, Agree, webVars
  <1>1. CASE WifiOn
    BY <1>1 DEF WifiOn, AskOn
  <1>2. CASE WifiOff
    BY <1>2 DEF WifiOff
  <1>3. CASE TaskOn
    BY <1>3 DEF TaskOn
  <1>4. CASE ButtonTask
    BY <1>4 DEF ButtonTask
  <1>5. CASE ButtonOn
    BY <1>5 DEF ButtonOn, AskOn
  <1>6. CASE Tick
    BY <1>6 DEF Tick
  <1> QED
    BY <1>1, <1>2, <1>3, <1>4, <1>5, <1>6 DEF Turn

LEMMA FlagPage ==
    ASSUME FlagInv, NEW c \in Conns, PageOn(c) \/ PageOff(c) PROVE FlagInv'
  <1> USE DEF FlagInv, Agree
  <1>1. Races /\ UNCHANGED pc
    BY DEF PageOn, PageOff
  <1>2. /\ raced' \in {0, 1, 2} /\ (raced' = 1 => pc # "task") /\ (raced' # 2 => raced # 2)
        /\ raced' = 0 => raced = 0 /\ pc = "task"
        /\ pc # "task" => raced' # 0
        /\ raced' # 2 /\ pc # "task" => raced = 0
    BY <1>1 DEF Races
  <1>3. CASE PageOn(c)
    <2>1. /\ wifi_enabled' = TRUE
          /\ \/ wifi_enabled /\ UNCHANGED <<ap, listening, taken>>
             \/ ~wifi_enabled /\ Open
      BY <1>3 DEF PageOn
    <2>2. wifi_enabled' \in BOOLEAN /\ ap' \in BOOLEAN /\ listening' \in BOOLEAN /\ taken' \in BOOLEAN
      BY <2>1 DEF Open
    <2>3. wifi_enabled \/ (ap' /\ (listening' <=> ~taken'))
      BY <2>1, <2>2 DEF Open
    <2>4. raced' # 2 => /\ pc' \in {"task", "start", "deadline", "off", "server"} => Agree'
                        /\ pc' = "enable" => ap' /\ (listening' <=> ~taken')
                        /\ pc' = "down" => ~listening'
      BY <1>1, <1>2, <2>1, <2>2, <2>3
    <2> QED
      BY <1>1, <1>2, <2>2, <2>4, <2>1
  <1>4. CASE PageOff(c)
    <2>1. /\ wifi_enabled' = FALSE /\ UNCHANGED taken
          /\ \/ wifi_enabled /\ ap' = FALSE /\ listening' = FALSE
             \/ ~wifi_enabled /\ UNCHANGED <<ap, listening>>
      BY <1>4 DEF PageOff
    <2>2. wifi_enabled' \in BOOLEAN /\ ap' \in BOOLEAN /\ listening' \in BOOLEAN /\ taken' \in BOOLEAN
      BY <2>1
    <2>3. raced' # 2 => /\ pc' \in {"task", "start", "deadline", "off", "server"} => Agree'
                        /\ pc' = "enable" => ap' /\ (listening' <=> ~taken')
                        /\ pc' = "down" => ~listening'
      BY <1>1, <1>2, <2>1, <2>2
    <2> QED
      BY <1>1, <1>2, <2>1, <2>2, <2>3
  <1> QED
    BY <1>3, <1>4

LEMMA FlagStep == ASSUME FlagInv, [Next]_vars PROVE FlagInv'
  <1>1. CASE UNCHANGED <<ap, listening, wifi_enabled, taken, raced, pc>>
    BY <1>1 DEF FlagInv, Agree
  <1>2. Finger \/ UNCHANGED vars \/ (\E c \in Conns : Connection(c))
           => UNCHANGED <<ap, listening, wifi_enabled, taken, raced, pc>>
    BY ConnectionLeaves DEF Finger, Press, Release, vars, wifiVars, webVars
  <1> QED
    BY <1>1, <1>2, ByStep, FlagTurn, FlagCall, FlagPage

(* webserver.c:326-381: between two calls the flag says whether the access   *)
(* point is up and served, and a server is only closed while it listens, as  *)
(* far as no command of the page has come inside the call.                  *)
THEOREM FlagTrue == Spec => []Consistent
  <1>1. Init => FlagInv
    <2>1. Init => /\ ap = FALSE /\ listening = FALSE /\ wifi_enabled = FALSE /\ taken = FALSE
                  /\ raced = 0 /\ pc = "task"
      BY DEF Init, WebInit
    <2> QED
      BY <2>1, ThreeCounts, Zenon DEF FlagInv, Agree
  <1>2. FlagInv => Consistent
    BY DEF FlagInv, Agree, Consistent
  <1> QED
    BY <1>1, <1>2, FlagStep, PTL DEF Spec

-----------------------------------------------------------------------------
(* The button                                                               *)

LEMMA ButtonStep == ASSUME ButtonInv, [Next]_vars PROVE ButtonInv'
  <1>1. CASE UNCHANGED <<pressed, held, active, button, unseen>>
    BY <1>1 DEF ButtonInv
  <1>2. WifiOn \/ WifiOff \/ TaskOn \/ InCall \/ UNCHANGED vars
           \/ (\E c \in Conns : Connection(c) \/ PageOn(c) \/ PageOff(c))
           => UNCHANGED <<pressed, held, active, button, unseen>>
    BY DEF WifiOn, AskOn, WifiOff, TaskOn, InCall, Start, Enable, Deadline, TestServer,
           CloseServer, Down, Off, Step, vars, wifiVars, Connection, PageOn, PageOff
  <1>3. CASE Tick
    <2>0. held \in Nat /\ Clock \in Nat /\ Clock > 0
      <3>1. Clock \in Nat /\ Clock > 0
        BY Numbers DEF Half
      <3> QED
        BY <3>1 DEF ButtonInv
    <2>1. (held + 1) % Clock \in Nat /\ (held + 1) % Clock <= held + 1
      BY <2>0
    <2> QED
      BY <1>3, <2>1, Numbers DEF Tick, ButtonInv
  <1>4. CASE Press
    BY <1>4 DEF Press, ButtonInv
  <1>5. CASE Release
    <2>1. 0 \in 0 .. Hold
      BY Numbers
    <2>2. /\ pressed' = 0 /\ button' = FALSE /\ unseen' = active
          /\ UNCHANGED <<active, held>>
      BY <1>5 DEF Release
    <2> QED
      BY <2>1, <2>2 DEF ButtonInv
  <1>6. CASE ButtonTask
    <2>1. /\ UNCHANGED <<pressed, button>> /\ active' = button
          /\ held' = (IF button /\ ~active THEN 0 ELSE held)
          /\ unseen' = (unseen /\ button)
      BY <1>6 DEF ButtonTask
    <2>2. held' \in Nat /\ pressed >= 0
      BY <2>1, Numbers DEF ButtonInv
    <2>3. active' /\ ~unseen' => held' = 0 \/ (active /\ ~unseen /\ held' = held)
      BY <2>1 DEF ButtonInv
    <2>4. active' /\ ~unseen' => held' <= pressed \/ pressed = Hold
      BY <2>1, <2>2, <2>3, Numbers DEF ButtonInv
    <2> QED
      BY <2>1, <2>2, <2>4 DEF ButtonInv
  <1>7. CASE ButtonOn
    BY <1>7 DEF ButtonOn, AskOn, ButtonInv
  <1> QED
    BY <1>1, <1>2, <1>3, <1>4, <1>5, <1>6, <1>7, ByStep DEF Turn, Finger

(* webserver.c:396-423: a press that switches the access point on has lasted *)
(* as long as it must, unless the button was let go unseen - also when the   *)
(* clock wraps during the press.                                            *)
THEOREM PressLasted == Spec => ButtonHeld
  <1>1. Init => ButtonInv
    <2>1. 0 \in 0 .. Hold /\ 0 \in Nat
      BY Numbers
    <2>2. Init => /\ pressed = 0 /\ held = 0
                  /\ active = FALSE /\ button = FALSE /\ unseen = FALSE
      BY DEF Init
    <2> QED
      BY <2>1, <2>2 DEF ButtonInv
  <1>2. ASSUME ButtonInv, Next, active, ~active', pc' # pc PROVE pressed >= Hold \/ unseen
    <2>1. ButtonOn
      BY <1>2, ByStep DEF WifiOn, AskOn, WifiOff, TaskOn, InCall, Start, Enable, Deadline,
           TestServer, CloseServer, Down, Off, Step, wifiVars, Connection, PageOn, PageOff,
           Tick, Press, Release, Finger, Turn, ButtonTask
    <2>2. LongPress
      BY <2>1 DEF ButtonOn
    <2> QED
      BY <1>2, <2>2, Numbers DEF LongPress, ButtonInv
  <1>3. ButtonInv /\ [Next]_vars
           => [active /\ ~active' /\ pc' # pc => pressed >= Hold \/ unseen]_vars
    BY <1>2
  <1> QED
    BY <1>1, <1>3, ButtonStep, PTL DEF Spec, ButtonHeld

-----------------------------------------------------------------------------
(* The state blocks                                                         *)

LEMMA Counted ==
    ASSUME BlockInv
    PROVE  /\ IsFiniteSet(Holding) /\ Cardinality(Holding) \in Nat
           /\ Held = Cardinality(Holding) + leaked /\ Heap \in Nat
  <1>1. Holding \subseteq Conns /\ IsFiniteSet(Conns) /\ Heap \in Nat
    BY WebServerAssumption DEF Holding
  <1> QED
    BY <1>1, FS_Subset, FS_CardinalityType DEF Held, Holding

LEMMA BlockKept ==
    ASSUME BlockInv, NEW c \in Conns, UNCHANGED <<pcb, registered, leaked, fault>>,
           \E s \in Block : state[c].held /\ state' = [state EXCEPT ![c] = s]
    PROVE  BlockInv'
  <1>1. PICK s \in Block : state[c].held /\ state' = [state EXCEPT ![c] = s]
    OBVIOUS
  <1>2. s.held /\ \A d \in Conns : state'[d] = IF d = c THEN s ELSE state[d]
    BY <1>1 DEF BlockInv, Block
  <1>3. \A d \in Conns : state'[d].held <=> state[d].held
    BY <1>1, <1>2
  <1>4. Holding' = Holding
    BY <1>3 DEF Holding
  <1> QED
    BY <1>1, <1>3, <1>4 DEF BlockInv

LEMMA BlockFreed ==
    ASSUME BlockInv, NEW c \in Conns, state[c].held, NEW where \in {"none", "lingers"},
           NEW left1 \in SUBSET {"poll"}, NEW lost1 \in {0, 1},
           pcb' = [pcb EXCEPT ![c] = where], registered' = [registered EXCEPT ![c] = left1],
           state' = [state EXCEPT ![c] = NoState], leaked' = leaked + lost1, UNCHANGED fault
    PROVE  BlockInv'
  <1>1. \A d \in Conns : state'[d] = IF d = c THEN NoState ELSE state[d]
    BY DEF BlockInv
  <1>2. Holding' = Holding \ {c} /\ c \in Holding
    BY <1>1 DEF Holding, NoState
  <1>3. Cardinality(Holding') = Cardinality(Holding) - 1
    BY <1>2, Counted, FS_RemoveElement
  <1>4. Cardinality(Holding') + leaked' <= Heap /\ leaked' \in Nat
    BY <1>3, Counted DEF BlockInv
  <1>5. \A d \in Conns : state'[d].held <=> pcb'[d] = "open"
    BY <1>1 DEF BlockInv, NoState
  <1>6. \A d \in Conns : pcb'[d] # "open" => registered'[d] \subseteq {"poll"}
    BY DEF BlockInv
  <1>7. /\ pcb' \in [Conns -> {"none", "open", "lingers"}]
        /\ state' \in [Conns -> Block \cup {NoState}]
        /\ registered' \in [Conns -> SUBSET Callbacks]
    BY DEF BlockInv, Callbacks
  <1> QED
    BY <1>4, <1>5, <1>6, <1>7 DEF BlockInv

LEMMA BlockTaken == ASSUME BlockInv, NEW c \in Conns, Accept(c) PROVE BlockInv'
  <1>1. /\ pcb[c] = "none" /\ Held < Heap /\ UNCHANGED <<leaked, fault>>
        /\ pcb' = [pcb EXCEPT ![c] = "open"] /\ state' = [state EXCEPT ![c] = NewState]
        /\ registered' = [registered EXCEPT ![c] = Callbacks]
    BY DEF Accept
  <1>2. NewState \in Block /\ NewState.held
    BY DEF NewState, Block
  <1>3. \A d \in Conns : state'[d] = IF d = c THEN NewState ELSE state[d]
    BY <1>1 DEF BlockInv
  <1>4. Holding' = Holding \cup {c} /\ c \notin Holding
    BY <1>1, <1>2, <1>3 DEF Holding, BlockInv
  <1>5. Cardinality(Holding') = Cardinality(Holding) + 1
    BY <1>4, Counted, FS_AddElement
  <1>6. Cardinality(Holding') + leaked' <= Heap
    BY <1>1, <1>5, Counted DEF BlockInv
  <1>7. \A d \in Conns : state'[d].held <=> pcb'[d] = "open"
    BY <1>1, <1>2, <1>3 DEF BlockInv
  <1>8. \A d \in Conns : pcb'[d] # "open" => registered'[d] \subseteq {"poll"}
    BY <1>1 DEF BlockInv
  <1>9. /\ pcb' \in [Conns -> {"none", "open", "lingers"}]
        /\ state' \in [Conns -> Block \cup {NoState}]
        /\ registered' \in [Conns -> SUBSET Callbacks]
    BY <1>1, <1>2 DEF BlockInv
  <1> QED
    BY <1>1, <1>6, <1>7, <1>8, <1>9 DEF BlockInv

LEMMA BlockClosed ==
    ASSUME BlockInv, NEW c \in Conns, state[c].held, Closing(c) PROVE BlockInv'
  <1>1. leaked' = leaked + 0
    BY DEF Closing, BlockInv
  <1> QED
    BY <1>1, BlockFreed DEF Closing

(* Of a closed connection only the poll callback is left.                    *)
LEMMA CallHolds ==
    ASSUME BlockInv, NEW c \in Conns, NEW callback \in {"recv", "sent", "err"},
           Calls(c, callback)
    PROVE  state[c].held /\ state[c] \in Block
  BY DEF BlockInv, Calls, NoState

LEMMA ChunkedBlock ==
    ASSUME NEW s \in Block, NEW ok \in BOOLEAN PROVE Chunked(s, ok) \in Block
  <1>1. s.file_offset \in Nat
    BY DEF Block
  <1>2. s.file_offset + 1 \in Nat
    BY <1>1
  <1>3. [s EXCEPT !.file_offset = @ + 1] \in Block
    BY <1>2 DEF Block
  <1> QED
    BY <1>3 DEF Chunked

LEMMA BlockAnswer ==
    ASSUME BlockInv, NEW c \in Conns, state[c].held, NEW length \in Nat,
           NEW headerOk \in BOOLEAN, NEW chunkOk \in BOOLEAN,
           Answering(c, length, headerOk, chunkOk)
    PROVE  BlockInv'
  <1> DEFINE s == [state[c] EXCEPT !.handled = TRUE, !.longpoll = FALSE,
                                   !.header_len = 1, !.result_len = length]
  <1>1. state[c] \in Block
    BY DEF BlockInv, NoState
  <1>2. s \in Block
    BY <1>1 DEF Block
  <1>3. Chunked(s, chunkOk) \in Block
    BY <1>2, ChunkedBlock
  <1>4. state' = [state EXCEPT ![c] = Chunked(s, chunkOk)]
        /\ UNCHANGED <<pcb, registered, leaked, fault>>
    BY DEF Answering
  <1> QED
    BY <1>3, <1>4, BlockKept

LEMMA BlockStep == ASSUME BlockInv, [Next]_vars PROVE BlockInv'
  <1>1. CASE UNCHANGED <<pcb, state, registered, leaked, fault>>
    BY <1>1 DEF BlockInv, Holding
  <1>2. Finger \/ InCall \/ Turn \/ Tick \/ UNCHANGED vars
           => UNCHANGED <<pcb, state, registered, leaked, fault>>
    BY DEF Finger, Press, Release, InCall, Start, Enable, Deadline, TestServer, CloseServer,
           Down, Off, Step, Turn, WifiOn, WifiOff, TaskOn, ButtonTask, ButtonOn, AskOn, Tick,
           vars, webVars, connVars
  <1>3. ASSUME NEW c \in Conns, PageOn(c) \/ PageOff(c) PROVE BlockInv'
    <2>1. Unhandled(c) /\ UNCHANGED <<pcb, registered, leaked, fault>>
      BY <1>3 DEF PageOn, PageOff
    <2> DEFINE s == [state[c] EXCEPT !.handled = TRUE, !.header_len = 1, !.result_len = 1]
    <2>2. state[c].held /\ state[c] \in Block
      BY <2>1, CallHolds DEF Unhandled
    <2>3. s \in Block
      BY <2>2 DEF Block
    <2>4. Chunked(s, TRUE) \in Block
      BY <2>3, ChunkedBlock
    <2>5. state' = [state EXCEPT ![c] = Chunked(s, TRUE)]
      BY <1>3 DEF PageOn, PageOff
    <2> QED
      BY <2>1, <2>2, <2>4, <2>5, BlockKept
  <1>4. ASSUME NEW c \in Conns, ConnNext(c) PROVE BlockInv'
    <2>1. CASE BadRequest(c)
      BY <2>1, CallHolds, BlockClosed DEF BadRequest, Unhandled
    <2>2. CASE LongPoll(c)
      <3>1. Unhandled(c) /\ UNCHANGED <<pcb, registered, leaked, fault>>
        BY <2>2 DEF LongPoll
      <3>2. state[c].held /\ state[c] \in Block
        BY <3>1, CallHolds DEF Unhandled
      <3>3. state' = [state EXCEPT ![c] = [state[c] EXCEPT !.handled = TRUE, !.longpoll = TRUE]]
        BY <2>2, <3>2 DEF LongPoll, BlockInv
      <3>4. [state[c] EXCEPT !.handled = TRUE, !.longpoll = TRUE] \in Block
        BY <3>2 DEF Block
      <3> QED
        BY <3>1, <3>2, <3>3, <3>4, BlockKept
    <2>3. CASE ClientCloses(c)
      <3>1. state[c].held
        BY <2>3, CallHolds DEF ClientCloses
      <3> QED
        BY <2>3, <3>1, BlockClosed DEF ClientCloses
    <2>4. CASE \E path \in DOMAIN Bodies : Request(c, path)
      <3>1. PICK path \in DOMAIN Bodies : Request(c, path)
        BY <2>4
      <3>2. state[c].held /\ Bodies[path] \in Nat
        BY <3>1, CallHolds, WebServerAssumption DEF Request, Unhandled
      <3> QED
        BY <3>1, <3>2, BlockAnswer DEF Request
    <2>5. ASSUME NEW n \in 1 .. MaxBody + 1, Sent(c, n) PROVE BlockInv'
      <3> DEFINE s == [state[c] EXCEPT !.sent_len = @ + n]
      <3>1. state[c].held /\ state[c] \in Block /\ n \in Nat
        BY <2>5, CallHolds DEF Sent
      <3>2. s \in Block
        <4>1. state[c].sent_len \in Nat
          BY <3>1 DEF Block
        <4>2. state[c].sent_len + n \in Nat
          BY <3>1, <4>1
        <4> QED
          BY <3>1, <4>2 DEF Block
      <3>3. Chunked(s, TRUE) \in Block
        BY <3>2, ChunkedBlock
      <3>4. \/ Closing(c)
            \/ /\ UNCHANGED <<pcb, registered, leaked, fault>>
               /\ \/ state' = [state EXCEPT ![c] = Chunked(s, TRUE)]
                  \/ state' = [state EXCEPT ![c] = s]
        BY <2>5, <3>1 DEF Sent
      <3> QED
        BY <3>1, <3>2, <3>3, <3>4, BlockClosed, BlockKept
    <2>6. CASE Poll(c)
      <3>1. state[c].held /\ 1 \in Nat
        BY <2>6 DEF Poll
      <3> QED
        BY <2>6, <3>1, BlockAnswer DEF Poll
    <2>7. CASE Reset(c)
      <3>1. leaked' = leaked + 0
        BY <2>7 DEF Reset, BlockInv
      <3> QED
        BY <2>7, <3>1, BlockFreed DEF Reset
    <2>8. CASE Abort(c)
      BY <2>8, BlockFreed DEF Abort
    <2>9. CASE Expire(c)
      <3>1. /\ pcb[c] = "lingers" /\ pcb' = [pcb EXCEPT ![c] = "none"]
            /\ registered' = [registered EXCEPT ![c] = {}]
            /\ UNCHANGED <<state, leaked, fault>>
        BY <2>9 DEF Expire
      <3>2. Holding' = Holding
        BY <3>1 DEF Holding
      <3> QED
        BY <3>1, <3>2 DEF BlockInv
    <2> QED
      BY <1>4, <2>1, <2>2, <2>3, <2>4, <2>5, <2>6, <2>7, <2>8, <2>9, BlockTaken DEF ConnNext
  <1> QED
    BY <1>1, <1>2, <1>3, <1>4, ByStep DEF Connection

LEMMA BlockInit == Init => BlockInv
  <1>1. ASSUME Init PROVE BlockInv
    <2>1. Holding = {}
      BY <1>1 DEF Init, WebInit, Holding, NoState
    <2>2. Cardinality(Holding) + leaked <= Heap
      BY <1>1, <2>1, FS_EmptySet, WebServerAssumption DEF Init, WebInit
    <2> QED
      BY <1>1, <2>2 DEF Init, WebInit, BlockInv, NoState, Callbacks
  <1> QED
    BY <1>1

(* webserver.c:39, 223: a state block belongs to an open connection, all     *)
(* others are free or lost, and no callback uses one it does not have - for  *)
(* any number of connections at once.                                       *)
THEOREM NoStrayBlock == Spec => []BlocksOwned
  <1>1. Init => BlockInv
    BY BlockInit
  <1>2. BlockInv => BlocksOwned
    BY Counted DEF BlockInv, BlocksOwned
  <1> QED
    BY <1>1, <1>2, BlockStep, PTL DEF Spec

-----------------------------------------------------------------------------
(* The stream of an answer                                                  *)

(* The header and the first n chunks.                                       *)
InFull(w, n) == Len(w) = n + 1 /\ \A i \in 1 .. n + 1 : w[i] = i - 1

(* What is counted as sent has been acknowledged.  Before the answer nothing *)
(* is written, then all of it that was not refused: only without its header  *)
(* is it shorter than it should be, and then too short to be all sent.       *)
Stream(s, w, a) ==
    /\ w \in Seq(Nat) /\ a \in Nat /\ a <= Len(w) /\ s.sent_len = a
    /\ s.header_len = 0 => w = <<>> /\ s.result_len = 0 /\ s.file_offset = 0
    /\ s.header_len # 0 =>
          /\ s.header_len = 1 /\ s.result_len >= 1 /\ s.file_offset <= s.result_len
          /\ InFull(w, s.file_offset) \/ Len(w) = s.file_offset

StreamInv ==
    /\ written \in [Conns -> Seq(Nat)] /\ acked \in [Conns -> Nat]
    /\ \A c \in Conns : pcb[c] = "none" => written[c] = <<>> /\ acked[c] = 0
    /\ \A c \in Conns : state[c].held => Stream(state[c], written[c], acked[c])
    /\ \A c \in Conns : state[c].held /\ (~state[c].handled \/ state[c].longpoll)
          => state[c].header_len = 0
    /\ \A c \in Conns : state[c].held /\ state[c].longpoll => state[c].handled

(* What a step has to show when it concerns one connection.                  *)
OneChanges(c) ==
    /\ \A d \in Conns \ {c} :
          /\ pcb'[d] = pcb[d] /\ state'[d] = state[d]
          /\ written'[d] = written[d] /\ acked'[d] = acked[d]
    /\ written' \in [Conns -> Seq(Nat)] /\ acked' \in [Conns -> Nat]

LEMMA StreamOne ==
    ASSUME StreamInv, NEW c \in Conns, OneChanges(c),
           pcb'[c] = "none" => written'[c] = <<>> /\ acked'[c] = 0,
           state'[c].held =>
              /\ Stream(state'[c], written'[c], acked'[c])
              /\ ~state'[c].handled \/ state'[c].longpoll => state'[c].header_len = 0
              /\ state'[c].longpoll => state'[c].handled
    PROVE  StreamInv'
  <1>1. ASSUME NEW d \in Conns
        PROVE  /\ pcb'[d] = "none" => written'[d] = <<>> /\ acked'[d] = 0
               /\ state'[d].held =>
                     /\ Stream(state'[d], written'[d], acked'[d])
                     /\ ~state'[d].handled \/ state'[d].longpoll => state'[d].header_len = 0
                     /\ state'[d].longpoll => state'[d].handled
    <2>1. CASE d = c
      BY <2>1
    <2>2. CASE d # c
      <3>1. /\ pcb'[d] = pcb[d] /\ state'[d] = state[d]
            /\ written'[d] = written[d] /\ acked'[d] = acked[d]
        BY <2>2 DEF OneChanges
      <3>2. /\ pcb[d] = "none" => written[d] = <<>> /\ acked[d] = 0
            /\ state[d].held =>
                  /\ Stream(state[d], written[d], acked[d])
                  /\ ~state[d].handled \/ state[d].longpoll => state[d].header_len = 0
                  /\ state[d].longpoll => state[d].handled
        BY DEF StreamInv
      <3> QED
        BY <3>1, <3>2
    <2> QED
      BY <2>1, <2>2
  <1>2. written' \in [Conns -> Seq(Nat)] /\ acked' \in [Conns -> Nat]
    BY DEF OneChanges
  <1> QED
    BY <1>1, <1>2 DEF StreamInv

LEMMA StreamForgets ==
    ASSUME BlockInv, StreamInv, NEW c \in Conns, NEW where \in {"none", "lingers"},
           pcb' = [pcb EXCEPT ![c] = where], state' = [state EXCEPT ![c] = NoState],
           Forgotten(c)
    PROVE  StreamInv'
  <1>1. ~state'[c].held /\ written'[c] = <<>> /\ acked'[c] = 0
    BY DEF BlockInv, StreamInv, Forgotten, NoState
  <1>2. OneChanges(c)
    BY DEF BlockInv, StreamInv, Forgotten, OneChanges
  <1> QED
    BY <1>1, <1>2, StreamOne

LEMMA NextWritten ==
    ASSUME NEW w \in Seq(Nat), NEW n \in Nat
    PROVE  /\ Append(w, n + 1) \in Seq(Nat) /\ Len(Append(w, n + 1)) = Len(w) + 1
           /\ InFull(w, n) => InFull(Append(w, n + 1), n + 1)
  <1>1. n + 1 \in Nat
    OBVIOUS
  <1>2. /\ Append(w, n + 1) \in Seq(Nat) /\ Len(Append(w, n + 1)) = Len(w) + 1
        /\ \A i \in 1 .. Len(w) : Append(w, n + 1)[i] = w[i]
        /\ Append(w, n + 1)[Len(w) + 1] = n + 1
    BY <1>1
  <1> QED
    BY <1>2 DEF InFull

(* The header and the first chunk, each taken or refused.                    *)
First(headerOk, chunkOk) ==
    IF headerOk THEN IF chunkOk THEN <<Header, 1>> ELSE <<Header>>
                ELSE IF chunkOk THEN <<1>> ELSE <<>>

LEMMA FirstIs ==
    ASSUME NEW h \in BOOLEAN, NEW k \in BOOLEAN
    PROVE  (IF h THEN <<Header>> ELSE <<>>) \o (IF k THEN <<1>> ELSE <<>>) = First(h, k)
  <1>1. <<Header>> \o <<1>> = <<Header, 1>>
    <2> DEFINE u == <<Header>> \o <<1>>
               v == <<Header, 1>>
    <2>1. Len(u) = 2 /\ u[1] = Header /\ u[2] = 1 /\ u \in Seq(Nat)
      BY DEF Header
    <2>2. Len(v) = 2 /\ v[1] = Header /\ v[2] = 1 /\ v \in Seq(Nat)
      BY DEF Header
    <2>3. \A i \in 1 .. 2 : u[i] = v[i]
      BY <2>1, <2>2
    <2> HIDE DEF u, v
    <2> QED
      BY <2>1, <2>2, <2>3, SeqEqual DEF u, v
  <1>2. <<Header>> \o <<>> = <<Header>> /\ <<>> \o <<1>> = <<1>> /\ <<>> \o <<>> = <<>>
    BY DEF Header
  <1> QED
    BY <1>1, <1>2 DEF First

LEMMA FirstWritten ==
    ASSUME NEW h \in BOOLEAN, NEW k \in BOOLEAN
    PROVE  /\ First(h, k) \in Seq(Nat)
           /\ h => InFull(First(h, k), IF k THEN 1 ELSE 0)
           /\ ~h => Len(First(h, k)) = IF k THEN 1 ELSE 0
  <1>1. <<0, 1>> \in Seq(Nat) /\ InFull(<<0, 1>>, 1)
    BY DEF InFull
  <1>2. <<0>> \in Seq(Nat) /\ InFull(<<0>>, 0)
    BY DEF InFull
  <1>3. <<1>> \in Seq(Nat) /\ Len(<<1>>) = 1 /\ <<>> \in Seq(Nat) /\ Len(<<>>) = 0
    OBVIOUS
  <1> QED
    BY <1>1, <1>2, <1>3 DEF First, Header

(* An answer begins on a connection on which nothing is written.             *)
LEMMA StreamBegins ==
    ASSUME BlockInv, StreamInv, NEW c \in Conns, state[c].held, state[c].header_len = 0,
           NEW length \in Nat \ {0}, NEW h \in BOOLEAN, NEW k \in BOOLEAN,
           NEW s \in Block, s.header_len = 1, s.result_len = length, s.handled, ~s.longpoll,
           s.file_offset = 0, s.sent_len = state[c].sent_len,
           state' = [state EXCEPT ![c] = Chunked(s, k)],
           written' = [written EXCEPT ![c] = First(h, k)],
           UNCHANGED <<pcb, acked>>
    PROVE  StreamInv'
  <1> DEFINE t == Chunked(s, k)
             n == IF k THEN 1 ELSE 0
  <1>1. /\ t.header_len = 1 /\ t.result_len = length /\ t.handled /\ ~t.longpoll
        /\ t.file_offset = n /\ t.sent_len = state[c].sent_len
    BY DEF Chunked, Block
  <1>2. state'[c] = t /\ written'[c] = First(h, k) /\ acked'[c] = acked[c]
    BY DEF BlockInv, StreamInv
  <1>3. acked[c] = 0 /\ state[c].sent_len = 0 /\ pcb[c] # "none"
    BY DEF StreamInv, Stream, BlockInv
  <1>4. First(h, k) \in Seq(Nat) /\ (InFull(First(h, k), n) \/ Len(First(h, k)) = n)
    BY FirstWritten
  <1>5. Stream(t, First(h, k), 0)
    <2>1. 0 <= Len(First(h, k)) /\ n <= length /\ length >= 1
      BY <1>4
    <2> QED
      BY <1>1, <1>3, <1>4, <2>1 DEF Stream
  <1>6. OneChanges(c)
    BY <1>4 DEF OneChanges, BlockInv, StreamInv
  <1> HIDE DEF t
  <1> QED
    BY <1>1, <1>2, <1>3, <1>5, <1>6, StreamOne

LEMMA StreamAnswer ==
    ASSUME BlockInv, StreamInv, NEW c \in Conns, state[c].held, state[c].header_len = 0,
           NEW length \in Nat \ {0}, NEW h \in BOOLEAN, NEW k \in BOOLEAN,
           Answering(c, length, h, k)
    PROVE  StreamInv'
  <1> DEFINE s == [state[c] EXCEPT !.handled = TRUE, !.longpoll = FALSE,
                                   !.header_len = 1, !.result_len = length]
  <1>1. state[c] \in Block
    BY DEF BlockInv, NoState
  <1>2. /\ s \in Block /\ s.header_len = 1 /\ s.result_len = length /\ s.handled /\ ~s.longpoll
        /\ s.file_offset = state[c].file_offset /\ s.sent_len = state[c].sent_len
    BY <1>1 DEF Block
  <1>3. written[c] = <<>> /\ state[c].file_offset = 0
    BY DEF StreamInv, Stream
  <1>4. NextChunk(s) = 1
    BY <1>2, <1>3 DEF NextChunk
  <1>5. /\ state' = [state EXCEPT ![c] = Chunked(s, k)] /\ UNCHANGED <<pcb, acked>>
        /\ written' = [written EXCEPT ![c] =
              @ \o (IF h THEN <<Header>> ELSE <<>>) \o (IF k THEN <<NextChunk(s)>> ELSE <<>>)]
    BY DEF Answering
  <1>6. written[c] \o (IF h THEN <<Header>> ELSE <<>>) \o (IF k THEN <<NextChunk(s)>> ELSE <<>>)
           = First(h, k)
    <2>1. written[c] \o (IF h THEN <<Header>> ELSE <<>>) = (IF h THEN <<Header>> ELSE <<>>)
      BY <1>3 DEF Header
    <2> QED
      BY <1>4, <2>1, FirstIs
  <1>7. written' = [written EXCEPT ![c] = First(h, k)]
    BY <1>5, <1>6 DEF StreamInv
  <1>8. /\ s \in Block /\ s.header_len = 1 /\ s.result_len = length /\ s.handled
        /\ ~s.longpoll /\ s.file_offset = 0 /\ s.sent_len = state[c].sent_len
        /\ state' = [state EXCEPT ![c] = Chunked(s, k)]
        /\ written' = [written EXCEPT ![c] = First(h, k)] /\ UNCHANGED <<pcb, acked>>
    BY <1>2, <1>3, <1>5, <1>7
  <1> HIDE DEF s
  <1> QED
    BY <1>8, StreamBegins

LEMMA StreamSent ==
    ASSUME BlockInv, StreamInv, NEW c \in Conns, NEW n \in 1 .. MaxBody + 1, Sent(c, n)
    PROVE  StreamInv'
  <1> DEFINE s == [state[c] EXCEPT !.sent_len = @ + n]
             w == written[c]
             a == acked[c]
  <1>1. state[c].held /\ state[c] \in Block /\ pcb[c] = "open"
    BY CallHolds DEF Sent, BlockInv
  <1>2. Stream(state[c], w, a) /\ a \in Nat /\ w \in Seq(Nat)
    BY <1>1 DEF StreamInv
  <1>3. n \in Nat /\ a + n \in Nat /\ a + n <= Len(w) /\ n > 0
    BY <1>2 DEF Sent
  <1>4. state[c].header_len # 0
    BY <1>2, <1>3 DEF Stream
  <1>5. acked' = [acked EXCEPT ![c] = a + n] /\ acked'[c] = a + n
    BY DEF Sent, StreamInv
  <1>6. /\ s \in Block /\ s.header_len = state[c].header_len /\ s.handled = state[c].handled
        /\ s.longpoll = state[c].longpoll /\ s.result_len = state[c].result_len
        /\ s.file_offset = state[c].file_offset /\ s.sent_len = state[c].sent_len + n
    <2>1. state[c].sent_len = a /\ a + n \in Nat
      BY <1>2, <1>3 DEF Stream
    <2> HIDE DEF a
    <2> QED
      BY <1>1, <2>1 DEF Block
  <1>7. state[c].handled /\ ~state[c].longpoll
    BY <1>1, <1>4 DEF StreamInv
  <1>8. CASE Closing(c) /\ UNCHANGED written
    <2>1. pcb' = [pcb EXCEPT ![c] = "lingers"] /\ state' = [state EXCEPT ![c] = NoState]
      BY <1>8 DEF Closing
    <2>2. OneChanges(c)
      BY <1>3, <1>5, <1>8, <2>1 DEF OneChanges, StreamInv, BlockInv
    <2>3. pcb'[c] # "none" /\ ~state'[c].held
      BY <2>1 DEF BlockInv, NoState
    <2> QED
      BY <2>2, <2>3, StreamOne
  <1>9. CASE /\ s.file_offset < s.result_len /\ state' = [state EXCEPT ![c] = Chunked(s, TRUE)]
             /\ written' = [written EXCEPT ![c] = Append(@, NextChunk(s))] /\ UNCHANGED pcb
    <2> DEFINE t == Chunked(s, TRUE)
               v == Append(w, state[c].file_offset + 1)
    <2>1. /\ t.header_len = s.header_len /\ t.result_len = s.result_len
          /\ t.handled = s.handled /\ t.longpoll = s.longpoll
          /\ t.file_offset = state[c].file_offset + 1 /\ t.sent_len = s.sent_len
      BY <1>6 DEF Chunked, Block
    <2>2. state[c].file_offset \in Nat /\ state[c].result_len \in Nat
      BY <1>1 DEF Block
    <2>3. v \in Seq(Nat) /\ Len(v) = Len(w) + 1
          /\ (InFull(w, state[c].file_offset) => InFull(v, state[c].file_offset + 1))
      BY <1>2, <2>2, NextWritten
    <2>4. state'[c] = t /\ written'[c] = v
      BY <1>6, <1>9 DEF BlockInv, StreamInv, NextChunk
    <2>5. t.header_len = 1 /\ t.result_len >= 1 /\ t.file_offset <= t.result_len
      <3>1. state[c].header_len = 1 /\ state[c].result_len >= 1
        BY <1>2, <1>4 DEF Stream
      <3>2. state[c].file_offset < state[c].result_len
        BY <1>6, <1>9
      <3> HIDE DEF t, s, a, w
      <3> QED
        BY <1>6, <2>1, <2>2, <3>1, <3>2
    <2>6. InFull(v, t.file_offset) \/ Len(v) = t.file_offset
      BY <1>2, <1>4, <2>1, <2>2, <2>3 DEF Stream
    <2>7. t.sent_len = a + n /\ a + n <= Len(v)
      <3>1. state[c].sent_len = a /\ Len(w) \in Nat
        BY <1>2 DEF Stream
      <3> HIDE DEF t, s, a, w, v
      <3> QED
        BY <1>3, <1>6, <2>1, <2>3, <3>1
    <2>8. OneChanges(c)
      BY <1>3, <1>5, <1>6, <1>9, <2>3 DEF OneChanges, StreamInv, BlockInv, NextChunk
    <2> HIDE DEF t, v, s, w, a
    <2>9. Stream(t, v, a + n)
      BY <1>3, <2>3, <2>5, <2>6, <2>7 DEF Stream
    <2> QED
      BY <1>1, <1>5, <1>6, <1>7, <1>9, <2>1, <2>4, <2>8, <2>9, StreamOne
  <1>10. CASE state' = [state EXCEPT ![c] = s] /\ UNCHANGED <<pcb, written>>
    <2>1. state'[c] = s
      BY <1>10 DEF BlockInv
    <2>2. OneChanges(c)
      BY <1>3, <1>5, <1>10 DEF OneChanges, StreamInv, BlockInv
    <2>3. Stream(s, w, a + n)
      BY <1>2, <1>3, <1>4, <1>6 DEF Stream
    <2> HIDE DEF s
    <2> QED
      BY <1>1, <1>5, <1>6, <1>7, <1>10, <2>1, <2>2, <2>3, StreamOne
  <1> QED
    BY <1>1, <1>8, <1>9, <1>10 DEF Sent

LEMMA StreamPage ==
    ASSUME BlockInv, StreamInv, NEW c \in Conns, PageOn(c) \/ PageOff(c) PROVE StreamInv'
  <1> DEFINE s == [state[c] EXCEPT !.handled = TRUE, !.header_len = 1, !.result_len = 1]
  <1>1. /\ Unhandled(c) /\ UNCHANGED <<pcb, acked>>
        /\ state' = [state EXCEPT ![c] = Chunked(s, TRUE)]
        /\ written' = [written EXCEPT ![c] = First(TRUE, TRUE)]
    BY DEF PageOn, PageOff, First
  <1>2. state[c].held /\ state[c] \in Block /\ ~state[c].handled
    BY <1>1, CallHolds DEF Unhandled
  <1>3. state[c].header_len = 0 /\ ~state[c].longpoll /\ state[c].file_offset = 0
    BY <1>2 DEF StreamInv, Stream
  <1>4. /\ s \in Block /\ s.header_len = 1 /\ s.result_len = 1 /\ s.handled /\ ~s.longpoll
        /\ s.file_offset = 0 /\ s.sent_len = state[c].sent_len
    BY <1>2, <1>3 DEF Block
  <1>5. 1 \in Nat \ {0} /\ TRUE \in BOOLEAN
    OBVIOUS
  <1> HIDE DEF s
  <1> QED
    BY <1>1, <1>2, <1>3, <1>4, <1>5, StreamBegins

LEMMA StreamConnection ==
    ASSUME BlockInv, StreamInv, NEW c \in Conns, ConnNext(c) PROVE StreamInv'
  <1>1. CASE Accept(c)
    <2>1. /\ pcb[c] = "none" /\ pcb' = [pcb EXCEPT ![c] = "open"]
          /\ state' = [state EXCEPT ![c] = NewState] /\ UNCHANGED <<written, acked>>
      BY <1>1 DEF Accept
    <2>2. written[c] = <<>> /\ acked[c] = 0
      BY <2>1 DEF StreamInv
    <2>3. pcb'[c] = "open" /\ state'[c] = NewState /\ OneChanges(c)
      BY <2>1 DEF BlockInv, StreamInv, OneChanges
    <2>4. Stream(NewState, <<>>, 0)
      BY DEF Stream, NewState
    <2>5. NewState.header_len = 0 /\ ~NewState.longpoll
      BY DEF NewState
    <2> QED
      BY <2>1, <2>2, <2>3, <2>4, <2>5, StreamOne
  <1>2. CASE BadRequest(c)
    BY <1>2, StreamForgets DEF BadRequest, Closing
  <1>3. CASE ClientCloses(c)
    <2>1. state[c].held
      BY <1>3, CallHolds DEF ClientCloses
    <2> QED
      BY <1>3, <2>1, StreamForgets DEF ClientCloses, Closing
  <1>4. CASE \E path \in DOMAIN Bodies : Request(c, path)
    <2>1. PICK path \in DOMAIN Bodies : Request(c, path)
      BY <1>4
    <2>2. state[c].held /\ ~state[c].handled /\ Bodies[path] \in Nat \ {0}
      BY <2>1, CallHolds, WebServerAssumption DEF Request, Unhandled
    <2>3. state[c].header_len = 0
      BY <2>2 DEF StreamInv
    <2> QED
      BY <2>1, <2>2, <2>3, StreamAnswer DEF Request
  <1>5. CASE LongPoll(c)
    <2> DEFINE s == [state[c] EXCEPT !.handled = TRUE, !.longpoll = TRUE]
    <2>1. Unhandled(c) /\ UNCHANGED <<pcb, written, acked>>
      BY <1>5 DEF LongPoll
    <2>2. state[c].held /\ state[c] \in Block /\ ~state[c].handled
      BY <2>1, CallHolds DEF Unhandled
    <2>3. state' = [state EXCEPT ![c] = s]
      BY <1>5, <2>2 DEF LongPoll, BlockInv
    <2>4. /\ s.handled /\ s.header_len = state[c].header_len /\ s.result_len = state[c].result_len
          /\ s.file_offset = state[c].file_offset /\ s.sent_len = state[c].sent_len
      BY <2>2 DEF Block
    <2>5. state[c].header_len = 0 /\ Stream(state[c], written[c], acked[c])
      BY <2>2 DEF StreamInv
    <2>6. state'[c] = s /\ OneChanges(c)
      BY <2>1, <2>3 DEF BlockInv, StreamInv, OneChanges
    <2> HIDE DEF s
    <2>7. Stream(s, written[c], acked[c])
      BY <2>4, <2>5 DEF Stream
    <2>8. pcb'[c] # "none"
      BY <2>1, <2>2 DEF BlockInv
    <2> QED
      BY <2>1, <2>4, <2>5, <2>6, <2>7, <2>8, StreamOne
  <1>6. CASE \E n \in 1 .. MaxBody + 1 : Sent(c, n)
    BY <1>6, StreamSent
  <1>7. CASE Poll(c)
    <2>1. state[c].held /\ state[c].longpoll /\ 1 \in Nat \ {0}
      BY <1>7 DEF Poll
    <2>2. state[c].header_len = 0
      BY <2>1 DEF StreamInv
    <2> QED
      BY <1>7, <2>1, <2>2, StreamAnswer DEF Poll
  <1>8. CASE Reset(c) \/ Abort(c)
    BY <1>8, StreamForgets DEF Reset, Abort
  <1>9. CASE Expire(c)
    <2>1. /\ pcb[c] = "lingers" /\ pcb' = [pcb EXCEPT ![c] = "none"]
          /\ UNCHANGED state /\ Forgotten(c)
      BY <1>9 DEF Expire
    <2>2. ~state'[c].held /\ written'[c] = <<>> /\ acked'[c] = 0
      BY <2>1 DEF BlockInv, StreamInv, Forgotten
    <2>3. OneChanges(c)
      BY <2>1 DEF BlockInv, StreamInv, Forgotten, OneChanges
    <2> QED
      BY <2>2, <2>3, StreamOne
  <1> QED
    BY <1>1, <1>2, <1>3, <1>4, <1>5, <1>6, <1>7, <1>8, <1>9 DEF ConnNext

LEMMA StreamStep == ASSUME BlockInv, StreamInv, [Next]_vars PROVE StreamInv'
  <1>1. CASE UNCHANGED <<pcb, state, written, acked>>
    BY <1>1 DEF StreamInv
  <1>2. Finger \/ InCall \/ Turn \/ Tick \/ UNCHANGED vars
           => UNCHANGED <<pcb, state, written, acked>>
    BY DEF Finger, Press, Release, InCall, Start, Enable, Deadline, TestServer, CloseServer,
           Down, Off, Step, Turn, WifiOn, WifiOff, TaskOn, ButtonTask, ButtonOn, AskOn, Tick,
           vars, webVars, connVars
  <1> QED
    BY <1>1, <1>2, ByStep, StreamPage, StreamConnection DEF Connection

(* Only ws_sent is told of an acknowledgement.                               *)
LEMMA OnlySent ==
    ASSUME StreamInv, NEW c \in Conns, [Next]_vars, acked'[c] > acked[c]
    PROVE  \E n \in 1 .. MaxBody + 1 : Sent(c, n)
  <1>1. acked[c] \in Nat /\ ~(acked[c] > acked[c]) /\ ~(0 > acked[c])
    BY DEF StreamInv
  <1>2. Finger \/ InCall \/ Turn \/ Tick \/ UNCHANGED vars
           \/ (\E d \in Conns : PageOn(d) \/ PageOff(d)) => UNCHANGED acked
    BY DEF Finger, Press, Release, InCall, Start, Enable, Deadline, TestServer, CloseServer,
           Down, Off, Step, Turn, WifiOn, WifiOff, TaskOn, ButtonTask, ButtonOn, AskOn, Tick,
           vars, webVars, connVars, PageOn, PageOff
  <1>3. PICK d \in Conns : ConnNext(d)
    BY <1>1, <1>2, ByStep DEF Connection
  <1>4. acked' = acked \/ acked' = [acked EXCEPT ![d] = 0] \/ \E n \in 1 .. MaxBody + 1 : Sent(d, n)
    BY <1>3 DEF ConnNext, Accept, BadRequest, LongPoll, ClientCloses, Request, Poll, Reset, Abort,
                Expire, Answering, Forgotten
  <1>5. PICK n \in 1 .. MaxBody + 1 : Sent(d, n)
    BY <1>1, <1>4 DEF StreamInv
  <1>6. acked' = [acked EXCEPT ![d] = @ + n]
    BY <1>5 DEF Sent
  <1>7. d = c
    BY <1>1, <1>6 DEF StreamInv
  <1> QED
    BY <1>5, <1>7

(* webserver.c:211: the server closes a connection it has answered only when *)
(* header and body have arrived in full - however the client acknowledges    *)
(* them, and whatever is refused - for answers of any length.               *)
THEOREM AnswersArrive == Spec => ClosedWhenArrived
  <1>1. Init => BlockInv /\ StreamInv
    <2>1. Init => StreamInv
      BY DEF Init, WebInit, StreamInv, NoState
    <2> QED
      BY <2>1, BlockInit
  <1>2. ASSUME BlockInv, StreamInv, [Next]_vars, NEW c \in Conns, ClosesAnswered(c)
        PROVE  /\ written[c] = [i \in 1 .. state[c].result_len + 1 |-> i - 1]
               /\ acked'[c] = state[c].result_len + 1
    <2> DEFINE w == written[c]
               m == state[c].result_len
    <2>1. PICK n \in 1 .. MaxBody + 1 : Sent(c, n)
      BY <1>2, OnlySent DEF ClosesAnswered
    <2>2. state[c].held /\ state[c] \in Block /\ Stream(state[c], w, acked[c])
      BY <1>2, <2>1, CallHolds DEF Sent, StreamInv
    <2>3. state[c].file_offset = m /\ m \in Nat /\ state[c].sent_len = acked[c]
      BY <1>2, <2>2 DEF ClosesAnswered, Stream, Block
    <2>4. /\ n \in Nat /\ n > 0 /\ acked[c] \in Nat /\ acked[c] + n <= Len(w)
          /\ acked'[c] = acked[c] + n
      BY <1>2, <2>1, <2>2 DEF Sent, Stream, StreamInv
    <2>5. state[c].header_len = 1 /\ (InFull(w, m) \/ Len(w) = m)
      BY <2>2, <2>3, <2>4 DEF Stream
    <2>6. acked[c] + n >= 1 + m
      <3> DEFINE s == [state[c] EXCEPT !.sent_len = @ + n]
      <3>1. /\ s.file_offset = m /\ s.result_len = m /\ s.header_len = 1
            /\ s.sent_len = acked[c] + n
        BY <2>2, <2>3, <2>5 DEF Block
      <3>2. AllSent(s)
        <4>1. ~(s.file_offset < s.result_len)
          BY <2>3, <3>1
        <4>2. AllSent(s) \/ UNCHANGED pcb
          BY <2>1, <2>2, <4>1 DEF Sent
        <4> QED
          BY <1>2, <4>2 DEF ClosesAnswered
      <3> HIDE DEF s
      <3> QED
        BY <2>3, <2>4, <3>1, <3>2 DEF AllSent
    <2>7. InFull(w, m) /\ w \in Seq(Nat)
      BY <2>2, <2>3, <2>4, <2>5, <2>6 DEF Stream
    <2>8. acked'[c] = m + 1
      <3>1. Len(w) = m + 1
        BY <2>7 DEF InFull
      <3> HIDE DEF w, m
      <3> QED
        BY <2>3, <2>4, <2>6, <3>1
    <2>9. w = [i \in 1 .. m + 1 |-> i - 1]
      <3>1. Len(w) = m + 1 /\ \A i \in 1 .. m + 1 : w[i] = i - 1
        BY <2>7 DEF InFull
      <3> HIDE DEF w, m
      <3>2. w \in [1 .. m + 1 -> Nat]
        BY <2>3, <2>7, <3>1
      <3> QED
        BY <3>1, <3>2
    <2> QED
      BY <2>8, <2>9
  <1>3. BlockInv /\ StreamInv /\ [Next]_vars
           => [\A c \in Conns : ClosesAnswered(c)
                 => /\ written[c] = [i \in 1 .. state[c].result_len + 1 |-> i - 1]
                    /\ acked'[c] = state[c].result_len + 1]_webVars
    BY <1>2
  <1>4. BlockInv /\ StreamInv /\ [Next]_vars => BlockInv' /\ StreamInv'
    BY BlockStep, StreamStep
  <1> QED
    BY <1>1, <1>3, <1>4, PTL DEF Spec, ClosedWhenArrived
-----------------------------------------------------------------------------
(* The types                                                                *)

Units == 0 .. MaxBody

(* No answer is longer than the longest, and what is written or refused is   *)
(* a part of one.                                                           *)
BoundInv ==
    /\ \A c \in Conns : state[c].held => state[c].result_len <= MaxBody
    /\ written \in [Conns -> Seq(Units)] /\ lost \in [Conns -> SUBSET Units]

(* The counters of the loop and the two distances from the clock, which stay *)
(* in the range of its signed and of its unsigned values.                   *)
CountInv ==
    /\ stall \in 0 .. MaxStall /\ asked \in 0 .. AskedMax
    /\ left \in -Half .. Half - 1 /\ held \in 0 .. Clock - 1

LEMMA SignedRange == ASSUME NEW n \in Int PROVE Signed(n) \in -Half .. Half - 1
  <1> DEFINE m == n % Clock
  <1>1. Clock \in Nat /\ Clock > 0 /\ Clock % 2 = 0 /\ Half = Clock \div 2
    BY Numbers, AccessPointAssumption DEF Half
  <1>2. Half \in Nat /\ Clock = 2 * Half
    BY <1>1
  <1>3. m \in 0 .. Clock - 1
    BY <1>1
  <1>4. Signed(n) = IF m < Half THEN m ELSE m - Clock
    BY DEF Signed
  <1> HIDE DEF m
  <1> QED
    BY <1>1, <1>2, <1>3, <1>4

LEMMA CountStep == ASSUME CountInv, [Next]_vars PROVE CountInv'
  <1>1. CASE UNCHANGED <<stall, asked, left, held>>
    BY <1>1 DEF CountInv
  <1>2. Finger \/ UNCHANGED vars \/ (\E c \in Conns : Connection(c))
           => UNCHANGED <<stall, asked, left, held>>
    BY DEF Finger, Press, Release, vars, wifiVars, Connection
  <1>3. /\ 0 \in 0 .. MaxStall /\ 0 \in 0 .. AskedMax /\ 0 \in 0 .. Clock - 1
        /\ 0 \in -Half .. Half - 1 /\ Minutes15 \in -Half .. Half - 1
    <2>1. Clock \in Nat /\ Clock > 0
      BY Numbers DEF Half
    <2> QED
      BY <2>1, Numbers
  <1>4. CASE InCall
    BY <1>3, <1>4 DEF InCall, Start, Enable, Deadline, TestServer, CloseServer, Down, Off, Step,
                      CountInv
  <1>5. CASE Turn
    BY <1>3, <1>5 DEF Turn, WifiOn, WifiOff, TaskOn, ButtonTask, ButtonOn, AskOn, CountInv
  <1>6. ASSUME NEW c \in Conns, PageOn(c) \/ PageOff(c) PROVE CountInv'
    BY <1>3, <1>6 DEF PageOn, PageOff, CountInv
  <1>7. CASE Tick
    <2>1. stall' \in 0 .. MaxStall /\ asked' \in 0 .. AskedMax
      <3>1. stall \in Nat /\ asked \in Nat /\ asked <= AskedMax
        BY Numbers DEF CountInv
      <3> QED
        BY <1>7, <3>1, Numbers DEF Tick
    <2>2. left' \in -Half .. Half - 1
      <3>1. left - 1 \in Int
        BY Numbers DEF CountInv
      <3> QED
        BY <1>3, <1>7, <3>1, SignedRange DEF Tick
    <2>3. held' \in 0 .. Clock - 1
      <3>1. Clock \in Nat /\ Clock > 0
        BY Numbers DEF Half
      <3>2. held \in Nat
        BY <3>1 DEF CountInv
      <3>3. (held + 1) % Clock \in 0 .. Clock - 1
        BY <3>1, <3>2
      <3> QED
        BY <1>3, <1>7, <3>3 DEF Tick
    <2> QED
      BY <2>1, <2>2, <2>3 DEF CountInv
  <1> QED
    BY <1>1, <1>2, <1>4, <1>5, <1>6, <1>7, ByStep

LEMMA BoundOne ==
    ASSUME BlockInv, BoundInv, NEW c \in Conns, NEW s \in Block \cup {NoState},
           s.held => s.result_len <= MaxBody,
           NEW w \in Seq(Units), NEW gone \in SUBSET Units,
           state' = [state EXCEPT ![c] = s],
           written' = [written EXCEPT ![c] = w], lost' = [lost EXCEPT ![c] = gone]
    PROVE  BoundInv'
  <1>1. \A d \in Conns : state'[d] = IF d = c THEN s ELSE state[d]
    BY DEF BlockInv
  <1> QED
    BY <1>1 DEF BoundInv

LEMMA BoundForgets ==
    ASSUME BlockInv, BoundInv, NEW c \in Conns,
           state' = [state EXCEPT ![c] = NoState], Forgotten(c)
    PROVE  BoundInv'
  <1>1. <<>> \in Seq(Units) /\ {} \in SUBSET Units /\ ~NoState.held
    BY DEF NoState
  <1> QED
    BY <1>1, BoundOne DEF Forgotten

LEMMA BoundAnswer ==
    ASSUME BlockInv, StreamInv, BoundInv, NEW c \in Conns, state[c].held,
           state[c].header_len = 0, NEW length \in 1 .. MaxBody,
           NEW h \in BOOLEAN, NEW k \in BOOLEAN, Answering(c, length, h, k)
    PROVE  BoundInv'
  <1> DEFINE s == [state[c] EXCEPT !.handled = TRUE, !.longpoll = FALSE,
                                   !.header_len = 1, !.result_len = length]
             u == IF h THEN <<Header>> ELSE <<>>
             v == IF k THEN <<NextChunk(s)>> ELSE <<>>
             gone == (IF h THEN {} ELSE {Header}) \cup (IF k THEN {} ELSE {NextChunk(s)})
  <1>1. state[c] \in Block /\ length \in Nat /\ length <= MaxBody
    BY WebServerAssumption DEF BlockInv, NoState
  <1>2. s \in Block /\ s.result_len = length /\ s.file_offset = state[c].file_offset
    BY <1>1 DEF Block
  <1>3. NextChunk(s) = 1 /\ 1 \in Units /\ Header \in Units
    BY <1>2, WebServerAssumption DEF NextChunk, StreamInv, Stream, Units, Header
  <1>4. Chunked(s, k) \in Block /\ Chunked(s, k).result_len = length
    BY <1>2, ChunkedBlock DEF Chunked, Block
  <1>5. gone \in SUBSET Units
    BY <1>3
  <1>6. written[c] \o u \o v \in Seq(Units)
    <2>1. written[c] \in Seq(Units)
      BY DEF BoundInv
    <2>2. u \in Seq(Units) /\ v \in Seq(Units)
      BY <1>3
    <2> HIDE DEF u, v
    <2> QED
      BY <2>1, <2>2
  <1>7. /\ state' = [state EXCEPT ![c] = Chunked(s, k)]
        /\ written' = [written EXCEPT ![c] = written[c] \o u \o v]
        /\ lost' = [lost EXCEPT ![c] = gone]
    BY DEF Answering, BoundInv
  <1> HIDE DEF s, u, v, gone
  <1> QED
    BY <1>1, <1>4, <1>5, <1>6, <1>7, BoundOne

LEMMA BoundSent ==
    ASSUME BlockInv, StreamInv, BoundInv, NEW c \in Conns, NEW n \in 1 .. MaxBody + 1, Sent(c, n)
    PROVE  BoundInv'
  <1> DEFINE s == [state[c] EXCEPT !.sent_len = @ + n]
             w == Append(written[c], NextChunk(s))
  <1>1. state[c].held /\ state[c] \in Block
    BY CallHolds DEF Sent
  <1>2. /\ s \in Block /\ s.result_len = state[c].result_len
        /\ s.file_offset = state[c].file_offset
    <2>1. state[c].sent_len \in Nat
      BY <1>1 DEF Block
    <2>2. state[c].sent_len + n \in Nat
      BY <2>1
    <2> QED
      BY <1>1, <2>2 DEF Block
  <1>3. s.result_len <= MaxBody /\ written[c] \in Seq(Units) /\ lost[c] \in SUBSET Units
    BY <1>1, <1>2 DEF BoundInv
  <1>4. CASE UNCHANGED <<written, lost>> /\ Closing(c)
    <2>1. state' = [state EXCEPT ![c] = NoState]
      BY <1>4 DEF Closing
    <2> QED
      BY <1>4, <2>1 DEF BoundInv, BlockInv, NoState
  <1>5. CASE UNCHANGED <<written, lost>> /\ state' = [state EXCEPT ![c] = s]
    <2>1. \A d \in Conns : state'[d] = IF d = c THEN s ELSE state[d]
      BY <1>5 DEF BlockInv
    <2> HIDE DEF s
    <2> QED
      BY <1>3, <1>5, <2>1 DEF BoundInv
  <1>6. CASE /\ s.file_offset < s.result_len /\ state' = [state EXCEPT ![c] = Chunked(s, TRUE)]
             /\ written' = [written EXCEPT ![c] = w] /\ UNCHANGED lost
    <2>1. Chunked(s, TRUE) \in Block /\ Chunked(s, TRUE).result_len = s.result_len
      BY <1>2, ChunkedBlock DEF Chunked, Block
    <2>2. NextChunk(s) \in Units
      <3>1. s.file_offset \in Nat /\ s.result_len \in Nat
        BY <1>2 DEF Block
      <3> HIDE DEF s
      <3> QED
        BY <1>3, <1>6, <3>1, WebServerAssumption DEF NextChunk, Units
    <2>3. w \in Seq(Units)
      BY <1>3, <2>2
    <2>4. lost' = [lost EXCEPT ![c] = lost[c]]
      BY <1>6 DEF BoundInv
    <2> HIDE DEF s, w
    <2> QED
      BY <1>3, <1>6, <2>1, <2>3, <2>4, BoundOne
  <1> QED
    BY <1>1, <1>4, <1>5, <1>6 DEF Sent

LEMMA BoundConnection ==
    ASSUME BlockInv, StreamInv, BoundInv, NEW c \in Conns, ConnNext(c) PROVE BoundInv'
  <1>1. CASE Accept(c)
    <2>1. state' = [state EXCEPT ![c] = NewState] /\ UNCHANGED <<written, lost>>
      BY <1>1 DEF Accept
    <2>2. \A d \in Conns : state'[d] = IF d = c THEN NewState ELSE state[d]
      BY <2>1 DEF BlockInv
    <2>3. NewState.result_len <= MaxBody
      BY WebServerAssumption DEF NewState
    <2> QED
      BY <2>1, <2>2, <2>3 DEF BoundInv
  <1>2. CASE BadRequest(c)
    BY <1>2, BoundForgets DEF BadRequest, Closing
  <1>3. CASE ClientCloses(c)
    <2>1. state[c].held
      BY <1>3, CallHolds DEF ClientCloses
    <2> QED
      BY <1>3, <2>1, BoundForgets DEF ClientCloses, Closing
  <1>4. CASE \E path \in DOMAIN Bodies : Request(c, path)
    <2>1. PICK path \in DOMAIN Bodies : Request(c, path)
      BY <1>4
    <2>2. state[c].held /\ ~state[c].handled /\ Bodies[path] \in 1 .. MaxBody
      BY <2>1, CallHolds, WebServerAssumption DEF Request, Unhandled
    <2>3. state[c].header_len = 0
      BY <2>2 DEF StreamInv
    <2> QED
      BY <2>1, <2>2, <2>3, BoundAnswer DEF Request
  <1>5. CASE LongPoll(c)
    <2> DEFINE s == [state[c] EXCEPT !.handled = TRUE, !.longpoll = TRUE]
    <2>1. Unhandled(c) /\ UNCHANGED <<written, lost>>
      BY <1>5 DEF LongPoll
    <2>2. state[c].held /\ state[c] \in Block
      BY <2>1, CallHolds DEF Unhandled
    <2>3. state' = [state EXCEPT ![c] = s] /\ s.result_len = state[c].result_len
      BY <1>5, <2>2 DEF LongPoll, BlockInv, Block
    <2>4. \A d \in Conns : state'[d] = IF d = c THEN s ELSE state[d]
      BY <2>3 DEF BlockInv
    <2> HIDE DEF s
    <2> QED
      BY <2>1, <2>2, <2>3, <2>4 DEF BoundInv
  <1>6. CASE \E n \in 1 .. MaxBody + 1 : Sent(c, n)
    BY <1>6, BoundSent
  <1>7. CASE Poll(c)
    <2>1. state[c].held /\ state[c].longpoll /\ 1 \in 1 .. MaxBody
      BY <1>7, WebServerAssumption DEF Poll
    <2>2. state[c].header_len = 0
      BY <2>1 DEF StreamInv
    <2> QED
      BY <1>7, <2>1, <2>2, BoundAnswer DEF Poll
  <1>8. CASE Reset(c) \/ Abort(c)
    BY <1>8, BoundForgets DEF Reset, Abort
  <1>9. CASE Expire(c)
    BY <1>9 DEF Expire, Forgotten, BoundInv
  <1> QED
    BY <1>1, <1>2, <1>3, <1>4, <1>5, <1>6, <1>7, <1>8, <1>9 DEF ConnNext

LEMMA BoundPage ==
    ASSUME BlockInv, BoundInv, NEW c \in Conns, PageOn(c) \/ PageOff(c) PROVE BoundInv'
  <1> DEFINE s == [state[c] EXCEPT !.handled = TRUE, !.header_len = 1, !.result_len = 1]
  <1>1. /\ Unhandled(c) /\ state' = [state EXCEPT ![c] = Chunked(s, TRUE)]
        /\ written' = [written EXCEPT ![c] = <<Header, 1>>] /\ UNCHANGED lost
    BY DEF PageOn, PageOff
  <1>2. state[c] \in Block
    BY <1>1, CallHolds DEF Unhandled
  <1>3. s \in Block /\ s.result_len = 1
    BY <1>2 DEF Block
  <1>4. Chunked(s, TRUE) \in Block /\ Chunked(s, TRUE).result_len = 1
    BY <1>3, ChunkedBlock DEF Chunked, Block
  <1>5. 1 \in Units /\ Header \in Units /\ 1 <= MaxBody
    BY WebServerAssumption DEF Units, Header
  <1>6. <<Header, 1>> \in Seq(Units)
    BY <1>5
  <1>7. lost' = [lost EXCEPT ![c] = lost[c]] /\ lost[c] \in SUBSET Units
    BY <1>1 DEF BoundInv
  <1> HIDE DEF s
  <1> QED
    BY <1>1, <1>4, <1>5, <1>6, <1>7, BoundOne

LEMMA BoundStep == ASSUME BlockInv, StreamInv, BoundInv, [Next]_vars PROVE BoundInv'
  <1>1. CASE UNCHANGED <<state, written, lost>>
    BY <1>1 DEF BoundInv
  <1>2. Finger \/ InCall \/ Turn \/ Tick \/ UNCHANGED vars => UNCHANGED <<state, written, lost>>
    BY DEF Finger, Press, Release, InCall, Start, Enable, Deadline, TestServer, CloseServer,
           Down, Off, Step, Turn, WifiOn, WifiOff, TaskOn, ButtonTask, ButtonOn, AskOn, Tick,
           vars, webVars, connVars
  <1> QED
    BY <1>1, <1>2, ByStep, BoundPage, BoundConnection DEF Connection

(* No more is acknowledged than was written, also when the block is gone.    *)
AckInv == \A c \in Conns : acked[c] <= Len(written[c])

LEMMA AckStep ==
    ASSUME BlockInv, StreamInv, BlockInv', StreamInv', AckInv, [Next]_vars PROVE AckInv'
  <1> SUFFICES ASSUME NEW c \in Conns PROVE acked'[c] <= Len(written'[c])
    BY DEF AckInv
  <1>1. CASE pcb'[c] = "open"
    BY <1>1 DEF BlockInv, StreamInv, Stream
  <1>2. CASE UNCHANGED <<acked, written>>
    BY <1>2 DEF AckInv
  <1>3. Finger \/ InCall \/ Turn \/ Tick \/ UNCHANGED vars => UNCHANGED <<acked, written>>
    BY DEF Finger, Press, Release, InCall, Start, Enable, Deadline, TestServer, CloseServer,
           Down, Off, Step, Turn, WifiOn, WifiOff, TaskOn, ButtonTask, ButtonOn, AskOn, Tick,
           vars, webVars, connVars
  <1>4. ASSUME pcb'[c] # "open", NEW d \in Conns, ConnNext(d) \/ PageOn(d) \/ PageOff(d)
        PROVE  acked'[c] <= Len(written'[c])
    <2>1. CASE c # d
      <3>1. acked'[c] = acked[c] /\ written'[c] = written[c]
        BY <1>4, <2>1 DEF ConnNext, PageOn, PageOff, Accept, BadRequest, LongPoll, ClientCloses,
               Request, Sent, Poll, Reset, Abort, Expire, Answering, Closing, Forgotten, StreamInv
      <3> QED
        BY <3>1 DEF AckInv
    <2>2. CASE c = d /\ Forgotten(d)
      <3>1. acked'[c] = 0 /\ written'[c] = <<>>
        BY <2>2 DEF Forgotten, StreamInv
      <3> QED
        BY <3>1
    <2>3. CASE c = d /\ \E n \in 1 .. MaxBody + 1 : Sent(d, n)
      <3>1. PICK n \in 1 .. MaxBody + 1 : Sent(c, n)
        BY <2>3
      <3>2. pcb[c] = "open"
        BY <3>1, CallHolds DEF Sent, BlockInv
      <3>3. UNCHANGED written /\ acked' = [acked EXCEPT ![c] = @ + n]
        BY <1>4, <3>1, <3>2 DEF Sent
      <3>4. n <= Len(written[c]) - acked[c] /\ acked[c] \in Nat /\ Len(written[c]) \in Nat
        BY <3>1 DEF Sent, StreamInv
      <3> QED
        BY <3>3, <3>4 DEF StreamInv
    <2>4. CASE c = d /\ (LongPoll(d) \/ Accept(d))
      BY <2>4 DEF LongPoll, Accept, AckInv
    <2>5. CASE c = d /\ (PageOn(d) \/ PageOff(d) \/ (\E path \in DOMAIN Bodies : Request(d, path)))
      <3>1. Unhandled(c) /\ UNCHANGED pcb
        BY <2>5 DEF PageOn, PageOff, Request, Answering
      <3> QED
        BY <1>4, <3>1 DEF Unhandled, BlockInv
    <2>6. CASE c = d /\ Poll(d)
      BY <1>4, <2>6 DEF Poll, Answering, BlockInv
    <2>7. CASE c = d /\ ClientCloses(d)
      BY <2>2, <2>7, CallHolds DEF ClientCloses
    <2> QED
      BY <1>4, <2>1, <2>2, <2>3, <2>4, <2>5, <2>6, <2>7
         DEF ConnNext, BadRequest, Reset, Abort, Expire
  <1> QED
    BY <1>1, <1>2, <1>3, <1>4, ByStep DEF Connection

(* A block that is held and its stream have the types of WebServer.          *)
LEMMA WebTypes == ASSUME BlockInv, FlagInv, StreamInv, BoundInv, AckInv PROVE WebTypeOK
  <1>1. ASSUME NEW c \in Conns, state[c].held
        PROVE  /\ state[c].handled \in BOOLEAN /\ state[c].longpoll \in BOOLEAN
               /\ state[c].header_len \in 0 .. 1 /\ state[c].result_len \in 0 .. MaxBody
               /\ state[c].file_offset \in 0 .. state[c].result_len
               /\ state[c].sent_len \in 0 .. 1 + MaxBody
    <2> DEFINE s == state[c]
    <2>1. s \in Block /\ Stream(s, written[c], acked[c]) /\ s.result_len <= MaxBody
      BY <1>1 DEF BlockInv, StreamInv, BoundInv, NoState
    <2>2. /\ s.header_len \in Nat /\ s.result_len \in Nat /\ s.file_offset \in Nat
          /\ s.sent_len \in Nat /\ s.handled \in BOOLEAN /\ s.longpoll \in BOOLEAN
      BY <2>1 DEF Block
    <2>3. s.header_len \in 0 .. 1 /\ s.file_offset <= s.result_len
      BY <2>1, <2>2 DEF Stream
    <2>4. s.sent_len <= s.file_offset + 1
      <3>1. s.sent_len = acked[c] /\ acked[c] <= Len(written[c]) /\ written[c] \in Seq(Nat)
        BY <2>1 DEF Stream
      <3>2. Len(written[c]) \in Nat /\ Len(written[c]) <= s.file_offset + 1
        BY <2>1, <2>2, <3>1 DEF Stream, InFull
      <3> HIDE DEF s
      <3> QED
        BY <2>2, <3>1, <3>2
    <2> HIDE DEF s
    <2>5. MaxBody \in Nat
      BY WebServerAssumption
    <2>6. /\ s.handled \in BOOLEAN /\ s.longpoll \in BOOLEAN
          /\ s.header_len \in 0 .. 1 /\ s.result_len \in 0 .. MaxBody
          /\ s.file_offset \in 0 .. s.result_len /\ s.sent_len \in 0 .. 1 + MaxBody
      BY <2>1, <2>2, <2>3, <2>4, <2>5
    <2> QED
      BY <2>6 DEF s
  <1>2. leaked \in 0 .. Heap
    BY Counted DEF BlockInv
  <1>3. ASSUME NEW c \in Conns
        PROVE  written[c] \in Seq(0 .. MaxBody) /\ acked[c] \in 0 .. Len(written[c])
    <2>1. written[c] \in Seq(0 .. MaxBody)
      BY DEF BoundInv, Units
    <2>2. acked[c] \in Nat /\ Len(written[c]) \in Nat /\ acked[c] <= Len(written[c])
      BY DEF AckInv, StreamInv
    <2> QED
      BY <2>1, <2>2
  <1>4. pcb \in [Conns -> {"none", "open", "lingers"}] /\ registered \in [Conns -> SUBSET Callbacks]
        /\ fault \in BOOLEAN /\ ap \in BOOLEAN /\ listening \in BOOLEAN
        /\ lost \in [Conns -> SUBSET (0 .. MaxBody)]
    BY DEF BlockInv, FlagInv, BoundInv, Units
  <1> QED
    BY <1>1, <1>2, <1>3, <1>4 DEF WebTypeOK

(* Every variable of the connections and of the access point keeps its type: *)
(* no answer is longer than the longest, no more of it is counted as sent    *)
(* than there is, and the distances from the clock stay in its range.        *)
THEOREM TypeCorrect == Spec => []TypeOK
  <1> DEFINE TInv == /\ BlockInv /\ FlagInv /\ ButtonInv /\ StreamInv
                     /\ CountInv /\ BoundInv /\ AckInv
  <1>1. Init => TInv
    <2> SUFFICES ASSUME Init PROVE TInv
      OBVIOUS
    <2>1. FlagInv
      BY ThreeCounts DEF Init, WebInit, FlagInv, Agree
    <2>2. ButtonInv /\ CountInv
      <3>1. /\ 0 \in 0 .. Hold /\ 0 \in 0 .. MaxStall /\ 0 \in 0 .. AskedMax
            /\ 0 \in -Half .. Half - 1 /\ 0 \in 0 .. Clock - 1
        BY Numbers, AccessPointAssumption
      <3> QED
        BY <3>1 DEF Init, ButtonInv, CountInv
    <2>3. StreamInv
      BY DEF Init, WebInit, StreamInv, NoState
    <2>4. BoundInv /\ AckInv
      BY DEF Init, WebInit, BoundInv, AckInv, NoState
    <2> QED
      BY <2>1, <2>2, <2>3, <2>4, BlockInit
  <1>2. TInv /\ [Next]_vars => TInv'
    BY BlockStep, FlagStep, ButtonStep, StreamStep, CountStep, BoundStep, AckStep
  <1>3. TInv => TypeOK
    BY WebTypes, ThreeCounts DEF FlagInv, ButtonInv, CountInv, TypeOK
  <1> HIDE DEF TInv
  <1> QED
    BY <1>1, <1>2, <1>3, PTL DEF Spec
=============================================================================
