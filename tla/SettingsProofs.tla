--------------------------- MODULE SettingsProofs ---------------------------
(***************************************************************************)
(* Theorems about Settings, for any requests, texts, PIN and number of       *)
(* restarts: its types, Kept, SimSafe, FedInTime and SavedAsAsked.            *)
(***************************************************************************)
EXTENDS Settings, FiniteSetTheorems, SequenceTheorems, TLAPS

Config == [magic : BOOLEAN, ssid : Text, pass : Text, sim_pin : Text, close_time : Nat,
           duration_shutter : Nat, duration_overhead : Nat]

After == {"return", "reset", "cfun"}

(* A handler's frame, by where it is                                        *)
Setting == [at : {"set"}, field : TextFields, value : {t \in Text : Whole(t)},
            next : {"reset", "cfun"}]
Saving == [at : {"save", "program"}, next : After]
Ending == [at : {"reset", "cfun"}]
Frame == Setting \cup Saving \cup Ending

Settled ==
    /\ cfg \in Config /\ flash \in Config /\ ConfigOK(cfg) /\ ConfigOK(flash)
    /\ IF pc = "init" THEN stack = <<>> ELSE cfg.magic

Stacked == stack \in Seq(Frame) /\ Len(stack) <= 2

Rest ==
    /\ pc \in {"init", "at", "echo", "cpin", "loop"} /\ step2 \in 0 .. 5
    /\ initialized \in BOOLEAN /\ fed \in Nat
    /\ toPico \in Seq({"pin", "ready", "puk", "incorrect", "error"})
    /\ sim \in {"pin", "ready", "puk"} /\ attempts \in 0 .. 3
    /\ announced \in BOOLEAN /\ setUp \subseteq 1 .. 5
    /\ blame \in BOOLEAN /\ missed \in BOOLEAN /\ restarts \in 0 .. MaxRestarts
    /\ attempts = 0 => sim = "puk"

Shape == Settled /\ Stacked /\ Rest

SetsPin(i) == stack[i].at = "set" /\ stack[i].field = "sim_pin"

(* Unless somebody is to blame, a PIN that is read is that of the SIM, but    *)
(* while the top of the stack is setting it.                                *)
PinInv ==
    ~blame =>
        /\ sim # "puk"
        /\ flash = Blank \/ flash.sim_pin = TruePin
        /\ \A i \in 1 .. Len(stack) - 1 : ~SetsPin(i)
        /\ pc # "init" /\ Copying("sim_pin") => cfg.sim_pin = Mixed /\ Top.value = TruePin
        /\ pc # "init" /\ ~Copying("sim_pin") => cfg.sim_pin = TruePin

(* The waits of modem_init that may be over without a feeding                *)
Base == CASE pc = "echo" -> 1 [] pc = "cpin" -> 2 [] OTHER -> 0

FedInv ==
    /\ ~initialized => step2 = 0
    /\ step2 = 0 => fed <= Base
    /\ step2 \in 1 .. 3 => fed <= Base + step2
    /\ step2 = 4 => fed = 0
    /\ step2 = 5 => fed <= 1

Inv == Shape /\ Kept /\ PinInv /\ FedInv

-----------------------------------------------------------------------------
(* The request of the page *)

LEMMA KnownTexts ==
    /\ TruePin \in Known
    /\ \A f \in TextFields : Defaults[f] \in Known /\ \A text \in Texts[f] : text \in Known
    /\ \A q \in Requests : q.ssid \in Known /\ q.password \in Known /\ q.simpin \in Known
  <1>1. \A q \in Requests : q.ssid \in Asked /\ q.password \in Asked /\ q.simpin \in Asked
    BY DEF Asked
  <1>2. \A f \in TextFields : \A text \in Texts[f] : text \in Commanded
    BY DEF Commanded
  <1> QED
    BY <1>1, <1>2 DEF Known

LEMMA KnownWhole == \A t \in Known : t \in Text /\ Whole(t)
  <1> SUFFICES ASSUME NEW t \in Known PROVE t \in Text /\ Whole(t)
    OBVIOUS
  <1>1. t \in Text
    BY TextsAssumption
  <1>2. t[2] \in 0 .. t[2]
    BY <1>1 DEF Text
  <1> QED
    BY <1>1, <1>2 DEF Whole

LEMMA DigitsType == ASSUME NEW n \in Nat PROVE Digits(n) \in 1 .. 6
  <1> DEFINE D == {d \in 1 .. 5 : n >= PowersOfTen[d]}
  <1>1. IsFiniteSet(1 .. 5) /\ Cardinality(1 .. 5) = 5
    <2>1. 1 \in Int /\ 5 \in Int
      OBVIOUS
    <2>2. IsFiniteSet(1 .. 5) /\ Cardinality(1 .. 5) = IF 1 > 5 THEN 0 ELSE 5 - 1 + 1
      BY <2>1, FS_Interval, Zenon
    <2> QED
      BY <2>2
  <1>2. D \subseteq 1 .. 5
    OBVIOUS
  <1> HIDE DEF D
  <1>3. Cardinality(D) \in Nat /\ Cardinality(D) <= 5
    BY <1>1, <1>2, FS_Subset, FS_CardinalityType
  <1>4. Digits(n) = 1 + Cardinality(D)
    BY DEF Digits, D
  <1> QED
    BY <1>3, <1>4

LEMMA CutText ==
    ASSUME NEW t \in Text, NEW n \in Nat
    PROVE  /\ Cut(t, n) \in Text /\ Cut(t, n)[1] = t[1] /\ Cut(t, n)[2] \in 0 .. t[2]
           /\ Length(t) <= n => Cut(t, n) = t
  BY DEF Cut, Least, Length, Text

LEMMA RequestType ==
    ASSUME NEW q \in Requests
    PROVE  /\ q.ssid \in Text /\ q.password \in Text /\ q.simpin \in Text
           /\ q.door \in Nat /\ q.overhead \in Nat /\ q.close_enabled \in {0, 1}
           /\ q.close_hour \in Nat /\ q.close_min \in Nat
  BY KnownTexts, KnownWhole, SettingsAssumption

LEMMA OrderIs ==
    /\ Order[1] = "ssid" /\ Order[2] = "password" /\ Order[3] = "simpin" /\ Order[4] = "door"
    /\ Order[5] = "overhead" /\ Order[6] = "close_enabled" /\ Order[7] = "close_hour"
    /\ Order[8] = "close_min"
  BY DEF Order

LEMMA ValueLengthType ==
    ASSUME NEW q \in Requests, NEW k \in 1 .. 8
    PROVE  ValueLength(q, k) \in Nat
  <1>1. \A t \in Text : Length(t) \in Nat
    BY DEF Text, Length
  <1>2. \A n \in Nat : Digits(n) \in Nat
    BY DigitsType
  <1>3. q.close_enabled \in Nat
    BY RequestType
  <1>4. k \in {1, 2, 3, 4, 5, 6, 7, 8}
    OBVIOUS
  <1> QED
    BY <1>1, <1>2, <1>3, <1>4, RequestType, OrderIs DEF ValueLength

(* Every parameter lies before the end of the last.                          *)
LEMMA ParametersInOrder ==
    ASSUME NEW q \in Requests, NEW k \in 1 .. 8
    PROVE  /\ Start(q, k) \in Nat
           /\ Start(q, k) + ValueLength(q, k) <= Start(q, 8) + ValueLength(q, 8)
  <1> DEFINE L(i) == ValueLength(q, i)
  <1>1. /\ L(1) \in Nat /\ L(2) \in Nat /\ L(3) \in Nat /\ L(4) \in Nat
        /\ L(5) \in Nat /\ L(6) \in Nat /\ L(7) \in Nat /\ L(8) \in Nat
    BY ValueLengthType
  <1>2. k \in {1, 2, 3, 4, 5, 6, 7, 8}
    OBVIOUS
  <1> HIDE DEF L
  <1> DEFINE before(i) == IF i < k THEN L(i) ELSE 0
  <1>3. Start(q, k) = KeysUpTo[k] + (before(1) + before(2) + before(3) + before(4) + before(5)
                                     + before(6) + before(7))
    BY DEF Start, ValuesBefore, L
  <1>4. Start(q, 8) = 94 + (L(1) + L(2) + L(3) + L(4) + L(5) + L(6) + L(7))
    BY DEF Start, ValuesBefore, L, KeysUpTo
  <1>5. Start(q, k) \in Nat /\ Start(q, k) + L(k) <= Start(q, 8) + L(8)
    BY <1>1, <1>2, <1>3, <1>4 DEF KeysUpTo
  <1> QED
    BY <1>5 DEF L

LEMMA RoomType ==
    ASSUME NEW q \in Requests, NEW k \in 1 .. 8
    PROVE  Room(q, k) \in Nat
  BY ParametersInOrder DEF Room

LEMMA TextParamType ==
    ASSUME NEW q \in Requests, NEW k \in 1 .. 3, NEW size \in Nat \ {0}
    PROVE  LET t == TextParam(q, k, size)
           IN  /\ t \in Text /\ t[1] = q[Order[k]][1] /\ t[2] \in 0 .. q[Order[k]][2]
               /\ Length(q[Order[k]]) <= Room(q, k) /\ Length(q[Order[k]]) < size
                    => t = q[Order[k]]
  <1>1. q[Order[k]] \in Text
    BY RequestType, OrderIs
  <1>2. Room(q, k) \in Nat
    BY RoomType
  <1>3. Least(Room(q, k), size - 1) \in Nat
    BY <1>2 DEF Least
  <1>4. Length(q[Order[k]]) \in Nat
    BY <1>1 DEF Text, Length
  <1>5. Length(q[Order[k]]) <= Room(q, k) /\ Length(q[Order[k]]) < size
           => Length(q[Order[k]]) <= Least(Room(q, k), size - 1)
    BY <1>2, <1>4 DEF Least
  <1> QED
    BY <1>1, <1>3, <1>5, CutText DEF TextParam

LEMMA NumberParamType ==
    ASSUME NEW q \in Requests, NEW k \in 4 .. 8
    PROVE  /\ NumberParam(q, k) \in Int
           /\ Digits(q[Order[k]]) <= Room(q, k) => NumberParam(q, k) = q[Order[k]]
  <1> DEFINE n == q[Order[k]]
             room == Room(q, k)
  <1>1. n \in Nat
    <2>1. k \in {4, 5, 6, 7, 8} /\ q.close_enabled \in Nat
      BY RequestType
    <2> QED
      BY <2>1, RequestType, OrderIs
  <1>2. Digits(n) \in 1 .. 6
    BY <1>1, DigitsType
  <1>3. room \in Nat
    BY RoomType
  <1>4. NumberParam(q, k) = IF room >= Digits(n) THEN n
                            ELSE IF room = 0 THEN 0 ELSE n \div PowersOfTen[Digits(n) - room]
    BY DEF NumberParam
  <1> HIDE DEF n, room
  <1>5. ~(room >= Digits(n)) /\ room # 0 => n \div PowersOfTen[Digits(n) - room] \in Int
    <2> SUFFICES ASSUME ~(room >= Digits(n)), room # 0
                 PROVE  n \div PowersOfTen[Digits(n) - room] \in Int
      OBVIOUS
    <2>1. Digits(n) - room \in {1, 2, 3, 4, 5}
      BY <1>2, <1>3
    <2>2. PowersOfTen[Digits(n) - room] \in Nat \ {0}
      BY <2>1 DEF PowersOfTen
    <2> QED
      BY <1>1, <2>2
  <1> QED
    BY <1>1, <1>2, <1>3, <1>4, <1>5 DEF n, room

LEMMA ParsedFields ==
    ASSUME NEW q \in Requests
    PROVE  /\ Parsed[q].ssid = TextParam(q, 1, 33) /\ Parsed[q].pass = TextParam(q, 2, 64)
           /\ Parsed[q].sim_pin = TextParam(q, 3, 7)
           /\ Parsed[q].door = NumberParam(q, 4) % 65536
           /\ Parsed[q].overhead = NumberParam(q, 5) % 65536
           /\ Parsed[q].close_enabled = NumberParam(q, 6) % 256
           /\ Parsed[q].close_hour = NumberParam(q, 7) % 256
           /\ Parsed[q].close_min = NumberParam(q, 8) % 256
  <1>1. Parsed[q] = Received(q)
    BY DEF Parsed
  <1> HIDE DEF Parsed
  <1> QED
    BY <1>1 DEF Received

LEMMA ReceivedType ==
    ASSUME NEW q \in Requests
    PROVE  /\ Parsed[q].ssid \in Text /\ Whole(Parsed[q].ssid)
           /\ Parsed[q].pass \in Text /\ Whole(Parsed[q].pass)
           /\ Parsed[q].sim_pin \in Text /\ Whole(Parsed[q].sim_pin)
           /\ Parsed[q].door \in Nat /\ Parsed[q].overhead \in Nat
           /\ Parsed[q].close_enabled \in Nat
           /\ Parsed[q].close_hour \in Nat /\ Parsed[q].close_min \in Nat
  <1>1. /\ TextParam(q, 1, 33) \in Text /\ Whole(TextParam(q, 1, 33))
        /\ TextParam(q, 2, 64) \in Text /\ Whole(TextParam(q, 2, 64))
        /\ TextParam(q, 3, 7) \in Text /\ Whole(TextParam(q, 3, 7))
    <2>1. q.ssid \in Known /\ q.password \in Known /\ q.simpin \in Known
      BY KnownTexts
    <2>2. ASSUME NEW k \in 1 .. 3, NEW size \in Nat \ {0}, q[Order[k]] \in Known
          PROVE  TextParam(q, k, size) \in Text /\ Whole(TextParam(q, k, size))
      BY <2>2, TextParamType DEF Whole
    <2>3. TextParam(q, 1, 33) \in Text /\ Whole(TextParam(q, 1, 33))
      BY <2>1, <2>2, OrderIs
    <2>4. TextParam(q, 2, 64) \in Text /\ Whole(TextParam(q, 2, 64))
      BY <2>1, <2>2, OrderIs
    <2>5. TextParam(q, 3, 7) \in Text /\ Whole(TextParam(q, 3, 7))
      BY <2>1, <2>2, OrderIs
    <2> QED
      BY <2>3, <2>4, <2>5
  <1>2. \A i \in Int : i % 65536 \in Nat /\ i % 256 \in Nat
    OBVIOUS
  <1>3. \A k \in 4 .. 8 : NumberParam(q, k) \in Int
    BY NumberParamType
  <1> QED
    BY <1>1, <1>2, <1>3, ParsedFields

LEMMA StoredType ==
    ASSUME NEW q \in Requests, Accepted(Parsed[q])
    PROVE  /\ Stored(Parsed[q]) \in Config /\ ConfigOK(Stored(Parsed[q]))
           /\ Stored(Parsed[q]).sim_pin = Parsed[q].sim_pin
  <1> DEFINE r == Parsed[q]
             s == Stored(r)
  <1>1. /\ s.magic = TRUE /\ s.ssid = r.ssid /\ s.pass = r.pass /\ s.sim_pin = r.sim_pin
        /\ s.close_time = IF r.close_enabled # 0 THEN r.close_hour * 60 + r.close_min ELSE DISABLED
        /\ s.duration_shutter = r.door /\ s.duration_overhead = r.overhead
    BY DEF Stored
  <1>2. /\ r.door \in 1 .. 300 /\ r.overhead \in 1 .. 300
        /\ r.close_hour <= 23 /\ r.close_min <= 59
    BY DEF Accepted
  <1>3. /\ r.ssid \in Text /\ Whole(r.ssid) /\ r.pass \in Text /\ Whole(r.pass)
        /\ r.sim_pin \in Text /\ Whole(r.sim_pin)
        /\ r.close_hour \in Nat /\ r.close_min \in Nat
    BY ReceivedType
  <1> HIDE DEF r
  <1>4. s.close_time \in 0 .. 24 * 60 - 1 \cup {DISABLED} /\ s.close_time \in Nat
    BY <1>1, <1>2, <1>3 DEF DISABLED
  <1>5. s \in Config
    BY <1>2, <1>3, <1>4 DEF Stored, Config
  <1> HIDE DEF s
  <1>6. ConfigOK(s)
    BY <1>1, <1>2, <1>3, <1>4 DEF ConfigOK, TextFields
  <1> QED
    BY <1>1, <1>5, <1>6 DEF r, s

(* The PIN of the SIM comes through a request that is accepted.              *)
LEMMA PinReceived ==
    ASSUME NEW q \in Requests, Accepted(Parsed[q]), q.simpin = TruePin
    PROVE  Parsed[q].sim_pin = TruePin
  <1>1. Parsed[q].door # 0 /\ Parsed[q].door = NumberParam(q, 4) % 65536
        /\ Parsed[q].sim_pin = TextParam(q, 3, 7)
    BY ParsedFields DEF Accepted
  <1>2. Room(q, 4) # 0
    <2>1. CASE Room(q, 4) = 0
      <3>1. Digits(q[Order[4]]) \in 1 .. 6
        BY RequestType, OrderIs, DigitsType
      <3>2. NumberParam(q, 4) = 0
        BY <2>1, <3>1 DEF NumberParam
      <3> QED
        BY <1>1, <3>2
    <2> QED
      BY <2>1
  <1>3. Start(q, 4) <= 127
    BY <1>2, ParametersInOrder DEF Room
  <1>4. Start(q, 3) + ValueLength(q, 3) <= 127 /\ Start(q, 3) \in Nat
        /\ ValueLength(q, 3) = Length(TruePin)
    <2>1. Start(q, 4) = Start(q, 3) + ValueLength(q, 3) + 6
      <3>1. /\ ValueLength(q, 1) \in Nat /\ ValueLength(q, 2) \in Nat /\ ValueLength(q, 3) \in Nat
        BY ValueLengthType
      <3> QED
        BY <3>1 DEF Start, ValuesBefore, KeysUpTo
    <2>2. Start(q, 3) \in Nat /\ ValueLength(q, 3) \in Nat
      BY ParametersInOrder, ValueLengthType
    <2>3. ValueLength(q, 3) = Length(TruePin)
      BY OrderIs DEF ValueLength
    <2> QED
      BY <1>3, <2>1, <2>2, <2>3
  <1>5. Length(TruePin) <= Room(q, 3) /\ Length(TruePin) < 7
    <2>1. Length(TruePin) \in 4 .. 6
      BY SettingsAssumption
    <2> QED
      BY <1>4, <2>1 DEF Room
  <1> QED
    BY <1>1, <1>5, TextParamType, OrderIs

-----------------------------------------------------------------------------
(* What the page is asked to save is stored as it was asked if the URI fits.  *)

LEMMA AllFits ==
    ASSUME NEW q \in Requests, Fits(q), NEW k \in 1 .. 8
    PROVE  ValueLength(q, k) <= Room(q, k)
  <1>1. Start(q, k) \in Nat /\ Start(q, k) + ValueLength(q, k) <= Start(q, 8) + ValueLength(q, 8)
    BY ParametersInOrder
  <1>2. ValueLength(q, 8) = Digits(q.close_min) /\ ValueLength(q, k) \in Nat
        /\ ValueLength(q, 8) \in Nat /\ Start(q, 8) \in Nat
    BY OrderIs, ValueLengthType, ParametersInOrder DEF ValueLength
  <1>3. Start(q, k) + ValueLength(q, k) <= 127
    BY <1>1, <1>2 DEF Fits
  <1> QED
    BY <1>1, <1>2, <1>3 DEF Room

LEMMA FittingIsStored ==
    ASSUME NEW q \in Requests, Fits(q), Accepted(Parsed[q])
    PROVE  /\ Stored(Parsed[q]) = AsAsked(q)
           /\ q.close_hour \in 0 .. 23 /\ q.close_min \in 0 .. 59
           /\ q.door \in 1 .. 300 /\ q.overhead \in 1 .. 300
  <1>1. \A k \in 1 .. 8 : ValueLength(q, k) <= Room(q, k)
    BY AllFits
  <1>2. /\ Parsed[q].ssid = q.ssid /\ Parsed[q].pass = q.password
        /\ Parsed[q].sim_pin = q.simpin
    <2>1. Length(q.ssid) \in Nat /\ Length(q.password) \in Nat /\ Length(q.simpin) \in Nat
      BY RequestType DEF Text, Length
    <2>2. Length(q.ssid) < 33 /\ Length(q.password) < 64 /\ Length(q.simpin) < 7
      BY <2>1 DEF Fits
    <2>3. /\ Length(q.ssid) <= Room(q, 1) /\ Length(q.password) <= Room(q, 2)
          /\ Length(q.simpin) <= Room(q, 3)
      BY <1>1, OrderIs DEF ValueLength
    <2>4. TextParam(q, 1, 33) = q.ssid
      BY <2>2, <2>3, TextParamType, OrderIs
    <2>5. TextParam(q, 2, 64) = q.password
      BY <2>2, <2>3, TextParamType, OrderIs
    <2>6. TextParam(q, 3, 7) = q.simpin
      BY <2>2, <2>3, TextParamType, OrderIs
    <2> QED
      BY <2>4, <2>5, <2>6, ParsedFields
  <1>3. /\ NumberParam(q, 4) = q.door /\ NumberParam(q, 5) = q.overhead
        /\ NumberParam(q, 6) = q.close_enabled
        /\ NumberParam(q, 7) = q.close_hour /\ NumberParam(q, 8) = q.close_min
    <2>1. \A k \in 4 .. 8 : Digits(q[Order[k]]) <= Room(q, k)
      BY <1>1 DEF ValueLength
    <2> QED
      BY <2>1, NumberParamType, OrderIs
  <1>4. /\ Parsed[q].door = q.door /\ Parsed[q].overhead = q.overhead
        /\ Parsed[q].close_enabled = q.close_enabled
        /\ Parsed[q].close_hour = q.close_hour /\ Parsed[q].close_min = q.close_min
    <2>1. \A i \in Nat : (i < 65536 => i % 65536 = i) /\ (i < 256 => i % 256 = i)
      OBVIOUS
    <2>2. /\ q.door \in Nat /\ q.overhead \in Nat /\ q.close_enabled \in Nat
          /\ q.close_enabled < 256 /\ q.close_hour \in Nat /\ q.close_min \in Nat
      BY RequestType
    <2> QED
      BY <1>3, <2>1, <2>2, ParsedFields DEF Fits
  <1>5. Stored(Parsed[q]) = AsAsked(q)
    BY <1>2, <1>4 DEF Stored, AsAsked
  <1>6. /\ Parsed[q].door \in 1 .. 300 /\ Parsed[q].overhead \in 1 .. 300
        /\ Parsed[q].close_hour <= 23 /\ Parsed[q].close_min <= 59
    BY DEF Accepted
  <1> QED
    BY <1>4, <1>5, <1>6, RequestType

(* router.c:473-627: a request that fits in the URI the server keeps is       *)
(* stored as it was asked, and within the limits of the form.                *)
THEOREM FittingSavedAsAsked == Spec => SavedAsAsked
  <1> DEFINE Saves ==
        \A q \in Requests : Update(q) /\ Fits(q) =>
          /\ cfg' = AsAsked(q)
          /\ q.close_hour \in 0 .. 23 /\ q.close_min \in 0 .. 59
          /\ q.door \in 1 .. 300 /\ q.overhead \in 1 .. 300
  <1>1. [Next]_vars => [Saves]_vars
    <2> SUFFICES ASSUME NEW q \in Requests, Update(q), Fits(q)
                 PROVE  /\ cfg' = AsAsked(q)
                        /\ q.close_hour \in 0 .. 23 /\ q.close_min \in 0 .. 59
                        /\ q.door \in 1 .. 300 /\ q.overhead \in 1 .. 300
      OBVIOUS
    <2>1. Accepted(Parsed[q]) /\ cfg' = Stored(Parsed[q])
      BY DEF Update
    <2> QED
      BY <2>1, FittingIsStored
  <1> QED
    BY <1>1, PTL DEF Spec, SavedAsAsked

-----------------------------------------------------------------------------
(* The stack of handlers *)

LEMMA TopFrame ==
    ASSUME Stacked, stack # <<>>
    PROVE  /\ Top \in Frame /\ Len(stack) \in 1 .. 2
           /\ Top.at \in {"set", "save", "program", "reset", "cfun"}
           /\ Top.at = "set" => Top \in Setting
           /\ Top.at \in {"save", "program"} => Top \in Saving
  <1>1. Len(stack) \in 1 .. 2 /\ Top \in Frame
    <2>1. stack \in Seq(Frame) /\ Len(stack) <= 2 /\ Len(stack) \in Nat \ {0}
      <3>1. \A s \in Seq(Frame) : s # <<>> => Len(s) \in Nat \ {0}
        BY EmptySeq, Zenon
      <3> QED
        BY <3>1 DEF Stacked
    <2>2. \A n \in Nat \ {0} : n <= 2 => n \in 1 .. 2
      OBVIOUS
    <2>3. Len(stack) \in 1 .. 2
      BY <2>1, <2>2, Zenon
    <2> QED
      BY <2>1, <2>3 DEF Top
  <1>2. \A f \in Frame : /\ f.at \in {"set", "save", "program", "reset", "cfun"}
                         /\ f.at = "set" => f \in Setting
                         /\ f.at \in {"save", "program"} => f \in Saving
    BY DEF Frame, Setting, Saving, Ending
  <1> QED
    BY <1>1, <1>2

LEMMA Replaced ==
    ASSUME Stacked, stack # <<>>, NEW f \in Frame, stack' = Replace(f)
    PROVE  /\ Stacked' /\ Len(stack') = Len(stack) /\ stack' # <<>> /\ Top' = f
           /\ \A i \in 1 .. Len(stack) - 1 : stack'[i] = stack[i]
  <1>1. Len(stack) \in 1 .. 2 /\ stack \in Seq(Frame)
    BY TopFrame DEF Stacked
  <1>2. stack' \in Seq(Frame) /\ Len(stack') = Len(stack)
    BY <1>1 DEF Replace
  <1>3. stack'[Len(stack)] = f /\ \A i \in 1 .. Len(stack) - 1 : stack'[i] = stack[i]
    BY <1>1 DEF Replace
  <1> QED
    BY <1>1, <1>2, <1>3 DEF Stacked, Top

LEMMA Pushed ==
    ASSUME Stacked, Callback, NEW f \in Frame, stack' = Append(stack, f)
    PROVE  /\ Stacked' /\ stack' # <<>> /\ Top' = f /\ Len(stack') = Len(stack) + 1
           /\ \A i \in 1 .. Len(stack) : stack'[i] = stack[i]
  <1>1. stack \in Seq(Frame) /\ Len(stack) \in {0, 1}
    BY DEF Stacked, Callback
  <1>2. /\ stack' \in Seq(Frame) /\ Len(stack') = Len(stack) + 1
        /\ stack'[Len(stack) + 1] = f
        /\ \A i \in 1 .. Len(stack) : stack'[i] = stack[i]
    BY <1>1
  <1> QED
    BY <1>1, <1>2 DEF Stacked, Top

LEMMA Popped ==
    ASSUME Stacked, stack # <<>>, stack' = SubSeq(stack, 1, Len(stack) - 1)
    PROVE  /\ Stacked' /\ Len(stack') = Len(stack) - 1
           /\ \A i \in 1 .. Len(stack) - 1 : stack'[i] = stack[i]
  <1>1. Len(stack) \in {1, 2} /\ stack \in Seq(Frame)
    BY TopFrame DEF Stacked
  <1>2. /\ stack' \in Seq(Frame) /\ Len(stack') = Len(stack) - 1
        /\ \A i \in 1 .. Len(stack) - 1 : stack'[i] = stack[i]
    <2> DEFINE n == Len(stack) - 1
    <2>1. /\ n \in Nat /\ 1 \in Int /\ n \in Int /\ \A i \in 1 .. n : stack[i] \in Frame
          /\ stack' = SubSeq(stack, 1, n)
      BY <1>1
    <2> HIDE DEF n
    <2>2. /\ SubSeq(stack, 1, n) \in Seq(Frame)
          /\ Len(SubSeq(stack, 1, n)) = IF 1 <= n THEN n - 1 + 1 ELSE 0
          /\ \A i \in 1 .. n - 1 + 1 : SubSeq(stack, 1, n)[i] = stack[1 + i - 1]
      BY <2>1, SubSeqProperties
    <2>3. /\ stack' \in Seq(Frame) /\ Len(stack') = n
          /\ \A i \in 1 .. n : stack'[i] = stack[i]
      BY <2>1, <2>2
    <2> QED
      BY <2>3 DEF n
  <1> QED
    BY <1>1, <1>2 DEF Stacked

LEMMA Started ==
    ASSUME NEW f \in Frame, stack' = <<f>>
    PROVE  Stacked' /\ Len(stack') = 1 /\ stack' # <<>> /\ Top' = f
  <1>1. stack' \in Seq(Frame) /\ Len(stack') = 1 /\ stack'[1] = f
    OBVIOUS
  <1> QED
    BY <1>1 DEF Stacked, Top

LEMMA SaveFrame == ASSUME NEW next \in After PROVE Save(next) \in Frame
  BY DEF Save, Frame, Saving, After

LEMMA ThenAfter == ASSUME NEW f PROVE Then(f) \in {"reset", "cfun"} /\ Then(f) \in After
  BY DEF Then, After

-----------------------------------------------------------------------------
(* The types *)

LEMMA TextsNamed == Mixed \in Text /\ Empty \in Text
  BY DEF Mixed, Empty, Text, Names

LEMMA DefaultsType == Defaults \in Config /\ ConfigOK(Defaults) /\ Defaults.magic
  <1>1. Defaults.ssid \in Known /\ Defaults.pass \in Known /\ Defaults.sim_pin \in Known
    BY KnownTexts DEF TextFields
  <1>2. \A f \in TextFields : Defaults[f] \in Text /\ Whole(Defaults[f])
    BY KnownTexts, KnownWhole
  <1>3. Defaults \in Config
    BY <1>2 DEF Defaults, Config, DISABLED, TextFields
  <1>4. /\ Defaults.magic /\ Defaults.close_time = DISABLED
        /\ Defaults.duration_shutter = 180 /\ Defaults.duration_overhead = 1
    BY DEF Defaults
  <1> HIDE DEF Defaults
  <1>5. ConfigOK(Defaults)
    BY <1>2, <1>4 DEF ConfigOK
  <1> QED
    BY <1>3, <1>4, <1>5

LEMMA BlankType == Blank \in Config /\ ConfigOK(Blank) /\ ~Blank.magic
  <1>1. Blank \in Config
    BY TextsNamed DEF Blank, Config, DISABLED
  <1>2. ~Blank.magic
    BY DEF Blank
  <1> QED
    BY <1>1, <1>2 DEF ConfigOK

LEMMA ArgumentWhole ==
    ASSUME NEW f \in TextFields, NEW text \in Texts[f]
    PROVE  Cut(text, 31) \in Text /\ Whole(Cut(text, 31))
  <1>1. text \in Text /\ text \in Known
    BY KnownTexts, KnownWhole
  <1> QED
    BY <1>1, CutText DEF Whole

(* Settings that are in use stay good when one text or the time is set.      *)
LEMMA TextSet ==
    ASSUME NEW c \in Config, ConfigOK(c), c.magic, NEW f \in TextFields,
           NEW text \in Text, Whole(text) \/ text = Mixed
    PROVE  LET d == [c EXCEPT ![f] = text] IN d \in Config /\ ConfigOK(d) /\ d.magic
  <1> DEFINE d == [c EXCEPT ![f] = text]
  <1>1. d \in Config /\ d.magic
    BY DEF Config, TextFields
  <1>2. /\ d.close_time = c.close_time /\ d.duration_shutter = c.duration_shutter
        /\ d.duration_overhead = c.duration_overhead
        /\ \A g \in TextFields : d[g] = IF g = f THEN text ELSE c[g]
    BY DEF Config, TextFields
  <1>3. c # Blank
    BY BlankType
  <1> HIDE DEF d
  <1>4. ConfigOK(d)
    BY <1>1, <1>2, <1>3 DEF ConfigOK
  <1> QED
    BY <1>1, <1>4 DEF d

LEMMA TimeSet ==
    ASSUME NEW c \in Config, ConfigOK(c), c.magic, NEW time \in Times \cup {DISABLED}
    PROVE  LET d == [c EXCEPT !.close_time = time]
           IN  d \in Config /\ ConfigOK(d) /\ d.magic /\ d.sim_pin = c.sim_pin
  <1> DEFINE d == [c EXCEPT !.close_time = time]
  <1>1. time \in 0 .. 24 * 60 - 1 \cup {DISABLED} /\ time \in Nat
    BY SettingsAssumption DEF DISABLED
  <1>2. d \in Config /\ d.magic
    BY <1>1 DEF Config
  <1>3. /\ d.close_time = time /\ d.duration_shutter = c.duration_shutter
        /\ d.duration_overhead = c.duration_overhead
        /\ \A g \in TextFields : d[g] = c[g]
        /\ d.sim_pin = c.sim_pin
    BY DEF Config, TextFields
  <1>4. c # Blank
    BY BlankType
  <1> HIDE DEF d
  <1>5. ConfigOK(d)
    BY <1>1, <1>2, <1>3, <1>4 DEF ConfigOK
  <1> QED
    BY <1>2, <1>3, <1>5 DEF d

-----------------------------------------------------------------------------
(* The steps, by what they do to the settings and the stack                  *)

Quiet ==
    \/ AtRetry \/ AtAnswered \/ Echo \/ ModemInitDone \/ Lines \/ Step2
    \/ LoseLine \/ Announce \/ ModemRestarts \/ UNCHANGED vars

Restarts == Reset \/ PowerFails \/ PageReset

LEMMA QuietEffect ==
    ASSUME Quiet
    PROVE  /\ UNCHANGED <<cfg, flash, stack, blame>>
           /\ pc' = pc \/ (pc # "init" /\ pc' # "init")
  BY DEF Quiet, AtRetry, AtAnswered, Echo, ModemInitDone, Lines, SendPin, SimReady, SimTrouble,
         Step2, LoseLine, Announce, ModemRestarts, Main, Waited, ModemStarts, CountRestart, vars

LEMMA RestartEffect ==
    ASSUME Restarts
    PROVE  /\ cfg' = Blank /\ stack' = <<>> /\ pc' = "init" /\ step2' = 0
           /\ initialized' = FALSE /\ fed' = 0 /\ UNCHANGED <<flash, blame>>
           /\ sim' = "puk" => sim = "puk"
  BY DEF Restarts, Reset, PowerFails, PageReset, Restart, ModemStarts, simVars

LEMMA StepKinds ==
    ASSUME [Next]_vars
    PROVE  \/ Quiet \/ Restarts \/ SetRest \/ Erase \/ Program \/ ConfigInit
           \/ \E f \in TextFields : \E text \in Texts[f] : TextCommand(f, text)
           \/ \E f \in TextFields : \E text \in Texts[f] : PageText(f, text)
           \/ \E time \in Times \cup {DISABLED} : CloseAt(time)
           \/ \E time \in Times \cup {DISABLED} : PageCloseAt(time)
           \/ \E q \in Requests : Update(q)
  BY DEF Next, Handlers, Boot, Quiet, Restarts

LEMMA SettledStep ==
    ASSUME Settled, Stacked, [Next]_vars
    PROVE  Settled' /\ Stacked'
  <1>1. CASE Quiet
    BY <1>1, QuietEffect DEF Settled, Stacked, Whole, ConfigOK
  <1>2. CASE Restarts
    BY <1>2, RestartEffect, BlankType DEF Settled, Stacked
  <1>3. CASE SetRest
    <2>1. stack # <<>> /\ Top \in Setting /\ cfg.magic
      BY <1>3, TopFrame DEF SetRest, Settled
    <2>2. Top.field \in TextFields /\ Top.value \in Text /\ Whole(Top.value) /\ Top.next \in After
      BY <2>1 DEF Setting, After
    <2>3. cfg' \in Config /\ ConfigOK(cfg') /\ cfg'.magic
      <3>1. \E text \in Text : /\ Whole(text) \/ text = Mixed
                               /\ cfg' = [cfg EXCEPT ![Top.field] = text]
        BY <1>3, <2>2, TextsNamed DEF SetRest
      <3> QED
        BY <2>1, <2>2, <3>1, TextSet DEF Settled
    <2>4. Stacked' /\ stack' # <<>>
      BY <1>3, <2>1, <2>2, SaveFrame, Replaced DEF SetRest
    <2> QED
      BY <1>3, <2>1, <2>3, <2>4 DEF SetRest, Settled
  <1>4. CASE Erase
    <2>1. stack # <<>> /\ Top \in Saving
      BY <1>4, TopFrame DEF Erase
    <2>2. [at |-> "program", next |-> Top.next] \in Frame
      BY <2>1 DEF Saving, Frame
    <2>3. Stacked' /\ stack' # <<>>
      BY <1>4, <2>1, <2>2, Replaced DEF Erase
    <2> QED
      BY <1>4, <2>1, <2>3, BlankType DEF Erase, Settled
  <1>5. CASE Program
    <2>1. stack # <<>> /\ Top \in Saving
      BY <1>5, TopFrame DEF Program
    <2>2. Stacked'
      <3>1. CASE Top.next = "return"
        BY <1>5, <2>1, <3>1, Popped DEF Program
      <3>2. CASE Top.next # "return"
        <4>1. [at |-> Top.next] \in Frame
          BY <2>1, <3>2 DEF Saving, After, Ending, Frame
        <4> QED
          BY <1>5, <2>1, <3>2, <4>1, Replaced DEF Program
      <3> QED
        BY <3>1, <3>2
    <2> QED
      BY <1>5, <2>1, <2>2 DEF Program, Settled
  <1>6. CASE ConfigInit
    <2>1. cfg' \in Config /\ ConfigOK(cfg') /\ cfg'.magic
      BY <1>6, DefaultsType DEF ConfigInit, Settled
    <2>2. Stacked'
      <3>1. stack' = <<>> \/ stack' = <<Save("return")>>
        BY <1>6 DEF ConfigInit
      <3>2. CASE stack' = <<>>
        BY <3>2 DEF Stacked
      <3>3. CASE stack' = <<Save("return")>>
        BY <3>3, SaveFrame, Started DEF After
      <3> QED
        BY <3>1, <3>2, <3>3
    <2> QED
      BY <1>6, <2>1, <2>2 DEF ConfigInit, Settled
  <1>7. ASSUME NEW f \in TextFields, NEW text \in Texts[f], TextCommand(f, text)
        PROVE  Settled' /\ Stacked'
    <2>1. cfg' = [cfg EXCEPT ![f] = Mixed] /\ flash' = flash /\ pc = "loop" /\ pc' = "loop"
          /\ stack' = <<[at |-> "set", field |-> f, value |-> Cut(text, 31), next |-> Then(f)]>>
      BY <1>7 DEF TextCommand, InLoop
    <2>2. [at |-> "set", field |-> f, value |-> Cut(text, 31), next |-> Then(f)] \in Frame
      BY ArgumentWhole, ThenAfter DEF Setting, Frame
    <2>3. Stacked'
      BY <2>1, <2>2, Started
    <2>4. cfg' \in Config /\ ConfigOK(cfg') /\ cfg'.magic
      BY <2>1, TextSet, TextsNamed DEF Settled
    <2> QED
      BY <2>1, <2>3, <2>4 DEF Settled
  <1>8. ASSUME NEW f \in TextFields, NEW text \in Texts[f], PageText(f, text)
        PROVE  Settled' /\ Stacked'
    <2>1. /\ cfg' = [cfg EXCEPT ![f] = Cut(text, 31)] /\ flash' = flash
          /\ Callback /\ pc = "loop" /\ pc' = "loop" /\ stack' = Append(stack, Save(Then(f)))
      BY <1>8 DEF PageText, Callback
    <2>2. Stacked'
      BY <2>1, SaveFrame, ThenAfter, Pushed
    <2>3. cfg' \in Config /\ ConfigOK(cfg') /\ cfg'.magic
      BY <2>1, TextSet, ArgumentWhole DEF Settled
    <2> QED
      BY <2>1, <2>2, <2>3 DEF Settled
  <1>9. ASSUME NEW time \in Times \cup {DISABLED}, CloseAt(time)
        PROVE  Settled' /\ Stacked'
    <2>1. /\ cfg' = [cfg EXCEPT !.close_time = time] /\ flash' = flash
          /\ pc = "loop" /\ pc' = "loop" /\ stack' = <<Save("return")>>
      BY <1>9 DEF CloseAt, InLoop
    <2>2. Stacked'
      BY <2>1, SaveFrame, Started DEF After
    <2>3. cfg' \in Config /\ ConfigOK(cfg') /\ cfg'.magic
      BY <2>1, TimeSet DEF Settled
    <2> QED
      BY <2>1, <2>2, <2>3 DEF Settled
  <1>10. ASSUME NEW time \in Times \cup {DISABLED}, PageCloseAt(time)
         PROVE  Settled' /\ Stacked'
    <2>1. /\ cfg' = [cfg EXCEPT !.close_time = time] /\ flash' = flash
          /\ Callback /\ pc = "loop" /\ pc' = "loop" /\ stack' = Append(stack, Save("return"))
      BY <1>10 DEF PageCloseAt, Callback
    <2>2. Stacked'
      BY <2>1, SaveFrame, Pushed DEF After
    <2>3. cfg' \in Config /\ ConfigOK(cfg') /\ cfg'.magic
      BY <2>1, TimeSet DEF Settled
    <2> QED
      BY <2>1, <2>2, <2>3 DEF Settled
  <1>11. ASSUME NEW q \in Requests, Update(q)
         PROVE  Settled' /\ Stacked'
    <2>1. /\ Accepted(Parsed[q]) /\ cfg' = Stored(Parsed[q]) /\ flash' = flash
          /\ Callback /\ pc = "loop" /\ pc' = "loop" /\ stack' = Append(stack, Save("return"))
      BY <1>11 DEF Update, Callback
    <2>2. Stacked'
      BY <2>1, SaveFrame, Pushed DEF After
    <2>3. cfg' \in Config /\ ConfigOK(cfg')
      BY <2>1, StoredType
    <2>4. cfg'.magic
      BY <2>1 DEF Stored
    <2> QED
      BY <2>1, <2>2, <2>3, <2>4 DEF Settled
  <1> QED
    BY <1>1, <1>2, <1>3, <1>4, <1>5, <1>6, <1>7, <1>8, <1>9, <1>10, <1>11, StepKinds

(* The commands and what the page asks: nothing else changes in the loop.    *)
Asking ==
    \/ \E f \in TextFields : \E text \in Texts[f] : TextCommand(f, text) \/ PageText(f, text)
    \/ \E time \in Times \cup {DISABLED} : CloseAt(time) \/ PageCloseAt(time)
    \/ \E q \in Requests : Update(q)

LEMMA AskingEffect ==
    ASSUME Asking, blame \in BOOLEAN, restarts \in 0 .. MaxRestarts
    PROVE  /\ UNCHANGED <<flash, pc, step2, initialized, fed, toPico, sim, attempts, announced,
                          setUp, missed>>
           /\ pc = "loop" /\ blame' \in BOOLEAN /\ restarts' \in 0 .. MaxRestarts
           /\ blame => blame'
  <1>1. MaxRestarts \in Nat
    BY SettingsAssumption
  <1>2. ASSUME NEW f \in TextFields, NEW text \in Texts[f], TextCommand(f, text)
        PROVE  /\ UNCHANGED <<flash, pc, step2, initialized, fed, toPico, sim, attempts,
                              announced, setUp, missed>>
               /\ pc = "loop" /\ CountRestart /\ blame' = (blame \/ Wrong(f, text))
    BY <1>2 DEF TextCommand, InLoop, simVars
  <1>3. ASSUME NEW f \in TextFields, NEW text \in Texts[f], PageText(f, text)
        PROVE  /\ UNCHANGED <<flash, pc, step2, initialized, fed, toPico, sim, attempts,
                              announced, setUp, missed>>
               /\ pc = "loop" /\ CountRestart
               /\ blame' = (blame \/ Wrong(f, text) \/ Copying("sim_pin"))
    BY <1>3 DEF PageText, Callback, simVars
  <1>4. ASSUME NEW time \in Times \cup {DISABLED}, CloseAt(time) \/ PageCloseAt(time)
        PROVE  /\ UNCHANGED <<flash, pc, step2, initialized, fed, toPico, sim, attempts,
                              announced, setUp, missed, restarts>>
               /\ pc = "loop" /\ (blame' = blame \/ blame' = (blame \/ Copying("sim_pin")))
    BY <1>4 DEF CloseAt, PageCloseAt, InLoop, Callback, simVars
  <1>5. ASSUME NEW q \in Requests, Update(q)
        PROVE  /\ UNCHANGED <<flash, pc, step2, initialized, fed, toPico, sim, attempts,
                              announced, setUp, missed, restarts>>
               /\ pc = "loop"
               /\ blame' = (blame \/ Wrong("sim_pin", q.simpin) \/ Copying("sim_pin"))
    BY <1>5 DEF Update, Callback, simVars
  <1>6. CountRestart => restarts' \in 0 .. MaxRestarts
    BY <1>1 DEF CountRestart
  <1>7. /\ UNCHANGED <<flash, pc, step2, initialized, fed, toPico, sim, attempts, announced,
                       setUp, missed>>
        /\ pc = "loop" /\ (CountRestart \/ restarts' = restarts)
    BY <1>2, <1>3, <1>4, <1>5 DEF Asking
  <1>8. blame' \in BOOLEAN /\ (blame => blame')
    BY <1>2, <1>3, <1>4, <1>5, Zenon DEF Asking
  <1> QED
    BY <1>6, <1>7, <1>8

LEMMA Kinds ==
    ASSUME [Next]_vars
    PROVE  Quiet \/ Restarts \/ SetRest \/ Erase \/ Program \/ ConfigInit \/ Asking
  BY StepKinds DEF Asking

LEMMA RestStep ==
    ASSUME Rest, [Next]_vars
    PROVE  Rest'
  <1> DEFINE Lines5 == {"pin", "ready", "puk", "incorrect", "error"}
  <1>0. MaxRestarts \in Nat
    BY SettingsAssumption
  <1>1. CASE SetRest \/ Erase \/ Program
    BY <1>1 DEF Rest, SetRest, Erase, Program, simVars
  <1>2. CASE ConfigInit
    BY <1>2 DEF Rest, ConfigInit, simVars
  <1>3. CASE Asking
    BY <1>3, AskingEffect DEF Rest
  <1>4. CASE Restarts
    <2>1. /\ pc' = "init" /\ step2' = 0 /\ initialized' = FALSE /\ fed' = 0 /\ toPico' = <<>>
          /\ missed' = FALSE /\ blame' = blame /\ attempts' = attempts
          /\ \/ sim' = sim /\ announced' = announced /\ setUp' = setUp
             \/ sim' = (IF sim = "puk" THEN "puk" ELSE "pin") /\ announced' = FALSE /\ setUp' = {}
          /\ restarts' = restarts \/ CountRestart
      BY <1>4 DEF Restarts, Reset, PowerFails, PageReset, Restart, ModemStarts, simVars
    <2>2. restarts' \in 0 .. MaxRestarts
      BY <1>0, <2>1 DEF Rest, CountRestart
    <2>3. /\ sim' \in {"pin", "ready", "puk"} /\ (attempts' = 0 => sim' = "puk")
          /\ announced' \in BOOLEAN /\ setUp' \subseteq 1 .. 5
      <3>1. CASE sim' = sim /\ announced' = announced /\ setUp' = setUp
        BY <2>1, <3>1 DEF Rest
      <3>2. CASE sim' = (IF sim = "puk" THEN "puk" ELSE "pin") /\ announced' = FALSE /\ setUp' = {}
        BY <2>1, <3>2 DEF Rest
      <3> QED
        BY <2>1, <3>1, <3>2
    <2>4. initialized' \in BOOLEAN /\ missed' \in BOOLEAN /\ blame' \in BOOLEAN
      BY <2>1, Zenon DEF Rest
    <2>5. attempts' \in 0 .. 3
      BY <2>1 DEF Rest
    <2>6. toPico' \in Seq(Lines5)
      BY <2>1
    <2> QED
      BY <2>1, <2>2, <2>3, <2>4, <2>5, <2>6 DEF Rest
  <1>5. CASE Quiet
    <2>1. CASE AtRetry \/ AtAnswered \/ ModemInitDone \/ UNCHANGED vars
      <3>1. CASE AtRetry
        BY <3>1 DEF Rest, AtRetry, simVars
      <3>2. CASE AtAnswered
        BY <3>2 DEF Rest, AtAnswered, Waited, simVars
      <3>3. CASE ModemInitDone
        BY <3>3 DEF Rest, ModemInitDone, simVars
      <3>4. CASE UNCHANGED vars
        BY <3>4 DEF Rest, vars, simVars
      <3> QED
        BY <2>1, <3>1, <3>2, <3>3, <3>4
    <2>2. CASE Echo
      <3>1. toPico' \in Seq(Lines5)
        BY <2>2 DEF Rest, Echo
      <3> QED
        BY <2>2, <3>1 DEF Rest, Echo, Waited, simVars
    <2>3. CASE SendPin
      <3>1. toPico # <<>> /\ toPico \in Seq(Lines5)
        BY <2>3 DEF SendPin, Line, Rest
      <3>2. Tail(toPico) \in Seq(Lines5)
        BY <3>1, HeadTailProperties
      <3>3. toPico' \in Seq(Lines5)
        BY <2>3, <3>2 DEF SendPin
      <3>4. attempts' \in 0 .. 3 /\ sim' \in {"pin", "ready", "puk"} /\ (attempts' = 0 => sim' = "puk")
        BY <2>3 DEF SendPin, Rest
      <3> QED
        BY <2>3, <3>3, <3>4 DEF Rest, SendPin
    <2>4. CASE SimReady \/ SimTrouble
      <3>1. toPico # <<>> /\ toPico \in Seq(Lines5)
        BY <2>4 DEF SimReady, SimTrouble, Line, Rest
      <3>2. Tail(toPico) \in Seq(Lines5)
        BY <3>1, HeadTailProperties
      <3> QED
        <4>1. CASE SimReady
          <5>1. step2' \in 0 .. 5 /\ fed' \in Nat
            BY <4>1 DEF Rest, SimReady
          <5> QED
            BY <3>2, <4>1, <5>1 DEF Rest, SimReady, simVars
        <4>2. CASE SimTrouble
          BY <3>2, <4>2 DEF Rest, SimTrouble, simVars
        <4> QED
          BY <2>4, <4>1, <4>2
    <2>5. CASE Step2
      BY <2>5 DEF Rest, Step2
    <2>6. CASE LoseLine
      <3>1. Tail(toPico) \in Seq(Lines5)
        BY <2>6, HeadTailProperties DEF LoseLine, Rest
      <3> QED
        BY <2>6, <3>1 DEF Rest, LoseLine, simVars
    <2>7. CASE Announce
      <3>1. toPico' \in Seq(Lines5)
        BY <2>7 DEF Announce, Rest
      <3> QED
        BY <2>7, <3>1 DEF Rest, Announce
    <2>8. CASE ModemRestarts
      <3>1. restarts' \in 0 .. MaxRestarts
        BY <1>0, <2>8 DEF Rest, ModemRestarts, CountRestart
      <3> QED
        BY <2>8, <3>1 DEF Rest, ModemRestarts, ModemStarts
    <2> QED
      BY <1>5, <2>1, <2>2, <2>3, <2>4, <2>5, <2>6, <2>7, <2>8 DEF Quiet, Lines
  <1> QED
    BY <1>1, <1>2, <1>3, <1>4, <1>5, Kinds

-----------------------------------------------------------------------------
(* The flash holds the settings in use *)

LEMMA KeptStep ==
    ASSUME Settled, Stacked, Kept, [Next]_vars
    PROVE  Kept'
  <1>1. CASE Quiet
    BY <1>1, QuietEffect DEF Kept, Top
  <1>2. CASE Restarts
    BY <1>2, RestartEffect DEF Kept
  <1>3. CASE SetRest
    <2>1. stack # <<>> /\ Top \in Setting
      BY <1>3, TopFrame DEF SetRest
    <2>2. Save(Top.next) \in Frame /\ stack' = Replace(Save(Top.next))
      BY <1>3, <2>1, SaveFrame DEF SetRest, Setting, After
    <2>3. stack' # <<>> /\ Top' = Save(Top.next)
      BY <2>1, <2>2, Replaced
    <2> QED
      BY <2>3 DEF Kept, Save
  <1>4. CASE Erase
    <2>1. stack # <<>> /\ Top \in Saving
      BY <1>4, TopFrame DEF Erase
    <2>2. [at |-> "program", next |-> Top.next] \in Frame
      BY <2>1 DEF Saving, Frame
    <2>3. stack' # <<>> /\ Top' = [at |-> "program", next |-> Top.next]
      BY <1>4, <2>1, <2>2, Replaced DEF Erase
    <2> QED
      BY <2>3 DEF Kept
  <1>5. CASE Program
    BY <1>5 DEF Program, Kept
  <1>6. CASE ConfigInit
    <2>1. CASE flash.magic
      BY <1>6, <2>1 DEF ConfigInit, Kept
    <2>2. CASE ~flash.magic
      <3>1. stack' = <<Save("return")>>
        BY <1>6, <2>2 DEF ConfigInit
      <3>2. stack' # <<>> /\ Top' = Save("return")
        BY <3>1, SaveFrame, Started DEF After
      <3> QED
        BY <3>2 DEF Kept, Save
    <2> QED
      BY <2>1, <2>2
  <1>7. CASE Asking
    <2>1. stack' # <<>> /\ Top'.at \in {"set", "save"}
      <3>1. ASSUME NEW f \in TextFields, NEW text \in Texts[f], TextCommand(f, text)
            PROVE  stack' # <<>> /\ Top'.at \in {"set", "save"}
        <4>1. [at |-> "set", field |-> f, value |-> Cut(text, 31), next |-> Then(f)] \in Frame
          BY ArgumentWhole, ThenAfter DEF Setting, Frame
        <4>2. stack' = <<[at |-> "set", field |-> f, value |-> Cut(text, 31), next |-> Then(f)]>>
          BY <3>1 DEF TextCommand
        <4> QED
          BY <4>1, <4>2, Started
      <3>2. \A next \in After :
               stack' = <<Save(next)>> \/ (Callback /\ stack' = Append(stack, Save(next)))
                  => stack' # <<>> /\ Top'.at \in {"set", "save"}
        BY SaveFrame, Started, Pushed DEF Save
      <3>3. ASSUME NEW f \in TextFields, NEW text \in Texts[f], PageText(f, text)
            PROVE  stack' # <<>> /\ Top'.at \in {"set", "save"}
        BY <3>2, <3>3, ThenAfter DEF PageText
      <3>4. ASSUME NEW time \in Times \cup {DISABLED}, CloseAt(time) \/ PageCloseAt(time)
            PROVE  stack' # <<>> /\ Top'.at \in {"set", "save"}
        BY <3>2, <3>4 DEF CloseAt, PageCloseAt, After
      <3>5. ASSUME NEW q \in Requests, Update(q)
            PROVE  stack' # <<>> /\ Top'.at \in {"set", "save"}
        BY <3>2, <3>5 DEF Update, After
      <3> QED
        BY <1>7, <3>1, <3>3, <3>4, <3>5 DEF Asking
    <2> QED
      BY <2>1 DEF Kept
  <1> QED
    BY <1>1, <1>2, <1>3, <1>4, <1>5, <1>6, <1>7, Kinds

-----------------------------------------------------------------------------
(* The PIN *)

(* After a step that leaves a frame on top which sets no PIN.                 *)
LEMMA PinKept ==
    ASSUME PinInv, ~blame, sim' = sim, pc' # "init", cfg'.sim_pin = TruePin,
           flash' = Blank \/ flash'.sim_pin = TruePin,
           stack' # <<>>, Top'.at # "set" \/ Top'.field # "sim_pin",
           \A i \in 1 .. Len(stack') - 1 : ~SetsPin(i)'
    PROVE  PinInv'
  BY DEF PinInv, Copying

LEMMA PinPushed ==
    ASSUME Stacked, PinInv, ~blame, Callback, ~Copying("sim_pin"), NEW next \in After,
           stack' = Append(stack, Save(next)), cfg'.sim_pin = TruePin,
           UNCHANGED <<flash, sim, pc>>
    PROVE  PinInv'
  <1>1. /\ stack' # <<>> /\ Top' = Save(next) /\ Len(stack') = Len(stack) + 1
        /\ \A i \in 1 .. Len(stack) : stack'[i] = stack[i]
    BY SaveFrame, Pushed
  <1>2. Len(stack) \in {0, 1} /\ pc = "loop"
    BY DEF Stacked, Callback
  <1>3. \A i \in 1 .. Len(stack') - 1 : ~SetsPin(i)'
    <2> SUFFICES ASSUME NEW i \in 1 .. Len(stack') - 1 PROVE ~SetsPin(i)'
      OBVIOUS
    <2>1. Len(stack) = 1 /\ i = 1 /\ stack'[i] = stack[i]
      BY <1>1, <1>2
    <2>2. stack # <<>> /\ Top = stack[i]
      BY <2>1 DEF Top
    <2> QED
      BY <2>1, <2>2 DEF Copying, SetsPin
  <1>4. Top'.at # "set"
    BY <1>1 DEF Save
  <1>5. flash = Blank \/ flash.sim_pin = TruePin
    BY DEF PinInv
  <1> QED
    BY <1>1, <1>2, <1>3, <1>4, <1>5, PinKept

LEMMA PinStarted ==
    ASSUME PinInv, ~blame, NEW f \in Frame, stack' = <<f>>, f.at # "set" \/ f.field # "sim_pin",
           cfg'.sim_pin = TruePin, pc' # "init", UNCHANGED <<flash, sim>>
    PROVE  PinInv'
  <1>1. Len(stack') = 1 /\ stack' # <<>> /\ Top' = f
    BY Started
  <1>2. \A i \in 1 .. Len(stack') - 1 : ~SetsPin(i)'
    BY <1>1
  <1>3. flash = Blank \/ flash.sim_pin = TruePin
    BY DEF PinInv
  <1> QED
    BY <1>1, <1>2, <1>3, PinKept

LEMMA BlameStays == ASSUME [Next]_vars, Rest PROVE blame => blame'
  <1>1. CASE Quiet \/ Restarts
    BY <1>1, QuietEffect, RestartEffect
  <1>2. CASE SetRest \/ Erase \/ Program
    BY <1>2 DEF SetRest, Erase, Program
  <1>3. CASE ConfigInit
    BY <1>3, Zenon DEF ConfigInit
  <1>4. CASE Asking
    BY <1>4, AskingEffect DEF Rest
  <1> QED
    BY <1>1, <1>2, <1>3, <1>4, Kinds

LEMMA PinStep ==
    ASSUME Shape, PinInv, [Next]_vars
    PROVE  PinInv'
  <1> SUFFICES ASSUME ~blame' PROVE PinInv'
    BY DEF PinInv
  <1>0. ~blame /\ Settled /\ Stacked /\ Rest
    BY BlameStays DEF Shape
  <1>a. /\ sim # "puk" /\ (flash = Blank \/ flash.sim_pin = TruePin)
        /\ \A i \in 1 .. Len(stack) - 1 : ~SetsPin(i)
        /\ pc # "init" /\ Copying("sim_pin") => cfg.sim_pin = Mixed /\ Top.value = TruePin
        /\ pc # "init" /\ ~Copying("sim_pin") => cfg.sim_pin = TruePin
    BY <1>0 DEF PinInv
  <1>1. CASE Quiet
    <2>1. sim' # "puk"
      <3>1. CASE SendPin
        <4>1. pc # "init" /\ stack = <<>>
          BY <3>1 DEF SendPin, Line
        <4>2. cfg.sim_pin = TruePin
          BY <1>a, <4>1 DEF Copying
        <4> QED
          BY <1>a, <3>1, <4>2 DEF SendPin
      <3>2. CASE ~SendPin
        BY <1>1, <1>a, <3>2
           DEF Quiet, AtRetry, AtAnswered, Echo, ModemInitDone, Lines, SimReady, SimTrouble, Step2,
               LoseLine, Announce, ModemRestarts, ModemStarts, simVars, vars
      <3> QED
        BY <3>1, <3>2
    <2> QED
      BY <1>1, <1>a, <2>1, QuietEffect DEF PinInv, SetsPin, Copying, Top
  <1>2. CASE Restarts
    <2>1. \A i \in 1 .. Len(stack') - 1 : ~SetsPin(i)'
      BY <1>2, RestartEffect
    <2> QED
      BY <1>2, <1>a, <2>1, RestartEffect DEF PinInv
  <1>3. CASE SetRest
    <2>1. stack # <<>> /\ Top \in Setting /\ pc # "init" /\ cfg \in Config
      BY <1>0, <1>3, TopFrame DEF SetRest, Settled
    <2>2. Save(Top.next) \in Frame /\ stack' = Replace(Save(Top.next))
      BY <1>3, <2>1, SaveFrame DEF SetRest, Setting, After
    <2>3. /\ stack' # <<>> /\ Top' = Save(Top.next) /\ Len(stack') = Len(stack)
          /\ \A i \in 1 .. Len(stack) - 1 : stack'[i] = stack[i]
      BY <1>0, <2>1, <2>2, Replaced
    <2>4. \A i \in 1 .. Len(stack') - 1 : ~SetsPin(i)'
      BY <1>a, <2>3 DEF SetsPin
    <2>5. cfg'.sim_pin = TruePin
      <3>1. cfg' = [cfg EXCEPT ![Top.field] = IF @ = Mixed THEN Top.value ELSE Mixed]
        BY <1>3 DEF SetRest
      <3>2. CASE Top.field = "sim_pin"
        <4>1. cfg.sim_pin = Mixed /\ Top.value = TruePin
          BY <1>3, <1>a, <2>1, <3>2 DEF SetRest, Copying
        <4> QED
          BY <2>1, <3>1, <3>2, <4>1 DEF Config
      <3>3. CASE Top.field # "sim_pin"
        <4>1. cfg.sim_pin = TruePin
          BY <1>a, <2>1, <3>3 DEF Copying
        <4> QED
          BY <2>1, <3>1, <3>3, <4>1 DEF Config, Setting, TextFields
      <3> QED
        BY <3>2, <3>3
    <2>6. Top'.at # "set" /\ UNCHANGED <<flash, pc, sim>>
      BY <1>3, <2>3 DEF Save, SetRest, simVars
    <2> QED
      BY <1>0, <1>a, <2>1, <2>3, <2>4, <2>5, <2>6, PinKept
  <1>4. CASE Erase
    <2>1. stack # <<>> /\ Top \in Saving /\ pc # "init" /\ Top.at = "save"
      BY <1>0, <1>4, TopFrame DEF Erase, Settled
    <2>2. [at |-> "program", next |-> Top.next] \in Frame
      BY <2>1 DEF Saving, Frame
    <2>3. /\ stack' # <<>> /\ Top' = [at |-> "program", next |-> Top.next] /\ Len(stack') = Len(stack)
          /\ \A i \in 1 .. Len(stack) - 1 : stack'[i] = stack[i]
      BY <1>0, <1>4, <2>1, <2>2, Replaced DEF Erase
    <2>4. \A i \in 1 .. Len(stack') - 1 : ~SetsPin(i)'
      BY <1>a, <2>3 DEF SetsPin
    <2>5. cfg'.sim_pin = TruePin
      BY <1>4, <1>a, <2>1 DEF Erase, Copying
    <2>6. Top'.at # "set" /\ flash' = Blank /\ UNCHANGED <<pc, sim>>
      BY <1>4, <2>3 DEF Erase, simVars
    <2> QED
      BY <1>0, <2>1, <2>3, <2>4, <2>5, <2>6, PinKept
  <1>5. CASE Program
    <2>1. stack # <<>> /\ Top \in Saving /\ pc # "init" /\ Top.at = "program"
      BY <1>0, <1>5, TopFrame DEF Program, Settled
    <2>2. cfg.sim_pin = TruePin
      BY <1>a, <2>1 DEF Copying
    <2>3. UNCHANGED <<cfg, pc, sim>> /\ flash' = cfg
      BY <1>5 DEF Program, simVars
    <2>4. CASE Top.next = "return"
      <3>1. /\ Stacked' /\ Len(stack') = Len(stack) - 1
            /\ \A i \in 1 .. Len(stack) - 1 : stack'[i] = stack[i]
        BY <1>0, <1>5, <2>1, <2>4, Popped DEF Program
      <3>2. Len(stack) \in {1, 2}
        BY <1>0, <2>1, TopFrame
      <3>3. \A i \in 1 .. Len(stack') : ~SetsPin(i)'
        BY <1>a, <3>1, <3>2 DEF SetsPin
      <3>4. ~Copying("sim_pin")'
        <4>1. CASE stack' = <<>>
          BY <4>1 DEF Copying
        <4>2. CASE stack' # <<>>
          <5>1. Len(stack') \in 1 .. Len(stack')
            <6>1. Len(stack') \in {0, 1}
              BY <3>1, <3>2
            <6>2. Len(stack') # 0
              BY <3>1, <4>2, EmptySeq DEF Stacked
            <6> QED
              BY <6>1, <6>2
          <5>2. ~SetsPin(Len(stack))'
            BY <3>3, <5>1 DEF SetsPin
          <5> QED
            BY <3>3, <5>1 DEF SetsPin, Copying, Top
        <4> QED
          BY <4>1, <4>2
      <3>5. \A i \in 1 .. Len(stack') - 1 : ~SetsPin(i)'
        BY <3>1, <3>2, <3>3
      <3> QED
        BY <1>a, <2>2, <2>3, <3>4, <3>5 DEF PinInv
    <2>5. CASE Top.next # "return"
      <3>1. [at |-> Top.next] \in Frame /\ Top.next \in {"reset", "cfun"}
        BY <2>1, <2>5 DEF Saving, After, Ending, Frame
      <3>2. /\ stack' # <<>> /\ Top' = [at |-> Top.next] /\ Len(stack') = Len(stack)
            /\ \A i \in 1 .. Len(stack) - 1 : stack'[i] = stack[i]
        BY <1>0, <1>5, <2>1, <2>5, <3>1, Replaced DEF Program
      <3>3. \A i \in 1 .. Len(stack') - 1 : ~SetsPin(i)'
        BY <1>a, <3>2 DEF SetsPin
      <3>4. Top'.at # "set"
        BY <3>1, <3>2
      <3> QED
        BY <1>0, <2>1, <2>2, <2>3, <3>2, <3>3, <3>4, PinKept
    <2> QED
      BY <2>4, <2>5
  <1>6. CASE ConfigInit
    <2>1. cfg'.sim_pin = TruePin
      <3>1. CASE flash.magic
        BY <1>6, <1>a, <3>1, BlankType DEF ConfigInit
      <3>2. CASE ~flash.magic
        BY <1>6, <3>2 DEF ConfigInit
      <3> QED
        BY <3>1, <3>2
    <2>2. pc' # "init" /\ UNCHANGED <<flash, sim>> /\ (stack' = <<>> \/ stack' = <<Save("return")>>)
      BY <1>6 DEF ConfigInit, simVars
    <2>3. CASE stack' = <<>>
      <3>1. \A i \in 1 .. Len(stack') - 1 : ~SetsPin(i)'
        BY <2>3
      <3> QED
        BY <1>a, <2>1, <2>2, <2>3, <3>1 DEF PinInv, Copying
    <2>4. CASE stack' = <<Save("return")>>
      <3>1. Save("return") \in Frame /\ Save("return").at # "set"
        BY SaveFrame DEF After, Save
      <3> QED
        BY <1>0, <2>1, <2>2, <2>4, <3>1, PinStarted
    <2> QED
      BY <2>2, <2>3, <2>4
  <1>7. ASSUME NEW f \in TextFields, NEW text \in Texts[f], TextCommand(f, text)
        PROVE  PinInv'
    <2> DEFINE frame == [at |-> "set", field |-> f, value |-> Cut(text, 31), next |-> Then(f)]
    <2>1. /\ cfg' = [cfg EXCEPT ![f] = Mixed] /\ UNCHANGED <<flash, sim>> /\ pc # "init" /\ pc' # "init"
          /\ stack = <<>> /\ stack' = <<frame>> /\ ~Wrong(f, text)
      BY <1>7 DEF TextCommand, InLoop, simVars
    <2>2. frame \in Frame
      BY ArgumentWhole, ThenAfter DEF Setting, Frame
    <2>3. Len(stack') = 1 /\ stack' # <<>> /\ Top' = frame
      BY <2>1, <2>2, Started
    <2>4. cfg.sim_pin = TruePin /\ cfg \in Config
      BY <1>0, <1>a, <2>1 DEF Copying, Settled
    <2>5. CASE f = "sim_pin"
      <3>1. text = TruePin
        BY <2>1, <2>5 DEF Wrong
      <3>2. Cut(text, 31) = TruePin
        <4>1. TruePin \in Text /\ Length(TruePin) <= 31
          BY KnownTexts, KnownWhole, SettingsAssumption
        <4> QED
          BY <3>1, <4>1, CutText
      <3>3. cfg'.sim_pin = Mixed
        BY <2>1, <2>4, <2>5 DEF Config
      <3>4. Copying("sim_pin")' /\ Top'.value = TruePin
        BY <2>3, <2>5, <3>2 DEF Copying
      <3>5. \A i \in 1 .. Len(stack') - 1 : ~SetsPin(i)'
        BY <2>3
      <3> QED
        BY <1>a, <2>1, <3>3, <3>4, <3>5 DEF PinInv
    <2>6. CASE f # "sim_pin"
      <3>1. cfg'.sim_pin = TruePin
        BY <2>1, <2>4, <2>6 DEF Config, TextFields
      <3>2. frame.field # "sim_pin"
        BY <2>6
      <3> HIDE DEF frame
      <3> QED
        BY <1>0, <2>1, <2>2, <3>1, <3>2, PinStarted
    <2> QED
      BY <2>5, <2>6
  <1>8. ASSUME NEW f \in TextFields, NEW text \in Texts[f], PageText(f, text)
        PROVE  PinInv'
    <2>1. /\ cfg' = [cfg EXCEPT ![f] = Cut(text, 31)] /\ UNCHANGED <<flash, sim, pc>>
          /\ Callback /\ stack' = Append(stack, Save(Then(f)))
          /\ ~Wrong(f, text) /\ ~Copying("sim_pin") /\ pc # "init"
      BY <1>8 DEF PageText, Callback, simVars
    <2>2. cfg.sim_pin = TruePin /\ cfg \in Config
      BY <1>0, <1>a, <2>1 DEF Settled
    <2>3. cfg'.sim_pin = TruePin
      <3>1. CASE f = "sim_pin"
        <4>1. text = TruePin /\ TruePin \in Text /\ Length(TruePin) <= 31
          BY <2>1, <3>1, KnownTexts, KnownWhole, SettingsAssumption DEF Wrong
        <4>2. Cut(text, 31) = TruePin
          BY <4>1, CutText
        <4> QED
          BY <2>1, <2>2, <3>1, <4>2 DEF Config
      <3>2. CASE f # "sim_pin"
        BY <2>1, <2>2, <3>2 DEF Config, TextFields
      <3> QED
        BY <3>1, <3>2
    <2> QED
      BY <1>0, <2>1, <2>3, PinPushed, ThenAfter
  <1>9. ASSUME NEW time \in Times \cup {DISABLED}, CloseAt(time)
        PROVE  PinInv'
    <2>1. /\ cfg' = [cfg EXCEPT !.close_time = time] /\ UNCHANGED <<flash, sim>>
          /\ pc # "init" /\ pc' # "init" /\ stack = <<>> /\ stack' = <<Save("return")>>
      BY <1>9 DEF CloseAt, InLoop, simVars
    <2>2. cfg.sim_pin = TruePin /\ cfg \in Config
      BY <1>0, <1>a, <2>1 DEF Copying, Settled
    <2>3. cfg'.sim_pin = TruePin
      BY <2>1, <2>2 DEF Config
    <2>4. Save("return") \in Frame /\ Save("return").at # "set"
      BY SaveFrame DEF After, Save
    <2> QED
      BY <1>0, <2>1, <2>3, <2>4, PinStarted
  <1>10. ASSUME NEW time \in Times \cup {DISABLED}, PageCloseAt(time)
         PROVE  PinInv'
    <2>1. /\ cfg' = [cfg EXCEPT !.close_time = time] /\ UNCHANGED <<flash, sim, pc>>
          /\ Callback /\ stack' = Append(stack, Save("return")) /\ ~Copying("sim_pin") /\ pc # "init"
      BY <1>10 DEF PageCloseAt, Callback, simVars
    <2>2. cfg.sim_pin = TruePin /\ cfg \in Config
      BY <1>0, <1>a, <2>1 DEF Settled
    <2>3. cfg'.sim_pin = TruePin
      BY <2>1, <2>2 DEF Config
    <2> QED
      BY <1>0, <2>1, <2>3, PinPushed DEF After
  <1>11. ASSUME NEW q \in Requests, Update(q)
         PROVE  PinInv'
    <2>1. /\ Accepted(Parsed[q]) /\ cfg' = Stored(Parsed[q]) /\ UNCHANGED <<flash, sim, pc>>
          /\ Callback /\ stack' = Append(stack, Save("return"))
          /\ ~Wrong("sim_pin", q.simpin) /\ ~Copying("sim_pin")
      BY <1>11 DEF Update, simVars
    <2>2. q.simpin = TruePin
      BY <2>1 DEF Wrong
    <2>3. cfg'.sim_pin = TruePin
      BY <2>1, <2>2, StoredType, PinReceived
    <2> QED
      BY <1>0, <2>1, <2>3, PinPushed DEF After
  <1> QED
    BY <1>1, <1>2, <1>3, <1>4, <1>5, <1>6, <1>7, <1>8, <1>9, <1>10, <1>11, StepKinds

-----------------------------------------------------------------------------
(* The watchdog *)

LEMMA FedStep ==
    ASSUME Rest, FedInv, [Next]_vars
    PROVE  FedInv'
  <1>0. step2 \in 0 .. 5 /\ fed \in Nat /\ initialized \in BOOLEAN
    BY DEF Rest
  <1>1. CASE SetRest \/ Erase \/ Program \/ Asking \/ LoseLine \/ ModemRestarts \/ Announce
             \/ Echo \/ SendPin \/ SimTrouble \/ UNCHANGED vars
    <2>1. /\ UNCHANGED <<step2, initialized>>
          /\ \/ UNCHANGED <<pc, fed>>
             \/ Echo
      <3>1. CASE Asking
        BY <3>1, AskingEffect DEF Rest
      <3>2. CASE ~Asking
        BY <1>1, <3>2 DEF SetRest, Erase, Program, LoseLine, ModemRestarts, Announce, Echo, SendPin,
                          SimTrouble, vars
      <3> QED
        BY <3>1, <3>2
    <2>2. CASE UNCHANGED <<pc, fed>>
      BY <2>1, <2>2 DEF FedInv, Base
    <2>3. CASE Echo
      <3>1. pc = "echo" /\ pc' = "cpin" /\ step2 = 0 /\ fed' = fed + 1
        BY <2>3 DEF Echo, Main, Waited
      <3> QED
        BY <1>0, <2>1, <3>1 DEF FedInv, Base
    <2> QED
      BY <2>1, <2>2, <2>3
  <1>2. CASE ConfigInit
    BY <1>0, <1>2 DEF ConfigInit, FedInv, Base
  <1>3. CASE Restarts
    BY <1>3, RestartEffect DEF FedInv, Base
  <1>4. CASE AtRetry \/ ModemInitDone
    BY <1>0, <1>4 DEF AtRetry, ModemInitDone, Main, FedInv, Base
  <1>5. CASE AtAnswered
    BY <1>0, <1>5 DEF AtAnswered, Main, Waited, FedInv, Base
  <1>6. CASE SimReady
    <2>1. pc' = pc /\ initialized' = TRUE /\ step2' = (IF initialized THEN step2 ELSE 1)
          /\ fed' = (IF ~initialized /\ pc # "loop" THEN fed + 1 ELSE fed)
      BY <1>6 DEF SimReady
    <2>2. CASE initialized
      BY <1>0, <2>1, <2>2 DEF FedInv, Base
    <2>3. CASE ~initialized
      BY <1>0, <2>1, <2>3 DEF FedInv, Base
    <2> QED
      BY <2>2, <2>3
  <1>7. CASE Step2
    <2>1. /\ step2 # 0 /\ UNCHANGED <<pc, initialized>>
          /\ step2' = IF step2 = 5 THEN 0 ELSE step2 + 1
          /\ fed' = IF step2 \in {3, 5} THEN 0 ELSE fed + 1
      BY <1>7 DEF Step2
    <2>2. step2 \in {1, 2, 3, 4, 5} /\ initialized
      BY <1>0, <2>1 DEF FedInv
    <2> QED
      BY <1>0, <2>1, <2>2 DEF FedInv, Base
  <1> QED
    BY <1>1, <1>2, <1>3, <1>4, <1>5, <1>6, <1>7, Kinds DEF Quiet, Lines

-----------------------------------------------------------------------------
LEMMA InvInit == Init => Inv
  <1> SUFFICES ASSUME Init PROVE Inv
    OBVIOUS
  <1>1. TruePin \in Text /\ Whole(TruePin)
    BY KnownTexts, KnownWhole
  <1>2. /\ [Defaults EXCEPT !.sim_pin = TruePin] \in Config
        /\ ConfigOK([Defaults EXCEPT !.sim_pin = TruePin])
    BY <1>1, DefaultsType, TextSet DEF TextFields
  <1>3. flash = Blank \/ flash.sim_pin = TruePin
    BY DefaultsType DEF Init, Config
  <1>4. Settled
    BY <1>2, BlankType DEF Init, Settled
  <1>5. Stacked /\ stack = <<>> /\ pc = "init"
    BY DEF Init, Stacked
  <1>6. Rest
    <2>1. restarts \in 0 .. MaxRestarts
      BY SettingsAssumption DEF Init
    <2>2. attempts \in 0 .. 3 /\ attempts # 0
      BY DEF Init
    <2>3. initialized \in BOOLEAN /\ announced \in BOOLEAN /\ blame \in BOOLEAN /\ missed \in BOOLEAN
      BY DEF Init
    <2>4. toPico \in Seq({"pin", "ready", "puk", "incorrect", "error"}) /\ setUp \subseteq 1 .. 5
      BY DEF Init
    <2>5. pc = "init" /\ step2 = 0 /\ fed = 0 /\ sim = "pin"
      BY DEF Init
    <2> QED
      BY <2>1, <2>2, <2>3, <2>4, <2>5 DEF Rest
  <1>7. Kept /\ FedInv
    BY DEF Init, Kept, FedInv, Base
  <1>8. PinInv
    BY <1>3, <1>5 DEF Init, PinInv, Copying
  <1> QED
    BY <1>4, <1>5, <1>6, <1>7, <1>8 DEF Inv, Shape

LEMMA Invariant == Spec => []Inv
  <1>1. Inv /\ [Next]_vars => Inv'
    BY SettledStep, RestStep, KeptStep, PinStep, FedStep DEF Inv, Shape
  <1> QED
    BY <1>1, InvInit, PTL DEF Spec

(* The settings, the stack of handlers and what the modem is sent keep their  *)
(* types: no setting outside its limits is in use or in the flash.           *)
THEOREM TypeCorrect == Spec => []TypeOK
  <1>1. Inv => TypeOK
    <2>1. Stacked => \A i \in DOMAIN stack : stack[i].at \in {"set", "save", "program", "reset", "cfun"}
      <3> SUFFICES ASSUME Stacked, NEW i \in DOMAIN stack
                   PROVE  stack[i].at \in {"set", "save", "program", "reset", "cfun"}
        OBVIOUS
      <3>1. stack[i] \in Frame
        BY DEF Stacked
      <3> QED
        BY <3>1 DEF Frame, Setting, Saving, Ending
    <2> QED
      BY <2>1 DEF Inv, Shape, Settled, Stacked, Rest, TypeOK
  <1> QED
    BY <1>1, Invariant, PTL

(* config.c:37: whatever commands and requests of the page meet, and wherever *)
(* the power fails, what is in use is what the flash holds when no handler is *)
(* at work.                                                                 *)
THEOREM SettingsKept == Spec => []Kept
  <1>1. Inv => Kept
    BY DEF Inv
  <1> QED
    BY <1>1, Invariant, PTL

(* modem.c:170-211: the firmware itself never blocks the SIM.                *)
THEOREM SimNotBlocked == Spec => []SimSafe
  <1>1. Inv => SimSafe
    BY DEF Inv, PinInv, SimSafe
  <1> QED
    BY <1>1, Invariant, PTL

(* modem.c:321-380: at most six waits, twelve seconds, lie between two        *)
(* feedings of the watchdog.                                                *)
THEOREM WatchdogFed == Spec => []FedInTime
  <1>1. Inv => FedInTime
    <2> SUFFICES ASSUME Inv PROVE FedInTime
      OBVIOUS
    <2>1. step2 \in {0, 1, 2, 3, 4, 5} /\ fed \in Nat
      BY DEF Inv, Shape, Rest
    <2>2. Base \in {0, 1, 2}
      BY DEF Base
    <2>3. fed <= 5
      BY <2>1, <2>2 DEF Inv, FedInv
    <2> QED
      BY <2>1, <2>3 DEF FedInTime
  <1> QED
    BY <1>1, Invariant, PTL
=============================================================================
