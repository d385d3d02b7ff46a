---------------------------- MODULE ConsoleProofs ----------------------------
(***************************************************************************)
(* Theorems about Console, for a ring of any size, lines of any length and  *)
(* any number of pieces: its types, RingInOrder and NothingMissed.  The      *)
(* first is stated of rings of which nothing is torn, and the second of      *)
(* cursors: both rest on the history `torn', which no step of the code reads. *)
(***************************************************************************)
EXTENDS Console, FiniteSetTheorems, WellFoundedInduction, TLAPS

(* The slot after h, around the ring, and how far slot s lies behind h.      *)
Succ(h) == (h + 1) % LOG_LINES
Back(h, s) == IF s < h THEN h - s ELSE h - s + LOG_LINES

AnyLine == [id : Nat, text : Seq(Nat)]

Until(text, p) == \A i \in DOMAIN text : text[i] <= p

(* A ring `buf' with its head at h that has given out the ids below n, next   *)
(* to the unfinished line `line', when p pieces have been printed.           *)
Typed(buf, h, n, line, p) ==
    /\ h \in Slots /\ n \in Nat \ {0} /\ p \in Nat /\ line \in Seq(Nat)
    /\ buf \in [Slots -> AnyLine]

InPlace(buf, h, n, s) ==
    /\ Back(h, s) < n => buf[s].id = n - Back(h, s)
    /\ Back(h, s) >= n => buf[s] = NoLine

Numbered(buf, h, n) == \A s \in Slots : InPlace(buf, h, n, s)

Sorted(buf, line, p) ==
    /\ Ascending(line) /\ Until(line, p)
    /\ \A s \in Slots :
          /\ Ascending(buf[s].text) /\ Until(buf[s].text, p) /\ Before(buf[s].text, line)
          /\ \A t \in Slots : buf[s].id < buf[t].id => Before(buf[s].text, buf[t].text)

Good(buf, h, n, line, p) ==
    Typed(buf, h, n, line, p) /\ Numbered(buf, h, n) /\ Sorted(buf, line, p)

-----------------------------------------------------------------------------
(* Around the ring *)

LEMMA SuccFacts ==
    ASSUME NEW h \in Slots
    PROVE  /\ Succ(h) = IF h + 1 = LOG_LINES THEN 0 ELSE h + 1
           /\ Succ(h) \in Slots
  <1>1. LOG_LINES \in Nat \ {0} /\ h \in Nat /\ h < LOG_LINES
    BY ConsoleAssumption DEF Slots
  <1>2. CASE h + 1 = LOG_LINES
    <2>1. LOG_LINES % LOG_LINES = 0
      BY <1>1
    <2> QED
      BY <1>1, <1>2, <2>1 DEF Succ, Slots
  <1>3. CASE h + 1 # LOG_LINES
    <2>1. (h + 1) % LOG_LINES = h + 1
      BY <1>1, <1>3
    <2> QED
      BY <1>1, <1>3, <2>1 DEF Succ, Slots
  <1> QED
    BY <1>2, <1>3

(* Two steps around the ring, as log_head + 2 in one go.                     *)
LEMMA SuccTwice ==
    ASSUME NEW h \in Slots PROVE (h + 2) % LOG_LINES = Succ(Succ(h))
  <1>1. LOG_LINES \in Nat \ {0} /\ h \in Nat /\ h < LOG_LINES
    BY ConsoleAssumption DEF Slots
  <1>2. CASE h + 2 < LOG_LINES
    <2>1. (h + 2) % LOG_LINES = h + 2
      BY <1>1, <1>2
    <2> QED
      BY <1>1, <1>2, <2>1, SuccFacts
  <1>3. CASE h + 2 >= LOG_LINES /\ LOG_LINES # 1
    <2>1. (h + 2) % LOG_LINES = h + 2 - LOG_LINES
      BY <1>1, <1>3
    <2> QED
      BY <1>1, <1>3, <2>1, SuccFacts
  <1>4. CASE LOG_LINES = 1
    <2>1. (h + 2) % 1 = 0
      BY <1>1
    <2> QED
      BY <1>1, <1>4, <2>1, SuccFacts
  <1> QED
    BY <1>1, <1>2, <1>3, <1>4

(* A step of the head puts every slot one further behind it, but the one it  *)
(* leaves, which lies last now.                                              *)
LEMMA BackSteps ==
    ASSUME NEW h \in Slots, NEW s \in Slots
    PROVE  /\ Back(h, s) \in 1 .. LOG_LINES
           /\ s = h <=> Back(h, s) = LOG_LINES
           /\ Back(Succ(h), s) = IF s = h THEN 1 ELSE Back(h, s) + 1
  BY SuccFacts, ConsoleAssumption DEF Back, Slots

LEMMA BackInjective ==
    ASSUME NEW h \in Slots, NEW s \in Slots, NEW t \in Slots, Back(h, s) = Back(h, t)
    PROVE  s = t
  BY ConsoleAssumption DEF Back, Slots

LEMMA BackOnto ==
    ASSUME NEW h \in Slots, NEW d \in 1 .. LOG_LINES
    PROVE  \E s \in Slots : Back(h, s) = d
  <1>1. CASE d <= h
    BY <1>1, ConsoleAssumption DEF Back, Slots
  <1>2. CASE d > h
    <2>1. h - d + LOG_LINES \in Slots /\ ~(h - d + LOG_LINES < h)
      BY <1>2, ConsoleAssumption DEF Slots
    <2> QED
      BY <2>1, ConsoleAssumption DEF Back, Slots
  <1> QED
    BY <1>1, <1>2 DEF Slots

-----------------------------------------------------------------------------
(* What printing a piece and filing a line do to any ring *)

LEMMA StoredFacts ==
    ASSUME NEW line \in Seq(Nat), NEW piece \in Nat
    PROVE  /\ Stored(line, piece) \in Seq(Nat)
           /\ Len(Stored(line, piece)) \in {Len(line), Len(line) + 1}
           /\ \A i \in DOMAIN Stored(line, piece) :
                 Stored(line, piece)[i] = IF i \in DOMAIN line THEN line[i] ELSE piece
           /\ \A i, j \in DOMAIN Stored(line, piece) :
                 i < j => i \in DOMAIN line
  <1>1. CASE Len(line) < LOG_LEN
    BY <1>1 DEF Stored
  <1>2. CASE ~(Len(line) < LOG_LEN)
    BY <1>2 DEF Stored
  <1> QED
    BY <1>1, <1>2

LEMMA PrintOne ==
    ASSUME NEW buf, NEW h, NEW n, NEW line, NEW p, Good(buf, h, n, line, p)
    PROVE  Good(buf, h, n, Stored(line, p + 1), p + 1)
  <1> DEFINE longer == Stored(line, p + 1)
  <1>1. /\ p \in Nat /\ p + 1 \in Nat /\ line \in Seq(Nat) /\ buf \in [Slots -> AnyLine]
        /\ Sorted(buf, line, p)
    BY DEF Good, Typed
  <1>2. /\ longer \in Seq(Nat)
        /\ \A i \in DOMAIN longer : longer[i] = IF i \in DOMAIN line THEN line[i] ELSE p + 1
        /\ \A i, j \in DOMAIN longer : i < j => i \in DOMAIN line
    BY <1>1, StoredFacts
  <1> HIDE DEF longer
  <1>3. \A i \in DOMAIN line : line[i] \in Nat /\ line[i] <= p
    BY <1>1 DEF Sorted, Until
  <1>4. Ascending(longer) /\ Until(longer, p + 1)
    <2>1. \A i, j \in DOMAIN line : i < j => line[i] < line[j]
      BY <1>1 DEF Sorted, Ascending
    <2>2. ASSUME NEW i \in DOMAIN longer, NEW j \in DOMAIN longer, i < j
          PROVE  longer[i] < longer[j]
      <3>1. i \in DOMAIN line /\ longer[i] = line[i]
        BY <1>2, <2>2
      <3>2. CASE j \in DOMAIN line
        BY <1>2, <2>1, <2>2, <3>1, <3>2
      <3>3. CASE j \notin DOMAIN line
        BY <1>1, <1>2, <1>3, <3>1, <3>3
      <3> QED
        BY <3>2, <3>3
    <2>3. ASSUME NEW i \in DOMAIN longer PROVE longer[i] <= p + 1
      BY <1>1, <1>2, <1>3
    <2> QED
      BY <2>2, <2>3 DEF Ascending, Until
  <1>5. ASSUME NEW s \in Slots
        PROVE  Until(buf[s].text, p + 1) /\ Before(buf[s].text, longer)
    <2>1. /\ buf[s].text \in Seq(Nat) /\ Until(buf[s].text, p) /\ Before(buf[s].text, line)
      BY <1>1 DEF Sorted, AnyLine
    <2> DEFINE text == buf[s].text
    <2>2. \A i \in DOMAIN text : text[i] \in Nat /\ text[i] <= p
      BY <2>1 DEF Until
    <2>3. \A i \in DOMAIN text, j \in DOMAIN line : text[i] < line[j]
      BY <2>1 DEF Before
    <2> HIDE DEF text
    <2>4. ASSUME NEW i \in DOMAIN text, NEW j \in DOMAIN longer PROVE text[i] < longer[j]
      <3>1. CASE j \in DOMAIN line
        BY <1>2, <2>3, <3>1
      <3>2. CASE j \notin DOMAIN line
        BY <1>1, <1>2, <2>2, <3>2
      <3> QED
        BY <3>1, <3>2
    <2>5. \A i \in DOMAIN text : text[i] <= p + 1
      BY <1>1, <2>2
    <2> QED
      BY <2>4, <2>5 DEF Until, Before, text
  <1>6. Sorted(buf, longer, p + 1)
    BY <1>1, <1>4, <1>5 DEF Sorted
  <1> QED
    BY <1>1, <1>2, <1>6 DEF Good, Typed, longer

(* log_add_line: the line takes the slot under the head, in which the oldest *)
(* was, and the next id; a new line begins.                                 *)
LEMMA FileOne ==
    ASSUME NEW buf, NEW h, NEW n, NEW line, NEW p, Good(buf, h, n, line, p)
    PROVE  Good([buf EXCEPT ![h] = [id |-> n, text |-> line]], Succ(h), n + 1, <<>>, p)
  <1> DEFINE filed == [buf EXCEPT ![h] = [id |-> n, text |-> line]]
  <1>1. /\ h \in Slots /\ n \in Nat \ {0} /\ p \in Nat /\ line \in Seq(Nat)
        /\ buf \in [Slots -> AnyLine] /\ Numbered(buf, h, n) /\ Sorted(buf, line, p)
    BY DEF Good, Typed
  <1>2. /\ filed \in [Slots -> AnyLine]
        /\ filed[h].id = n /\ filed[h].text = line
        /\ \A s \in Slots : s # h => filed[s] = buf[s]
    BY <1>1 DEF AnyLine
  <1> HIDE DEF filed
  <1>3. Typed(filed, Succ(h), n + 1, <<>>, p)
    BY <1>1, <1>2, SuccFacts DEF Typed
  <1>4. Numbered(filed, Succ(h), n + 1)
    <2> SUFFICES ASSUME NEW s \in Slots
                 PROVE  InPlace(filed, Succ(h), n + 1, s)
      BY DEF Numbered
    <2>1. CASE s = h
      <3>1. Back(Succ(h), s) = 1
        BY <1>1, <2>1, BackSteps
      <3> QED
        BY <1>1, <1>2, <2>1, <3>1 DEF InPlace
    <2>2. CASE s # h
      <3>1. Back(Succ(h), s) = Back(h, s) + 1 /\ Back(h, s) \in Nat
        BY <1>1, <2>2, BackSteps, ConsoleAssumption
      <3>2. InPlace(buf, h, n, s)
        BY <1>1 DEF Numbered
      <3>3. filed[s] = buf[s]
        BY <1>2, <2>2
      <3> QED
        BY <1>1, <3>1, <3>2, <3>3 DEF InPlace
    <2> QED
      BY <2>1, <2>2
  <1>5. \A s \in Slots : s # h => filed[s].id < n
    <2> SUFFICES ASSUME NEW s \in Slots, s # h PROVE buf[s].id < n
      BY <1>2
    <2>1. Back(h, s) \in 1 .. LOG_LINES
      BY <1>1, BackSteps
    <2>2. CASE Back(h, s) < n
      BY <1>1, <2>1, <2>2, ConsoleAssumption DEF Numbered, InPlace
    <2>3. CASE ~(Back(h, s) < n)
      BY <1>1, <2>1, <2>3, ConsoleAssumption DEF Numbered, InPlace, NoLine
    <2> QED
      BY <2>2, <2>3
  <1>6. Sorted(filed, <<>>, p)
    <2>1. \A s \in Slots : /\ Ascending(filed[s].text) /\ Until(filed[s].text, p)
                           /\ Before(filed[s].text, <<>>)
      BY <1>1, <1>2 DEF Sorted, Before
    <2>2. ASSUME NEW s \in Slots, NEW t \in Slots, filed[s].id < filed[t].id
          PROVE  Before(filed[s].text, filed[t].text)
      <3>1. s # h
        <4>1. CASE t = h
          BY <1>1, <1>2, <2>2, <4>1
        <4>2. CASE t # h
          <5>1. filed[t].id < n /\ filed[t].id \in Nat
            BY <1>2, <1>5, <4>2 DEF AnyLine
          <5> QED
            BY <1>1, <1>2, <2>2, <5>1
        <4> QED
          BY <4>1, <4>2
      <3>2. CASE t = h
        BY <1>1, <1>2, <3>1, <3>2 DEF Sorted
      <3>3. CASE t # h
        BY <1>1, <1>2, <2>2, <3>1, <3>3 DEF Sorted
      <3> QED
        BY <3>2, <3>3
    <2>3. Ascending(<<>>) /\ Until(<<>>, p)
      BY DEF Ascending, Until
    <2> QED
      BY <2>1, <2>2, <2>3 DEF Sorted
  <1> QED
    BY <1>3, <1>4, <1>6 DEF Good, filed

-----------------------------------------------------------------------------
(* Ids are never ahead of what was printed: a line that has one, or is about  *)
(* to take one, has a piece.                                                *)
Shape ==
    /\ ConTypeOK
    /\ log_next_id <= printed + 1
    /\ filing = "no" /\ linebuf # <<>> => log_next_id <= printed
    /\ filing \in {"take", "number"} => log_next_id <= printed
    /\ filing = "number" => entry.id \in 1 .. printed

(* The ring is good between two lines, and as long as log_add_line has not   *)
(* given out the id; from then on it is what it will be at the end of it.    *)
RingInv ==
    /\ filing \in {"take", "number", "copy", "head"} => entry.slot = log_head
    /\ filing = "number" => entry.id = log_next_id
    /\ filing \in {"no", "take", "number"} =>
          Good(log_buf, log_head, log_next_id, linebuf, printed)
    /\ filing = "copy" =>
          Good([log_buf EXCEPT ![entry.slot].text = linebuf], Succ(log_head), log_next_id, <<>>, printed)
    /\ filing = "head" => Good(log_buf, Succ(log_head), log_next_id, <<>>, printed)
    /\ filing = "clear" => Good(log_buf, log_head, log_next_id, <<>>, printed)

(* What an answer holds: every line after the page's cursor up to the new     *)
(* one, but for those the ring had lost.                                     *)
Covers(a, id) ==
    \A i \in id + 1 .. a.since :
        i < a.oldest \/ \E k \in DOMAIN a.rows : a.rows[k].id = i

PageInv ==
    /\ page = "wait" <=> answer # NoAnswer
    /\ page = "poll" => asked <= since
    /\ ~torn /\ answer # NoAnswer => Covers(answer, since)

Inv == Shape /\ (~torn => RingInv) /\ PageInv

-----------------------------------------------------------------------------
(* The steps of printing *)

LEMMA StoredTyped ==
    ASSUME NEW line \in Seq(Pieces), Len(line) <= LOG_LEN, NEW piece \in Pieces
    PROVE  /\ Stored(line, piece) \in Seq(Pieces) /\ Len(Stored(line, piece)) <= LOG_LEN
           /\ Stored(line, piece) # <<>>
  <1>1. CASE Len(line) < LOG_LEN
    <2>1. Stored(line, piece) = Append(line, piece)
      BY <1>1 DEF Stored
    <2> QED
      BY <1>1, <2>1, ConsoleAssumption
  <1>2. CASE ~(Len(line) < LOG_LEN)
    BY <1>2, ConsoleAssumption DEF Stored
  <1> QED
    BY <1>1, <1>2

(* One line of a web callback goes into the slot under the head ...          *)
LEMMA WebPrintsOne ==
    ASSUME log_head \in Slots, DOMAIN log_buf = Slots, WebPrintsLines(1)
    PROVE  /\ log_buf' = [s \in Slots |->
                 IF s = log_head
                 THEN [id |-> log_next_id + 1 - 1, text |-> Stored(linebuf, printed + 1)]
                 ELSE log_buf[s]]
           /\ log_head' = Succ(log_head)
  <1> DEFINE here(s) == {k \in 1 .. 1 : (log_head + k - 1) % LOG_LINES = s}
  <1>1. log_head \in Nat /\ log_head < LOG_LINES /\ LOG_LINES \in Nat \ {0}
    BY ConsoleAssumption DEF Slots
  <1>2. log_head % LOG_LINES = log_head /\ log_head + 1 - 1 = log_head
    BY <1>1
  <1>3. \A s \in Slots : here(s) = IF s = log_head THEN {1} ELSE {}
    BY <1>1, <1>2
  <1>4. (CHOOSE k \in {1} : \A j \in {1} : j <= k) = 1
    OBVIOUS
  <1>5. Filed(1)[1] = Stored(linebuf, printed + 1)
    BY DEF Filed
  <1>6. log_buf' = [s \in Slots |->
          IF here(s) = {} THEN log_buf[s]
          ELSE LET k == CHOOSE k \in here(s) : \A j \in here(s) : j <= k
               IN  [id |-> log_next_id + k - 1, text |-> Filed(1)[k]]]
    BY DEF WebPrintsLines
  <1> HIDE DEF here
  <1>7. log_buf' = [s \in Slots |->
          IF s = log_head
          THEN [id |-> log_next_id + 1 - 1, text |-> Stored(linebuf, printed + 1)]
          ELSE log_buf[s]]
    BY <1>3, <1>4, <1>5, <1>6
  <1> QED
    BY <1>7 DEF WebPrintsLines, Succ

(* ... and two of them as if they were filed one after the other.            *)
LEMMA WebPrintsTwo ==
    ASSUME log_head \in Slots, DOMAIN log_buf = Slots, WebPrintsLines(2)
    PROVE  /\ log_buf' = [s \in Slots |->
                 IF s = Succ(log_head)
                 THEN [id |-> log_next_id + 2 - 1, text |-> Stored(<<>>, printed + 2)]
                 ELSE IF s = log_head
                 THEN [id |-> log_next_id + 1 - 1, text |-> Stored(linebuf, printed + 1)]
                 ELSE log_buf[s]]
           /\ log_head' = Succ(Succ(log_head))
  <1> DEFINE here(s) == {k \in 1 .. 2 : (log_head + k - 1) % LOG_LINES = s}
             last(S) == CHOOSE k \in S : \A j \in S : j <= k
  <1>1. log_head \in Nat /\ log_head < LOG_LINES /\ LOG_LINES \in Nat \ {0}
    BY ConsoleAssumption DEF Slots
  <1>2. /\ (log_head + 1 - 1) % LOG_LINES = log_head
        /\ (log_head + 2 - 1) % LOG_LINES = Succ(log_head)
    <2>1. log_head + 1 - 1 = log_head /\ log_head + 2 - 1 = log_head + 1
      BY <1>1
    <2>2. log_head % LOG_LINES = log_head
      BY <1>1
    <2> QED
      BY <2>1, <2>2 DEF Succ
  <1>3. \A s \in Slots : here(s) = (IF s = log_head THEN {1} ELSE {})
                                  \cup (IF s = Succ(log_head) THEN {2} ELSE {})
    <2>1. 1 .. 2 = {1, 2}
      OBVIOUS
    <2> QED
      BY <1>2, <2>1
  <1>4. last({1}) = 1 /\ last({2}) = 2 /\ last({1, 2}) = 2
    OBVIOUS
  <1>5. /\ Filed(2)[1] = Stored(linebuf, printed + 1)
        /\ Filed(2)[2] = Stored(<<>>, printed + 2)
    BY DEF Filed
  <1>6. log_buf' = [s \in Slots |->
          IF here(s) = {} THEN log_buf[s]
          ELSE [id |-> log_next_id + last(here(s)) - 1, text |-> Filed(2)[last(here(s))]]]
    BY DEF WebPrintsLines
  <1> HIDE DEF here, last
  <1>7. ASSUME NEW s \in Slots
        PROVE  log_buf'[s] =
                 IF s = Succ(log_head)
                 THEN [id |-> log_next_id + 2 - 1, text |-> Stored(<<>>, printed + 2)]
                 ELSE IF s = log_head
                 THEN [id |-> log_next_id + 1 - 1, text |-> Stored(linebuf, printed + 1)]
                 ELSE log_buf[s]
    <2>1. CASE s = Succ(log_head) /\ s = log_head
      <3>1. here(s) = {1, 2}
        BY <1>3, <2>1
      <3> QED
        BY <1>4, <1>5, <1>6, <2>1, <3>1
    <2>2. CASE s = Succ(log_head) /\ s # log_head
      <3>1. here(s) = {2}
        BY <1>3, <2>2
      <3> QED
        BY <1>4, <1>5, <1>6, <2>2, <3>1
    <2>3. CASE s # Succ(log_head) /\ s = log_head
      <3>1. here(s) = {1}
        BY <1>3, <2>3
      <3> QED
        BY <1>4, <1>5, <1>6, <2>3, <3>1
    <2>4. CASE s # Succ(log_head) /\ s # log_head
      <3>1. here(s) = {}
        BY <1>3, <2>4
      <3> QED
        BY <1>6, <2>4, <3>1
    <2> QED
      BY <2>1, <2>2, <2>3, <2>4
  <1>8. log_buf' = [s \in Slots |->
          IF s = Succ(log_head)
          THEN [id |-> log_next_id + 2 - 1, text |-> Stored(<<>>, printed + 2)]
          ELSE IF s = log_head
          THEN [id |-> log_next_id + 1 - 1, text |-> Stored(linebuf, printed + 1)]
          ELSE log_buf[s]]
    BY <1>6, <1>7
  <1> QED
    BY <1>8, SuccTwice DEF WebPrintsLines

LEMMA PrintsNumbers ==
    ASSUME Shape, NEW n \in 1 .. 2, WebPrintsLines(n)
    PROVE  /\ n = 1 \/ n = 2
           /\ printed + n \in Nat /\ printed + n <= MaxPieces
           /\ log_next_id + n \in 1 .. MaxPieces + 1 /\ log_next_id + n <= printed + n + 1
           /\ \A k \in 1 .. n : log_next_id + k - 1 \in Ids /\ printed + k \in Pieces
  BY ConsoleAssumption DEF Shape, ConTypeOK, WebPrintsLines, Ids, Pieces

LEMMA WebTyped ==
    ASSUME Shape, NEW n \in 1 .. 2, WebPrintsLines(n) PROVE Shape'
  <1>1. /\ log_head \in Slots /\ DOMAIN log_buf = Slots /\ \A s \in Slots : log_buf[s] \in Line
        /\ linebuf \in Seq(Pieces) /\ Len(linebuf) <= LOG_LEN
    BY DEF Shape, ConTypeOK
  <1>2. <<>> \in Seq(Pieces) /\ Len(<<>>) <= LOG_LEN
    BY ConsoleAssumption
  <1>3. /\ DOMAIN log_buf' = Slots /\ \A s \in Slots : log_buf'[s] \in Line
        /\ log_head' \in Slots
    <2>1. CASE n = 1
      <3>1. /\ log_next_id + 1 - 1 \in Ids /\ Stored(linebuf, printed + 1) \in Seq(Pieces)
        BY <1>1, <2>1, PrintsNumbers, StoredTyped
      <3>2. [id |-> log_next_id + 1 - 1, text |-> Stored(linebuf, printed + 1)] \in Line
        BY <3>1 DEF Line
      <3> QED
        BY <1>1, <2>1, <3>2, WebPrintsOne, SuccFacts
    <2>2. CASE n = 2
      <3>1. /\ log_next_id + 1 - 1 \in Ids /\ Stored(linebuf, printed + 1) \in Seq(Pieces)
            /\ log_next_id + 2 - 1 \in Ids /\ Stored(<<>>, printed + 2) \in Seq(Pieces)
        <4>1. /\ 1 \in 1 .. n /\ 2 \in 1 .. n
          BY <2>2
        <4>2. /\ log_next_id + 1 - 1 \in Ids /\ printed + 1 \in Pieces
              /\ log_next_id + 2 - 1 \in Ids /\ printed + 2 \in Pieces
          BY <4>1, PrintsNumbers
        <4> QED
          BY <1>1, <1>2, <4>2, StoredTyped
      <3>2. /\ [id |-> log_next_id + 1 - 1, text |-> Stored(linebuf, printed + 1)] \in Line
            /\ [id |-> log_next_id + 2 - 1, text |-> Stored(<<>>, printed + 2)] \in Line
        BY <3>1 DEF Line
      <3>3. Succ(log_head) \in Slots /\ Succ(Succ(log_head)) \in Slots
        BY <1>1, SuccFacts
      <3> QED
        BY <1>1, <2>2, <3>2, <3>3, WebPrintsTwo
    <2> QED
      BY <2>1, <2>2, PrintsNumbers
  <1>4. /\ log_next_id' = log_next_id + n /\ linebuf' = <<>> /\ printed' = printed + n
        /\ torn' \in BOOLEAN /\ UNCHANGED <<filing, entry, page, since, asked, answer>>
    BY DEF WebPrintsLines, pageVars, Shape, ConTypeOK
  <1>5. log_next_id' \in 1 .. MaxPieces + 1 /\ printed' \in 0 .. MaxPieces
        /\ log_next_id' <= printed' + 1 /\ printed' >= printed
        /\ (filing \in {"take", "number"} => log_next_id' <= printed')
    BY <1>4, PrintsNumbers, ConsoleAssumption DEF Shape, ConTypeOK
  <1>6. ConTypeOK'
    BY <1>2, <1>3, <1>4, <1>5 DEF Shape, ConTypeOK
  <1> QED
    BY <1>4, <1>5, <1>6 DEF Shape, ConTypeOK

(* The steps of the main loop.                                              *)
LEMMA LoopTyped == ASSUME Shape, ConLoopNext PROVE Shape'
  <1> USE ConsoleAssumption DEF Shape
  <1>0. ConTypeOK
    OBVIOUS
  <1>1. CASE LoopPrints
    <2>1. /\ printed + 1 \in Pieces /\ printed + 1 \in 0 .. MaxPieces
          /\ Stored(linebuf, printed + 1) \in Seq(Pieces)
          /\ Len(Stored(linebuf, printed + 1)) <= LOG_LEN
      <3>1. printed + 1 \in Pieces /\ printed + 1 \in 0 .. MaxPieces
        BY <1>1 DEF LoopPrints, ConTypeOK, Pieces
      <3> QED
        BY <3>1, StoredTyped DEF ConTypeOK
    <2> QED
      BY <1>1, <2>1 DEF LoopPrints, ConTypeOK, pageVars
  <1>2. CASE LoopEndsLine
    BY <1>2 DEF LoopEndsLine, ConTypeOK, pageVars
  <1>3. CASE TakeId
    BY <1>3 DEF TakeId, ConTypeOK, Ids, pageVars
  <1>4. CASE Number
    <2>1. /\ entry.slot \in Slots /\ entry.id \in Ids /\ entry.id + 1 \in 1 .. MaxPieces + 1
          /\ entry.id <= printed
      BY <1>4 DEF Number, ConTypeOK, Ids
    <2>2. [log_buf[entry.slot] EXCEPT !.id = entry.id] \in Line
      BY <2>1 DEF ConTypeOK, Line
    <2> QED
      BY <1>4, <2>1, <2>2 DEF Number, ConTypeOK, pageVars
  <1>5. CASE CopyText
    <2>1. [log_buf[entry.slot] EXCEPT !.text = linebuf] \in Line
      BY DEF ConTypeOK, Line
    <2> QED
      BY <1>5, <2>1 DEF CopyText, ConTypeOK, pageVars
  <1>6. CASE MoveHead
    <2>1. log_head' \in Slots
      BY <1>6, SuccFacts DEF MoveHead, Succ, ConTypeOK
    <2> QED
      BY <1>6, <2>1 DEF MoveHead, ConTypeOK, pageVars
  <1>7. CASE ClearLine
    <2>1. NotFiling \in [slot : Slots, id : {0} \cup Ids] /\ <<>> \in Seq(Pieces) /\ Len(<<>>) <= LOG_LEN
      BY DEF NotFiling, Slots
    <2> QED
      BY <1>7, <2>1 DEF ClearLine, ConTypeOK, pageVars
  <1> QED
    BY <1>1, <1>2, <1>3, <1>4, <1>5, <1>6, <1>7 DEF ConLoopNext

-----------------------------------------------------------------------------
(* Answers *)

(* A set of slots has a highest one.                                        *)
LEMMA HighestSlot ==
    ASSUME NEW S \in SUBSET Slots, S # {}
    PROVE  Max(S) \in S /\ \A s \in S : s <= Max(S)
  <1> DEFINE D == {LOG_LINES - s : s \in S}
             Less == {p \in Nat \X Nat : p[1] < p[2]}
  <1>0. \A s \in S : s \in Int /\ LOG_LINES - s \in Nat
    BY ConsoleAssumption DEF Slots
  <1>1. D \subseteq Nat /\ D # {}
    BY <1>0
  <1>2. IsWellFoundedOn(Less, Nat)
    BY NatLessThanWellFounded DEF OpToRel
  <1>3. PICK d \in D : \A e \in D : ~(<<e, d>> \in Less)
    <2> HIDE DEF D, Less
    <2> QED
      BY <1>1, <1>2, WFMin
  <1>4. PICK m \in S : d = LOG_LINES - m
    BY <1>3
  <1>5. ASSUME NEW s \in S PROVE m >= s
    <2>1. LOG_LINES - s \in D /\ LOG_LINES - s \in Nat /\ d \in Nat
      BY <1>0, <1>4
    <2>2. ~(LOG_LINES - s < d)
      BY <1>3, <2>1
    <2> QED
      BY <1>0, <1>4, <2>2, ConsoleAssumption
  <1>6. Max(S) \in S /\ \A s \in S : Max(S) >= s
    <2>1. \E m1 \in S : \A s \in S : m1 >= s
      BY <1>5
    <2> QED
      BY <2>1 DEF Max
  <1> QED
    BY <1>0, <1>6

(* The new cursor is the old one, or the id of a line.                       *)
LEMMA SinceFacts ==
    ASSUME Shape, NEW id \in Nat
    PROVE  LET rows == console_get_since(id)
           IN  /\ DOMAIN rows \subseteq Slots
               /\ \A s \in DOMAIN rows : rows[s] = log_buf[s] /\ rows[s].id > id
               /\ \A s \in Slots : log_buf[s].id > id => s \in DOMAIN rows
               /\ \/ new_since(rows, id) = id
                  \/ \E s \in DOMAIN rows : new_since(rows, id) = rows[s].id
  <1> DEFINE rows == console_get_since(id)
  <1>1. /\ DOMAIN rows = {s \in Slots : log_buf[s].id > id}
        /\ \A s \in DOMAIN rows : rows[s] = log_buf[s]
    BY DEF console_get_since
  <1> HIDE DEF rows
  <1>2. CASE DOMAIN rows = {}
    BY <1>1, <1>2 DEF new_since, rows
  <1>3. CASE DOMAIN rows # {}
    <2>1. Max(DOMAIN rows) \in DOMAIN rows
      BY <1>1, <1>3, HighestSlot
    <2>2. new_since(rows, id) = rows[Max(DOMAIN rows)].id
      BY <1>3 DEF new_since
    <2> QED
      BY <1>1, <2>1, <2>2 DEF rows
  <1> QED
    BY <1>2, <1>3

LEMMA LinesTyped ==
    ASSUME Shape, NEW kind \in {"status", "lines"}, NEW id \in {0} \cup Ids, NEW room
    PROVE  LET a == Lines(kind, id, room)
           IN  /\ a # NoAnswer /\ a.kind \in {"status", "lines", "timeout"} /\ a.whole \in BOOLEAN
               /\ \A s \in DOMAIN a.rows : a.rows[s] \in Line
               /\ a.since \in {0} \cup Ids
  <1> DEFINE rows == console_get_since(id)
  <1>1. id \in Nat /\ \A s \in Slots : log_buf[s] \in Line
    BY DEF Ids, Shape, ConTypeOK
  <1>2. /\ DOMAIN rows \subseteq Slots
        /\ \A s \in DOMAIN rows : rows[s] = log_buf[s]
        /\ \/ new_since(rows, id) = id
           \/ \E s \in DOMAIN rows : new_since(rows, id) = rows[s].id
    BY <1>1, SinceFacts
  <1> HIDE DEF rows
  <1>3. \A s \in DOMAIN rows : rows[s] \in Line
    BY <1>1, <1>2
  <1>4. new_since(rows, id) \in {0} \cup Ids
    BY <1>2, <1>3 DEF Line
  <1>5. Lines(kind, id, room) =
          [kind |-> kind, rows |-> rows, since |-> new_since(rows, id),
           whole |-> TextLength(rows) <= room, oldest |-> log_next_id - LOG_LINES]
    BY DEF Lines, rows
  <1>6. (TextLength(rows) <= room) \in BOOLEAN
    OBVIOUS
  <1>7. Lines(kind, id, room) # NoAnswer
    BY <1>5 DEF NoAnswer
  <1> QED
    BY <1>3, <1>4, <1>5, <1>6, <1>7

(* The lines of the ring have the ids that are not too old, each its own.     *)
LEMMA RingIds ==
    ASSUME NEW buf, NEW h, NEW n, NEW line, NEW p, Good(buf, h, n, line, p), NEW s \in Slots
    PROVE  /\ buf[s].id < n
           /\ buf[s] # NoLine => /\ buf[s].id = n - Back(h, s)
                                 /\ buf[s].id >= 1 /\ buf[s].id >= n - LOG_LINES
  <1>1. n \in Nat \ {0} /\ LOG_LINES \in Nat \ {0}
    BY ConsoleAssumption DEF Good, Typed
  <1>2. InPlace(buf, h, n, s) /\ Back(h, s) \in 1 .. LOG_LINES
    BY BackSteps DEF Good, Typed, Numbered
  <1>3. CASE Back(h, s) < n
    BY <1>1, <1>2, <1>3 DEF InPlace
  <1>4. CASE Back(h, s) >= n
    BY <1>1, <1>2, <1>4 DEF InPlace, NoLine
  <1> QED
    BY <1>1, <1>2, <1>3, <1>4

LEMMA RingComplete ==
    ASSUME NEW buf, NEW h, NEW n, NEW line, NEW p, Good(buf, h, n, line, p),
           NEW i \in 1 .. n - 1, i >= n - LOG_LINES
    PROVE  \E s \in Slots : buf[s].id = i
  <1>1. h \in Slots /\ n \in Nat \ {0} /\ LOG_LINES \in Nat \ {0}
    BY ConsoleAssumption DEF Good, Typed
  <1>2. n - i \in 1 .. LOG_LINES
    BY <1>1
  <1>3. PICK s \in Slots : Back(h, s) = n - i
    BY <1>1, <1>2, BackOnto
  <1>4. InPlace(buf, h, n, s)
    BY DEF Good, Numbered
  <1> QED
    BY <1>1, <1>3, <1>4 DEF InPlace

(* An answer that is made of a good ring covers what comes after the cursor.  *)
LEMMA LinesCover ==
    ASSUME Shape, Good(log_buf, log_head, log_next_id, linebuf, printed),
           NEW kind, NEW room, NEW id \in Nat, NEW cursor \in Nat, id <= cursor
    PROVE  Covers(Lines(kind, id, room), cursor)
  <1> DEFINE rows == console_get_since(id)
             a == Lines(kind, id, room)
  <1>1. /\ DOMAIN rows \subseteq Slots
        /\ \A s \in DOMAIN rows : rows[s] = log_buf[s] /\ rows[s].id > id
        /\ \A s \in Slots : log_buf[s].id > id => s \in DOMAIN rows
        /\ \/ new_since(rows, id) = id
           \/ \E s \in DOMAIN rows : new_since(rows, id) = rows[s].id
    BY SinceFacts
  <1> HIDE DEF rows
  <1>2. a.rows = rows /\ a.since = new_since(rows, id) /\ a.oldest = log_next_id - LOG_LINES
    BY DEF Lines, rows
  <1>3. log_next_id \in Nat /\ LOG_LINES \in Nat
        /\ \A s \in Slots : log_buf[s].id \in Nat /\ log_buf[s].id < log_next_id
    <2>1. \A s \in Slots : log_buf[s].id < log_next_id
      BY RingIds
    <2>2. \A s \in Slots : log_buf[s].id \in Nat
      BY DEF Good, Typed, AnyLine
    <2> QED
      BY <2>1, <2>2, ConsoleAssumption DEF Good, Typed
  <1>4. a.since \in Nat /\ (a.since = id \/ a.since < log_next_id)
    BY <1>1, <1>2, <1>3
  <1> HIDE DEF a
  <1>5. ASSUME NEW i \in cursor + 1 .. a.since, ~(i < a.oldest)
        PROVE  \E k \in DOMAIN a.rows : a.rows[k].id = i
    <2>1. i \in 1 .. log_next_id - 1 /\ i >= log_next_id - LOG_LINES /\ i > id
      BY <1>2, <1>3, <1>4, <1>5
    <2>2. PICK s \in Slots : log_buf[s].id = i
      BY <2>1, RingComplete
    <2>3. s \in DOMAIN rows
      BY <1>1, <2>1, <2>2
    <2> QED
      BY <1>1, <1>2, <2>2, <2>3
  <1>6. Covers(a, cursor)
    BY <1>5 DEF Covers
  <1> QED
    BY <1>6 DEF a

LEMMA CursorRead ==
    ASSUME NEW id \in Nat PROVE ReadCursor(id) \in 0 .. SINCE_MAX - 1 /\ ReadCursor(id) <= id
  <1>1. SINCE_MAX \in Nat \ {0}
    BY ConsoleAssumption
  <1>2. id % SINCE_MAX \in 0 .. SINCE_MAX - 1
    BY <1>1
  <1>3. id % SINCE_MAX <= id
    <2>1. CASE id < SINCE_MAX
      <3>1. id % SINCE_MAX = id
        BY <1>1, <2>1
      <3> QED
        BY <3>1
    <2>2. CASE ~(id < SINCE_MAX)
      BY <1>1, <1>2, <2>2
    <2> QED
      BY <2>1, <2>2
  <1> QED
    BY <1>2, <1>3 DEF ReadCursor

(* The steps of the requests and of the page.                                *)
LEMMA PageStep ==
    ASSUME Inv, ConWebNext \/ PageNext
    PROVE  Shape' /\ PageInv' /\ UNCHANGED ringVars /\ (~torn' => ~torn)
  <1> USE DEF Inv, Reads, Sends
  <1>1. /\ Shape /\ ConTypeOK /\ PageInv /\ torn \in BOOLEAN
        /\ since \in {0} \cup Ids /\ since \in Nat /\ Ids \subseteq Nat
    BY DEF Shape, ConTypeOK, Ids
  <1>2. ASSUME NEW kind \in {"status", "lines"}, NEW id \in {0} \cup Ids, NEW room,
               id <= since, UNCHANGED <<ringVars, since>>, Reads, page' = "wait",
               answer' = Lines(kind, id, room), asked' \in 0 .. SINCE_MAX - 1
        PROVE  Shape' /\ PageInv'
    <2>1. /\ answer' # NoAnswer /\ answer'.kind \in {"status", "lines", "timeout"}
          /\ answer'.whole \in BOOLEAN
          /\ \A s \in DOMAIN answer'.rows : answer'.rows[s] \in Line
          /\ answer'.since \in {0} \cup Ids
      BY <1>1, <1>2, LinesTyped
    <2>2. Shape'
      BY <1>1, <1>2, <2>1 DEF Shape, ConTypeOK, ringVars
    <2>3. ASSUME ~torn' PROVE Covers(answer', since')
      <3>1. ~torn /\ filing = "no"
        BY <1>1, <1>2, <2>3
      <3>2. Good(log_buf, log_head, log_next_id, linebuf, printed)
        BY <3>1 DEF RingInv
      <3>3. Covers(Lines(kind, id, room), since)
        BY <1>1, <1>2, <3>2, LinesCover
      <3> QED
        BY <1>2, <3>3
    <2> QED
      BY <1>2, <2>1, <2>2, <2>3 DEF PageInv
  <1>3. CASE Status
    <2>1. answer' = Lines("status", 0, StatusRoom) /\ page' = "wait" /\ UNCHANGED <<ringVars, since, asked>>
      BY <1>3 DEF Status
    <2>2. Shape' /\ PageInv'
      BY <1>1, <1>2, <1>3, <2>1 DEF Status, ConTypeOK
    <2> QED
      BY <1>1, <1>3, <2>2 DEF Status
  <1>4. CASE HandleConsole
    <2>1. asked' \in 0 .. SINCE_MAX - 1 /\ asked' <= since /\ asked' \in {0} \cup Ids
      BY <1>1, <1>4, CursorRead, ConsoleAssumption DEF HandleConsole, Ids
    <2>2. CASE answer' = Lines("lines", asked', AnswerRoom) /\ page' = "wait"
      BY <1>1, <1>2, <1>4, <2>1, <2>2 DEF HandleConsole
    <2>3. CASE page' = "poll" /\ UNCHANGED answer
      BY <1>1, <1>4, <2>1, <2>3 DEF HandleConsole, Shape, ConTypeOK, ringVars, PageInv
    <2> QED
      BY <1>1, <1>4, <2>2, <2>3 DEF HandleConsole
  <1>5. CASE PollLines
    <2>1. asked \in 0 .. SINCE_MAX - 1 /\ asked <= since /\ asked \in {0} \cup Ids
      BY <1>1, <1>5, ConsoleAssumption DEF PollLines, PageInv, ConTypeOK, Ids
    <2> QED
      BY <1>1, <1>2, <1>5, <2>1 DEF PollLines
  <1>6. CASE PollTimeout
    <2> DEFINE a == [kind |-> "timeout", rows |-> <<>>, since |-> 0, whole |-> TRUE, oldest |-> 0]
    <2>1. a # NoAnswer /\ a.kind = "timeout" /\ a.whole \in BOOLEAN /\ DOMAIN a.rows = {} /\ a.since = 0
      BY DEF NoAnswer
    <2>2. answer' = a /\ page' = "wait" /\ UNCHANGED <<ringVars, since, asked>> /\ torn' \in BOOLEAN
          /\ (~torn' => ~torn)
      BY <1>1, <1>6 DEF PollTimeout
    <2> HIDE DEF a
    <2>3. Shape'
      BY <1>1, <2>1, <2>2 DEF Shape, ConTypeOK, ringVars
    <2>4. Covers(a, since)
      BY <1>1, <2>1 DEF Covers
    <2> QED
      BY <2>1, <2>2, <2>3, <2>4 DEF PageInv
  <1>7. CASE Receive \/ ReceiveStatus
    <2>1. /\ answer # NoAnswer /\ answer' = NoAnswer /\ page' \in {"ask", "dead"}
          /\ UNCHANGED <<ringVars, asked, torn>>
          /\ since' = since \/ since' = answer.since
      BY <1>1, <1>7 DEF Receive, ReceiveStatus, PageInv
    <2>2. since' \in {0} \cup Ids
      BY <1>1, <2>1 DEF ConTypeOK
    <2> QED
      BY <1>1, <2>1, <2>2 DEF Shape, ConTypeOK, ringVars, PageInv
  <1>8. CASE Lose \/ LoseStatus
    BY <1>1, <1>8 DEF Lose, LoseStatus, Shape, ConTypeOK, ringVars, PageInv
  <1>9. CASE Reload
    <2>1. 0 \in 0 .. SINCE_MAX - 1
      BY ConsoleAssumption
    <2> QED
      BY <1>1, <1>9, <2>1 DEF Reload, Shape, ConTypeOK, ringVars, PageInv
  <1> QED
    BY <1>3, <1>4, <1>5, <1>6, <1>7, <1>8, <1>9 DEF ConWebNext, PageNext

-----------------------------------------------------------------------------
(* The ring, step by step *)

(* A ring that is not torn stays good through every step of the loop.        *)
LEMMA LoopRing == ASSUME Shape, RingInv, ConLoopNext PROVE RingInv'
  <1>1. CASE LoopPrints
    BY <1>1, PrintOne DEF LoopPrints, RingInv
  <1>2. CASE LoopEndsLine
    BY <1>2 DEF LoopEndsLine, RingInv
  <1>3. CASE TakeId
    BY <1>3 DEF TakeId, RingInv
  <1>4. CASE Number
    <2>1. /\ log_buf \in [Slots -> AnyLine] /\ log_head \in Slots
          /\ entry.slot = log_head /\ entry.id = log_next_id
          /\ Good(log_buf, log_head, log_next_id, linebuf, printed)
      BY <1>4 DEF Number, RingInv, Good, Typed
    <2>2. [log_buf' EXCEPT ![entry.slot].text = linebuf]
            = [log_buf EXCEPT ![log_head] = [id |-> log_next_id, text |-> linebuf]]
      <3>1. log_buf' = [log_buf EXCEPT ![log_head] = [log_buf[log_head] EXCEPT !.id = log_next_id]]
        BY <1>4, <2>1 DEF Number
      <3>2. [log_buf' EXCEPT ![entry.slot].text = linebuf]
              = [log_buf EXCEPT ![log_head] =
                   [[log_buf[log_head] EXCEPT !.id = log_next_id] EXCEPT !.text = linebuf]]
        <4> DEFINE numbered == [log_buf[log_head] EXCEPT !.id = log_next_id]
        <4>1. log_buf'[log_head] = numbered /\ log_buf' \in [Slots -> AnyLine]
          BY <2>1, <3>1 DEF AnyLine, Good, Typed
        <4> HIDE DEF numbered
        <4> QED
          BY <2>1, <3>1, <4>1 DEF numbered
      <3>3. [[log_buf[log_head] EXCEPT !.id = log_next_id] EXCEPT !.text = linebuf]
              = [id |-> log_next_id, text |-> linebuf]
        <4> DEFINE numbered == [log_buf[log_head] EXCEPT !.id = log_next_id]
        <4>1. numbered \in AnyLine /\ numbered.id = log_next_id
          BY <2>1 DEF AnyLine, Good, Typed
        <4> HIDE DEF numbered
        <4>2. [numbered EXCEPT !.text = linebuf] = [id |-> log_next_id, text |-> linebuf]
          BY <4>1 DEF AnyLine
        <4> QED
          BY <4>2 DEF numbered
      <3> QED
        BY <3>2, <3>3
    <2>3. Good([log_buf EXCEPT ![log_head] = [id |-> log_next_id, text |-> linebuf]],
               Succ(log_head), log_next_id + 1, <<>>, printed)
      BY <2>1, FileOne
    <2> QED
      BY <1>4, <2>1, <2>2, <2>3 DEF Number, RingInv
  <1>5. CASE CopyText
    BY <1>5 DEF CopyText, RingInv
  <1>6. CASE MoveHead
    BY <1>6 DEF MoveHead, RingInv, Succ
  <1>7. CASE ClearLine
    BY <1>7 DEF ClearLine, RingInv
  <1> QED
    BY <1>1, <1>2, <1>3, <1>4, <1>5, <1>6, <1>7 DEF ConLoopNext

(* A callback that prints between two lines of the loop files its lines as    *)
(* the loop would, the first with what the loop had put into the buffer.     *)
LEMMA WebRing ==
    ASSUME Shape, RingInv, NEW n \in 1 .. 2, WebPrintsLines(n), filing = "no"
    PROVE  RingInv'
  <1>1. /\ Good(log_buf, log_head, log_next_id, linebuf, printed)
        /\ log_head \in Slots /\ DOMAIN log_buf = Slots /\ log_buf \in [Slots -> AnyLine]
        /\ log_next_id \in Nat /\ printed \in Nat /\ Succ(log_head) \in Slots
    BY SuccFacts DEF RingInv, Good, Typed
  <1> DEFINE first == [log_buf EXCEPT ![log_head] =
                         [id |-> log_next_id, text |-> Stored(linebuf, printed + 1)]]
             second == [first EXCEPT ![Succ(log_head)] =
                         [id |-> log_next_id + 1, text |-> Stored(<<>>, printed + 1 + 1)]]
  <1>2. Good(first, Succ(log_head), log_next_id + 1, <<>>, printed + 1)
    BY <1>1, PrintOne, FileOne
  <1>3. Good(second, Succ(Succ(log_head)), log_next_id + 1 + 1, <<>>, printed + 1 + 1)
    <2> HIDE DEF first
    <2> QED
      BY <1>2, PrintOne, FileOne
  <1>4. CASE n = 1
    <2>1. log_buf' = first /\ log_head' = Succ(log_head)
      BY <1>1, <1>4, WebPrintsOne
    <2> QED
      BY <1>2, <1>4, <2>1 DEF WebPrintsLines, RingInv
  <1>5. CASE n = 2
    <2>1. log_next_id + 2 - 1 = log_next_id + 1 /\ printed + 2 = printed + 1 + 1
          /\ log_next_id + 1 - 1 = log_next_id /\ log_next_id + 2 = log_next_id + 1 + 1
      BY <1>1
    <2>2. log_buf' = second /\ log_head' = Succ(Succ(log_head))
      BY <1>1, <1>5, <2>1, WebPrintsTwo
    <2> QED
      BY <1>3, <1>5, <2>1, <2>2 DEF WebPrintsLines, RingInv
  <1> QED
    BY <1>4, <1>5

LEMMA InvInit == ConInit => Inv
  <1> SUFFICES ASSUME ConInit PROVE Inv
    OBVIOUS
  <1> USE ConsoleAssumption DEF ConInit
  <1>1. /\ NoLine \in Line /\ NoLine \in AnyLine /\ NotFiling \in [slot : Slots, id : {0} \cup Ids]
        /\ 0 \in Slots /\ NoLine.text = <<>>
    <2>1. 0 \in Slots
      BY DEF Slots
    <2>2. NoLine \in Line
      BY DEF NoLine, Line
    <2>3. NoLine \in AnyLine /\ NoLine.text = <<>>
      BY DEF NoLine, AnyLine
    <2>4. NotFiling \in [slot : Slots, id : {0} \cup Ids]
      BY <2>1 DEF NotFiling
    <2> QED
      BY <2>1, <2>2, <2>3, <2>4
  <1>2. DOMAIN EmptyRing = Slots /\ \A s \in Slots : EmptyRing[s] = NoLine
    BY DEF EmptyRing
  <1>3. Shape
    <2>1. DOMAIN log_buf = Slots /\ \A s \in Slots : log_buf[s] \in Line
      BY <1>1, <1>2
    <2>2. /\ log_next_id \in 1 .. MaxPieces + 1 /\ printed \in 0 .. MaxPieces /\ asked \in 0 .. SINCE_MAX - 1
          /\ linebuf \in Seq(Pieces) /\ Len(linebuf) <= LOG_LEN
      OBVIOUS
    <2>3. ConTypeOK
      BY <1>1, <2>1, <2>2 DEF ConTypeOK
    <2> QED
      BY <2>3 DEF Shape
  <1>4. EmptyRing \in [Slots -> AnyLine]
    BY <1>1 DEF EmptyRing
  <1>5. Good(EmptyRing, 0, 1, <<>>, 0)
    <2>1. Typed(EmptyRing, 0, 1, <<>>, 0)
      BY <1>1, <1>4 DEF Typed
    <2>2. Numbered(EmptyRing, 0, 1)
      BY <1>1, <1>2, BackSteps DEF Numbered, InPlace
    <2>3. Sorted(EmptyRing, <<>>, 0)
      BY <1>1, <1>2 DEF Sorted, Ascending, Until, Before
    <2> QED
      BY <2>1, <2>2, <2>3 DEF Good
  <1>6. RingInv
    BY <1>5 DEF RingInv
  <1>7. PageInv
    BY DEF PageInv
  <1> QED
    BY <1>3, <1>6, <1>7 DEF Inv

LEMMA InvStep == Inv /\ [ConNext]_conVars => Inv'
  <1> SUFFICES ASSUME Inv, [ConNext]_conVars PROVE Inv'
    OBVIOUS
  <1>0. Shape /\ (~torn => RingInv) /\ PageInv /\ torn \in BOOLEAN
    BY DEF Inv, Shape, ConTypeOK
  <1>1. CASE ConLoopNext
    <2>1. UNCHANGED <<pageVars, torn>>
      BY <1>1 DEF ConLoopNext, LoopPrints, LoopEndsLine, TakeId, Number, CopyText, MoveHead, ClearLine
    <2>2. PageInv'
      BY <1>0, <2>1 DEF PageInv, pageVars, Covers
    <2>3. Shape'
      BY <1>0, <1>1, LoopTyped
    <2>4. ~torn' => RingInv'
      BY <1>0, <1>1, <2>1, LoopRing
    <2> QED
      BY <2>2, <2>3, <2>4 DEF Inv
  <1>2. CASE ConWebNext \/ PageNext
    <2>1. Shape' /\ PageInv' /\ UNCHANGED ringVars /\ (~torn' => ~torn)
      BY <1>2, PageStep
    <2>2. ~torn' => RingInv'
      BY <1>0, <2>1 DEF RingInv, ringVars
    <2> QED
      BY <2>1, <2>2 DEF Inv
  <1>3. ASSUME NEW n \in 1 .. 2, WebPrintsLines(n) PROVE Inv'
    <2>1. Shape'
      BY <1>0, <1>3, WebTyped
    <2>2. UNCHANGED <<page, since, asked, answer>> /\ (~torn' => ~torn /\ filing = "no")
      BY <1>0, <1>3 DEF WebPrintsLines, pageVars
    <2>3. PageInv'
      BY <1>0, <2>2 DEF PageInv, Covers
    <2>4. ~torn' => RingInv'
      BY <1>0, <1>3, <2>2, WebRing
    <2> QED
      BY <2>1, <2>3, <2>4 DEF Inv
  <1>4. CASE UNCHANGED conVars
    BY <1>0, <1>4 DEF conVars, Inv, Shape, ConTypeOK, RingInv, PageInv, Covers
  <1> QED
    BY <1>1, <1>2, <1>3, <1>4 DEF ConNext

LEMMA Invariant == ConSpec => []Inv
  BY InvInit, InvStep, PTL DEF ConSpec

-----------------------------------------------------------------------------
(* Every variable keeps its type, also in a torn ring: no id is ahead of what *)
(* was printed, and no line longer than its place.                          *)
THEOREM TypeCorrect == ConSpec => []ConTypeOK
  <1>1. Inv => ConTypeOK
    BY DEF Inv, Shape
  <1> QED
    BY <1>1, Invariant, PTL

LEMMA MaxTwo ==
    ASSUME NEW a \in Int, NEW b \in Int
    PROVE  Max({a, b}) = IF a >= b THEN a ELSE b
  <1>1. PICK x \in {a, b} : \A y \in {a, b} : x >= y
    OBVIOUS
  <1>2. Max({a, b}) \in {a, b} /\ \A y \in {a, b} : Max({a, b}) >= y
    BY <1>1 DEF Max
  <1> QED
    BY <1>2

LEMMA MinTwo ==
    ASSUME NEW a \in Int, NEW b \in Int
    PROVE  Min({a, b}) = IF a <= b THEN a ELSE b
  <1>1. PICK x \in {a, b} : \A y \in {a, b} : x <= y
    OBVIOUS
  <1>2. Min({a, b}) \in {a, b} /\ \A y \in {a, b} : Min({a, b}) <= y
    BY <1>1 DEF Min
  <1> QED
    BY <1>2

(* The lines of a good ring and the ids that are not too old correspond.     *)
LEMMA GoodRing ==
    ASSUME Good(log_buf, log_head, log_next_id, linebuf, printed)
    PROVE  /\ {l.id : l \in Ring} = Max({1, log_next_id - LOG_LINES}) .. console_last_id
           /\ Cardinality(Ring) = Min({LOG_LINES, console_last_id})
  <1> DEFINE lo == IF 1 >= log_next_id - LOG_LINES THEN 1 ELSE log_next_id - LOG_LINES
             last == log_next_id - 1
             line == [i \in lo .. last |-> CHOOSE l \in Ring : l.id = i]
  <1>1. /\ log_next_id \in Nat \ {0} /\ LOG_LINES \in Nat \ {0} /\ log_head \in Slots
        /\ log_buf \in [Slots -> AnyLine]
    BY ConsoleAssumption DEF Good, Typed
  <1>2. /\ Max({1, log_next_id - LOG_LINES}) = lo /\ console_last_id = last
        /\ Min({LOG_LINES, console_last_id}) = IF LOG_LINES <= last THEN LOG_LINES ELSE last
        /\ lo \in Nat /\ lo >= 1 /\ last \in Nat /\ lo >= log_next_id - LOG_LINES
    <2>1. log_next_id - LOG_LINES \in Int /\ last \in Nat /\ LOG_LINES \in Int
      BY <1>1
    <2>2. Max({1, log_next_id - LOG_LINES}) = lo
      BY <2>1, MaxTwo
    <2>3. Min({LOG_LINES, last}) = IF LOG_LINES <= last THEN LOG_LINES ELSE last
      BY <2>1, MinTwo
    <2>4. console_last_id = last
      BY DEF console_last_id
    <2>5. lo \in Nat /\ lo >= 1 /\ lo >= log_next_id - LOG_LINES
      BY <1>1
    <2> QED
      BY <2>1, <2>2, <2>3, <2>4, <2>5
  <1>3. ASSUME NEW l \in Ring PROVE l.id \in lo .. last
    <2>1. PICK s \in Slots : l = log_buf[s] /\ log_buf[s] # NoLine
      BY DEF Ring
    <2>2. l.id < log_next_id /\ l.id >= 1 /\ l.id >= log_next_id - LOG_LINES /\ l.id \in Nat
      BY <1>1, <2>1, RingIds DEF AnyLine
    <2> QED
      BY <1>1, <2>2
  <1>4. ASSUME NEW i \in lo .. last PROVE \E l \in Ring : l.id = i
    <2>1. i \in 1 .. log_next_id - 1 /\ i >= log_next_id - LOG_LINES
      BY <1>1, <1>2
    <2>2. PICK s \in Slots : log_buf[s].id = i
      BY <2>1, RingComplete
    <2>3. log_buf[s] # NoLine
      BY <2>1, <2>2 DEF NoLine
    <2> QED
      BY <2>2, <2>3 DEF Ring
  <1>5. ASSUME NEW l \in Ring, NEW k \in Ring, l.id = k.id PROVE l = k
    <2>1. PICK s \in Slots, t \in Slots : /\ l = log_buf[s] /\ log_buf[s] # NoLine
                                         /\ k = log_buf[t] /\ log_buf[t] # NoLine
      BY DEF Ring
    <2>2. l.id = log_next_id - Back(log_head, s) /\ k.id = log_next_id - Back(log_head, t)
      BY <2>1, RingIds
    <2>3. Back(log_head, s) \in 1 .. LOG_LINES /\ Back(log_head, t) \in 1 .. LOG_LINES
      BY <1>1, BackSteps
    <2> DEFINE a == Back(log_head, s)
               b == Back(log_head, t)
    <2>4. a \in Nat /\ b \in Nat
      BY <1>1, <2>3
    <2>5. log_next_id - a = log_next_id - b
      BY <1>5, <2>2
    <2> HIDE DEF a, b
    <2>6. a = b
      BY <1>1, <2>4, <2>5
    <2>7. s = t
      BY <1>1, <2>6, BackInjective DEF a, b
    <2> QED
      BY <2>1, <2>7
  <1> HIDE DEF lo, last
  <1>6. {l.id : l \in Ring} = lo .. last
    BY <1>3, <1>4
  <1>7. Cardinality(Ring) = Cardinality(lo .. last)
    <2>1. \A i \in lo .. last : line[i] \in Ring /\ line[i].id = i
      BY <1>4
    <2>2. line \in [lo .. last -> Ring]
      BY <2>1
    <2>3. \A i, j \in lo .. last : line[i] = line[j] => i = j
      BY <2>1
    <2>4. \A l \in Ring : \E i \in lo .. last : line[i] = l
      BY <1>3, <1>5, <2>1
    <2> HIDE DEF line
    <2>5. ExistsBijection(lo .. last, Ring)
      <3>1. DOMAIN line = lo .. last
        BY <2>2
      <3>2. line \in Injection(lo .. last, Ring)
        BY <2>2, <2>3, <3>1 DEF Injection, IsInjective
      <3>3. line \in Surjection(lo .. last, Ring)
        BY <2>2, <2>4 DEF Surjection
      <3> QED
        BY <3>2, <3>3 DEF ExistsBijection, Bijection
    <2>6. IsFiniteSet(lo .. last)
      BY <1>2, FS_Interval
    <2> QED
      BY <2>5, <2>6, FS_Bijection
  <1>8. Cardinality(lo .. last) = IF LOG_LINES <= last THEN LOG_LINES ELSE last
    <2>1. Cardinality(lo .. last) = IF lo > last THEN 0 ELSE last - lo + 1
      BY <1>2, FS_Interval
    <2> QED
      BY <1>1, <2>1 DEF lo, last
  <1> QED
    BY <1>2, <1>6, <1>7, <1>8

(* As long as no callback has come inside log_add_line, the ring holds the     *)
(* last lines between two lines of the loop, each once and with consecutive  *)
(* ids, and read by their ids they give what was printed in its order.        *)
THEOREM LinesInOrder == ConSpec => []RingInOrder
  <1>1. Inv => RingInOrder
    <2> SUFFICES ASSUME Inv, filing = "no", ~torn PROVE RingInOrder
      BY DEF RingInOrder
    <2>1. Good(log_buf, log_head, log_next_id, linebuf, printed)
      BY DEF Inv, RingInv
    <2>2. \A l \in Ring : \E s \in Slots : l = log_buf[s]
      BY DEF Ring
    <2>3. Sorted(log_buf, linebuf, printed)
      BY <2>1 DEF Good
    <2>4. ASSUME NEW l \in Ring
          PROVE  /\ Ascending(l.text)
                 /\ \A k \in Ring : l.id < k.id => Before(l.text, k.text)
                 /\ Before(l.text, linebuf)
      BY <2>2, <2>3 DEF Sorted
    <2>5. {l.id : l \in Ring} = Max({1, log_next_id - LOG_LINES}) .. console_last_id
      BY <2>1, GoodRing
    <2>6. Cardinality(Ring) = Min({LOG_LINES, console_last_id})
      BY <2>1, GoodRing
    <2> HIDE DEF Ring
    <2> QED
      BY <2>4, <2>5, <2>6, Zenon DEF RingInOrder
  <1> QED
    BY <1>1, Invariant, PTL

(* Pages read their lines from the ring, and no callback came inside a line:   *)
(* the cursor passes none that was not sent, unless the ring had lost it.     *)
THEOREM CursorMissesNothing == ConSpec => NothingMissed
  <1> DEFINE Misses ==
        ~torn => \A i \in since + 1 .. since' :
                    i < answer.oldest \/ \E k \in DOMAIN answer.rows : answer.rows[k].id = i
  <1>1. Inv /\ [ConNext]_conVars => [Misses]_conVars
    <2> SUFFICES ASSUME Inv, [ConNext]_conVars PROVE Misses
      OBVIOUS
    <2>1. since \in Nat /\ PageInv
      BY DEF Inv, Shape, ConTypeOK, Ids
    <2>2. CASE Receive \/ ReceiveStatus
      <3>1. answer # NoAnswer /\ (since' = since \/ since' = answer.since)
        BY <2>1, <2>2 DEF Receive, ReceiveStatus, PageInv
      <3>2. ~torn => Covers(answer, since)
        BY <2>1, <3>1 DEF PageInv
      <3>3. CASE since' = since
        BY <2>1, <3>3
      <3>4. CASE since' = answer.since
        BY <3>2, <3>4 DEF Covers
      <3> QED
        BY <3>1, <3>3, <3>4
    <2>3. CASE Reload
      <3>1. since' = 0
        BY <2>3 DEF Reload
      <3> QED
        BY <2>1, <3>1
    <2>4. CASE UNCHANGED since
      BY <2>1, <2>4
    <2>5. Receive \/ ReceiveStatus \/ Reload \/ UNCHANGED since
      BY DEF ConNext, ConLoopNext, LoopPrints, LoopEndsLine, TakeId, Number, CopyText, MoveHead,
             ClearLine, ConWebNext, Status, HandleConsole, PollLines, PollTimeout, PageNext,
             Lose, LoseStatus, WebPrintsLines, pageVars, conVars
    <2> QED
      BY <2>2, <2>3, <2>4, <2>5
  <1> QED
    BY <1>1, Invariant, PTL DEF ConSpec, NothingMissed
=============================================================================
