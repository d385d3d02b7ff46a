----------------------------- MODULE ModemProofs -----------------------------
(***************************************************************************)
(* Proofs about Modem, for any number of SMS's, any replies and a FIFO of   *)
(* any size: its types, for whom and how often a command is run, and what a *)
(* number gets.                                                             *)
(***************************************************************************)
EXTENDS Modem, SequenceTheorems, TLAPS

-----------------------------------------------------------------------------
(* Lines *)

LEMMA LineKinds ==
    /\ \A l \in FromModem : l.is = "+CMTI" => l.index \in Indexes
    /\ \A l \in FromModem : l.is = "+CMGR" => l.from \in Senders \cup {Garbled}
    /\ \A l \in FromModem : l.is = "line" => l.sms \in Messages /\ l = Line(l.sms)
    /\ \A l \in ToModem : l.is = "AT+CMGR" => l.index \in Indexes
    /\ \A l \in ToModem : l.is = "AT+CMGS" => l.to \in Recipients
  BY DEF FromModem, ToModem, CMTI, Line, Prompt, Sent, OK, ERROR, Cut, CMGR, CMGD, CMGS, Text

LEMMA LineTypes ==
    /\ Prompt \in FromModem /\ Sent \in FromModem /\ OK \in FromModem
    /\ ERROR \in FromModem /\ Cut \in FromModem
    /\ [is |-> "+CMGR", from |-> Garbled] \in FromModem
    /\ \A i \in Indexes : CMTI(i) \in FromModem
    /\ \A m \in Messages : Header(m) \in FromModem /\ Line(m) \in FromModem
  <1>1. \A m \in Messages : Header(m) \in FromModem
    BY DEF FromModem, Senders, Header
  <1>2. \A m \in Messages : Line(m) \in FromModem
    BY Zenon DEF FromModem
  <1>3. \A i \in Indexes : CMTI(i) \in FromModem
    BY Zenon DEF FromModem
  <1>4. [is |-> "+CMGR", from |-> Garbled] \in FromModem
    BY DEF FromModem
  <1>5. /\ Prompt \in FromModem /\ Sent \in FromModem /\ OK \in FromModem
        /\ ERROR \in FromModem /\ Cut \in FromModem
    BY Zenon DEF FromModem
  <1> QED
    BY <1>1, <1>2, <1>3, <1>4, <1>5

LEMMA CommandTypes ==
    /\ \A i \in Indexes : CMGR(i) \in ToModem
    /\ \A i \in Indexes \cup {0} : CMGD(i) \in ToModem
    /\ \A n \in Recipients : CMGS(n) \in ToModem
    /\ \A n \in Recipients, m \in Messages \cup {Unknown} : Text(n, m) \in ToModem
  <1> DEFINE Reads == {CMGR(i) : i \in Indexes}
             Deletes == {CMGD(i) : i \in Indexes \cup {0}}
             Sends == {CMGS(n) : n \in Recipients}
             Texts == {Text(n, m) : n \in Recipients, m \in Messages \cup {Unknown}}
  <1>1. ToModem = Reads \cup Deletes \cup Sends \cup Texts
    BY DEF ToModem
  <1>2. \A i \in Indexes : CMGR(i) \in Reads
    OBVIOUS
  <1>3. \A i \in Indexes \cup {0} : CMGD(i) \in Deletes
    OBVIOUS
  <1>4. \A n \in Recipients : CMGS(n) \in Sends
    OBVIOUS
  <1>5. \A n \in Recipients, m \in Messages \cup {Unknown} : Text(n, m) \in Texts
    OBVIOUS
  <1> HIDE DEF Reads, Deletes, Sends, Texts
  <1> QED
    BY <1>1, <1>2, <1>3, <1>4, <1>5

-----------------------------------------------------------------------------
(* What is lost when nothing is read: no SMS line is new, none is doubled.   *)

Has(lines, m) == \E i \in DOMAIN lines : lines[i] = Line(m)
Single(lines, m) ==
    \A i, j \in DOMAIN lines : lines[i] = Line(m) /\ lines[j] = Line(m) => i = j

Thinned(old, new) ==
    /\ new \in Seq(FromModem)
    /\ \A m \in Messages : Has(new, m) => Has(old, m)
    /\ \A m \in Messages : Single(old, m) => Single(new, m)

LEMMA Joins ==
    ASSUME NEW a \in Seq(FromModem), NEW b \in Seq(FromModem)
    PROVE  /\ a \o b \in Seq(FromModem) /\ Len(a \o b) = Len(a) + Len(b)
           /\ Len(a) \in Nat /\ Len(b) \in Nat
           /\ \A i \in 1 .. Len(a) : (a \o b)[i] = a[i]
           /\ \A i \in 1 .. Len(b) : (a \o b)[Len(a) + i] = b[i]
           /\ \A i \in 1 .. Len(a \o b) : i \in 1 .. Len(a) \/ i - Len(a) \in 1 .. Len(b)
  OBVIOUS

(* Every SMS line of the new lines is where it was, or all of those behind   *)
(* place n are d places further.                                            *)
LEMMA ShiftThins ==
    ASSUME NEW s \in Seq(FromModem), NEW q \in Seq(FromModem), NEW n \in Nat, NEW d \in Int,
           \A i \in DOMAIN q : q[i].is = "line" =>
              \/ i <= n /\ i \in DOMAIN s /\ s[i] = q[i]
              \/ i + d \in DOMAIN s /\ i + d > n /\ s[i + d] = q[i]
    PROVE  Thinned(s, q)
  <1>0. /\ DOMAIN s = 1 .. Len(s) /\ DOMAIN q = 1 .. Len(q)
        /\ \A m : Line(m).is = "line"
    BY DEF Line
  <1>1. ASSUME NEW m \in Messages, NEW i \in DOMAIN q, q[i] = Line(m)
        PROVE  \/ i <= n /\ i \in DOMAIN s /\ s[i] = Line(m)
               \/ i + d \in DOMAIN s /\ i + d > n /\ s[i + d] = Line(m)
    BY <1>0, <1>1
  <1>2. ASSUME NEW m \in Messages PROVE Has(q, m) => Has(s, m)
    BY <1>1 DEF Has
  <1>3. ASSUME NEW m \in Messages, Single(s, m) PROVE Single(q, m)
    <2> SUFFICES ASSUME NEW x \in DOMAIN q, NEW y \in DOMAIN q, q[x] = Line(m), q[y] = Line(m)
                 PROVE  x = y
      BY DEF Single
    <2>1. x \in Nat /\ y \in Nat
      BY <1>0
    <2>2. \A u, v \in DOMAIN s : s[u] = Line(m) /\ s[v] = Line(m) => u = v
      BY <1>3 DEF Single
    <2>3. \/ x <= n /\ x \in DOMAIN s /\ s[x] = Line(m)
          \/ x + d \in DOMAIN s /\ x + d > n /\ s[x + d] = Line(m)
      BY <1>1
    <2>4. \/ y <= n /\ y \in DOMAIN s /\ s[y] = Line(m)
          \/ y + d \in DOMAIN s /\ y + d > n /\ s[y + d] = Line(m)
      BY <1>1
    <2>5. CASE x \in DOMAIN s /\ s[x] = Line(m) /\ y \in DOMAIN s /\ s[y] = Line(m)
      BY <2>2, <2>5
    <2>6. CASE x + d \in DOMAIN s /\ s[x + d] = Line(m) /\ y + d \in DOMAIN s /\ s[y + d] = Line(m)
      <3>1. x + d = y + d
        BY <2>2, <2>6
      <3> QED  BY <2>1, <3>1
    <2>7. CASE x <= n /\ x \in DOMAIN s /\ s[x] = Line(m) /\ y + d > n /\ y + d \in DOMAIN s /\ s[y + d] = Line(m)
      <3>1. x = y + d
        BY <2>2, <2>7
      <3> QED  BY <2>1, <2>7, <3>1
    <2>8. CASE y <= n /\ y \in DOMAIN s /\ s[y] = Line(m) /\ x + d > n /\ x + d \in DOMAIN s /\ s[x + d] = Line(m)
      <3>1. y = x + d
        BY <2>2, <2>8
      <3> QED  BY <2>1, <2>8, <3>1
    <2> QED
      BY <2>3, <2>4, <2>5, <2>6, <2>7, <2>8
  <1> QED
    BY <1>2, <1>3 DEF Thinned

LEMMA OneLine ==
    ASSUME NEW l \in FromModem
    PROVE  <<l>> \in Seq(FromModem) /\ Len(<<l>>) = 1 /\ <<l>>[1] = l
  OBVIOUS

LEMMA ClippedThins ==
    ASSUME NEW s \in Seq(FromModem), NEW q \in Clipped(s)
    PROVE  Thinned(s, q)
  <1>1. CASE q = s
    BY <1>1 DEF Thinned
  <1> DEFINE u == Tail(s)
  <1>0. ASSUME s # << >>
        PROVE  u \in Seq(FromModem) /\ Len(u) = Len(s) - 1 /\ \A i \in 1 .. Len(u) : u[i] = s[i + 1]
    BY <1>0
  <1> HIDE DEF u
  <1>2. CASE s # << >> /\ q = u
    <2>0. PICK n \in Nat, d \in Int : n = 0 /\ d = 1
      OBVIOUS
    <2>1. \A i \in DOMAIN q : i + d \in DOMAIN s /\ i + d > n /\ s[i + d] = q[i]
      BY <1>0, <1>2, <2>0
    <2> QED
      BY <1>0, <1>2, <2>1, ShiftThins
  <1>3. CASE s # << >> /\ q = <<Cut>> \o u
    <2> DEFINE c == <<Cut>>
    <2>0. c \in Seq(FromModem) /\ Len(c) = 1 /\ c[1] = Cut /\ Cut.is # "line"
      BY OneLine, LineTypes DEF Cut
    <2>1. q = c \o u /\ u \in Seq(FromModem)
      BY <1>0, <1>3
    <2> HIDE DEF c
    <2>2. /\ q \in Seq(FromModem) /\ Len(q) = Len(c) + Len(u) /\ q[1] = Cut
          /\ \A i \in 1 .. Len(u) : q[1 + i] = u[i]
      <3> DEFINE w == c \o u
      <3>1. /\ w \in Seq(FromModem) /\ Len(w) = Len(c) + Len(u)
            /\ \A i \in 1 .. Len(c) : w[i] = c[i]
            /\ \A i \in 1 .. Len(u) : w[Len(c) + i] = u[i]
        BY <2>0, <2>1, Joins
      <3> HIDE DEF w
      <3>2. w[1] = Cut
        BY <2>0, <3>1
      <3>3. q = w
        BY <2>1 DEF w
      <3> QED  BY <2>0, <3>1, <3>2, <3>3
    <2>3. ASSUME NEW i \in DOMAIN q, q[i].is = "line" PROVE i \in DOMAIN s /\ i > 0 /\ s[i] = q[i]
      <3>1. i # 1 /\ i \in 1 .. Len(q)
        BY <2>0, <2>2, <2>3
      <3>2. i - 1 \in 1 .. Len(u) /\ 1 + (i - 1) = i
        BY <1>0, <1>3, <2>0, <2>2, <3>1
      <3>3. q[i] = u[i - 1] /\ u[i - 1] = s[(i - 1) + 1]
        BY <1>0, <1>3, <2>2, <3>2
      <3> QED
        BY <1>0, <1>3, <3>1, <3>2, <3>3
    <2>4. PICK n \in Nat, d \in Int : n = 0 /\ d = 0
      OBVIOUS
    <2>5. \A i \in DOMAIN q : q[i].is = "line" => i + d \in DOMAIN s /\ i + d > n /\ s[i + d] = q[i]
      <3>1. \A i \in DOMAIN q : i + d = i
        BY <2>2, <2>4
      <3> QED  BY <2>3, <2>4, <3>1
    <2> QED
      BY <2>2, <2>5, ShiftThins
  <1> QED
    BY <1>1, <1>2, <1>3 DEF Clipped, u

LEMMA OverrunThins ==
    ASSUME NEW s \in Seq(FromModem), NEW q \in Overrun(s)
    PROVE  Thinned(s, q)
  <1>1. CASE q = s
    BY <1>1 DEF Thinned
  <1>2. CASE q # s
    <2>1. PICK k \in FifoLines + 2 .. Len(s) + 1, j \in Joined(s[FifoLines + 1]) :
              q = SubSeq(s, 1, FifoLines) \o j \o SubSeq(s, k, Len(s))
      BY <1>2 DEF Overrun
    <2> DEFINE n == FifoLines
               a == SubSeq(s, 1, n)
               b == SubSeq(s, k, Len(s))
               d == k - 1 - n - Len(j)
    <2>2. n \in Nat /\ Len(s) \in Nat /\ k \in Nat /\ k <= Len(s) + 1 /\ n + 2 <= k
      BY ModemAssumption
    <2>3. /\ a \in Seq(FromModem) /\ Len(a) = n
          /\ \A i \in 1 .. n : a[i] = s[i]
      BY <2>2
    <2>4. /\ b \in Seq(FromModem) /\ Len(b) = Len(s) - k + 1
          /\ \A i \in 1 .. Len(b) : b[i] = s[i + k - 1]
      BY <2>2
    <2>5. /\ j \in Seq(FromModem) /\ Len(j) \in {0, 1}
          /\ \A i \in 1 .. Len(j) : j[i].is # "line"
      <3>1. \/ j = << >> \/ j = <<Cut>>
            \/ j = <<[is |-> "+CMGR", from |-> Garbled]>>
        BY <2>1 DEF Joined
      <3>2. Cut.is # "line" /\ [is |-> "+CMGR", from |-> Garbled].is # "line"
        BY DEF Cut
      <3>3. CASE j = << >>
        BY <3>3
      <3>4. CASE \E l \in FromModem : j = <<l>> /\ l.is # "line"
        BY <3>4, OneLine
      <3> QED
        BY <3>1, <3>2, <3>3, <3>4, LineTypes
    <2> HIDE DEF a, b, n
    <2> DEFINE c == a \o j
    <2>7. /\ c \in Seq(FromModem) /\ Len(c) = n + Len(j)
          /\ \A i \in 1 .. n : c[i] = a[i]
          /\ \A i \in 1 .. Len(j) : c[n + i] = j[i]
          /\ \A i \in 1 .. Len(c) : i \in 1 .. n \/ i - n \in 1 .. Len(j)
      BY <2>3, <2>5, Joins
    <2>8. q = c \o b
      BY <2>1 DEF a, b, n
    <2> HIDE DEF c
    <2>9. /\ q \in Seq(FromModem) /\ Len(q) = Len(c) + Len(b)
          /\ \A i \in 1 .. Len(c) : q[i] = c[i]
          /\ \A i \in 1 .. Len(b) : q[Len(c) + i] = b[i]
          /\ \A i \in 1 .. Len(q) : i \in 1 .. Len(c) \/ i - Len(c) \in 1 .. Len(b)
      BY <2>4, <2>7, <2>8, Joins
    <2> DEFINE e == Len(j)
    <2>10. e \in {0, 1} /\ d \in Int /\ d = k - 1 - n - e
      BY <2>2, <2>5
    <2> HIDE DEF d, e
    <2>11. ASSUME NEW i \in DOMAIN q, q[i].is = "line"
           PROVE  \/ i <= n /\ i \in DOMAIN s /\ s[i] = q[i]
                  \/ i + d \in DOMAIN s /\ i + d > n /\ s[i + d] = q[i]
      <3>0. i \in Nat /\ i \in 1 .. Len(q)
        BY <2>9
      <3>1. CASE i \in 1 .. n
        <4>1. q[i] = s[i]
          BY <2>2, <2>3, <2>5, <2>7, <2>9, <3>1
        <4>2. i \in 1 .. Len(s)
          BY <2>2, <3>1
        <4> QED  BY <3>1, <4>1, <4>2
      <3>2. CASE i \in 1 .. Len(c) /\ i - n \in 1 .. Len(j)
        <4>1. q[i] = c[i] /\ n + (i - n) = i
          BY <2>2, <2>9, <3>0, <3>2
        <4>2. q[i] = j[i - n]
          BY <2>7, <3>2, <4>1
        <4> QED  BY <2>5, <2>11, <3>2, <4>2
      <3>3. CASE i - Len(c) \in 1 .. Len(b)
        <4> DEFINE x == i - Len(c)
        <4>1. x \in 1 .. Len(b) /\ x = i - (n + e)
          BY <2>7, <3>3 DEF e
        <4>2. Len(c) + x = i
          BY <2>7, <2>2, <2>5, <3>0
        <4>3. q[i] = b[x]
          BY <2>9, <4>1, <4>2
        <4> HIDE DEF x
        <4>4. b[x] = s[x + k - 1]
          BY <2>4, <4>1
        <4>5. x + k - 1 = i + d /\ i + d > n /\ i + d \in 1 .. Len(s)
          <5>1. x \in Nat /\ x >= 1 /\ x <= Len(s) - k + 1
            BY <2>2, <2>4, <4>1
          <5>2. d = k - 1 - n - e /\ x = i - (n + e) /\ e \in Int
            BY <2>10, <4>1
          <5> QED  BY <2>2, <3>0, <5>1, <5>2
        <4> QED  BY <4>3, <4>4, <4>5
      <3> QED
        BY <2>7, <2>9, <3>0, <3>1, <3>2, <3>3
    <2> QED
      BY <2>2, <2>9, <2>10, <2>11, ShiftThins
  <1> QED
    BY <1>1, <1>2
-----------------------------------------------------------------------------
(* Types *)

LEMMA InitType == Init => TypeOK
  <1> SUFFICES ASSUME Init PROVE TypeOK
    OBVIOUS
  <1>1. OK \in FromModem
    BY LineTypes
  <1>2. Closed \in [to : Recipients \cup {Empty}, text : Seq(ToModem)]
    BY DEF Closed
  <1>3. toModem \in Seq(ToModem) /\ toPico \in Seq(FromModem) /\ sms_text \in Seq(FromModem)
    BY DEF Init
  <1>4. frames \in Seq(Frame)
    BY DEF Init
  <1>5. given \in [Messages -> Nat] /\ storage \in [Indexes -> Messages \cup {Empty}]
    BY DEF Init
  <1>6. /\ modem_last_line \in FromModem
        /\ modem_wait_match \in BOOLEAN /\ modem_wait_flag \in BOOLEAN
        /\ waiting_for_cmgr_text \in BOOLEAN
        /\ sms_number \in Senders \cup {NoNumber, Garbled}
        /\ last_sms_index \in Indexes \cup {0}
        /\ body \in [to : Recipients \cup {Empty}, text : Seq(ToModem)]
        /\ beheaded \in BOOLEAN /\ outside \subseteq Messages /\ apart \in BOOLEAN
    BY <1>1, <1>2 DEF Init
  <1> QED
    BY <1>3, <1>4, <1>5, <1>6 DEF TypeOK

LEMMA Fed ==
    ASSUME TypeOK, Take
    PROVE  /\ toPico' \in Seq(FromModem) /\ line \in FromModem /\ line = toPico[1]
           /\ toPico # << >> /\ Len(toPico') = Len(toPico) - 1
           /\ \A i \in 1 .. Len(toPico') : toPico'[i] = toPico[i + 1]
           /\ line.is = "+CMTI" => line.index \in Indexes
           /\ line.is = "+CMGR" => line.from \in Senders \cup {Garbled}
  <1>1. toPico \in Seq(FromModem) /\ toPico # << >> /\ toPico' = Tail(toPico) /\ line = Head(toPico)
    BY DEF TypeOK, Take, line
  <1>2. line \in FromModem /\ line = toPico[1] /\ toPico' \in Seq(FromModem)
        /\ Len(toPico') = Len(toPico) - 1 /\ \A i \in 1 .. Len(toPico') : toPico'[i] = toPico[i + 1]
    BY <1>1
  <1> QED
    BY <1>1, <1>2, LineKinds

LEMMA ReplyTypes ==
    ASSUME NEW m \in Messages \cup {Unknown}, NEW n PROVE RepliesTo(m, n) \in Seq(Recipients)
  <1>1. CASE m # Unknown /\ From[m] = n
    BY <1>1, ModemAssumption DEF RepliesTo
  <1>2. CASE ~(m # Unknown /\ From[m] = n)
    <2>1. n \in Known => <<n>> \in Seq(Recipients)
      BY DEF Recipients
    <2> QED  BY <1>2, <2>1 DEF RepliesTo
  <1> QED
    BY <1>1, <1>2

LEMMA SmsInType == TypeOK => SmsIn(sms_text) \in Messages \cup {Unknown}
  BY LineKinds DEF TypeOK, SmsIn

LEMMA TopType ==
    ASSUME TypeOK, frames # << >>
    PROVE  /\ top \in Frame /\ Tail(frames) \in Seq(Frame)
           /\ \A pc \in {"send", "prompt", "result"} :
                 top.todo # << >> => [frames EXCEPT ![1].pc = pc] \in Seq(Frame)
           /\ top.pc # "send" => top.todo # << >>
           /\ top.todo # << >> =>
                 /\ Head(top.todo) \in Recipients
                 /\ [frames EXCEPT ![1].pc = "send", ![1].todo = Tail(@)] \in Seq(Frame)
  <1>1. frames \in Seq(Frame) /\ top = frames[1] /\ 1 \in 1 .. Len(frames)
    BY DEF TypeOK, top
  <1>2. top \in Frame /\ Tail(frames) \in Seq(Frame)
    BY <1>1
  <1>3. \A f \in Frame : [frames EXCEPT ![1] = f] \in Seq(Frame)
    BY <1>1
  <1>4. ASSUME NEW pc \in {"send", "prompt", "result"}, top.todo # << >>
        PROVE  [frames EXCEPT ![1].pc = pc] \in Seq(Frame)
    <2>1. [top EXCEPT !.pc = pc] \in Frame
      BY <1>2, <1>4 DEF Frame
    <2>2. [frames EXCEPT ![1].pc = pc] = [frames EXCEPT ![1] = [top EXCEPT !.pc = pc]]
      BY DEF top
    <2> QED  BY <1>3, <2>1, <2>2
  <1>5. ASSUME top.todo # << >>
        PROVE  /\ Head(top.todo) \in Recipients
               /\ [frames EXCEPT ![1].pc = "send", ![1].todo = Tail(@)] \in Seq(Frame)
    <2>1. top.todo \in Seq(Recipients)
      BY <1>2 DEF Frame
    <2>2. Head(top.todo) \in Recipients /\ Tail(top.todo) \in Seq(Recipients)
      BY <1>5, <2>1
    <2> DEFINE f == [top EXCEPT !.pc = "send", !.todo = Tail(top.todo)]
    <2>3. f \in Frame
      BY <1>2, <2>2 DEF Frame
    <2>4. [frames EXCEPT ![1].pc = "send", ![1].todo = Tail(@)] = [frames EXCEPT ![1] = f]
      BY <1>1, <1>2 DEF top, Frame
    <2> QED  BY <1>3, <2>2, <2>3, <2>4
  <1>6. top.pc # "send" => top.todo # << >>
    BY <1>2 DEF Frame
  <1> QED
    BY <1>2, <1>4, <1>5, <1>6

LEMMA Answers ==
    ASSUME TypeOK
    PROVE  /\ \A l \in FromModem : Answer(<<l>>) => toPico' \in Seq(FromModem)
           /\ Answer(<<Sent, OK>>) => toPico' \in Seq(FromModem)
           /\ \A m \in Messages : Answer(<<Header(m), Line(m), OK>>) => toPico' \in Seq(FromModem)
  <1>1. \A q \in Seq(FromModem) : Answer(q) => toPico' \in Seq(FromModem)
    BY DEF TypeOK, Answer
  <1>2. <<Sent, OK>> \in Seq(FromModem)
    BY LineTypes
  <1>3. \A m \in Messages : <<Header(m), Line(m), OK>> \in Seq(FromModem)
    BY LineTypes
  <1> QED
    BY <1>1, <1>2, <1>3, OneLine

LEMMA FeedType == TypeOK /\ modem_feed_char => TypeOK'
  <1> SUFFICES ASSUME TypeOK, modem_feed_char PROVE TypeOK'
    OBVIOUS
  <1> USE DEF TypeOK, modem, history
  <1>0. Take /\ toPico' \in Seq(FromModem) /\ line \in FromModem
    BY Fed DEF modem_feed_char, FeedPrompt, FeedCMTI, FeedHeader, FeedText, RunSms, FeedOther, TakeLine
  <1>1. CASE FeedPrompt
    BY <1>0, <1>1 DEF FeedPrompt
  <1>2. CASE FeedCMTI
    <2>1. CMGR(line.index) \in ToModem /\ line.index \in Indexes
      BY <1>0, <1>2, Fed, CommandTypes DEF FeedCMTI
    <2>2. toModem' \in Seq(ToModem)
      BY <1>2, <2>1 DEF FeedCMTI
    <2> QED  BY <1>0, <1>2, <2>1, <2>2 DEF FeedCMTI, TakeLine
  <1>3. CASE FeedHeader
    BY <1>0, <1>3, Fed DEF FeedHeader, TakeLine
  <1>4. CASE FeedText
    <2>1. sms_text' \in Seq(FromModem)
      BY <1>0, <1>4 DEF FeedText
    <2> QED  BY <1>0, <1>4, <2>1 DEF FeedText, TakeLine
  <1>5. CASE RunSms
    <2> DEFINE m == SmsIn(sms_text)
               replies == RepliesTo(m, sms_number)
               f == [pc |-> "send", todo |-> replies, sms |-> m,
                     index |-> last_sms_index, waited |-> (replies # << >>)]
    <2>1. m \in Messages \cup {Unknown}
      BY SmsInType
    <2>2. replies \in Seq(Recipients)
      <3> HIDE DEF m
      <3> QED  BY <2>1, ReplyTypes
    <2>3. f \in Frame
      <3> HIDE DEF m, replies
      <3> QED  BY <2>1, <2>2 DEF Frame
    <2>4. frames' = <<f>> \o frames
      BY <1>5 DEF RunSms
    <2> HIDE DEF f
    <2>5. frames' \in Seq(Frame)
      BY <2>3, <2>4
    <2>6. /\ modem_last_line' = line /\ waiting_for_cmgr_text' = FALSE /\ sms_text' = << >>
          /\ UNCHANGED <<toModem, modem_wait_match, modem_wait_flag, sms_number,
                         last_sms_index, modem, given, beheaded, apart>>
      BY <1>5 DEF RunSms, TakeLine
    <2>7. sms_text' \in Seq(FromModem)
      BY <2>6
    <2> QED  BY <1>0, <2>5, <2>6, <2>7
  <1>6. CASE FeedOther
    BY <1>0, <1>6 DEF FeedOther, TakeLine
  <1> QED
    BY <1>1, <1>2, <1>3, <1>4, <1>5, <1>6 DEF modem_feed_char

LEMMA SendType == TypeOK /\ (Send \/ NoPrompt \/ NoResult) => TypeOK'
  <1> SUFFICES ASSUME TypeOK, Send \/ NoPrompt \/ NoResult PROVE TypeOK'
    OBVIOUS
  <1> USE DEF TypeOK, In, pico, modem, history
  <1>1. CASE SendCommand
    <2>0. frames # << >> /\ top.todo # << >>
      BY <1>1 DEF SendCommand
    <2>1. toModem' \in Seq(ToModem)
      <3>1. CMGS(Head(top.todo)) \in ToModem
        BY <2>0, TopType, CommandTypes
      <3> QED  BY <1>1, <3>1 DEF SendCommand
    <2>2. frames' \in Seq(Frame)
      <3>1. frames' = [frames EXCEPT ![1].pc = "prompt"]
        BY <1>1 DEF SendCommand, Go
      <3> QED  BY <2>0, <3>1, TopType
    <2>3. /\ modem_wait_match' \in BOOLEAN /\ modem_wait_flag' \in BOOLEAN
          /\ UNCHANGED <<toPico, modem_last_line, waiting_for_cmgr_text, sms_number, sms_text,
                         last_sms_index, modem, history>>
      BY <1>1 DEF SendCommand
    <2> QED  BY <2>1, <2>2, <2>3
  <1>2. CASE SendText
    <2>0. frames # << >> /\ top.pc = "prompt"
      BY <1>2 DEF SendText
    <2>1. top.sms \in Messages \cup {Unknown} /\ top.todo # << >> /\ Head(top.todo) \in Recipients
      BY <2>0, TopType DEF Frame
    <2>2. toModem' \in Seq(ToModem)
      <3>1. Text(Head(top.todo), top.sms) \in ToModem
        BY <2>1, CommandTypes
      <3> QED  BY <1>2, <3>1 DEF SendText
    <2>3. frames' \in Seq(Frame)
      <3>1. frames' = [frames EXCEPT ![1].pc = "result"]
        BY <1>2 DEF SendText, Go
      <3> QED  BY <2>0, <2>1, <3>1, TopType
    <2>4. /\ modem_wait_match' \in BOOLEAN
          /\ UNCHANGED <<toPico, modem_last_line, modem_wait_flag, waiting_for_cmgr_text,
                         sms_number, sms_text, last_sms_index, modem, history>>
      BY <1>2 DEF SendText
    <2> QED  BY <2>2, <2>3, <2>4
  <1> DEFINE q == [frames EXCEPT ![1].pc = "send", ![1].todo = Tail(@)]
  <1>0. ASSUME frames # << >>, top.pc # "send" PROVE q \in Seq(Frame)
    BY <1>0, TopType
  <1>00. SmsDone => frames' = q
    BY DEF SmsDone
  <1> HIDE DEF q
  <1>3. CASE NoPrompt
    <2>1. frames' \in Seq(Frame)
      BY <1>0, <1>00, <1>3 DEF NoPrompt
    <2> QED  BY <1>3, <2>1 DEF NoPrompt, Apart
  <1>4. CASE Result
    <2>1. frames' \in Seq(Frame)
      BY <1>0, <1>00, <1>4 DEF Result
    <2> QED  BY <1>4, <2>1 DEF Result
  <1>5. CASE NoResult
    <2>1. frames' \in Seq(Frame)
      BY <1>0, <1>00, <1>5 DEF NoResult
    <2> QED  BY <1>5, <2>1 DEF NoResult, Apart
  <1>6. CASE DeleteSms
    <2>1. top \in Frame /\ Tail(frames) \in Seq(Frame) /\ CMGD(top.index) \in ToModem
      BY <1>6, TopType, CommandTypes DEF DeleteSms, Frame
    <2>2. toPico' \in Seq(FromModem)
      <3>1. \A s \in Seq(FromModem) : \A r \in Overrun(s) : r \in Seq(FromModem)
        BY OverrunThins DEF Thinned
      <3>2. \A s \in Seq(FromModem) : \A r \in Clipped(s) : r \in Seq(FromModem)
        BY ClippedThins DEF Thinned
      <3> QED  BY <1>6, <3>1, <3>2 DEF DeleteSms
    <2>3. toModem' \in Seq(ToModem)
      BY <1>6, <2>1 DEF DeleteSms
    <2> QED  BY <1>6, <2>1, <2>2, <2>3 DEF DeleteSms
  <1> QED
    BY <1>1, <1>2, <1>3, <1>4, <1>5, <1>6 DEF Send

LEMMA ModemType == TypeOK /\ ModemNext => TypeOK'
  <1> SUFFICES ASSUME TypeOK, ModemNext PROVE TypeOK'
    OBVIOUS
  <1> USE DEF TypeOK, pico, modem, history, ModemOnly
  <1>01. Handled
    BY DEF ModemNext, ReadSms, RemoveSms, BeginSms, RefuseText, TakeText, EndSms
  <1>0. /\ toModem # << >> /\ toModem' = Tail(toModem) /\ toModem' \in Seq(ToModem)
        /\ command \in ToModem
    BY <1>01 DEF Handled, command
  <1>1. CASE ReadSms
    <2>1. command.index \in Indexes
      BY <1>0, <1>1, LineKinds DEF ReadSms
    <2> DEFINE m == storage[command.index]
    <2>2. m \in Messages \cup {Empty}
      BY <2>1
    <2>3. toPico' \in Seq(FromModem)
      <3>1. IF m = Empty THEN Answer(<<OK>>) ELSE Answer(<<Header(m), Line(m), OK>>)
        BY <1>1 DEF ReadSms
      <3> HIDE DEF m
      <3> QED  BY <2>2, <3>1, Answers, LineTypes
    <2>4. given' \in [Messages -> Nat]
      BY <1>1 DEF ReadSms
    <2> QED  BY <1>0, <1>1, <2>3, <2>4 DEF ReadSms
  <1>2. CASE RemoveSms
    <2>1. toPico' \in Seq(FromModem)
      BY <1>2, Answers, LineTypes DEF RemoveSms
    <2>2. storage' \in [Indexes -> Messages \cup {Empty}]
      BY <1>2 DEF RemoveSms
    <2> QED  BY <1>0, <1>2, <2>1, <2>2 DEF RemoveSms
  <1>3. CASE BeginSms
    <2>1. toPico' \in Seq(FromModem)
      BY <1>3, Answers, LineTypes DEF BeginSms
    <2>2. command.to \in Recipients
      BY <1>0, <1>3, LineKinds DEF BeginSms
    <2>3. body' \in [to : Recipients \cup {Empty}, text : Seq(ToModem)]
      <3>1. [to |-> command.to, text |-> << >>] \in [to : Recipients \cup {Empty}, text : Seq(ToModem)]
        BY <2>2
      <3>2. \/ body' = [to |-> command.to, text |-> << >>] \/ body' = body
        BY <1>3 DEF BeginSms
      <3> QED  BY <3>1, <3>2
    <2> QED  BY <1>0, <1>3, <2>1, <2>3 DEF BeginSms
  <1>4. CASE RefuseText
    <2>1. toPico' \in Seq(FromModem)
      BY <1>4, Answers, LineTypes DEF RefuseText
    <2> QED  BY <1>0, <1>4, <2>1 DEF RefuseText
  <1>5. CASE TakeText
    <2>1. Append(body.text, command) \in Seq(ToModem)
      BY <1>0
    <2>2. body' \in [to : Recipients \cup {Empty}, text : Seq(ToModem)]
      BY <1>5, <2>1 DEF TakeText
    <2> QED  BY <1>0, <1>5, <2>2 DEF TakeText
  <1>6. CASE EndSms
    <2>1. toPico' \in Seq(FromModem)
      BY <1>6, Answers, LineTypes DEF EndSms
    <2>2. body' \in [to : Recipients \cup {Empty}, text : Seq(ToModem)]
      BY <1>6 DEF EndSms, Closed
    <2> QED  BY <1>0, <1>6, <2>1, <2>2 DEF EndSms
  <1> QED
    BY <1>1, <1>2, <1>3, <1>4, <1>5, <1>6 DEF ModemNext

LEMMA ArriveType == TypeOK /\ Arrive => TypeOK'
  <1> SUFFICES ASSUME TypeOK, Arrive PROVE TypeOK'
    OBVIOUS
  <1> USE DEF TypeOK, pico, modem, history
  <1>1. PICK m \in outside, i \in {j \in Indexes : storage[j] = Empty} :
            /\ storage' = [storage EXCEPT ![i] = m]
            /\ outside' = outside \ {m}
            /\ Answer(<<CMTI(i)>>)
            /\ Apart(Quiet /\ frames = << >>)
            /\ UNCHANGED <<toModem, body, delivered, pico, frames, executed, given, beheaded>>
    BY DEF Arrive
  <1>2. toPico' \in Seq(FromModem)
    BY <1>1, Answers, LineTypes
  <1>3. apart' \in BOOLEAN
    BY <1>1 DEF Apart
  <1> QED
    BY <1>1, <1>2, <1>3

(* For any SMS's, replies and size of the FIFO: the lines in transit, the   *)
(* stack of SMS's being run and all that modem.c keeps have their types; an *)
(* SMS that waits for the modem has a number to be sent to.                 *)
THEOREM TypeCorrect == Spec => []TypeOK
  <1>1. TypeOK /\ [Next]_vars => TypeOK'
    <2>1. TypeOK /\ UNCHANGED vars => TypeOK'
      BY DEF TypeOK, vars, pico, modem, history
    <2> QED
      BY <2>1, FeedType, SendType, ModemType, ArriveType DEF Next
  <1> QED
    BY InitType, <1>1, PTL DEF Spec

-----------------------------------------------------------------------------
(* What the modem answers *)

(* Lines in which every SMS line is under its header, but the first.         *)
Headed(lines) ==
    \A i \in DOMAIN lines : i > 1 /\ lines[i].is = "line" => lines[i - 1] = Header(lines[i].sms)

Whole(lines) == lines \in Seq(FromModem) /\ Headed(lines) /\ lines # << >> /\ lines[1].is # "line"

LEMMA HeadedAnswers ==
    ASSUME NEW s \in Seq(FromModem), NEW q, Whole(q), Headed(s)
    PROVE  /\ Headed(s \o q)
           /\ (s \o q)[1].is = "line" => s # << >> /\ (s \o q)[1] = s[1]
  <1> DEFINE w == s \o q
  <1>0. q \in Seq(FromModem) /\ Headed(q) /\ q # << >> /\ q[1].is # "line"
    BY DEF Whole
  <1>1. /\ w \in Seq(FromModem) /\ Len(w) = Len(s) + Len(q)
        /\ Len(s) \in Nat /\ Len(q) \in Nat /\ 1 \in 1 .. Len(q)
        /\ \A i \in 1 .. Len(s) : w[i] = s[i]
        /\ \A i \in 1 .. Len(q) : w[Len(s) + i] = q[i]
        /\ DOMAIN w = 1 .. Len(w) /\ DOMAIN s = 1 .. Len(s) /\ DOMAIN q = 1 .. Len(q)
    BY <1>0, Joins
  <1>2. s # << >> => 1 \in 1 .. Len(s)
    BY <1>1
  <1>3. s = << >> => Len(s) = 0
    OBVIOUS
  <1> HIDE DEF w
  <1>4. w[1].is = "line" => s # << >> /\ w[1] = s[1]
    <2>1. CASE s = << >>
      <3>1. Len(s) + 1 = 1
        BY <1>3, <2>1
      <3> QED  BY <1>0, <1>1, <3>1
    <2>2. CASE s # << >>
      BY <1>1, <1>2, <2>2
    <2> QED  BY <2>1, <2>2
  <1>5. ASSUME NEW i \in DOMAIN w, i > 1, w[i].is = "line" PROVE w[i - 1] = Header(w[i].sms)
    <2>0. i \in Nat /\ i <= Len(s) + Len(q)
      BY <1>1
    <2>1. CASE i <= Len(s)
      <3>1. i \in 1 .. Len(s) /\ i - 1 \in 1 .. Len(s)
        BY <1>1, <1>5, <2>0, <2>1
      <3>2. s[i].is = "line" => s[i - 1] = Header(s[i].sms)
        BY <1>1, <1>5, <3>1 DEF Headed
      <3> QED  BY <1>1, <1>5, <3>1, <3>2
    <2>2. CASE i = Len(s) + 1
      BY <1>0, <1>1, <1>5, <2>2
    <2>3. CASE i > Len(s) + 1
      <3>0. Len(s) \in Nat /\ Len(q) \in Nat
        BY <1>1
      <3>1. PICK x \in Nat : x = i - Len(s)
        BY <2>0, <2>3, <3>0
      <3>2. /\ x \in 1 .. Len(q) /\ x - 1 \in 1 .. Len(q) /\ x > 1
            /\ Len(s) + x = i /\ Len(s) + (x - 1) = i - 1
        BY <2>0, <2>3, <3>0, <3>1
      <3>3. w[i] = q[x] /\ w[i - 1] = q[x - 1]
        BY <1>1, <3>2
      <3>4. q[x].is = "line" => q[x - 1] = Header(q[x].sms)
        BY <1>0, <1>1, <3>2 DEF Headed
      <3> QED  BY <1>5, <3>3, <3>4
    <2> QED  BY <1>1, <2>0, <2>1, <2>2, <2>3
  <1> QED
    BY <1>4, <1>5 DEF Headed, w

LEMMA WholeAnswers ==
    /\ \A l \in FromModem : l.is # "line" => Whole(<<l>>)
    /\ Whole(<<Sent, OK>>)
    /\ \A m \in Messages : Whole(<<Header(m), Line(m), OK>>)
  <1>1. ASSUME NEW l \in FromModem, l.is # "line" PROVE Whole(<<l>>)
    BY <1>1, OneLine DEF Whole, Headed
  <1>2. Whole(<<Sent, OK>>)
    BY LineTypes DEF Whole, Headed, Sent, OK
  <1>3. ASSUME NEW m \in Messages PROVE Whole(<<Header(m), Line(m), OK>>)
    <2> DEFINE q == <<Header(m), Line(m), OK>>
    <2>1. q \in Seq(FromModem) /\ Len(q) = 3 /\ q[1] = Header(m) /\ q[2] = Line(m) /\ q[3] = OK
      BY LineTypes
    <2>2. DOMAIN q = 1 .. 3 /\ q # << >>
      BY <2>1
    <2> HIDE DEF q
    <2>3. Header(m).is # "line" /\ Line(m).sms = m /\ OK.is # "line"
      BY DEF Header, Line, OK
    <2>4. ASSUME NEW i \in DOMAIN q, i > 1, q[i].is = "line" PROVE q[i - 1] = Header(q[i].sms)
      <3>1. i = 2 \/ i = 3
        BY <2>2, <2>4
      <3> QED  BY <2>1, <2>3, <2>4, <3>1
    <2>5. Whole(q)
      BY <2>1, <2>2, <2>3, <2>4 DEF Whole, Headed
    <2> QED  BY <2>5 DEF q
  <1> QED
    BY <1>1, <1>2, <1>3

LEMMA Plain ==
    /\ OK.is # "line" /\ ERROR.is # "line" /\ Prompt.is # "line" /\ Sent.is # "line"
    /\ \A i : CMTI(i).is # "line"
    /\ \A m : Header(m).is # "line"
  BY DEF OK, ERROR, Prompt, Sent, CMTI, Header

(* What the modem does to the lines in transit.                              *)
LEMMA Answered ==
    ASSUME TypeOK, ModemNext \/ Arrive
    PROVE  toPico' = toPico \/ \E q : Whole(q) /\ toPico' = toPico \o q
  <1> USE WholeAnswers, LineTypes, Plain DEF Answer
  <1>1. CASE ReadSms
    <2>1. command.index \in Indexes
      <3>1. toModem # << >> /\ command \in ToModem
        BY <1>1 DEF ReadSms, Handled, command, TypeOK
      <3> QED  BY <1>1, <3>1, LineKinds DEF ReadSms
    <2>2. storage[command.index] \in Messages \cup {Empty}
      BY <2>1 DEF TypeOK
    <2> QED  BY <1>1, <2>2 DEF ReadSms
  <1>2. CASE RemoveSms
    BY <1>2 DEF RemoveSms
  <1>3. CASE BeginSms
    BY <1>3 DEF BeginSms
  <1>4. CASE RefuseText
    BY <1>4 DEF RefuseText
  <1>5. CASE TakeText
    BY <1>5 DEF TakeText
  <1>6. CASE EndSms
    BY <1>6 DEF EndSms
  <1>7. CASE Arrive
    BY <1>7 DEF Arrive
  <1> QED
    BY <1>1, <1>2, <1>3, <1>4, <1>5, <1>6, <1>7 DEF ModemNext

-----------------------------------------------------------------------------
(* For its sender *)

NumberOf(m) == From[m] # NoNumber => sms_number = From[m]

Stream ==
    ~beheaded =>
        /\ Headed(toPico)
        /\ waiting_for_cmgr_text /\ sms_text = << >> /\ toPico # << >> /\ toPico[1].is = "line" =>
              NumberOf(toPico[1].sms)
        /\ sms_text # << >> /\ sms_text[1].is = "line" => NumberOf(sms_text[1].sms)
        /\ RunsForSender

LEMMA SmsOf ==
    ASSUME TypeOK, SmsIn(sms_text) # Unknown
    PROVE  /\ sms_text # << >> /\ sms_text[1].is = "line" /\ sms_text[1].sms = SmsIn(sms_text)
           /\ sms_text[1] = Line(SmsIn(sms_text))
  BY LineKinds DEF SmsIn, TypeOK

LEMMA FedHeaded ==
    ASSUME TypeOK, Take, Headed(toPico)
    PROVE  /\ Headed(toPico')
           /\ toPico' # << >> /\ toPico'[1].is = "line" => line = Header(toPico'[1].sms)
  <1>1. /\ toPico' \in Seq(FromModem) /\ toPico \in Seq(FromModem)
        /\ line = toPico[1] /\ toPico # << >> /\ Len(toPico') = Len(toPico) - 1
        /\ \A i \in 1 .. Len(toPico') : toPico'[i] = toPico[i + 1]
    BY Fed DEF TypeOK
  <1>2. DOMAIN toPico' = 1 .. Len(toPico') /\ DOMAIN toPico = 1 .. Len(toPico)
        /\ Len(toPico) \in Nat /\ Len(toPico') \in Nat
    BY <1>1
  <1>3. ASSUME NEW i \in DOMAIN toPico', i > 1, toPico'[i].is = "line"
        PROVE  toPico'[i - 1] = Header(toPico'[i].sms)
    <2>1. i \in 1 .. Len(toPico') /\ i - 1 \in 1 .. Len(toPico')
          /\ i + 1 \in DOMAIN toPico /\ (i + 1) - 1 = i /\ (i - 1) + 1 = i /\ i + 1 > 1
      BY <1>1, <1>2, <1>3
    <2>2. toPico'[i] = toPico[i + 1] /\ toPico'[i - 1] = toPico[i]
      BY <1>1, <2>1
    <2> QED  BY <1>3, <2>1, <2>2 DEF Headed
  <1>4. ASSUME toPico' # << >>, toPico'[1].is = "line"
        PROVE  line = Header(toPico'[1].sms)
    <2>1. 1 \in 1 .. Len(toPico') /\ 2 \in DOMAIN toPico
      BY <1>1, <1>2, <1>4
    <2>2. toPico'[1] = toPico[2]
      BY <1>1, <2>1
    <2> QED  BY <1>1, <1>4, <2>1, <2>2 DEF Headed
  <1> QED
    BY <1>3, <1>4 DEF Headed

LEMMA FeedStream == TypeOK /\ modem_feed_char /\ Stream => Stream'
  <1> SUFFICES ASSUME TypeOK, modem_feed_char, Stream, ~beheaded' PROVE Stream'
    BY DEF Stream
  <1>0. Take /\ beheaded' = beheaded
    BY DEF modem_feed_char, FeedPrompt, FeedCMTI, FeedHeader, FeedText, RunSms, FeedOther,
           TakeLine, history
  <1>1. Headed(toPico) /\ RunsForSender
    BY <1>0 DEF Stream
  <1>2. /\ Headed(toPico')
        /\ toPico' # << >> /\ toPico'[1].is = "line" => line = Header(toPico'[1].sms)
    BY <1>0, <1>1, FedHeaded
  <1>3. /\ waiting_for_cmgr_text /\ sms_text = << >> /\ line.is = "line" => NumberOf(line.sms)
        /\ sms_text # << >> /\ sms_text[1].is = "line" => NumberOf(sms_text[1].sms)
    BY <1>0, Fed DEF Stream
  <1>4. ASSUME line.is # "+CMGR", UNCHANGED <<sms_number, sms_text, executed>>
        PROVE  Stream'
    <2>1. toPico' # << >> => toPico'[1].is # "line"
      BY <1>2, <1>4 DEF Header
    <2>2. RunsForSender'
      BY <1>0, <1>1, <1>4 DEF RunsForSender
    <2> QED  BY <1>2, <1>3, <1>4, <2>1, <2>2 DEF Stream, NumberOf
  <1>5. CASE FeedPrompt
    BY <1>4, <1>5 DEF FeedPrompt, Prompt, history
  <1>6. CASE FeedCMTI
    BY <1>4, <1>6 DEF FeedCMTI, history
  <1>7. CASE FeedOther
    BY <1>4, <1>7 DEF FeedOther, history
  <1>8. CASE FeedHeader
    <2>1. /\ sms_text' = << >> /\ executed' = executed
          /\ sms_number' = IF line.from = NoNumber THEN sms_number ELSE line.from
      BY <1>8 DEF FeedHeader, history
    <2>2. toPico' # << >> /\ toPico'[1].is = "line" => NumberOf(toPico[1].sms)'
      BY <1>2, <2>1 DEF Header, NumberOf
    <2>3. RunsForSender'
      BY <1>0, <1>1, <2>1 DEF RunsForSender
    <2> QED  BY <1>2, <2>1, <2>2, <2>3 DEF Stream
  <1>9. CASE FeedText
    <2>1. /\ sms_text' = Append(sms_text, line) /\ UNCHANGED <<sms_number, executed>>
          /\ waiting_for_cmgr_text /\ sms_text \in Seq(FromModem) /\ line \in FromModem
      BY <1>0, <1>9, Fed DEF FeedText, history, TypeOK
    <2>2. /\ sms_text' # << >>
          /\ sms_text'[1] = IF sms_text = << >> THEN line ELSE sms_text[1]
      BY <2>1
    <2>3. sms_text'[1].is = "line" => NumberOf(sms_text[1].sms)'
      BY <1>3, <2>1, <2>2 DEF NumberOf
    <2>4. RunsForSender'
      BY <1>0, <1>1, <2>1 DEF RunsForSender
    <2> QED  BY <1>2, <2>2, <2>3, <2>4 DEF Stream
  <1>10. CASE RunSms
    <2> DEFINE m == SmsIn(sms_text)
    <2>1. /\ sms_text' = << >> /\ waiting_for_cmgr_text' = FALSE
          /\ executed' = executed \cup {[from |-> sms_number, sms |-> m]}
      BY <1>10 DEF RunSms
    <2>2. m # Unknown => NumberOf(m)
      BY <1>3, SmsOf
    <2>3. RunsForSender'
      BY <1>0, <1>1, <2>1, <2>2, ModemAssumption DEF RunsForSender, NumberOf
    <2> QED  BY <1>2, <2>1, <2>3 DEF Stream
  <1> QED
    BY <1>5, <1>6, <1>7, <1>8, <1>9, <1>10 DEF modem_feed_char

LEMMA LossThins ==
    ASSUME TypeOK, DeleteSms PROVE Thinned(toPico, toPico')
  <1>1. toPico \in Seq(FromModem)
    BY DEF TypeOK
  <1>2. PICK q : (q = toPico \/ q \in Clipped(toPico)) /\ toPico' \in Overrun(q)
    BY DEF DeleteSms
  <1>3. Thinned(toPico, q)
    BY <1>1, <1>2, ClippedThins DEF Thinned
  <1>4. Thinned(q, toPico')
    BY <1>2, <1>3, OverrunThins DEF Thinned
  <1> QED
    BY <1>3, <1>4 DEF Thinned

LEMMA DeleteStream == TypeOK /\ DeleteSms /\ Stream => Stream'
  <1> SUFFICES ASSUME TypeOK, DeleteSms, Stream, ~beheaded' PROVE Stream'
    BY DEF Stream
  <1>1. /\ UNCHANGED <<waiting_for_cmgr_text, sms_number, sms_text, executed>>
        /\ ~beheaded /\ ~Beheads(toPico, toPico')
    BY DEF DeleteSms, pico
  <1>2. /\ RunsForSender
        /\ waiting_for_cmgr_text /\ sms_text = << >> /\ toPico # << >> /\ toPico[1].is = "line" =>
              NumberOf(toPico[1].sms)
        /\ sms_text # << >> /\ sms_text[1].is = "line" => NumberOf(sms_text[1].sms)
    BY <1>1 DEF Stream
  <1>3. Thinned(toPico, toPico') /\ toPico \in Seq(FromModem) /\ toPico' \in Seq(FromModem)
    BY LossThins DEF Thinned, TypeOK
  <1>4. \A i \in DOMAIN toPico' :
            toPico'[i].is = "line" =>
                IF i = 1 THEN toPico'[1] = toPico[1] ELSE toPico'[i - 1] = Header(toPico'[i].sms)
    BY <1>1 DEF Beheads
  <1>5. Headed(toPico')
    BY <1>3, <1>4 DEF Headed
  <1>6. ASSUME toPico' # << >>, toPico'[1].is = "line"
        PROVE  toPico'[1] = toPico[1] /\ toPico # << >>
    <2>1. 1 \in DOMAIN toPico' /\ toPico'[1] \in FromModem
      BY <1>3, <1>6
    <2>2. toPico'[1].sms \in Messages /\ toPico'[1] = Line(toPico'[1].sms)
      BY <1>6, <2>1, LineKinds
    <2>3. Has(toPico', toPico'[1].sms)
      BY <2>1, <2>2 DEF Has
    <2>4. Has(toPico, toPico'[1].sms)
      BY <1>3, <2>2, <2>3 DEF Thinned
    <2>5. toPico # << >>
      BY <1>3, <2>4 DEF Has
    <2> QED  BY <1>4, <1>6, <2>1, <2>5
  <1>7. RunsForSender'
    BY <1>1, <1>2 DEF RunsForSender
  <1> QED
    BY <1>1, <1>2, <1>5, <1>6, <1>7 DEF Stream, NumberOf

LEMMA OtherStream ==
    ASSUME TypeOK, Stream,
           SendCommand \/ SendText \/ Result \/ NoPrompt \/ NoResult \/ ModemNext \/ Arrive
              \/ UNCHANGED vars
    PROVE  Stream'
  <1>1. UNCHANGED <<waiting_for_cmgr_text, sms_number, sms_text, executed, beheaded>>
    BY DEF SendCommand, SendText, Result, NoPrompt, NoResult, ModemNext, Arrive, ReadSms,
           RemoveSms, BeginSms, RefuseText, TakeText, EndSms, ModemOnly, vars, pico, history
  <1>2. toPico' = toPico \/ \E q : Whole(q) /\ toPico' = toPico \o q
    <2>1. CASE ModemNext \/ Arrive
      BY <2>1, Answered
    <2>2. CASE ~(ModemNext \/ Arrive)
      BY <2>2 DEF SendCommand, SendText, Result, NoPrompt, NoResult, vars
    <2> QED  BY <2>1, <2>2
  <1> SUFFICES ASSUME ~beheaded PROVE Stream'
    BY <1>1 DEF Stream
  <1>3. Headed(toPico) /\ RunsForSender
    BY DEF Stream
  <1>4. /\ Headed(toPico')
        /\ toPico' # << >> /\ toPico'[1].is = "line" => toPico # << >> /\ toPico'[1] = toPico[1]
    <2>1. toPico \in Seq(FromModem)
      BY DEF TypeOK
    <2>2. CASE toPico' = toPico
      BY <1>3, <2>2
    <2>3. CASE \E q : Whole(q) /\ toPico' = toPico \o q
      BY <1>3, <2>1, <2>3, HeadedAnswers
    <2> QED  BY <1>2, <2>2, <2>3
  <1>5. RunsForSender'
    BY <1>1, <1>3 DEF RunsForSender
  <1> QED
    BY <1>1, <1>4, <1>5 DEF Stream, NumberOf

(* Any SMS's, from any numbers, run inside each other to any depth, with a   *)
(* FIFO of any size: a command is run for the number that sent it, unless a  *)
(* header was lost while nothing was read and its text was not.              *)
THEOREM ForSender == Spec => []RunsForSender
  <1>1. Init => Stream
    BY DEF Init, Stream, Headed, RunsForSender
  <1>2. TypeOK /\ Stream /\ [Next]_vars => Stream'
    BY FeedStream, DeleteStream, OtherStream DEF Next, Send
  <1>3. Stream => RunsForSender
    BY DEF Stream, RunsForSender
  <1> QED
    BY <1>1, <1>2, <1>3, TypeCorrect, PTL DEF Spec

-----------------------------------------------------------------------------
(* Once *)

InText(m) == sms_text # << >> /\ sms_text[1] = Line(m)

(* Where an SMS is that was not given out, or once.                          *)
Once(m) ==
    /\ given[m] = 0 => ~Has(toPico, m) /\ ~InText(m) /\ ~Run(m)
    /\ given[m] <= 1 =>
          /\ Single(toPico, m)
          /\ Has(toPico, m) => ~InText(m) /\ ~Run(m)
          /\ InText(m) => ~Run(m)

AllOnce == \A m \in Messages : Once(m)

LEMMA Fewer ==
    ASSUME NEW m \in Messages, Once(m), Thinned(toPico, toPico'), InText(m)' => InText(m),
           executed' = executed, given' = given
    PROVE  Once(m)'
  BY DEF Once, Thinned, Run

LEMMA FedThins ==
    ASSUME TypeOK, Take PROVE Thinned(toPico, toPico')
  <1>1. /\ toPico' \in Seq(FromModem) /\ toPico \in Seq(FromModem)
        /\ Len(toPico') = Len(toPico) - 1
        /\ \A i \in 1 .. Len(toPico') : toPico'[i] = toPico[i + 1]
    BY Fed DEF TypeOK
  <1>2. PICK n \in Nat, d \in Int : n = 0 /\ d = 1
    OBVIOUS
  <1>3. \A i \in DOMAIN toPico' : i + d \in DOMAIN toPico /\ i + d > n /\ toPico[i + d] = toPico'[i]
    BY <1>1, <1>2
  <1> QED
    BY <1>1, <1>3, ShiftThins

LEMMA FeedOnce == TypeOK /\ modem_feed_char /\ AllOnce => AllOnce'
  <1> SUFFICES ASSUME TypeOK, modem_feed_char, AllOnce, NEW m \in Messages PROVE Once(m)'
    BY DEF AllOnce
  <1>0. Take /\ given' = given
    BY DEF modem_feed_char, FeedPrompt, FeedCMTI, FeedHeader, FeedText, RunSms, FeedOther,
           TakeLine, history
  <1>1. Thinned(toPico, toPico') /\ Once(m)
    BY <1>0, FedThins DEF AllOnce
  <1>2. ASSUME sms_text' = sms_text \/ sms_text' = << >>, executed' = executed
        PROVE  Once(m)'
    BY <1>0, <1>1, <1>2, Fewer DEF InText
  <1>3. CASE FeedPrompt \/ FeedCMTI \/ FeedHeader \/ FeedOther
    BY <1>2, <1>3 DEF FeedPrompt, FeedCMTI, FeedHeader, FeedOther, history
  <1>4. CASE FeedText
    <2>1. /\ sms_text' = Append(sms_text, line) /\ executed' = executed
          /\ sms_text \in Seq(FromModem) /\ line \in FromModem
      BY <1>0, <1>4, Fed DEF FeedText, history, TypeOK
    <2>2. sms_text' # << >> /\ sms_text'[1] = IF sms_text = << >> THEN line ELSE sms_text[1]
      BY <2>1
    <2>3. CASE ~(sms_text = << >> /\ line = Line(m))
      BY <1>0, <1>1, <2>1, <2>2, <2>3, Fewer DEF InText
    <2>4. CASE sms_text = << >> /\ line = Line(m)
      <3>1. /\ 1 \in DOMAIN toPico /\ toPico[1] = Line(m)
            /\ \A i \in DOMAIN toPico' : toPico'[i] = toPico[i + 1] /\ i + 1 \in DOMAIN toPico
                                         /\ i + 1 # 1
        <4>1. /\ toPico' \in Seq(FromModem) /\ toPico \in Seq(FromModem) /\ line = toPico[1]
              /\ toPico # << >> /\ Len(toPico') = Len(toPico) - 1
              /\ \A i \in 1 .. Len(toPico') : toPico'[i] = toPico[i + 1]
          BY <1>0, Fed DEF TypeOK
        <4> QED  BY <2>4, <4>1
      <3>2. Has(toPico, m)
        BY <3>1 DEF Has
      <3>3. Single(toPico, m) => ~Has(toPico', m)
        BY <3>1 DEF Single, Has
      <3>4. Run(m)' = Run(m)
        BY <2>1 DEF Run
      <3> QED  BY <1>0, <1>1, <3>2, <3>3, <3>4 DEF Once, Thinned
    <2> QED  BY <2>3, <2>4
  <1>5. CASE RunSms
    <2>1. /\ sms_text' = << >>
          /\ executed' = executed \cup {[from |-> sms_number, sms |-> SmsIn(sms_text)]}
      BY <1>5 DEF RunSms
    <2>2. ~InText(m)'
      BY <2>1 DEF InText
    <2>3. CASE SmsIn(sms_text) = m
      <3>1. InText(m)
        BY <2>3, SmsOf, ModemAssumption DEF InText
      <3> QED  BY <1>0, <1>1, <2>2, <3>1 DEF Once, Thinned
    <2>4. CASE SmsIn(sms_text) # m
      <3>1. Run(m)' => Run(m)
        BY <2>1, <2>4 DEF Run
      <3> QED  BY <1>0, <1>1, <2>2, <3>1 DEF Once, Thinned
    <2> QED  BY <2>3, <2>4
  <1> QED
    BY <1>3, <1>4, <1>5 DEF modem_feed_char

LEMMA PlainThins ==
    ASSUME NEW s \in Seq(FromModem), NEW q \in Seq(FromModem), \A i \in DOMAIN q : q[i].is # "line"
    PROVE  Thinned(s, s \o q)
  <1> DEFINE w == s \o q
  <1>1. /\ w \in Seq(FromModem) /\ Len(s) \in Nat
        /\ \A i \in 1 .. Len(s) : w[i] = s[i]
        /\ \A i \in 1 .. Len(q) : w[Len(s) + i] = q[i]
        /\ \A i \in 1 .. Len(w) : i \in 1 .. Len(s) \/ i - Len(s) \in 1 .. Len(q)
    BY Joins
  <1> HIDE DEF w
  <1>2. PICK n \in Nat, d \in Int : n = Len(s) /\ d = 0
    BY <1>1
  <1>3. ASSUME NEW i \in DOMAIN w, w[i].is = "line"
        PROVE  i <= n /\ i \in DOMAIN s /\ s[i] = w[i]
    <2>1. i \in 1 .. Len(w)
      BY <1>1
    <2>2. CASE i \in 1 .. Len(s)
      BY <1>1, <1>2, <2>2
    <2>3. CASE i - Len(s) \in 1 .. Len(q)
      <3>1. Len(s) + (i - Len(s)) = i
        BY <1>1, <2>1
      <3>2. w[i] = q[i - Len(s)] /\ i - Len(s) \in DOMAIN q
        BY <1>1, <2>3, <3>1
      <3> QED  BY <1>3, <3>2
    <2> QED  BY <1>1, <2>1, <2>2, <2>3
  <1>4. Thinned(s, w)
    BY <1>1, <1>3, ShiftThins
  <1> QED
    BY <1>4 DEF w

LEMMA LineThins ==
    ASSUME NEW s \in Seq(FromModem), NEW l \in FromModem, l.is # "line"
    PROVE  Thinned(s, s \o <<l>>)
  <1> DEFINE q == <<l>>
  <1>1. q \in Seq(FromModem) /\ \A i \in DOMAIN q : q[i].is # "line"
    BY OneLine
  <1> HIDE DEF q
  <1>2. Thinned(s, s \o q)
    BY <1>1, PlainThins
  <1> QED
    BY <1>2 DEF q

(* An SMS that was not given out before.                                     *)
LEMMA FirstGiven ==
    ASSUME NEW s \in Seq(FromModem), NEW n \in Messages
    PROVE  LET w == s \o <<Header(n), Line(n), OK>>
           IN  /\ \A m \in Messages \ {n} : (Has(w, m) => Has(s, m)) /\ (Single(s, m) => Single(w, m))
               /\ ~Has(s, n) => Single(w, n)
  <1> DEFINE q == <<Header(n), Line(n), OK>>
             w == s \o q
  <1>1. q \in Seq(FromModem) /\ Len(q) = 3 /\ q[1] = Header(n) /\ q[2] = Line(n) /\ q[3] = OK
    BY LineTypes
  <1> HIDE DEF q
  <1>2. /\ w \in Seq(FromModem) /\ Len(s) \in Nat
        /\ \A i \in 1 .. Len(s) : w[i] = s[i]
        /\ \A i \in 1 .. 3 : w[Len(s) + i] = q[i]
        /\ \A i \in 1 .. Len(w) : i \in 1 .. Len(s) \/ i - Len(s) \in 1 .. 3
        /\ DOMAIN w = 1 .. Len(w) /\ DOMAIN s = 1 .. Len(s)
    <2>1. /\ w \in Seq(FromModem) /\ Len(s) \in Nat
          /\ \A i \in 1 .. Len(s) : w[i] = s[i]
          /\ \A i \in 1 .. Len(q) : w[Len(s) + i] = q[i]
          /\ \A i \in 1 .. Len(w) : i \in 1 .. Len(s) \/ i - Len(s) \in 1 .. Len(q)
      BY <1>1, Joins
    <2> HIDE DEF w
    <2> QED  BY <1>1, <2>1
  <1> HIDE DEF w
  <1>3. ASSUME NEW m \in Messages, NEW i \in DOMAIN w, w[i] = Line(m)
        PROVE  \/ i \in DOMAIN s /\ s[i] = Line(m)
               \/ i = Len(s) + 2 /\ m = n
    <2>1. CASE i \in 1 .. Len(s)
      BY <1>2, <1>3, <2>1
    <2>2. CASE i - Len(s) \in 1 .. 3
      <3>1. i \in Nat
        BY <1>2
      <3>2. i = Len(s) + 1 \/ i = Len(s) + 2 \/ i = Len(s) + 3
        BY <1>2, <2>2, <3>1
      <3>3. /\ i = Len(s) + 1 => w[i] = Header(n)
            /\ i = Len(s) + 2 => w[i] = Line(n)
            /\ i = Len(s) + 3 => w[i] = OK
        BY <1>1, <1>2, <3>2
      <3>4. Header(n) # Line(m) /\ OK # Line(m) /\ (Line(n) = Line(m) => m = n)
        BY DEF Header, Line, OK
      <3> QED  BY <1>3, <3>2, <3>3, <3>4
    <2> QED  BY <1>2, <2>1, <2>2
  <1>4. ASSUME NEW m \in Messages \ {n}
        PROVE  (Has(w, m) => Has(s, m)) /\ (Single(s, m) => Single(w, m))
    BY <1>3 DEF Has, Single
  <1>5. ~Has(s, n) => Single(w, n)
    BY <1>3 DEF Has, Single
  <1> QED
    BY <1>4, <1>5 DEF w, q

LEMMA ReadOnce == TypeOK /\ ReadSms /\ AllOnce => AllOnce'
  <1> SUFFICES ASSUME TypeOK, ReadSms, AllOnce, NEW m \in Messages PROVE Once(m)'
    BY DEF AllOnce
  <1> DEFINE n == storage[command.index]
  <1>1. /\ toPico \in Seq(FromModem) /\ given \in [Messages -> Nat]
        /\ UNCHANGED <<sms_text, executed>>
        /\ given' = [x \in Messages |-> IF x = n THEN given[x] + 1 ELSE given[x]]
    BY DEF ReadSms, TypeOK, pico
  <1>2. (InText(m)' <=> InText(m)) /\ (Run(m)' <=> Run(m))
    BY <1>1 DEF InText, Run
  <1>3. Once(m)
    BY DEF AllOnce
  <1>4. n \in Messages \cup {Empty}
    <2>1. toModem # << >> /\ command \in ToModem /\ storage \in [Indexes -> Messages \cup {Empty}]
      BY DEF ReadSms, Handled, command, TypeOK
    <2>2. command.index \in Indexes
      BY <2>1, LineKinds DEF ReadSms
    <2> QED  BY <2>1, <2>2
  <1>5. toPico' = IF n = Empty THEN toPico \o <<OK>> ELSE toPico \o <<Header(n), Line(n), OK>>
    BY DEF ReadSms, Answer
  <1> HIDE DEF n
  <1>6. CASE n = Empty
    <2>1. Thinned(toPico, toPico')
      BY <1>1, <1>5, <1>6, LineThins, LineTypes, Plain
    <2>2. given'[m] = given[m]
      BY <1>1, <1>6, ModemAssumption
    <2> QED  BY <1>2, <1>3, <2>1, <2>2 DEF Once, Thinned
  <1>7. CASE n \in Messages
    <2>1. /\ m # n => (Has(toPico', m) => Has(toPico, m)) /\ (Single(toPico, m) => Single(toPico', m))
          /\ ~Has(toPico, n) => Single(toPico', n)
      BY <1>1, <1>5, <1>7, FirstGiven, ModemAssumption
    <2>2. given[m] \in Nat /\ given'[m] = IF m = n THEN given[m] + 1 ELSE given[m]
      BY <1>1
    <2>3. CASE m = n
      <3>1. given'[m] # 0 /\ (given'[m] <= 1 => given[m] = 0)
        BY <2>2, <2>3
      <3> QED  BY <1>2, <1>3, <2>1, <2>3, <3>1 DEF Once
    <2>4. CASE m # n
      BY <1>2, <1>3, <2>1, <2>2, <2>4 DEF Once
    <2> QED  BY <2>3, <2>4
  <1> QED
    BY <1>4, <1>6, <1>7

(* What else the modem answers has no SMS in it.                             *)
LEMMA OtherThins ==
    ASSUME TypeOK, SendCommand \/ SendText \/ Result \/ NoPrompt \/ NoResult \/ RemoveSms
              \/ BeginSms \/ RefuseText \/ TakeText \/ EndSms \/ Arrive \/ UNCHANGED vars
    PROVE  Thinned(toPico, toPico')
  <1>0. toPico \in Seq(FromModem)
    BY DEF TypeOK
  <1>1. \A l \in FromModem : l.is # "line" => Thinned(toPico, toPico \o <<l>>)
    BY <1>0, LineThins
  <1>2. Thinned(toPico, toPico \o <<Sent, OK>>)
    <2>1. <<Sent, OK>> \in Seq(FromModem) /\ \A i \in DOMAIN <<Sent, OK>> : <<Sent, OK>>[i].is # "line"
      BY LineTypes, Plain
    <2> QED  BY <1>0, <2>1, PlainThins
  <1>3. Thinned(toPico, toPico)
    BY <1>0 DEF Thinned
  <1> USE <1>1, <1>2, <1>3, LineTypes, Plain DEF Answer
  <1>4. CASE SendCommand \/ SendText \/ Result \/ NoPrompt \/ NoResult \/ TakeText \/ UNCHANGED vars
    BY <1>4 DEF SendCommand, SendText, Result, NoPrompt, NoResult, TakeText, vars
  <1>5. CASE RemoveSms
    BY <1>5 DEF RemoveSms
  <1>6. CASE BeginSms
    BY <1>6 DEF BeginSms
  <1>7. CASE RefuseText
    BY <1>7 DEF RefuseText
  <1>8. CASE EndSms
    BY <1>8 DEF EndSms
  <1>9. CASE Arrive
    BY <1>9 DEF Arrive
  <1> QED
    BY <1>4, <1>5, <1>6, <1>7, <1>8, <1>9

LEMMA OtherOnce ==
    ASSUME TypeOK, AllOnce,
           DeleteSms \/ SendCommand \/ SendText \/ Result \/ NoPrompt \/ NoResult \/ RemoveSms
              \/ BeginSms \/ RefuseText \/ TakeText \/ EndSms \/ Arrive \/ UNCHANGED vars
    PROVE  AllOnce'
  <1>1. Thinned(toPico, toPico')
    BY LossThins, OtherThins
  <1>2. UNCHANGED <<sms_text, executed, given>>
    BY DEF DeleteSms, SendCommand, SendText, Result, NoPrompt, NoResult, RemoveSms, BeginSms,
           RefuseText, TakeText, EndSms, Arrive, ModemOnly, vars, pico, history
  <1> QED
    BY <1>1, <1>2, Fewer DEF AllOnce, InText

(* Any SMS's, any replies and a FIFO of any size: an SMS that was read from  *)
(* the SIM once is run once, whatever is read while it is being run.         *)
THEOREM OnceOnly == Spec => RunsOnce
  <1>1. Init => AllOnce
    BY DEF Init, AllOnce, Once, Has, Single, InText, Run
  <1>2. TypeOK /\ AllOnce /\ [Next]_vars => AllOnce'
    BY FeedOnce, ReadOnce, OtherOnce DEF Next, Send, ModemNext
  <1>3. ASSUME TypeOK, AllOnce, RunSms
        PROVE  LET m == SmsIn(sms_text) IN m = Unknown \/ ~Run(m) \/ given[m] > 1
    <2> DEFINE m == SmsIn(sms_text)
    <2>1. m # Unknown => m \in Messages /\ InText(m)
      BY <1>3, SmsInType, SmsOf DEF InText
    <2>2. \A n \in Messages : Once(n) /\ given[n] \in Nat
      BY <1>3 DEF TypeOK, AllOnce
    <2> HIDE DEF m
    <2>3. m = Unknown \/ ~Run(m) \/ given[m] > 1
      BY <2>1, <2>2 DEF Once
    <2> QED  BY <2>3 DEF m
  <1>4. TypeOK /\ AllOnce /\ [Next]_vars =>
            [RunSms => LET m == SmsIn(sms_text) IN m = Unknown \/ ~Run(m) \/ given[m] > 1]_vars
    BY <1>3
  <1> QED
    BY <1>1, <1>2, <1>4, TypeCorrect, PTL DEF Spec, RunsOnce

-----------------------------------------------------------------------------
(* While SMS's come apart *)

None(lines, kind) == \A i \in DOMAIN lines : lines[i].is # kind

(* An SMS is announced, asked for or read: nothing else is in transit.        *)
Incoming ==
    /\ frames = << >> /\ body = Closed
    /\ \/ /\ toModem = << >> /\ ~waiting_for_cmgr_text
          /\ \E i \in Indexes : toPico = <<CMTI(i)>>
       \/ /\ toPico = << >> /\ ~waiting_for_cmgr_text
          /\ \E i \in Indexes : toModem = <<CMGR(i)>>
       \/ /\ toModem = << >>
          /\ \E m \in Messages :
                \/ ~waiting_for_cmgr_text /\ toPico = <<Header(m), Line(m), OK>>
                \/ waiting_for_cmgr_text /\ (toPico = <<Line(m), OK>> \/ toPico = <<OK>>)

(* Or none is; what is in transit belongs to the replies of the last one.    *)
Clear ==
    /\ None(toPico, "+CMTI") /\ None(toPico, "+CMGR") /\ None(toModem, "AT+CMGR")
    /\ ~waiting_for_cmgr_text

(* A text only goes to the modem that waits for it, before all else. *)
Texts ==
    \A i \in DOMAIN toModem :
        toModem[i].is = "text" => i = 1 /\ body # Closed /\ toModem[1].to = body.to
Body ==
    body # Closed =>
        /\ body.text = << >>
        /\ IF toModem = << >>
           THEN In("prompt") /\ body.to = Head(top.todo) /\ (modem_wait_flag \/ ~None(toPico, ">"))
           ELSE toModem[1].is = "text"
(* A number goes to the modem last, and nothing after it before the prompt.  *)
Asked ==
    \A i \in DOMAIN toModem :
        toModem[i].is = "AT+CMGS" =>
            /\ i = Len(toModem) /\ In("prompt") /\ toModem[i].to = Head(top.todo)
            /\ ~modem_wait_flag /\ None(toPico, ">")
Prompted ==
    \A i \in DOMAIN toPico :
        toPico[i].is = ">" =>
            i = Len(toPico) /\ In("prompt") /\ toModem = << >> /\ body # Closed /\ ~modem_wait_flag
Waited ==
    In("prompt") => modem_wait_match /\ (modem_wait_flag => toModem = << >> /\ body # Closed)

Sending == Clear /\ Texts /\ Body /\ Asked /\ Prompted /\ Waited

ApartInv == apart => Len(frames) <= 1 /\ (Incoming \/ Sending) /\ RepliesReachTheirSender

LEMMA TopMoves ==
    ASSUME TypeOK, frames # << >>
    PROVE  /\ \A pc : Go(pc) => /\ frames' # << >> /\ Len(frames') = Len(frames)
                                /\ top'.pc = pc /\ top'.todo = top.todo
           /\ SmsDone => frames' # << >> /\ Len(frames') = Len(frames) /\ top'.pc = "send"
  <1>1. frames \in Seq(Frame) /\ frames[1] \in Frame /\ 1 \in DOMAIN frames /\ top = frames[1]
    BY DEF TypeOK, top
  <1>2. top' = frames'[1]
    BY DEF top
  <1>3. ASSUME NEW pc, Go(pc)
        PROVE  /\ frames' # << >> /\ Len(frames') = Len(frames)
               /\ top'.pc = pc /\ top'.todo = top.todo
    <2>1. frames' = [frames EXCEPT ![1].pc = pc]
      BY <1>3 DEF Go
    <2>2. DOMAIN frames' = DOMAIN frames /\ frames'[1] = [frames[1] EXCEPT !.pc = pc]
      BY <1>1, <2>1
    <2>3. Len(frames') = Len(frames) /\ frames' # << >>
      BY <1>1, <2>1, <2>2
    <2> QED  BY <1>1, <1>2, <2>2, <2>3 DEF Frame
  <1>4. ASSUME SmsDone
        PROVE  frames' # << >> /\ Len(frames') = Len(frames) /\ top'.pc = "send"
    <2>1. frames' = [frames EXCEPT ![1].pc = "send", ![1].todo = Tail(@)]
      BY <1>4 DEF SmsDone
    <2>2. /\ DOMAIN frames' = DOMAIN frames
          /\ frames'[1] = [frames[1] EXCEPT !.pc = "send", !.todo = Tail(@)]
      BY <1>1, <2>1
    <2>3. Len(frames') = Len(frames) /\ frames' # << >>
      BY <1>1, <2>1, <2>2
    <2> QED  BY <1>1, <1>2, <2>2, <2>3 DEF Frame
  <1> QED
    BY <1>3, <1>4

LEMMA MoreKinds ==
    /\ \A l \in FromModem : l.is = ">" => l = Prompt
    /\ \A l \in FromModem : l.is = "OK" => l = OK
    /\ \A c \in ToModem : c.is = "text" =>
          c.to \in Recipients /\ \E m \in Messages \cup {Unknown} : c = Text(c.to, m)
  <1>1. \A l \in FromModem : (l.is = ">" => l = Prompt) /\ (l.is = "OK" => l = OK)
    BY DEF FromModem, CMTI, Line, Prompt, Sent, OK, ERROR, Cut
  <1>2. \A c \in ToModem : c.is = "text" =>
          c.to \in Recipients /\ \E m \in Messages \cup {Unknown} : c = Text(c.to, m)
    BY DEF ToModem, CMGR, CMGD, CMGS, Text
  <1> QED
    BY <1>1, <1>2

LEMMA Appended ==
    ASSUME NEW c \in ToModem, TypeOK, toModem' = Append(toModem, c)
    PROVE  /\ toModem' # << >> /\ Len(toModem') = Len(toModem) + 1 /\ toModem'[Len(toModem) + 1] = c
           /\ Len(toModem) \in Nat /\ DOMAIN toModem = 1 .. Len(toModem)
           /\ DOMAIN toModem' = 1 .. Len(toModem) + 1
           /\ \A i \in DOMAIN toModem : toModem'[i] = toModem[i]
           /\ toModem = << >> => toModem'[1] = c
           /\ toModem # << >> => toModem'[1] = toModem[1]
  <1>1. toModem \in Seq(ToModem)
    BY DEF TypeOK
  <1>2. /\ toModem' \in Seq(ToModem) /\ Len(toModem') = Len(toModem) + 1
        /\ toModem'[Len(toModem) + 1] = c /\ Len(toModem) \in Nat
    BY <1>1
  <1>3. DOMAIN toModem = 1 .. Len(toModem) /\ DOMAIN toModem' = 1 .. Len(toModem) + 1
    BY <1>1, <1>2
  <1>4. \A i \in 1 .. Len(toModem) : toModem'[i] = toModem[i]
    BY <1>1
  <1>5. toModem = << >> => Len(toModem) = 0
    OBVIOUS
  <1>6. toModem # << >> => 1 \in 1 .. Len(toModem)
    BY <1>1
  <1>7. toModem' # << >>
    BY <1>2
  <1>8. toModem = << >> => toModem'[1] = c
    BY <1>2, <1>5
  <1>9. toModem # << >> => toModem'[1] = toModem[1]
    BY <1>4, <1>6
  <1> QED
    BY <1>2, <1>3, <1>4, <1>7, <1>8, <1>9

LEMMA Consumed ==
    ASSUME TypeOK, Handled
    PROVE  /\ command = toModem[1] /\ command \in ToModem /\ Len(toModem) \in Nat
           /\ 1 \in DOMAIN toModem /\ Len(toModem') = Len(toModem) - 1
           /\ \A i \in DOMAIN toModem' : i \in Nat \ {0} /\ i + 1 \in DOMAIN toModem /\ toModem'[i] = toModem[i + 1]
           /\ toModem' = << >> <=> Len(toModem) = 1
  <1>1. toModem \in Seq(ToModem) /\ toModem # << >> /\ toModem' = Tail(toModem) /\ command = Head(toModem)
    BY DEF TypeOK, Handled, command
  <1>2. command = toModem[1] /\ command \in ToModem /\ Len(toModem) \in Nat /\ Len(toModem) >= 1
    BY <1>1
  <1>3. /\ toModem' \in Seq(ToModem) /\ Len(toModem') = Len(toModem) - 1
        /\ \A i \in 1 .. Len(toModem') : toModem'[i] = toModem[i + 1]
    BY <1>1
  <1>4. DOMAIN toModem = 1 .. Len(toModem) /\ DOMAIN toModem' = 1 .. Len(toModem')
    BY <1>1, <1>3
  <1>5. \A i \in DOMAIN toModem' : i \in Nat \ {0} /\ i + 1 \in DOMAIN toModem
    BY <1>2, <1>3, <1>4
  <1>6. toModem' = << >> <=> Len(toModem') = 0
    BY <1>3
  <1>7. 1 \in DOMAIN toModem /\ (Len(toModem') = 0 <=> Len(toModem) = 1)
    BY <1>2, <1>3, <1>4
  <1> QED
    BY <1>2, <1>3, <1>4, <1>5, <1>6, <1>7

LEMMA ArriveApart ==
    ASSUME TypeOK, ApartInv, Arrive, apart' PROVE ApartInv'
  <1>1. PICK m \in outside, i \in Indexes :
            /\ Answer(<<CMTI(i)>>)
            /\ UNCHANGED <<toModem, body, delivered, pico, frames>>
            /\ apart' = (apart /\ Quiet /\ frames = << >>)
    BY DEF Arrive, Apart
  <1>2. apart /\ toModem = << >> /\ toPico = << >> /\ frames = << >>
    BY <1>1 DEF Quiet
  <1>3. ~waiting_for_cmgr_text /\ body = Closed
    BY <1>2 DEF ApartInv, Incoming, Sending, Clear, Body, In
  <1>4. toPico' = <<CMTI(i)>>
    BY <1>1, <1>2 DEF Answer
  <1>5. Incoming'
    BY <1>1, <1>2, <1>3, <1>4 DEF Incoming, pico
  <1>6. RepliesReachTheirSender' /\ Len(frames') <= 1
    BY <1>1, <1>2 DEF ApartInv, RepliesReachTheirSender
  <1> QED
    BY <1>5, <1>6 DEF ApartInv

LEMMA FeedApart ==
    ASSUME TypeOK, ApartInv, modem_feed_char, apart' PROVE ApartInv'
  <1>0. /\ Take /\ apart /\ UNCHANGED <<body, delivered>>
    BY DEF modem_feed_char, FeedPrompt, FeedCMTI, FeedHeader, FeedText, RunSms, FeedOther,
           TakeLine, modem, history
  <1>1. RepliesReachTheirSender'
    BY <1>0 DEF ApartInv, RepliesReachTheirSender
  <1>2. toPico # << >> /\ line = Head(toPico) /\ toPico' = Tail(toPico) /\ Len(frames) <= 1
    BY <1>0 DEF Take, line, ApartInv
  <1>3. /\ line.is = "+CMTI" => FeedCMTI
        /\ line.is = "+CMGR" => FeedHeader
        /\ line.is = "line" /\ waiting_for_cmgr_text => FeedText
        /\ line = OK /\ waiting_for_cmgr_text => RunSms
    <2>1. FeedPrompt => line.is = ">"
      BY DEF FeedPrompt, Prompt
    <2>2. FeedCMTI => line.is = "+CMTI"
      BY DEF FeedCMTI
    <2>3. FeedHeader => line.is = "+CMGR"
      BY DEF FeedHeader
    <2>4. FeedText => waiting_for_cmgr_text /\ line.is \notin {"+CMTI", "+CMGR", "OK"}
      BY DEF FeedText
    <2>5. RunSms => line.is = "OK"
      BY DEF RunSms, OK
    <2>6. FeedOther => ~waiting_for_cmgr_text /\ line.is \notin {"+CMTI", "+CMGR"}
      BY DEF FeedOther
    <2>7. line = OK => line.is = "OK"
      BY DEF OK
    <2> QED
      BY <2>1, <2>2, <2>3, <2>4, <2>5, <2>6, <2>7 DEF modem_feed_char
  <1>4. CASE Incoming
    <2>0. frames = << >> /\ body = Closed
      BY <1>4 DEF Incoming
    <2>1. CASE toModem = << >> /\ ~waiting_for_cmgr_text /\ \E i \in Indexes : toPico = <<CMTI(i)>>
      <3>1. PICK i \in Indexes : toPico = <<CMTI(i)>>
        BY <2>1
      <3>2. line = CMTI(i) /\ line.is = "+CMTI" /\ line.index = i /\ toPico' = << >>
        BY <1>2, <3>1 DEF CMTI
      <3>3. toModem' = <<CMGR(i)>> /\ UNCHANGED <<frames, waiting_for_cmgr_text>>
        BY <1>3, <2>1, <3>2 DEF FeedCMTI
      <3>4. Incoming'
        BY <1>0, <2>0, <2>1, <3>2, <3>3 DEF Incoming
      <3> QED  BY <1>1, <1>2, <3>3, <3>4 DEF ApartInv
    <2>2. CASE toModem = << >> /\ ~waiting_for_cmgr_text
               /\ \E m \in Messages : toPico = <<Header(m), Line(m), OK>>
      <3>1. PICK m \in Messages : toPico = <<Header(m), Line(m), OK>>
        BY <2>2
      <3>2. line = Header(m) /\ line.is = "+CMGR" /\ toPico' = <<Line(m), OK>>
        BY <1>2, <3>1 DEF Header
      <3>3. waiting_for_cmgr_text' = TRUE /\ UNCHANGED <<frames, toModem>>
        BY <1>3, <3>2 DEF FeedHeader
      <3>4. Incoming'
        BY <1>0, <2>0, <2>2, <3>2, <3>3 DEF Incoming
      <3> QED  BY <1>1, <1>2, <3>3, <3>4 DEF ApartInv
    <2>3. CASE toModem = << >> /\ waiting_for_cmgr_text
               /\ \E m \in Messages : toPico = <<Line(m), OK>>
      <3>1. PICK m \in Messages : toPico = <<Line(m), OK>>
        BY <2>3
      <3>2. line = Line(m) /\ line.is = "line" /\ toPico' = <<OK>>
        BY <1>2, <3>1 DEF Line
      <3>3. UNCHANGED <<waiting_for_cmgr_text, frames, toModem>>
        BY <1>3, <2>3, <3>2 DEF FeedText
      <3>4. Incoming'
        BY <1>0, <2>0, <2>3, <3>2, <3>3 DEF Incoming
      <3> QED  BY <1>1, <1>2, <3>3, <3>4 DEF ApartInv
    <2>4. CASE toModem = << >> /\ waiting_for_cmgr_text /\ toPico = <<OK>>
      <3>1. line = OK /\ toPico' = << >>
        BY <1>2, <2>4
      <3>2. RunSms
        BY <1>3, <2>4, <3>1
      <3> DEFINE r == RepliesTo(SmsIn(sms_text), sms_number)
                 f == [pc |-> "send", todo |-> r, sms |-> SmsIn(sms_text),
                       index |-> last_sms_index, waited |-> (r # << >>)]
      <3>3. frames' = <<f>> \o frames
        BY <3>2 DEF RunSms
      <3>a. f.pc = "send"
        OBVIOUS
      <3> HIDE DEF f
      <3>4. frames' = <<f>>
        BY <2>0, <3>3
      <3>b. Len(frames') = 1 /\ top'.pc = "send"
        BY <3>a, <3>4 DEF top
      <3>5. /\ Len(frames') <= 1 /\ ~In("prompt")'
        BY <3>b DEF In
      <3>6. waiting_for_cmgr_text' = FALSE /\ toModem' = << >> /\ body' = Closed
        BY <1>0, <2>0, <2>4, <3>2 DEF RunSms
      <3>7. Sending'
        BY <3>1, <3>5, <3>6 DEF Sending, Clear, None, Texts, Body, Asked, Prompted, Waited
      <3> QED  BY <1>1, <3>5, <3>7 DEF ApartInv
    <2> QED
      BY <1>2, <1>4, <2>1, <2>2, <2>3, <2>4 DEF Incoming
  <1>5. CASE Sending
    <2>0. /\ toPico' \in Seq(FromModem) /\ line \in FromModem /\ line = toPico[1]
          /\ Len(toPico') = Len(toPico) - 1 /\ Len(toPico) \in Nat
          /\ DOMAIN toPico = 1 .. Len(toPico) /\ DOMAIN toPico' = 1 .. Len(toPico')
          /\ 1 \in DOMAIN toPico
          /\ \A i \in DOMAIN toPico' : i + 1 \in DOMAIN toPico /\ toPico'[i] = toPico[i + 1]
      <3>1. toPico \in Seq(FromModem)
        BY DEF TypeOK
      <3>2. /\ toPico' \in Seq(FromModem) /\ line \in FromModem /\ line = toPico[1] /\ toPico # << >>
            /\ Len(toPico') = Len(toPico) - 1
            /\ \A i \in 1 .. Len(toPico') : toPico'[i] = toPico[i + 1]
        BY <1>0, Fed
      <3> QED  BY <3>1, <3>2
    <2>1. ~waiting_for_cmgr_text /\ line.is \notin {"+CMTI", "+CMGR"}
      BY <1>5, <2>0 DEF Sending, Clear, None
    <2>2. FeedPrompt \/ FeedOther
      BY <2>1 DEF modem_feed_char, FeedCMTI, FeedHeader, FeedText, RunSms
    <2>3. UNCHANGED <<toModem, frames, waiting_for_cmgr_text, modem_wait_match, body, delivered>>
      BY <1>0, <2>2 DEF FeedPrompt, FeedOther
    <2>4. In("prompt")' = In("prompt") /\ top' = top /\ Len(frames') <= 1
      BY <1>2, <2>3 DEF In, top
    <2>5. Clear' /\ Texts'
      BY <1>5, <2>0, <2>3 DEF Sending, Clear, None, Texts
    <2>6. CASE FeedPrompt
      <3>1. line = Prompt /\ modem_wait_flag' = (modem_wait_flag \/ modem_wait_match)
        BY <2>6 DEF FeedPrompt
      <3>a. toPico[1].is = ">" /\ 1 \in DOMAIN toPico
        BY <2>0, <3>1 DEF Prompt
      <3>2. 1 = Len(toPico) /\ In("prompt") /\ toModem = << >> /\ body # Closed
        BY <1>5, <3>a DEF Sending, Prompted
      <3>b. modem_wait_match = TRUE
        BY <1>5, <3>2 DEF Sending, Waited, TypeOK
      <3>c. modem_wait_flag' = TRUE
        BY <3>1, <3>b DEF TypeOK
      <3>d. Len(toPico') = 0
        <4>1. Len(toPico') = Len(toPico) - 1
          BY <2>0
        <4>2. Len(toPico) = 1
          BY <3>2
        <4> QED  BY <4>1, <4>2
      <3>e. DOMAIN toPico' = 1 .. 0
        BY <2>0, <3>d
      <3>3. modem_wait_flag' = TRUE /\ DOMAIN toPico' = {}
        BY <3>c, <3>e
      <3>4. Body' /\ Asked' /\ Prompted' /\ Waited'
        BY <1>5, <2>3, <2>4, <3>2, <3>3 DEF Sending, Body, Asked, Prompted, Waited
      <3> QED  BY <1>1, <2>4, <2>5, <3>4 DEF ApartInv, Sending
    <2>7. CASE FeedOther
      <3>1. line.is # ">" /\ modem_wait_flag' = modem_wait_flag
        BY <2>0, <2>7, MoreKinds DEF FeedOther, TakeLine
      <3>2. None(toPico, ">") => None(toPico', ">")
        BY <2>0 DEF None
      <3>3. None(toPico', ">") => None(toPico, ">")
        <4>1. ASSUME NEW j \in DOMAIN toPico, j # 1
              PROVE  j - 1 \in DOMAIN toPico' /\ toPico'[j - 1] = toPico[j]
          <5>1. j - 1 \in DOMAIN toPico' /\ (j - 1) + 1 = j
            BY <2>0, <4>1
          <5> QED  BY <2>0, <5>1
        <4> QED  BY <2>0, <3>1, <4>1 DEF None
      <3>4. Prompted'
        <4>1. ASSUME NEW i \in DOMAIN toPico', toPico'[i].is = ">"
              PROVE  /\ i = Len(toPico') /\ In("prompt") /\ toModem = << >>
                     /\ body # Closed /\ ~modem_wait_flag
          <5>1. i + 1 \in DOMAIN toPico /\ toPico[i + 1].is = ">" /\ i \in Nat
            BY <2>0, <4>1
          <5>2. i + 1 = Len(toPico) /\ In("prompt") /\ toModem = << >> /\ body # Closed /\ ~modem_wait_flag
            BY <1>5, <5>1 DEF Sending, Prompted
          <5> QED  BY <2>0, <5>1, <5>2
        <4> QED  BY <2>3, <2>4, <3>1, <4>1 DEF Prompted
      <3>5. Body' /\ Asked' /\ Waited'
        BY <1>5, <2>3, <2>4, <3>1, <3>2, <3>3 DEF Sending, Body, Asked, Waited
      <3> QED  BY <1>1, <2>4, <2>5, <3>4, <3>5 DEF ApartInv, Sending
    <2> QED  BY <2>2, <2>6, <2>7
  <1> QED
    BY <1>0, <1>4, <1>5 DEF ApartInv

LEMMA OfLines ==
    ASSUME NEW kind, NEW a \in Seq(FromModem), NEW b \in Seq(FromModem), None(a, kind), None(b, kind)
    PROVE  None(a \o b, kind)
  <1> DEFINE w == a \o b
  <1>1. /\ w \in Seq(FromModem) /\ Len(a) \in Nat
        /\ \A i \in 1 .. Len(a) : w[i] = a[i]
        /\ \A i \in 1 .. Len(b) : w[Len(a) + i] = b[i]
        /\ \A i \in 1 .. Len(w) : i \in 1 .. Len(a) \/ i - Len(a) \in 1 .. Len(b)
    BY Joins
  <1> HIDE DEF w
  <1>2. ASSUME NEW i \in DOMAIN w PROVE w[i].is # kind
    <2>1. i \in 1 .. Len(w)
      BY <1>1
    <2>2. CASE i \in 1 .. Len(a)
      BY <1>1, <2>2 DEF None
    <2>3. CASE i - Len(a) \in 1 .. Len(b)
      <3>1. Len(a) + (i - Len(a)) = i
        BY <1>1, <2>1
      <3>2. w[i] = b[i - Len(a)] /\ i - Len(a) \in DOMAIN b
        BY <1>1, <2>3, <3>1
      <3> QED  BY <3>2 DEF None
    <2> QED  BY <1>1, <2>1, <2>2, <2>3
  <1> QED
    BY <1>2 DEF None, w

LEMMA OfPart ==
    ASSUME NEW kind, NEW s \in Seq(FromModem), NEW i \in Nat \ {0}, NEW j \in Nat, j <= Len(s),
           None(s, kind)
    PROVE  SubSeq(s, i, j) \in Seq(FromModem) /\ None(SubSeq(s, i, j), kind)
  <1> DEFINE q == SubSeq(s, i, j)
  <1>1. /\ q \in Seq(FromModem) /\ Len(s) \in Nat
        /\ \A k \in DOMAIN q : i + k - 1 \in DOMAIN s /\ q[k] = s[i + k - 1]
    OBVIOUS
  <1> HIDE DEF q
  <1>2. q \in Seq(FromModem) /\ None(q, kind)
    BY <1>1 DEF None
  <1> QED
    BY <1>2 DEF q

LEMMA ClippedKeeps ==
    ASSUME NEW s \in Seq(FromModem), NEW q \in Clipped(s), NEW kind \in {">", "+CMTI", "+CMGR"},
           None(s, kind)
    PROVE  None(q, kind)
  <1> DEFINE t == Tail(s)
             c == <<Cut>>
  <1>1. q = s \/ (s # << >> /\ (q = t \/ q = c \o t))
    BY DEF Clipped
  <1>2. s # << >> => t \in Seq(FromModem) /\ None(t, kind)
    <2>1. s # << >> => t \in Seq(FromModem) /\ \A i \in DOMAIN t : i + 1 \in DOMAIN s /\ t[i] = s[i + 1]
      OBVIOUS
    <2> HIDE DEF t
    <2> QED  BY <2>1 DEF None
  <1>3. c \in Seq(FromModem) /\ None(c, kind)
    BY LineTypes, OneLine DEF None, Cut
  <1> HIDE DEF t, c
  <1> QED
    BY <1>1, <1>2, <1>3, OfLines

LEMMA OverrunKeeps ==
    ASSUME NEW s \in Seq(FromModem), NEW q \in Overrun(s), NEW kind \in {">", "+CMTI", "+CMGR"},
           None(s, kind)
    PROVE  None(q, kind)
  <1>1. CASE q = s
    BY <1>1
  <1>2. CASE q # s
    <2>1. PICK k \in FifoLines + 2 .. Len(s) + 1, j \in Joined(s[FifoLines + 1]) :
              q = SubSeq(s, 1, FifoLines) \o j \o SubSeq(s, k, Len(s))
      BY <1>2 DEF Overrun
    <2> DEFINE a == SubSeq(s, 1, FifoLines)
               b == SubSeq(s, k, Len(s))
    <2>2. FifoLines \in Nat /\ Len(s) \in Nat /\ k \in Nat \ {0} /\ FifoLines + 1 <= Len(s)
      BY ModemAssumption
    <2>3. a \in Seq(FromModem) /\ None(a, kind)
      BY <2>2, OfPart
    <2>4. b \in Seq(FromModem) /\ None(b, kind)
      BY <2>2, OfPart
    <2>5. j \in Seq(FromModem) /\ None(j, kind)
      <3>1. FifoLines + 1 \in DOMAIN s
        BY <2>2
      <3>2. \/ j = << >> \/ j = <<Cut>>
            \/ j = <<[is |-> "+CMGR", from |-> Garbled]>> /\ s[FifoLines + 1].is = "+CMGR"
        BY <2>1 DEF Joined
      <3>3. \/ j = << >> \/ \E l \in FromModem : j = <<l>> /\ l.is # kind
        BY <3>1, <3>2, LineTypes DEF None, Cut
      <3>4. CASE j = << >>
        BY <3>4 DEF None
      <3>5. CASE \E l \in FromModem : j = <<l>> /\ l.is # kind
        BY <3>5, OneLine DEF None
      <3> QED  BY <3>3, <3>4, <3>5
    <2> HIDE DEF a, b
    <2>6. a \o j \in Seq(FromModem) /\ None(a \o j, kind)
      BY <2>3, <2>5, OfLines
    <2>7. q = (a \o j) \o b
      BY <2>1 DEF a, b
    <2> QED  BY <2>4, <2>6, <2>7, OfLines
  <1> QED
    BY <1>1, <1>2

LEMMA OneLeft ==
    ASSUME NEW S, NEW s \in Seq(S), s # << >>, Len(s) <= 1 PROVE Len(s) = 1 /\ Tail(s) = << >>
  <1>1. Len(s) \in Nat /\ Len(s) # 0
    OBVIOUS
  <1>2. Len(s) = 1
    BY <1>1
  <1>3. Tail(s) \in Seq(S) /\ Len(Tail(s)) = 0
    BY <1>2
  <1>4. \A q \in Seq(S) : Len(q) = 0 => q = << >>
    OBVIOUS
  <1> QED
    BY <1>2, <1>3, <1>4

LEMMA SendApart ==
    ASSUME TypeOK, ApartInv, apart',
           SendCommand \/ SendText \/ Result \/ NoPrompt \/ NoResult \/ DeleteSms
    PROVE  ApartInv'
  <1>0. /\ frames # << >> /\ apart /\ UNCHANGED <<body, delivered, waiting_for_cmgr_text>>
    BY DEF SendCommand, SendText, Result, NoPrompt, NoResult, DeleteSms, In, Apart, pico, modem, history
  <1>1. /\ RepliesReachTheirSender' /\ Len(frames) <= 1
        /\ Clear /\ Texts /\ Body /\ Asked /\ Prompted /\ Waited
    BY <1>0 DEF ApartInv, RepliesReachTheirSender, Incoming, Sending
  <1>2. ASSUME UNCHANGED <<toModem, toPico>>, SmsDone, ~In("prompt")
        PROVE  ApartInv'
    <2>1. frames' # << >> /\ Len(frames') <= 1 /\ ~In("prompt")'
      <3>1. Len(frames') = Len(frames) /\ frames' # << >> /\ top'.pc = "send"
        BY <1>0, <1>2, TopMoves
      <3> QED  BY <1>1, <3>1 DEF In
    <2>2. Clear' /\ Texts' /\ Body' /\ Asked' /\ Prompted' /\ Waited'
      BY <1>0, <1>1, <1>2, <2>1 DEF Clear, Texts, Body, Asked, Prompted, Waited
    <2> QED  BY <1>1, <2>1, <2>2 DEF ApartInv, Sending
  <1>3. CASE Result \/ NoResult
    BY <1>2, <1>3 DEF Result, NoResult, In
  <1>4. CASE NoPrompt
    <2>1. toModem = << >> /\ toPico = << >> /\ UNCHANGED <<toModem, toPico>> /\ ~modem_wait_flag
      BY <1>4, <1>0 DEF NoPrompt, Apart, Quiet
    <2>2. body = Closed
      BY <1>1, <2>1 DEF Body, None
    <2>3. frames' # << >> /\ Len(frames') <= 1 /\ ~In("prompt")'
      <3>1. Len(frames') = Len(frames) /\ frames' # << >> /\ top'.pc = "send"
        BY <1>0, <1>4, TopMoves DEF NoPrompt
      <3> QED  BY <1>1, <3>1 DEF In
    <2>4. Clear' /\ Texts' /\ Body' /\ Asked' /\ Prompted' /\ Waited'
      BY <1>0, <1>1, <2>1, <2>2, <2>3 DEF Clear, None, Texts, Body, Asked, Prompted, Waited
    <2> QED  BY <1>1, <2>3, <2>4 DEF ApartInv, Sending
  <1>5. CASE SendCommand
    <2> DEFINE n == Head(top.todo)
    <2>0. In("send") /\ ~In("prompt") /\ top.todo # << >>
      BY <1>5 DEF SendCommand, In
    <2>1. /\ toModem' = Append(toModem, CMGS(n)) /\ CMGS(n) \in ToModem /\ CMGS(n).is = "AT+CMGS"
          /\ CMGS(n).to = n
      BY <1>0, <1>5, <2>0, TopType, CommandTypes DEF SendCommand, CMGS
    <2>2. modem_wait_match' = TRUE /\ modem_wait_flag' = FALSE /\ toPico' = toPico
      BY <1>5 DEF SendCommand
    <2>3. In("prompt")' /\ Head(top.todo)' = n /\ Len(frames') <= 1
      BY <1>0, <1>1, <1>5, TopMoves DEF SendCommand, In
    <2> HIDE DEF n
    <2>4. None(toPico, ">")
      BY <1>1, <2>0 DEF Prompted, None
    <2>5. \A i \in DOMAIN toModem : toModem[i].is # "AT+CMGS"
      BY <1>1, <2>0 DEF Asked
    <2>6. /\ toModem' # << >> /\ Len(toModem') = Len(toModem) + 1 /\ toModem'[Len(toModem) + 1] = CMGS(n)
          /\ Len(toModem) \in Nat /\ DOMAIN toModem = 1 .. Len(toModem)
          /\ DOMAIN toModem' = 1 .. Len(toModem) + 1
          /\ \A i \in DOMAIN toModem : toModem'[i] = toModem[i]
          /\ toModem # << >> => toModem'[1] = toModem[1]
      BY <2>1, Appended
    <2>7. \A i \in DOMAIN toModem' : i \in DOMAIN toModem \/ i = Len(toModem')
      BY <2>6
    <2>8. Clear'
      BY <1>0, <1>1, <2>1, <2>2, <2>6, <2>7 DEF Clear, None
    <2>9. Texts'
      BY <1>0, <1>1, <2>1, <2>6, <2>7 DEF Texts
    <2>10. Body'
      BY <1>0, <1>1, <2>0, <2>6 DEF Body
    <2>11. Asked'
      BY <2>1, <2>2, <2>3, <2>4, <2>5, <2>6, <2>7 DEF Asked
    <2>12. Prompted' /\ Waited'
      BY <2>2, <2>4 DEF Prompted, Waited, None
    <2> QED  BY <1>1, <2>3, <2>8, <2>9, <2>10, <2>11, <2>12 DEF ApartInv, Sending
  <1>6. CASE SendText
    <2>0. In("prompt") /\ modem_wait_flag /\ toPico' = toPico
      BY <1>6 DEF SendText
    <2>1. toModem = << >> /\ body # Closed /\ body.to = Head(top.todo) /\ body.text = << >>
      BY <1>1, <2>0 DEF Waited, Body
    <2> DEFINE c == Text(Head(top.todo), top.sms)
    <2>2. c.is = "text" /\ c.to = Head(top.todo)
      BY DEF Text
    <2>3. toModem' = <<c>>
      BY <1>6, <2>1 DEF SendText
    <2>4. ~In("prompt")' /\ Len(frames') <= 1
      BY <1>0, <1>1, <1>6, TopMoves DEF SendText, In
    <2> HIDE DEF c
    <2>5. toModem' # << >> /\ DOMAIN toModem' = {1} /\ toModem'[1] = c
      BY <2>3
    <2>6. None(toPico, ">")
      BY <1>1, <2>0 DEF Prompted, None
    <2>7. Clear' /\ Texts' /\ Body' /\ Asked' /\ Prompted' /\ Waited'
      BY <1>0, <1>1, <2>0, <2>1, <2>2, <2>4, <2>5, <2>6
         DEF Clear, None, Texts, Body, Asked, Prompted, Waited
    <2> QED  BY <1>1, <2>4, <2>7 DEF ApartInv, Sending
  <1>7. CASE DeleteSms
    <2>0. ~In("prompt") /\ frames' = Tail(frames)
      BY <1>7 DEF DeleteSms, In
    <2>1. frames' = << >> /\ Len(frames') <= 1
      <3>1. frames \in Seq(Frame) /\ Len(frames) = 1
        <4>1. frames \in Seq(Frame)
          BY DEF TypeOK
        <4>2. frames # << >> /\ Len(frames) <= 1
          BY <1>0, <1>1
        <4> QED  BY <4>1, <4>2, OneLeft
      <3> QED  BY <2>0, <3>1, OneLeft
    <2>2. ~In("prompt")'
      BY <2>1 DEF In
    <2>3. None(toPico, ">") /\ None(toPico, "+CMTI") /\ None(toPico, "+CMGR")
      BY <1>1, <2>0 DEF Prompted, None, Clear
    <2>4. None(toPico', ">") /\ None(toPico', "+CMTI") /\ None(toPico', "+CMGR")
      <3>1. PICK q : (q = toPico \/ q \in Clipped(toPico)) /\ toPico' \in Overrun(q)
        BY <1>7 DEF DeleteSms
      <3>2. toPico \in Seq(FromModem)
        BY DEF TypeOK
      <3>3. q \in Seq(FromModem)
        BY <3>1, <3>2, ClippedThins DEF Thinned
      <3>4. \A k \in {">", "+CMTI", "+CMGR"} : None(q, k)
        BY <2>3, <3>1, <3>2, ClippedKeeps
      <3> QED  BY <3>1, <3>3, <3>4, OverrunKeeps
    <2>5. CMGD(top.index) \in ToModem /\ CMGD(top.index).is = "AT+CMGD"
      BY <1>0, TopType, CommandTypes DEF Frame, CMGD
    <2> DEFINE c == CMGD(top.index)
    <2>6. toModem' = Append(toModem, c)
      BY <1>7 DEF DeleteSms
    <2>7. c \in ToModem /\ c.is = "AT+CMGD"
      BY <2>5
    <2> HIDE DEF c
    <2>8. /\ toModem' # << >> /\ Len(toModem') = Len(toModem) + 1 /\ toModem'[Len(toModem) + 1] = c
          /\ Len(toModem) \in Nat /\ DOMAIN toModem = 1 .. Len(toModem)
          /\ DOMAIN toModem' = 1 .. Len(toModem) + 1
          /\ \A i \in DOMAIN toModem : toModem'[i] = toModem[i]
          /\ toModem # << >> => toModem'[1] = toModem[1]
      BY <2>6, <2>7, Appended
    <2>9. \A i \in DOMAIN toModem' : i \in DOMAIN toModem \/ toModem'[i] = c
      BY <2>8
    <2>10. \A i \in DOMAIN toModem' : toModem'[i].is # "AT+CMGS"
      BY <1>1, <2>0, <2>7, <2>8, <2>9 DEF Asked
    <2>11. Clear'
      BY <1>0, <1>1, <2>4, <2>7, <2>8, <2>9 DEF Clear, None
    <2>12. Texts'
      BY <1>0, <1>1, <2>7, <2>8, <2>9 DEF Texts
    <2>13. Body'
      BY <1>0, <1>1, <2>0, <2>8 DEF Body
    <2>14. Asked' /\ Prompted' /\ Waited'
      BY <2>2, <2>4, <2>10 DEF Asked, Prompted, Waited, None
    <2> QED  BY <1>1, <2>1, <2>11, <2>12, <2>13, <2>14 DEF ApartInv, Sending
  <1> QED
    BY <1>3, <1>4, <1>5, <1>6, <1>7

LEMMA OneNone ==
    ASSUME NEW kind, NEW l, l.is # kind, NEW q, q = <<l>>
    PROVE  None(q, kind)
  BY DEF None

(* One command of the firmware has been answered with lines that are neither *)
(* announcement, SMS nor prompt.                                            *)
LEMMA PlainAnswer ==
    ASSUME TypeOK, Clear, Texts, Body, Asked, Prompted, Waited, Handled,
           UNCHANGED <<frames, modem_wait_match, modem_wait_flag, waiting_for_cmgr_text>>,
           body' = Closed, body = Closed \/ command.is = "text",
           NEW q \in Seq(FromModem), toPico' = toPico \o q,
           None(q, ">"), None(q, "+CMTI"), None(q, "+CMGR")
    PROVE  Sending'
  <1>1. /\ command = toModem[1] /\ Len(toModem) \in Nat /\ 1 \in DOMAIN toModem
        /\ Len(toModem') = Len(toModem) - 1 /\ toModem # << >>
        /\ \A i \in DOMAIN toModem' : i \in Nat \ {0} /\ i + 1 \in DOMAIN toModem /\ toModem'[i] = toModem[i + 1]
    BY Consumed DEF Handled
  <1>2. (In("prompt")' <=> In("prompt")) /\ top' = top
    BY DEF In, top
  <1>3. toPico \in Seq(FromModem)
    BY DEF TypeOK
  <1>4. None(toPico, ">") /\ (In("prompt") => ~modem_wait_flag)
    BY <1>1 DEF Prompted, Waited, None
  <1>5. None(toPico', ">") /\ None(toPico', "+CMTI") /\ None(toPico', "+CMGR")
    BY <1>3, <1>4, OfLines DEF Clear
  <1>6. None(toModem', "AT+CMGR") /\ None(toModem', "text")
    <2>1. ASSUME NEW i \in DOMAIN toModem' PROVE toModem'[i].is # "AT+CMGR" /\ toModem'[i].is # "text"
      <3>1. i \in Nat \ {0} /\ i + 1 \in DOMAIN toModem /\ toModem'[i] = toModem[i + 1]
        BY <1>1
      <3>2. toModem[i + 1].is # "AT+CMGR"
        BY <3>1 DEF Clear, None
      <3>3. toModem[i + 1].is # "text"
        <4>1. i + 1 # 1
          BY <3>1
        <4> QED  BY <3>1, <4>1 DEF Texts
      <3> QED  BY <3>1, <3>2, <3>3
    <2> QED  BY <2>1 DEF None
  <1>7. Asked'
    <2>1. ASSUME NEW i \in DOMAIN toModem', toModem'[i].is = "AT+CMGS"
          PROVE  /\ i = Len(toModem') /\ In("prompt") /\ toModem'[i].to = Head(top.todo)
                 /\ ~modem_wait_flag
      <3>1. i \in Nat \ {0} /\ i + 1 \in DOMAIN toModem /\ toModem'[i] = toModem[i + 1]
        BY <1>1
      <3>2. /\ i + 1 = Len(toModem) /\ In("prompt") /\ toModem[i + 1].to = Head(top.todo)
            /\ ~modem_wait_flag
        BY <2>1, <3>1 DEF Asked
      <3>3. i = Len(toModem')
        BY <1>1, <3>1, <3>2
      <3> QED  BY <3>1, <3>2, <3>3
    <2> QED  BY <1>2, <1>5, <2>1 DEF Asked
  <1>8. Clear' /\ Texts' /\ Body'
    BY <1>5, <1>6 DEF Clear, None, Texts, Body
  <1>9. Prompted' /\ Waited'
    BY <1>2, <1>4, <1>5 DEF Prompted, Waited, None
  <1> QED
    BY <1>7, <1>8, <1>9 DEF Sending

LEMMA ModemApart ==
    ASSUME TypeOK, ApartInv, ModemNext, apart' PROVE ApartInv'
  <1>0. /\ Handled /\ apart
        /\ UNCHANGED <<frames, modem_wait_match, modem_wait_flag, waiting_for_cmgr_text>>
    BY DEF ModemNext, ReadSms, RemoveSms, BeginSms, RefuseText, TakeText, EndSms, ModemOnly, pico, history
  <1>1. /\ command = toModem[1] /\ command \in ToModem /\ 1 \in DOMAIN toModem /\ toModem # << >>
        /\ toModem' = Tail(toModem) /\ (toModem' = << >> <=> Len(toModem) = 1)
    BY <1>0, Consumed DEF Handled
  <1>2. Len(frames') <= 1 /\ RepliesReachTheirSender
    BY <1>0 DEF ApartInv
  <1>3. delivered' = delivered => RepliesReachTheirSender'
    BY <1>2, <1>0 DEF RepliesReachTheirSender
  <1>4. (In("prompt")' <=> In("prompt")) /\ top' = top
    BY <1>0 DEF In, top
  <1>5. CASE Incoming
    <2>1. PICK i \in Indexes : toModem = <<CMGR(i)>>
      BY <1>1, <1>5 DEF Incoming
    <2>2. /\ frames = << >> /\ body = Closed /\ toPico = << >> /\ ~waiting_for_cmgr_text
      BY <1>1, <1>5 DEF Incoming
    <2>3. command = CMGR(i) /\ command.is = "AT+CMGR" /\ command.index = i /\ toModem' = << >>
      BY <1>1, <2>1 DEF CMGR
    <2>4. ReadSms
      BY <2>2, <2>3 DEF ModemNext, RemoveSms, BeginSms, RefuseText, TakeText, EndSms
    <2>5. body' = Closed /\ delivered' = delivered
      BY <2>2, <2>4 DEF ReadSms, modem
    <2> DEFINE m == storage[i]
    <2>6. m \in Messages \cup {Empty}
      BY DEF TypeOK
    <2>7. toPico' = toPico \o (IF m = Empty THEN <<OK>> ELSE <<Header(m), Line(m), OK>>)
      BY <2>3, <2>4 DEF ReadSms, Answer
    <2> HIDE DEF m
    <2>8. CASE m = Empty
      <3>1. toPico' = <<OK>>
        BY <2>2, <2>7, <2>8
      <3>2. None(toPico', ">") /\ None(toPico', "+CMTI") /\ None(toPico', "+CMGR")
        BY <3>1, OneNone DEF OK
      <3>3. DOMAIN toModem' = {} /\ ~In("prompt")
        BY <2>2, <2>3 DEF In
      <3>4. Clear' /\ Texts' /\ Body' /\ Asked' /\ Prompted' /\ Waited'
        BY <1>0, <1>4, <2>2, <2>5, <3>2, <3>3 DEF Clear, None, Texts, Body, Asked, Prompted, Waited
      <3> QED  BY <1>2, <1>3, <2>5, <3>4 DEF ApartInv, Sending
    <2>9. CASE m \in Messages
      <3>1. toPico' = <<Header(m), Line(m), OK>>
        BY <2>2, <2>7, <2>9, ModemAssumption
      <3>2. Incoming'
        BY <1>0, <2>2, <2>3, <2>5, <2>9, <3>1 DEF Incoming
      <3> QED  BY <1>2, <1>3, <2>5, <3>2 DEF ApartInv
    <2> QED  BY <2>6, <2>8, <2>9
  <1>6. CASE Sending
    <2>0. Clear /\ Texts /\ Body /\ Asked /\ Prompted /\ Waited
      BY <1>6 DEF Sending
    <2>1. command.is # "AT+CMGR"
      BY <1>1, <2>0 DEF Clear, None
    <2>2. command.is = "text" => body # Closed /\ command.to = body.to
      BY <1>1, <2>0 DEF Texts
    <2>3. body # Closed => command.is = "text" /\ body.text = << >>
      BY <1>1, <2>0 DEF Body
    <2>4. RemoveSms \/ BeginSms \/ EndSms
      BY <2>1, <2>2, <2>3 DEF ModemNext, ReadSms, RefuseText, TakeText
    <2>5. ASSUME NEW l \in FromModem, l.is \notin {">", "+CMTI", "+CMGR"}, NEW q, q = <<l>>
          PROVE  q \in Seq(FromModem) /\ None(q, ">") /\ None(q, "+CMTI") /\ None(q, "+CMGR")
      BY <2>5, OneNone, OneLine
    <2>6. ASSUME NEW l \in FromModem, l.is \notin {">", "+CMTI", "+CMGR"}, Answer(<<l>>), body' = Closed,
                 body = Closed \/ command.is = "text"
          PROVE  Sending'
      <3> DEFINE q == <<l>>
      <3>1. q \in Seq(FromModem) /\ None(q, ">") /\ None(q, "+CMTI") /\ None(q, "+CMGR")
        BY <2>5, <2>6
      <3>2. toPico' = toPico \o q
        BY <2>6 DEF Answer
      <3> HIDE DEF q
      <3> QED  BY <1>0, <2>0, <2>6, <3>1, <3>2, PlainAnswer
    <2>7. CASE RemoveSms
      <3>1. body = Closed /\ body' = Closed /\ Answer(<<OK>>) /\ delivered' = delivered
        BY <2>7 DEF RemoveSms
      <3>2. Sending'
        BY <2>6, <3>1, LineTypes DEF OK
      <3> QED  BY <1>2, <1>3, <3>1, <3>2 DEF ApartInv
    <2>8. CASE BeginSms
      <3>0. body = Closed /\ command.is = "AT+CMGS" /\ delivered' = delivered
        BY <2>8 DEF BeginSms
      <3>1. CASE body' = body /\ Answer(<<ERROR>>)
        <4>1. Sending'
          BY <2>6, <3>0, <3>1, LineTypes DEF ERROR
        <4> QED  BY <1>2, <1>3, <3>0, <4>1 DEF ApartInv
      <3>2. CASE body' = [to |-> command.to, text |-> << >>] /\ Answer(<<Prompt>>)
        <4>1. /\ 1 = Len(toModem) /\ In("prompt") /\ command.to = Head(top.todo)
              /\ ~modem_wait_flag /\ None(toPico, ">")
          BY <1>1, <2>0, <3>0 DEF Asked
        <4>2. toModem' = << >> /\ DOMAIN toModem' = {}
          BY <1>1, <4>1
        <4>3. body'.text = << >> /\ body'.to = Head(top.todo) /\ body' # Closed
          <5>1. command.to \in Recipients
            BY <1>1, <3>0, LineKinds
          <5>2. body'.text = << >> /\ body'.to = command.to
            BY <3>2
          <5>3. Closed.to = Empty
            BY DEF Closed
          <5> QED  BY <4>1, <5>1, <5>2, <5>3, ModemAssumption
        <4>4. toPico \in Seq(FromModem) /\ toPico' = toPico \o <<Prompt>>
          BY <3>2 DEF TypeOK, Answer
        <4>5. /\ Len(toPico') = Len(toPico) + 1 /\ Len(toPico) \in Nat
              /\ DOMAIN toPico' = 1 .. Len(toPico) + 1 /\ DOMAIN toPico = 1 .. Len(toPico)
              /\ \A i \in 1 .. Len(toPico) : toPico'[i] = toPico[i]
              /\ toPico'[Len(toPico) + 1] = Prompt
          BY <4>4
        <4>6. \A i \in DOMAIN toPico' : i \in DOMAIN toPico \/ i = Len(toPico')
          BY <4>5
        <4>7. Clear'
          BY <1>0, <2>0, <4>2, <4>5, <4>6 DEF Clear, None, Prompt
        <4>8. ~None(toPico', ">")
          <5>1. Len(toPico) + 1 \in DOMAIN toPico' /\ Prompt.is = ">"
            BY <4>5 DEF Prompt
          <5> QED  BY <4>5, <5>1 DEF None
        <4>9. Prompted'
          BY <1>0, <1>4, <4>1, <4>2, <4>3, <4>5, <4>6 DEF Prompted, None
        <4>10. Texts' /\ Body' /\ Asked' /\ Waited'
          BY <1>0, <1>4, <2>0, <4>1, <4>2, <4>3, <4>8 DEF Texts, Body, Asked, Waited
        <4> QED  BY <1>2, <1>3, <3>0, <4>7, <4>9, <4>10 DEF ApartInv, Sending
      <3> QED  BY <2>8, <3>1, <3>2 DEF BeginSms
    <2>9. CASE EndSms
      <3>0. command.is = "text" /\ body' = Closed /\ body.text = << >> /\ command.to = body.to
        BY <2>2, <2>3, <2>9 DEF EndSms
      <3>1. CASE delivered' = delivered /\ Answer(<<ERROR>>)
        <4>1. Sending'
          BY <2>6, <3>0, <3>1, LineTypes DEF ERROR
        <4> QED  BY <1>2, <1>3, <3>1, <4>1 DEF ApartInv
      <3>2. CASE /\ delivered' = delivered \cup {[to |-> body.to, text |-> Append(body.text, command)]}
                 /\ Answer(<<Sent, OK>>)
        <4> DEFINE q == <<Sent, OK>>
        <4>1. q \in Seq(FromModem) /\ None(q, ">") /\ None(q, "+CMTI") /\ None(q, "+CMGR")
          BY LineTypes DEF None, Sent, OK
        <4>2. toPico' = toPico \o q
          BY <3>2 DEF Answer
        <4> HIDE DEF q
        <4>3. Sending'
          BY <1>0, <2>0, <3>0, <4>1, <4>2, PlainAnswer
        <4>4. RepliesReachTheirSender'
          <5>1. PICK m \in Messages \cup {Unknown} : command = Text(body.to, m)
            BY <1>1, <3>0, MoreKinds
          <5>2. Append(body.text, command) = <<Text(body.to, m)>>
            BY <3>0, <5>1
          <5> QED  BY <1>0, <1>2, <3>2, <5>2 DEF RepliesReachTheirSender
        <4> QED  BY <1>2, <4>3, <4>4 DEF ApartInv
      <3> QED  BY <2>9, <3>1, <3>2 DEF EndSms
    <2> QED  BY <2>4, <2>7, <2>8, <2>9
  <1> QED
    BY <1>0, <1>5, <1>6 DEF ApartInv

(* Any number of SMS's and replies, any refusals of the modem, any FIFO: as  *)
(* long as the SMS's come apart, what a number gets is a reply meant for it, *)
(* whole and alone.                                                         *)
THEOREM RepliesArrive == Spec => []RepliesReachTheirSender
  <1>1. Init => ApartInv
    <2> SUFFICES ASSUME Init PROVE ApartInv
      OBVIOUS
    <2>1. /\ toModem = << >> /\ toPico = << >> /\ frames = << >> /\ body = Closed
          /\ ~waiting_for_cmgr_text /\ delivered = {}
      BY DEF Init
    <2>2. Len(frames) <= 1 /\ ~In("prompt")
      BY <2>1 DEF In
    <2> QED
      BY <2>1, <2>2 DEF ApartInv, Sending, Clear, None, Texts, Body, Asked, Prompted, Waited,
                        RepliesReachTheirSender
  <1>2. TypeOK /\ ApartInv /\ [Next]_vars => ApartInv'
    <2> SUFFICES ASSUME TypeOK, ApartInv, [Next]_vars PROVE ApartInv'
      OBVIOUS
    <2>1. CASE ~apart'
      BY <2>1 DEF ApartInv
    <2>2. CASE UNCHANGED vars
      BY <2>2 DEF vars, pico, modem, history, ApartInv, Incoming, Sending, Clear, None, Texts, Body,
                  Asked, Prompted, Waited, RepliesReachTheirSender, In, top
    <2>3. CASE apart' /\ Next
      BY <2>3, FeedApart, SendApart, ModemApart, ArriveApart DEF Next, Send
    <2> QED
      BY <2>1, <2>2, <2>3
  <1>3. ApartInv => RepliesReachTheirSender
    BY DEF ApartInv, RepliesReachTheirSender
  <1> QED
    BY <1>1, <1>2, <1>3, TypeCorrect, PTL DEF Spec
=============================================================================
