--------------------------- MODULE EventLogProofs ---------------------------
(***************************************************************************)
(* Proofs about EventLog, for a ring of any size and any number of events:   *)
(* its types, and LogShowsRecent.                                           *)
(***************************************************************************)
EXTENDS EventLog, TLAPS

(* Where the next event goes, or the one being added will be.                *)
Base == IF adding \in {"wrap", "items"} THEN slot ELSE log_index

(* The place of the k-th of n events that end before b, around the ring, and *)
(* that of the k-th event of `recent'.                                       *)
RingPlace(b, n, k) ==
    LET i == b - n + (k - 1)
    IN  IF i < 0 THEN i + LOG_ENTRIES ELSE i
Place(b, k) == RingPlace(b, Len(recent), k)

(* Types, and what the steps of log_add and LOG may rely on: the index is    *)
(* out of range only before it is wrapped, and LOG never runs inside log_add. *)
Shape ==
    /\ LogTypeOK
    /\ log_index = LOG_ENTRIES => adding = "wrap"
    /\ adding # "no" => slot \in Slots /\ event \in Events
    /\ reading # NoRead => adding = "no" /\ reading.count <= log_items
    /\ Len(recent) = log_items

(* What is left of the ring when nobody came inside log_add: every event of   *)
(* `recent' is in its place, but for the one whose place is being filled.    *)
Kept ==
    \A k \in 1 .. Len(recent) :
        adding = "no" \/ Place(Base, k) # Base => log_buffer[Place(Base, k)] = Whole(recent[k])

Filled ==
    /\ adding \in {"date", "text", "index"} => slot = log_index
    /\ adding = "text" => log_buffer[slot].date = event
    /\ adding \in {"index", "wrap", "items"} => log_buffer[slot] = Whole(event)
    /\ adding = "wrap" => log_index = slot + 1
    /\ adding = "items" => log_index = Wrapped(slot + 1)

IInv == Shape /\ (~mixed => Kept /\ Filled)

-----------------------------------------------------------------------------
(* A shorter sequence keeps all its elements and the new one, a full one     *)
(* loses its oldest.                                                        *)
LEMMA LastNFacts ==
    ASSUME NEW s \in Seq(Events), NEW e \in Events, Len(s) <= LOG_ENTRIES
    PROVE  LET t == LastN(Append(s, e), LOG_ENTRIES)
           IN  /\ t \in Seq(Events)
               /\ Len(t) = IF Len(s) < LOG_ENTRIES THEN Len(s) + 1 ELSE LOG_ENTRIES
               /\ t[Len(t)] = e
               /\ \A k \in 1 .. Len(t) - 1 : t[k] = IF Len(s) < LOG_ENTRIES THEN s[k] ELSE s[k + 1]
  <1> USE EventLogAssumption
  <1> DEFINE u == Append(s, e)
  <1>1. u \in Seq(Events) /\ Len(u) = Len(s) + 1 /\ u[Len(s) + 1] = e
        /\ \A k \in 1 .. Len(s) : u[k] = s[k]
    OBVIOUS
  <1> DEFINE t == LastN(u, LOG_ENTRIES)
             Facts ==
               /\ t \in Seq(Events)
               /\ Len(t) = IF Len(s) < LOG_ENTRIES THEN Len(s) + 1 ELSE LOG_ENTRIES
               /\ t[Len(t)] = e
               /\ \A k \in 1 .. Len(t) - 1 :
                     t[k] = IF Len(s) < LOG_ENTRIES THEN s[k] ELSE s[k + 1]
  <1>2. ASSUME Len(s) < LOG_ENTRIES PROVE Facts
    <2>1. t = u
      BY <1>1, <1>2 DEF LastN
    <2> HIDE DEF t, u
    <2> QED
      BY <1>1, <1>2, <2>1
  <1>3. ASSUME ~(Len(s) < LOG_ENTRIES) PROVE Facts
    <2>0. /\ Len(s) = LOG_ENTRIES /\ Len(u) = LOG_ENTRIES + 1
          /\ Len(u) - LOG_ENTRIES + 1 = 2 /\ ~(Len(u) <= LOG_ENTRIES)
      <3> HIDE DEF u
      <3> QED
        BY <1>1, <1>3
    <2>1. t = SubSeq(u, 2, LOG_ENTRIES + 1)
      <3> HIDE DEF u
      <3> QED
        BY <2>0 DEF LastN
    <2> HIDE DEF t, u
    <2>2. /\ t \in Seq(Events) /\ Len(t) = LOG_ENTRIES
          /\ \A k \in 1 .. LOG_ENTRIES : t[k] = u[k + 1]
      BY <1>1, <2>0, <2>1
    <2>3. t[LOG_ENTRIES] = e
      BY <1>1, <2>0, <2>2
    <2>4. \A k \in 1 .. LOG_ENTRIES - 1 : t[k] = s[k + 1]
      BY <1>1, <2>0, <2>2
    <2>5. Len(t) = IF Len(s) < LOG_ENTRIES THEN Len(s) + 1 ELSE LOG_ENTRIES
      BY <1>3, <2>2
    <2>6. \A k \in 1 .. Len(t) - 1 :
             t[k] = IF Len(s) < LOG_ENTRIES THEN s[k] ELSE s[k + 1]
      BY <1>3, <2>2, <2>4
    <2>7. t[Len(t)] = e
      BY <2>2, <2>3
    <2> QED
      BY <2>2, <2>5, <2>6, <2>7
  <1> QED
    BY <1>2, <1>3

(* Remember keeps the length of `recent' in step with log_items.             *)
LEMMA RememberFacts ==
    ASSUME Shape, NEW e \in Events, Remember(e)
    PROVE  /\ recent' \in Seq(Events)
           /\ Len(recent') = Counted(log_items)
           /\ recent'[Len(recent')] = e
           /\ \A k \in 1 .. Len(recent') - 1 :
                 recent'[k] = IF Len(recent) < LOG_ENTRIES THEN recent[k] ELSE recent[k + 1]
  <1>1. LOG_ENTRIES \in Nat \ {0} /\ recent \in Seq(Events) /\ Len(recent) <= LOG_ENTRIES
        /\ Len(recent) = log_items /\ log_items \in Nat
    BY EventLogAssumption DEF Shape, LogTypeOK
  <1>2. recent' = LastN(Append(recent, e), LOG_ENTRIES)
    BY DEF Remember
  <1>3. /\ recent' \in Seq(Events)
        /\ Len(recent') = IF Len(recent) < LOG_ENTRIES THEN Len(recent) + 1 ELSE LOG_ENTRIES
        /\ recent'[Len(recent')] = e
        /\ \A k \in 1 .. Len(recent') - 1 :
              recent'[k] = IF Len(recent) < LOG_ENTRIES THEN recent[k] ELSE recent[k + 1]
    <2> DEFINE r == LastN(Append(recent, e), LOG_ENTRIES)
    <2>1. /\ r \in Seq(Events)
          /\ Len(r) = IF Len(recent) < LOG_ENTRIES THEN Len(recent) + 1 ELSE LOG_ENTRIES
          /\ r[Len(r)] = e
          /\ \A k \in 1 .. Len(r) - 1 :
                r[k] = IF Len(recent) < LOG_ENTRIES THEN recent[k] ELSE recent[k + 1]
      BY <1>1, LastNFacts
    <2> QED
      BY <1>2, <2>1
  <1> QED
    BY <1>1, <1>3 DEF Counted

(* log_get stays inside the ring for every entry there is.                   *)
LEMMA GetInRing ==
    ASSUME Shape, log_index < LOG_ENTRIES, NEW i \in Int, 0 <= i, i < log_items
    PROVE  log_get(i) \in Slots
  BY EventLogAssumption DEF Shape, LogTypeOK, Slots, log_get

(* An event is in another place than the one to be filled, unless the ring is *)
(* full and it is the oldest.                                                *)
LEMMA PlaceFacts ==
    ASSUME Shape, NEW b \in Slots, NEW k \in 1 .. Len(recent)
    PROVE  /\ Place(b, k) \in Slots
           /\ Place(b, k) = b <=> Len(recent) = LOG_ENTRIES /\ k = 1
  BY EventLogAssumption DEF Shape, LogTypeOK, Slots, Place, RingPlace

(* When the place to be filled moves on by one, and the number of events grows *)
(* until the ring is full, the events stay in their places.                  *)
LEMMA PlacesStay ==
    ASSUME NEW b \in Slots, NEW n \in 0 .. LOG_ENTRIES,
           NEW m \in 1 .. LOG_ENTRIES, m = IF n < LOG_ENTRIES THEN n + 1 ELSE LOG_ENTRIES,
           NEW k \in 1 .. m
    PROVE  RingPlace(Wrapped(b + 1), m, k) =
             IF k = m THEN b ELSE RingPlace(b, n, IF n < LOG_ENTRIES THEN k ELSE k + 1)
  <1> USE EventLogAssumption
  <1>1. CASE b + 1 < LOG_ENTRIES
    <2>1. Wrapped(b + 1) = b + 1
      BY <1>1 DEF Wrapped, Slots
    <2> QED
      BY <1>1, <2>1 DEF RingPlace, Slots
  <1>2. CASE b + 1 = LOG_ENTRIES
    <2>1. Wrapped(b + 1) = 0
      BY <1>2 DEF Wrapped, Slots
    <2> QED
      BY <1>2, <2>1 DEF RingPlace, Slots
  <1> QED
    BY <1>1, <1>2 DEF Slots

(* An event that is written to the place to be filled, and remembered, leaves *)
(* every event of `recent' in its place.                                     *)
LEMMA AddedKept ==
    ASSUME Shape, Kept, NEW e \in Events, Remember(e), NEW b \in Slots, b = Base,
           Base' = Wrapped(b + 1), log_buffer'[b] = Whole(e),
           \A s \in Slots \ {b} : log_buffer'[s] = log_buffer[s]
    PROVE  Kept'
  <1> USE EventLogAssumption
  <1> DEFINE n == Len(recent)
             m == Len(recent')
             old(k) == IF n < LOG_ENTRIES THEN k ELSE k + 1
  <1>1. /\ n \in 0 .. LOG_ENTRIES /\ n = log_items
        /\ m = IF n < LOG_ENTRIES THEN n + 1 ELSE LOG_ENTRIES
        /\ m \in 1 .. LOG_ENTRIES
    BY RememberFacts DEF Shape, LogTypeOK, Counted
  <1>2. /\ recent'[m] = e
        /\ \A k \in 1 .. m - 1 : recent'[k] = recent[old(k)]
    <2>1. \A k \in 1 .. m - 1 :
             recent'[k] = IF n < LOG_ENTRIES THEN recent[k] ELSE recent[k + 1]
      BY RememberFacts
    <2> QED
      BY <2>1, RememberFacts
  <1>3. SUFFICES ASSUME NEW k \in 1 .. m
                 PROVE  log_buffer'[RingPlace(Base', m, k)] = Whole(recent'[k])
    BY DEF Kept, Place, Whole
  <1>4. RingPlace(Base', m, k) = IF k = m THEN b ELSE RingPlace(b, n, old(k))
    <2> HIDE DEF n, m
    <2> QED
      BY <1>1, PlacesStay
  <1>5. CASE k = m
    BY <1>2, <1>4, <1>5
  <1>6. CASE k # m
    <2>1. k \in 1 .. m - 1 /\ old(k) \in 1 .. n /\ (n = LOG_ENTRIES => old(k) # 1)
      <3> HIDE DEF n, m
      <3> QED
        BY <1>1, <1>6
    <2> HIDE DEF old
    <2>2. Place(b, old(k)) \in Slots /\ Place(b, old(k)) # b
      BY <2>1, PlaceFacts
    <2>3. log_buffer[Place(b, old(k))] = Whole(recent[old(k)])
      BY <2>1, <2>2 DEF Kept
    <2>4. RingPlace(Base', m, k) = Place(b, old(k))
      BY <1>4, <1>6 DEF Place
    <2>5. recent'[k] = recent[old(k)]
      BY <1>2, <2>1
    <2> QED
      BY <2>2, <2>3, <2>4, <2>5
  <1> QED
    BY <1>5, <1>6

(* A step that leaves `recent' and the place to be filled alone, and writes   *)
(* nowhere else, keeps the events.                                           *)
LEMMA SameKept ==
    ASSUME Shape, Kept, UNCHANGED recent, Base \in Slots, Base' = Base,
           adding' = "no" => adding = "no",
           \A s \in Slots : log_buffer'[s] = log_buffer[s] \/ (s = Base /\ adding' # "no")
    PROVE  Kept'
  <1>1. SUFFICES ASSUME NEW k \in 1 .. Len(recent),
                        adding' = "no" \/ Place(Base, k) # Base
                 PROVE  log_buffer'[Place(Base, k)] = Whole(recent[k])
    BY DEF Kept, Place, Whole
  <1>2. Place(Base, k) \in Slots
    BY PlaceFacts
  <1>3. log_buffer[Place(Base, k)] = Whole(recent[k])
    BY <1>1 DEF Kept
  <1> QED
    BY <1>1, <1>2, <1>3

LEMMA InitInv == LogInit => IInv
  <1> SUFFICES ASSUME LogInit PROVE IInv
    OBVIOUS
  <1>1. <<>> \in Seq(Events) /\ Len(<<>>) = 0
    OBVIOUS
  <1>2. NoEntry \in Entry
    BY DEF NoEntry, Entry
  <1>3. log_buffer \in [Slots -> Entry]
    BY <1>2 DEF LogInit
  <1>4. LogTypeOK
    <2>1. mixed \in BOOLEAN /\ (reading = NoRead \/ reading \in Reading)
      BY DEF LogInit
    <2> QED
      BY <1>1, <1>3, <2>1, EventLogAssumption DEF LogInit, LogTypeOK
  <1>5. Shape
    BY <1>1, <1>4, EventLogAssumption DEF LogInit, Shape
  <1>6. Kept /\ Filled
    BY <1>1 DEF LogInit, Kept, Filled
  <1> QED
    BY <1>5, <1>6 DEF IInv

(* Every step keeps the types.                                               *)
LEMMA StepShape == Shape /\ [LogNext]_logVars => Shape'
  <1> SUFFICES ASSUME Shape, [LogNext]_logVars PROVE Shape'
    OBVIOUS
  <1> USE EventLogAssumption
  <1>0. NoRead \notin Reading
    BY DEF NoRead, Reading
  <1>w. ASSUME NEW s \in 0 .. LOG_ENTRIES, NEW f \in Entry, Write(s, f)
        PROVE  log_buffer' \in [Slots -> Entry]
    BY <1>w DEF Write, Shape, LogTypeOK
  <1>1. CASE StartAdd
    BY <1>1 DEF StartAdd, Shape, LogTypeOK, Events, Slots
  <1>2. CASE AddDate
    <2>1. [log_buffer[slot] EXCEPT !.date = event] \in Entry
      BY <1>2 DEF AddDate, Shape, LogTypeOK, Entry, Slots
    <2>2. log_buffer' \in [Slots -> Entry]
      BY <1>2, <2>1, <1>w DEF AddDate, Shape, LogTypeOK
    <2> QED
      BY <1>2, <2>2 DEF AddDate, Shape, LogTypeOK
  <1>3. CASE AddText
    <2>1. [log_buffer[slot] EXCEPT !.text = event] \in Entry
      BY <1>3 DEF AddText, Shape, LogTypeOK, Entry, Slots
    <2>2. log_buffer' \in [Slots -> Entry]
      BY <1>3, <2>1, <1>w DEF AddText, Shape, LogTypeOK
    <2> QED
      BY <1>3, <2>2 DEF AddText, Shape, LogTypeOK
  <1>4. CASE AddIndex
    BY <1>4 DEF AddIndex, Shape, LogTypeOK
  <1>5. CASE AddWrap
    BY <1>5 DEF AddWrap, Wrapped, Shape, LogTypeOK
  <1>6. CASE AddItems
    <2>1. event \in Events /\ Remember(event)
      BY <1>6 DEF AddItems, Shape
    <2>2. recent' \in Seq(Events) /\ Len(recent') = log_items'
      BY <1>6, <2>1, RememberFacts DEF AddItems
    <2>3. log_items' \in 0 .. LOG_ENTRIES /\ log_items' >= log_items
      BY <1>6 DEF AddItems, Counted, Shape, LogTypeOK
    <2> QED
      BY <1>6, <2>2, <2>3 DEF AddItems, Shape, LogTypeOK
  <1>7. CASE WebAdd
    <2>1. events + 1 \in Events
      BY <1>7 DEF WebAdd, Shape, LogTypeOK, Events
    <2>2. recent' \in Seq(Events) /\ Len(recent') = log_items'
      BY <1>7, <2>1, RememberFacts DEF WebAdd
    <2>3. log_items' \in 0 .. LOG_ENTRIES /\ log_items' >= log_items
      BY <1>7 DEF WebAdd, Counted, Shape, LogTypeOK
    <2>4. Whole(events + 1) \in Entry
      BY <2>1 DEF Whole, Entry
    <2>5. log_buffer' \in [Slots -> Entry]
      BY <1>7, <2>4, <1>w DEF WebAdd, Shape, LogTypeOK
    <2>6. log_index' \in 0 .. LOG_ENTRIES - 1
      BY <1>7 DEF WebAdd, Wrapped, Shape, LogTypeOK
    <2>7. mixed' \in BOOLEAN
      BY <1>7 DEF WebAdd, Shape, LogTypeOK
    <2>8. LogTypeOK'
      BY <1>7, <2>1, <2>2, <2>3, <2>5, <2>6, <2>7 DEF WebAdd, Shape, LogTypeOK
    <2>9. log_index' # LOG_ENTRIES /\ Len(recent') = log_items'
      BY <2>2, <2>6
    <2>10. reading' # NoRead => adding' = "no" /\ reading'.count <= log_items'
      <3>1. CASE reading = NoRead
        BY <1>7, <3>1 DEF WebAdd
      <3>2. CASE reading # NoRead
        <4>1. reading.count \in Int /\ reading.count <= log_items /\ log_items \in Int
          BY <3>2 DEF Shape, LogTypeOK, Reading
        <4> QED
          BY <1>7, <3>2, <4>1, <2>3 DEF WebAdd, Shape
      <3> QED
        BY <3>1, <3>2
    <2>11. adding' # "no" => slot' \in Slots /\ event' \in Events
      BY <1>7 DEF WebAdd, Shape, Slots, Events
    <2> QED
      BY <2>8, <2>9, <2>10, <2>11 DEF Shape
  <1>8. ASSUME NEW source \in {"sms", "console"}, StartLog(source)
        PROVE  Shape'
    <2>1. log_items \in 1 .. LOG_ENTRIES /\ recent \in Seq(Events)
      BY <1>8 DEF StartLog, Shape, LogTypeOK
    <2>2. reading' \in Reading /\ reading'.count = log_items
      BY <1>8, <2>1 DEF StartLog, Reading
    <2> QED
      BY <1>8, <2>2 DEF StartLog, Shape, LogTypeOK
  <1>9. CASE GetEntry
    <2>1. reading \in Reading /\ adding = "no" /\ reading.count <= log_items
      BY <1>9 DEF GetEntry, Shape, LogTypeOK
    <2>2. reading.index \in Int /\ 0 <= reading.index /\ reading.index < log_items
      BY <1>9, <2>1 DEF GetEntry, InRange, Shape, LogTypeOK, Reading
    <2>3. log_index < LOG_ENTRIES
      BY <2>1 DEF Shape, LogTypeOK
    <2>4. log_get(reading.index) \in Slots
      BY <2>2, <2>3, GetInRing
    <2>5. reading' \in Reading /\ reading'.count = reading.count
      BY <1>9, <2>1, <2>4 DEF GetEntry, Reading
    <2> QED
      BY <1>9, <2>1, <2>5 DEF GetEntry, Shape, LogTypeOK
  <1>10. CASE FormatEntry
    <2>1. reading \in Reading /\ adding = "no" /\ reading.count <= log_items
      BY <1>10 DEF FormatEntry, Shape, LogTypeOK
    <2>2. log_buffer[reading.entry] \in Entry
      BY <1>10 DEF FormatEntry, Shape, LogTypeOK
    <2>3. Append(reading.rows, log_buffer[reading.entry]) \in Seq(Entry)
      BY <2>1, <2>2 DEF Reading
    <2>4. reading' \in Reading /\ reading'.count = reading.count
      <3> DEFINE fits == reading.source = "console" \/ Len(reading.rows) < SmsRows
                 r == IF fits THEN Append(reading.rows, log_buffer[reading.entry])
                              ELSE reading.rows
                 i == IF ~fits THEN -1
                      ELSE IF reading.source = "sms" THEN reading.index - 1
                                                     ELSE reading.index + 1
      <3>1. reading' = [reading EXCEPT !.rows = r, !.index = i, !.entry = -1]
        BY <1>10 DEF FormatEntry
      <3>2. r \in Seq(Entry)
        BY <2>1, <2>3 DEF Reading
      <3>3. i \in Int
        BY <2>1 DEF Reading
      <3> HIDE DEF r, i
      <3> QED
        BY <2>1, <3>1, <3>2, <3>3 DEF Reading
    <2> QED
      BY <1>10, <2>1, <2>4 DEF FormatEntry, Shape, LogTypeOK
  <1>11. CASE EndLog
    BY <1>11 DEF EndLog, Shape, LogTypeOK
  <1>12. CASE UNCHANGED logVars
    BY <1>12 DEF logVars, Shape, LogTypeOK
  <1> QED
    BY <1>1, <1>2, <1>3, <1>4, <1>5, <1>6, <1>7, <1>8, <1>9, <1>10, <1>11, <1>12
       DEF LogNext, LogLoopNext

(* While nobody comes inside log_add, a step keeps the events in their places *)
(* and the entry that is being filled.                                       *)
LEMMA StepKept ==
    ASSUME Shape, Kept, Filled, [LogNext]_logVars, ~mixed'
    PROVE  Kept' /\ Filled'
  <1> USE EventLogAssumption
  <1>0. /\ log_buffer \in [Slots -> Entry] /\ log_index \in 0 .. LOG_ENTRIES
        /\ adding # "wrap" => log_index \in Slots
        /\ adding # "no" => slot \in Slots /\ event \in Events
        /\ Base \in Slots
    <2>1. adding # "wrap" => log_index \in Slots
      BY DEF Shape, LogTypeOK, Slots
    <2> QED
      BY <2>1 DEF Shape, LogTypeOK, Base
  <1>1. CASE StartAdd
    <2>1. Base' = Base
      BY <1>1 DEF StartAdd, Base
    <2> QED
      BY <1>0, <1>1, <2>1, SameKept DEF StartAdd, Filled
  <1>2. CASE AddDate
    <2>1. slot \in Slots /\ slot = log_index /\ Base = slot /\ Base' = Base
      BY <1>0, <1>2 DEF AddDate, Base, Filled
    <2>2. log_buffer' = [log_buffer EXCEPT ![slot] = [log_buffer[slot] EXCEPT !.date = event]]
      BY <1>2, <2>1 DEF AddDate, Write
    <2>3. log_buffer[slot] \in Entry
      BY <1>0, <2>1
    <2>4. log_buffer'[slot].date = event
      BY <1>0, <2>1, <2>2, <2>3 DEF Entry
    <2>5. Kept'
      BY <1>0, <1>2, <2>1, <2>2, SameKept DEF AddDate
    <2> QED
      BY <1>2, <2>1, <2>4, <2>5 DEF AddDate, Filled
  <1>3. CASE AddText
    <2>1. slot \in Slots /\ slot = log_index /\ Base = slot /\ Base' = Base
      BY <1>0, <1>3 DEF AddText, Base, Filled
    <2>2. log_buffer' = [log_buffer EXCEPT ![slot] = [log_buffer[slot] EXCEPT !.text = event]]
      BY <1>3, <2>1 DEF AddText, Write
    <2>3. log_buffer[slot] \in Entry /\ log_buffer[slot].date = event
      BY <1>0, <1>3, <2>1 DEF AddText, Filled
    <2>4. log_buffer'[slot] = Whole(event)
      BY <1>0, <2>1, <2>2, <2>3 DEF Entry, Whole
    <2>5. Kept'
      BY <1>0, <1>3, <2>1, <2>2, SameKept DEF AddText
    <2> QED
      BY <1>3, <2>1, <2>4, <2>5 DEF AddText, Filled
  <1>4. CASE AddIndex
    <2>1. Base = slot /\ Base' = Base
      BY <1>4 DEF AddIndex, Base, Filled
    <2> QED
      BY <1>0, <1>4, <2>1, SameKept DEF AddIndex, Filled, Whole
  <1>5. CASE AddWrap
    <2>1. Base = slot /\ Base' = Base
      BY <1>5 DEF AddWrap, Base
    <2>2. log_index' = Wrapped(slot + 1)
      BY <1>5 DEF AddWrap, Filled
    <2> QED
      BY <1>0, <1>5, <2>1, <2>2, SameKept DEF AddWrap, Filled, Whole
  <1>6. CASE AddItems
    <2>1. Base = slot /\ Base' = Wrapped(slot + 1) /\ slot \in Slots /\ event \in Events
      BY <1>0, <1>6 DEF AddItems, Base, Filled
    <2>2. log_buffer'[slot] = Whole(event) /\ log_buffer' = log_buffer
      BY <1>6 DEF AddItems, Filled
    <2>3. Kept'
      BY <1>6, <2>1, <2>2, AddedKept DEF AddItems
    <2> QED
      BY <1>6, <2>3 DEF AddItems, Filled
  <1>7. CASE WebAdd
    <2>1. adding = "no" /\ adding' = "no"
      BY <1>7 DEF WebAdd
    <2>2. Base = log_index /\ Base' = Wrapped(log_index + 1) /\ log_index \in Slots
      BY <1>0, <1>7, <2>1 DEF WebAdd, Base
    <2>3. events + 1 \in Events /\ Remember(events + 1)
      BY <1>7 DEF WebAdd, Shape, LogTypeOK, Events
    <2>4. log_buffer' = [log_buffer EXCEPT ![log_index] = Whole(events + 1)]
      BY <1>7, <2>2 DEF WebAdd, Write
    <2>5. Kept'
      BY <1>0, <2>2, <2>3, <2>4, AddedKept
    <2> QED
      BY <2>1, <2>5 DEF Filled
  <1>8. CASE (\E source \in {"sms", "console"} : StartLog(source))
             \/ GetEntry \/ FormatEntry \/ EndLog \/ UNCHANGED logVars
    <2>1. UNCHANGED <<log_buffer, log_index, adding, slot, event, recent>>
      BY <1>8 DEF StartLog, GetEntry, FormatEntry, EndLog, logVars
    <2>2. Base' = Base
      BY <2>1 DEF Base
    <2> QED
      BY <1>0, <2>1, <2>2, SameKept DEF Filled, Whole
  <1> QED
    BY <1>1, <1>2, <1>3, <1>4, <1>5, <1>6, <1>7, <1>8 DEF LogNext, LogLoopNext

LEMMA StepInv == IInv /\ [LogNext]_logVars => IInv'
  <1> SUFFICES ASSUME IInv, [LogNext]_logVars PROVE IInv'
    OBVIOUS
  <1>1. Shape'
    BY StepShape DEF IInv
  <1>2. ~mixed' => ~mixed
    BY DEF LogNext, LogLoopNext, logVars, StartAdd, AddDate, AddText, AddIndex,
           AddWrap, AddItems, WebAdd, StartLog, GetEntry, FormatEntry, EndLog
  <1>3. ~mixed' => Kept' /\ Filled'
    BY <1>2, StepKept DEF IInv
  <1> QED
    BY <1>1, <1>3 DEF IInv

(* Between two calls log_get goes from place to place.                       *)
LEMMA InvShows == IInv => LogShowsRecent
  <1> SUFFICES ASSUME IInv, adding = "no", ~mixed
               PROVE  View = [k \in 1 .. Len(recent) |-> Whole(recent[k])]
    BY DEF LogShowsRecent
  <1>1. Shape /\ Kept /\ Base = log_index
    BY DEF IInv, Base
  <1>2. log_items = Len(recent) /\ log_items \in Nat /\ log_index \in Nat
    BY <1>1 DEF Shape, LogTypeOK
  <1>3. ASSUME NEW k \in 1 .. log_items
        PROVE  log_buffer[log_get(k - 1)] = Whole(recent[k])
    <2>1. log_get(k - 1) = Place(log_index, k)
      BY <1>2 DEF log_get, Place, RingPlace
    <2> QED
      BY <1>1, <1>2, <2>1 DEF Kept
  <1> QED
    BY <1>2, <1>3 DEF View

-----------------------------------------------------------------------------
(* The command LOG.  No event is newer than the last one there has been, and *)
(* what is logged during a LOG is newer than all of what was there before.   *)
Dated ==
    /\ \A k \in 1 .. Len(recent) : recent[k] <= events
    /\ adding # "no" => event <= events
    /\ reading # NoRead =>
          /\ reading.count = Len(reading.before)
          /\ \A k \in 1 .. Len(reading.before) : reading.before[k] <= events
          /\ recent = reading.before \/
             \A k \in 1 .. Len(reading.before) : reading.before[k] < recent[Len(recent)]

(* How far a LOG has come that nothing was logged in.                        *)
ConsoleRows(r) ==
    /\ r.index = Len(r.rows)
    /\ \A j \in 1 .. Len(r.rows) : r.rows[j] = Whole(r.before[j])

SmsRowsSent(r) ==
    /\ Len(r.rows) <= SmsRows
    /\ r.index = r.count - 1 - Len(r.rows) \/ (r.index = -1 /\ Len(r.rows) = SmsRows)
    /\ \A j \in 1 .. Len(r.rows) : r.rows[j] = Whole(r.before[r.count + 1 - j])

RowsSent(r) ==
    /\ Len(r.rows) <= r.count
    /\ IF r.source = "console" THEN ConsoleRows(r) ELSE SmsRowsSent(r)
    /\ r.entry # -1 => 0 <= r.index /\ r.index < r.count /\ r.entry = Place(log_index, r.index + 1)

Undisturbed == reading # NoRead /\ recent = reading.before /\ ~mixed

AnswerInv == IInv /\ Dated /\ (Undisturbed => RowsSent(reading))

(* The place that is read is that of the event the index stands for.         *)
LEMMA ReadPlace ==
    ASSUME IInv, Undisturbed, NEW i \in Int, 0 <= i, i < Len(recent)
    PROVE  /\ log_get(i) = Place(log_index, i + 1)
           /\ log_buffer[Place(log_index, i + 1)] = Whole(recent[i + 1])
  <1>1. Shape /\ Kept /\ adding = "no" /\ Base = log_index
    BY DEF IInv, Undisturbed, Shape, Base
  <1>2. log_items = Len(recent) /\ log_items \in Nat /\ log_index \in Nat
    BY <1>1 DEF Shape, LogTypeOK
  <1>3. log_get(i) = Place(log_index, i + 1)
    BY <1>2 DEF log_get, Place, RingPlace
  <1>4. i + 1 \in 1 .. Len(recent)
    BY <1>2
  <1> QED
    BY <1>1, <1>3, <1>4 DEF Kept

LEMMA DatedStep == ASSUME IInv, Dated, [LogNext]_logVars PROVE Dated'
  <1> USE EventLogAssumption
  <1>0. /\ Shape /\ recent \in Seq(Events) /\ events \in Nat /\ event \in Nat
        /\ reading = NoRead \/ (reading \in Reading /\ reading.before \in Seq(Events))
    BY DEF IInv, Shape, LogTypeOK, Reading, Events
  <1>1. ASSUME NEW e \in Events, Remember(e), e <= events', events <= events', events' \in Nat,
               UNCHANGED reading, adding' # "no" => event' <= events',
               reading # NoRead => e > events
        PROVE  Dated'
    <2> DEFINE m == Len(recent')
    <2>1. /\ recent' \in Seq(Events) /\ m \in Nat \ {0} /\ recent'[m] = e
          /\ \A k \in 1 .. m - 1 :
                \E j \in 1 .. Len(recent) : recent'[k] = recent[j]
      <3>1. /\ recent' \in Seq(Events) /\ m = Counted(log_items) /\ recent'[m] = e
            /\ \A k \in 1 .. m - 1 :
                  recent'[k] = IF Len(recent) < LOG_ENTRIES THEN recent[k] ELSE recent[k + 1]
        BY <1>0, <1>1, RememberFacts
      <3>2. /\ Len(recent) = log_items /\ log_items \in 0 .. LOG_ENTRIES
            /\ m = IF Len(recent) < LOG_ENTRIES THEN Len(recent) + 1 ELSE Len(recent)
        BY <1>0, <3>1 DEF Shape, LogTypeOK, Counted
      <3> HIDE DEF m
      <3>3. ASSUME NEW k \in 1 .. m - 1
            PROVE  \E j \in 1 .. Len(recent) : recent'[k] = recent[j]
        <4>1. CASE Len(recent) < LOG_ENTRIES
          BY <3>1, <3>2, <4>1
        <4>2. CASE ~(Len(recent) < LOG_ENTRIES)
          <5>1. k + 1 \in 1 .. Len(recent)
            BY <3>2, <4>2
          <5> QED  BY <3>1, <4>2, <5>1
        <4> QED  BY <4>1, <4>2
      <3>4. m \in Nat \ {0}
        BY <3>2
      <3> QED  BY <3>1, <3>3, <3>4
    <2>2. ASSUME NEW k \in 1 .. m PROVE recent'[k] <= events'
      <3>1. CASE k = m
        BY <1>1, <2>1, <3>1
      <3>2. CASE k # m
        <4>0. k \in 1 .. m - 1
          <5> HIDE DEF m
          <5> QED  BY <2>1, <3>2
        <4>1. PICK j \in 1 .. Len(recent) : recent'[k] = recent[j]
          BY <2>1, <4>0
        <4>2. recent[j] \in Nat /\ recent[j] <= events
          BY <1>0, <4>1 DEF Dated, Events
        <4> QED  BY <1>0, <1>1, <4>1, <4>2
      <3> QED  BY <3>1, <3>2
    <2>3. ASSUME reading # NoRead
          PROVE  /\ reading.count = Len(reading.before)
                 /\ \A k \in 1 .. Len(reading.before) :
                      reading.before[k] <= events' /\ reading.before[k] < recent'[m]
      <3>1. reading.count = Len(reading.before)
        BY <2>3 DEF Dated
      <3>2. ASSUME NEW k \in 1 .. Len(reading.before)
            PROVE  reading.before[k] <= events' /\ reading.before[k] < recent'[m]
        <4>1. reading.before[k] \in Nat /\ reading.before[k] <= events
          BY <1>0, <2>3 DEF Dated, Events
        <4>2. e \in Nat /\ e > events
          BY <1>1, <2>3 DEF Events
        <4> QED  BY <1>0, <1>1, <2>1, <4>1, <4>2
      <3> QED  BY <3>1, <3>2
    <2> QED
      BY <1>1, <2>2, <2>3 DEF Dated
  <1>2. CASE StartAdd
    <2>1. event' <= events' /\ events' = events + 1 /\ UNCHANGED <<recent, reading>> /\ reading = NoRead
      BY <1>0, <1>2 DEF StartAdd
    <2>2. \A k \in 1 .. Len(recent) : recent[k] \in Nat
      BY <1>0 DEF Events
    <2> QED
      BY <1>0, <2>1, <2>2 DEF Dated
  <1>3. CASE AddDate \/ AddText \/ AddIndex \/ AddWrap
    BY <1>3 DEF AddDate, AddText, AddIndex, AddWrap, Dated
  <1>4. CASE AddItems
    <2>1. event \in Events /\ reading = NoRead /\ event <= events
      BY <1>0, <1>4 DEF AddItems, Shape, Dated
    <2> QED
      BY <1>0, <1>1, <1>4, <2>1 DEF AddItems
  <1>5. CASE WebAdd
    <2>1. events + 1 \in Events /\ events' = events + 1 /\ Remember(events + 1)
          /\ UNCHANGED <<adding, event, reading>>
      BY <1>0, <1>5 DEF WebAdd, Events
    <2>2. adding' # "no" => event' <= events'
      BY <1>0, <2>1 DEF Dated
    <2> QED
      BY <1>0, <1>1, <2>1, <2>2
  <1>6. CASE \E source \in {"sms", "console"} : StartLog(source)
    <2>1. /\ reading'.before = recent /\ reading'.count = log_items
          /\ UNCHANGED <<adding, event, events, recent>>
      BY <1>6 DEF StartLog
    <2>2. log_items = Len(recent)
      BY <1>0 DEF Shape
    <2> QED
      BY <2>1, <2>2 DEF Dated
  <1>7. CASE GetEntry \/ FormatEntry
    <2>1. reading # NoRead /\ reading \in Reading /\ UNCHANGED <<adding, event, events, recent>>
      BY <1>0, <1>7 DEF GetEntry, FormatEntry
    <2>2. reading'.count = reading.count /\ reading'.before = reading.before
      BY <1>7, <2>1 DEF GetEntry, FormatEntry, Reading
    <2> QED
      BY <2>1, <2>2 DEF Dated
  <1>8. CASE EndLog \/ UNCHANGED logVars
    BY <1>8 DEF EndLog, logVars, Dated
  <1> QED
    BY <1>2, <1>3, <1>4, <1>5, <1>6, <1>7, <1>8 DEF LogNext, LogLoopNext

LEMMA AnswerStep == AnswerInv /\ [LogNext]_logVars => AnswerInv'
  <1> SUFFICES ASSUME AnswerInv, [LogNext]_logVars PROVE AnswerInv'
    OBVIOUS
  <1> USE EventLogAssumption
  <1>0. IInv /\ Dated /\ IInv' /\ Dated'
    BY StepInv, DatedStep DEF AnswerInv
  <1>1. SUFFICES ASSUME Undisturbed' PROVE RowsSent(reading)'
    BY <1>0 DEF AnswerInv
  <1>2. /\ Shape /\ Shape' /\ recent \in Seq(Events) /\ NoRead \notin Reading
        /\ reading' \in Reading /\ reading' # NoRead /\ adding' = "no"
    BY <1>0, <1>1 DEF IInv, Shape, LogTypeOK, Undisturbed, Reading, NoRead
  <1>3. ASSUME NEW source \in {"sms", "console"}, StartLog(source)
        PROVE  RowsSent(reading)'
    <2>1. /\ reading'.source = source /\ reading'.count = log_items /\ reading'.entry = -1
          /\ reading'.index = (IF source = "sms" THEN log_items - 1 ELSE 0)
          /\ reading'.rows = <<>> /\ log_items \in Nat
      BY <1>2, <1>3 DEF StartLog, Shape, LogTypeOK
    <2> QED
      BY <2>1 DEF RowsSent, ConsoleRows, SmsRowsSent
  <1>4. CASE GetEntry
    <2>1. /\ Undisturbed /\ reading \in Reading /\ RowsSent(reading)
          /\ UNCHANGED <<log_index, recent>>
      BY <1>1, <1>2, <1>4 DEF GetEntry, Undisturbed, AnswerInv, Shape, LogTypeOK, Reading
    <2>2. reading.index \in Int /\ 0 <= reading.index /\ reading.index < reading.count
          /\ reading.count = Len(recent)
      BY <1>0, <1>4, <2>1 DEF GetEntry, InRange, Reading, Dated, Undisturbed
    <2>3. log_get(reading.index) = Place(log_index, reading.index + 1)
      BY <1>0, <2>1, <2>2, ReadPlace
    <2>4. /\ reading'.source = reading.source /\ reading'.count = reading.count
          /\ reading'.index = reading.index /\ reading'.rows = reading.rows
          /\ reading'.before = reading.before /\ reading'.entry = log_get(reading.index)
      BY <1>4, <2>1 DEF GetEntry, Reading
    <2>5. Place(log_index, reading.index + 1)' = Place(log_index, reading.index + 1)
      BY <2>1, <2>4 DEF Place, RingPlace
    <2> QED
      BY <2>1, <2>2, <2>3, <2>4, <2>5 DEF RowsSent, ConsoleRows, SmsRowsSent
  <1>5. CASE FormatEntry
    <2> DEFINE r == reading
               row == log_buffer[r.entry]
               fits == r.source = "console" \/ Len(r.rows) < SmsRows
    <2>1. Undisturbed /\ r \in Reading /\ RowsSent(r) /\ UNCHANGED <<log_index, recent>>
      <3>1. reading \in Reading /\ UNCHANGED <<log_index, recent, mixed>> /\ reading # NoRead
            /\ reading'.before = reading.before
        BY <1>2, <1>5 DEF FormatEntry, Shape, LogTypeOK, Reading
      <3>2. Undisturbed
        BY <1>1, <3>1 DEF Undisturbed
      <3> QED  BY <3>1, <3>2 DEF AnswerInv
    <2>2. /\ r.index \in Int /\ r.rows \in Seq(Entry) /\ r.count \in 1 .. LOG_ENTRIES
          /\ r.count = Len(r.before) /\ r.before = recent /\ r.source \in {"sms", "console"}
      BY <1>0, <2>1 DEF Reading, Dated, Undisturbed
    <2>3. 0 <= r.index /\ r.index < r.count /\ r.entry = Place(log_index, r.index + 1)
      BY <1>5, <2>1 DEF FormatEntry, RowsSent, Slots
    <2>4. row = Whole(r.before[r.index + 1])
      BY <1>0, <2>1, <2>2, <2>3, ReadPlace
    <2>5. /\ reading'.source = r.source /\ reading'.count = r.count
          /\ reading'.before = r.before /\ reading'.entry = -1
          /\ fits => reading'.rows = Append(r.rows, row)
                     /\ reading'.index = IF r.source = "sms" THEN r.index - 1 ELSE r.index + 1
          /\ ~fits => reading'.rows = r.rows /\ reading'.index = -1
      BY <1>5, <2>1 DEF FormatEntry, Reading
    <2>0. Len(r.rows) \in Nat
      BY <2>2
    <2>6. /\ Len(Append(r.rows, row)) = Len(r.rows) + 1
          /\ Append(r.rows, row)[Len(r.rows) + 1] = row
          /\ \A j \in 1 .. Len(r.rows) : Append(r.rows, row)[j] = r.rows[j]
      BY <2>2
    <2> HIDE DEF row
    <2>7. CASE r.source = "console"
      <3>1. ConsoleRows(r) /\ Len(r.rows) = r.index
        BY <2>1, <2>7 DEF RowsSent, ConsoleRows
      <3>2. ConsoleRows(reading') /\ Len(reading'.rows) <= r.count
        <4>1. /\ reading'.rows = Append(r.rows, row) /\ reading'.index = r.index + 1
              /\ reading'.before = r.before
          BY <2>5, <2>7
        <4>2. ASSUME NEW j \in 1 .. Len(r.rows) + 1
              PROVE  Append(r.rows, row)[j] = Whole(r.before[j])
          <5>1. CASE j = Len(r.rows) + 1
            BY <2>4, <2>6, <3>1, <5>1
          <5>2. CASE j # Len(r.rows) + 1
            <6>1. j \in 1 .. Len(r.rows)
              BY <2>0, <5>2
            <6> QED  BY <2>6, <3>1, <6>1 DEF ConsoleRows
          <5> QED  BY <5>1, <5>2
        <4>3. Len(r.rows) + 1 <= r.count
          BY <2>0, <2>2, <2>3, <3>1
        <4> QED  BY <2>6, <3>1, <4>1, <4>2, <4>3 DEF ConsoleRows
      <3> QED
        BY <2>5, <2>7, <3>2 DEF RowsSent, ConsoleRows
    <2>8. CASE r.source = "sms" /\ ~fits
      <3>1. SmsRowsSent(r) /\ Len(r.rows) = SmsRows
        <4>1. SmsRowsSent(r) /\ ~(Len(r.rows) < SmsRows)
          BY <2>1, <2>8 DEF RowsSent
        <4> QED  BY <2>0, <4>1 DEF SmsRowsSent
      <3> QED
        BY <2>1, <2>5, <2>8, <3>1 DEF RowsSent, SmsRowsSent
    <2>9. CASE r.source = "sms" /\ fits
      <3>1. /\ SmsRowsSent(r) /\ Len(r.rows) < SmsRows
            /\ r.index = r.count - 1 - Len(r.rows)
        <4>1. SmsRowsSent(r) /\ Len(r.rows) < SmsRows
          BY <2>1, <2>9 DEF RowsSent
        <4>2. r.index = r.count - 1 - Len(r.rows) \/ r.index = -1
          BY <4>1, Zenon DEF SmsRowsSent
        <4>3. r.index # -1
          BY <2>2, <2>3
        <4> QED  BY <4>1, <4>2, <4>3, Zenon
      <3>2. /\ Len(r.rows) + 1 <= r.count /\ r.index - 1 = r.count - 1 - (Len(r.rows) + 1)
            /\ r.index + 1 = r.count + 1 - (Len(r.rows) + 1)
        BY <2>2, <2>3, <3>1
      <3>3. \A j \in 1 .. Len(r.rows) + 1 :
               Append(r.rows, row)[j] = Whole(r.before[r.count + 1 - j])
        <4>1. \A j \in 1 .. Len(r.rows) : r.rows[j] = Whole(r.before[r.count + 1 - j])
          BY <3>1 DEF SmsRowsSent
        <4>2. row = Whole(r.before[r.count + 1 - (Len(r.rows) + 1)])
          BY <2>4, <3>2
        <4>3. ASSUME NEW j \in 1 .. Len(r.rows) + 1
              PROVE  j \in 1 .. Len(r.rows) \/ j = Len(r.rows) + 1
          BY <2>2
        <4> QED  BY <2>6, <4>1, <4>2, <4>3
      <3>4. SmsRowsSent(reading')
        <4>1. /\ reading'.rows = Append(r.rows, row) /\ reading'.index = r.index - 1
              /\ reading'.before = r.before /\ reading'.count = r.count
          BY <2>5, <2>9
        <4>2. Len(r.rows) + 1 <= SmsRows
          BY <2>0, <3>1
        <4> HIDE DEF r
        <4> QED  BY <2>6, <3>2, <3>3, <4>1, <4>2 DEF SmsRowsSent
      <3> QED
        BY <2>2, <2>5, <2>6, <2>9, <3>2, <3>4 DEF RowsSent, SmsRowsSent
    <2> QED
      BY <2>2, <2>7, <2>8, <2>9
  <1>6. CASE WebAdd
    <2>1. events + 1 \in Events /\ Remember(events + 1) /\ UNCHANGED reading
      BY <1>2, <1>6 DEF WebAdd, Shape, LogTypeOK, Events
    <2>2. recent'[Len(recent')] = events + 1 /\ Len(recent') = Counted(log_items)
      BY <1>2, <2>1, RememberFacts
    <2>3. /\ reading # NoRead /\ recent' = reading.before
          /\ \A k \in 1 .. Len(reading.before) : reading.before[k] <= events
      BY <1>0, <1>1, <2>1 DEF Undisturbed, Dated
    <2>4. Len(recent') \in 1 .. Len(reading.before) /\ events \in Nat
      <3>1. log_items \in Nat /\ events \in Nat
        BY <1>2 DEF Shape, LogTypeOK, Events
      <3>2. Counted(log_items) \in Nat \ {0}
        BY <3>1 DEF Counted
      <3>3. Len(reading.before) = Counted(log_items) /\ Len(recent') = Counted(log_items)
        BY <2>2, <2>3
      <3> QED
        BY <3>1, <3>2, <3>3
    <2>5. events + 1 <= events
      BY <2>2, <2>3, <2>4
    <2> QED
      BY <2>4, <2>5
  <1>7. CASE UNCHANGED logVars
    <2>1. Undisturbed /\ RowsSent(reading) /\ UNCHANGED <<reading, log_index, recent>>
      BY <1>1, <1>7 DEF logVars, Undisturbed, AnswerInv
    <2> QED
      BY <2>1 DEF RowsSent, ConsoleRows, SmsRowsSent, Place, RingPlace
  <1>8. CASE StartAdd \/ AddDate \/ AddText \/ AddIndex \/ AddWrap \/ AddItems \/ EndLog
    <2>1. reading' = NoRead
      BY <1>2, <1>8 DEF StartAdd, AddDate, AddText, AddIndex, AddWrap, AddItems, EndLog, Shape
    <2> QED
      BY <1>2, <2>1
  <1> QED
    BY <1>3, <1>4, <1>5, <1>6, <1>7, <1>8 DEF LogNext, LogLoopNext

(* What LOG has answered when it ends.                                       *)
LEMMA EndAnswers ==
    ASSUME AnswerInv, [LogNext]_logVars, reading # NoRead, reading' = NoRead,
           recent = reading.before, ~mixed
    PROVE  LET shown == IF reading.source = "sms" THEN Reverse(reading.rows)
                                                  ELSE reading.rows
               log == Answer(reading.source, reading.before)
           IN  shown = [k \in 1 .. Len(log) |-> Whole(log[k])]
  <1> USE EventLogAssumption
  <1> DEFINE r == reading
             n == Len(r.rows)
  <1>1. /\ r \in Reading /\ RowsSent(r) /\ NoRead \notin Reading
        /\ r.rows \in Seq(Entry) /\ r.before \in Seq(Events)
        /\ r.count = Len(r.before) /\ r.index \in Int /\ r.source \in {"sms", "console"}
    BY DEF AnswerInv, IInv, Shape, LogTypeOK, Dated, Undisturbed, Reading, NoRead
  <1>2. EndLog
    <2>1. reading' \in Reading \/ UNCHANGED reading \/ EndLog
      BY <1>1 DEF LogNext, LogLoopNext, logVars, StartAdd, AddDate, AddText, AddIndex,
         AddWrap, AddItems, WebAdd, StartLog, GetEntry, FormatEntry, NoRead
    <2> QED  BY <1>1, <2>1
  <1>3. r.index < 0 \/ r.index >= r.count
    BY <1>1, <1>2 DEF EndLog, InRange, Reading
  <1>4. CASE r.source = "console"
    <2>1. ConsoleRows(r) /\ n <= r.count
      BY <1>1, <1>4 DEF RowsSent
    <2>2. n = Len(r.before)
      BY <1>1, <1>3, <2>1 DEF ConsoleRows
    <2>3. r.rows = [k \in 1 .. Len(r.before) |-> Whole(r.before[k])]
      BY <1>1, <2>1, <2>2 DEF ConsoleRows
    <2> QED
      BY <1>4, <2>3 DEF Answer
  <1>5. CASE r.source = "sms"
    <2> DEFINE log == LastN(r.before, SmsRows)
    <2>1. SmsRowsSent(r) /\ n <= r.count
      BY <1>1, <1>5 DEF RowsSent
    <2>2. n \in Nat /\ n <= SmsRows /\ r.count \in Nat /\ (n = r.count \/ n = SmsRows)
      BY <1>1, <1>3, <2>1 DEF SmsRowsSent, Reading
    <2>3. Len(log) = n /\ \A k \in 1 .. n : log[k] = r.before[r.count - n + k]
      <3>1. CASE r.count <= SmsRows
        <4>1. n = r.count /\ log = r.before
          BY <1>1, <2>1, <2>2, <3>1 DEF LastN
        <4> QED  BY <1>1, <4>1
      <3>2. CASE ~(r.count <= SmsRows)
        <4>1. n = SmsRows /\ log = SubSeq(r.before, r.count - n + 1, r.count)
          BY <1>1, <2>2, <3>2 DEF LastN
        <4> HIDE DEF log
        <4> QED  BY <1>1, <2>2, <3>2, <4>1
      <3> QED  BY <3>1, <3>2
    <2> HIDE DEF log
    <2>4. \A k \in 1 .. n : Reverse(r.rows)[k] = Whole(log[k])
      <3>1. ASSUME NEW k \in 1 .. n PROVE Reverse(r.rows)[k] = Whole(log[k])
        <4>1. Reverse(r.rows)[k] = r.rows[(n - k) + 1] /\ (n - k) + 1 \in 1 .. n
          BY <1>1, <2>2 DEF Reverse
        <4>2. r.rows[(n - k) + 1] = Whole(r.before[r.count + 1 - ((n - k) + 1)])
          BY <2>1, <4>1 DEF SmsRowsSent
        <4>3. r.count + 1 - ((n - k) + 1) = r.count - n + k
          <5>1. \A a, b, c \in Int : a + 1 - ((b - c) + 1) = a - b + c
            OBVIOUS
          <5>2. r.count \in Int /\ n \in Int /\ k \in Int
            BY <2>2
          <5> HIDE DEF n, r
          <5> QED  BY <5>1, <5>2
        <4> QED  BY <2>3, <4>1, <4>2, <4>3
      <3> QED  BY <3>1
    <2>5. Reverse(r.rows) = [k \in 1 .. n |-> Reverse(r.rows)[k]]
      BY DEF Reverse
    <2>6. Reverse(r.rows) = [k \in 1 .. Len(log) |-> Whole(log[k])]
      BY <2>3, <2>4, <2>5
    <2> QED
      BY <1>5, <2>6 DEF Answer, log
  <1> QED
    BY <1>1, <1>4, <1>5

-----------------------------------------------------------------------------
(* Every variable of the event log keeps its type, whoever adds to it.       *)
THEOREM TypeCorrect == LogSpec => []LogTypeOK
  <1>1. LogInit => IInv
    BY InitInv
  <1>2. IInv /\ [LogNext]_logVars => IInv'
    BY StepInv
  <1>3. IInv => LogTypeOK
    BY DEF IInv, Shape
  <1> QED
    BY <1>1, <1>2, <1>3, PTL DEF LogSpec

(* log.c:13-60: between two calls the ring shows the last LOG_ENTRIES events  *)
(* in their order, whole, as long as no callback has come inside log_add.    *)
THEOREM ShowsRecent == LogSpec => []LogShowsRecent
  <1>1. LogInit => IInv
    BY InitInv
  <1>2. IInv /\ [LogNext]_logVars => IInv'
    BY StepInv
  <1>3. IInv => LogShowsRecent
    BY InvShows
  <1> QED
    BY <1>1, <1>2, <1>3, PTL DEF LogSpec

(* commands.c:640-704: a LOG during which nothing was logged answers what the *)
(* log held, whole and in its order, for a ring and an SMS of any size.      *)
THEOREM AnswersRecent == LogSpec => LogAnswersRecent
  <1>1. LogInit => AnswerInv
    <2>1. LogInit => IInv
      BY InitInv
    <2>2. LogInit => Dated /\ ~Undisturbed
      BY DEF LogInit, Dated, Undisturbed
    <2> QED  BY <2>1, <2>2 DEF AnswerInv
  <1>2. AnswerInv /\ [LogNext]_logVars => AnswerInv'
    BY AnswerStep
  <1>3. AnswerInv /\ [LogNext]_logVars
          => [reading # NoRead /\ reading' = NoRead /\ recent = reading.before /\ ~mixed
                => LET shown == IF reading.source = "sms" THEN Reverse(reading.rows)
                                                          ELSE reading.rows
                       log == Answer(reading.source, reading.before)
                   IN  shown = [k \in 1 .. Len(log) |-> Whole(log[k])] ]_logVars
    BY EndAnswers
  <1> QED
    BY <1>1, <1>2, <1>3, PTL DEF LogSpec, LogAnswersRecent
=============================================================================
