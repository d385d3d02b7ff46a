----------------------------- MODULE ClockProofs -----------------------------
(***************************************************************************)
(* Proofs about Clock, for days of any length, any close times and turns of *)
(* the loop of up to a minute; and, in the second half, about Calendar, the *)
(* date of the same clock: the interrupt's calendar is the Gregorian one in *)
(* every year, and every zone is applied to every minute of the days that   *)
(* are not at the edge of a month.                                          *)
(***************************************************************************)
EXTENDS Clock, Calendar, TLAPS

(* What has been read of the time is what the clock shows.                   *)
ReadTrue ==
    /\ read.hour # Unread => read.hour = clock_dt.hour
    /\ read.min # Unread => read.min = clock_dt.min

(* The close of this minute has still to be made.                            *)
Owed == due /\ ~closed

(* A read that lies in one minute is true.  In a minute in which the doors   *)
(* were closed nothing is left to close.  A close that is owed has not been  *)
(* decided on, and the read that decides has begun, or the last one began    *)
(* before this minute.                                                       *)
Inv ==
    /\ TypeOK
    /\ pc # "task" => read = Nothing
    /\ ~torn => ReadTrue
    /\ closed => ReadTrue
    /\ closed => last_min = close_time \/ minute(clock_dt) # close_time

(* CLOSEAT at the minute in which the clock is marked unsynced is never made. *)
NotAtResync == ResyncHour * MINS + ResyncMin \notin CloseTimes

DueInv ==
    /\ close_time \in CloseTimes
    /\ due => synced /\ minute(clock_dt) = close_time
    /\ Owed => /\ last_min # close_time
               /\ since > clock_dt.sec \/ (read # Nothing /\ ReadTrue)

-----------------------------------------------------------------------------
LEMMA Numbers ==
    /\ HOURS \in Nat \ {0} /\ MINS \in Nat \ {0} /\ SECS \in Nat \ {0}
    /\ Unread \in Nat /\ Unread \notin 0 .. HOURS - 1 /\ Unread \notin 0 .. MINS - 1
    /\ LoopSeconds \in Nat /\ 0 < LoopSeconds /\ LoopSeconds < SECS
  BY ClockAssumption DEF Unread

LEMMA MinuteType == ASSUME NEW t \in Time PROVE minute(t) \in Minutes
  <1>1. /\ t.hour \in 0 .. HOURS - 1 /\ t.min \in 0 .. MINS - 1
    BY DEF Time
  <1>2. ASSUME NEW h \in 0 .. HOURS - 1, NEW m \in 0 .. MINS - 1
        PROVE  h * MINS + m \in 0 .. HOURS * MINS - 1
    <2>1. h * MINS \in Nat /\ HOURS * MINS \in Nat
      BY <1>2, Numbers
    <2>2. (HOURS - 1 - h) * MINS \in Nat
      BY <1>2, Numbers
    <2>3. (HOURS - 1 - h) * MINS = HOURS * MINS - MINS - h * MINS
      BY <1>2, Numbers
    <2> QED
      BY <1>2, <2>1, <2>2, <2>3, Numbers
  <1> QED
    BY <1>1, <1>2 DEF minute, Minutes

(* A second more: in the same minute, or at its end in another, whose first  *)
(* second it is.                                                            *)
LEMMA SecondAdded ==
    ASSUME NEW t \in Time
    PROVE  /\ clock_add_second(t) \in Time
           /\ minute(clock_add_second(t)) = minute(t)
                => clock_add_second(t).hour = t.hour /\ clock_add_second(t).min = t.min
           /\ \/ clock_add_second(t).sec = 0
              \/ minute(clock_add_second(t)) = minute(t) /\ clock_add_second(t).sec = t.sec + 1
           /\ minute(clock_add_second(t)) # minute(t)
                => clock_add_second(t).sec = 0 /\ t.sec = SECS - 1
  <1>1. t.hour \in 0 .. HOURS - 1 /\ t.min \in 0 .. MINS - 1 /\ t.sec \in 0 .. SECS - 1
    BY DEF Time
  <1>2. CASE t.sec + 1 < SECS
    <2>1. clock_add_second(t) = [t EXCEPT !.sec = t.sec + 1]
      BY <1>2 DEF clock_add_second
    <2>2. t.sec + 1 \in 0 .. SECS - 1
      BY <1>1, <1>2, Numbers
    <2>3. /\ clock_add_second(t) \in Time /\ clock_add_second(t).sec = t.sec + 1
          /\ clock_add_second(t).hour = t.hour /\ clock_add_second(t).min = t.min
      BY <2>1, <2>2 DEF Time
    <2> QED
      BY <2>3 DEF minute
  <1>3. CASE ~(t.sec + 1 < SECS) /\ t.min + 1 < MINS
    <2>1. clock_add_second(t) = [t EXCEPT !.sec = 0, !.min = t.min + 1]
      BY <1>3 DEF clock_add_second
    <2>2. t.min + 1 \in 0 .. MINS - 1 /\ t.sec = SECS - 1 /\ 0 \in 0 .. SECS - 1
      BY <1>1, <1>3, Numbers
    <2>3. /\ clock_add_second(t) \in Time /\ clock_add_second(t).sec = 0
          /\ clock_add_second(t).hour = t.hour /\ clock_add_second(t).min = t.min + 1
      BY <2>1, <2>2 DEF Time
    <2>4. t.hour * MINS + (t.min + 1) # t.hour * MINS + t.min
      BY <1>1, Numbers
    <2> QED
      BY <2>2, <2>3, <2>4 DEF minute
  <1>4. CASE ~(t.sec + 1 < SECS) /\ ~(t.min + 1 < MINS)
    <2> DEFINE h == (t.hour + 1) % HOURS
    <2>1. clock_add_second(t) = [hour |-> h, min |-> 0, sec |-> 0]
      BY <1>4 DEF clock_add_second
    <2>2. /\ h \in 0 .. HOURS - 1 /\ t.sec = SECS - 1 /\ t.min = MINS - 1
          /\ 0 \in 0 .. SECS - 1 /\ 0 \in 0 .. MINS - 1
      BY <1>1, <1>4, Numbers
    <2>3. h = t.hour + 1 \/ h = 0
      BY <1>1, Numbers
    <2>4. /\ clock_add_second(t) \in Time /\ clock_add_second(t).sec = 0
          /\ clock_add_second(t).hour = h /\ clock_add_second(t).min = 0
      BY <2>1, <2>2 DEF Time
    <2>5. h * MINS + 0 = t.hour * MINS + t.min => h = t.hour /\ t.min = 0
      <3> HIDE DEF h
      <3>1. CASE h = t.hour + 1
        <4>1. (t.hour + 1) * MINS = t.hour * MINS + MINS /\ t.hour * MINS \in Int
          BY <1>1, Numbers
        <4> QED
          BY <2>2, <3>1, <4>1, Numbers
      <3>2. CASE h = 0
        <4>1. t.hour * MINS \in Nat /\ (t.hour > 0 => t.hour * MINS > 0)
          BY <1>1, Numbers
        <4> QED
          BY <1>1, <2>2, <3>2, <4>1, Numbers
      <3> QED
        BY <2>3, <3>1, <3>2
    <2> QED
      BY <2>2, <2>4, <2>5 DEF minute
  <1> QED
    BY <1>2, <1>3, <1>4

LEMMA ReadMinute ==
    ASSUME TypeOK, ReadTrue, BothRead PROVE current_min = minute(clock_dt)
  BY DEF ReadTrue, BothRead, minute, current_min

LEMMA CurrentType ==
    ASSUME TypeOK, BothRead PROVE current_min \in Minutes
  <1>1. read.hour \in 0 .. HOURS - 1 /\ read.min \in 0 .. MINS - 1
    BY DEF TypeOK, BothRead
  <1>2. [hour |-> read.hour, min |-> read.min, sec |-> 0] \in Time
    BY <1>1, Numbers DEF Time
  <1> QED
    BY <1>2, MinuteType DEF minute, current_min

LEMMA TypeInit == Init => Inv /\ DueInv
  <1> SUFFICES ASSUME Init PROVE Inv /\ DueInv
    OBVIOUS
  <1>0. Midnight \in Time /\ Nothing \in [hour : (0 .. HOURS - 1) \cup {Unread},
                                           min : (0 .. MINS - 1) \cup {Unread}]
    BY Numbers DEF Midnight, Time, Nothing
  <1>2. first_try \in 0 .. FirstTries /\ since \in 0 .. LoopSeconds
    BY Numbers, ClockAssumption DEF Init
  <1>3. close_time \in Minutes \cup {CLOSE_DISABLED}
    BY CloseTimesAssumption DEF Init
  <1>1. TypeOK
    BY <1>0, <1>2, <1>3 DEF Init, TypeOK, NoMinute
  <1> QED
    BY <1>1 DEF Init, Inv, DueInv, Owed, ReadTrue, Nothing

(* The interrupt                                                             *)
LEMMA TickInv ==
    ASSUME Inv, clock_tick
    PROVE  /\ Inv'
           /\ NotAtResync /\ DueInv => DueInv'
           /\ DueInv /\ due /\ ~Reading /\ minute(clock_dt') # close_time => closed
  <1> DEFINE t == clock_dt
             u == clock_add_second(t)
  <1>1. /\ clock_dt \in Time /\ clock_dt' = u /\ u \in Time
        /\ minute(u) = minute(t) => u.hour = t.hour /\ u.min = t.min
        /\ u.sec = 0 \/ (minute(u) = minute(t) /\ u.sec = t.sec + 1)
        /\ minute(u) # minute(t) => u.sec = 0 /\ t.sec = SECS - 1
    BY SecondAdded DEF Inv, TypeOK, clock_tick
  <1>2. t.sec \in 0 .. SECS - 1
    BY <1>1 DEF Time
  <1> HIDE DEF u
  <1>3. since \in Nat /\ since < LoopSeconds /\ since' = since + 1 /\ since' \in 0 .. LoopSeconds
    BY Numbers DEF clock_tick, Inv, TypeOK
  <1>4. minute(u) = minute(t) => UNCHANGED <<due, closed>> /\ ((ReadTrue)' <=> ReadTrue)
    BY <1>1 DEF clock_tick, ReadTrue
  <1>5. minute(u) # minute(t)
          => /\ due' = (synced /\ minute(u) = close_time /\ last_min # close_time)
             /\ closed' = FALSE
    BY <1>1 DEF clock_tick
  <1>6. UNCHANGED <<close_time, pc, read, answer, last_min, first_try>>
        /\ torn' = (torn \/ Reading) /\ synced' = (synced /\ ~Resync(u))
    BY <1>1 DEF clock_tick
  <1>7. TypeOK'
    BY <1>1, <1>3, <1>4, <1>5, <1>6 DEF Inv, TypeOK
  <1>8. ~torn' => ReadTrue'
    <2>1. CASE Reading
      BY <1>6, <2>1
    <2>2. CASE ~Reading
      <3>1. read' = Nothing
        BY <1>6, <2>2 DEF Inv, Reading
      <3> QED
        BY <3>1 DEF ReadTrue, Nothing
    <2> QED
      BY <2>1, <2>2
  <1>9. closed' => ReadTrue' /\ (last_min' = close_time' \/ minute(clock_dt') # close_time')
    BY <1>1, <1>4, <1>5, <1>6 DEF Inv
  <1>10. Inv'
    BY <1>6, <1>7, <1>8, <1>9 DEF Inv
  <1>11. ASSUME NotAtResync, DueInv PROVE DueInv'
    <2>1. Resync(u) => minute(u) \notin CloseTimes
      BY <1>11 DEF NotAtResync, Resync, minute
    <2>2. due' => synced' /\ minute(u) = close_time
      BY <1>4, <1>5, <1>6, <1>11, <2>1 DEF DueInv
    <2>3. CASE minute(u) = minute(t)
      <3>1. since > t.sec => since' > u.sec
        BY <1>1, <1>2, <1>3
      <3> QED
        BY <1>1, <1>4, <1>6, <1>11, <2>2, <2>3, <3>1 DEF DueInv, Owed
    <2>4. CASE minute(u) # minute(t)
      <3>1. since' > u.sec
        BY <1>1, <1>3, <2>4
      <3> QED
        BY <1>1, <1>5, <1>6, <1>11, <2>2, <2>4, <3>1 DEF DueInv, Owed
    <2> QED
      BY <2>3, <2>4
  <1>12. ASSUME DueInv, due, ~Reading, minute(clock_dt') # close_time PROVE closed
    <2>1. minute(t) = close_time /\ minute(u) # minute(t)
      BY <1>1, <1>12 DEF DueInv
    <2>2. t.sec = SECS - 1
      BY <1>1, <2>1
    <2>3. ~(since > t.sec)
      BY <1>3, <2>2, Numbers
    <2> QED
      BY <1>12, <2>3 DEF DueInv, Owed, Reading, Inv
  <1> QED
    BY <1>10, <1>11, <1>12

(* The other steps that write the clock                                      *)
LEMMA SetInv ==
    ASSUME Inv, NEW field \in {"hour", "min", "sec"}, NEW next \in {"min", "sec", "synced"},
           SetField(field, next)
    PROVE  Inv' /\ (DueInv => DueInv')
  <1>1. /\ read = Nothing /\ UNCHANGED <<synced, close_time, answer, read, last_min, first_try,
                                         since, torn>>
        /\ pc' = next /\ clock_dt' = [clock_dt EXCEPT ![field] = answer[field]]
        /\ due' = (due /\ clock_dt' = clock_dt)
        /\ closed' = (closed /\ minute(clock_dt') = minute(clock_dt))
    BY DEF SetField, Inv
  <1>2. clock_dt \in Time /\ answer \in Time
    BY DEF Inv, TypeOK
  <1>3. clock_dt' \in Time
    BY <1>1, <1>2 DEF Time
  <1>4. TypeOK'
    BY <1>1, <1>3 DEF Inv, TypeOK
  <1>5. ReadTrue'
    BY <1>1 DEF ReadTrue, Nothing
  <1>6. Inv'
    BY <1>1, <1>4, <1>5 DEF Inv
  <1>7. ASSUME DueInv PROVE DueInv'
    <2>1. due' => due /\ clock_dt' = clock_dt
      BY <1>1
    <2>2. due' => (closed' <=> closed)
      BY <1>1, <2>1
    <2> QED
      BY <1>1, <1>7, <2>1, <2>2 DEF DueInv, Owed
  <1> QED
    BY <1>6, <1>7

LEMMA ReadInv ==
    ASSUME Inv, NEW field \in {"hour", "min"}, ReadField(field)
    PROVE  Inv' /\ (DueInv => DueInv')
  <1>1. /\ pc = "task" /\ read[field] = Unread /\ read' = [read EXCEPT ![field] = clock_dt[field]]
        /\ since' = IF read = Nothing THEN 0 ELSE since
        /\ UNCHANGED <<clock_dt, synced, close_time, pc, answer, last_min, first_try,
                       due, closed, torn>>
    BY DEF ReadField
  <1>2. /\ clock_dt \in Time
        /\ read \in [hour : (0 .. HOURS - 1) \cup {Unread}, min : (0 .. MINS - 1) \cup {Unread}]
        /\ since \in 0 .. LoopSeconds
    BY DEF Inv, TypeOK
  <1>3. clock_dt.hour \in 0 .. HOURS - 1 /\ clock_dt.min \in 0 .. MINS - 1
    BY <1>2 DEF Time
  <1>4. read' \in [hour : (0 .. HOURS - 1) \cup {Unread}, min : (0 .. MINS - 1) \cup {Unread}]
    BY <1>1, <1>2, <1>3
  <1>5. read' # Nothing
    BY <1>1, <1>2, <1>3, Numbers DEF Nothing
  <1>6. ReadTrue => ReadTrue'
    BY <1>1, <1>2 DEF ReadTrue
  <1>7. since' \in 0 .. LoopSeconds
    BY <1>1, <1>2, Numbers
  <1>8. TypeOK'
    BY <1>1, <1>4, <1>7 DEF Inv, TypeOK
  <1>9. Inv'
    BY <1>1, <1>6, <1>8 DEF Inv
  <1>10. ASSUME DueInv PROVE DueInv'
    <2>1. read = Nothing => ReadTrue'
      BY <1>6 DEF ReadTrue, Nothing
    <2>2. read # Nothing => since' = since
      BY <1>1
    <2> QED
      BY <1>1, <1>5, <1>6, <1>10, <2>1, <2>2 DEF DueInv, Owed
  <1> QED
    BY <1>9, <1>10

(* A decision: the doors are closed at most once in a minute, and a close    *)
(* that is owed is made as soon as a read shows its minute.                  *)
LEMMA DecideInv ==
    ASSUME Inv, Decide
    PROVE  Inv' /\ (DueInv => DueInv') /\ (AutoClose => ~closed)
  <1>1. /\ BothRead /\ pc' = "commands" /\ read' = Nothing /\ torn' = FALSE
        /\ UNCHANGED <<clock_dt, synced, close_time, answer, since, due>>
    BY DEF Decide, SameMinute, AutoClose, OtherMinute, SkipTry, AskTime, NewMinute, LeaveTask
  <1>2. current_min \in Minutes /\ first_try \in 0 .. FirstTries
    BY <1>1, CurrentType DEF Inv, TypeOK
  <1>3. ReadTrue'
    BY <1>1 DEF ReadTrue, Nothing
  <1>4. /\ last_min' \in {last_min, current_min}
        /\ closed' = closed \/ AutoClose
        /\ AutoClose => closed' = TRUE /\ last_min' = close_time /\ last_min # close_time
                        /\ current_min = close_time
    BY DEF Decide, SameMinute, AutoClose, OtherMinute, SkipTry, AskTime, NewMinute
  <1>5. first_try' \in 0 .. FirstTries
    BY <1>2, ClockAssumption DEF Decide, SameMinute, AutoClose, OtherMinute, SkipTry, AskTime
  <1>6. TypeOK'
    BY <1>1, <1>2, <1>4, <1>5, Numbers DEF Inv, TypeOK, Nothing
  <1>7. closed => current_min = minute(clock_dt)
    BY <1>1, ReadMinute DEF Inv
  <1>8. closed' => last_min' = close_time' \/ minute(clock_dt') # close_time'
    BY <1>1, <1>4, <1>7 DEF Inv
  <1>9. Inv'
    BY <1>1, <1>3, <1>6, <1>8 DEF Inv
  <1>10. AutoClose => ~closed
    BY <1>4, <1>7 DEF Inv
  <1>11. ASSUME DueInv PROVE DueInv'
    <2>1. due' => synced' /\ minute(clock_dt') = close_time'
      BY <1>1, <1>11 DEF DueInv
    <2>2. ASSUME Owed' PROVE last_min' # close_time' /\ since' > clock_dt'.sec
      <3>1. Owed /\ ~AutoClose
        BY <1>1, <1>4, <2>2 DEF Owed
      <3>2. last_min # close_time /\ synced
        BY <1>11, <3>1 DEF DueInv, Owed
      <3>3. current_min # close_time
        BY <1>1, <3>1, <3>2 DEF Decide, SameMinute, AutoClose, OtherMinute, SkipTry, AskTime, NewMinute
      <3>4. ~ReadTrue
        BY <1>1, <1>11, <3>1, <3>3, ReadMinute DEF DueInv, Owed, Inv
      <3> QED
        BY <1>1, <1>4, <1>11, <3>1, <3>2, <3>3, <3>4 DEF DueInv
    <2> QED
      BY <1>1, <1>11, <2>1, <2>2 DEF DueInv
  <1> QED
    BY <1>9, <1>10, <1>11

LEMMA OtherInv ==
    ASSUME Inv, clock_set_clock \/ SetSynced \/ EnterTask \/ CloseAt \/ UNCHANGED vars
    PROVE  Inv' /\ (DueInv => DueInv')
  <1>0. Midnight \in Time
    BY Numbers DEF Midnight, Time
  <1>1. CASE clock_set_clock
    BY <1>1 DEF clock_set_clock, Inv, TypeOK, DueInv, Owed, ReadTrue
  <1>2. CASE SetSynced
    BY <1>0, <1>2 DEF SetSynced, Inv, TypeOK, DueInv, Owed, ReadTrue
  <1>3. CASE EnterTask
    BY <1>3 DEF EnterTask, Inv, TypeOK, DueInv, Owed, ReadTrue
  <1>4. CASE CloseAt
    <2>1. close_time' \in Minutes \cup {CLOSE_DISABLED}
      BY <1>4, CloseTimesAssumption DEF CloseAt
    <2> QED
      BY <1>4, <2>1 DEF CloseAt, Inv, TypeOK, DueInv, Owed, ReadTrue
  <1>5. CASE UNCHANGED vars
    BY <1>5 DEF vars, Inv, TypeOK, DueInv, Owed, ReadTrue
  <1> QED
    BY <1>1, <1>2, <1>3, <1>4, <1>5

LEMMA Steps ==
    ASSUME Inv, [Next]_vars
    PROVE  Inv' /\ (NotAtResync /\ DueInv => DueInv')
  BY TickInv, SetInv, ReadInv, DecideInv, OtherInv DEF Next, MainNext

-----------------------------------------------------------------------------
(* The types of the time, its parts and what is read of it.                  *)
THEOREM TypeCorrect == Spec => []TypeOK
  <1>1. Init => Inv
    BY TypeInit
  <1>2. Inv /\ [Next]_vars => Inv'
    BY Steps
  <1>3. Inv => TypeOK
    BY DEF Inv
  <1> QED
    BY <1>1, <1>2, <1>3, PTL DEF Spec

(* clock_task: a read without an interrupt closes in the minute asked for.   *)
THEOREM OnTime == Spec => ClosesOnTime
  <1>1. Init => Inv
    BY TypeInit
  <1>2. Inv /\ [Next]_vars
          => Inv' /\ [AutoClose /\ ~torn => minute(clock_dt) = close_time]_vars
    <2> SUFFICES ASSUME Inv, [Next]_vars
                 PROVE  Inv' /\ (AutoClose /\ ~torn => minute(clock_dt) = close_time)
      OBVIOUS
    <2>1. AutoClose => BothRead /\ current_min = close_time
      BY DEF AutoClose, NewMinute
    <2> QED
      BY <2>1, Steps, ReadMinute DEF Inv
  <1> QED
    BY <1>1, <1>2, PTL DEF Spec, ClosesOnTime

(* last_min: once in a minute, however it is read and the clock is set.      *)
THEOREM Once == Spec => ClosesOnce
  <1>1. Init => Inv
    BY TypeInit
  <1>2. Inv /\ [Next]_vars => Inv' /\ [AutoClose => ~closed]_vars
    BY Steps, DecideInv DEF Decide
  <1> QED
    BY <1>1, <1>2, PTL DEF Spec, ClosesOnce

(* The doors close every day, as long as a turn of the loop takes less than  *)
(* a minute and the close time is not the one of the resynchronisation.      *)
THEOREM Daily == NotAtResync => (Spec => ClosesDaily)
  <1> SUFFICES ASSUME NotAtResync PROVE Spec => ClosesDaily
    OBVIOUS
  <1>1. Init => Inv /\ DueInv
    BY TypeInit
  <1>2. Inv /\ DueInv /\ [Next]_vars
          => /\ Inv' /\ DueInv'
             /\ [due /\ clock_tick /\ ~Reading /\ minute(clock_dt') # close_time => closed]_vars
    BY Steps, TickInv
  <1> QED
    BY <1>1, <1>2, PTL DEF Spec, ClosesDaily

-----------------------------------------------------------------------------
(* Calendar *)

Date == [year : Nat \ {0}, month : 1 .. 12, day : Int]

(* The clock starts on a date of the calendar, and the network tells days    *)
(* from which no zone leads out of the month.                               *)
InsideMonths ==
    /\ FirstDate \in Date /\ FirstDate.day \in 1 .. days_in_month(FirstDate.month, FirstDate.year)
    /\ Dates \subseteq [year : Nat \ {0}, month : 1 .. 12, day : 2 .. 27]

CalendarInv ==
    /\ date \in Date /\ minutes \in 0 .. 1439
    /\ told \in [date : Date, utc : Int, tz : Int]
    /\ AppliesZone

-----------------------------------------------------------------------------
(* Years are counted without days_in_month.                                  *)
Years(y) == 365 * y + y \div 4 - y \div 100 + y \div 400
LeapDay(y) == IF Leap(y) THEN 1 ELSE 0

LEMMA NextYear ==
    ASSUME NEW y \in Nat \ {0} PROVE Years(y) = Years(y - 1) + 365 + LeapDay(y)
  <1>1. /\ y \div 4 = (y - 1) \div 4 + (IF y % 4 = 0 THEN 1 ELSE 0)
        /\ y \div 100 = (y - 1) \div 100 + (IF y % 100 = 0 THEN 1 ELSE 0)
        /\ y \div 400 = (y - 1) \div 400 + (IF y % 400 = 0 THEN 1 ELSE 0)
    OBVIOUS
  <1>2. (y % 400 = 0 => y % 100 = 0) /\ (y % 100 = 0 => y % 4 = 0)
    OBVIOUS
  <1>3. /\ (y - 1) \div 4 \in Int /\ (y - 1) \div 100 \in Int /\ (y - 1) \div 400 \in Int
    OBVIOUS
  <1> QED
    BY <1>1, <1>2, <1>3 DEF Years, LeapDay, Leap

LEMMA DaysInMonth ==
    ASSUME NEW m \in 1 .. 12, NEW y \in Nat \ {0}
    PROVE  /\ days_in_month(m, y) \in 28 .. 31
           /\ m < 12 => DaysBefore[m + 1] + (IF m + 1 > 2 THEN LeapDay(y) ELSE 0)
                          = DaysBefore[m] + (IF m > 2 THEN LeapDay(y) ELSE 0) + days_in_month(m, y)
           /\ m = 12 => days_in_month(m, y) = 31 /\ DaysBefore[m] = 334
           /\ DaysBefore[1] = 0 /\ DaysBefore[m] \in Nat
  BY DEF days_in_month, DaysBefore, LeapDay

LEMMA DayNumberIs ==
    ASSUME NEW d \in Date
    PROVE  DayNumber(d) = Years(d.year - 1) + DaysBefore[d.month]
                            + (IF d.month > 2 THEN LeapDay(d.year) ELSE 0) + d.day
  BY DEF DayNumber, Years, LeapDay

(* Midnight on a date of the calendar leads to the next day.                 *)
LEMMA MidnightFollows ==
    ASSUME date \in Date, ShowsDate, NextDay
    PROVE  date' \in Date /\ DayNumber(date') = DayNumber(date) + 1 /\ ShowsDate'
  <1> DEFINE y == date.year
             m == date.month
             d == date.day
             n == days_in_month(m, y)
  <1>1. y \in Nat \ {0} /\ m \in 1 .. 12 /\ n \in 28 .. 31 /\ d \in 1 .. n
    BY DaysInMonth DEF Date, ShowsDate
  <1>2. DayNumber(date) = Years(y - 1) + DaysBefore[m] + (IF m > 2 THEN LeapDay(y) ELSE 0) + d
    BY DayNumberIs
  <1>3. DaysBefore[m] \in Int /\ Years(y - 1) \in Int /\ LeapDay(y) \in Int
    BY <1>1, DaysInMonth DEF Years, LeapDay
  <1>4. CASE d + 1 <= n
    <2>1. date' = [date EXCEPT !.day = d + 1]
      BY <1>4 DEF NextDay
    <2>2. date' \in Date /\ date'.year = y /\ date'.month = m /\ date'.day = d + 1
      BY <1>1, <2>1 DEF Date
    <2>3. DayNumber(date') = Years(y - 1) + DaysBefore[m]
                               + (IF m > 2 THEN LeapDay(y) ELSE 0) + (d + 1)
      BY <2>2, DayNumberIs
    <2> HIDE DEF y, m, d, n
    <2>4. DayNumber(date') = DayNumber(date) + 1
      BY <1>1, <1>2, <1>3, <2>3
    <2>5. ShowsDate'
      BY <1>1, <1>4, <2>2 DEF ShowsDate, n
    <2> QED
      BY <2>2, <2>4, <2>5
  <1>5. CASE d = n /\ m < 12
    <2>1. date' = [date EXCEPT !.day = 1, !.month = m + 1]
      BY <1>1, <1>5 DEF NextDay
    <2>0. m + 1 \in 1 .. 12
      BY <1>1, <1>5
    <2>2. date' \in Date /\ date'.year = y /\ date'.month = m + 1 /\ date'.day = 1
      <3> DEFINE k == m + 1
      <3>1. date' = [date EXCEPT !.day = 1, !.month = k] /\ k \in 1 .. 12
        BY <2>0, <2>1
      <3> DEFINE first == [date EXCEPT !.day = 1]
      <3>2. first \in Date /\ first.year = y /\ first.day = 1
        BY DEF Date
      <3>3. date' = [first EXCEPT !.month = k]
        BY <3>1
      <3> HIDE DEF k, first
      <3>4. date' \in Date /\ date'.year = y /\ date'.month = k /\ date'.day = 1
        BY <3>1, <3>2, <3>3 DEF Date
      <3> QED
        BY <3>4 DEF k
    <2>3. DayNumber(date') = Years(y - 1) + DaysBefore[m + 1]
                               + (IF m + 1 > 2 THEN LeapDay(y) ELSE 0) + 1
      BY <2>2, DayNumberIs
    <2>4. DaysBefore[m + 1] + (IF m + 1 > 2 THEN LeapDay(y) ELSE 0)
            = DaysBefore[m] + (IF m > 2 THEN LeapDay(y) ELSE 0) + n
          /\ DaysBefore[m + 1] \in Int
      <3> HIDE DEF y, m
      <3> QED
        BY <1>1, <1>5, <2>0, DaysInMonth
    <2>5. days_in_month(m + 1, y) \in 28 .. 31
      BY <1>1, <2>0, DaysInMonth
    <2> HIDE DEF y, m, d, n
    <2>6. DayNumber(date') = DayNumber(date) + 1
      BY <1>1, <1>2, <1>3, <1>5, <2>3, <2>4
    <2>7. ShowsDate'
      BY <2>2, <2>5 DEF ShowsDate
    <2> QED
      BY <2>2, <2>6, <2>7
  <1>6. CASE d = n /\ m = 12
    <2>1. date' = [year |-> y + 1, month |-> 1, day |-> 1]
      BY <1>1, <1>6 DEF NextDay
    <2>2. date' \in Date /\ date'.year = y + 1 /\ date'.month = 1 /\ date'.day = 1
      BY <1>1, <2>1 DEF Date
    <2>3. DayNumber(date') = Years(y) + DaysBefore[1] + 1
      BY <1>1, <2>2, DayNumberIs, DaysInMonth DEF Years
    <2>4. n = 31 /\ DaysBefore[m] = 334 /\ DaysBefore[1] = 0
      BY <1>1, <1>6, DaysInMonth
    <2>5. Years(y) = Years(y - 1) + 365 + LeapDay(y)
      BY <1>1, NextYear
    <2>6. days_in_month(1, y + 1) = 31
      BY DEF days_in_month
    <2> HIDE DEF y, m, d, n
    <2>7. DayNumber(date') = DayNumber(date) + 1
      BY <1>1, <1>2, <1>3, <1>6, <2>3, <2>4, <2>5
    <2>8. ShowsDate'
      BY <2>2, <2>6 DEF ShowsDate
    <2> QED
      BY <2>2, <2>7, <2>8
  <1> QED
    BY <1>1, <1>4, <1>5, <1>6

(* Inside a month, a day more or less has the next number.                   *)
LEMMA DayMoves ==
    ASSUME NEW d \in [year : Nat \ {0}, month : 1 .. 12, day : 2 .. 27], NEW c \in -1 .. 1,
           NEW e, e = [d EXCEPT !.day = @ + c]
    PROVE  /\ e \in Date /\ d \in Date /\ DayNumber(d) \in Int
           /\ DayNumber(e) = DayNumber(d) + c
           /\ e.day \in 1 .. days_in_month(e.month, e.year)
  <1>1. d \in Date /\ e \in Date /\ e.year = d.year /\ e.month = d.month
        /\ e.day = d.day + c /\ d.day \in 2 .. 27
    BY DEF Date
  <1>2. /\ DayNumber(d) = Years(d.year - 1) + DaysBefore[d.month]
                            + (IF d.month > 2 THEN LeapDay(d.year) ELSE 0) + d.day
        /\ DayNumber(e) = Years(d.year - 1) + DaysBefore[d.month]
                            + (IF d.month > 2 THEN LeapDay(d.year) ELSE 0) + (d.day + c)
    BY <1>1, DayNumberIs
  <1>3. /\ Years(d.year - 1) \in Int /\ DaysBefore[d.month] \in Int
        /\ LeapDay(d.year) \in Int /\ days_in_month(d.month, d.year) \in 28 .. 31
    BY <1>1, DaysInMonth DEF Date, Years, LeapDay
  <1>4. DayNumber(d) \in Int /\ DayNumber(e) = DayNumber(d) + c
    BY <1>1, <1>2, <1>3
  <1>5. e.day \in 1 .. days_in_month(e.month, e.year)
    BY <1>1, <1>3
  <1> QED
    BY <1>1, <1>4, <1>5

LEMMA ZonedApplies ==
    ASSUME InsideMonths
    PROVE  SetFromNetwork => CalendarInv'
  <1> SUFFICES ASSUME NEW d \in Dates, NEW utc \in UtcMinutes, NEW tz \in Zones,
                      SetZoned(d, utc, tz)
               PROVE  CalendarInv'
    BY DEF SetFromNetwork
  <1>a. utc \in 0 .. 1439 /\ tz \in -48 .. 56
    BY CalendarAssumption
  <1> DEFINE total == utc + 15 * tz
             c == Carry(total)
  <1>0. total = utc + 15 * tz
    OBVIOUS
  <1>1. c \in -1 .. 1 /\ total \in Int /\ total - 1440 * c \in 0 .. 1439
    <2>1. total \in Int /\ -720 <= total /\ total <= 2279
      BY <1>0, <1>a
    <2> HIDE DEF total
    <2> QED
      BY <2>1 DEF Carry
  <1>2. /\ date' = [d EXCEPT !.day = @ + c] /\ minutes' = total - 1440 * c
        /\ told' = [date |-> d, utc |-> utc, tz |-> tz]
    BY DEF SetZoned
  <1>3. d \in [year : Nat \ {0}, month : 1 .. 12, day : 2 .. 27]
    BY DEF InsideMonths
  <1> HIDE DEF c
  <1>4. /\ date' \in Date /\ d \in Date /\ DayNumber(d) \in Int
        /\ DayNumber(date') = DayNumber(d) + c
        /\ date'.day \in 1 .. days_in_month(date'.month, date'.year)
    BY <1>1, <1>2, <1>3, DayMoves
  <1> HIDE DEF total
  <1>5. 1440 * DayNumber(date') + minutes' = 1440 * DayNumber(d) + utc + 15 * tz
    <2> DEFINE n == DayNumber(d)
    <2>1. n \in Int /\ DayNumber(date') = n + c /\ minutes' = total - 1440 * c
      BY <1>2, <1>4, <1>a
    <2> HIDE DEF n
    <2>2. 1440 * (n + c) + (total - 1440 * c) = 1440 * n + utc + 15 * tz
      BY <1>0, <1>1, <1>a, <2>1
    <2> QED
      BY <2>1, <2>2 DEF n
  <1>6. told' \in [date : Date, utc : Int, tz : Int]
    BY <1>2, <1>4, <1>a
  <1>7. AppliesZone'
    BY <1>2, <1>4, <1>5 DEF AppliesZone, Instant, ShowsDate
  <1> QED
    BY <1>1, <1>2, <1>4, <1>6, <1>7 DEF CalendarInv

LEMMA CalendarStart == InsideMonths /\ CalendarInit => CalendarInv
  <1> SUFFICES ASSUME InsideMonths, CalendarInit PROVE CalendarInv
    OBVIOUS
  <1>1. /\ date \in Date /\ ShowsDate /\ minutes = 0
        /\ told = [date |-> date, utc |-> 0, tz |-> 0]
    BY DEF CalendarInit, InsideMonths, ShowsDate
  <1>2. DayNumber(date) \in Int
    BY <1>1, DayNumberIs, DaysInMonth DEF Date, Years, LeapDay
  <1>3. AppliesZone
    BY <1>1, <1>2 DEF AppliesZone, Instant
  <1> QED
    BY <1>1, <1>3 DEF CalendarInv

LEMMA CalendarStep ==
    ASSUME InsideMonths, CalendarInv, [CalendarNext]_calendarVars
    PROVE  CalendarInv' /\ (NextDay => DayNumber(date') = DayNumber(date) + 1 /\ ShowsDate')
  <1>0. date \in Date /\ ShowsDate
    BY DEF CalendarInv, AppliesZone
  <1>1. ASSUME date' \in Date, ShowsDate', minutes' \in 0 .. 1439,
               told' = [date |-> date', utc |-> minutes', tz |-> 0]
        PROVE  CalendarInv'
    <2>1. DayNumber(date') \in Int
      BY <1>1, DayNumberIs, DaysInMonth DEF Date, Years, LeapDay
    <2>2. AppliesZone'
      BY <1>1, <2>1 DEF AppliesZone, Instant
    <2> QED
      BY <1>1, <2>2 DEF CalendarInv
  <1>2. ASSUME NextDay
        PROVE  CalendarInv' /\ DayNumber(date') = DayNumber(date) + 1 /\ ShowsDate'
    <2>1. date' \in Date /\ DayNumber(date') = DayNumber(date) + 1 /\ ShowsDate'
      BY <1>0, <1>2, MidnightFollows
    <2> QED
      BY <1>1, <1>2, <2>1 DEF NextDay
  <1>3. ASSUME SetLocal PROVE CalendarInv'
    <2>1. date' \in [year : Nat \ {0}, month : 1 .. 12, day : 2 .. 27] /\ minutes' \in 0 .. 1439
      BY <1>3, CalendarAssumption DEF SetLocal, InsideMonths
    <2>2. date' \in Date /\ date'.day \in 1 .. days_in_month(date'.month, date'.year)
      BY <2>1, DaysInMonth DEF Date
    <2> QED
      BY <1>1, <1>3, <2>1, <2>2 DEF SetLocal, ShowsDate
  <1>4. ASSUME SetFromNetwork PROVE CalendarInv'
    BY <1>4, ZonedApplies
  <1>5. ASSUME UNCHANGED calendarVars PROVE CalendarInv'
    BY <1>5 DEF calendarVars, CalendarInv, AppliesZone, ShowsDate
  <1> QED
    BY <1>2, <1>3, <1>4, <1>5 DEF CalendarNext

-----------------------------------------------------------------------------
(* clock_add_second: the calendar is the Gregorian one, for ever.            *)
THEOREM CalendarFollowed == InsideMonths => (CalendarSpec => FollowsCalendar)
  <1> SUFFICES ASSUME InsideMonths PROVE CalendarSpec => FollowsCalendar
    OBVIOUS
  <1>1. CalendarInit => CalendarInv
    BY CalendarStart
  <1>2. CalendarInv /\ [CalendarNext]_calendarVars
          => CalendarInv' /\ [NextDay => DayNumber(date') = DayNumber(date) + 1 /\ ShowsDate']_calendarVars
    BY CalendarStep
  <1> QED
    BY <1>1, <1>2, PTL DEF CalendarSpec, FollowsCalendar

(* clock_set_clock: every zone, on every such day, gives the instant told.   *)
THEOREM ZoneApplied == InsideMonths => (CalendarSpec => []AppliesZone)
  <1> SUFFICES ASSUME InsideMonths PROVE CalendarSpec => []AppliesZone
    OBVIOUS
  <1>1. CalendarInit => CalendarInv
    BY CalendarStart
  <1>2. CalendarInv /\ [CalendarNext]_calendarVars => CalendarInv'
    BY CalendarStep
  <1>3. CalendarInv => AppliesZone
    BY DEF CalendarInv
  <1> QED
    BY <1>1, <1>2, <1>3, PTL DEF CalendarSpec
(* Days of a month, but perhaps of another one.                              *)
TrueDates ==
    FirstDate \in [year : Nat \ {0}, month : 1 .. 12, day : 1 .. 31]
        /\ Dates \subseteq [year : Nat \ {0}, month : 1 .. 12, day : 1 .. 31]

(* clock.c:164: wherever in a month the network tells the time, a zone leads *)
(* no further than the day before its first or after the thirty-first, and   *)
(* midnight leads from every such day to one that there is.                  *)
THEOREM CalendarTypeCorrect ==
    TrueDates => (CalendarSpec => []CalendarTypeOK /\ [][NextDay => ShowsDate']_calendarVars)
  <1> SUFFICES ASSUME TrueDates
               PROVE  CalendarSpec => []CalendarTypeOK /\ [][NextDay => ShowsDate']_calendarVars
    OBVIOUS
  <1> DEFINE Shown == [year : Nat \ {0}, month : 1 .. 12, day : 0 .. 32]
             TInv == date \in Shown /\ minutes \in 0 .. 1439
  <1>1. CalendarInit => TInv
    BY DEF CalendarInit, TrueDates
  <1>2. ASSUME TInv, [CalendarNext]_calendarVars PROVE TInv' /\ (NextDay => ShowsDate')
    <2>1. ASSUME NextDay PROVE TInv' /\ ShowsDate'
      <3> DEFINE last == days_in_month(date.month, date.year)
      <3>0. last \in 28 .. 31
        BY <1>2, DaysInMonth
      <3>1. CASE date.day + 1 <= last
        <4>1. date.day + 1 \in 1 .. last
          BY <1>2, <3>0, <3>1
        <4>2. date' = [date EXCEPT !.day = date.day + 1] /\ minutes' = 0
          BY <2>1, <3>1 DEF NextDay
        <4>3. /\ date'.day = date.day + 1 /\ date'.month = date.month /\ date'.year = date.year
              /\ date' \in Shown
          BY <1>2, <3>0, <4>1, <4>2
        <4> QED
          BY <4>1, <4>2, <4>3 DEF ShowsDate
      <3>2. CASE ~(date.day + 1 <= last)
        <4> DEFINE m == date.month + 1
                   first == [date EXCEPT !.day = 1]
        <4>1. date' \in Shown /\ date'.day = 1 /\ minutes' = 0
          <5>1. CASE date.month < 12
            <6>1. m \in 1 .. 12 /\ first \in Shown /\ first.day = 1
              BY <1>2, <5>1
            <6>2. date' = [first EXCEPT !.month = m] /\ minutes' = 0
              BY <2>1, <3>2, <5>1 DEF NextDay
            <6> HIDE DEF m, first
            <6> QED
              BY <6>1, <6>2
          <5>2. CASE ~(date.month < 12)
            <6>1. date' = [year |-> date.year + 1, month |-> 1, day |-> 1] /\ minutes' = 0
              BY <2>1, <3>2, <5>2 DEF NextDay
            <6> QED
              BY <1>2, <6>1
          <5> QED
            BY <5>1, <5>2
        <4>2. days_in_month(date'.month, date'.year) \in 28 .. 31
          BY <4>1, DaysInMonth
        <4> QED
          BY <4>1, <4>2 DEF ShowsDate
      <3> QED
        BY <3>1, <3>2
    <2>2. ASSUME SetLocal PROVE TInv'
      BY <2>2, CalendarAssumption DEF SetLocal, TrueDates
    <2>3. ASSUME SetFromNetwork PROVE TInv'
      <3>1. PICK d \in Dates, utc \in UtcMinutes, tz \in Zones : SetZoned(d, utc, tz)
        BY <2>3 DEF SetFromNetwork
      <3> DEFINE total == utc + 15 * tz
      <3>2. total \in Int /\ -720 <= total /\ total <= 2279
        BY CalendarAssumption
      <3>3. /\ date' = [d EXCEPT !.day = @ + Carry(total)]
            /\ minutes' = total - 1440 * Carry(total)
        BY <3>1 DEF SetZoned
      <3> HIDE DEF total
      <3>4. Carry(total) \in -1 .. 1 /\ total - 1440 * Carry(total) \in 0 .. 1439
        BY <3>2 DEF Carry
      <3>5. d \in [year : Nat \ {0}, month : 1 .. 12, day : 1 .. 31]
        BY DEF TrueDates
      <3>6. d.day + Carry(total) \in 0 .. 32
        BY <3>4, <3>5
      <3> QED
        BY <3>3, <3>4, <3>5, <3>6
    <2>4. ASSUME UNCHANGED calendarVars PROVE TInv'
      BY <1>2, <2>4 DEF calendarVars
    <2>5. TInv'
      BY <1>2, <2>1, <2>2, <2>3, <2>4 DEF CalendarNext
    <2> QED
      BY <2>1, <2>5
  <1>3. TInv => CalendarTypeOK
    BY DEF CalendarTypeOK
  <1>4. TInv /\ [CalendarNext]_calendarVars => TInv' /\ [NextDay => ShowsDate']_calendarVars
    BY <1>2
  <1> HIDE DEF TInv
  <1> QED
    BY <1>1, <1>3, <1>4, PTL DEF CalendarSpec
=============================================================================
