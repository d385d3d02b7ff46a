------------------------------- MODULE Clock --------------------------------
(***************************************************************************)
(* The time of day of src/clock.c and the daily automatic close.  The      *)
(* timer interrupt adds a second to clock_dt and once a day marks it       *)
(* unsynced; the main loop writes it, field by field, when the modem tells *)
(* the time (clock_set_clock), and once a minute looks whether to close    *)
(* the doors or to ask the time (clock_task).  A step is one access of     *)
(* clock_dt: the interrupt may come between any two of them.  The date is  *)
(* in Calendar.  The length of the day is a parameter, so that a day can   *)
(* be explored; the interrupts that only count up to a second are left out.*)
(***************************************************************************)
EXTENDS Naturals

CONSTANTS
    HOURS, MINS, SECS,         \* hours a day, minutes an hour, seconds a minute
    ResyncHour, ResyncMin,     \* clock_tick's 03:01
    CLOSE_DISABLED,
    CloseTimes,                \* what CLOSEAT and the settings page choose from
    FirstTries,                \* first_try's initial value
    LoopSeconds                \* bound: the longest a turn of the main loop takes

ASSUME ClockAssumption ==
    /\ HOURS \in Nat \ {0} /\ MINS \in Nat \ {0} /\ SECS \in Nat \ {0}
    /\ ResyncHour \in 0 .. HOURS - 1 /\ ResyncMin \in 0 .. MINS - 1
    /\ FirstTries \in Nat
    /\ LoopSeconds \in 1 .. SECS - 1

Minutes == 0 .. HOURS * MINS - 1

ASSUME CloseTimesAssumption ==
    /\ CLOSE_DISABLED \notin Minutes
    /\ CloseTimes \subseteq Minutes \cup {CLOSE_DISABLED}

VARIABLES
    clock_dt, synced,
    close_time,            \* cfg.close_time
    pc,                    \* where the main loop is
    answer,                \* the time clock_set_clock is writing
    read,                  \* the fields clock_task has read
    last_min, first_try,   \* clock_task's statics
    since,                 \* seconds since clock_task last read the time
    due, closed,           \* history: a close is due, was made, this minute
    torn                   \* history: the interrupt came into clock_task's read

vars == <<clock_dt, synced, close_time, pc, answer, read, last_min, first_try,
          since, due, closed, torn>>

Time == [hour : 0 .. HOURS - 1, min : 0 .. MINS - 1, sec : 0 .. SECS - 1]
Midnight == [hour |-> 0, min |-> 0, sec |-> 0]

minute(t) == t.hour * MINS + t.min

NoMinute == CLOSE_DISABLED     \* last_min = 0xFFFF
Unread == HOURS + MINS         \* no value of either field
Nothing == [hour |-> Unread, min |-> Unread]

TypeOK ==
    /\ clock_dt \in Time /\ answer \in Time
    /\ synced \in BOOLEAN /\ due \in BOOLEAN /\ closed \in BOOLEAN
    /\ torn \in BOOLEAN
    /\ close_time \in Minutes \cup {CLOSE_DISABLED}
    /\ last_min \in Minutes \cup {NoMinute}
    /\ pc \in {"commands", "hour", "min", "sec", "synced", "task"}
    /\ read \in [hour : (0 .. HOURS - 1) \cup {Unread}, min : (0 .. MINS - 1) \cup {Unread}]
    /\ first_try \in 0 .. FirstTries
    /\ since \in 0 .. LoopSeconds

Init ==
    /\ clock_dt = Midnight /\ synced = FALSE
    /\ close_time \in CloseTimes
    /\ pc = "commands" /\ answer = Midnight /\ read = Nothing
    /\ last_min = NoMinute /\ first_try = FirstTries
    /\ since = 0 /\ due = FALSE /\ closed = FALSE /\ torn = FALSE

-----------------------------------------------------------------------------
(* The timer interrupt *)

clock_add_second(t) ==
    IF t.sec + 1 < SECS THEN [t EXCEPT !.sec = @ + 1]
    ELSE IF t.min + 1 < MINS THEN [t EXCEPT !.sec = 0, !.min = @ + 1]
    ELSE [hour |-> (t.hour + 1) % HOURS, min |-> 0, sec |-> 0]

(* A slip: the clock is marked unsynced at every full minute of the hour.   *)
Resync_EveryMinute(t) == t.hour = ResyncHour /\ t.sec = 0

Resync(t) == t.hour = ResyncHour /\ t.min = ResyncMin /\ t.sec = 0

(* Between the first read of clock_task and its decision.                   *)
Reading == pc = "task" /\ read # Nothing

(* A close is due when the clock runs, in sync, into close_time's minute -  *)
(* not again, when it had been set back from this same minute.              *)
clock_tick ==
    /\ since < LoopSeconds /\ since' = since + 1
    /\ clock_dt' = clock_add_second(clock_dt)
    /\ synced' = (synced /\ ~Resync(clock_dt'))
    /\ IF minute(clock_dt') = minute(clock_dt) THEN UNCHANGED <<due, closed>>
       ELSE /\ due' = (synced /\ minute(clock_dt') = close_time /\ last_min # close_time)
            /\ closed' = FALSE
    /\ torn' = (torn \/ Reading)
    /\ UNCHANGED <<close_time, pc, answer, read, last_min, first_try>>

-----------------------------------------------------------------------------
(* The main loop, before clock_task: lines of the modem and commands *)

clock_set_clock ==
    /\ pc = "commands"
    /\ answer' \in Time /\ pc' = "hour"
    /\ UNCHANGED <<clock_dt, synced, close_time, read, last_min, first_try, since, due, closed, torn>>

SetField(field, next) ==
    /\ pc = field /\ pc' = next
    /\ clock_dt' = [clock_dt EXCEPT ![field] = answer[field]]
    /\ due' = (due /\ clock_dt' = clock_dt)
    /\ closed' = (closed /\ minute(clock_dt') = minute(clock_dt))
    /\ UNCHANGED <<synced, close_time, answer, read, last_min, first_try, since, torn>>

SetSynced ==
    /\ pc = "synced" /\ pc' = "commands"
    /\ synced' = TRUE
    /\ answer' = Midnight
    /\ UNCHANGED <<clock_dt, close_time, read, last_min, first_try, since, due, closed, torn>>

(* CLOSEAT in the loop, or the settings page in a web callback at any time. *)
CloseAt ==
    /\ close_time' \in CloseTimes
    /\ due' = FALSE /\ closed' = FALSE
    /\ UNCHANGED <<clock_dt, synced, pc, answer, read, last_min, first_try, since, torn>>

-----------------------------------------------------------------------------
(* clock_task *)

EnterTask ==
    /\ pc = "commands" /\ pc' = "task"
    /\ UNCHANGED <<clock_dt, synced, close_time, answer, read, last_min, first_try, since, due, closed, torn>>

(* hour * 60 + min reads two volatile fields, in an order C leaves open.    *)
ReadField(field) ==
    /\ pc = "task" /\ read[field] = Unread
    /\ read' = [read EXCEPT ![field] = clock_dt[field]]
    /\ since' = IF read = Nothing THEN 0 ELSE since
    /\ UNCHANGED <<clock_dt, synced, close_time, pc, answer, last_min, first_try, due, closed, torn>>

current_min == minute(read)

BothRead == pc = "task" /\ read.hour # Unread /\ read.min # Unread

LeaveTask ==
    /\ pc' = "commands" /\ read' = Nothing /\ torn' = FALSE
    /\ UNCHANGED <<clock_dt, synced, close_time, answer, since, due>>

SameMinute ==
    /\ BothRead /\ current_min = last_min
    /\ LeaveTask /\ UNCHANGED <<last_min, first_try, closed>>

NewMinute == BothRead /\ current_min # last_min /\ last_min' = current_min

(* A slip: from close_time on.                                              *)
AutoClose_From ==
    /\ NewMinute /\ synced
    /\ current_min >= close_time
    /\ closed' = TRUE
    /\ LeaveTask /\ UNCHANGED first_try

(* A slip: last_min is not updated.                                         *)
AutoClose_Again ==
    /\ BothRead /\ current_min # last_min /\ synced
    /\ current_min = close_time
    /\ closed' = TRUE
    /\ LeaveTask /\ UNCHANGED <<last_min, first_try>>

AutoClose ==
    /\ NewMinute /\ synced
    /\ current_min = close_time
    /\ closed' = TRUE
    /\ LeaveTask /\ UNCHANGED first_try

OtherMinute ==
    /\ NewMinute /\ synced /\ current_min # close_time
    /\ LeaveTask /\ UNCHANGED <<first_try, closed>>

(* A slip: the count of the first tries is not kept.                        *)
SkipTry_Uncounted ==
    /\ NewMinute /\ ~synced /\ first_try > 0
    /\ LeaveTask /\ UNCHANGED <<closed, first_try>>

SkipTry ==
    /\ NewMinute /\ ~synced /\ first_try > 0
    /\ first_try' = first_try - 1
    /\ LeaveTask /\ UNCHANGED closed

(* modem_send("AT+CCLK?") *)
AskTime ==
    /\ NewMinute /\ ~synced /\ first_try = 0
    /\ LeaveTask /\ UNCHANGED <<first_try, closed>>

Decide == SameMinute \/ AutoClose \/ OtherMinute \/ SkipTry \/ AskTime

MainNext ==
    \/ clock_set_clock
    \/ SetField("hour", "min") \/ SetField("min", "sec") \/ SetField("sec", "synced")
    \/ SetSynced
    \/ EnterTask \/ (\E field \in {"hour", "min"} : ReadField(field)) \/ Decide

Next == clock_tick \/ CloseAt \/ MainNext

Spec == Init /\ [][Next]_vars

(* The timer runs, the loop goes on, and the lines of the modem, which come *)
(* at a finite rate, do not keep it from its next task.                     *)
Fairness ==
    /\ WF_vars(clock_tick) /\ SF_vars(EnterTask)
    /\ WF_vars(pc # "commands" /\ MainNext)
SpecLive == Spec /\ Fairness

-----------------------------------------------------------------------------
(* Properties *)

(* clock_task, "automatic closing time": the doors are closed in the minute *)
(* of close_time and in no other, unless the interrupt came into the read   *)
(* of the time.                                                             *)
ClosesOnTime == [][ AutoClose /\ ~torn => minute(clock_dt) = close_time ]_vars

(* "Auto close ... daily on a given time" (readme): the clock does not run, *)
(* in sync, through the minute of close_time without the doors closing.     *)
ClosesDaily ==
    [][ due /\ clock_tick /\ ~Reading /\ minute(clock_dt') # close_time => closed ]_vars

(* last_min: however often the task runs in a minute, and however the clock *)
(* is set meanwhile, the doors are closed at most once in it, so that they  *)
(* can be opened again.  This holds with torn reads.                        *)
ClosesOnce == [][ AutoClose => ~closed ]_vars

(* clock_task, "try to get time from network": while the clock stays out of *)
(* sync, the time is asked again and again.                                 *)
AsksUntilSynced == <>[]~synced => []<><<AskTime>>_vars
=============================================================================
