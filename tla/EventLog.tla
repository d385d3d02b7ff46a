------------------------------ MODULE EventLog ------------------------------
(***************************************************************************)
(* The event log of log.c: a ring of the last LOG_ENTRIES events, filled by *)
(* log_add and read back entry by entry by the command LOG.  The main loop  *)
(* adds and reads in steps; a web callback, which preempts it between any   *)
(* two of them, adds in one.                                                *)
(*                                                                         *)
(* An event is its number.  An entry has a date, written first, and a text  *)
(* (event, args, who and status), so that an entry can be mixed.            *)
(***************************************************************************)
EXTENDS Integers, Sequences, SequencesExt

CONSTANTS
    LOG_ENTRIES, \* entries in the ring
    SmsRows,     \* rows that fit in the 160 bytes of an answer by SMS
    MaxEvents    \* bound: events logged

ASSUME EventLogAssumption ==
    LOG_ENTRIES \in Nat \ {0} /\ SmsRows \in Nat \ {0} /\ MaxEvents \in Nat

VARIABLES
    log_buffer, log_index, log_items,
    adding,  \* where the main loop is in log_add
    slot,    \* the entry it fills there
    event,   \* the event it logs
    reading, \* the LOG command of the main loop
    events,  \* history: events logged so far
    recent,  \* history: the events of finished calls, oldest first
    mixed    \* history: a web callback came inside log_add

logVars == <<log_buffer, log_index, log_items, adding, slot, event, reading,
             events, recent, mixed>>

Slots == 0 .. LOG_ENTRIES - 1
NoEntry == [date |-> 0, text |-> 0]
Events == 1 .. MaxEvents
Whole(e) == [date |-> e, text |-> e]
Entry == [date : {0} \cup Events, text : {0} \cup Events]
NoRead == [source |-> "none"]
Reading == [source : {"sms", "console"}, count : 1 .. LOG_ENTRIES, index : Int,
            entry : Slots \cup {-1}, rows : Seq(Entry), before : Seq(Events)]

LogTypeOK ==
    /\ log_buffer \in [Slots -> Entry]
    /\ log_index \in 0 .. LOG_ENTRIES /\ log_items \in 0 .. LOG_ENTRIES
    /\ adding \in {"no", "date", "text", "index", "wrap", "items"}
    /\ slot \in 0 .. LOG_ENTRIES /\ event \in {0} \cup Events /\ events \in {0} \cup Events
    /\ recent \in Seq(Events) /\ mixed \in BOOLEAN
    /\ reading = NoRead \/ reading \in Reading

LogInit ==
    /\ log_buffer = [s \in Slots |-> NoEntry]
    /\ log_index = 0 /\ log_items = 0
    /\ adding = "no" /\ slot = 0 /\ event = 0
    /\ reading = NoRead
    /\ events = 0 /\ recent = <<>> /\ mixed = FALSE

(* log_get: where the entry with this index is; the oldest has index 0.     *)
log_get(index) ==
    LET i == log_index - log_items + index
    IN  IF i < 0 THEN i + LOG_ENTRIES ELSE i

Wrapped(index) == IF index >= LOG_ENTRIES THEN 0 ELSE index

Counted(items) == IF items < LOG_ENTRIES THEN items + 1 ELSE items

LastN(s, n) == IF Len(s) <= n THEN s ELSE SubSeq(s, Len(s) - n + 1, Len(s))
Remember(e) == recent' = LastN(Append(recent, e), LOG_ENTRIES)

-----------------------------------------------------------------------------
(* log_add in the main loop *)

StartAdd ==
    /\ adding = "no" /\ reading = NoRead /\ events < MaxEvents
    /\ adding' = "date" /\ slot' = log_index
    /\ event' = events + 1 /\ events' = events + 1
    /\ UNCHANGED <<log_buffer, log_index, log_items, reading, recent, mixed>>

(* A slot past the end of the ring is memory of something else.             *)
Write(s, entry) ==
    log_buffer' = IF s \in Slots THEN [log_buffer EXCEPT ![s] = entry] ELSE log_buffer

AddDate ==
    /\ adding = "date" /\ adding' = "text"
    /\ Write(slot, [log_buffer[slot] EXCEPT !.date = event])
    /\ UNCHANGED <<log_index, log_items, slot, event, reading, events, recent, mixed>>

AddText ==
    /\ adding = "text" /\ adding' = "index"
    /\ Write(slot, [log_buffer[slot] EXCEPT !.text = event])
    /\ UNCHANGED <<log_index, log_items, slot, event, reading, events, recent, mixed>>

AddIndex ==
    /\ adding = "index" /\ adding' = "wrap"
    /\ log_index' = log_index + 1
    /\ UNCHANGED <<log_buffer, log_items, slot, event, reading, events, recent, mixed>>

AddWrap ==
    /\ adding = "wrap" /\ adding' = "items"
    /\ log_index' = Wrapped(log_index)
    /\ UNCHANGED <<log_buffer, log_items, slot, event, reading, events, recent, mixed>>

AddItems ==
    /\ adding = "items" /\ adding' = "no"
    /\ log_items' = Counted(log_items)
    /\ Remember(event)
    /\ slot' = 0 /\ event' = 0
    /\ UNCHANGED <<log_buffer, log_index, reading, events, mixed>>

(* log_add in a web callback: to its end, wherever the main loop is.        *)
WebAdd_KeepsDate ==
    /\ events < MaxEvents
    /\ Write(log_index, [log_buffer[log_index] EXCEPT !.text = events + 1])
    /\ log_index' = Wrapped(log_index + 1) /\ log_items' = Counted(log_items)
    /\ events' = events + 1 /\ Remember(events + 1)
    /\ mixed' = (mixed \/ adding # "no")
    /\ UNCHANGED <<adding, slot, event, reading>>

WebAdd ==
    /\ events < MaxEvents
    /\ Write(log_index, Whole(events + 1))
    /\ log_index' = Wrapped(log_index + 1) /\ log_items' = Counted(log_items)
    /\ events' = events + 1 /\ Remember(events + 1)
    /\ mixed' = (mixed \/ adding # "no")
    /\ UNCHANGED <<adding, slot, event, reading>>

-----------------------------------------------------------------------------
(* cmd_log in the main loop: by SMS from the newest entry back, as many as  *)
(* fit; on the console from the oldest on.  The count is taken once.        *)

StartLog(source) ==
    /\ adding = "no" /\ reading = NoRead /\ log_items > 0
    /\ reading' = [source |-> source, count |-> log_items,
                   index |-> IF source = "sms" THEN log_items - 1 ELSE 0,
                   entry |-> -1, rows |-> <<>>, before |-> recent]
    /\ UNCHANGED <<log_buffer, log_index, log_items, adding, slot, event,
                   events, recent, mixed>>

InRange(index) == 0 <= index /\ index < reading.count

GetEntry ==
    /\ reading # NoRead /\ reading.entry = -1 /\ InRange(reading.index)
    /\ reading' = [reading EXCEPT !.entry = log_get(reading.index)]
    /\ UNCHANGED <<log_buffer, log_index, log_items, adding, slot, event,
                   events, recent, mixed>>

(* A slip: the last row that fits is not sent.                              *)
FormatEntry_DropsLast ==
    /\ reading # NoRead /\ reading.entry \in Slots
    /\ LET fits == reading.source = "console" \/ Len(reading.rows) + 1 < SmsRows
       IN  reading' = [reading EXCEPT
               !.rows = IF fits THEN Append(@, log_buffer[reading.entry]) ELSE @,
               !.index = IF ~fits THEN -1
                         ELSE IF reading.source = "sms" THEN @ - 1 ELSE @ + 1,
               !.entry = -1]
    /\ UNCHANGED <<log_buffer, log_index, log_items, adding, slot, event,
                   events, recent, mixed>>

FormatEntry ==
    /\ reading # NoRead /\ reading.entry \in Slots
    /\ LET fits == reading.source = "console" \/ Len(reading.rows) < SmsRows
       IN  reading' = [reading EXCEPT
               !.rows = IF fits THEN Append(@, log_buffer[reading.entry]) ELSE @,
               !.index = IF ~fits THEN -1
                         ELSE IF reading.source = "sms" THEN @ - 1 ELSE @ + 1,
               !.entry = -1]
    /\ UNCHANGED <<log_buffer, log_index, log_items, adding, slot, event,
                   events, recent, mixed>>

EndLog ==
    /\ reading # NoRead /\ ~InRange(reading.index)
    /\ reading' = NoRead
    /\ UNCHANGED <<log_buffer, log_index, log_items, adding, slot, event,
                   events, recent, mixed>>

LogLoopNext ==
    \/ StartAdd \/ AddDate \/ AddText \/ AddIndex \/ AddWrap \/ AddItems
    \/ \E source \in {"sms", "console"} : StartLog(source)
    \/ GetEntry \/ FormatEntry \/ EndLog

LogNext == LogLoopNext \/ WebAdd
LogSpec == LogInit /\ [][LogNext]_logVars

-----------------------------------------------------------------------------
(* What log_get shows, from the oldest entry to the newest.                 *)
View == [k \in 1 .. log_items |-> log_buffer[log_get(k - 1)]]

(* log.c:13-60: between two calls the ring, read through log_get, is exactly *)
(* the last LOG_ENTRIES events in the order they were logged, each with its *)
(* own date - unless a web callback once came inside a log_add of the loop. *)
LogShowsRecent ==
    adding = "no" /\ ~mixed => View = [k \in 1 .. Len(recent) |-> Whole(recent[k])]

(* What LOG should answer: the newest entries first, as many as fit, or all *)
(* of them in order.                                                        *)
Answer(source, log) ==
    IF source = "sms" THEN LastN(log, SmsRows) ELSE log

(* commands.c:640-704: a LOG during which nothing was logged answers what   *)
(* was in the log: by SMS the newest that fit, newest first, on the console *)
(* all of it, oldest first; none is missing and none comes twice.           *)
LogAnswersRecent ==
    [][ reading # NoRead /\ reading' = NoRead /\ recent = reading.before /\ ~mixed
          => LET shown == IF reading.source = "sms" THEN Reverse(reading.rows)
                                                    ELSE reading.rows
                 log == Answer(reading.source, reading.before)
             IN  shown = [k \in 1 .. Len(log) |-> Whole(log[k])] ]_logVars
=============================================================================
