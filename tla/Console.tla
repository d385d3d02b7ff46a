------------------------------ MODULE Console ------------------------------
(***************************************************************************)
(* The console log of console.c and the page that follows it (/status once, *)
(* then /console?since=... over and over, held open as a long poll while    *)
(* there is nothing new).  Everything the firmware prints goes, piece by     *)
(* piece, through one line buffer into a ring of LOG_LINES lines with ids.  *)
(*                                                                         *)
(* A piece is the number of its printing; the text of a line is the sequence *)
(* of its pieces, and its length their number.  The main loop prints and    *)
(* files a line in steps; a web callback, which preempts it between any two, *)
(* prints, answers or polls in one.                                         *)
(***************************************************************************)
EXTENDS Integers, Sequences, FiniteSets, FiniteSetsExt

CONSTANTS
    LOG_LINES,   \* lines in the ring
    LOG_LEN,     \* pieces of text in a line
    AnswerRoom,  \* pieces that fit in an answer to /console
    StatusRoom,  \* pieces that fit in an answer to /status, next to the rest
    SINCE_MAX,   \* values of the cursor the handler reads: 0 .. SINCE_MAX - 1
    MaxPieces    \* bound: pieces printed

ASSUME ConsoleAssumption ==
    /\ LOG_LINES \in Nat \ {0} /\ LOG_LEN \in Nat \ {0} /\ SINCE_MAX \in Nat \ {0}
    /\ AnswerRoom \in Nat /\ StatusRoom \in Nat /\ MaxPieces \in Nat

VARIABLES
    log_buf, log_head, log_next_id,
    linebuf,  \* the pieces of the line that is being printed
    filing,   \* where the main loop is in log_add_line
    entry,    \* the slot and the id it has taken there
    printed,  \* history: pieces printed so far
    page,     \* what the page waits for
    since,    \* the page's cursor
    asked,    \* state->since of its request
    answer,   \* the answer on its way to the page
    torn      \* history: a web callback came inside log_add_line

conVars == <<log_buf, log_head, log_next_id, linebuf, filing, entry, printed,
             page, since, asked, answer, torn>>
ringVars == <<log_buf, log_head, log_next_id, linebuf, filing, entry, printed>>
pageVars == <<page, since, asked, answer>>

Slots == 0 .. LOG_LINES - 1
Pieces == 1 .. MaxPieces
Ids == 1 .. MaxPieces
Line == [id : {0} \cup Ids, text : Seq(Pieces)]
NoLine == [id |-> 0, text |-> <<>>]
NoAnswer == [kind |-> "none"]

ConTypeOK ==
    /\ DOMAIN log_buf = Slots /\ \A s \in Slots : log_buf[s] \in Line
    /\ log_head \in Slots /\ log_next_id \in 1 .. MaxPieces + 1
    /\ linebuf \in Seq(Pieces) /\ Len(linebuf) <= LOG_LEN
    /\ filing \in {"no", "take", "number", "copy", "head", "clear"}
    /\ entry \in [slot : Slots, id : {0} \cup Ids] /\ printed \in 0 .. MaxPieces
    /\ page \in {"loading", "dead", "ask", "poll", "wait"}
    /\ since \in {0} \cup Ids /\ asked \in 0 .. SINCE_MAX - 1
    /\ answer # NoAnswer =>
          /\ answer.kind \in {"status", "lines", "timeout"} /\ answer.whole \in BOOLEAN
          /\ \A s \in DOMAIN answer.rows : answer.rows[s] \in Line
          /\ answer.since \in {0} \cup Ids
    /\ torn \in BOOLEAN

EmptyRing == [s \in Slots |-> NoLine]
NotFiling == [slot |-> 0, id |-> 0]

ConInit ==
    /\ log_buf = EmptyRing /\ log_head = 0 /\ log_next_id = 1
    /\ linebuf = <<>> /\ filing = "no" /\ entry = NotFiling /\ printed = 0
    /\ page = "loading" /\ since = 0 /\ asked = 0 /\ answer = NoAnswer
    /\ torn = FALSE

console_last_id == log_next_id - 1

-----------------------------------------------------------------------------
(* Printing: console_write stores what fits of the line and drops the rest. *)

Stored(line, piece) == IF Len(line) < LOG_LEN THEN Append(line, piece) ELSE line

LoopPrints ==
    /\ filing = "no" /\ printed < MaxPieces
    /\ linebuf' = Stored(linebuf, printed + 1) /\ printed' = printed + 1
    /\ UNCHANGED <<log_buf, log_head, log_next_id, filing, entry, pageVars,
                   torn>>

(* log_add_line in the main loop, at the end of a line: the slot under the  *)
(* head, the next id, the text, the head, and then the buffer is cleared.   *)
LoopEndsLine ==
    /\ filing = "no" /\ linebuf # <<>>
    /\ filing' = "take" /\ entry' = [slot |-> log_head, id |-> 0]
    /\ UNCHANGED <<log_buf, log_head, log_next_id, linebuf, printed, pageVars,
                   torn>>

TakeId ==
    /\ filing = "take" /\ filing' = "number"
    /\ entry' = [entry EXCEPT !.id = log_next_id]
    /\ UNCHANGED <<log_buf, log_head, log_next_id, linebuf, printed, pageVars,
                   torn>>

Number ==
    /\ filing = "number" /\ filing' = "copy"
    /\ log_next_id' = entry.id + 1
    /\ log_buf' = [log_buf EXCEPT ![entry.slot].id = entry.id]
    /\ UNCHANGED <<log_head, linebuf, entry, printed, pageVars, torn>>

CopyText ==
    /\ filing = "copy" /\ filing' = "head"
    /\ log_buf' = [log_buf EXCEPT ![entry.slot].text = linebuf]
    /\ UNCHANGED <<log_head, log_next_id, linebuf, entry, printed, pageVars,
                   torn>>

MoveHead ==
    /\ filing = "head" /\ filing' = "clear"
    /\ log_head' = (log_head + 1) % LOG_LINES
    /\ UNCHANGED <<log_buf, log_next_id, linebuf, entry, printed, pageVars,
                   torn>>

ClearLine ==
    /\ filing = "clear" /\ filing' = "no"
    /\ linebuf' = <<>> /\ entry' = NotFiling
    /\ UNCHANGED <<log_buf, log_head, log_next_id, printed, pageVars, torn>>

(* console_write of n lines of one piece in a web callback.  What the loop   *)
(* has already put into the line buffer becomes a part of the first.        *)
Filed_BufferKept(n) ==
    [k \in 1 .. n |-> Stored(linebuf, printed + k)]

Filed(n) ==
    [k \in 1 .. n |-> Stored(IF k = 1 THEN linebuf ELSE <<>>, printed + k)]

WebPrintsLines(n) ==
    /\ printed + n <= MaxPieces
    /\ log_buf' = [s \in Slots |->
          LET here == {k \in 1 .. n : (log_head + k - 1) % LOG_LINES = s}
          IN  IF here = {} THEN log_buf[s]
              ELSE LET k == CHOOSE k \in here : \A j \in here : j <= k
                   IN  [id |-> log_next_id + k - 1, text |-> Filed(n)[k]]]
    /\ log_head' = (log_head + n) % LOG_LINES
    /\ log_next_id' = log_next_id + n
    /\ linebuf' = <<>> /\ printed' = printed + n
    /\ torn' = (torn \/ filing # "no")
    /\ UNCHANGED <<filing, entry, pageVars>>

-----------------------------------------------------------------------------
(* Reading: console_get_since goes through the array, not around the ring:   *)
(* its rows are lines by their slots, the last that of the highest.         *)

console_get_since(id) ==
    [s \in {s \in Slots : log_buf[s].id > id} |-> log_buf[s]]

TextLength(rows) == MapThenSumSet(LAMBDA s : Len(rows[s].text), DOMAIN rows)

(* get_console_json_inner: the rows, and the id of the last of them for the  *)
(* next request.  An answer that does not fit is cut off: no JSON any more.  *)
new_since_NextId(rows, id) ==
    IF DOMAIN rows = {} THEN id ELSE rows[Max(DOMAIN rows)].id + 1

new_since(rows, id) ==
    IF DOMAIN rows = {} THEN id ELSE rows[Max(DOMAIN rows)].id

Lines(kind, id, room) ==
    LET rows == console_get_since(id)
    IN  [kind |-> kind, rows |-> rows, since |-> new_since(rows, id),
         whole |-> TextLength(rows) <= room,
         oldest |-> log_next_id - LOG_LINES] \* history: older lines are overwritten

Sends(a) == answer' = a /\ page' = "wait"

(* Answering reads the ring in a web callback. *)
Reads == torn' = (torn \/ filing # "no")

Status ==
    /\ page = "loading" /\ Reads
    /\ Sends(Lines("status", 0, StatusRoom))
    /\ UNCHANGED <<ringVars, since, asked>>

(* The handler reads five digits of the cursor, into 16 bits.                *)
ReadCursor(id) == id % SINCE_MAX

HandleConsole ==
    /\ page = "ask" /\ Reads
    /\ asked' = ReadCursor(since)
    /\ IF console_last_id > asked'
       THEN Sends(Lines("lines", asked', AnswerRoom))
       ELSE page' = "poll" /\ UNCHANGED answer
    /\ UNCHANGED <<ringVars, since>>

(* ws_poll, a few times a second while the request is open.                  *)
PollLines_OtherWay ==
    /\ page = "poll" /\ Reads
    /\ console_last_id < asked
    /\ Sends(Lines("lines", asked, AnswerRoom))
    /\ UNCHANGED <<ringVars, since, asked>>

PollLines ==
    /\ page = "poll" /\ Reads
    /\ console_last_id > asked
    /\ Sends(Lines("lines", asked, AnswerRoom))
    /\ UNCHANGED <<ringVars, since, asked>>

PollTimeout ==
    /\ page = "poll" /\ Reads
    /\ console_last_id <= asked
    /\ Sends([kind |-> "timeout", rows |-> <<>>, since |-> 0, whole |-> TRUE, oldest |-> 0])
    /\ UNCHANGED <<ringVars, since, asked>>

-----------------------------------------------------------------------------
(* The page *)

(* A console answer is shown, and the next request follows in any case.      *)
Receive ==
    /\ page = "wait" /\ answer.kind # "status"
    /\ IF answer.kind = "lines" /\ answer.whole
       THEN since' = answer.since ELSE UNCHANGED since
    /\ page' = "ask" /\ answer' = NoAnswer
    /\ UNCHANGED <<ringVars, asked, torn>>

(* loadState: a /status that cannot be read has no catch, and the loop of    *)
(* the console is never entered.                                            *)
ReceiveStatus ==
    /\ page = "wait" /\ answer.kind = "status"
    /\ IF answer.whole
       THEN page' = "ask" /\ since' = answer.since
       ELSE page' = "dead" /\ UNCHANGED since
    /\ answer' = NoAnswer
    /\ UNCHANGED <<ringVars, asked, torn>>

(* A request or its answer is lost: the loop asks again with the same cursor, *)
(* loadState does not.                                                       *)
Lose ==
    /\ page = "poll" \/ (page = "wait" /\ answer.kind # "status")
    /\ page' = "ask" /\ answer' = NoAnswer
    /\ UNCHANGED <<ringVars, since, asked, torn>>

LoseStatus ==
    /\ page = "wait" /\ answer.kind = "status"
    /\ page' = "dead" /\ answer' = NoAnswer
    /\ UNCHANGED <<ringVars, since, asked, torn>>

(* The user opens the page anew.                                             *)
Reload ==
    /\ page' = "loading" /\ since' = 0 /\ asked' = 0 /\ answer' = NoAnswer
    /\ page # "loading"
    /\ UNCHANGED <<ringVars, torn>>

ConLoopNext ==
    LoopPrints \/ LoopEndsLine \/ TakeId \/ Number \/ CopyText \/ MoveHead \/ ClearLine
ConWebNext == Status \/ HandleConsole \/ PollLines \/ PollTimeout
PageNext == Receive \/ ReceiveStatus \/ Lose \/ LoseStatus \/ Reload
ConNext ==
    \/ ConLoopNext \/ ConWebNext \/ PageNext
    \/ \E n \in 1 .. 2 : WebPrintsLines(n)

(* lwIP runs the callbacks it has, and the timer of the poll goes on.  An    *)
(* answer may be lost, but not every one for ever.                          *)
Fairness ==
    /\ WF_conVars(Status) /\ WF_conVars(HandleConsole)
    /\ WF_conVars(PollLines) /\ WF_conVars(PollTimeout)
    /\ SF_conVars(Receive) /\ SF_conVars(ReceiveStatus)

ConSpec == ConInit /\ [][ConNext]_conVars /\ Fairness

-----------------------------------------------------------------------------
Ring == {log_buf[s] : s \in Slots} \ {NoLine}
Ascending(t) == \A i, j \in DOMAIN t : i < j => t[i] < t[j]
Before(t, u) == \A i \in DOMAIN t, j \in DOMAIN u : t[i] < u[j]

(* console.c:30-67: the ring holds the last LOG_LINES lines, each once, with *)
(* consecutive ids, and reading them by their ids gives what was printed in *)
(* the order it was printed, although a web callback may print in the middle *)
(* of a line of the loop - as long as none comes while the loop files one.  *)
RingInOrder ==
    filing = "no" /\ ~torn =>
        /\ {l.id : l \in Ring} = Max({1, log_next_id - LOG_LINES}) .. console_last_id
        /\ Cardinality(Ring) = Min({LOG_LINES, console_last_id})
        /\ \A l \in Ring :
              /\ Ascending(l.text)
              /\ \A k \in Ring : l.id < k.id => Before(l.text, k.text)
              /\ Before(l.text, linebuf)

(* router.c:260-303: although the lines of an answer come in the order of    *)
(* the array, and the cursor is that of the last of them, the cursor never   *)
(* passes a line that the page was not given, unless the ring had lost it.  *)
NothingMissed ==
    [][ ~torn => \A i \in since + 1 .. since' :
          i < answer.oldest \/ \E k \in DOMAIN answer.rows : answer.rows[k].id = i ]_conVars

(* Every answer has fitted, no callback came while the loop filed a line, and *)
(* the page has been loaded.                                                 *)
InOrder == ~torn /\ page \notin {"loading", "dead"} /\ (answer # NoAnswer => answer.whole)

(* router.c:650, webserver.c:231: then the page comes to the last line again *)
(* and again - also with a cursor that no longer fits in 16 bits, with which *)
(* it is only sent the whole ring for each answer.                           *)
PageCatchesUp == <>[]InOrder => []<>(since = console_last_id)
=============================================================================
