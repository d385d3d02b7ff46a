------------------------------- MODULE Modem --------------------------------
(***************************************************************************)
(* SMS through the modem: src/modem.c, the commands it runs, and, external *)
(* to the repository, the modem.  A step reads one line from the UART,     *)
(* sends one command or ends one wait.  modem_feed_char runs the command   *)
(* of an SMS inside itself; the command answers with SMS's of its own, and *)
(* while modem_send_sms waits, it feeds characters, so that a second SMS   *)
(* can be run inside the first: frames is that stack.  Lines are kept by   *)
(* kind, the text of an SMS by which SMS it is.  The lines of the clock,   *)
(* the SIM and the network registration do not touch this state; the       *)
(* requests of a web page that send an SMS are left out.                   *)
(***************************************************************************)
EXTENDS Naturals, Sequences, FiniteSets

CONSTANTS
    Messages,           \* the SMS's the outside sends, once each
    From,               \* From[m]: the number of the sender, or NoNumber
    Replies,            \* Replies[m]: the numbers its command sends an SMS to
    Known,              \* the numbers phonebook_exists finds
    Indexes,            \* the places of the SIM storage
    FifoLines           \* the lines the UART keeps while nothing reads it

NoNumber == "none"     \* the number is empty, or extract_sms_number finds none
Unknown == "unknown"   \* not the text of one of Messages
Garbled == "garbled"   \* the number in a header of which a part was lost

Empty == "empty"

Senders == {From[m] : m \in Messages}
Recipients == Known \cup UNION {{Replies[m][k] : k \in DOMAIN Replies[m]} : m \in Messages}

ASSUME ModemAssumption ==
    /\ Indexes \subseteq Nat \ {0} /\ FifoLines \in Nat
    /\ Unknown \notin Messages /\ Empty \notin Messages /\ Empty \notin Recipients
    /\ DOMAIN From = Messages
    /\ Replies \in [Messages -> Seq(Recipients)]

VARIABLES
    toModem, toPico,        \* the two directions of the UART
    modem_last_line,
    modem_wait_match,       \* is it ">"?
    modem_wait_flag,
    waiting_for_cmgr_text,
    sms_number, sms_text,
    last_sms_index,
    frames,                 \* the SMS's being run, the innermost first
    storage,                \* the modem: its SIM storage,
    body,                   \* the SMS it is given the text of, if any,
    outside,                \* the messages not yet sent,
    delivered,              \* and the SMS's it has sent
    executed,               \* history: the commands run, with their senders
    given,                  \* history: how often the modem has given out each SMS
    beheaded,               \* history: see Beheads
    apart                   \* history: see Apart

pico == <<modem_last_line, modem_wait_match, modem_wait_flag, waiting_for_cmgr_text,
          sms_number, sms_text, last_sms_index>>
modem == <<storage, body, outside, delivered>>
history == <<executed, given, beheaded, apart>>
vars == <<toModem, toPico, pico, frames, modem, history>>

Closed == [to |-> Empty, text |-> << >>]      \* command mode

(* To the modem *)
CMGR(i) == [is |-> "AT+CMGR", index |-> i]
CMGD(i) == [is |-> "AT+CMGD", index |-> i]
CMGS(n) == [is |-> "AT+CMGS", to |-> n]
Text(n, m) == [is |-> "text", to |-> n, re |-> m]   \* and CTRL+Z

(* From the modem.  Cut is the rest of a line whose beginning was lost.     *)
CMTI(i) == [is |-> "+CMTI", index |-> i]
Header(m) == [is |-> "+CMGR", from |-> From[m]]
Line(m) == [is |-> "line", sms |-> m]
Prompt == [is |-> ">"]
Sent == [is |-> "+CMGS"]
OK == [is |-> "OK"]
ERROR == [is |-> "ERROR"]
Cut == [is |-> "cut"]

FromModem ==
    {CMTI(i) : i \in Indexes}
        \cup {[is |-> "+CMGR", from |-> n] : n \in Senders \cup {Garbled}}
        \cup {Line(m) : m \in Messages} \cup {Prompt, Sent, OK, ERROR, Cut}
ToModem ==
    {CMGR(i) : i \in Indexes} \cup {CMGD(i) : i \in Indexes \cup {0}}
        \cup {CMGS(n) : n \in Recipients} \cup {Text(n, m) : n \in Recipients, m \in Messages \cup {Unknown}}

Frame ==
    {f \in [pc : {"send", "prompt", "result"}, todo : Seq(Recipients),
            sms : Messages \cup {Unknown}, index : Indexes \cup {0}, waited : BOOLEAN] :
        f.pc # "send" => f.todo # << >>}

TypeOK ==
    /\ toModem \in Seq(ToModem) /\ toPico \in Seq(FromModem)
    /\ modem_last_line \in FromModem
    /\ modem_wait_match \in BOOLEAN /\ modem_wait_flag \in BOOLEAN
    /\ waiting_for_cmgr_text \in BOOLEAN
    /\ sms_number \in Senders \cup {NoNumber, Garbled}
    /\ sms_text \in Seq(FromModem)
    /\ last_sms_index \in Indexes \cup {0}
    /\ frames \in Seq(Frame)
    /\ storage \in [Indexes -> Messages \cup {Empty}]
    /\ body \in [to : Recipients \cup {Empty}, text : Seq(ToModem)]
    /\ given \in [Messages -> Nat] /\ beheaded \in BOOLEAN
    /\ outside \subseteq Messages /\ apart \in BOOLEAN

Init ==
    /\ toModem = << >> /\ toPico = << >>
    /\ modem_last_line = OK         \* of modem_init_step2
    /\ modem_wait_match = FALSE /\ modem_wait_flag = FALSE
    /\ waiting_for_cmgr_text = FALSE
    /\ sms_number = NoNumber /\ sms_text = << >> /\ last_sms_index = 0
    /\ frames = << >>
    /\ storage = [i \in Indexes |-> Empty] /\ body = Closed
    /\ outside = Messages /\ delivered = {}
    /\ executed = {} /\ given = [m \in Messages |-> 0]
    /\ beheaded = FALSE /\ apart = TRUE

-----------------------------------------------------------------------------
(* modem_feed_char, on the next line; called from the main loop and from    *)
(* both waits of modem_send_sms.                                            *)

line == Head(toPico)

(* modem_last_line gets every line before anything looks at it.             *)
Take == toPico # << >> /\ toPico' = Tail(toPico)
TakeLine == Take /\ line # Prompt /\ modem_last_line' = line

FeedPrompt ==
    /\ Take /\ line = Prompt
    /\ modem_wait_flag' = (modem_wait_flag \/ modem_wait_match)
    /\ UNCHANGED <<toModem, modem_last_line, modem_wait_match, waiting_for_cmgr_text,
                   sms_number, sms_text, last_sms_index, frames, modem, history>>

FeedCMTI ==
    /\ TakeLine /\ line.is = "+CMTI"
    /\ last_sms_index' = line.index
    /\ toModem' = Append(toModem, CMGR(line.index))
    /\ UNCHANGED <<modem_wait_match, modem_wait_flag, waiting_for_cmgr_text,
                   sms_number, sms_text, frames, modem, history>>

(* A slip: the number is only taken over once.                              *)
FeedHeader_FirstNumber ==
    /\ TakeLine /\ line.is = "+CMGR"
    /\ sms_number' = IF sms_number # NoNumber THEN sms_number ELSE line.from
    /\ waiting_for_cmgr_text' = TRUE /\ sms_text' = << >>
    /\ UNCHANGED <<toModem, modem_wait_match, modem_wait_flag, last_sms_index,
                   frames, modem, history>>

FeedHeader ==
    /\ TakeLine /\ line.is = "+CMGR"
    /\ sms_number' = IF line.from = NoNumber THEN sms_number ELSE line.from
    /\ waiting_for_cmgr_text' = TRUE /\ sms_text' = << >>
    /\ UNCHANGED <<toModem, modem_wait_match, modem_wait_flag, last_sms_index,
                   frames, modem, history>>

FeedText ==
    /\ TakeLine /\ line.is \notin {"+CMTI", "+CMGR", "OK"}
    /\ waiting_for_cmgr_text
    /\ sms_text' = Append(sms_text, line)
    /\ UNCHANGED <<toModem, modem_wait_match, modem_wait_flag, waiting_for_cmgr_text,
                   sms_number, last_sms_index, frames, modem, history>>

(* The SMS a text is, if its beginning was not lost.                        *)
SmsIn(text) == IF text # << >> /\ text[1].is = "line" THEN text[1].sms ELSE Unknown

(* To whom process_command and send_response send an SMS.                   *)
RepliesTo(m, sender) ==
    IF m # Unknown /\ From[m] = sender THEN Replies[m]
    ELSE IF sender \in Known THEN <<sender>> ELSE << >>

(* A slip: the CMGR state is not closed.                                    *)
RunSms_StaysOpen ==
    /\ TakeLine /\ line = OK
    /\ waiting_for_cmgr_text
    /\ UNCHANGED <<waiting_for_cmgr_text, sms_text>>
    /\ LET m == SmsIn(sms_text)
           replies == RepliesTo(m, sms_number)
       IN  /\ executed' = executed \cup {[from |-> sms_number, sms |-> m]}
           /\ frames' = <<[pc |-> "send", todo |-> replies, sms |-> m,
                            index |-> last_sms_index, waited |-> (replies # << >>)]>> \o frames
    /\ UNCHANGED <<toModem, modem_wait_match, modem_wait_flag, sms_number,
                   last_sms_index, modem, given, beheaded, apart>>

(* The SMS is complete: make_command, process_command.  (The line feed after *)
(* OK is read by the first wait and ends the same line again, to no effect  *)
(* because the CMGR state is closed.)                                       *)
RunSms ==
    /\ TakeLine /\ line = OK
    /\ waiting_for_cmgr_text
    /\ waiting_for_cmgr_text' = FALSE /\ sms_text' = << >>
    /\ LET m == SmsIn(sms_text)
           replies == RepliesTo(m, sms_number)
       IN  /\ executed' = executed \cup {[from |-> sms_number, sms |-> m]}
           /\ frames' = <<[pc |-> "send", todo |-> replies, sms |-> m,
                            index |-> last_sms_index, waited |-> (replies # << >>)]>> \o frames
    /\ UNCHANGED <<toModem, modem_wait_match, modem_wait_flag, sms_number,
                   last_sms_index, modem, given, beheaded, apart>>

FeedOther ==
    /\ TakeLine /\ line.is \notin {"+CMTI", "+CMGR"}
    /\ ~waiting_for_cmgr_text
    /\ UNCHANGED <<toModem, modem_wait_match, modem_wait_flag, waiting_for_cmgr_text,
                   sms_number, sms_text, last_sms_index, frames, modem, history>>

modem_feed_char == FeedPrompt \/ FeedCMTI \/ FeedHeader \/ FeedText \/ RunSms \/ FeedOther

-----------------------------------------------------------------------------
(* The innermost SMS being run *)

(* No SMS has come while an earlier one was in hand, and no wait has ended  *)
(* before the modem had answered: what the code needs to keep in step.      *)
Quiet == toModem = << >> /\ toPico = << >>
Apart(condition) == apart' = (apart /\ condition)

top == frames[1]
In(pc) == frames # << >> /\ top.pc = pc
Go(pc) == frames' = [frames EXCEPT ![1].pc = pc]

(* One modem_send_sms is over: on to the next, if there is one.             *)
SmsDone == frames' = [frames EXCEPT ![1].pc = "send", ![1].todo = Tail(@)]

(* A slip: every SMS is sent to the number of the last one received.        *)
SendCommand_ToSender ==
    /\ In("send") /\ top.todo # << >>
    /\ toModem' = Append(toModem, CMGS(sms_number))
    /\ modem_wait_match' = TRUE /\ modem_wait_flag' = FALSE
    /\ Go("prompt")
    /\ UNCHANGED <<toPico, modem_last_line, waiting_for_cmgr_text, sms_number, sms_text,
                   last_sms_index, modem, history>>

(* AT+CMGS, and the beginning of modem_wait_for(">").                       *)
SendCommand ==
    /\ In("send") /\ top.todo # << >>
    /\ toModem' = Append(toModem, CMGS(Head(top.todo)))
    /\ modem_wait_match' = TRUE /\ modem_wait_flag' = FALSE
    /\ Go("prompt")
    /\ UNCHANGED <<toPico, modem_last_line, waiting_for_cmgr_text, sms_number, sms_text,
                   last_sms_index, modem, history>>

SendText ==
    /\ In("prompt") /\ modem_wait_flag
    /\ modem_wait_match' = FALSE
    /\ toModem' = Append(toModem, Text(Head(top.todo), top.sms))
    /\ Go("result")
    /\ UNCHANGED <<toPico, modem_last_line, modem_wait_flag, waiting_for_cmgr_text,
                   sms_number, sms_text, last_sms_index, modem, history>>

(* A slip: a reply that fails ends the handling of the SMS.                 *)
NoPrompt_Abandons ==
    /\ In("prompt") /\ ~modem_wait_flag
    /\ modem_wait_match' = FALSE
    /\ frames' = Tail(frames) /\ Apart(Quiet)
    /\ UNCHANGED <<toModem, toPico, modem_last_line, modem_wait_flag, waiting_for_cmgr_text,
                   sms_number, sms_text, last_sms_index, modem, executed, given, beheaded>>

(* Five seconds without a prompt.                                           *)
NoPrompt ==
    /\ In("prompt") /\ ~modem_wait_flag
    /\ modem_wait_match' = FALSE
    /\ SmsDone /\ Apart(Quiet)
    /\ UNCHANGED <<toModem, toPico, modem_last_line, modem_wait_flag, waiting_for_cmgr_text,
                   sms_number, sms_text, last_sms_index, modem, executed, given, beheaded>>

(* The last line, whenever it came, is taken for the result.                *)
Result ==
    /\ In("result") /\ modem_last_line \in {OK, ERROR}
    /\ SmsDone
    /\ UNCHANGED <<toModem, toPico, pico, modem, history>>

(* Ten seconds without a result.                                            *)
NoResult ==
    /\ In("result") /\ modem_last_line \notin {OK, ERROR}
    /\ SmsDone /\ Apart(Quiet)
    /\ UNCHANGED <<toModem, toPico, pico, modem, executed, given, beheaded>>

(* The next line without what a wait had read of it.                        *)
Clipped(lines) ==
    {lines} \cup (IF lines = << >> \/ Head(lines) = Prompt THEN {}
                  ELSE {Tail(lines), <<Cut>> \o Tail(lines)})

(* Lines in transit, when some came while the FIFO of the UART was full: the *)
(* beginning of the first that did not fit may be joined to the end of the  *)
(* last that was lost, a header with a number that is none.                 *)
Joined(first) ==
    {<< >>, <<Cut>>} \cup
        IF first.is = "+CMGR" THEN {<<[is |-> "+CMGR", from |-> Garbled]>>} ELSE {}

Overrun(lines) ==
    {lines} \cup UNION {{SubSeq(lines, 1, FifoLines) \o j \o SubSeq(lines, k, Len(lines)) :
                            j \in Joined(lines[FifoLines + 1])} :
                        k \in FifoLines + 2 .. Len(lines) + 1}

(* What is lost takes the header of an SMS and leaves its text.             *)
Beheads(old, new) ==
    \E i \in DOMAIN new :
        /\ new[i].is = "line"
        /\ IF i = 1 THEN new[1] # old[1] ELSE new[i - 1] # Header(new[i].sms)

(* All replies sent: nothing is read for a second, the SMS is deleted, and  *)
(* modem_feed_char empties its line buffer.                                 *)
DeleteSms ==
    /\ In("send") /\ top.todo = << >>
    /\ toModem' = Append(toModem, CMGD(top.index))
    /\ frames' = Tail(frames)
    /\ toPico' \in IF ~top.waited THEN Overrun(toPico)
                  ELSE UNION {Overrun(q) : q \in Clipped(toPico)}
    /\ beheaded' = (beheaded \/ Beheads(toPico, toPico'))
    /\ UNCHANGED <<pico, modem, executed, given, apart>>

-----------------------------------------------------------------------------
(* The modem.  It answers commands in their order, each with lines that     *)
(* nothing interrupts; from the prompt on, all it gets is text until the    *)
(* CTRL+Z.                                                                  *)

command == Head(toModem)
Answer(lines) == toPico' = toPico \o lines
Handled == toModem # << >> /\ toModem' = Tail(toModem)
ModemOnly == UNCHANGED <<pico, frames, history>>

Arrive ==
    \E m \in outside, i \in {j \in Indexes : storage[j] = Empty} :
        /\ storage' = [storage EXCEPT ![i] = m]
        /\ outside' = outside \ {m}
        /\ Answer(<<CMTI(i)>>)
        /\ Apart(Quiet /\ frames = << >>)
        /\ UNCHANGED <<toModem, body, delivered, pico, frames, executed, given, beheaded>>

ReadSms ==
    /\ Handled /\ body = Closed /\ command.is = "AT+CMGR"
    /\ LET m == storage[command.index]
       IN  /\ Answer(IF m = Empty THEN <<OK>> ELSE <<Header(m), Line(m), OK>>)
           /\ given' = [n \in Messages |-> IF n = m THEN given[n] + 1 ELSE given[n]]
    /\ UNCHANGED <<modem, pico, frames, executed, beheaded, apart>>

RemoveSms ==
    /\ Handled /\ body = Closed /\ command.is = "AT+CMGD"
    /\ storage' = [i \in Indexes |-> IF i = command.index THEN Empty ELSE storage[i]]
    /\ Answer(<<OK>>)
    /\ UNCHANGED <<body, outside, delivered>> /\ ModemOnly

BeginSms ==
    /\ Handled /\ body = Closed /\ command.is = "AT+CMGS"
    /\ \/ /\ command.to # NoNumber
          /\ body' = [to |-> command.to, text |-> << >>] /\ Answer(<<Prompt>>)
       \/ UNCHANGED body /\ Answer(<<ERROR>>)
    /\ UNCHANGED <<storage, outside, delivered>> /\ ModemOnly

(* A text that no prompt was given for is no command.                       *)
RefuseText ==
    /\ Handled /\ body = Closed /\ command.is = "text"
    /\ Answer(<<ERROR>>)
    /\ UNCHANGED modem /\ ModemOnly

TakeText ==
    /\ Handled /\ body # Closed /\ command.is # "text"
    /\ body' = [body EXCEPT !.text = Append(@, command)]
    /\ UNCHANGED <<toPico, storage, outside, delivered>> /\ ModemOnly

EndSms ==
    /\ Handled /\ body # Closed /\ command.is = "text"
    /\ body' = Closed
    /\ \/ /\ delivered' = delivered \cup {[to |-> body.to, text |-> Append(body.text, command)]}
          /\ Answer(<<Sent, OK>>)
       \/ UNCHANGED delivered /\ Answer(<<ERROR>>)
    /\ UNCHANGED <<storage, outside>> /\ ModemOnly

ModemNext == ReadSms \/ RemoveSms \/ BeginSms \/ RefuseText \/ TakeText \/ EndSms

-----------------------------------------------------------------------------
Send == SendCommand \/ SendText \/ Result \/ DeleteSms

Next == modem_feed_char \/ Send \/ NoPrompt \/ NoResult \/ ModemNext \/ Arrive

Spec == Init /\ [][Next]_vars

(* The firmware and the modem go on as long as there is something to do.    *)
Fairness ==
    /\ WF_vars(modem_feed_char \/ Send \/ NoPrompt \/ NoResult)
    /\ WF_vars(ModemNext)
SpecLive == Spec /\ Fairness

-----------------------------------------------------------------------------
(* Properties *)

(* sms_number and sms_text are filled by different lines, and an SMS may be *)
(* run inside another: a command is run for the number that sent it, unless *)
(* a header was lost and the text under it was not.                         *)
RunsForSender ==
    ~beheaded => \A e \in executed, m \in Messages :
                    e.sms = m /\ From[m] # NoNumber => e.from = From[m]

Run(m) == \E e \in executed : e.sms = m

(* "eerst de CMGR-state definitief afsluiten": no SMS that was read once is  *)
(* run a second time by the lines read while it is being run.               *)
RunsOnce ==
    [][ RunSms => LET m == SmsIn(sms_text)
                  IN  m = Unknown \/ ~Run(m) \/ given[m] > 1 ]_vars

(* modem_send_sms(cmd->sender, response): the SMS a number gets is a reply  *)
(* meant for it, and nothing else, as long as the SMS's come apart.         *)
RepliesReachTheirSender ==
    apart => \A d \in delivered : \E m \in Messages \cup {Unknown} : d.text = <<Text(d.to, m)>>

(* Again and again every SMS that has come has been run, and its place in   *)
(* the storage of the SIM is free, whatever the modem answers to replies.   *)
EverySmsRuns ==
    []apart => []<>(\A m \in Messages \ outside :
                        Run(m) /\ \A i \in Indexes : storage[i] # m)
=============================================================================
