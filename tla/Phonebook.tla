------------------------------ MODULE Phonebook ------------------------------
(***************************************************************************)
(* The phonebook in flash and everything that changes it: the commands     *)
(* INIT, ADD, DEL, PROMOTE and DEMOTE of commands.c, given over SMS, the   *)
(* serial console or the web console, the web interface's user requests    *)
(* (router.c), the tasks of tasks.c they share, and power loss.            *)
(*                                                                         *)
(* One command is one step here: this is what the commands do when none    *)
(* preempts another (PhonebookPreempt splits them).  An SMS text or query  *)
(* is a member of Texts and Norm is phone_normalize.  A buffer that a      *)
(* failed phone_normalize left alone and that is read all the same holds   *)
(* any earlier content of the stack: any number, or text without one.      *)
(***************************************************************************)
EXTENDS PhonebookImage

CONSTANTS
    Texts,       \* what may be given as a phone number
    Norm,        \* phone_normalize, Invalid where it returns false
    Invalid,
    NoDigits,    \* "console", "wifi" and stack contents that are no number
    Senders,     \* the texts the network gives as originators of an SMS
    PageSlots,   \* entries that lie entirely in the first flash page
    Erased       \* the sector between erase and program: no valid header

ASSUME PhonebookAssumption ==
    /\ Invalid \notin Numbers
    /\ Norm \in [Texts -> Numbers \cup {Invalid}]
    /\ Numbers \subseteq Texts
    /\ \A n \in Numbers : Norm[n] = n
    /\ NoDigits \in Texts /\ Norm[NoDigits] = Invalid
    /\ Senders \subseteq Texts
    /\ NoNumber \notin Texts /\ Phantom \notin Texts
    /\ PageSlots \in 1 .. MAX_PHONES - 2
    /\ Erased \notin Image

VARIABLES
    flash,       \* the phonebook sector
    power,       \* "on", or "off" after a power loss
    intact,      \* history: no save was torn since the book was last emptied
    done         \* history: the last command, its result and what it logged

vars == <<flash, power, intact, done>>

Sources == {"sms", "console", "wifi"}
Errors == {"OK", "INVALID_NUMBER", "NUMBER_ALREADY_EXISTS", "FULL",
           "NUMBER_NOT_FOUND", "LAST_ADMIN", "ALREADY_ADMIN", "NOT_ADMIN",
           "NOT_YOURSELF", "OWN_NUMBER", "DENIED", "ALREADY_INITIALIZED",
           "ONLY_VIA_SMS"}
LogEntry == [event : {"INIT", "ADD", "DEL", "PROMOTE", "DEMOTE"},
             number : Texts, status : BOOLEAN]
Command == [op : {"none", "INIT", "ADD", "DEL", "PROMOTE", "DEMOTE", "SWAP"},
            source : Sources, sender : Texts, arg : Texts]

NothingDone ==
    [cmd |-> [op |-> "none", source |-> "console", sender |-> NoDigits,
              arg |-> NoDigits],
     err |-> "OK", log |-> {}]

TypeOK ==
    /\ flash \in Image \cup {Erased}
    /\ power \in {"on", "off"}
    /\ intact \in BOOLEAN
    /\ done \in [cmd : Command, err : Errors, log : SUBSET LogEntry]
    /\ power = "on" => flash \in Image

(* A new board, or a sector of an older version: phonebook_init writes it.  *)
Init ==
    /\ flash = Erased
    /\ power = "off"
    /\ intact = TRUE
    /\ done = NothingDone

-----------------------------------------------------------------------------
(* How a command ends *)

Logged(event, number, status) ==
    [event |-> event, number |-> number, status |-> status]

Refuse(cmd, err, log) ==
    /\ done' = [cmd |-> cmd, err |-> err, log |-> log]
    /\ UNCHANGED <<flash, power, intact>>

(* The sector after a power loss between the two pages of a save: the entry *)
(* across the boundary has a true start, the others are erased bytes.       *)
Torn(pb) ==
    [i \in Slots |->
        IF i <= PageSlots THEN pb[i]
        ELSE IF i = PageSlots + 1 /\ pb[i].number = NoNumber
        THEN [number |-> NoNumber, isAdmin |-> TRUE]
        ELSE [number |-> Phantom, isAdmin |-> TRUE]]

(* phonebook_save: erase, then program; the power may fail in between. *)
Save(cmd, images, log) ==
    \E pb \in images :
        \/ /\ flash' = pb
           /\ done' = [cmd |-> cmd, err |-> "OK", log |-> log]
           /\ UNCHANGED <<power, intact>>
        \/ /\ flash' = Erased /\ intact' = TRUE
           /\ power' = "off" /\ done' = NothingDone
        \/ /\ flash' = Torn(pb) /\ intact' = FALSE
           /\ power' = "off" /\ done' = NothingDone

(* phone_normalize(dst, text) with its result ignored: what dst then holds, *)
(* anything at all when the text is not a number.                           *)
Normalized(text) ==
    IF Norm[text] = Invalid THEN Numbers \cup {NoDigits} ELSE {Norm[text]}

-----------------------------------------------------------------------------
(* tasks.c *)

(* Slip: the text is looked up as it was typed. *)
task_add_user_RawLookup(cmd, text) ==
    LET number == Norm[text]
    IN  \/ /\ number = Invalid \/ phonebook_exists(flash, text) \/ Free(flash) = {}
           /\ Refuse(cmd, "INVALID_NUMBER", {Logged("ADD", text, FALSE)})
        \/ /\ number # Invalid /\ ~phonebook_exists(flash, text)
           /\ Save(cmd, Added(flash, number), {Logged("ADD", number, TRUE)})

(* Slip: the text is logged as it was typed. *)
task_add_user_RawLog(cmd, text) ==
    LET number == Norm[text]
    IN  \/ /\ number = Invalid
           /\ Refuse(cmd, "INVALID_NUMBER", {Logged("ADD", text, FALSE)})
        \/ /\ number # Invalid /\ ~phonebook_exists(flash, number)
           /\ Save(cmd, Added(flash, number), {Logged("ADD", text, TRUE)})

task_add_user(cmd, text) ==
    LET number == Norm[text]
    IN  \/ /\ number = Invalid
           /\ Refuse(cmd, "INVALID_NUMBER", {Logged("ADD", text, FALSE)})
        \/ /\ number # Invalid /\ phonebook_exists(flash, number)
           /\ Refuse(cmd, "NUMBER_ALREADY_EXISTS", {Logged("ADD", text, FALSE)})
        \/ /\ number # Invalid /\ ~phonebook_exists(flash, number)
           /\ Free(flash) = {}
           /\ Refuse(cmd, "FULL", {Logged("ADD", text, FALSE)})
        \/ /\ number # Invalid /\ ~phonebook_exists(flash, number)
           /\ Save(cmd, Added(flash, number), {Logged("ADD", number, TRUE)})

(* Slip: the users are counted, not the administrators. *)
LastAdmin_UsersCounted(number) ==
    phonebook_is_admin(flash, number) /\ \A i, j \in Used(flash) : i = j

LastAdmin(number) == phonebook_is_admin(flash, number) /\ AtMostOneAdmin(flash)

(* Slip: nobody looks whether this is the last administrator. *)
task_delete_user_Unchecked(cmd, text, failed) ==
    LET number == Norm[text]
    IN  \/ number = Invalid /\ Refuse(cmd, "INVALID_NUMBER", failed)
        \/ /\ number # Invalid
           /\ Save(cmd, Removed(flash, number), {Logged("DEL", number, TRUE)})

(* failed: what the caller logs itself when the task returns an error. *)
task_delete_user(cmd, text, failed) ==
    LET number == Norm[text]
    IN  \/ number = Invalid /\ Refuse(cmd, "INVALID_NUMBER", failed)
        \/ /\ number # Invalid /\ LastAdmin(number)
           /\ Refuse(cmd, "LAST_ADMIN", failed)
        \/ /\ number # Invalid /\ ~phonebook_exists(flash, number)
           /\ Refuse(cmd, "NUMBER_NOT_FOUND", {Logged("DEL", number, FALSE)})
        \/ /\ number # Invalid /\ ~LastAdmin(number)
           /\ Save(cmd, Removed(flash, number), {Logged("DEL", number, TRUE)})

task_promote_user(cmd, text) ==
    LET number == Norm[text]
    IN  \/ number = Invalid /\ Refuse(cmd, "INVALID_NUMBER", {})
        \/ /\ number # Invalid /\ phonebook_is_admin(flash, number)
           /\ Refuse(cmd, "ALREADY_ADMIN", {})
        \/ /\ number # Invalid /\ ~phonebook_exists(flash, number)
           /\ Refuse(cmd, "NUMBER_NOT_FOUND", {Logged("PROMOTE", number, FALSE)})
        \/ /\ number # Invalid /\ ~phonebook_is_admin(flash, number)
           /\ Save(cmd, AdminSet(flash, number, TRUE),
                   {Logged("PROMOTE", number, TRUE)})

task_demote_user(cmd, text) ==
    \E sender \in Normalized(cmd.sender) :
        LET number == Norm[text]
            other == number # Invalid /\ number # sender
        IN  \/ number = Invalid /\ Refuse(cmd, "INVALID_NUMBER", {})
            \/ /\ number # Invalid /\ number = sender
               /\ Refuse(cmd, "NOT_YOURSELF", {})
            \/ /\ other /\ ~phonebook_is_admin(flash, number)
               /\ Refuse(cmd, "NOT_ADMIN", {})
            \/ /\ other /\ LastAdmin(number)
               /\ Refuse(cmd, "LAST_ADMIN", {})
            \/ /\ other /\ phonebook_is_admin(flash, number) /\ ~LastAdmin(number)
               /\ Save(cmd, AdminSet(flash, number, FALSE),
                       {Logged("DEMOTE", number, TRUE)})

task_swap_admin(cmd, text) ==
    LET number == Norm[text]
    IN  \/ number = Invalid /\ Refuse(cmd, "INVALID_NUMBER", {})
        \/ /\ number # Invalid /\ phonebook_is_admin(flash, number)
           /\ task_demote_user(cmd, number)
        \/ /\ number # Invalid /\ ~phonebook_is_admin(flash, number)
           /\ task_promote_user(cmd, number)

-----------------------------------------------------------------------------
(* commands.c *)

(* Slip: the level of the command is not looked at. *)
command_allowed_AnyUser(cmd) ==
    \/ cmd.op = "INIT"
    \/ cmd.source \in {"console", "wifi"}
    \/ phonebook_exists(flash, cmd.sender)

(* command_allowed for the five commands, all of CMD_LEVEL_ADMIN. *)
command_allowed(cmd) ==
    \/ cmd.op = "INIT"
    \/ cmd.source \in {"console", "wifi"}
    \/ phonebook_exists(flash, cmd.sender) /\ phonebook_is_admin(flash, cmd.sender)

cmd_init(cmd) ==
    LET number == Norm[cmd.sender]
    IN  \/ cmd.source # "sms" /\ Refuse(cmd, "ONLY_VIA_SMS", {})
        \/ /\ cmd.source = "sms" /\ Used(flash) # {}
           /\ Refuse(cmd, "ALREADY_INITIALIZED", {})
        \/ /\ cmd.source = "sms" /\ Used(flash) = {} /\ number = Invalid
           /\ Refuse(cmd, "INVALID_NUMBER", {Logged("INIT", cmd.sender, FALSE)})
        \/ /\ cmd.source = "sms" /\ Used(flash) = {} /\ number # Invalid
           /\ Save(cmd, Added(flash, number), {Logged("INIT", number, TRUE)})

(* Slip: the argument is compared as it was typed. *)
cmd_del_RawCompare(cmd) ==
    \E number \in Normalized(cmd.arg) :
        LET own == cmd.source = "sms" /\ cmd.arg = cmd.sender
        IN  \/ own /\ Refuse(cmd, "OWN_NUMBER", {})
            \/ /\ ~own
               /\ task_delete_user(cmd, number, {Logged("DEL", number, FALSE)})

(* The results of both phone_normalize calls are ignored. *)
cmd_del(cmd) ==
    \E number \in Normalized(cmd.arg), sender \in Normalized(cmd.sender) :
        LET own == cmd.source = "sms" /\ number = sender
        IN  \/ own /\ Refuse(cmd, "OWN_NUMBER", {})
            \/ /\ ~own
               /\ task_delete_user(cmd, number, {Logged("DEL", number, FALSE)})

process_command(cmd) ==
    \/ ~command_allowed(cmd) /\ Refuse(cmd, "DENIED", {})
    \/ /\ command_allowed(cmd)
       /\ \/ cmd.op = "INIT" /\ cmd_init(cmd)
          \/ cmd.op = "ADD" /\ task_add_user(cmd, cmd.arg)
          \/ cmd.op = "DEL" /\ cmd_del(cmd)
          \/ cmd.op = "PROMOTE" /\ task_promote_user(cmd, cmd.arg)
          \/ cmd.op = "DEMOTE" /\ task_demote_user(cmd, cmd.arg)

(* make_command: a line of the console or the web page, or an SMS. *)
Typed(op, source, sender, arg) ==
    [op |-> op, source |-> source, sender |-> sender, arg |-> arg]

CommandGiven ==
    /\ power = "on"
    /\ \E op \in {"INIT", "ADD", "DEL", "PROMOTE", "DEMOTE"}, arg \in Texts :
        \/ \E sender \in Senders : process_command(Typed(op, "sms", sender, arg))
        \/ \E source \in {"console", "wifi"} :
               process_command(Typed(op, source, NoDigits, arg))

(* router.c: /users/add, /users/del and /users/adm call the tasks directly. *)
WebRequest ==
    /\ power = "on"
    /\ \E nr \in Texts :
        \/ task_add_user(Typed("ADD", "wifi", NoDigits, nr), nr)
        \/ task_delete_user(Typed("DEL", "wifi", NoDigits, nr), nr, {})
        \/ task_swap_admin(Typed("SWAP", "wifi", NoDigits, nr), nr)

(* The power fails between commands. *)
PowerLoss ==
    /\ power = "on" /\ power' = "off"
    /\ done' = NothingDone
    /\ UNCHANGED <<flash, intact>>

(* Slip: an invalid sector is left as it is. *)
Boot_NoInit == power = "off" /\ power' = "on" /\ UNCHANGED <<flash, intact, done>>

(* main() after a reset: phonebook_init replaces an invalid sector, a save  *)
(* that the power may interrupt as well.                                    *)
Boot ==
    /\ power = "off"
    /\ \/ /\ flash # Erased
          /\ power' = "on" /\ UNCHANGED <<flash, intact>>
       \/ /\ flash = Erased
          /\ power' = "on" /\ flash' = EmptyImage /\ UNCHANGED intact
       \/ /\ flash = Erased
          /\ flash' = Torn(EmptyImage) /\ intact' = FALSE /\ UNCHANGED power
    /\ UNCHANGED done

Next == CommandGiven \/ WebRequest \/ PowerLoss \/ Boot

Spec == Init /\ [][Next]_vars

-----------------------------------------------------------------------------
(* Properties *)

(* A step that is the completion of a command, and what it did. *)
Completed == power = "on" /\ power' = "on"
EntryOf(pb, n) == {pb[i] : i \in SlotsOf(pb, n)}

(* phonebook_add looks for the number before it takes a free entry: no      *)
(* number is in the book twice, so the first match of the other functions   *)
(* is the only one.                                                         *)
UniqueNumbers ==
    power = "on" =>
        \A i, j \in Slots :
            flash[i].number = flash[j].number /\ flash[i].number \in Numbers => i = j

(* task_delete_user, task_demote_user and the first number's admin right:   *)
(* a book that is in use has an administrator, so INIT's refusal locks      *)
(* nobody out - unless a power loss tore a save between its two pages.      *)
AdminExists ==
    power = "on" /\ intact /\ Used(flash) # {}
        => \E i \in Admins(flash) : flash[i].number \in Numbers

(* Once initialised, no sequence of commands empties the book again (and    *)
(* so reopens INIT to the next sender); only a power loss can.              *)
NeverEmptied == [][Completed /\ Used(flash) # {} => Used(flash)' # {}]_vars

(* command_allowed: an SMS changes the book only when its sender is an      *)
(* admin before the change, or initialises an empty book.                   *)
OnlyAuthorised ==
    [][ Completed /\ flash' # flash /\ done'.cmd.source = "sms" =>
            \/ Used(flash) = {} /\ done'.cmd.op = "INIT"
            \/ \E i \in Admins(flash) : flash[i].number = done'.cmd.sender ]_vars

(* commands.c and tasks.c refuse it: nobody deletes or demotes themselves   *)
(* by SMS, whatever the uninitialised buffers hold.                         *)
NotOneself ==
    [][ Completed /\ done'.cmd.source = "sms" /\ done'.cmd.op # "INIT"
            /\ phonebook_exists(flash, done'.cmd.sender)
            => EntryOf(flash', done'.cmd.sender) = EntryOf(flash, done'.cmd.sender) ]_vars

(* Every entry that is added, removed or changes its right is in the event  *)
(* log under its own number, as a success.                                  *)
AuditTrail ==
    [][ Completed => \A n \in Numbers :
            EntryOf(flash, n) # EntryOf(flash', n)
                => \E e \in done'.log : e.number = n /\ e.status ]_vars
=============================================================================
