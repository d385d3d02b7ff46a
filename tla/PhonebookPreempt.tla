-------------------------- MODULE PhonebookPreempt --------------------------
(***************************************************************************)
(* One task of tasks.c run by the main loop, split where a web request can *)
(* preempt it: the queries that precede a change, the copy phonebook_load  *)
(* makes entry by entry, the change of that copy, and phonebook_save, which *)
(* copies it into a static buffer - shared with the web request - and only *)
(* then writes the sector with interrupts disabled.  A web request runs to *)
(* its end in one step.  Numbers are given normalised: the refusals before *)
(* the first query are in Phonebook.                                       *)
(***************************************************************************)
EXTENDS PhonebookImage

VARIABLES
    contents,   \* the phonebook sector
    sector,     \* phonebook_save's static buffer
    op, number, \* the task the main loop is in
    pc,         \* the function of phonebook.c it is in
    copy,       \* that function's copy of the book
    entry       \* the next entry to copy

taskVars == <<contents, sector, op, number, pc, copy, entry>>

Tasks == {"add", "delete", "promote", "demote"}

(* Each of these functions begins with phonebook_load.                      *)
Loading == {"isAdmin", "countAdmins", "change"}

TaskTypeOK ==
    /\ contents \in Image /\ sector \in Image /\ copy \in Image
    /\ op \in Tasks \cup {"none"}
    /\ number \in Numbers \cup {NoNumber}
    /\ pc \in Loading \cup {"idle", "fill", "program"}
    /\ entry \in 1 .. MAX_PHONES + 1

TaskInit ==
    /\ contents = EmptyImage
    /\ op = "none" /\ number = NoNumber /\ pc = "idle"
    /\ sector = EmptyImage /\ copy = EmptyImage /\ entry = 1

(* The task returns; its copy is gone and the buffer, which the next save   *)
(* clears first, is forgotten.                                              *)
Return ==
    /\ pc' = "idle" /\ op' = "none" /\ number' = NoNumber
    /\ sector' = EmptyImage /\ copy' = EmptyImage /\ entry' = 1
    /\ UNCHANGED contents

(* The task calls the next function, whose copy is not loaded yet.          *)
Call(function) ==
    /\ pc' = function /\ entry' = 1 /\ copy' = EmptyImage
    /\ UNCHANGED <<contents, sector, op, number>>

Begin ==
    /\ pc = "idle"
    /\ op' \in Tasks /\ number' \in Numbers
    /\ pc' = IF op' = "add" THEN "change" ELSE "isAdmin"
    /\ UNCHANGED <<contents, sector, copy, entry>>

(* memcpy of the entries, from the flash or into the buffer *)
Copied(from, to) == [to EXCEPT ![entry] = from[entry]]

phonebook_load ==
    /\ pc \in Loading /\ entry \in Slots
    /\ copy' = Copied(contents, copy) /\ entry' = entry + 1
    /\ UNCHANGED <<contents, sector, op, number, pc>>

Loaded(function) == pc = function /\ entry \notin Slots

(* phonebook_is_admin: deleting an admin and demoting need the count, a     *)
(* promotion is refused to an admin and a demotion to a user.               *)
IsAdmin ==
    /\ Loaded("isAdmin")
    /\ IF phonebook_is_admin(copy, number)
       THEN IF op = "promote" THEN Return ELSE Call("countAdmins")
       ELSE IF op = "demote" THEN Return ELSE Call("change")

CountAdmins ==
    /\ Loaded("countAdmins")
    /\ IF AtMostOneAdmin(copy) THEN Return ELSE Call("change")

(* What the task makes of its copy.  phonebook_add asks phonebook_count,    *)
(* which reads the flash again, whether this is the first number.           *)
Changed ==
    CASE op = "add" ->
            {[copy EXCEPT ![s] = [number |-> number, isAdmin |-> (Used(contents) = {})]] :
                s \in IF phonebook_exists(copy, number) THEN {} ELSE FirstOf(Free(copy))}
      [] op = "delete" -> Removed(copy, number)
      [] op = "promote" -> AdminSet(copy, number, TRUE)
      [] op = "demote" -> AdminSet(copy, number, FALSE)

(* The change, and the memset with which phonebook_save begins.             *)
Change ==
    /\ Loaded("change")
    /\ \/ Changed = {} /\ Return
       \/ /\ copy' \in Changed
          /\ pc' = "fill" /\ entry' = 1
          /\ sector' = EmptyImage
          /\ UNCHANGED <<contents, op, number>>

(* A slip: the copy stops one entry short.                                  *)
Fill_OneShort ==
    /\ pc = "fill"
    /\ sector' = IF entry = MAX_PHONES THEN sector ELSE Copied(copy, sector)
    /\ IF entry = MAX_PHONES
       THEN pc' = "program" /\ entry' = 1
       ELSE entry' = entry + 1 /\ UNCHANGED pc
    /\ UNCHANGED <<contents, op, number, copy>>

(* The memcpy into the buffer, then the erase and program, which nothing    *)
(* preempts.                                                                *)
Fill ==
    /\ pc = "fill"
    /\ sector' = Copied(copy, sector)
    /\ IF entry = MAX_PHONES
       THEN pc' = "program" /\ entry' = 1
       ELSE entry' = entry + 1 /\ UNCHANGED pc
    /\ UNCHANGED <<contents, op, number, copy>>

Program ==
    /\ pc = "program"
    /\ contents' = sector
    /\ pc' = "idle" /\ op' = "none" /\ number' = NoNumber
    /\ sector' = EmptyImage /\ copy' = EmptyImage /\ entry' = 1

(* A task run by a web request, without interruption.  Its save goes        *)
(* through the same buffer.                                                 *)
Atomically == INSTANCE Book WITH book <- contents

WebTask ==
    /\ \E n \in Numbers : contents' \in Atomically!Changes(n)
    /\ sector' = IF pc = "idle" THEN sector ELSE contents'
    /\ UNCHANGED <<op, number, pc, copy, entry>>

MainNext ==
    \/ Begin \/ phonebook_load \/ IsAdmin \/ CountAdmins
    \/ Change \/ Fill \/ Program

TaskNext == MainNext \/ WebTask

(* No web request arrives while the main loop is in a task. *)
NextUndisturbed == MainNext \/ (pc = "idle" /\ WebTask)

TaskSpec == TaskInit /\ [][TaskNext]_taskVars
SpecUndisturbed == TaskInit /\ [][NextUndisturbed]_taskVars

-----------------------------------------------------------------------------
(* Properties *)

(* As long as no web request arrives inside a task, the queries, the copy   *)
(* and the save amount to one atomic change of the book.                    *)
ImplementsBook == Atomically!Spec
=============================================================================
