--------------------------- MODULE PhonebookImage ---------------------------
(***************************************************************************)
(* The phonebook_t of src/phonebook.c as a value: MAX_PHONES entries, and  *)
(* what its functions compute from a loaded copy.  A number is a           *)
(* normalised text (+CCNUMBER); the 0xFF bytes of an erased page read as   *)
(* the number Phantom with the admin byte set.                             *)
(***************************************************************************)
EXTENDS Naturals

CONSTANTS
    MAX_PHONES,
    Numbers,             \* what phone_normalize can answer
    NoNumber,            \* number[0] = 0: the entry is free
    Phantom

ASSUME ImageAssumption ==
    /\ MAX_PHONES \in Nat \ {0}
    /\ NoNumber \notin Numbers /\ Phantom \notin Numbers /\ NoNumber # Phantom

Slots == 1 .. MAX_PHONES
Entry == [number : Numbers \cup {NoNumber, Phantom}, isAdmin : BOOLEAN]
Image == [Slots -> Entry]

FreeEntry == [number |-> NoNumber, isAdmin |-> FALSE]
EmptyImage == [i \in Slots |-> FreeEntry]

(* The loops over the entries stop at the first one that fits. *)
FirstOf(S) == {i \in S : \A j \in S : i <= j}

Free(pb) == {i \in Slots : pb[i].number = NoNumber}
Used(pb) == {i \in Slots : pb[i].number # NoNumber}
Admins(pb) == {i \in Used(pb) : pb[i].isAdmin}
SlotsOf(pb, n) == {i \in Slots : pb[i].number = n}

phonebook_exists(pb, n) == SlotsOf(pb, n) # {}
phonebook_is_admin(pb, n) == \E i \in FirstOf(SlotsOf(pb, n)) : pb[i].isAdmin

(* phonebook_count_admins() <= 1 *)
AtMostOneAdmin(pb) == \A i, j \in Admins(pb) : i = j

(* The images phonebook_add, phonebook_remove and phonebook_set_admin save: *)
(* none when they find no entry.  The first number becomes an admin.        *)
Added(pb, n) ==
    {[pb EXCEPT ![i] = [number |-> n, isAdmin |-> (Used(pb) = {})]] :
        i \in FirstOf(Free(pb))}

Removed(pb, n) ==
    {[pb EXCEPT ![i] = FreeEntry] : i \in FirstOf(SlotsOf(pb, n))}

AdminSet(pb, n, isAdmin) ==
    {[pb EXCEPT ![i].isAdmin = isAdmin] : i \in FirstOf(SlotsOf(pb, n))}
=============================================================================
