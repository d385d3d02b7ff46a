-------------------------------- MODULE Book --------------------------------
(***************************************************************************)
(* What the tasks of tasks.c promise about the phonebook: every change is  *)
(* one number added, removed, promoted or demoted in the book as it is at  *)
(* that moment, the first number is an admin and the last admin stays.     *)
(***************************************************************************)
EXTENDS PhonebookImage

VARIABLE book

LastAdmin(n) == phonebook_is_admin(book, n) /\ AtMostOneAdmin(book)

(* The books one task may turn the present one into: it saves none when the *)
(* number has the wanted state already.                                     *)
Changes(n) ==
    IF ~phonebook_exists(book, n) THEN Added(book, n)
    ELSE IF ~phonebook_is_admin(book, n) THEN Removed(book, n) \cup AdminSet(book, n, TRUE)
    ELSE IF LastAdmin(n) THEN {}
    ELSE Removed(book, n) \cup AdminSet(book, n, FALSE)

Init == book = EmptyImage

Next == \E n \in Numbers : book' \in Changes(n)

Spec == Init /\ [][Next]_book

(* The books that keep the promise: no number twice, an admin when in use.  *)
Sound ==
    /\ \A i, j \in Used(book) : book[i].number = book[j].number => i = j
    /\ Used(book) # {} => Admins(book) # {}
=============================================================================
