------------------------------ MODULE MCModem -------------------------------
(* The instances of Modem that TLC explores: an ordinary command, an ADD,   *)
(* which also welcomes the new number, and one of which the sender is not told. *)
EXTENDS Modem

TheMessages == {"open", "add", "call"}
TheFrom == [m \in TheMessages |-> IF m = "open" THEN "alice" ELSE IF m = "add" THEN "bob" ELSE NoNumber]
TheReplies == [m \in TheMessages |->
    IF m = "open" THEN <<"alice">> ELSE IF m = "add" THEN <<"carol", "bob">> ELSE << >>]
TheKnown == {"alice", "bob"}      \* the phonebook is full: no free entry is taken for NoNumber
=============================================================================
