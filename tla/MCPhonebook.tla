---------------------------- MODULE MCPhonebook ----------------------------
(* Two phone numbers, of which a also has a national spelling, a text that  *)
(* is no number, and a book of two or three entries.                        *)
EXTENDS Phonebook

CONSTANTS a, b, c, aNational

MCNumbers == {a, b, c}
MCTexts == MCNumbers \cup {aNational, NoDigits}
MCNorm == [t \in MCTexts |->
            CASE t = aNational -> a [] t = NoDigits -> Invalid [] OTHER -> t]
MCSenders == MCNumbers \cup {aNational}
=============================================================================
