--------------------------- MODULE MCAccessPoint ---------------------------
(* A short answer of JSON, and a page of two chunks.                        *)
EXTENDS AccessPoint

MCBodies == [json |-> 1, index |-> 2]
=============================================================================
