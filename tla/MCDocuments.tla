---------------------------- MODULE MCDocuments ----------------------------
(* An instance of Documents for TLC: a file with text, and a blank text.    *)
EXTENDS Documents, TLC

CONSTANTS d1, d2, p1, p2

SomeFormat == [d \in Document |-> IF d = d1 THEN "text" ELSE "json"]
=============================================================================
