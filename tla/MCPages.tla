------------------------------- MODULE MCPages -------------------------------
(* A player, a text, an SVG and another image; one directory holds them all,  *)
(* the other two of them.  The text is longer than what is read of it.        *)
EXTENDS Pages

Sent == [p \in Page |-> IF p = "sources" THEN 3 ELSE 2]
Kinds == <<"media", "text", "svg", "png">>
Full == [n \in Names |-> IF n = 2 THEN 3 ELSE 1]
Half == [n \in Names |-> IF n \in {1, 4} THEN Absent ELSE 1]
SomeStores == {[a |-> Full, b |-> Half]}
=============================================================================
