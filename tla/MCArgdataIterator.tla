------------------------- MODULE MCArgdataIterator -------------------------
(* Small containers for ArgdataIterator: one that was built from elements, *)
(* with a key that occurs twice, one that was built with a whole entry     *)
(* twice, one that decodes a buffer, and one that is empty.                *)
EXTENDS ArgdataIterator, TLC

CONSTANTS built, twice, buffer, empty, e1, e2, e3

MCElement == {e1, e2, e3}

Entry(x, y) == [f \in Field |-> IF f = "second" THEN y ELSE x]

MCContent == [c \in Container |->
  CASE c = built  -> <<Entry(e1, e2), Entry(e1, e3), Entry(e2, e3)>>
    [] c = twice  -> <<Entry(e1, e2), Entry(e1, e2)>>
    [] c = buffer -> <<Entry(e1, e2), Entry(e2, e3), Entry(e3, e1)>>
    [] c = empty  -> <<>>]

MCOffset == [f \in Field |-> IF f = "second" THEN 2 ELSE 1]
=============================================================================
