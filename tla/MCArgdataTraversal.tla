------------------------- MODULE MCArgdataTraversal ------------------------
(* The containers of MCArgdataIterator for ArgdataTraversal.               *)
EXTENDS ArgdataTraversal, TLC

CONSTANTS built, buffer, e1, e2, e3

MCElement == {e1, e2, e3}

Entry(x) == [f \in Field |-> x]

MCContent == (built  :> <<Entry(e1), Entry(e1)>>) @@
             (buffer :> <<Entry(e1), Entry(e2), Entry(e3)>>)

MCOffset == [f \in Field |-> 1]
=============================================================================
