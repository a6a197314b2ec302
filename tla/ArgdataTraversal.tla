-------------------------- MODULE ArgdataTraversal -------------------------
(***************************************************************************)
(* A loop over one container, for (i = c.begin(); i != c.end(); ++i), in a *)
(* program whose loop body copies the loop's iterator and uses the copies  *)
(* and other iterators in any way, but does not write to the loop's own.   *)
(* It is what the iterators are for, and what a range-for does.            *)
(***************************************************************************)
EXTENDS ArgdataIterator

CONSTANTS Loop,   \* the slot of the loop's iterator
          Over    \* the container it goes over

ASSUME LoopAssumption == Loop \in Slot /\ Over \in Container

VARIABLE seen     \* the elements the body was given so far

tvars == <<iter, seen>>

TInit == Init /\ seen = <<>>

Start == begin(Loop, Over) /\ seen = <<>> /\ UNCHANGED seen

(* The comparison with end() that stops the loop.                          *)
Stopped == Live(Loop) /\ iter[Loop].value = Default.value

(* The body's use of *i, and ++i.  The length of seen is bounded, for the  *)
(* sake of faulty iterators only: no other goes past the last element.     *)
Iterate ==
  /\ Live(Loop) /\ ~Stopped
  /\ Len(seen) <= Len(Content[Over])
  /\ seen' = Append(seen, Deref(Loop))
  /\ increment(Loop)

Body ==
  /\ \E i \in Slot \ {Loop} :
       \/ \E c \in Container : begin(i, c)
       \/ end(i) \/ destroy(i) \/ increment(i)
       \/ \E j \in Slot : copy(i, j) \/ assign(i, j)
       \/ \E j \in Slot \ {Loop} : post_increment(j, i)
  /\ UNCHANGED seen

TNext == Start \/ Iterate \/ Body

(* The program runs on, and the body returns.                              *)
TSpec == TInit /\ [][TNext]_tvars /\ WF_tvars(Start) /\ WF_tvars(Iterate)

-----------------------------------------------------------------------------
(* The body is given each element once and in order, up to the last one,   *)
(* and what it copied from the loop's iterator does not disturb the loop.  *)
VisitsInOrder ==
  /\ seen = SubSeq(Content[Over], 1, Len(seen))
  /\ Stopped => seen = Content[Over]

(* The loop ends, having visited every element.                            *)
LoopTerminates == <>Stopped
=============================================================================
