----------------------- MODULE ArgdataTraversalProofs ----------------------
(***************************************************************************)
(* Proofs about loops over maps, and over sequences where begin() builds   *)
(* its iterator in the caller's variable.  What the body copies may be     *)
(* wrong, as copies of a seq_iterator are; the loop's own iterator is      *)
(* always right in its place, and one ahead of what the body was given.    *)
(***************************************************************************)
EXTENDS ArgdataTraversal, ArgdataIteratorProofs

BuiltInPlace == Kind = "map" \/ FALSE \notin Elision

LoopInv ==
  /\ iter = [i \in Slot |-> iter[i]]
  /\ seen \in Seq([Field -> Element])
  /\ ~Live(Loop) => seen = <<>>
  /\ Live(Loop) =>
       /\ Own(Loop, iter[Loop])
       /\ iter[Loop].it.of = Over
       /\ iter[Loop].it.pos = Len(seen) + 1
       /\ Len(seen) <= Len(Content[Over])
  /\ \A k \in 1 .. Len(seen) : seen[k] = Content[Over][k]

(* A step of the body leaves the loop's iterator alone.                    *)
LEMMA BodyKeeps ==
  ASSUME LoopInv, Body
  PROVE  LoopInv'
<1>1. iter'[Loop] = iter[Loop] /\ iter' = [i \in Slot |-> iter'[i]]
  <2>1. PICK i \in Slot \ {Loop} :
          \/ \E c \in Container : begin(i, c)
          \/ end(i) \/ destroy(i) \/ increment(i)
          \/ \E j \in Slot : copy(i, j) \/ assign(i, j)
          \/ \E j \in Slot \ {Loop} : post_increment(j, i)
    BY DEF Body
  <2>2. ASSUME NEW x, iter' = [iter EXCEPT ![i] = x]
        PROVE  iter'[Loop] = iter[Loop] /\ iter' = [k \in Slot |-> iter'[k]]
    BY <2>2, LoopAssumption DEF LoopInv
  <2>3. CASE \E c \in Container : begin(i, c)
    BY <2>2, <2>3 DEF begin
  <2>4. CASE end(i) \/ destroy(i) \/ increment(i)
    BY <2>2, <2>4 DEF end, destroy, increment
  <2>5. CASE \E j \in Slot : copy(i, j) \/ assign(i, j)
    BY <2>2, <2>5 DEF copy, assign
  <2>6. CASE \E j \in Slot \ {Loop} : post_increment(j, i)
    <3>1. PICK j \in Slot \ {Loop} : \E x : iter' = [iter EXCEPT ![j] = x, ![i] = Incremented(i, iter[i])]
      BY <2>6 DEF post_increment
    <3>2. QED
      BY <3>1, LoopAssumption DEF LoopInv
  <2>7. QED
    BY <2>1, <2>3, <2>4, <2>5, <2>6
<1>2. UNCHANGED seen
  BY DEF Body
<1>3. QED
  BY <1>1, <1>2 DEF LoopInv, Live

(* The loop starts before the first element.                               *)
LEMMA StartKeeps ==
  ASSUME BuiltInPlace, LoopInv, Start
  PROVE  LoopInv'
<1> DEFINE b == [s \in Place |-> Incremented(s, [it |-> start_it_(Over), value |-> NoValue])]
<1>1. PICK x \in Returned(Loop, b) : iter' = [iter EXCEPT ![Loop] = x]
  BY DEF Start, begin
<1>2. \A s \in Place : Own(s, b[s]) /\ b[s].it = next(start_it_(Over))
  BY BeginOwn, LoopAssumption DEF Incremented
<1> HIDE DEF b
<1>3. Own(Loop, x) /\ x.it = next(start_it_(Over))
  <2>1. CASE Kind = "map"
    BY <1>2, <2>1, ReturnedOwn, SlotFacts, LoopAssumption
  <2>2. CASE FALSE \notin Elision
    <3>1. x = b[Loop]
      BY <2>2, KindAssumption DEF Returned
    <3>2. QED
      BY <1>2, <3>1, SlotFacts, LoopAssumption
  <2>3. QED
    BY <2>1, <2>2 DEF BuiltInPlace
<1>4. next(start_it_(Over)).of = Over /\ next(start_it_(Over)).pos = 1
  <2>1. Len(Content[Over]) \in Nat
    BY ContainerAssumption, LoopAssumption
  <2>2. ~AtEnd(start_it_(Over))
    BY <2>1, ContainerAssumption, LoopAssumption DEF AtEnd, start_it_
  <2>3. QED
    BY <2>2 DEF next, start_it_
<1>5. seen' = <<>> /\ seen = <<>>
  BY DEF Start
<1>6. iter'[Loop] = x /\ iter' = [i \in Slot |-> iter'[i]]
  BY <1>1, LoopAssumption DEF LoopInv
<1>7. Len(Content[Over]) \in Nat
  BY ContainerAssumption, LoopAssumption
<1>8. QED
  BY <1>3, <1>4, <1>5, <1>6, <1>7 DEF LoopInv, Live

(* The body is given the element at the loop's position.                   *)
LEMMA IterateKeeps ==
  ASSUME LoopInv, Iterate
  PROVE  LoopInv'
<1> DEFINE it == iter[Loop].it
           y  == Incremented(Loop, iter[Loop])
<1>1. Own(Loop, iter[Loop]) /\ it \in It /\ it.of = Over /\ it.pos = Len(seen) + 1
  BY DEF LoopInv, Iterate, Own, Object
<1>2. Dereferenceable(Loop) /\ iter' = [iter EXCEPT ![Loop] = y]
  BY DEF Iterate, increment
<1>3. ~AtEnd(it) /\ Deref(Loop) = Content[Over][it.pos]
  BY <1>1, <1>2, DerefOfOwn, LoopAssumption
<1>4. /\ Content[Over] \in Seq([Field -> Element]) /\ Len(seen) \in Nat
      /\ it.pos <= Len(Content[Over])
  BY <1>1, <1>3, ContainerAssumption, LoopAssumption DEF AtEnd, LoopInv
<1>5. Own(Loop, y) /\ y.it = next(it)
  BY <1>1, IncrementedOwn, SlotFacts, LoopAssumption DEF Incremented
<1>6. next(it).of = Over /\ next(it).pos = it.pos + 1
  <2>1. it \in [of : Container, pos : Nat, store : [Field -> Element \cup {Unset}]]
    BY <1>1, <1>3 DEF It, AtEnd
  <2>2. QED
    BY <1>1, <1>3, <2>1 DEF next
<1>7. Deref(Loop) \in [Field -> Element]
  BY <1>1, <1>3, <1>4
<1>8. seen' = Append(seen, Deref(Loop))
  BY DEF Iterate
<1>9. /\ seen' \in Seq([Field -> Element]) /\ Len(seen') = Len(seen) + 1
      /\ \A k \in 1 .. Len(seen') : seen'[k] = Content[Over][k]
  BY <1>1, <1>3, <1>7, <1>8 DEF LoopInv
<1>10. iter'[Loop] = y /\ iter' = [i \in Slot |-> iter'[i]]
  BY <1>2, LoopAssumption DEF LoopInv
<1>11. y # Dead
  BY <1>5, DeadAssumption DEF Own
<1> HIDE DEF y, it
<1>12. QED
  BY <1>1, <1>4, <1>5, <1>6, <1>9, <1>10, <1>11 DEF LoopInv, Live

(* The invariant at the end of the loop and before.                        *)
LEMMA LoopInvVisits == ASSUME LoopInv PROVE VisitsInOrder
<1> DEFINE C == Content[Over]
<1>1. C \in Seq([Field -> Element]) /\ Len(C) \in Nat /\ Over # Nobody
  BY ContainerAssumption, LoopAssumption
<1>2. seen \in Seq([Field -> Element]) /\ Len(seen) \in Nat
  BY DEF LoopInv
<1>3. Len(seen) <= Len(C)
  BY <1>1 DEF LoopInv
<1>4. \A k \in 1 .. Len(seen) : seen[k] = C[k]
  BY DEF LoopInv
<1> HIDE DEF C
<1>5. seen = SubSeq(C, 1, Len(seen))
  BY <1>1, <1>2, <1>3, <1>4
<1>6. ASSUME Stopped PROVE seen = C
  <2>1. Own(Loop, iter[Loop]) /\ iter[Loop].it.of = Over /\ iter[Loop].it.pos = Len(seen) + 1
    BY <1>6 DEF Stopped, LoopInv
  <2>2. iter[Loop].value = NoValue
    BY <1>6 DEF Stopped, Default
  <2>3. AtEnd(iter[Loop].it)
    <3>1. SUFFICES ASSUME ~AtEnd(iter[Loop].it) PROVE FALSE
      OBVIOUS
    <3>2. /\ iter[Loop].value = pointers(Loop, iter[Loop].it)
          /\ \A f \in Field : pointers(Loop, iter[Loop].it)[f] # Null
      BY <2>1, <3>1, PointersType, SlotFacts, LoopAssumption DEF Own, Object
    <3>3. PICK f \in Field : TRUE
      BY DEF Field
    <3>4. QED
      BY <2>2, <3>2, <3>3 DEF NoValue
  <2>4. Len(seen) + 1 > Len(C)
    BY <1>1, <2>1, <2>3 DEF AtEnd, C
  <2>5. Len(seen) = Len(C)
    BY <1>1, <1>2, <1>3, <2>4
  <2>6. QED
    BY <1>1, <1>2, <1>4, <2>5
<1>7. QED
  BY <1>5, <1>6 DEF VisitsInOrder, C

(* A loop over a map, or over a sequence whose begin() is built in place,  *)
(* gives its body the elements in order, each once and all of them by the  *)
(* time it stops, whatever the body does with copies of its iterator.      *)
THEOREM LoopsVisitInOrder ==
  ASSUME Kind = "map" \/ FALSE \notin Elision
  PROVE  TSpec => []VisitsInOrder
<1>1. TInit => LoopInv
  BY LoopAssumption DEF TInit, Init, LoopInv, Live
<1>2. LoopInv /\ [TNext]_tvars => LoopInv'
  <2>1. ASSUME LoopInv, UNCHANGED tvars PROVE LoopInv'
    BY <2>1 DEF LoopInv, tvars, Live
  <2>2. QED
    BY <2>1, StartKeeps, IterateKeeps, BodyKeeps DEF TNext, BuiltInPlace
<1>3. QED
  BY <1>1, <1>2, LoopInvVisits, PTL DEF TSpec
=============================================================================
