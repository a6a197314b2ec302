----------------------- MODULE ArgdataIteratorProofs -----------------------
(***************************************************************************)
(* Proofs about the map_iterator of ArgdataIterator, for any containers,   *)
(* elements, slots and builds.  The invariant says of each object, given   *)
(* the place it lives in, that its pointers are the ones the library would *)
(* hand out there for its position.                                        *)
(***************************************************************************)
EXTENDS ArgdataIterator, TLAPS

Own(i, x) ==
  /\ x \in Object
  /\ AtEnd(x.it) => x.value = NoValue
  /\ ~AtEnd(x.it) => /\ x.it.pos > 0
                     /\ x.value = pointers(i, x.it)
                     /\ x.it.of \in Decoded => x.it.store = Content[x.it.of][x.it.pos]

IInv ==
  /\ iter \in [Slot -> Object \cup {Dead}]
  /\ \A i \in Slot : Live(i) => Own(i, iter[i])

(* The element at a position that is not past the end.                     *)
LEMMA ElementFacts ==
  ASSUME NEW it \in It, ~AtEnd(it), it.pos > 0
  PROVE  /\ it.of \in Container
         /\ Content[it.of][it.pos] \in [Field -> Element]
<1>1. it.of \in Container /\ it.pos \in Nat /\ it.pos <= Len(Content[it.of])
  BY DEF It, AtEnd
<1>2. Content[it.of] \in Seq([Field -> Element])
  BY <1>1, ContainerAssumption
<1>3. it.pos \in 1..Len(Content[it.of])
  BY <1>1, <1>2
<1>4. QED
  BY <1>1, <1>2, <1>3

(* What the library hands out has the right type and is never null.        *)
LEMMA PointersType ==
  ASSUME NEW i \in Place, NEW it \in It, ~AtEnd(it), it.pos > 0
  PROVE  /\ pointers(i, it) \in [Field -> Element \cup Inner \cup {Null}]
         /\ \A f \in Field : pointers(i, it)[f] # Null
<1>1. Content[it.of][it.pos] \in [Field -> Element]
  BY ElementFacts
<1>2. \A f \in Field : <<i, f>> \in Inner
  BY DEF Inner
<1>3. QED
  BY <1>1, <1>2, PointerAssumption DEF pointers

(* A step of the library stays in the same container and decodes where it  *)
(* arrives.                                                                *)
LEMMA NextFacts ==
  ASSUME NEW it \in It
  PROVE  /\ next(it) \in It
         /\ next(it).of = it.of
         /\ ~AtEnd(next(it)) => /\ next(it).pos > 0
                                /\ it.of \in Decoded =>
                                     next(it).store = Content[it.of][next(it).pos]
<1> DEFINE there == [it EXCEPT !.pos = IF AtEnd(it) THEN @ ELSE @ + 1]
<1>1. /\ there \in It /\ there.of = it.of /\ there.store = it.store
      /\ ~AtEnd(there) => there.pos > 0
  <2>1. CASE AtEnd(it)
    <3>1. there = it
      BY <2>1 DEF It
    <3>2. QED
      BY <2>1, <3>1
  <2>2. CASE ~AtEnd(it)
    <3>1. it \in [of : Container, pos : Nat, store : [Field -> Element \cup {Unset}]]
      BY <2>2 DEF It, AtEnd
    <3>2. QED
      BY <2>2, <3>1 DEF It
  <2>3. QED
    BY <2>1, <2>2
<1> HIDE DEF there
<1>2. CASE it.of \in Decoded /\ ~AtEnd(there)
  <2>1. next(it) = [there EXCEPT !.store = Content[it.of][there.pos]]
    BY <1>2 DEF next, there
  <2>2. there \in [of : Container, pos : Nat, store : [Field -> Element \cup {Unset}]]
    BY <1>1, <1>2 DEF It, AtEnd
  <2>3. Content[it.of][there.pos] \in [Field -> Element]
    BY <1>1, <1>2, ElementFacts
  <2>4. next(it) \in It /\ next(it).of = it.of /\ next(it).pos = there.pos
    BY <1>1, <2>1, <2>2, <2>3 DEF It
  <2>5. next(it).store = Content[it.of][there.pos]
    BY <2>1, <2>2
  <2>6. QED
    BY <1>1, <1>2, <2>4, <2>5
<1>3. CASE ~(it.of \in Decoded /\ ~AtEnd(there))
  <2>1. next(it) = there
    BY <1>3 DEF next, there
  <2>2. QED
    BY <1>1, <1>3, <2>1
<1>4. QED
  BY <1>2, <1>3

(* What operator++ and begin() leave behind is in order in its place.      *)
LEMMA IncrementedOwn ==
  ASSUME NEW i \in Place, NEW x, x.it \in It
  PROVE  Own(i, Incremented(i, x))
<1> DEFINE it == next(x.it)
           y  == Incremented(i, x)
<1>1. y = [it |-> it, value |-> IF AtEnd(it) THEN NoValue ELSE pointers(i, it)]
  BY DEF Incremented
<1>2. /\ it \in It
      /\ ~AtEnd(it) => /\ it.pos > 0
                       /\ it.of \in Decoded => it.store = Content[it.of][it.pos]
  BY NextFacts
<1> HIDE DEF it, y
<1>3. NoValue \in [Field -> Element \cup Inner \cup {Null}]
  BY DEF NoValue
<1>4. y \in Object
  BY <1>1, <1>2, <1>3, PointersType DEF Object
<1>5. Own(i, y)
  BY <1>1, <1>2, <1>4 DEF Own
<1>6. QED
  BY <1>5 DEF y

(* operator= makes of an object that is in order in its place one that is  *)
(* in order in another: every pointer into the old place is relocated.     *)
LEMMA AssignedOwn ==
  ASSUME NEW i \in Place, NEW j \in Place, NEW x, Own(j, x)
  PROVE  Own(i, Assigned(i, x, j)) /\ Assigned(i, x, j).it = x.it
<1> DEFINE y == Assigned(i, x, j)
<1>1. x \in Object /\ x.it \in It
  BY DEF Own, Object
<1>2. /\ y.it = x.it
      /\ y.value = [f \in Field |-> IF Inside(x.value[f], j) THEN <<i, x.value[f][2]>>
                                                             ELSE x.value[f]]
      /\ y = [it |-> y.it, value |-> y.value]
  BY <1>1 DEF Assigned, Object
<1>3. CASE AtEnd(x.it)
  <2>1. \A f \in Field : x.value[f] = Null /\ ~Inside(Null, j)
    BY <1>3, PointerAssumption DEF Own, NoValue, Inside, Inner
  <2>2. y.value = NoValue
    BY <1>2, <2>1 DEF NoValue
  <2>3. y \in Object
    BY <1>1, <1>2, <2>2 DEF Object, NoValue
  <2> HIDE DEF y
  <2>4. Own(i, y)
    BY <1>2, <1>3, <2>2, <2>3 DEF Own
  <2>5. QED
    BY <1>2, <2>4 DEF y
<1>4. CASE ~AtEnd(x.it)
  <2>1. x.it.pos > 0 /\ x.value = pointers(j, x.it)
    BY <1>4 DEF Own
  <2>2. Content[x.it.of][x.it.pos] \in [Field -> Element]
    BY <1>1, <1>4, <2>1, ElementFacts
  <2>3. ASSUME NEW f \in Field PROVE y.value[f] = pointers(i, x.it)[f]
    <3>1. CASE x.it.of \in Decoded
      <4>1. x.value[f] = <<j, f>> /\ pointers(i, x.it)[f] = <<i, f>>
        BY <2>1, <3>1 DEF pointers
      <4>2. Inside(x.value[f], j) /\ x.value[f][2] = f
        BY <4>1, OffsetAssumption DEF Inside
      <4>3. QED
        BY <1>2, <4>1, <4>2
    <3>2. CASE x.it.of \notin Decoded
      <4>1. x.value[f] = Content[x.it.of][x.it.pos][f] /\ pointers(i, x.it)[f] = x.value[f]
        BY <2>1, <3>2 DEF pointers
      <4>2. x.value[f] \in Element
        BY <2>2, <4>1
      <4>3. ~Inside(x.value[f], j)
        BY <4>2, PointerAssumption DEF Inside, Inner
      <4>4. QED
        BY <1>2, <4>1, <4>3
    <3>3. QED
      BY <3>1, <3>2
  <2>4. y.value = pointers(i, x.it)
    BY <1>2, <2>3 DEF pointers
  <2>5. y \in Object
    BY <1>1, <1>2, <1>4, <2>1, <2>4, PointersType DEF Object
  <2> HIDE DEF y
  <2>6. Own(i, y)
    BY <1>2, <1>4, <2>1, <2>4, <2>5 DEF Own
  <2>7. QED
    BY <1>2, <2>6 DEF y
<1>5. QED
  BY <1>3, <1>4

(* What a map_iterator returned by value is built from, it is, in place i. *)
LEMMA ReturnedOwn ==
  ASSUME Kind = "map", NEW i \in Place, NEW built,
         \A s \in Place : Own(s, built[s]),
         NEW it, \A s \in Place : built[s].it = it,
         NEW x \in Returned(i, built)
  PROVE  Own(i, x) /\ x.it = it
<1>1. Frame \in Place
  BY DEF Place
<1>2. CASE x = built[i]
  BY <1>2
<1>3. CASE x = CopyConstructed(i, built[Frame], Frame)
  <2>1. Own(Frame, built[Frame]) /\ built[Frame].it = it
    BY <1>1
  <2>2. LET y == Assigned(i, built[Frame], Frame) IN Own(i, y) /\ y.it = built[Frame].it
    BY <1>1, <2>1, AssignedOwn
  <2>3. QED
    BY <1>3, <2>1, <2>2 DEF CopyConstructed
<1>4. QED
  BY <1>2, <1>3 DEF Returned

(* A default constructed iterator is right in any place.                   *)
LEMMA DefaultOwn == ASSUME NEW i \in Place PROVE Own(i, Default)
BY DEF Own, Default, Object, It, AtEnd, NoValue, NotStored

(* Operators of Own's terms for one slot and for two.                      *)
(* A step that puts a right object, or nothing, into one slot.             *)
LEMMA OneSlot ==
  ASSUME IInv, NEW i \in Slot, NEW x, x = Dead \/ Own(i, x),
         iter' = [iter EXCEPT ![i] = x]
  PROVE  IInv'
BY DEF IInv, Own, Live

(* A step that puts right objects into two slots.                          *)
LEMMA TwoSlots ==
  ASSUME IInv, NEW i \in Slot, NEW x, Own(i, x), NEW j \in Slot, NEW y, Own(j, y),
         iter' = [iter EXCEPT ![i] = x, ![j] = y]
  PROVE  IInv'
BY DEF IInv, Own, Live

(* A slot is a place where the operators on objects apply.                 *)
LEMMA SlotFacts == \A i \in Slot : i \in Place
BY DEF Place

(* What the invariant says of a live iterator.                             *)
LEMMA LiveOwn ==
  ASSUME IInv, NEW i \in Slot, Live(i)
  PROVE  Own(i, iter[i]) /\ iter[i] \in Object /\ iter[i].it \in It
BY DEF IInv, Own, Object

(* What begin(c) builds in each place.                                     *)
LEMMA BeginOwn ==
  ASSUME NEW c \in Container, NEW s \in Place
  PROVE  Own(s, Incremented(s, [it |-> start_it_(c), value |-> NoValue]))
<1> DEFINE x == [it |-> start_it_(c), value |-> NoValue]
<1>1. x.it \in It
  BY DEF start_it_, It, NotStored
<1> HIDE DEF x
<1>2. Own(s, Incremented(s, x))
  BY <1>1, IncrementedOwn
<1>3. QED
  BY <1>2 DEF x

(* begin keeps the invariant, elided or not.                               *)
LEMMA BeginStep ==
  ASSUME Kind = "map", IInv, NEW i \in Slot, NEW c \in Container, begin(i, c)
  PROVE  IInv'
<1> DEFINE b == [s \in Place |-> Incremented(s, [it |-> start_it_(c), value |-> NoValue])]
<1>1. PICK x \in Returned(i, b) : iter' = [iter EXCEPT ![i] = x]
  BY DEF begin
<1>2. \A s \in Place : Own(s, b[s]) /\ b[s].it = next(start_it_(c))
  BY BeginOwn DEF Incremented
<1> HIDE DEF b
<1>3. Own(i, x)
  BY <1>2, ReturnedOwn, SlotFacts
<1>4. QED
  BY <1>1, <1>3, OneSlot

(* operator++(int) keeps the invariant for the copy and the original.      *)
LEMMA PostIncrementStep ==
  ASSUME Kind = "map", IInv, NEW i \in Slot, NEW j \in Slot, post_increment(j, i)
  PROVE  IInv'
<1> DEFINE b == [s \in Place |-> CopyConstructed(s, iter[i], i)]
<1>1. PICK x \in Returned(j, b) : iter' = [iter EXCEPT ![j] = x, ![i] = Incremented(i, iter[i])]
  BY DEF post_increment
<1>2. Own(i, iter[i]) /\ iter[i].it \in It
  BY LiveOwn DEF post_increment, Dereferenceable
<1>3. \A s \in Place : Own(s, b[s]) /\ b[s].it = iter[i].it
  BY <1>2, AssignedOwn, SlotFacts DEF CopyConstructed
<1> HIDE DEF b
<1>4. Own(j, x)
  BY <1>3, ReturnedOwn, SlotFacts
<1>5. Own(i, Incremented(i, iter[i]))
  BY <1>2, IncrementedOwn, SlotFacts
<1>6. QED
  BY <1>1, <1>4, <1>5, TwoSlots

(* Every call keeps the invariant.                                         *)
LEMMA NextInv ==
  ASSUME Kind = "map", IInv, [Next]_iter
  PROVE  IInv'
<1>1. CASE UNCHANGED iter
  BY <1>1 DEF IInv, Live
<1>2. ASSUME NEW i \in Slot, NEW c \in Container, begin(i, c) PROVE IInv'
  BY <1>2, BeginStep
<1>3. ASSUME NEW i \in Slot, end(i) PROVE IInv'
  BY <1>3, DefaultOwn, SlotFacts, OneSlot DEF end
<1>4. ASSUME NEW i \in Slot, destroy(i) PROVE IInv'
  BY <1>4, OneSlot DEF destroy
<1>5. ASSUME NEW i \in Slot, increment(i) PROVE IInv'
  <2>1. iter[i].it \in It
    BY <1>5, LiveOwn DEF increment, Dereferenceable
  <2>2. Own(i, Incremented(i, iter[i]))
    BY <2>1, IncrementedOwn, SlotFacts
  <2>3. QED
    BY <1>5, <2>2, OneSlot DEF increment
<1>6. ASSUME NEW i \in Slot, NEW j \in Slot, copy(j, i) \/ assign(j, i) PROVE IInv'
  <2>1. Own(i, iter[i])
    BY <1>6, LiveOwn DEF copy, assign
  <2>2. Own(j, Assigned(j, iter[i], i))
    BY <2>1, AssignedOwn, SlotFacts
  <2>3. QED
    BY <1>6, <2>2, OneSlot DEF copy, assign, CopyConstructed
<1>7. ASSUME NEW i \in Slot, NEW j \in Slot, post_increment(j, i) PROVE IInv'
  BY <1>7, PostIncrementStep
<1>8. QED
  BY <1>1, <1>2, <1>3, <1>4, <1>5, <1>6, <1>7 DEF Next

(* A program starts without iterators.                                     *)
LEMMA InitInv == Init => IInv
BY DEF Init, IInv, Live

(* The invariant holds of every program that uses map iterators.           *)
LEMMA Invariant == ASSUME Kind = "map" PROVE Spec => []IInv
<1>1. IInv /\ [Next]_iter => IInv'
  BY NextInv
<1>2. QED
  BY <1>1, InitInv, PTL DEF Spec

(* A right object that is not null is not past the end, and its pointers   *)
(* lead to the element at its position: the container's own, or the one in *)
(* its storage.                                                            *)
LEMMA DerefOfOwn ==
  ASSUME NEW i \in Slot, Dereferenceable(i), Own(i, iter[i])
  PROVE  /\ ~AtEnd(iter[i].it)
         /\ Deref(i) = Content[iter[i].it.of][iter[i].it.pos]
<1> DEFINE it == iter[i].it
<1>1. it \in It /\ Live(i)
  BY DEF Own, Object, Dereferenceable
<1>2. ~AtEnd(it)
  BY <1>1 DEF Own, Dereferenceable
<1>3. /\ it.pos > 0 /\ iter[i].value = pointers(i, it)
      /\ it.of \in Decoded => it.store = Content[it.of][it.pos]
  BY <1>1, <1>2 DEF Own
<1>4. Content[it.of][it.pos] \in [Field -> Element]
  BY <1>1, <1>2, <1>3, ElementFacts
<1>5. ASSUME NEW f \in Field PROVE Deref(i)[f] = Content[it.of][it.pos][f]
  <2>1. Deref(i)[f] = Target(iter[i].value[f])
    BY DEF Deref
  <2>2. CASE it.of \in Decoded
    <3>1. iter[i].value[f] = <<i, f>> /\ <<i, f>> \in Inner
      BY <1>3, <2>2, SlotFacts DEF pointers, Inner
    <3>2. Target(<<i, f>>) = it.store[f]
      BY <1>1, <3>1, PointerAssumption DEF Target, Live
    <3>3. QED
      BY <1>3, <2>1, <2>2, <3>1, <3>2
  <2>3. CASE it.of \notin Decoded
    <3>1. iter[i].value[f] = Content[it.of][it.pos][f]
      BY <1>3, <2>3 DEF pointers
    <3>2. iter[i].value[f] \notin Inner
      BY <1>4, <3>1, PointerAssumption
    <3>3. QED
      BY <2>1, <3>1, <3>2 DEF Target
  <2>4. QED
    BY <2>2, <2>3
<1>6. Deref(i) = Content[it.of][it.pos]
  BY <1>4, <1>5 DEF Deref
<1>7. QED
  BY <1>2, <1>6

(* So under the invariant every dereferenceable iterator is.               *)
LEMMA DerefOwn ==
  ASSUME IInv, NEW i \in Slot, Dereferenceable(i)
  PROVE  /\ ~AtEnd(iter[i].it)
         /\ Deref(i) = Content[iter[i].it.of][iter[i].it.pos]
<1>1. Own(i, iter[i])
  BY LiveOwn DEF Dereferenceable
<1>2. QED
  BY <1>1, DerefOfOwn

(* The pointers of a right object that lead into storage lead into its     *)
(* own.                                                                    *)
LEMMA InvSelfContained == ASSUME IInv PROVE SelfContained
<1> SUFFICES ASSUME NEW i \in Slot, Live(i), NEW f \in Field, iter[i].value[f] \in Inner
             PROVE  iter[i].value[f][1] = i
  BY DEF SelfContained
<1> DEFINE it == iter[i].it
<1>1. Own(i, iter[i]) /\ it \in It
  BY LiveOwn
<1>2. ~AtEnd(it)
  BY <1>1, PointerAssumption DEF Own, NoValue
<1>3. it.pos > 0 /\ iter[i].value = pointers(i, it)
  BY <1>1, <1>2 DEF Own
<1>4. Content[it.of][it.pos] \in [Field -> Element]
  BY <1>1, <1>2, <1>3, ElementFacts
<1>5. CASE it.of \in Decoded
  BY <1>3, <1>5 DEF pointers
<1>6. CASE it.of \notin Decoded
  BY <1>3, <1>4, <1>6, PointerAssumption DEF pointers
<1>7. QED
  BY <1>5, <1>6

(* A right object is past the end exactly if it compares equal to the      *)
(* default constructed one.                                                *)
LEMMA InvLoopTest == ASSUME IInv PROVE LoopTestIsRight
<1>1. ASSUME NEW i \in Slot, Live(i)
      PROVE  AtEnd(iter[i].it) <=> iter[i].value = NoValue
  <2>1. Own(i, iter[i]) /\ iter[i].it \in It
    BY <1>1, LiveOwn
  <2>2. ASSUME ~AtEnd(iter[i].it) PROVE iter[i].value # NoValue
    <3>1. /\ iter[i].value = pointers(i, iter[i].it)
          /\ \A f \in Field : pointers(i, iter[i].it)[f] # Null
      BY <2>1, <2>2, PointersType, SlotFacts DEF Own
    <3>2. PICK f \in Field : TRUE
      BY DEF Field
    <3>3. QED
      BY <3>1, <3>2 DEF NoValue
  <2>3. QED
    BY <2>1, <2>2 DEF Own
<1>2. QED
  BY <1>1 DEF LoopTestIsRight, Equal

(* Every variable holds a whole object or nothing.                         *)
THEOREM MapTypeCorrect == ASSUME Kind = "map" PROVE Spec => []TypeOK
<1>1. IInv => TypeOK
  BY DEF IInv, TypeOK
<1>2. QED
  BY <1>1, Invariant, PTL

(* A map_iterator never points into another iterator, so that none can be  *)
(* left dangling when another one is destroyed or moves on.                *)
THEOREM MapSelfContained == ASSUME Kind = "map" PROVE Spec => []SelfContained
BY Invariant, InvSelfContained, PTL

(* Whatever is copied, assigned, incremented and destroyed around it, a    *)
(* map_iterator yields the element at its own position.                    *)
THEOREM MapYieldsOwnElement == ASSUME Kind = "map" PROVE Spec => []YieldsOwnElement
<1>1. IInv => YieldsOwnElement
  BY DerefOwn DEF YieldsOwnElement
<1>2. QED
  BY <1>1, Invariant, PTL

(* A loop over a map that compares with end() stops exactly at the end.    *)
THEOREM MapLoopTestIsRight == ASSUME Kind = "map" PROVE Spec => []LoopTestIsRight
BY Invariant, InvLoopTest, PTL

(* An iterator over a built container that has a value is at an entry.     *)
LEMMA BuiltPosition ==
  ASSUME IInv, NEW i \in Slot, Built(i)
  PROVE  iter[i].it.pos \in DOMAIN Content[iter[i].it.of]
<1> DEFINE it == iter[i].it
<1>1. Own(i, iter[i]) /\ it \in It /\ ~AtEnd(it)
  BY LiveOwn, DerefOwn DEF Built, Dereferenceable
<1>2. it.of \in Container /\ it.pos \in Nat /\ it.pos > 0 /\ it.pos <= Len(Content[it.of])
  BY <1>1 DEF Own, Built, It, AtEnd
<1>3. Content[it.of] \in Seq([Field -> Element])
  BY <1>2, ContainerAssumption
<1>4. QED
  BY <1>2, <1>3

(* Over a built container the pointers of an iterator are those of its     *)
(* entry.                                                                  *)
LEMMA BuiltValue ==
  ASSUME IInv, NEW i \in Slot, Built(i)
  PROVE  iter[i].value = Content[iter[i].it.of][iter[i].it.pos]
<1> DEFINE it == iter[i].it
<1>1. Own(i, iter[i]) /\ it \in It /\ ~AtEnd(it)
  BY LiveOwn, DerefOwn DEF Built, Dereferenceable
<1>2. it.pos > 0 /\ iter[i].value = pointers(i, it) /\ it.of \notin Decoded
  BY <1>1 DEF Own, Built
<1>3. Content[it.of][it.pos] \in [Field -> Element]
  BY <1>1, <1>2, ElementFacts
<1>4. QED
  BY <1>2, <1>3 DEF pointers

(* Over a map that was built and has no entry twice, == tells whether two  *)
(* iterators are at the same position, however they came by it.            *)
THEOREM MapEqualIffSameEntry == ASSUME Kind = "map" PROVE Spec => []EqualIffSameEntry
<1>1. ASSUME IInv, NEW i \in Slot, NEW j \in Slot, Built(i), Built(j),
             SameContainer(i, j), Distinct(iter[i].it.of)
      PROVE  Equal(i, j) <=> SamePosition(i, j)
  <2> DEFINE c == iter[i].it.of
             m == iter[i].it.pos
             n == iter[j].it.pos
  <2>1. iter[i].value = Content[c][m] /\ iter[j].value = Content[c][n]
    BY <1>1, BuiltValue DEF SameContainer
  <2>2. m \in DOMAIN Content[c] /\ n \in DOMAIN Content[c]
    BY <1>1, BuiltPosition DEF SameContainer
  <2>3. Content[c][m] = Content[c][n] => m = n
    BY <1>1, <2>2 DEF Distinct
  <2>4. QED
    BY <2>1, <2>3 DEF Equal, SamePosition
<1>2. IInv => EqualIffSameEntry
  BY <1>1 DEF EqualIffSameEntry
<1>3. QED
  BY <1>2, Invariant, PTL

-----------------------------------------------------------------------------
(* The refinement of ForwardIterator.  Under the invariant what a slot     *)
(* yields is a function of its position, so that it is enough to follow    *)
(* the positions.                                                          *)

Yield(i) == IF Dereferenceable(i) THEN Deref(i) ELSE Dead

YieldsAtPosition == \A i \in Slot : Yield(i) = Forward!ElementAt(PositionOf(i))

(* What is yielded follows from the position.                              *)
LEMMA InvYields == IInv => YieldsAtPosition
<1> SUFFICES ASSUME IInv, NEW i \in Slot PROVE Yield(i) = Forward!ElementAt(PositionOf(i))
  BY DEF YieldsAtPosition
<1> DEFINE it == iter[i].it
<1>1. CASE ~Live(i)
  BY <1>1 DEF Yield, Dereferenceable, PositionOf, Forward!ElementAt
<1>2. CASE Live(i) /\ it.of = Nobody
  <2>1. AtEnd(it) /\ Own(i, iter[i])
    BY <1>2, LiveOwn DEF AtEnd
  <2>2. ~Dereferenceable(i)
    BY <2>1 DEF Own, Dereferenceable
  <2>3. QED
    BY <1>2, <2>2 DEF Yield, PositionOf, Forward!ElementAt
<1>3. CASE Live(i) /\ it.of # Nobody
  <2>1. Own(i, iter[i]) /\ it \in It /\ <<it.of, it.pos>> \in Container \X Nat
    BY <1>3, LiveOwn DEF It
  <2>2. PositionOf(i) = <<it.of, it.pos>> /\ PositionOf(i) \notin {Dead, Nobody}
    BY <1>3, <2>1, DeadAssumption DEF PositionOf
  <2>3. Content[it.of] \in Seq([Field -> Element]) /\ it.pos \in Nat
    BY <2>1, ContainerAssumption
  <2>4. AtEnd(it) <=> ~(it.pos <= Len(Content[it.of]))
    BY <1>3, <2>3 DEF AtEnd
  <2>5. CASE Dereferenceable(i)
    <3>1. ~AtEnd(it) /\ Deref(i) = Content[it.of][it.pos]
      BY <2>5, DerefOwn
    <3>2. QED
      BY <2>2, <2>4, <2>5, <3>1 DEF Yield, Forward!ElementAt
  <2>6. CASE ~Dereferenceable(i)
    <3>1. AtEnd(it)
      <4>1. iter[i].value = NoValue
        BY <1>3, <2>6 DEF Dereferenceable
      <4>2. SUFFICES ASSUME ~AtEnd(it) PROVE FALSE
        OBVIOUS
      <4>3. /\ iter[i].value = pointers(i, it)
            /\ \A f \in Field : pointers(i, it)[f] # Null
        BY <2>1, <4>2, PointersType, SlotFacts DEF Own
      <4>4. PICK f \in Field : TRUE
        BY DEF Field
      <4>5. QED
        BY <4>1, <4>3, <4>4 DEF NoValue
    <3>2. QED
      BY <2>2, <2>4, <2>6, <3>1 DEF Yield, Forward!ElementAt
  <2>7. QED
    BY <2>5, <2>6
<1>4. QED
  BY <1>1, <1>2, <1>3

(* The same after a step.                                                  *)
LEMMA InvYieldsNext == IInv' => YieldsAtPosition'
BY InvYields, PTL

(* An iterator that is not past the end yields something.                  *)
LEMMA SomethingYielded ==
  ASSUME IInv, NEW i \in Slot, Dereferenceable(i)
  PROVE  Yield(i) # Dead /\ PositionOf(i) = <<iter[i].it.of, iter[i].it.pos>>
<1>1. Own(i, iter[i]) /\ iter[i].it \in It /\ Live(i)
  BY LiveOwn DEF Dereferenceable
<1>2. ~AtEnd(iter[i].it) /\ Deref(i) = Content[iter[i].it.of][iter[i].it.pos]
  BY DerefOwn
<1>3. Content[iter[i].it.of][iter[i].it.pos] \in [Field -> Element]
  BY <1>1, <1>2, ElementFacts DEF Own
<1>4. QED
  BY <1>1, <1>2, <1>3, DeadAssumption DEF Yield, PositionOf, AtEnd

PlaceOf(x) ==
  IF x = Dead THEN Dead ELSE IF x.it.of = Nobody THEN Nobody ELSE <<x.it.of, x.it.pos>>

(* The position of a slot is that of the object in it, before and after a  *)
(* step.                                                                   *)
LEMMA PositionPlace ==
  /\ \A k \in Slot : PositionOf(k) = PlaceOf(iter[k])
  /\ \A k \in Slot : PositionOf(k)' = PlaceOf(iter'[k])
BY DEF PositionOf, PlaceOf, Live

(* A step after which only slot i has changed its position.                *)
LEMMA PutSimulation ==
  ASSUME IInv, IInv', NEW i \in Slot, NEW x, iter' = [iter EXCEPT ![i] = x]
  PROVE  Forward!Put(i, PlaceOf(x))
<1>1. \A k \in Slot : iter'[k] = IF k = i THEN x ELSE iter[k]
  BY DEF IInv
<1>2. \A k \in Slot : PositionOf(k)' = IF k = i THEN PlaceOf(x) ELSE PositionOf(k)
  BY <1>1, PositionPlace
<1>3. /\ \A k \in Slot : Yield(k) = Forward!ElementAt(PositionOf(k))
      /\ \A k \in Slot : Yield(k)' = Forward!ElementAt(PositionOf(k)')
  BY InvYields, InvYieldsNext DEF YieldsAtPosition, Forward!ElementAt
<1>4. \A k \in Slot : Yield(k)' = IF k = i THEN Forward!ElementAt(PlaceOf(x)) ELSE Yield(k)
  BY <1>2, <1>3
<1>5. QED
  BY <1>2, <1>4 DEF Forward!Put, Yield

(* The position after an increment is the next one.                        *)
LEMMA AfterIncrement ==
  ASSUME IInv, NEW i \in Slot, Dereferenceable(i)
  PROVE  PlaceOf(Incremented(i, iter[i])) = Forward!After(PositionOf(i))
<1> DEFINE it == iter[i].it
           y  == Incremented(i, iter[i])
<1>1. it \in It /\ ~AtEnd(it) /\ Own(i, iter[i])
  BY LiveOwn, DerefOwn DEF Dereferenceable
<1>2. it \in [of : Container, pos : Nat, store : [Field -> Element \cup {Unset}]]
  BY <1>1 DEF It, AtEnd
<1>3. next(it).of = it.of /\ next(it).pos = it.pos + 1
  BY <1>1, <1>2 DEF next
<1>4. y.it = next(it) /\ Own(i, y)
  BY <1>1, IncrementedOwn, SlotFacts DEF Incremented
<1>5. y # Dead /\ it.of # Nobody
  BY <1>1, <1>4, DeadAssumption DEF Own, AtEnd
<1>6. PositionOf(i) = <<it.of, it.pos>>
  BY SomethingYielded
<1> HIDE DEF it, y
<1>7. PlaceOf(y) = <<it.of, it.pos + 1>>
  BY <1>3, <1>4, <1>5 DEF PlaceOf
<1>8. QED
  BY <1>6, <1>7 DEF Forward!After, y

(* Objects whose library iterators agree are at the same position.         *)
LEMMA SamePlace ==
  ASSUME IInv, NEW i \in Slot, Live(i), NEW j \in Place, NEW x, Own(j, x), x.it = iter[i].it
  PROVE  PlaceOf(x) = PositionOf(i) /\ PositionOf(i) # Dead
<1>1. x # Dead
  BY DeadAssumption DEF Own
<1>2. iter[i].it \in It
  BY LiveOwn
<1>3. iter[i].it.of # Nobody => <<iter[i].it.of, iter[i].it.pos>> \in Container \X Nat
  BY <1>2 DEF It
<1>4. QED
  BY <1>1, <1>3, DeadAssumption DEF PlaceOf, PositionOf

(* begin implements Begin.                                                 *)
LEMMA BeginSimulation ==
  ASSUME Kind = "map", IInv, IInv', NEW i \in Slot, NEW c \in Container, begin(i, c)
  PROVE  Forward!Begin(i)
<1> DEFINE b == [s \in Place |-> Incremented(s, [it |-> start_it_(c), value |-> NoValue])]
<1>1. PICK x \in Returned(i, b) : iter' = [iter EXCEPT ![i] = x]
  BY DEF begin
<1>2. \A s \in Place : Own(s, b[s]) /\ b[s].it = next(start_it_(c))
  BY BeginOwn DEF Incremented
<1> HIDE DEF b
<1>3. Own(i, x) /\ x.it = next(start_it_(c))
  BY <1>2, ReturnedOwn, SlotFacts
<1>4. next(start_it_(c)).of = c /\ next(start_it_(c)).pos = 1
  <2>1. ~AtEnd(start_it_(c))
    <3>1. Len(Content[c]) \in Nat
      BY ContainerAssumption
    <3>2. QED
      BY <3>1, ContainerAssumption DEF AtEnd, start_it_
  <2>2. QED
    BY <2>1 DEF next, start_it_
<1>5. PlaceOf(x) = <<c, 1>>
  BY <1>3, <1>4, ContainerAssumption, DeadAssumption DEF PlaceOf, Own
<1>6. QED
  BY <1>1, <1>5, PutSimulation DEF Forward!Begin

(* operator++(int) implements PostIncrement.                               *)
LEMMA PostIncrementSimulation ==
  ASSUME Kind = "map", IInv, IInv', NEW i \in Slot, NEW j \in Slot, post_increment(j, i)
  PROVE  Forward!PostIncrement(j, i)
<1> DEFINE b == [s \in Place |-> CopyConstructed(s, iter[i], i)]
           y == Incremented(i, iter[i])
<1>1. PICK x \in Returned(j, b) : iter' = [iter EXCEPT ![j] = x, ![i] = y]
  BY DEF post_increment
<1>2. Own(i, iter[i]) /\ Live(i) /\ Dereferenceable(i) /\ i # j
  BY LiveOwn DEF post_increment, Dereferenceable, Live
<1>3. \A s \in Place : Own(s, b[s]) /\ b[s].it = iter[i].it
  BY <1>2, AssignedOwn, SlotFacts DEF CopyConstructed
<1> HIDE DEF b
<1>4. Own(j, x) /\ x.it = iter[i].it
  BY <1>3, ReturnedOwn, SlotFacts
<1>5. PlaceOf(x) = PositionOf(i)
  BY <1>2, <1>4, SamePlace, SlotFacts
<1>6. PlaceOf(y) = Forward!After(PositionOf(i))
  BY <1>2, AfterIncrement
<1> HIDE DEF y
<1>7. \A k \in Slot : iter'[k] = IF k = i THEN y ELSE IF k = j THEN x ELSE iter[k]
  BY <1>1 DEF IInv
<1>8. \A k \in Slot : PositionOf(k)' = IF k = i THEN Forward!After(PositionOf(i))
                                       ELSE IF k = j THEN PositionOf(i) ELSE PositionOf(k)
  BY <1>5, <1>6, <1>7, PositionPlace
<1>9. /\ \A k \in Slot : Yield(k) = Forward!ElementAt(PositionOf(k))
      /\ \A k \in Slot : Yield(k)' = Forward!ElementAt(PositionOf(k)')
  BY InvYields, InvYieldsNext DEF YieldsAtPosition, Forward!ElementAt
<1>10. \A k \in Slot : Yield(k)' = IF k = i THEN Forward!ElementAt(Forward!After(PositionOf(i)))
                                   ELSE IF k = j THEN Yield(i) ELSE Yield(k)
  BY <1>8, <1>9
<1>11. Yield(i) # Dead
  BY <1>2, SomethingYielded
<1>12. QED
  BY <1>2, <1>8, <1>10, <1>11 DEF Forward!PostIncrement, Yield

(* Every call implements a step of the abstract iterator, or none.         *)
LEMMA StepSimulation ==
  ASSUME Kind = "map", IInv, IInv', [Next]_iter
  PROVE  [Forward!Next]_(Forward!vars)
<1>1. CASE UNCHANGED iter
  BY <1>1 DEF Forward!vars, PositionOf, Live, Dereferenceable, Deref, Target
<1>2. ASSUME NEW i \in Slot, NEW c \in Container, begin(i, c) PROVE Forward!Begin(i)
  BY <1>2, BeginSimulation
<1>3. ASSUME NEW i \in Slot, end(i) PROVE Forward!End(i)
  <2>1. PlaceOf(Default) = Nobody
    BY DefaultOwn, SlotFacts, DeadAssumption DEF Own, PlaceOf, Default
  <2>2. QED
    BY <1>3, <2>1, PutSimulation DEF end, Forward!End
<1>4. ASSUME NEW i \in Slot, destroy(i) PROVE Forward!Drop(i)
  BY <1>4, PutSimulation DEF destroy, Forward!Drop, PlaceOf
<1>5. ASSUME NEW i \in Slot, increment(i) PROVE Forward!Increment(i)
  BY <1>5, PutSimulation, AfterIncrement, SomethingYielded
     DEF increment, Forward!Increment, Yield
<1>6. ASSUME NEW i \in Slot, NEW j \in Slot, copy(j, i) \/ assign(j, i)
      PROVE  Forward!Copy(j, i)
  <2> DEFINE x == Assigned(j, iter[i], i)
  <2>1. Live(i) /\ iter' = [iter EXCEPT ![j] = x]
    BY <1>6 DEF copy, assign, CopyConstructed
  <2>2. Own(j, x) /\ x.it = iter[i].it
    BY <2>1, LiveOwn, AssignedOwn, SlotFacts
  <2> HIDE DEF x
  <2>3. PlaceOf(x) = PositionOf(i) /\ PositionOf(i) # Dead
    BY <2>1, <2>2, SamePlace, SlotFacts
  <2>4. Forward!Put(j, PlaceOf(x))
    BY <2>1, PutSimulation
  <2>5. QED
    BY <2>3, <2>4 DEF Forward!Copy
<1>7. ASSUME NEW i \in Slot, NEW j \in Slot, post_increment(j, i)
      PROVE  Forward!PostIncrement(j, i)
  BY <1>7, PostIncrementSimulation
<1>8. QED
  BY <1>1, <1>2, <1>3, <1>4, <1>5, <1>6, <1>7 DEF Next, Forward!Next

(* map_iterator is what its iterator_category says: every step of it is a  *)
(* step of ForwardIterator, or none.                                       *)
THEOREM MapIsForwardIterator == ASSUME Kind = "map" PROVE Spec => IsForwardIterator
<1>1. Init => Forward!Init
  BY DEF Init, Forward!Init, PositionOf, Live, Dereferenceable
<1>2. IInv /\ IInv' /\ [Next]_iter => [Forward!Next]_(Forward!vars)
  BY StepSimulation
<1>3. QED
  BY <1>1, <1>2, Invariant, PTL DEF Spec, IsForwardIterator, Forward!Spec
=============================================================================
