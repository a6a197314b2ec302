-------------------------- MODULE ArgdataIterator --------------------------
(***************************************************************************)
(* The iterators of argdata maps and sequences, which hold pointers into   *)
(* themselves.                                                             *)
(*                                                                         *)
(* An iterator object is the C library's iterator, it_, next to value_,    *)
(* the pointers that *i gives out: a pair for a map_iterator, one for a    *)
(* seq_iterator.  A map or sequence built with create_map or create_seq    *)
(* hands out pointers to the elements it was built from.  One that decodes *)
(* a buffer keeps the current element in the library's iterator and hands  *)
(* out pointers to that: value_ then points into the object's own it_, and *)
(* a copy of the object has to point into the copy.                        *)
(*                                                                         *)
(* Slots are the places where the program keeps iterators; Frame is the    *)
(* local variable of the library function that is running.  Everything     *)
(* runs on one thread: an action is a whole call.                          *)
(***************************************************************************)
EXTENDS Naturals, Sequences

CONSTANTS
  Kind,       \* "map" or "seq": which of the two classes this is
  Slot,       \* variables of the program that can hold an iterator
  Frame,      \* the place of a library function's own local iterator
  Container,  \* the maps or sequences iterated over
  Decoded,    \* those of them that decode a buffer
  Element,    \* argdata values
  Content,    \* Content[c]: the elements of c, each a function on Field
  Offset,     \* Offset[f]: where it_ stores the decoded field f
  Elision,    \* may a returned local be built in the caller's variable?
  Nobody,     \* the container of a default constructed iterator
  Null,       \* the null pointer
  Unset,      \* the content of storage that nothing was decoded into
  Dangling,   \* what is read through a pointer to a dead iterator
  Dead        \* the content of a slot with no iterator in it

Field == IF Kind = "map" THEN {"first", "second"} ELSE {"value"}
Place == Slot \cup {Frame}
Inner == Place \X Field         \* pointers into an iterator's storage

ASSUME KindAssumption == Kind \in {"map", "seq"} /\ Elision \in SUBSET BOOLEAN
ASSUME ContainerAssumption ==
  /\ Nobody \notin Container
  /\ Decoded \subseteq Container
  /\ Content \in [Container -> Seq([Field -> Element])]
ASSUME OffsetAssumption == Offset \in [Field -> Nat \ {0}]
ASSUME PointerAssumption ==
  /\ Frame \notin Slot
  /\ Null \notin Element \cup Inner /\ Element \cap Inner = {}
  /\ {Null, Dangling, Unset} \cap Element = {}

VARIABLE iter   \* iter[i]: the iterator in slot i, or Dead

-----------------------------------------------------------------------------
(* The C library's iterator: container, index of the current element (0    *)
(* before the first), and the element that was decoded last.               *)

NotStored == [f \in Field |-> Unset]
NoValue   == [f \in Field |-> Null]
It == [of : Container, pos : Nat, store : [Field -> Element \cup {Unset}]]
        \cup {[of |-> Nobody, pos |-> 0, store |-> NotStored]}

Object == [it : It, value : [Field -> Element \cup Inner \cup {Null}]]
ASSUME DeadAssumption ==
  /\ Dead \notin Object /\ Dead \notin [Field -> Element] /\ Dead # Nobody
  /\ {Dead, Nobody} \cap (Container \X Nat) = {}

start_it_(c) == [of |-> c, pos |-> 0, store |-> NotStored]
AtEnd(it) == it.of = Nobody \/ it.pos > Len(Content[it.of])

(* argdata_map_next and argdata_seq_next: the library moves on, and        *)
(* decodes the element it arrives at.                                      *)
next(it) ==
  LET there == [it EXCEPT !.pos = IF AtEnd(it) THEN @ ELSE @ + 1]
  IN IF it.of \in Decoded /\ ~AtEnd(there)
     THEN [there EXCEPT !.store = Content[it.of][there.pos]]
     ELSE there

(* The pointers it hands out for the iterator in place i.                  *)
pointers(i, it) ==
  [f \in Field |-> IF it.of \in Decoded THEN <<i, f>> ELSE Content[it.of][it.pos][f]]

-----------------------------------------------------------------------------
(* Member functions, as functions of the object x in place i.              *)

(* Fault: value_ has no initializer.                                       *)
Default_NoInit ==
  [it    |-> [of |-> Nobody, pos |-> 0, store |-> NotStored],
   value |-> [f \in Field |-> Unset]]

Default == [it |-> [of |-> Nobody, pos |-> 0, store |-> NotStored], value |-> NoValue]

(* Fault: operator++ leaves value_ alone when there is no next element.    *)
Incremented_Keep(i, x) ==
  LET it == next(x.it)
  IN [it |-> it, value |-> IF AtEnd(it) THEN x.value ELSE pointers(i, it)]

(* operator++: value_ becomes null when there is no next element.          *)
Incremented(i, x) ==
  LET it == next(x.it)
  IN [it |-> it, value |-> IF AtEnd(it) THEN NoValue ELSE pointers(i, it)]

(* Does pointer q lie strictly inside the it_ of the object in place j?    *)
Inside(q, j) == \E f \in Field : q = <<j, f>> /\ Offset[f] > 0

(* Fault: operator= relocates value_.first only.                           *)
Assigned_First(i, x, j) ==
  [x EXCEPT !.value = [f \in Field |-> IF f # "second" /\ Inside(@[f], j)
                                       THEN <<i, @[f][2]>> ELSE @[f]]]

(* operator=: object i becomes a copy of object x in place j.              *)
Assigned(i, x, j) ==
  [x EXCEPT !.value = [f \in Field |-> IF Inside(@[f], j) THEN <<i, @[f][2]>> ELSE @[f]]]

(* Fault: the copy constructor is left to the compiler.                    *)
CopyConstructed_Memberwise(i, x, j) == x

(* Copy construction.  map_iterator defines it by operator=; the one of    *)
(* seq_iterator takes a map_iterator, so that a seq_iterator is copied     *)
(* member by member.                                                       *)
CopyConstructed(i, x, j) == IF Kind = "map" THEN Assigned(i, x, j) ELSE x

(* A function returns its local variable, built[s] if it lives in place s, *)
(* into place i: built there to begin with, or copied out of the frame.    *)
Returned(i, built) ==
  {IF e THEN built[i] ELSE CopyConstructed(i, built[Frame], Frame) : e \in Elision}

(* What a pointer points to.                                               *)
Target(q) ==
  IF q \notin Inner THEN q
  ELSE IF q[1] = Frame \/ iter[q[1]] = Dead THEN Dangling
  ELSE iter[q[1]].it.store[q[2]]

Live(i) == iter[i] # Dead
Dereferenceable(i) == Live(i) /\ iter[i].value # NoValue
Deref(i) == [f \in Field |-> Target(iter[i].value[f])]

(* Fault: operator== compares the keys only.                               *)
Equal_First(i, j) ==
  \E f \in Field \ {"second"} : iter[i].value[f] = iter[j].value[f]

(* operator== compares the pointers.                                       *)
Equal(i, j) == iter[i].value = iter[j].value

-----------------------------------------------------------------------------
Init == iter = [i \in Slot |-> Dead]

(* Fault: begin does not go to the first element.                          *)
begin_NoStep(i, c) ==
  /\ iter[i] = Dead
  /\ iter' = [iter EXCEPT ![i] = [it |-> start_it_(c), value |-> NoValue]]

begin(i, c) ==
  /\ iter[i] = Dead
  /\ \E x \in Returned(i, [s \in Place |->
                Incremented(s, [it |-> start_it_(c), value |-> NoValue])]) :
       iter' = [iter EXCEPT ![i] = x]

end(i) == iter[i] = Dead /\ iter' = [iter EXCEPT ![i] = Default]

destroy(i) == Live(i) /\ iter' = [iter EXCEPT ![i] = Dead]

copy(j, i) ==
  /\ iter[j] = Dead /\ Live(i)
  /\ iter' = [iter EXCEPT ![j] = CopyConstructed(j, iter[i], i)]

assign(j, i) ==
  /\ Live(j) /\ Live(i)
  /\ iter' = [iter EXCEPT ![j] = Assigned(j, iter[i], i)]

increment(i) ==
  /\ Dereferenceable(i)
  /\ iter' = [iter EXCEPT ![i] = Incremented(i, iter[i])]

(* Fault: the copy is taken after the increment.                           *)
post_increment_Late(j, i) ==
  /\ iter[j] = Dead /\ Dereferenceable(i)
  /\ LET y == Incremented(i, iter[i])
     IN \E x \in Returned(j, [s \in Place |-> CopyConstructed(s, y, i)]) :
          iter' = [iter EXCEPT ![j] = x, ![i] = y]

(* j = i++ where j is a new variable.                                      *)
post_increment(j, i) ==
  /\ iter[j] = Dead /\ Dereferenceable(i)
  /\ \E x \in Returned(j, [s \in Place |-> CopyConstructed(s, iter[i], i)]) :
       iter' = [iter EXCEPT ![j] = x, ![i] = Incremented(i, iter[i])]

Next == \E i \in Slot :
          \/ \E c \in Container : begin(i, c)
          \/ end(i) \/ destroy(i) \/ increment(i)
          \/ \E j \in Slot : copy(j, i) \/ assign(j, i) \/ post_increment(j, i)

Spec == Init /\ [][Next]_iter

-----------------------------------------------------------------------------
(* Every slot holds nothing or an object whose members have their types.   *)
TypeOK == iter \in [Slot -> Object \cup {Dead}]

(* No iterator holds a pointer into another one's storage, nor into the    *)
(* frame of a library function: it can outlive all the others.             *)
SelfContained ==
  \A i \in Slot : Live(i) =>
    \A f \in Field : iter[i].value[f] \in Inner => iter[i].value[f][1] = i

(* An iterator yields the element at its own position, whatever has become *)
(* of the iterators it was copied from.                                    *)
YieldsOwnElement ==
  \A i \in Slot : Dereferenceable(i) => Deref(i) = Content[iter[i].it.of][iter[i].it.pos]

(* The comparison with a past-the-end iterator, end() or one that has run  *)
(* out, tells exactly whether there is an element left.                    *)
LoopTestIsRight ==
  \A i, j \in Slot : Live(i) /\ Live(j) /\ AtEnd(iter[j].it) =>
    (Equal(i, j) <=> AtEnd(iter[i].it))

(* Over a container that was built, not decoded, and has no entry twice,   *)
(* iterators compare equal exactly if they are at the same position, as    *)
(* forward iterators must; in particular a copy equals its original.  Two  *)
(* entries with the same pointers are not told apart.                      *)
SameContainer(i, j) == iter[i].it.of = iter[j].it.of
SamePosition(i, j)  == iter[i].it.pos = iter[j].it.pos

Distinct(c) == \A m, n \in DOMAIN Content[c] : Content[c][m] = Content[c][n] => m = n

Built(i) == Dereferenceable(i) /\ iter[i].it.of \notin Decoded

EqualIffSameEntry ==
  \A i, j \in Slot :
    Built(i) /\ Built(j) /\ SameContainer(i, j) /\ Distinct(iter[i].it.of) =>
      (Equal(i, j) <=> SamePosition(i, j))

(* Iterators of the same container, whichever it is, compare equal exactly *)
(* if they are at the same position: what a forward iterator promises.     *)
EqualIffSamePosition ==
  \A i, j \in Slot : Live(i) /\ Live(j) /\ SameContainer(i, j) =>
    (Equal(i, j) <=> SamePosition(i, j))

(* The promise of iterator_category.                                       *)
PositionOf(i) ==
  IF ~Live(i) THEN Dead
  ELSE IF iter[i].it.of = Nobody THEN Nobody ELSE <<iter[i].it.of, iter[i].it.pos>>

Forward == INSTANCE ForwardIterator WITH
  Nothing  <- Dead,
  Nowhere  <- Nobody,
  position <- [i \in Slot |-> PositionOf(i)],
  yields   <- [i \in Slot |-> IF Dereferenceable(i) THEN Deref(i) ELSE Dead]

(* The iterators do what their category promises: every call moves or      *)
(* makes the iterators it names and changes what no other one yields.      *)
IsForwardIterator == Forward!Spec
=============================================================================
