-------------------------- MODULE ForwardIterator --------------------------
(***************************************************************************)
(* What an iterator with std::forward_iterator_tag promises: it has a      *)
(* position of its own in a container, yields the element there, and may   *)
(* be copied.  No operation on one iterator, the end of its life included, *)
(* changes the position of another or what the other yields.               *)
(***************************************************************************)
EXTENDS Naturals, Sequences

CONSTANTS
  Slot,       \* the places in memory where an iterator can live
  Container,  \* what is iterated over
  Content,    \* Content[c]: the sequence of elements of container c
  Nothing,    \* yielded by an iterator that is past the end, or not alive
  Nowhere     \* the position of an iterator that end() made

VARIABLES
  position,   \* position[i]: Nothing, Nowhere or <<container, index>>
  yields      \* yields[i]: the element *i refers to

ElementAt(place) ==
  IF place \notin {Nothing, Nowhere} /\ place[2] <= Len(Content[place[1]])
  THEN Content[place[1]][place[2]]
  ELSE Nothing

Init == /\ position = [i \in Slot |-> Nothing]
        /\ yields   = [i \in Slot |-> Nothing]

(* Iterator i comes to be at the place, alive or not.                      *)
Put(i, place) ==
  /\ position' = [position EXCEPT ![i] = place]
  /\ yields'   = [yields   EXCEPT ![i] = ElementAt(place)]

Begin(i) == \E c \in Container : Put(i, <<c, 1>>)
End(i)   == Put(i, Nowhere)
Copy(j, i) == position[i] # Nothing /\ Put(j, position[i])
Drop(i)  == Put(i, Nothing)

(* The next place; an iterator past the end cannot go further.             *)
After(place) == <<place[1], place[2] + 1>>
Increment(i) == yields[i] # Nothing /\ Put(i, After(position[i]))

(* j = i++: j stays where i was.                                           *)
PostIncrement(j, i) ==
  /\ yields[i] # Nothing /\ i # j
  /\ position' = [position EXCEPT ![j] = position[i], ![i] = After(position[i])]
  /\ yields'   = [yields   EXCEPT ![j] = yields[i], ![i] = ElementAt(After(position[i]))]

Next == \E i \in Slot :
          \/ Begin(i) \/ End(i) \/ Drop(i) \/ Increment(i)
          \/ \E j \in Slot : Copy(j, i) \/ PostIncrement(j, i)

vars == <<position, yields>>
Spec == Init /\ [][Next]_vars
=============================================================================
