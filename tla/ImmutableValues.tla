--------------------------- MODULE ImmutableValues --------------------------
(***************************************************************************)
(* What argdata promises: values that never change, and messages that hold *)
(* one.  There are no addresses, pointers or buffers here: a value has its *)
(* tree from its creation to its end, a container that of its elements at  *)
(* that moment, and every question about it is answered from its tree.     *)
(* Trees are sequences of tokens, as in ArgdataValues.                     *)
(***************************************************************************)
EXTENDS Integers, SequencesExt

CONSTANTS
  Name,      \* names of values
  Always,    \* those that always exist
  Message,   \* places for a message
  MaxArray,  \* bound on the number of elements
  True, False,  \* two of those that always exist
  NoFd,      \* a descriptor that is none
  None,      \* a name without a value, a place without a message
  Nothing    \* no answer

VARIABLES
  value,     \* value[n]: a tree
  answer,    \* answer[n]: what is answered about it
  message    \* message[m]: the tree in it, with its descriptors

Answers(tree) ==
  LET kind == tree[1][1]  n == tree[1][2]
      If(is, otherwise) == IF is THEN n ELSE otherwise
  IN [as_int  |-> If(kind = "int" /\ n \in -2 .. 1, 0),
      as_uint |-> If(kind = "int" /\ n \in 0 .. 3, 0),
      as_bool |-> If(kind = "static" /\ n \in {True, False}, False),
      as_fd   |-> If(kind = "fd", NoFd),
      as_binary |-> If(kind = "binary", 0),
      get_map |-> If(kind = "map", Nothing),
      get_seq |-> If(kind = "seq", Nothing)]

Answered == answer = [n \in Name |-> IF value[n] = None THEN None ELSE Answers(value[n])]

Existing == Always \cup {n \in Name : value[n] # None}
ValueOf(n) == IF n \in Always THEN <<<<"static", n>>>> ELSE value[n]
Groups == {[i \in DOMAIN s |-> ValueOf(s[i])] : s \in BoundedSeq(Existing, MaxArray)}

Leaf(tree) == Len(tree) = 1 /\ tree[1][1] \in {"int", "fd"}

Container(tree) ==
  \/ \E values \in Groups :
       tree = <<<<"seq", Len(values)>>>> \o FlattenSeq(values)
  \/ \E keys, values \in Groups :
       /\ Len(keys) = Len(values)
       /\ tree = <<<<"map", Len(keys)>>>> \o FlattenSeq(keys) \o FlattenSeq(values)

(* The value in a message, with positions for its descriptors, or as bytes *)
Received(tree) ==
  \E m \in Message :
    /\ message[m] # None
    /\ LET plain == message[m].bytes
       IN tree = plain \/ tree = <<<<"binary", Len(plain)>>>> \o plain

(* n gets a value; no other changes. *)
Create(n) ==
  /\ value[n] = None /\ value'[n] # None
  /\ Leaf(value'[n]) \/ Container(value'[n]) \/ Received(value'[n])
  /\ value' = [value EXCEPT ![n] = value'[n]]
  /\ UNCHANGED message

(* Some values end. *)
End == \A n \in Name : value'[n] \in {value[n], None}

(* What the message m says to somebody who has its descriptors. *)
Meaning(m) ==
  LET bytes == m.bytes  list == m.list
  IN [i \in DOMAIN bytes |->
        IF bytes[i][1] # "fd" \/ bytes[i][2] = NoFd THEN bytes[i]
        ELSE <<"fd", IF bytes[i][2] + 1 \in DOMAIN list THEN list[bytes[i][2] + 1] ELSE NoFd>>]

WithoutFds(tree) ==
  [i \in DOMAIN tree |-> IF tree[i][1] = "fd" THEN <<"fd", NoFd>> ELSE tree[i]]

(* The value of n is put into m, all of it or all but its descriptors.     *)
Send(n, m) ==
  /\ message'[m] # None
  /\ Meaning(message'[m]) \in {ValueOf(n), WithoutFds(ValueOf(n))}
  /\ message' = [message EXCEPT ![m] = message'[m]]
  /\ End

Forget(m) ==
  /\ message' = [message EXCEPT ![m] = None]
  /\ End

Init == /\ value = [n \in Name |-> None] /\ message = [m \in Message |-> None] /\ Answered

Next ==
  /\ \/ \E n \in Name : Create(n)
     \/ \E n \in Existing, m \in Message : Send(n, m)
     \/ \E m \in Message : Forget(m)
     \/ End /\ UNCHANGED message
  /\ Answered'

Spec == Init /\ [][Next]_<<value, answer, message>>
=============================================================================
