-------------------------------- MODULE IoVec -------------------------------
(***************************************************************************)
(* iovec and ciovec, the ranges of bytes that the calls for input and      *)
(* output are given.                                                       *)
(*                                                                         *)
(* Either is a pointer and a length that the program gets by conversion    *)
(* from its objects: a character, an array of them, a string, another      *)
(* container, a part of one given by two pointers or a pointer and a       *)
(* length, or a text that ends at a zero.  The kernel writes through an    *)
(* iovec and reads through a ciovec.  Which conversions there are is up to *)
(* overloading: an array of char is as long as the array for an iovec and  *)
(* as its text for a ciovec, and what is const converts to a ciovec only.  *)
(*                                                                         *)
(* Where a text ends is looked for, and nothing says that it must end in   *)
(* its object: after the last byte of a string there is a zero, after that *)
(* of any other object there may be anything.                              *)
(*                                                                         *)
(* The program uses no vector after it has destroyed or resized what that  *)
(* was converted from; a temporary is destroyed at the end of the          *)
(* expression.                                                             *)
(***************************************************************************)
EXTENDS Integers, Sequences, SequencesExt

CONSTANTS
  Place,     \* where the program's objects are
  Vector,    \* the program's iovecs and ciovecs
  MaxSize,   \* bound on the size of an object
  MaxOverrun,\* bound on how far after an object a zero is found
  Foreign,   \* a byte, not zero, that is not in the object
  None       \* no object, or a vector that may not be used

ASSUME MaxSizeAssumption == MaxSize \in Nat \ {0}
ASSUME MaxOverrunAssumption == MaxOverrun \in Nat

VARIABLES
  object,    \* object[p]: its kind, constness and bytes
  vector,    \* vector[i]: the place, first byte and length, whether an iovec, and
             \* as an auxiliary component whether it was converted as a text
  sent       \* the bytes that the last step took, if that was a write

vars == <<object, vector, sent>>

Byte  == {0, 1}          \* zero, and any other
Kind  == {"char", "array", "string", "container"}
Bytes == BoundedSeq(Byte, MaxSize)
Object == {x \in [kind : Kind, const : BOOLEAN, bytes : Bytes] :
             /\ x.kind = "char"  => Len(x.bytes) = 1
             /\ x.kind = "array" => Len(x.bytes) > 0}

ASSUME NoneAssumption == None \notin Object
ASSUME ForeignAssumption == Foreign \notin Byte

(* A text that the kernel has since written to may end elsewhere: "stale". *)
Text == {"no", "fresh", "stale"}

(* The bytes that v covers, of its object and beyond.                      *)
Covered(v) ==
  [k \in 1 .. v.size |-> IF v.from + k <= Len(object[v.at].bytes)
                         THEN object[v.at].bytes[v.from + k] ELSE Foreign]

Init == /\ object = [p \in Place |-> None]
        /\ vector = [i \in Vector |-> None]
        /\ sent = <<>>

-----------------------------------------------------------------------------
(* The objects of the program.                                             *)

Without(p) == [i \in Vector |-> IF vector[i] # None /\ vector[i].at = p THEN None ELSE vector[i]]

declare(p, x) ==
  /\ object[p] = None
  /\ object' = [object EXCEPT ![p] = x]
  /\ UNCHANGED vector /\ sent' = <<>>

destroy(p) ==
  /\ object[p] # None
  /\ object' = [object EXCEPT ![p] = None]
  /\ vector' = Without(p)
  /\ sent' = <<>>

resize(p, bytes) ==
  /\ object[p] # None /\ object[p].kind \in {"string", "container"} /\ ~object[p].const
  /\ object' = [object EXCEPT ![p].bytes = bytes]
  /\ vector' = Without(p)
  /\ sent' = <<>>

-----------------------------------------------------------------------------
(* Conversions.                                                            *)

(* The offsets from b on at which object x is known to hold a zero.        *)
Zeros(x, b) == {n \in b .. Len(x.bytes) : IF n = Len(x.bytes) THEN x.kind = "string"
                                                              ELSE x.bytes[n + 1] = 0}

(* Fault: an array is as long as it is for an iovec.                       *)
TextEnd_Array(x, b) == {Len(x.bytes)}

(* string_view(s) for a pointer s to byte b of x: the first zero, wherever *)
(* that is if x has none.                                                  *)
TextEnd(x, b) ==
  IF Zeros(x, b) # {} THEN {n \in Zeros(x, b) : \A m \in Zeros(x, b) : n <= m}
                      ELSE Len(x.bytes) .. Len(x.bytes) + MaxOverrun

(* Fault: the end is taken for a length.                                   *)
PartLength_End(b, e) == e

PartLength(b, e) == e - b

Convert(i, p, from, size, writable, text) ==
  /\ vector' = [vector EXCEPT ![i] =
       [at |-> p, from |-> from, size |-> size, writable |-> writable, text |-> text]]
  /\ UNCHANGED object /\ sent' = <<>>

(* iovec(char &), iovec(char (&)[n]), iovec(X &)                           *)
Whole(p, kinds) == object[p] # None /\ object[p].kind \in kinds

(* Fault: iovec(X const &) with a cast.                                    *)
Writable_Cast(p) == object[p] # None /\ (object[p].const => object[p].kind = "container")

(* No pointer to char leads to what is const; nor does data() of it.       *)
Writable(p) == object[p] # None /\ ~object[p].const

iovec(i, p) ==
  Whole(p, Kind) /\ Writable(p) /\ Convert(i, p, 0, Len(object[p].bytes), TRUE, "no")

(* From two pointers, or a pointer and a length.                           *)
iovec_part(i, p, b, e) ==
  Whole(p, Kind) /\ Writable(p) /\ Convert(i, p, b, PartLength(b, e), TRUE, "no")

(* ciovec(char const &), ciovec(X &&): an array has no data().             *)
ciovec(i, p) ==
  Whole(p, Kind \ {"array"}) /\ Convert(i, p, 0, Len(object[p].bytes), FALSE, "no")

ciovec_part(i, p, b, e) ==
  Whole(p, Kind) /\ Convert(i, p, b, PartLength(b, e), FALSE, "no")

(* From a pointer to char const, which an array becomes.                   *)
ciovec_text(i, p, b) ==
  /\ Whole(p, Kind)
  /\ b < Len(object[p].bytes) \/ object[p].kind = "string"
  /\ \E n \in TextEnd(object[p], b) : Convert(i, p, b, n - b, FALSE, "fresh")

(* ciovec(X &&) from an iovec or a ciovec, iovec(X &) from an iovec.       *)
ciovec_vector(i, j) ==
  vector[j] # None /\ Convert(i, vector[j].at, vector[j].from, vector[j].size, FALSE, vector[j].text)

iovec_iovec(i, j) ==
  /\ vector[j] # None /\ vector[j].writable
  /\ Convert(i, vector[j].at, vector[j].from, vector[j].size, TRUE, "no")

-----------------------------------------------------------------------------
(* The kernel.                                                             *)

read(i, bytes) ==
  /\ vector[i] # None /\ vector[i].writable
  /\ Len(bytes) <= vector[i].size
  /\ LET v == vector[i]
         old == object[v.at].bytes
     IN object' = [object EXCEPT ![v.at].bytes =
          [n \in DOMAIN old |-> IF n - v.from \in DOMAIN bytes THEN bytes[n - v.from]
                                                               ELSE old[n]]]
  /\ vector' = [j \in Vector |->
       IF vector[j] # None /\ vector[j].at = vector[i].at /\ vector[j].text = "fresh"
       THEN [vector[j] EXCEPT !.text = "stale"] ELSE vector[j]]
  /\ sent' = <<>>

write(i, n) ==
  /\ vector[i] # None /\ n <= vector[i].size
  /\ sent' = SubSeq(Covered(vector[i]), 1, n)
  /\ UNCHANGED <<object, vector>>

Next ==
  \/ \E p \in Place :
       \/ \E x \in Object : declare(p, x)
       \/ destroy(p)
       \/ \E bytes \in Bytes : resize(p, bytes)
  \/ \E i \in Vector, p \in Place :
       \/ iovec(i, p) \/ ciovec(i, p)
       \/ \E e \in 0 .. MaxSize, b \in 0 .. MaxSize :
            /\ object[p] # None /\ b <= e /\ e <= Len(object[p].bytes)
            /\ iovec_part(i, p, b, e) \/ ciovec_part(i, p, b, e) \/ ciovec_text(i, p, b)
  \/ \E i, j \in Vector : ciovec_vector(i, j) \/ iovec_iovec(i, j)
  \/ \E i \in Vector :
       \/ \E bytes \in Bytes : read(i, bytes)
       \/ \E n \in 0 .. MaxSize + MaxOverrun : write(i, n)

Spec == Init /\ [][Next]_vars

-----------------------------------------------------------------------------
(* A vector that may be used lies inside an object that exists, and an     *)
(* iovec in one that is not const, whatever was read since and by whatever *)
(* chain of conversions.  The one exception is a ciovec of a text without  *)
(* an end: one in whose object there is no zero, or was none before the    *)
(* kernel wrote to it.  No iovec is ever such a text.                      *)
InsideItsObject ==
  \A i \in Vector : vector[i] # None =>
    LET v == vector[i]
        x == object[v.at]
    IN /\ x \in Object
       /\ v.writable => ~x.const
       /\ \/ v.from + v.size <= Len(x.bytes)
          \/ v.text = "stale" /\ ~v.writable
          \/ v.text = "fresh" /\ ~v.writable /\ Zeros(x, v.from) = {}

(* The kernel changes an object only where an iovec leads, which is never  *)
(* into one that is const, by whatever chain of conversions.               *)
OnlyIovecsAreWritten ==
  [][\A p \in Place :
       object[p] # None /\ object'[p] # None /\ object'[p] # object[p] =>
         /\ ~object[p].const
         /\ \/ \A i \in Vector : vector'[i] # None => vector'[i].at # p
            \/ \E i \in Vector :
                 /\ vector[i] # None /\ vector[i].at = p /\ vector[i].writable
                 /\ \A n \in DOMAIN object[p].bytes :
                      n \notin vector[i].from + 1 .. vector[i].from + vector[i].size
                        => object'[p].bytes[n] = object[p].bytes[n]]_vars

(* What is written of a text, or of a vector converted from one, and       *)
(* unless the kernel wrote to it since: no zero; bytes that are not the    *)
(* object's only if that holds no zero; and if all of it was written and   *)
(* it has an end, then everything up to a zero.                            *)
TextsAreSentToTheirZero ==
  [][\A i \in Vector, n \in 0 .. MaxSize + MaxOverrun :
       write(i, n) /\ vector[i].text = "fresh" =>
         LET v == vector[i]
             zeros == Zeros(object[v.at], v.from)
         IN /\ 0 \notin ToSet(sent')
            /\ Foreign \in ToSet(sent') => zeros = {}
            /\ n = v.size /\ zeros # {} => v.from + Len(sent') \in zeros]_vars
=============================================================================
