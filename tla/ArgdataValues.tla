---------------------------- MODULE ArgdataValues ---------------------------
(***************************************************************************)
(* Argdata values, which own nothing they are made of.                     *)
(*                                                                         *)
(* A value built with create_map or create_seq points to the program's     *)
(* arrays of pointers to its elements, one built with create_binary or     *)
(* create_encoded to the program's bytes.  delete frees the value alone.   *)
(* Addresses are used again: what a dangling pointer leads to may look     *)
(* like a value.  encode writes a value and its descriptors into two       *)
(* vectors that it first resizes, which may move their contents.           *)
(*                                                                         *)
(* A tree is written as the sequence of its tokens in prefix order, keys   *)
(* of a map before its values, and bytes are counted in tokens: an encoded *)
(* tree is its tokens with descriptor numbers replaced by positions in the *)
(* list that goes with them.  A text is a binary value here.               *)
(*                                                                         *)
(* The program does not use a value whose parts it has destroyed; that a   *)
(* call destroys them itself is within the model.  Everything runs on one  *)
(* thread: an action is a whole call.                                      *)
(***************************************************************************)
EXTENDS Integers, FiniteSets, SequencesExt

CONSTANTS
  Node,      \* addresses at which values can be allocated
  Static,    \* true_(), false_() and null(), which always exist
  True, False,  \* the first two of them
  Array,     \* places where the program keeps arrays of pointers to values
  Vector,    \* the program's byte vectors, each with one of descriptors
  Block,     \* addresses at which vectors can allocate
  Number,    \* numbers of create_int
  Fd,        \* descriptor numbers, from 0
  NoFd,      \* the number that as_fd returns by default
  MaxArray,  \* bound on the length of an array
  MaxBytes,  \* bound on the length of a byte vector
  Merge,     \* may the library list a descriptor that occurs twice once?
  Free,      \* an address with no value
  Gone,      \* an array or a vector's memory that does not exist
  Lost,      \* marks a value that is not what it was built as any more
  Nothing    \* the empty optional

Pointer == Node \cup Static
Place   == Node \cup Array \cup Block

VARIABLES
  node,      \* node[a]: the value at address a
  array,     \* array[k]: the pointers in k
  block,     \* block[b]: the bytes at b, of the blocks that are allocated
  vec,       \* vec[v]: the block of vector v
  fds,       \* fds[v]: the descriptors that go with its bytes
  built,     \* auxiliary: the tree a value was built as, and all it is made of
  sent       \* auxiliary: the tree that was last encoded into v

vars == <<node, array, block, vec, fds, built, sent>>

ASSUME PlaceAssumption ==
  /\ Node \cap Static = {} /\ Node \cap Array = {}
  /\ Node \cap Block = {} /\ Array \cap Block = {}
  /\ Gone \notin Block /\ IsFiniteSet(Node)
ASSUME BoolAssumption == True # False
ASSUME NumberAssumption ==
  /\ Fd \subseteq Nat /\ NoFd \notin Nat
  /\ Merge \subseteq BOOLEAN /\ MaxBytes \in Nat /\ MaxArray \in Nat

(* What new leaves behind.                                                 *)
Value == [kind : {"int"}, number : Number] \cup [kind : {"fd"}, number : Fd]
         \cup [kind : {"binary", "encoded"}, at : Block, size : Nat]
         \cup [kind : {"seq"}, values : Array, size : Nat]
         \cup [kind : {"map"}, keys : Array, values : Array, size : Nat]

-----------------------------------------------------------------------------
(* Trees.                                                                  *)

(* What a value says of itself, or what is not a value.                    *)
Token == ({"int"} \X Number) \cup ({"fd"} \X (Nat \cup {NoFd})) \cup ({"static"} \X Static)
         \cup ({"binary", "seq", "map"} \X Nat)
         \cup {<<"zero">>, <<"dangling">>, <<"overrun">>}

Trees == Seq(Token) \ {<<>>}

ASSUME NoValueAssumption ==
  /\ Free \notin Value /\ Gone \notin Seq(Pointer)
  /\ Lost \notin Trees /\ Lost \notin [tree : Trees, uses : SUBSET Place]
  /\ Lost \notin [bytes : Trees, list : Seq(Nat)]
  /\ Nothing \notin Int /\ Nothing # True

IntRange  == -2 .. 1       \* intmax_t and uintmax_t, with two bits
UintRange == 0 .. 3

(* Where the descriptors of a tree are, and where each is for the first    *)
(* time.                                                                   *)
IsFd(token)  == token[1] = "fd" /\ token[2] # NoFd
Fds(tree)    == {i \in DOMAIN tree : IsFd(tree[i])}
Firsts(tree) == {i \in Fds(tree) : \A j \in Fds(tree) : tree[j] = tree[i] => i <= j}

(* The tree with number[i] for the descriptor at i.                        *)
Tokens(tree, number) ==
  [i \in DOMAIN tree |-> IF IsFd(tree[i]) THEN <<"fd", number[i]>> ELSE tree[i]]

WithoutFds(tree) == Tokens(tree, [i \in Fds(tree) |-> NoFd])

(* argdata_get_buffer: the list of the descriptors at these places in the  *)
(* tree, and the bytes that refer to it, each descriptor to its own place  *)
(* or to an earlier one with the same; without a list they refer to        *)
(* nothing.                                                                *)
Rank(places, i) == Cardinality({j \in places : j < i})

Listed(tree, places) ==
  [k \in 1 .. Cardinality(places) |-> tree[CHOOSE i \in places : Rank(places, i) + 1 = k][2]]

Position(tree, places, i) ==
  Rank(places, CHOOSE j \in places : tree[j] = tree[i] /\ (i \in places => j = i))

Encoded(tree, places) ==
  IF places = {} THEN WithoutFds(tree)
  ELSE Tokens(tree, [i \in Fds(tree) |-> Position(tree, places, i)])

(* None, where no list is wanted, or all; the library may list a descriptor *)
(* that occurs twice once.                                                  *)
Lists(tree) == {{}} \cup {IF merge THEN Firsts(tree) ELSE Fds(tree) : merge \in Merge}

Resolved(bytes, list) ==
  Tokens(bytes, [i \in Fds(bytes) |-> LET k == bytes[i][2] + 1
                                      IN IF k \in DOMAIN list THEN list[k] ELSE NoFd])

Sequence(elements)  == <<<<"seq", Len(elements)>>>> \o FlattenSeq(elements)
Map(keys, values)   == <<<<"map", Len(keys)>>>> \o FlattenSeq(keys) \o FlattenSeq(values)
Binary(bytes)       == <<<<"binary", Len(bytes)>>>> \o bytes

-----------------------------------------------------------------------------
(* What following its pointers finds, for the value at p.                   *)

Bytes(at, n) == IF at \in DOMAIN block /\ n <= Len(block[at])
                THEN SubSeq(block[at], 1, n) ELSE <<<<"dangling">>>>

Found(k, n, trees) == [i \in 1 .. n |-> IF array[k] # Gone /\ n <= Len(array[k])
                                        THEN trees[array[k][i]] ELSE <<<<"dangling">>>>]

(* The tree of the value x, given those of the values x points to.         *)
Content(x, trees) ==
  IF x = Free THEN <<<<"dangling">>>> ELSE
  CASE x.kind = "int"     -> <<<<"int", x.number>>>>
    [] x.kind = "fd"      -> <<<<"fd", x.number>>>>
    [] x.kind = "binary"  -> Binary(Bytes(x.at, x.size))
    [] x.kind = "encoded" -> Bytes(x.at, x.size)
    [] x.kind = "seq"     -> Sequence(Found(x.values, x.size, trees))
    [] x.kind = "map"     -> Map(Found(x.keys, x.size, trees), Found(x.values, x.size, trees))

(* To depth d, the number of values that can contain one another.          *)
Read[d \in Nat] ==
  [p \in Pointer |-> IF p \in Static THEN <<<<"static", p>>>>
                     ELSE IF d = 0 THEN <<<<"dangling">>>> ELSE Content(node[p], Read[d - 1])]

Depth   == Cardinality(Node)
Tree(a) == Read[Depth][a]

Intact    == Static \cup {a \in Node : built[a] # Lost}
TreeOf(p) == IF p \in Static THEN <<<<"static", p>>>> ELSE built[p].tree
Known     == [p \in Intact |-> TreeOf(p)]
UsesOf(p) == IF p \in Static THEN {} ELSE built[p].uses
Without(x) == [a \in Node |-> IF built[a] # Lost /\ x \in built[a].uses THEN Lost ELSE built[a]]

-----------------------------------------------------------------------------
Init ==
  /\ node  = [a \in Node |-> Free]
  /\ array = [k \in Array |-> Gone]
  /\ block = [b \in {} |-> <<>>]
  /\ vec   = [v \in Vector |-> Gone]
  /\ fds   = [v \in Vector |-> <<>>]
  /\ built = [a \in Node |-> Lost]
  /\ sent  = [v \in Vector |-> Lost]

(* new value x at address a, made as tree t out of what it uses.           *)
Create(a, x, t, uses) ==
  /\ node[a] = Free
  /\ node'  = [node  EXCEPT ![a] = x]
  /\ built' = [built EXCEPT ![a] = [tree |-> t, uses |-> uses \cup {a}]]
  /\ UNCHANGED <<array, block, vec, fds, sent>>

create_int(a, i) == Create(a, [kind |-> "int", number |-> i], <<<<"int", i>>>>, {})
create_fd(a, f)  == Create(a, [kind |-> "fd",  number |-> f], <<<<"fd", f>>>>, {})

(* The bytes are those of a message.                                       *)
create_binary(a, v) ==
  /\ sent[v] # Lost
  /\ LET bytes == block[vec[v]]
     IN Create(a, [kind |-> "binary", at |-> vec[v], size |-> Len(bytes)],
               Binary(bytes), {vec[v]})

create_encoded(a, v) ==
  /\ sent[v] # Lost
  /\ LET bytes == block[vec[v]]
     IN Create(a, [kind |-> "encoded", at |-> vec[v], size |-> Len(bytes)],
               bytes, {vec[v]})

(* The elements that are the first n pointers in k.                        *)
Elements(k, n) == [i \in 1 .. n |-> TreeOf(array[k][i])]
UsedBy(k, n)   == {k} \cup UNION {UsesOf(array[k][i]) : i \in 1 .. n}
Readable(k)    == array[k] # Gone /\ \A i \in DOMAIN array[k] : array[k][i] \in Intact

create_seq(a, k) ==
  /\ Readable(k)
  /\ LET n == Len(array[k])
     IN Create(a, [kind |-> "seq", values |-> k, size |-> n],
               Sequence(Elements(k, n)), UsedBy(k, n))

(* Fault: a map has as many entries as the longer of its ranges.           *)
Entries_Longer(m, n) == IF m < n THEN n ELSE m

Entries(m, n) == IF m < n THEN m ELSE n

create_map(a, k, l) ==
  /\ Readable(k) /\ Readable(l)
  /\ LET n == Len(array[k])  m == Len(array[l])
         fewer == IF n < m THEN n ELSE m
     IN Create(a, [kind |-> "map", keys |-> k, values |-> l, size |-> Entries(n, m)],
               Map(Elements(k, fewer), Elements(l, fewer)),
               UsedBy(k, fewer) \cup UsedBy(l, fewer))

(* Fault: a value is freed with its elements.                              *)
Freed_Deep(a) ==
  {a} \cup IF node[a].kind \in {"seq", "map"} /\ array[node[a].values] # Gone
           THEN {array[node[a].values][i] : i \in DOMAIN array[node[a].values]} ELSE {}

(* operator delete.                                                        *)
Freed(a) == {a}

delete(a) ==
  /\ node[a] # Free
  /\ node'  = [b \in Node |-> IF b \in Freed(a) THEN Free ELSE node[b]]
  /\ built' = Without(a)
  /\ UNCHANGED <<array, block, vec, fds, sent>>

-----------------------------------------------------------------------------
(* encode.                                                                 *)

Zeros(n) == [i \in 1 .. n |-> <<"zero">>]
Resize(s, n, zero) == [i \in 1 .. n |-> IF i <= Len(s) THEN s[i] ELSE zero]

encoded_size(tree) == Len(tree)
n_fds(tree)        == Cardinality(Fds(tree))

(* The list is written over fds, and past its end if that is too small.    *)
Overwritten(s, list) ==
  IF Len(list) <= Len(s) THEN [k \in DOMAIN s |-> IF k \in DOMAIN list THEN list[k] ELSE s[k]]
                         ELSE <<NoFd>>

(* Fault: fds is not cut off after the list.                               *)
Trimmed_Announced(old, tree, list) == Overwritten(Resize(old, n_fds(tree), 0), list)

(* Fault: fds is not given the size that was announced.                     *)
Trimmed_NoResize(old, tree, list) == Resize(Overwritten(old, list), Len(list), 0)

(* fds, which had these numbers, once it is resized, written and resized   *)
(* again.                                                                  *)
Trimmed(old, tree, list) ==
  Resize(Overwritten(Resize(old, n_fds(tree), 0), list), Len(list), 0)

(* The bytes after a tree of this size is written over bytes of that size. *)
Written(tree, size) == IF Len(tree) <= size THEN Resize(tree, size, <<"zero">>)
                                            ELSE <<<<"overrun">>>>

(* resize leaves the bytes where they are if they do not grow; if they do, *)
(* it may have to take another block.                                      *)
MayMove(v, size, b) ==
  \/ b = vec[v]
  \/ b \in Block \ DOMAIN block /\ (vec[v] # Gone => size > Len(block[vec[v]]))

(* Encoding a value into the bytes it is made of writes over them while    *)
(* they are read, or reads them after they were freed.                     *)
encode(p, v, places) ==
  LET tree == Tree(p)
      size == encoded_size(tree)
      self == vec[v] \in UsesOf(p)
  IN
  /\ size \in 0 .. MaxBytes
  /\ \E b \in Block :
       /\ MayMove(v, size, b)
       /\ vec'   = [vec EXCEPT ![v] = b]
       /\ block' = [c \in (DOMAIN block \ {vec[v]}) \cup {b} |->
                      CASE c # b -> block[c]
                        [] c = b /\ self  -> Zeros(size)
                        [] c = b /\ ~self -> Written(Encoded(tree, places), size)]
  /\ fds'   = [fds EXCEPT ![v] = IF places = {} THEN <<>>
                                 ELSE Trimmed(fds[v], tree, Listed(tree, places))]
  /\ built' = Without(vec[v])
  /\ sent'  = [sent EXCEPT ![v] = IF self THEN Lost
                                  ELSE IF places = {} THEN WithoutFds(tree) ELSE TreeOf(p)]
  /\ UNCHANGED <<node, array>>

(* What the program does with its own arrays and vectors.                  *)
make_array(k, pointers) ==
  /\ array[k] = Gone
  /\ pointers \in Seq(Intact)
  /\ array' = [array EXCEPT ![k] = pointers]
  /\ UNCHANGED <<node, block, vec, fds, built, sent>>

drop_array(k) ==
  /\ array[k] # Gone
  /\ array' = [array EXCEPT ![k] = Gone]
  /\ built' = Without(k)
  /\ UNCHANGED <<node, block, vec, fds, sent>>

drop_vector(v) ==
  /\ vec[v] # Gone
  /\ block' = Restrict(block, DOMAIN block \ {vec[v]})
  /\ vec'   = [vec  EXCEPT ![v] = Gone]
  /\ fds'   = [fds  EXCEPT ![v] = <<>>]
  /\ sent'  = [sent EXCEPT ![v] = Lost]
  /\ built' = Without(vec[v])
  /\ UNCHANGED <<node, array>>

Next ==
  \/ \E a \in Node :
       \/ \E i \in Number : create_int(a, i)
       \/ \E f \in Fd : create_fd(a, f)
       \/ \E v \in Vector : create_binary(a, v) \/ create_encoded(a, v)
       \/ \E k \in Array : create_seq(a, k)
       \/ \E k, l \in Array : create_map(a, k, l)
       \/ delete(a)
  \/ \E p \in Intact, v \in Vector : \E places \in Lists(Tree(p)) : encode(p, v, places)
  \/ \E k \in Array, s \in BoundedSeq(Pointer, MaxArray) : make_array(k, s)
  \/ \E k \in Array : drop_array(k)
  \/ \E v \in Vector : drop_vector(v)

Spec == Init /\ [][Next]_vars

-----------------------------------------------------------------------------
(* get_* and as_*.                                                         *)

(* What the library sees of the value at a: its kind, and its number or    *)
(* size.                                                                   *)
Seen(a) ==
  LET x == node[a]
  IN IF x.kind = "encoded" THEN Bytes(x.at, x.size)[1]
     ELSE <<x.kind, IF x.kind \in {"int", "fd"} THEN x.number ELSE x.size>>

get(a, kind, Valid) ==
  IF Seen(a)[1] = kind /\ Seen(a)[2] \in Valid THEN Seen(a)[2] ELSE Nothing

(* Fault: the default of as_fd is a descriptor.                            *)
value_or_Zero(got, default) == IF got = Nothing THEN 0 ELSE got

value_or(got, default) == IF got = Nothing THEN default ELSE got

get_int(a)    == get(a, "int", IntRange)
get_uint(a)   == get(a, "int", UintRange)
get_bool(a)   == get(a, "static", {True, False})
get_fd(a)     == get(a, "fd", Nat)
get_binary(a) == get(a, "binary", Nat)
get_map(a)    == get(a, "map", Nat)
get_seq(a)    == get(a, "seq", Nat)

(* as_map and as_seq are here only where they succeed: otherwise they      *)
(* return what the library left in start_it_.                              *)
Answers(a) ==
  [as_int  |-> value_or(get_int(a), 0),      as_uint   |-> value_or(get_uint(a), 0),
   as_bool |-> value_or(get_bool(a), False), as_binary |-> value_or(get_binary(a), 0),
   as_fd   |-> value_or(get_fd(a), NoFd),
   get_map |-> get_map(a),                   get_seq   |-> get_seq(a)]

-----------------------------------------------------------------------------
(* Every variable has its type.                                            *)
TypeOK ==
  /\ node  \in [Node -> Value \cup {Free}]
  /\ array \in [Array -> BoundedSeq(Pointer, MaxArray) \cup {Gone}]
  /\ vec   \in [Vector -> Block \cup {Gone}]
  /\ block \in [{vec[v] : v \in Vector} \ {Gone} -> Seq(Token)]
  /\ fds   \in [Vector -> Seq(Nat)]
  /\ built \in [Node -> [tree : Trees, uses : SUBSET Place] \cup {Lost}]
  /\ sent  \in [Vector -> Trees \cup {Lost}]

(* A value whose parts were left alone reads as the tree it was built as,  *)
(* whatever was deleted, moved, encoded or put at a reused address.        *)
ReadsWhatWasBuilt == \A a \in Node : built[a] # Lost => Tree(a) = built[a].tree

(* The pointers the value x consists of.                                   *)
Members(k, n) == {array[k][i] : i \in 1 .. n}
Pointers(x) ==
  CASE x.kind = "seq" -> Members(x.values, x.size)
    [] x.kind = "map" -> Members(x.keys, x.size) \cup Members(x.values, x.size)
    [] OTHER          -> {}

(* The same one level deep, and so inductive: such a value is still there, *)
(* and all it points to is such a value, so that whatever destroys a part  *)
(* of its parts is known to destroy it.                                    *)
PartsIntact ==
  \A a \in Node : built[a] # Lost =>
    /\ node[a] # Free
    /\ Content(node[a], Known) = built[a].tree
    /\ Pointers(node[a]) \subseteq Intact
    /\ \A p \in Pointers(node[a]) : UsesOf(p) \subseteq built[a].uses

(* What encode wrote gives back the value, with its descriptors where the  *)
(* list was asked for; and the list has no descriptor the bytes do not     *)
(* refer to, which proc_exec would hand to the new program.                *)
EncodesTheValue ==
  \A v \in Vector : sent[v] # Lost =>
    /\ Resolved(block[vec[v]], fds[v]) = sent[v]
    /\ \A k \in DOMAIN fds[v] : <<"fd", k - 1>> \in ToSet(block[vec[v]])

(* Seen through its addresses, a program's use of argdata is one of values *)
(* that never change.                                                      *)
values   == [a \in Node |-> IF built[a] = Lost THEN Lost ELSE Tree(a)]
answers  == [a \in Node |-> IF built[a] = Lost THEN Lost ELSE Answers(a)]
messages == [v \in Vector |-> IF sent[v] = Lost THEN Lost
                              ELSE [bytes |-> block[vec[v]], list |-> fds[v]]]

Values == INSTANCE ImmutableValues WITH
  Name <- Node, Always <- Static, Message <- Vector, None <- Lost,
  value <- values, answer <- answers, message <- messages

ImplementsImmutableValues == Values!Spec
=============================================================================
