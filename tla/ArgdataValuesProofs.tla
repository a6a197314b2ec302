------------------------- MODULE ArgdataValuesProofs ------------------------
(***************************************************************************)
(* Proofs about ArgdataValues, for any number of addresses, arrays,        *)
(* vectors and descriptors: its types, that values read as they were       *)
(* built, that encode writes what gives the value back, and that all this  *)
(* implements ImmutableValues.                                             *)
(*                                                                         *)
(* A value is sound when the memory that it points to exists and is listed *)
(* in what it uses, as is all that its elements use.  Then a step that     *)
(* destroys or writes over something makes those values Lost that could    *)
(* tell, and the others stay sound; and a new value is made of sound ones. *)
(* That blocks belong to one vector each is needed for encode: what it     *)
(* writes over is in use through the vector it was given alone.            *)
(*                                                                         *)
(* Soundness is one level deep.  That a whole tree is read follows by      *)
(* induction on the number of addresses a value uses: an element uses all  *)
(* but at least one of those its container uses.  Read, as the list of     *)
(* descriptors and the flattening of trees, is defined by recursion, for   *)
(* which InductionTheorems has what is needed.                             *)
(***************************************************************************)
EXTENDS ArgdataValues, InductionTheorems

-----------------------------------------------------------------------------
(* Tokens, trees and their lists of descriptors.                           *)

(* What the second part of a token is.                                     *)
LEMMA TokenPairs ==
  ASSUME NEW t \in Token, t[1] \in {"int", "fd", "binary", "seq", "map", "static"}
  PROVE  /\ t = <<t[1], t[2]>>
         /\ t[1] = "fd" => t[2] \in Nat \cup {NoFd}
         /\ t[1] = "static" => t[2] \in Static
         /\ t[1] \in {"binary", "seq", "map"} => t[2] \in Nat
BY DEF Token

(* A descriptor in a tree is a number.                                     *)
LEMMA FdToken ==
  ASSUME NEW t \in Token, IsFd(t)
  PROVE  t = <<"fd", t[2]>> /\ t[2] \in Nat
BY TokenPairs DEF IsFd

(* Every value has its first token.                                        *)
LEMMA IsToken ==
  /\ \A n \in Number : <<"int", n>> \in Token
  /\ \A n \in Nat \cup {NoFd} : <<"fd", n>> \in Token
  /\ \A p \in Static : <<"static", p>> \in Token
  /\ \A n \in Nat : <<"binary", n>> \in Token /\ <<"seq", n>> \in Token /\ <<"map", n>> \in Token
  /\ <<"zero">> \in Token /\ <<"dangling">> \in Token /\ <<"overrun">> \in Token
BY DEF Token

(* Replacing numbers of descriptors keeps a tree a tree, of the same       *)
(* length.                                                                 *)
LEMMA TokensType ==
  ASSUME NEW tree \in Seq(Token), NEW number,
         \A i \in Fds(tree) : number[i] \in Nat \cup {NoFd}
  PROVE  /\ Tokens(tree, number) \in Seq(Token)
         /\ Len(Tokens(tree, number)) = Len(tree)
         /\ DOMAIN Tokens(tree, number) = 1 .. Len(tree)
         /\ Len(tree) \in Nat /\ DOMAIN tree = 1 .. Len(tree)
<1> DEFINE t(i) == IF IsFd(tree[i]) THEN <<"fd", number[i]>> ELSE tree[i]
<1>1. Len(tree) \in Nat /\ DOMAIN tree = 1 .. Len(tree) /\ \A i \in DOMAIN tree : tree[i] \in Token
  OBVIOUS
<1>2. \A i \in DOMAIN tree : t(i) \in Token
  BY <1>1, IsToken DEF Fds
<1>3. Tokens(tree, number) = [i \in 1 .. Len(tree) |-> t(i)]
  BY <1>1 DEF Tokens
<1> HIDE DEF t
<1> QED
  BY <1>1, <1>2, <1>3

(* Where the descriptor of each place is in the list: after those of the   *)
(* places before it, and nothing else is in the list.                      *)
LEMMA ListedAt ==
  ASSUME NEW tree \in Seq(Token), NEW places, places \subseteq Fds(tree)
  PROVE  /\ IsFiniteSet(places) /\ Cardinality(places) \in Nat
         /\ Listed(tree, places) \in Seq(Nat)
         /\ DOMAIN Listed(tree, places) = 1 .. Cardinality(places)
         /\ \A j \in places : /\ Rank(places, j) \in Nat
                              /\ Rank(places, j) + 1 \in DOMAIN Listed(tree, places)
                              /\ Listed(tree, places)[Rank(places, j) + 1] = tree[j][2]
         /\ \A k \in DOMAIN Listed(tree, places) : \E j \in places : Rank(places, j) + 1 = k
<1> DEFINE n == Cardinality(places)
           at(k) == CHOOSE i \in places : Rank(places, i) + 1 = k
<1>1. places \in SUBSET (1 .. Len(tree)) /\ Len(tree) \in Nat
  BY DEF Fds
<1>2. IsFiniteSet(places) /\ n \in Nat
  <2>1. IsFiniteSet(1 .. Len(tree))
    BY <1>1, FS_Interval
  <2> QED
    BY <1>1, <2>1, FS_Subset, FS_CardinalityType
<1>3. places \in SUBSET Nat
  BY <1>1
<1>4. /\ \A i \in places : Rank(places, i) \in 0 .. n - 1
      /\ \A i, k \in places : i < k => Rank(places, i) < Rank(places, k)
      /\ \A r \in 0 .. n - 1 : \E i \in places : Rank(places, i) = r
  BY <1>2, <1>3, Ranks DEF Rank
<1> HIDE DEF n
<1>5. ASSUME NEW k \in 1 .. n
      PROVE  at(k) \in places /\ Rank(places, at(k)) + 1 = k
  <2>1. k - 1 \in 0 .. n - 1
    BY <1>2
  <2>2. PICK i \in places : Rank(places, i) = k - 1
    BY <1>4, <2>1
  <2>3. Rank(places, i) + 1 = k
    BY <2>2
  <2> QED
    BY <2>3
<1>6. \A i, j \in places : Rank(places, i) + 1 = Rank(places, j) + 1 => i = j
  <2> SUFFICES ASSUME NEW i \in places, NEW j \in places, Rank(places, i) + 1 = Rank(places, j) + 1
               PROVE  i = j
    OBVIOUS
  <2>1. Rank(places, i) \in Nat /\ Rank(places, j) \in Nat /\ i \in Nat /\ j \in Nat
    BY <1>2, <1>3, <1>4
  <2>2. ~ i < j /\ ~ j < i
    BY <1>4, <2>1
  <2> QED
    BY <2>1, <2>2
<1>7. Listed(tree, places) = [k \in 1 .. n |-> tree[at(k)][2]]
  BY DEF Listed, n
<1> HIDE DEF at
<1>8. \A j \in places : tree[j] \in Token /\ IsFd(tree[j])
  BY DEF Fds
<1>9. \A k \in 1 .. n : tree[at(k)][2] \in Nat
  BY <1>5, <1>8, FdToken
<1>10. Listed(tree, places) \in Seq(Nat) /\ DOMAIN Listed(tree, places) = 1 .. n
  BY <1>2, <1>7, <1>9
<1>11. ASSUME NEW j \in places
       PROVE  /\ Rank(places, j) \in Nat
              /\ Rank(places, j) + 1 \in DOMAIN Listed(tree, places)
              /\ Listed(tree, places)[Rank(places, j) + 1] = tree[j][2]
  <2>1. Rank(places, j) \in Nat /\ Rank(places, j) + 1 \in 1 .. n
    BY <1>2, <1>4
  <2>2. at(Rank(places, j) + 1) = j
    BY <1>5, <1>6, <2>1
  <2> QED
    BY <1>7, <2>1, <2>2
<1> QED
  BY <1>2, <1>5, <1>10, <1>11 DEF n

(* The places in a list stand for every descriptor there is.               *)
Covers(places, tree) ==
  /\ places \subseteq Fds(tree)
  /\ \A i \in Fds(tree) : \E j \in places : tree[j] = tree[i] /\ (i \in places => j = i)

(* The lists that encode may write cover all descriptors of the tree.      *)
LEMMA ListsCover ==
  ASSUME NEW tree \in Seq(Token), NEW places \in Lists(tree), places # {}
  PROVE  Covers(places, tree)
<1>1. CASE places = Fds(tree)
  BY <1>1 DEF Covers
<1>2. CASE places = Firsts(tree)
  <2>1. ASSUME NEW i \in Fds(tree)
        PROVE  \E j \in places : tree[j] = tree[i] /\ (i \in places => j = i)
    <3> DEFINE A == {j \in Fds(tree) : tree[j] = tree[i]}
    <3>1. A \subseteq Nat /\ i \in A
      BY DEF Fds
    <3>2. PICK j \in A : \A k \in A : j <= k
      <4> HIDE DEF A
      <4> QED
        BY <3>1, Least
    <3>3. j \in places
      BY <1>2, <3>2 DEF Firsts
    <3>4. i \in places => i <= j
      BY <1>2, <3>2 DEF Firsts
    <3>5. j <= i /\ i \in Nat /\ j \in Nat
      BY <3>1, <3>2
    <3> QED
      BY <3>2, <3>3, <3>4, <3>5
  <2> QED
    BY <1>2, <2>1 DEF Covers, Firsts
<1> QED
  BY <1>1, <1>2 DEF Lists

(* What is encoded with a list means the same with it, and needs all of it. *)
LEMMA EncodedWithList ==
  ASSUME NEW tree \in Seq(Token), NEW places, Covers(places, tree), places # {}
  PROVE  /\ Encoded(tree, places) \in Seq(Token)
         /\ Len(Encoded(tree, places)) = Len(tree)
         /\ Resolved(Encoded(tree, places), Listed(tree, places)) = tree
         /\ \A k \in DOMAIN Listed(tree, places) :
              <<"fd", k - 1>> \in ToSet(Encoded(tree, places))
<1> DEFINE list  == Listed(tree, places)
           of(i) == CHOOSE j \in places : tree[j] = tree[i] /\ (i \in places => j = i)
           position == [i \in Fds(tree) |-> Position(tree, places, i)]
           bytes == Encoded(tree, places)
           number == [i \in Fds(bytes) |-> LET k == bytes[i][2] + 1
                                           IN IF k \in DOMAIN list THEN list[k] ELSE NoFd]
<1>1. \A i \in Fds(tree) : of(i) \in places /\ tree[of(i)] = tree[i] /\ (i \in places => of(i) = i)
  BY DEF Covers
<1>2. \A i \in Fds(tree) : position[i] = Rank(places, of(i))
  BY DEF Position
<1> HIDE DEF of, position
<1>3. /\ \A j \in places : /\ Rank(places, j) \in Nat /\ Rank(places, j) + 1 \in DOMAIN list
                           /\ list[Rank(places, j) + 1] = tree[j][2]
      /\ \A k \in DOMAIN list : \E j \in places : Rank(places, j) + 1 = k
      /\ places \subseteq Fds(tree)
  BY ListedAt DEF Covers
<1> HIDE DEF list
<1>4. bytes = Tokens(tree, position)
  BY DEF Encoded, position
<1>5. \A i \in Fds(tree) : /\ position[i] \in Nat /\ position[i] + 1 \in DOMAIN list
                           /\ list[position[i] + 1] = tree[i][2]
  BY <1>1, <1>2, <1>3
<1> HIDE DEF bytes
<1>6. /\ bytes \in Seq(Token) /\ Len(bytes) = Len(tree) /\ DOMAIN bytes = 1 .. Len(tree)
      /\ Len(tree) \in Nat /\ DOMAIN tree = 1 .. Len(tree)
  BY <1>4, <1>5, TokensType
<1>7. \A i \in DOMAIN tree : bytes[i] = IF i \in Fds(tree) THEN <<"fd", position[i]>> ELSE tree[i]
  BY <1>4 DEF Tokens, Fds
<1>8. Fds(bytes) = Fds(tree)
  <2>1. ASSUME NEW i \in DOMAIN tree
        PROVE  IsFd(bytes[i]) <=> i \in Fds(tree)
    <3>1. CASE i \in Fds(tree)
      <4>1. PICK n : n = position[i]
        OBVIOUS
      <4>2. bytes[i] = <<"fd", n>> /\ n # NoFd
        BY <1>5, <1>7, <3>1, <4>1, NumberAssumption
      <4> QED
        BY <3>1, <4>2 DEF IsFd
    <3>2. CASE i \notin Fds(tree)
      BY <1>7, <3>2 DEF Fds
    <3> QED
      BY <3>1, <3>2
  <2> QED
    BY <1>6, <2>1 DEF Fds
<1>9. ASSUME NEW i \in Fds(tree)
      PROVE  number[i] = tree[i][2] /\ tree[i] = <<"fd", tree[i][2]>>
  <2>1. i \in DOMAIN tree /\ tree[i] \in Token /\ IsFd(tree[i])
    BY DEF Fds
  <2>2. bytes[i][2] + 1 = position[i] + 1
    <3>1. PICK n : n = position[i]
      OBVIOUS
    <3>2. bytes[i] = <<"fd", n>>
      BY <1>7, <2>1, <3>1
    <3> QED
      BY <3>1, <3>2
  <2> QED
    BY <1>5, <1>8, <2>1, <2>2, FdToken
<1>10. Resolved(bytes, list) = Tokens(bytes, number)
  BY DEF Resolved
<1> HIDE DEF number
<1>11. Tokens(bytes, number) = tree
  <2>1. ASSUME NEW i \in 1 .. Len(tree)
        PROVE  Tokens(bytes, number)[i] = tree[i]
    <3>1. Tokens(bytes, number)[i] = IF i \in Fds(bytes) THEN <<"fd", number[i]>> ELSE bytes[i]
      BY <1>6 DEF Tokens, Fds
    <3> QED
      BY <1>6, <1>7, <1>8, <1>9, <3>1
  <2>2. Tokens(bytes, number) = [i \in 1 .. Len(tree) |-> Tokens(bytes, number)[i]]
    BY <1>6 DEF Tokens
  <2>3. tree = [i \in 1 .. Len(tree) |-> tree[i]]
    BY <1>6
  <2> QED
    BY <2>1, <2>2, <2>3
<1>12. ASSUME NEW k \in DOMAIN list
       PROVE  <<"fd", k - 1>> \in ToSet(bytes)
  <2>1. PICK j \in places : Rank(places, j) + 1 = k
    BY <1>3
  <2>2. Rank(places, j) = k - 1 /\ j \in Fds(tree) /\ j \in DOMAIN tree
    BY <1>3, <2>1 DEF Fds
  <2>3. bytes[j] = <<"fd", k - 1>>
    BY <1>1, <1>2, <1>7, <2>2
  <2> QED
    BY <1>6, <2>2, <2>3 DEF ToSet
<1> QED
  BY <1>6, <1>10, <1>11, <1>12 DEF bytes, list

(* Without a list it gives back the tree without its descriptors.          *)
LEMMA EncodedWithoutList ==
  ASSUME NEW tree \in Seq(Token)
  PROVE  /\ WithoutFds(tree) \in Seq(Token)
         /\ Len(WithoutFds(tree)) = Len(tree)
         /\ Resolved(WithoutFds(tree), <<>>) = WithoutFds(tree)
<1> DEFINE none == [i \in Fds(tree) |-> NoFd]
           bytes == WithoutFds(tree)
<1>1. bytes = Tokens(tree, none) /\ \A i \in Fds(tree) : none[i] = NoFd
  BY DEF WithoutFds
<1> HIDE DEF none, bytes
<1>2. /\ bytes \in Seq(Token) /\ Len(bytes) = Len(tree) /\ DOMAIN bytes = 1 .. Len(tree)
      /\ DOMAIN tree = 1 .. Len(tree)
  BY <1>1, TokensType
<1>3. \A i \in DOMAIN bytes : ~ IsFd(bytes[i])
  BY <1>1, <1>2 DEF Tokens, IsFd, Fds
<1>4. Resolved(bytes, <<>>) = [i \in DOMAIN bytes |-> bytes[i]]
  BY <1>3 DEF Resolved, Tokens
<1> QED
  BY <1>2, <1>4 DEF bytes

-----------------------------------------------------------------------------
(* The invariant.                                                          *)

(* No two vectors have the same memory.                                    *)
Owned ==
  /\ \A v, w \in Vector : vec[v] = vec[w] /\ vec[v] # Gone => v = w
  /\ \A v \in Vector : sent[v] # Lost => vec[v] # Gone

(* What the value at a points to, at one remove.                           *)
HasArray(a, k) == k \in Array /\ k \in built[a].uses /\ array[k] # Gone

(* The memory of the value at a is there, and counted among what it uses.  *)
HasMemory(a) ==
  LET x == node[a]
  IN /\ x.kind \in {"binary", "encoded"} =>
          x.at \in DOMAIN block /\ x.size <= Len(block[x.at]) /\ x.at \in built[a].uses
     /\ x.kind \in {"seq", "map"} => HasArray(a, x.values)
     /\ x.kind = "map" => HasArray(a, x.keys)

(* The value at a is what it was built as, one level deep, and all that    *)
(* its elements use, it uses too; they do not use it.                      *)
Sound(a) ==
  /\ node[a] \in Value
  /\ a \in built[a].uses
  /\ \A b \in built[a].uses \cap Node : node[b] # Free
  /\ HasMemory(a)
  /\ Content(node[a], Known) = built[a].tree
  /\ Pointers(node[a]) \subseteq Intact
  /\ \A p \in Pointers(node[a]) : UsesOf(p) \subseteq built[a].uses \ {a}

(* The message in v is what was sent.                                      *)
Delivered(v) ==
  /\ block[vec[v]] # <<>>
  /\ Resolved(block[vec[v]], fds[v]) = sent[v]
  /\ \A k \in DOMAIN fds[v] : <<"fd", k - 1>> \in ToSet(block[vec[v]])

IInv ==
  /\ TypeOK
  /\ Owned
  /\ \A a \in Node : built[a] # Lost => Sound(a)
  /\ \A v \in Vector : sent[v] # Lost => Delivered(v)

-----------------------------------------------------------------------------
(* The types of what is in memory and of what is read there.               *)

(* The sequences of a bounded length are those of that length at most.     *)
LEMMA BoundedSeqs ==
  ASSUME NEW S, NEW n \in Nat
  PROVE  \A s : s \in BoundedSeq(S, n) <=> s \in Seq(S) /\ Len(s) <= n
BY DEF BoundedSeq, SeqOf

(* What the types say of memory, one fact at a time.                       *)
LEMMA Memory ==
  ASSUME TypeOK
  PROVE  /\ DOMAIN block = {vec[v] : v \in Vector} \ {Gone}
         /\ \A b \in DOMAIN block : b \in Block /\ block[b] \in Seq(Token)
         /\ \A k \in Array : array[k] # Gone =>
              array[k] \in Seq(Pointer) /\ Len(array[k]) \in 0 .. MaxArray
         /\ \A a \in Node : built[a] # Lost =>
              built[a].tree \in Trees /\ built[a].uses \subseteq Place
<1>1. \A k \in Array : array[k] # Gone =>
        array[k] \in Seq(Pointer) /\ Len(array[k]) \in 0 .. MaxArray
  <2>1. MaxArray \in Nat
    BY NumberAssumption
  <2>2. \A k \in Array : array[k] # Gone => array[k] \in BoundedSeq(Pointer, MaxArray)
    BY DEF TypeOK
  <2>3. \A k \in Array : array[k] # Gone => array[k] \in Seq(Pointer) /\ Len(array[k]) <= MaxArray
    BY <2>1, <2>2, BoundedSeqs
  <2> QED
    BY <2>1, <2>3
<1>2. DOMAIN block = {vec[v] : v \in Vector} \ {Gone}
  BY DEF TypeOK
<1>3. \A b \in DOMAIN block : b \in Block /\ block[b] \in Seq(Token)
  BY DEF TypeOK
<1>4. \A a \in Node : built[a] # Lost =>
        built[a].tree \in Trees /\ built[a].uses \subseteq Place
  BY DEF TypeOK
<1> QED
  BY <1>1, <1>2, <1>3, <1>4

(* What may be used is at an address, and has a tree.                      *)
LEMMA IntactTrees ==
  ASSUME IInv, NEW p \in Intact
  PROVE  p \in Pointer /\ TreeOf(p) \in Trees
<1>1. CASE p \in Static
  <2>1. <<"static", p>> \in Token
    BY <1>1, IsToken
  <2> QED
    BY <1>1, <2>1 DEF TreeOf, Pointer, Trees
<1>2. CASE p \notin Static
  BY <1>2, Memory DEF IInv, Intact, TreeOf, Pointer
<1> QED
  BY <1>1, <1>2

(* A tree starts with a token; what follows may be anything.               *)
LEMMA Headed ==
  ASSUME NEW token \in Token, NEW rest \in Seq(Token)
  PROVE  <<token>> \o rest \in Trees
BY ConcatProperties DEF Trees

(* A container of trees is a tree.                                         *)
LEMMA ContainerTypes ==
  ASSUME NEW s \in Seq(Seq(Token)), NEW t \in Seq(Seq(Token)), NEW bytes \in Seq(Token)
  PROVE  Sequence(s) \in Trees /\ Map(s, t) \in Trees /\ Binary(bytes) \in Trees
<1>1. FlattenSeq(s) \in Seq(Token) /\ FlattenSeq(t) \in Seq(Token)
  BY FlattenType
<1>2. <<"seq", Len(s)>> \in Token /\ <<"map", Len(s)>> \in Token /\ <<"binary", Len(bytes)>> \in Token
  <2>1. Len(s) \in Nat /\ Len(bytes) \in Nat
    OBVIOUS
  <2> QED
    BY <2>1, IsToken
<1>3. /\ <<<<"map", Len(s)>>>> \o FlattenSeq(s) \in Trees
      /\ <<<<"map", Len(s)>>>> \o FlattenSeq(s) \in Seq(Token)
  BY <1>1, <1>2, Headed DEF Trees
<1>4. Map(s, t) \in Trees
  <2> DEFINE u == <<<<"map", Len(s)>>>> \o FlattenSeq(s)
  <2>1. u \in Seq(Token) /\ u # <<>> /\ Map(s, t) = u \o FlattenSeq(t)
    BY <1>3 DEF Map, Trees
  <2> HIDE DEF u
  <2> QED
    BY <1>1, <2>1, ConcatProperties, ConcatEqualIffEmpty DEF Trees
<1> QED
  BY <1>1, <1>2, <1>4, Headed DEF Sequence, Binary

(* The members of a value of each kind.                                    *)
LEMMA Kinds ==
  ASSUME NEW x \in Value
  PROVE  /\ x # Free
         /\ x.kind \in {"int", "fd", "binary", "encoded", "seq", "map"}
         /\ x.kind = "int" => x.number \in Number
         /\ x.kind = "fd" => x.number \in Fd
         /\ x.kind \in {"binary", "encoded"} => x.at \in Block
         /\ x.kind \in {"seq", "map"} => x.values \in Array
         /\ x.kind = "map" => x.keys \in Array
         /\ x.kind \in {"binary", "encoded", "seq", "map"} => x.size \in Nat
BY NoValueAssumption DEF Value

(* What is read at an address, and through an array, is made of tokens,    *)
(* whatever is there.                                                      *)
LEMMA BytesType ==
  ASSUME TypeOK, NEW at, NEW n \in Nat
  PROVE  Bytes(at, n) \in Seq(Token)
<1>1. CASE at \in DOMAIN block /\ n <= Len(block[at])
  <2>1. block[at] \in Seq(Token)
    BY <1>1, Memory
  <2>2. SubSeq(block[at], 1, n) \in Seq(Token)
    BY <1>1, <2>1, SubSeqProperties
  <2> QED
    BY <1>1, <2>2 DEF Bytes
<1>2. CASE ~ (at \in DOMAIN block /\ n <= Len(block[at]))
  BY <1>2, IsToken DEF Bytes
<1> QED
  BY <1>1, <1>2

(* The same for what is found through an array.                            *)
LEMMA FoundType ==
  ASSUME TypeOK, NEW k \in Array, NEW n \in Nat, NEW f \in [Pointer -> Seq(Token)]
  PROVE  Found(k, n, f) \in Seq(Seq(Token))
<1> DEFINE e(i) == IF array[k] # Gone /\ n <= Len(array[k])
                   THEN f[array[k][i]] ELSE <<<<"dangling">>>>
<1>1. \A i \in 1 .. n : e(i) \in Seq(Token)
  <2>1. <<<<"dangling">>>> \in Seq(Token)
    BY IsToken
  <2>2. CASE array[k] # Gone /\ n <= Len(array[k])
    <3>1. \A i \in 1 .. n : array[k][i] \in Pointer
      BY <2>2, Memory
    <3> QED
      BY <2>2, <3>1
  <2> QED
    BY <2>1, <2>2
<1>2. Found(k, n, f) = [i \in 1 .. n |-> e(i)]
  BY DEF Found
<1> HIDE DEF e
<1> QED
  BY <1>1, <1>2

(* And so for each value.                                                  *)
LEMMA ContentType ==
  ASSUME TypeOK, NEW x \in Value \cup {Free}, NEW f \in [Pointer -> Seq(Token)]
  PROVE  Content(x, f) \in Seq(Token)
<1>1. CASE x = Free
  BY <1>1, IsToken DEF Content
<1>2. CASE x \in Value /\ x.kind \in {"int", "fd"}
  <2>1. <<x.kind, x.number>> \in Token
    BY <1>2, Kinds, IsToken, NumberAssumption
  <2>2. Content(x, f) = <<<<x.kind, x.number>>>>
    BY <1>2, Kinds DEF Content
  <2> QED
    BY <2>1, <2>2
<1>3. CASE x \in Value /\ x.kind \in {"binary", "encoded"}
  <2>1. Bytes(x.at, x.size) \in Seq(Token)
    BY <1>3, Kinds, BytesType
  <2>2. Binary(Bytes(x.at, x.size)) \in Seq(Token)
    BY <2>1, ContainerTypes, EmptySeq DEF Trees
  <2> QED
    BY <1>3, <2>1, <2>2, Kinds DEF Content
<1>4. CASE x \in Value /\ x.kind = "seq"
  <2>1. Found(x.values, x.size, f) \in Seq(Seq(Token))
    BY <1>4, Kinds, FoundType
  <2>2. Sequence(Found(x.values, x.size, f)) \in Seq(Token)
    BY <2>1, ContainerTypes, EmptySeq DEF Trees
  <2> QED
    BY <1>4, <2>2, Kinds DEF Content
<1>5. CASE x \in Value /\ x.kind = "map"
  <2>1. /\ Found(x.values, x.size, f) \in Seq(Seq(Token))
        /\ Found(x.keys, x.size, f) \in Seq(Seq(Token))
    BY <1>5, Kinds, FoundType
  <2>2. Map(Found(x.keys, x.size, f), Found(x.values, x.size, f)) \in Seq(Token)
    BY <2>1, ContainerTypes, EmptySeq DEF Trees
  <2> QED
    BY <1>5, <2>2, Kinds DEF Content
<1> QED
  BY <1>1, <1>2, <1>3, <1>4, <1>5, Kinds

(* Read is what its definition says.                                       *)
LEMMA ReadStep ==
  ASSUME TypeOK, NEW d \in Nat
  PROVE  Read[d] = [p \in Pointer |-> IF p \in Static THEN <<<<"static", p>>>>
                                      ELSE IF d = 0 THEN <<<<"dangling">>>>
                                      ELSE Content(node[p], Read[d - 1])]
<1> DEFINE S == [Pointer -> Seq(Token)]
           level(e, s) == [p \in Pointer |-> IF p \in Static THEN <<<<"static", p>>>>
                                             ELSE IF e = 0 THEN <<<<"dangling">>>>
                                             ELSE Content(node[p], s)]
           Reads(g) == g = [e \in Nat |-> level(e, g[e - 1])]
           F == [e \in Nat |-> [s \in S |-> level(e + 1, s)]]
<1>1. ASSUME NEW e \in Nat, NEW s \in S
      PROVE  level(e, s) \in S
  <2>1. \A p \in Pointer \ Static : node[p] \in Value \cup {Free}
    BY DEF TypeOK, Pointer
  <2>2. \A p \in Pointer \ Static : Content(node[p], s) \in Seq(Token)
    BY <2>1, ContentType
  <2>3. <<<<"dangling">>>> \in Seq(Token) /\ \A p \in Static : <<<<"static", p>>>> \in Seq(Token)
    BY IsToken
  <2> QED
    BY <2>2, <2>3
<1>2. PICK s \in S : s = level(0, 0)
  <2>1. <<<<"dangling">>>> \in Seq(Token) /\ \A p \in Static : <<<<"static", p>>>> \in Seq(Token)
    BY IsToken
  <2> QED
    BY <2>1
<1>3. \A t : level(0, t) = s
  BY <1>2
<1> HIDE DEF level, S
<1>4. F \in [Nat -> [S -> S]]
  BY <1>1
<1>5. PICK f : Iterates(f, S, s, F)
  <2> HIDE DEF F
  <2> QED
    BY <1>4, Recursion
<1>6. ASSUME NEW e \in Nat
      PROVE  f[e] = level(e, f[e - 1])
  <2>1. CASE e = 0
    BY <1>3, <1>5, <2>1 DEF Iterates
  <2>2. CASE e # 0
    <3>1. e - 1 \in Nat /\ e - 1 + 1 = e
      BY <2>2
    <3>2. f[e - 1] \in S /\ f[e - 1 + 1] = F[e - 1][f[e - 1]]
      BY <1>5, <3>1 DEF Iterates
    <3>3. F[e - 1][f[e - 1]] = level(e - 1 + 1, f[e - 1])
      BY <3>1, <3>2
    <3> QED
      BY <3>1, <3>2, <3>3
  <2> QED
    BY <2>1, <2>2
<1>7. Reads(f)
  BY <1>5, <1>6 DEF Iterates
<1>8. Read = CHOOSE g : Reads(g)
  BY DEF Read, level
<1>9. Reads(Read)
  <2> HIDE DEF Reads
  <2> QED
    BY <1>7, <1>8
<1> QED
  BY <1>9 DEF level

-----------------------------------------------------------------------------
(* What a value that is what it was built as reads as.                     *)

(* What a value of each kind points to.                                    *)
LEMMA PointersByKind ==
  ASSUME NEW x
  PROVE  /\ x.kind = "seq" => Pointers(x) = Members(x.values, x.size)
         /\ x.kind = "map" =>
              Pointers(x) = Members(x.keys, x.size) \cup Members(x.values, x.size)
         /\ x.kind \notin {"seq", "map"} => Pointers(x) = {}
BY DEF Pointers

(* The tree of x depends on the trees of what it points to alone.          *)
LEMMA ContentOfPointers ==
  ASSUME NEW x \in Value, NEW f, NEW g, \A p \in Pointers(x) : f[p] = g[p]
  PROVE  Content(x, f) = Content(x, g)
<1>1. ASSUME NEW k, NEW n, Members(k, n) \subseteq Pointers(x)
      PROVE  Found(k, n, f) = Found(k, n, g)
  <2>1. \A i \in 1 .. n : f[array[k][i]] = g[array[k][i]]
    BY <1>1 DEF Members
  <2> QED
    BY <2>1 DEF Found
<1>2. CASE x.kind \notin {"seq", "map"}
  BY <1>2, Kinds DEF Content
<1>3. CASE x.kind = "seq"
  <2>1. Found(x.values, x.size, f) = Found(x.values, x.size, g)
    BY <1>1, <1>3, PointersByKind
  <2> QED
    BY <1>3, <2>1, Kinds DEF Content
<1>4. CASE x.kind = "map"
  <2>1. /\ Found(x.values, x.size, f) = Found(x.values, x.size, g)
        /\ Found(x.keys, x.size, f) = Found(x.keys, x.size, g)
    BY <1>1, <1>4, PointersByKind
  <2> QED
    BY <1>4, <2>1, Kinds DEF Content
<1> QED
  BY <1>2, <1>3, <1>4

(* A pointer leads to fewer nodes than the value it is in.                 *)
Below(a) == built[a].uses \cap Node

(* As an element is in use through the container, but the container is not *)
(* through its element.                                                    *)
LEMMA FewerBelow ==
  ASSUME IInv, NEW a \in Node, built[a] # Lost
  PROVE  /\ Cardinality(Below(a)) \in 1 .. Cardinality(Node) /\ Cardinality(Node) \in Nat
         /\ \A p \in Pointers(node[a]) : p \notin Static =>
              p \in Node /\ built[p] # Lost /\ Cardinality(Below(p)) < Cardinality(Below(a))
<1>1. Sound(a)
  BY DEF IInv
<1>2. Below(a) \in SUBSET Node /\ a \in Below(a) /\ IsFiniteSet(Node)
  BY <1>1, PlaceAssumption DEF Sound, Below
<1>3. /\ IsFiniteSet(Below(a)) /\ Cardinality(Below(a)) <= Cardinality(Node)
      /\ Cardinality(Below(a)) \in Nat /\ Cardinality(Node) \in Nat
  BY <1>2, FS_Subset, FS_CardinalityType
<1>4. Cardinality(Below(a)) # 0
  BY <1>2, <1>3, FS_EmptySet
<1>5. ASSUME NEW p \in Pointers(node[a]), p \notin Static
      PROVE  p \in Node /\ built[p] # Lost /\ Cardinality(Below(p)) < Cardinality(Below(a))
  <2>1. p \in Intact /\ UsesOf(p) \subseteq built[a].uses \ {a}
    BY <1>1 DEF Sound
  <2>2. p \in Node /\ built[p] # Lost
    BY <1>5, <2>1 DEF Intact
  <2>3. Below(p) \subseteq Below(a) \ {a}
    BY <1>5, <2>1 DEF UsesOf, Below
  <2>4. Below(p) \in SUBSET Below(a) /\ Below(p) # Below(a)
    BY <1>2, <2>3
  <2>5. Cardinality(Below(p)) <= Cardinality(Below(a)) /\ Cardinality(Below(p)) # Cardinality(Below(a))
    BY <1>3, <2>4, FS_Subset
  <2>6. Cardinality(Below(p)) \in Nat
    BY <1>3, <2>4, FS_Subset, FS_CardinalityType
  <2> QED
    BY <1>3, <2>2, <2>5, <2>6
<1> QED
  BY <1>3, <1>4, <1>5

(* Reading a value as deep as there are addresses finds the tree it was    *)
(* built as: by induction on the number of values that it is made of.      *)
LEMMA ReadsKnown ==
  ASSUME IInv
  PROVE  \A p \in Intact : Tree(p) = TreeOf(p)
<1> DEFINE Right(d) == \A a \in Node : built[a] # Lost /\ Cardinality(Below(a)) <= d
                                         => Read[d][a] = built[a].tree
           A == {d \in Nat : Right(d)}
<1>1. TypeOK
  BY DEF IInv
<1>2. ASSUME NEW d \in Nat, NEW p \in Static
      PROVE  Read[d][p] = <<<<"static", p>>>>
  <2>1. p \in Pointer
    BY DEF Pointer
  <2> QED
    BY <1>1, <2>1, ReadStep
<1>3. 0 \in A
  BY FewerBelow
<1>4. ASSUME NEW d \in Nat, d \in A
      PROVE  d + 1 \in A
  <2> SUFFICES ASSUME NEW a \in Node, built[a] # Lost, Cardinality(Below(a)) <= d + 1
               PROVE  Read[d + 1][a] = built[a].tree
    OBVIOUS
  <2>1. Sound(a)
    BY DEF IInv
  <2>2. Read[d + 1][a] = Content(node[a], Read[d])
    <3>1. PICK e \in Nat : e = d + 1
      OBVIOUS
    <3>2. a \in Pointer /\ a \notin Static /\ e # 0 /\ e - 1 = d
      BY <3>1, PlaceAssumption DEF Pointer
    <3>3. Read[e][a] = Content(node[a], Read[e - 1])
      BY <1>1, <3>2, ReadStep
    <3> QED
      BY <3>1, <3>2, <3>3
  <2>3. ASSUME NEW p \in Pointers(node[a])
        PROVE  Read[d][p] = Known[p]
    <3>1. p \in Intact
      BY <2>1 DEF Sound
    <3>2. Known[p] = TreeOf(p)
      BY <3>1 DEF Known
    <3>3. CASE p \in Static
      BY <1>2, <3>2, <3>3 DEF TreeOf
    <3>4. CASE p \notin Static
      <4>1. p \in Node /\ built[p] # Lost /\ Cardinality(Below(p)) < Cardinality(Below(a))
        BY <3>4, FewerBelow
      <4>2. Cardinality(Below(p)) \in Nat /\ Cardinality(Below(a)) \in Nat
        BY <4>1, FewerBelow
      <4>3. Cardinality(Below(p)) <= d
        BY <4>1, <4>2
      <4>4. Read[d][p] = built[p].tree
        BY <1>4, <4>1, <4>3
      <4> QED
        BY <3>2, <3>4, <4>4 DEF TreeOf
    <3> QED
      BY <3>3, <3>4
  <2>4. Content(node[a], Read[d]) = Content(node[a], Known)
    BY <2>1, <2>3, ContentOfPointers DEF Sound
  <2> QED
    BY <2>1, <2>2, <2>4 DEF Sound
<1>5. Nat \subseteq A
  <2> HIDE DEF A
  <2> QED
    BY <1>3, <1>4, Induction
<1>6. ASSUME NEW p \in Intact
      PROVE  Tree(p) = TreeOf(p)
  <2>1. Depth \in Nat
    BY PlaceAssumption, FS_CardinalityType DEF Depth
  <2>2. CASE p \in Static
    BY <1>2, <2>1, <2>2 DEF Tree, TreeOf
  <2>3. CASE p \notin Static
    <3>1. p \in Node /\ built[p] # Lost
      BY <2>3 DEF Intact
    <3>2. Cardinality(Below(p)) <= Depth
      BY <3>1, FewerBelow DEF Depth
    <3>3. Right(Depth)
      BY <1>5, <2>1
    <3> QED
      BY <2>3, <3>1, <3>2, <3>3 DEF Tree, TreeOf
  <2> QED
    BY <2>2, <2>3
<1> QED
  BY <1>6

-----------------------------------------------------------------------------
(* What a step leaves alone.                                               *)

(* The memory that the value x points to is there, and a step keeps it.    *)
Kept(k) == array[k] # Gone /\ array'[k] = array[k]

Keeps(x) ==
  /\ x.kind \in {"binary", "encoded"} =>
       x.at \in DOMAIN block /\ x.at \in DOMAIN block' /\ block'[x.at] = block[x.at]
  /\ x.kind \in {"seq", "map"} => Kept(x.values)
  /\ x.kind = "map" => Kept(x.keys)

(* Then x has the same pointers,                                           *)
LEMMA SamePointers ==
  ASSUME NEW x \in Value, Keeps(x)
  PROVE  Pointers(x)' = Pointers(x)
<1>1. \A k, n : Kept(k) => Members(k, n)' = Members(k, n)
  BY DEF Kept, Members
<1>2. /\ x.kind \in {"seq", "map"} => Members(x.values, x.size)' = Members(x.values, x.size)
      /\ x.kind = "map" => Members(x.keys, x.size)' = Members(x.keys, x.size)
  BY <1>1 DEF Keeps
<1> QED
  BY <1>2 DEF Pointers

(* and the same content, given the same trees for them.                    *)
LEMMA KeptContent ==
  ASSUME NEW x \in Value, Keeps(x), NEW f
  PROVE  Content(x, f)' = Content(x, f)
<1>1. \A k, n : Kept(k) => Found(k, n, f)' = Found(k, n, f)
  BY DEF Kept, Found
<1>2. CASE x.kind \in {"int", "fd"}
  BY <1>2, Kinds DEF Content
<1>3. CASE x.kind \in {"binary", "encoded"}
  <2>1. Bytes(x.at, x.size)' = Bytes(x.at, x.size)
    BY <1>3 DEF Keeps, Bytes
  <2> QED
    BY <1>3, <2>1, Kinds DEF Content
<1>4. CASE x.kind \in {"seq", "map"}
  <2>1. /\ Found(x.values, x.size, f)' = Found(x.values, x.size, f)
        /\ x.kind = "map" => Found(x.keys, x.size, f)' = Found(x.keys, x.size, f)
    BY <1>1, <1>4 DEF Keeps
  <2> QED
    BY <1>4, <2>1, Kinds DEF Content
<1> QED
  BY <1>2, <1>3, <1>4, Kinds

(* If the elements are still the same trees then so is x.                  *)
LEMMA SameContent ==
  ASSUME NEW x \in Value, Keeps(x), \A p \in Pointers(x) : Known'[p] = Known[p]
  PROVE  Content(x, Known)' = Content(x, Known)
<1>1. PICK f : f = Known
  OBVIOUS
<1>2. PICK g : g = Known'
  OBVIOUS
<1>3. Content(x, g)' = Content(x, g)
  BY KeptContent
<1>4. Content(x, g) = Content(x, f)
  BY <1>1, <1>2, ContentOfPointers
<1>5. Content(x, Known)' = Content(x, g)'
  BY <1>2
<1> QED
  BY <1>1, <1>3, <1>4, <1>5

(* Everything in X may be destroyed, and all else that exists is left.     *)
Leaves(X) ==
  /\ \A a \in Node : node[a] # Free /\ a \notin X => node'[a] = node[a]
  /\ \A k \in Array : array[k] # Gone /\ k \notin X => array'[k] = array[k]
  /\ \A b \in DOMAIN block : b \notin X => b \in DOMAIN block' /\ block'[b] = block[b]
  /\ \A a \in Node : built[a] # Lost /\ built[a].uses \cap X = {} => built'[a] = built[a]

(* What uses nothing of X is the same tree as before.                      *)
LEMMA StaysIntact ==
  ASSUME IInv, NEW X, Leaves(X), NEW p \in Intact, UsesOf(p) \cap X = {}
  PROVE  /\ Known'[p] = Known[p] /\ TreeOf(p)' = TreeOf(p)
         /\ UsesOf(p)' = UsesOf(p) /\ p \in Intact'
<1>1. CASE p \in Static
  BY <1>1 DEF Known, TreeOf, UsesOf, Intact
<1>2. CASE p \notin Static
  <2>1. p \in Node /\ built[p] # Lost /\ UsesOf(p) = built[p].uses
    BY <1>2 DEF Intact, UsesOf
  <2>2. built'[p] = built[p]
    BY <2>1 DEF Leaves
  <2> QED
    BY <1>2, <2>1, <2>2 DEF Known, TreeOf, UsesOf, Intact
<1> QED
  BY <1>1, <1>2

(* What uses nothing of X is as sound as before.                           *)
LEMMA StaysSound ==
  ASSUME IInv, NEW X, Leaves(X),
         NEW a \in Node, built[a] # Lost, built[a].uses \cap X = {}
  PROVE  Sound(a)'
<1>1. Sound(a)
  BY DEF IInv
<1>2. PICK x : x = node[a]
  OBVIOUS
<1>3. x \in Value /\ x # Free
  BY <1>1, <1>2, Kinds DEF Sound
<1>4. /\ node'[a] = x /\ built'[a] = built[a]
      /\ \A b \in built[a].uses \cap Node : node'[b] = node[b] /\ node[b] # Free
  BY <1>1, <1>2, <1>3 DEF Sound, Leaves
<1>5. \A k : HasArray(a, k) => Kept(k) /\ HasArray(a, k)'
  BY <1>4 DEF HasArray, Kept, Leaves
<1>6. HasMemory(a)' /\ Keeps(x)
  BY <1>1, <1>2, <1>4, <1>5 DEF Sound, HasMemory, Keeps, Leaves
<1>7. \A p \in Pointers(x) : p \in Intact /\ UsesOf(p) \subseteq built[a].uses \ {a}
  BY <1>1, <1>2 DEF Sound
<1>8. \A p \in Pointers(x) : Known'[p] = Known[p] /\ UsesOf(p)' = UsesOf(p) /\ p \in Intact'
  BY <1>7, StaysIntact
<1>9. Pointers(x)' = Pointers(x) /\ Content(x, Known)' = Content(x, Known)
  BY <1>3, <1>6, <1>8, SamePointers, SameContent
<1> QED
  BY <1>1, <1>2, <1>3, <1>4, <1>6, <1>7, <1>8, <1>9 DEF Sound

(* A message that a step leaves alone still is what was sent.              *)
LEMMA StaysDelivered ==
  ASSUME IInv, NEW v \in Vector, sent'[v] # Lost, sent'[v] = sent[v],
         vec'[v] = vec[v], fds'[v] = fds[v], block'[vec[v]] = block[vec[v]]
  PROVE  Delivered(v)'
BY DEF IInv, Delivered

(* A step that destroys x, and with it all that uses x.                    *)
LEMMA Destroys ==
  ASSUME IInv, NEW x, built' = Without(x), TypeOK', Owned',
         \A v \in Vector : sent'[v] # Lost => Delivered(v)',
         \A a \in Node : a # x => node'[a] = node[a],
         \A k \in Array : array[k] # Gone /\ k # x => array'[k] = array[k],
         \A b \in DOMAIN block : b # x => b \in DOMAIN block' /\ block'[b] = block[b]
  PROVE  IInv'
<1>1. Leaves({x})
  BY DEF Leaves, Without
<1>2. ASSUME NEW a \in Node, built'[a] # Lost
      PROVE  Sound(a)'
  <2>1. built[a] # Lost /\ built[a].uses \cap {x} = {}
    BY <1>2 DEF Without
  <2> QED
    BY <1>1, <2>1, StaysSound
<1> QED
  BY <1>2 DEF IInv

(* Destroying leaves the types of what was built.                          *)
LEMMA WithoutType ==
  ASSUME TypeOK, NEW x
  PROVE  Without(x) \in [Node -> [tree : Trees, uses : SUBSET Place] \cup {Lost}]
BY DEF TypeOK, Without

(* A step that makes a value of what is there.                             *)
LEMMA Creates ==
  ASSUME IInv, NEW a \in Node, NEW x \in Value, NEW t \in Trees, NEW uses,
         Create(a, x, t, uses), uses \subseteq Place,
         x.kind \in {"binary", "encoded"} =>
           x.at \in DOMAIN block /\ x.size <= Len(block[x.at]) /\ x.at \in uses,
         x.kind \in {"seq", "map"} => x.values \in uses /\ array[x.values] # Gone,
         x.kind = "map" => x.keys \in uses /\ array[x.keys] # Gone,
         Content(x, Known) = t,
         \A b \in uses \cap Node : node[b] # Free,
         Pointers(x) \subseteq Intact, \A p \in Pointers(x) : UsesOf(p) \subseteq uses
  PROVE  IInv' /\ built'[a] # Lost
<1> DEFINE record == [tree |-> t, uses |-> uses \cup {a}]
<1>1. /\ node[a] = Free
      /\ node' = [node EXCEPT ![a] = x] /\ built' = [built EXCEPT ![a] = record]
      /\ UNCHANGED <<array, block, vec, fds, sent>>
  BY DEF Create
<1>2. built[a] = Lost /\ a \notin uses
  BY <1>1, Kinds DEF IInv, Sound
<1>3. /\ node'[a] = x /\ built'[a] = record
      /\ \A b \in Node : b # a => node'[b] = node[b] /\ built'[b] = built[b]
  BY <1>1 DEF IInv, TypeOK
<1>4. record.tree = t /\ record.uses = uses \cup {a}
  OBVIOUS
<1>5. record \in [tree : Trees, uses : SUBSET Place]
  BY DEF Place
<1> HIDE DEF record
<1>6. Leaves({})
  BY <1>1, <1>2, <1>3 DEF Leaves
<1>7. \A b \in Node : b # a /\ built'[b] # Lost => Sound(b)'
  BY <1>3, <1>6, StaysSound
<1>8. Sound(a)'
  <2>1. Keeps(x) /\ x # Free
    BY <1>1, Kinds DEF Keeps, Kept
  <2>2. \A p \in Pointers(x) : Known'[p] = Known[p] /\ UsesOf(p)' = UsesOf(p) /\ p \in Intact'
    BY <1>6, StaysIntact
  <2>3. Pointers(x)' = Pointers(x) /\ Content(x, Known)' = Content(x, Known)
    BY <2>1, <2>2, SamePointers, SameContent
  <2>4. HasMemory(a)'
    BY <1>1, <1>3, <1>4, Kinds DEF HasMemory, HasArray
  <2>5. Content(node[a], Known)' = built'[a].tree
    BY <1>3, <1>4, <2>3
  <2>6. Pointers(node[a])' = Pointers(x)
    BY <1>3, <2>3
  <2>7. \A p \in Pointers(x) : p \in Intact' /\ UsesOf(p)' \subseteq built'[a].uses \ {a}
    BY <1>2, <1>3, <1>4, <2>2
  <2>8. \A b \in built'[a].uses \cap Node : node'[b] # Free
    BY <1>3, <1>4, <2>1
  <2> QED
    BY <1>3, <1>4, <2>4, <2>5, <2>6, <2>7, <2>8 DEF Sound
<1>9. TypeOK'
  <2>1. node' \in [Node -> Value \cup {Free}]
    BY <1>1 DEF IInv, TypeOK
  <2>2. built' \in [Node -> [tree : Trees, uses : SUBSET Place] \cup {Lost}]
    BY <1>1, <1>5 DEF IInv, TypeOK
  <2> QED
    BY <1>1, <2>1, <2>2 DEF IInv, TypeOK
<1>10. Owned' /\ \A v \in Vector : sent'[v] # Lost => Delivered(v)'
  BY <1>1, StaysDelivered DEF IInv, Owned
<1>11. built'[a] # Lost
  BY <1>3, <1>5, NoValueAssumption
<1> QED
  BY <1>7, <1>8, <1>9, <1>10, <1>11 DEF IInv

(* A step that changes nothing that a value is made of.                    *)
LEMMA Unrelated ==
  ASSUME IInv, Leaves({}), UNCHANGED <<built, block, vec, fds, sent>>, TypeOK'
  PROVE  IInv'
<1>1. \A a \in Node : built'[a] # Lost => Sound(a)'
  BY StaysSound
<1>2. Owned' /\ \A v \in Vector : sent'[v] # Lost => Delivered(v)'
  BY StaysDelivered DEF IInv, Owned
<1> QED
  BY <1>1, <1>2 DEF IInv

-----------------------------------------------------------------------------
(* new, one function at a time.                                            *)

(* create_int and create_fd.                                               *)
LEMMA CreatesNumber ==
  ASSUME IInv, NEW a \in Node,
         \/ \E i \in Number : create_int(a, i)
         \/ \E f \in Fd : create_fd(a, f)
  PROVE  IInv' /\ built'[a] # Lost
<1>1. ASSUME NEW kind \in {"int", "fd"}, NEW n, [kind |-> kind, number |-> n] \in Value,
             <<kind, n>> \in Token,
             Create(a, [kind |-> kind, number |-> n], <<<<kind, n>>>>, {})
      PROVE  IInv' /\ built'[a] # Lost
  <2> DEFINE x == [kind |-> kind, number |-> n]
  <2>1. x \in Value /\ x.kind \in {"int", "fd"}
    BY <1>1
  <2>2. Content(x, Known) = <<<<kind, n>>>>
    BY <2>1, Kinds DEF Content
  <2>3. Pointers(x) = {}
    BY <2>1, PointersByKind
  <2>4. <<<<kind, n>>>> \in Trees
    BY <1>1 DEF Trees
  <2> QED
    BY <1>1, <2>1, <2>2, <2>3, <2>4, Creates
<1>2. ASSUME NEW i \in Number, create_int(a, i)
      PROVE  IInv' /\ built'[a] # Lost
  <2>1. [kind |-> "int", number |-> i] \in Value /\ <<"int", i>> \in Token
    BY IsToken DEF Value
  <2> QED
    BY <1>1, <1>2, <2>1 DEF create_int
<1>3. ASSUME NEW f \in Fd, create_fd(a, f)
      PROVE  IInv' /\ built'[a] # Lost
  <2>1. [kind |-> "fd", number |-> f] \in Value /\ <<"fd", f>> \in Token
    BY IsToken, NumberAssumption DEF Value
  <2> QED
    BY <1>1, <1>3, <2>1 DEF create_fd
<1> QED
  BY <1>2, <1>3

(* A value made of the message in v.                                       *)
LEMMA OfMessage ==
  ASSUME IInv, NEW v \in Vector, sent[v] # Lost, NEW kind \in {"binary", "encoded"}
  PROVE  LET bytes == block[vec[v]]
             x     == [kind |-> kind, at |-> vec[v], size |-> Len(bytes)]
             t     == IF kind = "binary" THEN Binary(bytes) ELSE bytes
         IN /\ vec[v] \in DOMAIN block /\ vec[v] \in Block /\ bytes \in Trees
            /\ x \in Value /\ x.kind = kind /\ x.at = vec[v] /\ Pointers(x) = {}
            /\ x.size <= Len(bytes)
            /\ \A f : Content(x, f) = t
            /\ t \in Trees
<1> DEFINE bytes == block[vec[v]]
           x == [kind |-> kind, at |-> vec[v], size |-> Len(bytes)]
           t == IF kind = "binary" THEN Binary(bytes) ELSE bytes
<1>1. vec[v] \in DOMAIN block /\ vec[v] \in Block /\ bytes \in Seq(Token)
  BY Memory DEF IInv, Owned
<1>2. bytes # <<>>
  BY DEF IInv, Delivered
<1>3. Len(bytes) \in Nat /\ SubSeq(bytes, 1, Len(bytes)) = bytes
  BY <1>1, SubSeqFull
<1>4. Bytes(vec[v], Len(bytes)) = bytes
  BY <1>1, <1>3 DEF Bytes
<1>5. x \in Value /\ x.kind = kind /\ x.at = vec[v] /\ x.size = Len(bytes)
  BY <1>1, <1>3 DEF Value
<1>6. Pointers(x) = {}
  BY <1>5, PointersByKind
<1>7. \A f : Content(x, f) = t
  BY <1>4, <1>5, Kinds DEF Content
<1>8. bytes \in Trees /\ Binary(bytes) \in Trees
  BY <1>1, <1>2, ContainerTypes, EmptySeq DEF Trees
<1> QED
  BY <1>1, <1>5, <1>6, <1>7, <1>8

(* create_binary and create_encoded.                                       *)
LEMMA CreatesBytes ==
  ASSUME IInv, NEW a \in Node, NEW v \in Vector, create_binary(a, v) \/ create_encoded(a, v)
  PROVE  IInv' /\ built'[a] # Lost
<1>1. sent[v] # Lost
  BY DEF create_binary, create_encoded
<1>2. ASSUME NEW kind \in {"binary", "encoded"},
             Create(a, [kind |-> kind, at |-> vec[v], size |-> Len(block[vec[v]])],
                    IF kind = "binary" THEN Binary(block[vec[v]]) ELSE block[vec[v]], {vec[v]})
      PROVE  IInv' /\ built'[a] # Lost
  <2> DEFINE x == [kind |-> kind, at |-> vec[v], size |-> Len(block[vec[v]])]
             t == IF kind = "binary" THEN Binary(block[vec[v]]) ELSE block[vec[v]]
  <2>1. /\ vec[v] \in DOMAIN block /\ vec[v] \in Block
        /\ x \in Value /\ x.kind = kind /\ x.at = vec[v] /\ Pointers(x) = {}
        /\ x.size <= Len(block[x.at])
        /\ \A f : Content(x, f) = t
        /\ t \in Trees
    BY <1>1, OfMessage
  <2>2. Create(a, x, t, {vec[v]})
    BY <1>2
  <2> HIDE DEF x, t
  <2>3. Content(x, Known) = t
    BY <2>1
  <2>4. {vec[v]} \subseteq Place /\ {vec[v]} \cap Node = {}
    BY <2>1, PlaceAssumption DEF Place
  <2> QED
    BY <2>1, <2>2, <2>3, <2>4, Creates
<1>3. CASE create_binary(a, v)
  BY <1>2, <1>3 DEF create_binary
<1>4. CASE create_encoded(a, v)
  BY <1>2, <1>4 DEF create_encoded
<1> QED
  BY <1>3, <1>4

(* The first n pointers in k are those of values that may be used.         *)
LEMMA ReadableElements ==
  ASSUME IInv, NEW k \in Array, Readable(k), NEW n \in 0 .. Len(array[k])
  PROVE  /\ array[k] # Gone /\ Len(array[k]) \in Nat
         /\ Found(k, n, Known) = Elements(k, n)
         /\ Elements(k, n) \in Seq(Seq(Token)) /\ Len(Elements(k, n)) = n
         /\ Members(k, n) \subseteq Intact
         /\ \A p \in Members(k, n) : UsesOf(p) \subseteq UsedBy(k, n)
         /\ k \in UsedBy(k, n) /\ UsedBy(k, n) \subseteq Place
         /\ \A b \in UsedBy(k, n) \cap Node : node[b] # Free
<1>1. array[k] # Gone /\ array[k] \in Seq(Pointer)
  BY Memory DEF Readable, IInv
<1>2. Len(array[k]) \in Nat /\ DOMAIN array[k] = 1 .. Len(array[k])
  BY <1>1
<1>3. n \in Nat /\ n <= Len(array[k]) /\ 1 .. n \subseteq DOMAIN array[k]
  BY <1>2
<1>4. \A i \in 1 .. n : array[k][i] \in Intact
  BY <1>3 DEF Readable
<1>5. \A p \in Intact : Known[p] = TreeOf(p)
  BY DEF Known
<1>6. Found(k, n, Known) = Elements(k, n)
  BY <1>1, <1>3, <1>4, <1>5 DEF Found, Elements
<1>7. ASSUME NEW p \in Intact
      PROVE  /\ TreeOf(p) \in Seq(Token) /\ UsesOf(p) \subseteq Place
             /\ \A b \in UsesOf(p) \cap Node : node[b] # Free
  <2>1. CASE p \in Static
    BY <2>1, IsToken DEF TreeOf, UsesOf
  <2>2. CASE p \notin Static
    <3>1. p \in Node /\ built[p] # Lost
      BY <2>2 DEF Intact
    <3> QED
      BY <2>2, <3>1, Memory DEF IInv, Sound, TreeOf, UsesOf, Trees
  <2> QED
    BY <2>1, <2>2
<1>8. Elements(k, n) \in Seq(Seq(Token)) /\ Len(Elements(k, n)) = n
  <2>1. \A i \in 1 .. n : TreeOf(array[k][i]) \in Seq(Token)
    BY <1>4, <1>7
  <2> DEFINE e(i) == TreeOf(array[k][i])
  <2>2. Elements(k, n) = [i \in 1 .. n |-> e(i)]
    BY DEF Elements
  <2> HIDE DEF e
  <2> QED
    BY <1>3, <2>1, <2>2 DEF e
<1>9. Members(k, n) \subseteq Intact
  BY <1>4 DEF Members
<1>10. \A p \in Members(k, n) : UsesOf(p) \subseteq UsedBy(k, n)
  BY DEF Members, UsedBy
<1>11. UsedBy(k, n) \subseteq Place
  BY <1>4, <1>7 DEF UsedBy, Place
<1>12. \A b \in UsedBy(k, n) \cap Node : node[b] # Free
  <2>1. k \notin Node
    BY PlaceAssumption
  <2> QED
    BY <1>4, <1>7, <2>1 DEF UsedBy
<1>13. k \in UsedBy(k, n)
  BY DEF UsedBy
<1> QED
  BY <1>1, <1>2, <1>6, <1>8, <1>9, <1>10, <1>11, <1>12, <1>13

(* create_seq.                                                             *)
LEMMA CreatesSeq ==
  ASSUME IInv, NEW a \in Node, NEW k \in Array, create_seq(a, k)
  PROVE  IInv' /\ built'[a] # Lost
<1> DEFINE n == Len(array[k])
           x == [kind |-> "seq", values |-> k, size |-> n]
           t == Sequence(Elements(k, n))
<1>1. Readable(k) /\ Create(a, x, t, UsedBy(k, n))
  BY DEF create_seq
<1>2. array[k] \in Seq(Pointer) /\ n \in Nat /\ n \in 0 .. n
  BY <1>1, Memory DEF Readable, IInv
<1>3. /\ array[k] # Gone /\ Found(k, n, Known) = Elements(k, n)
      /\ Elements(k, n) \in Seq(Seq(Token))
      /\ Members(k, n) \subseteq Intact
      /\ \A p \in Members(k, n) : UsesOf(p) \subseteq UsedBy(k, n)
      /\ k \in UsedBy(k, n) /\ UsedBy(k, n) \subseteq Place
      /\ \A b \in UsedBy(k, n) \cap Node : node[b] # Free
  BY <1>1, <1>2, ReadableElements
<1>4. x \in Value /\ x.kind = "seq" /\ x.values = k /\ x.size = n
  BY <1>2 DEF Value
<1>5. Pointers(x) = Members(k, n)
  BY <1>4, PointersByKind
<1>6. Content(x, Known) = t
  BY <1>3, <1>4, Kinds DEF Content
<1>7. t \in Trees
  BY <1>3, ContainerTypes, EmptySeq
<1> HIDE DEF x, n, t
<1> QED
  BY <1>1, <1>3, <1>4, <1>5, <1>6, <1>7, Creates

(* create_map: the entries are those of the shorter of the two arrays, and *)
(* what is in the rest of the longer one is not part of it.                *)
LEMMA CreatesMap ==
  ASSUME IInv, NEW a \in Node, NEW k \in Array, NEW l \in Array, create_map(a, k, l)
  PROVE  IInv' /\ built'[a] # Lost
<1> DEFINE n == Len(array[k])
           m == Len(array[l])
           f == IF n < m THEN n ELSE m
           x == [kind |-> "map", keys |-> k, values |-> l, size |-> Entries(n, m)]
           uses == UsedBy(k, f) \cup UsedBy(l, f)
           t == Map(Elements(k, f), Elements(l, f))
<1>1. Readable(k) /\ Readable(l) /\ Create(a, x, t, uses)
  BY DEF create_map
<1>2. /\ array[k] \in Seq(Pointer) /\ array[l] \in Seq(Pointer)
      /\ n \in Nat /\ m \in Nat
  BY <1>1, Memory DEF Readable, IInv
<1>3. f \in Nat /\ f \in 0 .. n /\ f \in 0 .. m /\ Entries(n, m) = f
  BY <1>2 DEF Entries
<1> HIDE DEF f
<1>4. /\ array[k] # Gone /\ Found(k, f, Known) = Elements(k, f)
      /\ Elements(k, f) \in Seq(Seq(Token))
      /\ Members(k, f) \subseteq Intact
      /\ \A p \in Members(k, f) : UsesOf(p) \subseteq UsedBy(k, f)
      /\ k \in UsedBy(k, f) /\ UsedBy(k, f) \subseteq Place
      /\ \A b \in UsedBy(k, f) \cap Node : node[b] # Free
  BY <1>1, <1>3, ReadableElements
<1>5. /\ array[l] # Gone /\ Found(l, f, Known) = Elements(l, f)
      /\ Elements(l, f) \in Seq(Seq(Token))
      /\ Members(l, f) \subseteq Intact
      /\ \A p \in Members(l, f) : UsesOf(p) \subseteq UsedBy(l, f)
      /\ l \in UsedBy(l, f) /\ UsedBy(l, f) \subseteq Place
      /\ \A b \in UsedBy(l, f) \cap Node : node[b] # Free
  BY <1>1, <1>3, ReadableElements
<1>6. x \in Value /\ x.kind = "map" /\ x.keys = k /\ x.values = l /\ x.size = f
  BY <1>3 DEF Value
<1>7. Pointers(x) = Members(k, f) \cup Members(l, f)
  BY <1>6, PointersByKind
<1>8. Content(x, Known) = t
  BY <1>4, <1>5, <1>6, Kinds DEF Content
<1>9. k \in uses /\ l \in uses /\ uses \subseteq Place /\ \A b \in uses \cap Node : node[b] # Free
  BY <1>4, <1>5
<1>10. \A p \in Pointers(x) : p \in Intact /\ UsesOf(p) \subseteq uses
  BY <1>4, <1>5, <1>7
<1>11. t \in Trees
  BY <1>4, <1>5, ContainerTypes, EmptySeq
<1> HIDE DEF x, t, uses
<1> QED
  BY <1>1, <1>4, <1>5, <1>6, <1>8, <1>9, <1>10, <1>11, Creates

-----------------------------------------------------------------------------
(* delete, encode, and what the program does with arrays and vectors.      *)

(* delete: what used the value is lost, and the address may be used again. *)
LEMMA DeleteSound ==
  ASSUME IInv, NEW a \in Node, delete(a)
  PROVE  IInv'
<1>1. /\ node' = [b \in Node |-> IF b = a THEN Free ELSE node[b]]
      /\ built' = Without(a) /\ UNCHANGED <<array, block, vec, fds, sent>>
  BY DEF delete, Freed
<1>2. node' \in [Node -> Value \cup {Free}]
  BY <1>1 DEF IInv, TypeOK
<1>3. TypeOK' /\ Owned'
  BY <1>1, <1>2, WithoutType DEF IInv, TypeOK, Owned
<1>4. \A v \in Vector : sent'[v] # Lost => Delivered(v)'
  BY <1>1, StaysDelivered
<1> QED
  BY <1>1, <1>3, <1>4, Destroys

(* Bytes that are as many as were asked for are all written.               *)
LEMMA WrittenInFull ==
  ASSUME NEW bytes \in Seq(Token)
  PROVE  Written(bytes, Len(bytes)) = bytes
<1>1. bytes = [i \in 1 .. Len(bytes) |-> bytes[i]]
  OBVIOUS
<1>2. Resize(bytes, Len(bytes), <<"zero">>) = [i \in 1 .. Len(bytes) |-> bytes[i]]
  BY DEF Resize
<1>3. Len(bytes) <= Len(bytes)
  OBVIOUS
<1> QED
  BY <1>1, <1>2, <1>3 DEF Written

(* And so is a list that is no longer than was announced, whatever was in  *)
(* the vector before; the vector then ends where the list does.            *)
LEMMA ListInFull ==
  ASSUME NEW tree \in Seq(Token), NEW places, places \subseteq Fds(tree), NEW old \in Seq(Nat)
  PROVE  Trimmed(old, tree, Listed(tree, places)) = Listed(tree, places)
<1> DEFINE list == Listed(tree, places)
           room == Resize(old, n_fds(tree), 0)
           over == Overwritten(room, list)
<1>1. /\ Cardinality(places) \in Nat /\ list \in Seq(Nat)
      /\ DOMAIN list = 1 .. Cardinality(places)
  BY ListedAt
<1>2. Cardinality(Fds(tree)) \in Nat /\ Cardinality(places) <= Cardinality(Fds(tree))
  <2>1. IsFiniteSet(Fds(tree)) /\ Cardinality(Fds(tree)) \in Nat
    BY ListedAt
  <2> QED
    BY <2>1, FS_Subset
<1>3. room \in Seq(Nat) /\ Len(room) = n_fds(tree)
  BY <1>2 DEF Resize, n_fds
<1> HIDE DEF list, room
<1>4. Len(list) = Cardinality(places) /\ Len(list) <= Len(room)
  BY <1>1, <1>2, <1>3 DEF n_fds
<1>5. over = [k \in 1 .. Len(room) |-> IF k \in DOMAIN list THEN list[k] ELSE room[k]]
  BY <1>3, <1>4 DEF Overwritten
<1>6. Len(over) = Len(room)
  BY <1>3, <1>5
<1>7. Resize(over, Len(list), 0) = [k \in 1 .. Len(list) |-> list[k]]
  <2>1. \A k \in 1 .. Len(list) : k <= Len(over) /\ over[k] = list[k]
    BY <1>1, <1>3, <1>4, <1>5, <1>6
  <2> HIDE DEF over
  <2> QED
    BY <2>1 DEF Resize
<1>8. list = [k \in 1 .. Len(list) |-> list[k]]
  BY <1>1
<1>9. Trimmed(old, tree, list) = Resize(over, Len(list), 0)
  BY DEF Trimmed, room
<1> QED
  BY <1>7, <1>8, <1>9 DEF list

(* What encode puts where, of a value that is what it was built as.        *)
Output(p, v, places) ==
  IF vec[v] \in UsesOf(p) THEN Zeros(Len(TreeOf(p))) ELSE Encoded(TreeOf(p), places)

(* The bytes go into vector v, which is at b afterwards.                   *)
Puts(v, bytes, b) ==
  /\ b = vec[v] \/ b \notin DOMAIN block
  /\ vec' = [vec EXCEPT ![v] = b]
  /\ block' = [c \in (DOMAIN block \ {vec[v]}) \cup {b} |-> IF c = b THEN bytes ELSE block[c]]

(* As the tree that is read is the one that was built, and all of it fits, *)
(* encode does just this.                                                  *)
LEMMA Encodes ==
  ASSUME IInv, NEW p \in Intact, NEW v \in Vector, NEW places \in Lists(Tree(p)),
         encode(p, v, places)
  PROVE  /\ TreeOf(p) \in Trees /\ places \in Lists(TreeOf(p))
         /\ \E b \in Block : Puts(v, Output(p, v, places), b)
         /\ fds' = [fds EXCEPT ![v] = IF places = {} THEN <<>> ELSE Listed(TreeOf(p), places)]
         /\ sent' = [sent EXCEPT ![v] = IF vec[v] \in UsesOf(p) THEN Lost
                                        ELSE IF places = {} THEN WithoutFds(TreeOf(p))
                                        ELSE TreeOf(p)]
         /\ built' = Without(vec[v]) /\ UNCHANGED <<node, array>>
<1> DEFINE tree == TreeOf(p)
<1>1. Tree(p) = tree
  BY ReadsKnown
<1>2. tree \in Trees
  BY Memory, IsToken DEF IInv, TreeOf, Intact, Trees
<1> HIDE DEF tree
<1>3. /\ Encoded(tree, places) \in Seq(Token) /\ Len(Encoded(tree, places)) = Len(tree)
  <2>1. tree \in Seq(Token)
    BY <1>2 DEF Trees
  <2>2. CASE places = {}
    BY <2>1, <2>2, EncodedWithoutList DEF Encoded
  <2>3. CASE places # {}
    BY <1>1, <2>1, <2>3, ListsCover, EncodedWithList
  <2> QED
    BY <2>2, <2>3
<1>4. Written(Encoded(tree, places), Len(tree)) = Encoded(tree, places)
  BY <1>3, WrittenInFull
<1>5. PICK b \in Block :
        /\ MayMove(v, Len(tree), b)
        /\ vec' = [vec EXCEPT ![v] = b]
        /\ block' = [c \in (DOMAIN block \ {vec[v]}) \cup {b} |->
                       CASE c # b -> block[c]
                         [] c = b /\ vec[v] \in UsesOf(p)    -> Zeros(Len(tree))
                         [] c = b /\ ~(vec[v] \in UsesOf(p)) ->
                              Written(Encoded(tree, places), Len(tree))]
  BY <1>1 DEF encode, encoded_size
<1>6. \A c \in (DOMAIN block \ {vec[v]}) \cup {b} :
        block'[c] = IF c = b THEN Output(p, v, places) ELSE block[c]
  BY <1>4, <1>5 DEF Output, tree
<1>7. block' = [c \in (DOMAIN block \ {vec[v]}) \cup {b} |->
                  IF c = b THEN Output(p, v, places) ELSE block[c]]
  BY <1>5, <1>6
<1>8. Puts(v, Output(p, v, places), b)
  BY <1>5, <1>7 DEF MayMove, Puts
<1>9. /\ fds' = [fds EXCEPT ![v] = IF places = {} THEN <<>> ELSE Listed(tree, places)]
      /\ sent' = [sent EXCEPT ![v] = IF vec[v] \in UsesOf(p) THEN Lost
                                     ELSE IF places = {} THEN WithoutFds(tree) ELSE tree]
      /\ built' = Without(vec[v]) /\ UNCHANGED <<node, array>>
  <2>1. /\ fds' = [fds EXCEPT ![v] = IF places = {} THEN <<>>
                                     ELSE Trimmed(fds[v], tree, Listed(tree, places))]
        /\ sent' = [sent EXCEPT ![v] = IF vec[v] \in UsesOf(p) THEN Lost
                                       ELSE IF places = {} THEN WithoutFds(tree) ELSE tree]
        /\ built' = Without(vec[v]) /\ UNCHANGED <<node, array>>
    BY <1>1 DEF encode, tree
  <2>2. ASSUME places # {}
        PROVE  Trimmed(fds[v], tree, Listed(tree, places)) = Listed(tree, places)
    <3>1. tree \in Seq(Token) /\ fds[v] \in Seq(Nat)
      BY <1>2 DEF Trees, IInv, TypeOK
    <3>2. places \subseteq Fds(tree)
      BY <1>1, <2>2, <3>1, ListsCover DEF Covers
    <3> QED
      BY <3>1, <3>2, ListInFull
  <2> QED
    BY <2>1, <2>2
<1> QED
  BY <1>1, <1>2, <1>8, <1>9 DEF tree

(* What it puts there is of the right type, and says what was to be sent.  *)
LEMMA EncodesType ==
  ASSUME IInv, NEW p \in Intact, NEW v \in Vector, TreeOf(p) \in Trees,
         NEW places \in Lists(TreeOf(p))
  PROVE  LET bytes == Output(p, v, places)
             list  == IF places = {} THEN <<>> ELSE Listed(TreeOf(p), places)
             tree  == IF places = {} THEN WithoutFds(TreeOf(p)) ELSE TreeOf(p)
         IN /\ bytes \in Trees /\ list \in Seq(Nat) /\ tree \in Trees
            /\ vec[v] \notin UsesOf(p) =>
                 /\ Resolved(bytes, list) = tree
                 /\ \A k \in DOMAIN list : <<"fd", k - 1>> \in ToSet(bytes)
<1> DEFINE tree == TreeOf(p)
<1>1. PICK t \in Seq(Token) : t = tree /\ t # <<>> /\ Len(t) \in Nat /\ Len(t) # 0
  BY EmptySeq DEF Trees
<1>2. Zeros(Len(t)) \in Seq(Token) /\ Len(Zeros(Len(t))) = Len(t)
  BY <1>1, IsToken DEF Zeros
<1>3. CASE places = {}
  <2>1. /\ WithoutFds(t) \in Seq(Token) /\ Len(WithoutFds(t)) = Len(t)
        /\ Resolved(WithoutFds(t), <<>>) = WithoutFds(t)
    BY EncodedWithoutList
  <2>2. Encoded(t, places) = WithoutFds(t)
    BY <1>3 DEF Encoded
  <2>3. WithoutFds(t) \in Trees /\ Zeros(Len(t)) \in Trees
    BY <1>1, <1>2, <2>1 DEF Trees
  <2> QED
    BY <1>1, <1>3, <2>1, <2>2, <2>3 DEF Output
<1>4. CASE places # {}
  <2>1. Covers(places, t)
    BY <1>1, <1>4, ListsCover
  <2>2. /\ Encoded(t, places) \in Seq(Token) /\ Len(Encoded(t, places)) = Len(t)
        /\ Resolved(Encoded(t, places), Listed(t, places)) = t
        /\ \A k \in DOMAIN Listed(t, places) : <<"fd", k - 1>> \in ToSet(Encoded(t, places))
    BY <1>4, <2>1, EncodedWithList
  <2>3. Listed(t, places) \in Seq(Nat)
    BY <2>1, ListedAt DEF Covers
  <2>4. Encoded(t, places) \in Trees /\ Zeros(Len(t)) \in Trees
    BY <1>1, <1>2, <2>2 DEF Trees
  <2> QED
    BY <1>1, <1>4, <2>2, <2>3, <2>4 DEF Output
<1> QED
  BY <1>3, <1>4

(* A vector that is written, moved or not, leaves the others as they are.  *)
LEMMA PutsThere ==
  ASSUME IInv, NEW v \in Vector, NEW bytes, NEW b \in Block, Puts(v, bytes, b)
  PROVE  /\ vec' \in [Vector -> Block \cup {Gone}]
         /\ \A w \in Vector : vec'[w] = IF w = v THEN b ELSE vec[w]
         /\ \A w, u \in Vector : vec'[w] = vec'[u] /\ vec'[w] # Gone => w = u
         /\ DOMAIN block' = {vec'[w] : w \in Vector} \ {Gone}
         /\ \A c \in DOMAIN block' : block'[c] = bytes \/ (c \in DOMAIN block /\ block'[c] = block[c])
         /\ \A c \in DOMAIN block : c # vec[v] => c \in DOMAIN block' /\ block'[c] = block[c]
         /\ block' = [c \in DOMAIN block' |-> block'[c]]
         /\ block'[vec'[v]] = bytes
         /\ \A w \in Vector : w # v /\ vec[w] # Gone => block'[vec'[w]] = block[vec[w]]
<1>1. /\ b = vec[v] \/ b \notin DOMAIN block
      /\ vec' = [vec EXCEPT ![v] = b]
      /\ block' = [c \in (DOMAIN block \ {vec[v]}) \cup {b} |-> IF c = b THEN bytes ELSE block[c]]
  BY DEF Puts
<1>2. b # Gone /\ DOMAIN block = {vec[w] : w \in Vector} \ {Gone}
  BY PlaceAssumption, Memory DEF IInv
<1>3. vec' \in [Vector -> Block \cup {Gone}] /\ \A w \in Vector : vec'[w] = IF w = v THEN b ELSE vec[w]
  BY <1>1 DEF IInv, TypeOK
<1>4. \A w \in Vector : w # v /\ vec[w] # Gone =>
        vec[w] \in DOMAIN block /\ vec[w] # vec[v] /\ vec[w] # b
  BY <1>1, <1>2 DEF IInv, Owned
<1>5. \A w, u \in Vector : vec'[w] = vec'[u] /\ vec'[w] # Gone => w = u
  BY <1>3, <1>4 DEF IInv, Owned
<1>6. /\ DOMAIN block' = (DOMAIN block \ {vec[v]}) \cup {b}
      /\ \A c \in DOMAIN block' : block'[c] = IF c = b THEN bytes ELSE block[c]
  BY <1>1
<1>7. DOMAIN block' = {vec'[w] : w \in Vector} \ {Gone}
  BY <1>2, <1>3, <1>4, <1>6
<1>8. \A c \in DOMAIN block : c # vec[v] => c \in DOMAIN block' /\ block'[c] = block[c]
  BY <1>1, <1>6
<1>9. \A w \in Vector : w # v /\ vec[w] # Gone => block'[vec'[w]] = block[vec[w]]
  BY <1>3, <1>4, <1>8
<1>10. block' = [c \in DOMAIN block' |-> block'[c]]
  BY <1>1
<1>11. /\ block'[vec'[v]] = bytes
       /\ \A c \in DOMAIN block' : block'[c] = bytes \/ (c \in DOMAIN block /\ block'[c] = block[c])
  BY <1>3, <1>6
<1> QED
  BY <1>3, <1>5, <1>7, <1>8, <1>9, <1>10, <1>11

(* encode: it destroys what the vector held, moved or not, and all other   *)
(* vectors still hold what they did.                                       *)
LEMMA EncodeSound ==
  ASSUME IInv, NEW p \in Intact, NEW v \in Vector, NEW places \in Lists(Tree(p)),
         encode(p, v, places)
  PROVE  IInv'
<1> DEFINE bytes == Output(p, v, places)
           list  == IF places = {} THEN <<>> ELSE Listed(TreeOf(p), places)
           tree  == IF places = {} THEN WithoutFds(TreeOf(p)) ELSE TreeOf(p)
           self  == vec[v] \in UsesOf(p)
<1>1. PICK b \in Block : Puts(v, bytes, b)
  BY Encodes
<1>2. /\ fds' = [fds EXCEPT ![v] = list]
      /\ sent' = [sent EXCEPT ![v] = IF self THEN Lost ELSE tree]
      /\ built' = Without(vec[v]) /\ UNCHANGED <<node, array>>
  BY Encodes
<1>3. /\ bytes \in Trees /\ list \in Seq(Nat) /\ tree \in Trees
      /\ ~ self => /\ Resolved(bytes, list) = tree
                   /\ \A k \in DOMAIN list : <<"fd", k - 1>> \in ToSet(bytes)
  BY Encodes, EncodesType
<1> HIDE DEF bytes, list, tree, self
<1>4. /\ vec' \in [Vector -> Block \cup {Gone}]
      /\ \A w \in Vector : vec'[w] = IF w = v THEN b ELSE vec[w]
      /\ \A w, u \in Vector : vec'[w] = vec'[u] /\ vec'[w] # Gone => w = u
      /\ DOMAIN block' = {vec'[w] : w \in Vector} \ {Gone}
      /\ \A c \in DOMAIN block' : block'[c] = bytes \/ (c \in DOMAIN block /\ block'[c] = block[c])
      /\ \A c \in DOMAIN block : c # vec[v] => c \in DOMAIN block' /\ block'[c] = block[c]
      /\ block' = [c \in DOMAIN block' |-> block'[c]]
      /\ block'[vec'[v]] = bytes
      /\ \A w \in Vector : w # v /\ vec[w] # Gone => block'[vec'[w]] = block[vec[w]]
  BY <1>1, PutsThere
<1>5. TypeOK'
  <2>1. node' \in [Node -> Value \cup {Free}] /\ array' \in [Array -> BoundedSeq(Pointer, MaxArray) \cup {Gone}]
    BY <1>2 DEF IInv, TypeOK
  <2>2. vec' \in [Vector -> Block \cup {Gone}]
    BY <1>4
  <2>3. block' \in [{vec'[w] : w \in Vector} \ {Gone} -> Seq(Token)]
    <3>1. \A c \in DOMAIN block' : block'[c] \in Seq(Token)
      BY <1>3, <1>4, Memory DEF IInv, Trees
    <3>2. /\ DOMAIN block' = {vec'[w] : w \in Vector} \ {Gone}
          /\ block' = [c \in DOMAIN block' |-> block'[c]]
      BY <1>4
    <3> QED
      BY <3>1, <3>2
  <2>4. fds' \in [Vector -> Seq(Nat)]
    BY <1>2, <1>3 DEF IInv, TypeOK
  <2>5. sent' \in [Vector -> Trees \cup {Lost}]
    BY <1>2, <1>3 DEF IInv, TypeOK
  <2>6. built' \in [Node -> [tree : Trees, uses : SUBSET Place] \cup {Lost}]
    BY <1>2, WithoutType DEF IInv
  <2> QED
    BY <2>1, <2>2, <2>3, <2>4, <2>5, <2>6 DEF TypeOK
<1>6. \A w \in Vector : w # v => sent'[w] = sent[w] /\ fds'[w] = fds[w] /\ vec'[w] = vec[w]
  BY <1>2, <1>4 DEF IInv, TypeOK
<1>7. Owned'
  <2>1. vec'[v] # Gone
    BY <1>4, PlaceAssumption
  <2> QED
    BY <1>4, <1>6, <2>1 DEF IInv, Owned
<1>8. ASSUME NEW w \in Vector, sent'[w] # Lost
      PROVE  Delivered(w)'
  <2>1. CASE w = v
    <3>1. ~ self /\ sent'[v] = tree /\ fds'[v] = list
      BY <1>2, <1>8, <2>1 DEF IInv, TypeOK
    <3>2. block'[vec'[v]] = bytes
      BY <1>4
    <3> QED
      BY <1>3, <2>1, <3>1, <3>2 DEF Delivered, Trees
  <2>2. CASE w # v
    <3>1. sent[w] # Lost /\ vec[w] # Gone
      BY <1>6, <1>8, <2>2 DEF IInv, Owned
    <3>2. block'[vec'[w]] = block[vec[w]]
      BY <1>4, <2>2, <3>1
    <3> QED
      BY <1>6, <1>8, <2>2, <3>2, StaysDelivered
  <2> QED
    BY <2>1, <2>2
<1>9. \A c \in DOMAIN block : c # vec[v] => c \in DOMAIN block' /\ block'[c] = block[c]
  BY <1>4
<1> QED
  BY <1>2, <1>5, <1>7, <1>8, <1>9, Destroys

(* A new array is in use by nobody.                                        *)
LEMMA MakeArraySound ==
  ASSUME IInv, NEW k \in Array, NEW pointers \in BoundedSeq(Pointer, MaxArray),
         make_array(k, pointers)
  PROVE  IInv'
<1>1. /\ array[k] = Gone
      /\ array' = [array EXCEPT ![k] = pointers]
      /\ UNCHANGED <<node, block, vec, fds, built, sent>>
  BY DEF make_array
<1>2. Leaves({})
  BY <1>1 DEF Leaves, IInv, TypeOK
<1>3. TypeOK'
  BY <1>1 DEF IInv, TypeOK
<1> QED
  BY <1>1, <1>2, <1>3, Unrelated

(* The program takes an array away, and with it what was made of it.       *)
LEMMA DropArraySound ==
  ASSUME IInv, NEW k \in Array, drop_array(k)
  PROVE  IInv'
<1>1. /\ array' = [array EXCEPT ![k] = Gone] /\ built' = Without(k)
      /\ UNCHANGED <<node, block, vec, fds, sent>>
  BY DEF drop_array
<1>2. array' \in [Array -> BoundedSeq(Pointer, MaxArray) \cup {Gone}]
  BY <1>1 DEF IInv, TypeOK
<1>3. TypeOK' /\ Owned'
  BY <1>1, <1>2, WithoutType DEF IInv, TypeOK, Owned
<1>4. \A v \in Vector : sent'[v] # Lost => Delivered(v)'
  BY <1>1, StaysDelivered
<1>5. \A l \in Array : l # k => array'[l] = array[l]
  BY <1>1 DEF IInv, TypeOK
<1> QED
  BY <1>1, <1>3, <1>4, <1>5, Destroys

(* The same for a vector.                                                  *)
LEMMA DropVectorSound ==
  ASSUME IInv, NEW v \in Vector, drop_vector(v)
  PROVE  IInv'
<1>1. /\ vec[v] # Gone
      /\ block' = [b \in DOMAIN block \ {vec[v]} |-> block[b]]
      /\ vec' = [vec EXCEPT ![v] = Gone] /\ fds' = [fds EXCEPT ![v] = <<>>]
      /\ sent' = [sent EXCEPT ![v] = Lost]
      /\ built' = Without(vec[v]) /\ UNCHANGED <<node, array>>
  <2>1. block' = [b \in DOMAIN block \ {vec[v]} |-> block[b]]
    BY DEF drop_vector, Restrict
  <2> QED
    BY <2>1 DEF drop_vector
<1>2. /\ \A w \in Vector : vec'[w] = IF w = v THEN Gone ELSE vec[w]
      /\ \A w \in Vector : sent'[w] = IF w = v THEN Lost ELSE sent[w]
      /\ \A w \in Vector : w # v => fds'[w] = fds[w]
  BY <1>1 DEF IInv, TypeOK
<1>3. DOMAIN block = {vec[w] : w \in Vector} \ {Gone}
  BY Memory DEF IInv
<1>4. /\ DOMAIN block' = DOMAIN block \ {vec[v]}
      /\ \A b \in DOMAIN block' : block'[b] = block[b]
  BY <1>1
<1>5. DOMAIN block' = {vec'[w] : w \in Vector} \ {Gone}
  BY <1>2, <1>3, <1>4 DEF IInv, Owned
<1>6. TypeOK'
  <2>1. vec' \in [Vector -> Block \cup {Gone}] /\ sent' \in [Vector -> Trees \cup {Lost}]
    BY <1>1 DEF IInv, TypeOK
  <2>2. fds' \in [Vector -> Seq(Nat)]
    <3>1. <<>> \in Seq(Nat)
      OBVIOUS
    <3> QED
      BY <1>1, <3>1 DEF IInv, TypeOK
  <2>3. block' \in [{vec'[w] : w \in Vector} \ {Gone} -> Seq(Token)]
    <3>1. \A b \in DOMAIN block' : block'[b] \in Seq(Token)
      BY <1>4, Memory DEF IInv
    <3> QED
      BY <1>1, <1>4, <1>5, <3>1
  <2>4. built' \in [Node -> [tree : Trees, uses : SUBSET Place] \cup {Lost}]
    BY <1>1, WithoutType DEF IInv
  <2> QED
    BY <1>1, <2>1, <2>2, <2>3, <2>4 DEF IInv, TypeOK
<1>7. Owned'
  BY <1>2 DEF IInv, Owned
<1>8. ASSUME NEW w \in Vector, sent'[w] # Lost
      PROVE  Delivered(w)'
  <2>1. w # v /\ sent'[w] = sent[w] /\ vec'[w] = vec[w] /\ fds'[w] = fds[w]
    BY <1>2, <1>8
  <2>2. vec[w] # Gone /\ vec[w] # vec[v]
    BY <1>8, <2>1 DEF IInv, Owned
  <2>3. block'[vec[w]] = block[vec[w]]
    BY <1>3, <1>4, <2>2
  <2> QED
    BY <1>8, <2>1, <2>3, StaysDelivered
<1> QED
  BY <1>1, <1>4, <1>6, <1>7, <1>8, Destroys

-----------------------------------------------------------------------------
(* At first there is nothing.                                              *)
LEMMA InitSound == Init => IInv
<1> SUFFICES ASSUME Init
             PROVE  IInv
  OBVIOUS
<1>1. /\ \A a \in Node : built[a] = Lost /\ node[a] = Free
      /\ \A v \in Vector : vec[v] = Gone /\ sent[v] = Lost
      /\ DOMAIN block = {}
  BY DEF Init
<1>2. block \in [{vec[v] : v \in Vector} \ {Gone} -> Seq(Token)]
  <2>1. {vec[v] : v \in Vector} \ {Gone} = {}
    BY <1>1
  <2> QED
    BY <2>1 DEF Init
<1>3. fds \in [Vector -> Seq(Nat)]
  <2>1. <<>> \in Seq(Nat)
    OBVIOUS
  <2> QED
    BY <2>1 DEF Init
<1>4. TypeOK
  BY <1>2, <1>3 DEF Init, TypeOK
<1> QED
  BY <1>1, <1>4 DEF IInv, Owned

(* Every step keeps the invariant.                                         *)
LEMMA NextSound ==
  ASSUME IInv, [Next]_vars
  PROVE  IInv'
<1>1. ASSUME NEW a \in Node, NEW i \in Number, create_int(a, i)
      PROVE  IInv'
  <2>1. i \in Number \cup Fd
    OBVIOUS
  <2> QED
    BY <1>1, <2>1, CreatesNumber
<1>2. ASSUME NEW a \in Node, NEW f \in Fd, create_fd(a, f)
      PROVE  IInv'
  <2>1. f \in Number \cup Fd
    OBVIOUS
  <2> QED
    BY <1>2, <2>1, CreatesNumber
<1>3. CASE UNCHANGED vars
  <2>1. Leaves({})
    BY <1>3 DEF vars, Leaves
  <2>2. TypeOK'
    BY <1>3 DEF vars, IInv, TypeOK
  <2> QED
    BY <1>3, <2>1, <2>2, Unrelated DEF vars
<1> QED
  BY <1>1, <1>2, <1>3, CreatesBytes, CreatesSeq, CreatesMap, DeleteSound, EncodeSound,
     MakeArraySound, DropArraySound, DropVectorSound DEF Next

(* And so it always holds.                                                 *)
LEMMA Invariance == Spec => []IInv
BY InitSound, NextSound, PTL DEF Spec

(* Every variable has its type: whatever is created, encoded and           *)
(* destroyed, a vector holds tokens of a tree, and a list descriptors.     *)
THEOREM TypesHold == Spec => []TypeOK
<1>1. IInv => TypeOK
  BY DEF IInv
<1> QED
  BY <1>1, Invariance, PTL

(* A value whose parts were left alone is made of such values, and of      *)
(* arrays and bytes that are still there and still hold what they did,     *)
(* whatever is deleted, encoded, moved and allocated again.                *)
THEOREM PartsOutlive == Spec => []PartsIntact
<1>1. IInv => PartsIntact
  BY Kinds DEF IInv, Sound, PartsIntact
<1> QED
  BY <1>1, Invariance, PTL

(* And so get_*, as_* and encode, which follow all its pointers, find the  *)
(* tree it was built as, however deep.                                     *)
THEOREM ReadsWhatItWasBuiltAs == Spec => []ReadsWhatWasBuilt
<1>1. ASSUME IInv, NEW a \in Node, built[a] # Lost
      PROVE  Tree(a) = built[a].tree
  <2>1. a \in Intact /\ TreeOf(a) = built[a].tree
    BY <1>1, PlaceAssumption DEF Intact, TreeOf
  <2> QED
    BY <1>1, <2>1, ReadsKnown
<1>2. IInv => ReadsWhatWasBuilt
  BY <1>1 DEF ReadsWhatWasBuilt
<1> QED
  BY <1>2, Invariance, PTL

(* What encode wrote gives back the value, with its descriptors from the   *)
(* list or, where none was wanted, without; and the list has no descriptor *)
(* the bytes do not refer to.                                              *)
THEOREM Encoding == Spec => []EncodesTheValue
<1>1. IInv => EncodesTheValue
  BY DEF IInv, Delivered, EncodesTheValue
<1> QED
  BY <1>1, Invariance, PTL

-----------------------------------------------------------------------------
(* The refinement of ImmutableValues: every step is one of its steps on    *)
(* the values and messages of the state.                                   *)

(* What ImmutableValues sees of a state.                                   *)
ValuesAre ==
  /\ values = [a \in Node |-> IF built[a] = Lost THEN Lost ELSE built[a].tree]
  /\ \A a \in Node : built[a] # Lost => values[a] = built[a].tree
  /\ \A a \in Node : values[a] = Lost <=> built[a] = Lost
  /\ Values!Existing = Intact
  /\ \A p \in Intact : Values!ValueOf(p) = TreeOf(p)

LEMMA ValuesSeen == IInv => ValuesAre
<1> SUFFICES ASSUME IInv
             PROVE  ValuesAre
  OBVIOUS
<1>1. ASSUME NEW a \in Node, built[a] # Lost
      PROVE  Tree(a) = built[a].tree /\ built[a].tree \in Trees /\ built[a].tree # Lost
  <2>1. a \in Intact /\ TreeOf(a) = built[a].tree
    BY <1>1, PlaceAssumption DEF Intact, TreeOf
  <2>2. built[a].tree \in Trees
    BY <1>1, Memory DEF IInv
  <2> QED
    BY <2>1, <2>2, ReadsKnown, NoValueAssumption
<1>2. values = [a \in Node |-> IF built[a] = Lost THEN Lost ELSE built[a].tree]
  BY <1>1 DEF values
<1>3. \A a \in Node : values[a] = Lost <=> built[a] = Lost
  BY <1>1, <1>2
<1>4. \A a \in Node : built[a] # Lost => values[a] = built[a].tree
  BY <1>1, <1>2
<1>5. Values!Existing = Intact
  BY <1>3 DEF Values!Existing, Intact
<1>6. \A p \in Intact : Values!ValueOf(p) = TreeOf(p)
  BY <1>4 DEF Values!ValueOf, TreeOf, Intact
<1> QED
  BY <1>2, <1>3, <1>4, <1>5, <1>6 DEF ValuesAre

(* The first token of a container says how many there are in it.           *)
LEMMA FirstTokens ==
  /\ \A s \in Seq(Seq(Token)) : Sequence(s)[1] = <<"seq", Len(s)>>
  /\ \A s, t \in Seq(Seq(Token)) : Map(s, t)[1] = <<"map", Len(s)>>
  /\ \A bytes \in Seq(Token) : Binary(bytes)[1] = <<"binary", Len(bytes)>>
<1> SUFFICES ASSUME NEW s \in Seq(Seq(Token)), NEW t \in Seq(Seq(Token)), NEW bytes \in Seq(Token)
             PROVE  /\ Sequence(s)[1] = <<"seq", Len(s)>> /\ Map(s, t)[1] = <<"map", Len(s)>>
                    /\ Binary(bytes)[1] = <<"binary", Len(bytes)>>
  <2>1. <<>> \in Seq(Token) /\ <<>> \in Seq(Seq(Token))
    OBVIOUS
  <2> QED
    BY <2>1
<1>1. FlattenSeq(s) \in Seq(Token) /\ FlattenSeq(t) \in Seq(Token)
  BY FlattenType
<1>2. <<"seq", Len(s)>> \in Token /\ <<"map", Len(s)>> \in Token /\ <<"binary", Len(bytes)>> \in Token
  <2>1. Len(s) \in Nat /\ Len(bytes) \in Nat
    OBVIOUS
  <2> QED
    BY <2>1, IsToken
<1>3. ASSUME NEW token \in Token, NEW rest \in Seq(Token)
      PROVE  /\ (<<token>> \o rest) \in Seq(Token) /\ (<<token>> \o rest)[1] = token
             /\ Len(<<token>> \o rest) \in Nat /\ Len(<<token>> \o rest) # 0
  <2>1. <<token>> \in Seq(Token) /\ Len(<<token>>) = 1 /\ <<token>>[1] = token
    OBVIOUS
  <2>2. Len(rest) \in Nat
    OBVIOUS
  <2> QED
    BY <2>1, <2>2, ConcatProperties
<1>4. Map(s, t)[1] = <<"map", Len(s)>>
  <2>1. PICK head : head = <<<<"map", Len(s)>>>> \o FlattenSeq(s)
    OBVIOUS
  <2>2. head \in Seq(Token) /\ head[1] = <<"map", Len(s)>> /\ Len(head) \in Nat /\ Len(head) # 0
    BY <1>1, <1>2, <1>3, <2>1
  <2>3. (head \o FlattenSeq(t))[1] = head[1]
    <3>1. Len(FlattenSeq(t)) \in Nat
      BY <1>1
    <3> QED
      BY <1>1, <2>2, <3>1, ConcatProperties
  <2> QED
    BY <2>1, <2>2, <2>3 DEF Map
<1> QED
  BY <1>1, <1>2, <1>3, <1>4 DEF Sequence, Binary

(* The first token of its tree is what the library sees of a value.        *)
LEMMA SeenIsFirst ==
  ASSUME IInv, NEW a \in Node, built[a] # Lost
  PROVE  Seen(a) = built[a].tree[1] /\ built[a].tree[1] \in Token
<1> DEFINE x == node[a]
           t == built[a].tree
<1>1. /\ x \in Value /\ HasMemory(a) /\ Content(x, Known) = t /\ t \in Trees
  BY Memory DEF IInv, Sound
<1>2. t[1] \in Token
  BY <1>1, EmptySeq DEF Trees
<1> HIDE DEF x, t
<1>3. CASE x.kind \in {"int", "fd"}
  <2>1. t = <<<<x.kind, x.number>>>>
    BY <1>1, <1>3, Kinds DEF Content
  <2> QED
    BY <1>2, <1>3, <2>1 DEF Seen, x, t
<1>4. CASE x.kind = "encoded"
  <2>1. t = Bytes(x.at, x.size)
    BY <1>1, <1>4, Kinds DEF Content
  <2> QED
    BY <1>2, <1>4, <2>1 DEF Seen, x, t
<1>5. CASE x.kind = "binary"
  <2>1. t = Binary(Bytes(x.at, x.size)) /\ x.size \in Nat
    BY <1>1, <1>5, Kinds DEF Content
  <2>2. x.at \in DOMAIN block /\ x.size <= Len(block[x.at])
    BY <1>1, <1>5 DEF HasMemory, x
  <2>3. block[x.at] \in Seq(Token)
    BY <2>2, Memory DEF IInv
  <2>4. Bytes(x.at, x.size) = SubSeq(block[x.at], 1, x.size)
    BY <2>2 DEF Bytes
  <2>5. /\ SubSeq(block[x.at], 1, x.size) \in Seq(Token)
        /\ Len(SubSeq(block[x.at], 1, x.size)) = x.size
    BY <2>1, <2>2, <2>3, SubSeqProperties
  <2>6. t[1] = <<"binary", x.size>>
    BY <2>1, <2>4, <2>5, FirstTokens
  <2> QED
    BY <1>2, <1>5, <2>6 DEF Seen, x, t
<1>6. CASE x.kind \in {"seq", "map"}
  <2> DEFINE f == [p \in Pointer |-> IF p \in Intact THEN TreeOf(p) ELSE <<>>]
  <2>1. /\ x.size \in Nat /\ x.values \in Array
        /\ x.kind = "map" => x.keys \in Array
    BY <1>1, <1>6, Kinds
  <2>2. f \in [Pointer -> Seq(Token)] /\ \A p \in Pointers(x) : f[p] = Known[p]
    <3>1. \A p \in Intact : p \in Pointer /\ TreeOf(p) \in Seq(Token)
      BY IntactTrees DEF Trees
    <3>2. <<>> \in Seq(Token)
      OBVIOUS
    <3>3. Pointers(x) \subseteq Intact
      BY DEF IInv, Sound, x
    <3> QED
      BY <3>1, <3>2, <3>3 DEF Known
  <2> HIDE DEF f
  <2>3. t = Content(x, f)
    BY <1>1, <2>2, ContentOfPointers
  <2>4. \A k \in Array : Found(k, x.size, f) \in Seq(Seq(Token)) /\ Len(Found(k, x.size, f)) = x.size
    <3>1. \A k \in Array : Found(k, x.size, f) \in Seq(Seq(Token))
      BY <2>1, <2>2, FoundType DEF IInv
    <3>2. \A k \in Array : Len(Found(k, x.size, f)) = x.size
      BY <2>1 DEF Found
    <3> QED
      BY <3>1, <3>2
  <2>5. CASE x.kind = "seq"
    <3>1. t = Sequence(Found(x.values, x.size, f))
      BY <1>1, <2>3, <2>5, Kinds DEF Content
    <3>2. t[1] = <<"seq", x.size>>
      BY <2>1, <2>4, <3>1, FirstTokens
    <3> QED
      BY <1>2, <2>5, <3>2 DEF Seen, x, t
  <2>6. CASE x.kind = "map"
    <3>1. t = Map(Found(x.keys, x.size, f), Found(x.values, x.size, f))
      BY <1>1, <2>3, <2>6, Kinds DEF Content
    <3>2. t[1] = <<"map", x.size>>
      BY <2>1, <2>4, <2>6, <3>1, FirstTokens
    <3> QED
      BY <1>2, <2>6, <3>2 DEF Seen, x, t
  <2> QED
    BY <1>6, <2>5, <2>6
<1> QED
  BY <1>1, <1>3, <1>4, <1>5, <1>6, Kinds

(* Questions about a value are answered from its tree.                     *)
LEMMA AnswersOfTree ==
  ASSUME NEW a, NEW t, Seen(a) = t[1], t[1] \in Token
  PROVE  Answers(a) = Values!Answers(t)
<1> DEFINE kind == t[1][1]  n == t[1][2]
<1>1. /\ kind = "fd" => n \in Nat \cup {NoFd}
      /\ kind = "static" => n \in Static
      /\ kind \in {"binary", "seq", "map"} => n \in Nat
  BY TokenPairs
<1>2. Nothing \notin Int /\ Nothing # True /\ NoFd \notin Nat
  BY NoValueAssumption, NumberAssumption
<1> HIDE DEF kind, n
<1>3. \A k, Valid : get(a, k, Valid) = IF kind = k /\ n \in Valid THEN n ELSE Nothing
  BY DEF get, kind, n
<1>4. /\ value_or(get_int(a), 0) = IF kind = "int" /\ n \in -2 .. 1 THEN n ELSE 0
      /\ value_or(get_uint(a), 0) = IF kind = "int" /\ n \in 0 .. 3 THEN n ELSE 0
  BY <1>2, <1>3 DEF get_int, get_uint, value_or, IntRange, UintRange
<1>5. value_or(get_bool(a), False) = IF kind = "static" /\ n \in {True, False} THEN n ELSE False
  BY <1>2, <1>3 DEF get_bool, value_or
<1>6. value_or(get_fd(a), NoFd) = IF kind = "fd" THEN n ELSE NoFd
  BY <1>1, <1>2, <1>3 DEF get_fd, value_or
<1>7. value_or(get_binary(a), 0) = IF kind = "binary" THEN n ELSE 0
  BY <1>1, <1>2, <1>3 DEF get_binary, value_or
<1>8. /\ get_map(a) = IF kind = "map" THEN n ELSE Nothing
      /\ get_seq(a) = IF kind = "seq" THEN n ELSE Nothing
  BY <1>1, <1>3 DEF get_map, get_seq
<1> QED
  BY <1>4, <1>5, <1>6, <1>7, <1>8 DEF Answers, Values!Answers, kind, n

(* All questions about all values.                                         *)
LEMMA AnsweredRight == IInv => Values!Answered
<1> SUFFICES ASSUME IInv
             PROVE  Values!Answered
  OBVIOUS
<1>1. ASSUME NEW a \in Node
      PROVE  /\ values[a] = Lost => answers[a] = Lost
             /\ values[a] # Lost => answers[a] = Values!Answers(values[a])
  <2>1. CASE built[a] = Lost
    BY <2>1, ValuesSeen DEF ValuesAre, answers
  <2>2. CASE built[a] # Lost
    <3>1. values[a] = built[a].tree /\ values[a] # Lost
      BY <2>2, ValuesSeen DEF ValuesAre
    <3>2. Seen(a) = built[a].tree[1] /\ built[a].tree[1] \in Token
      BY <2>2, SeenIsFirst
    <3>3. Answers(a) = Values!Answers(built[a].tree)
      BY <3>2, AnswersOfTree
    <3> QED
      BY <2>2, <3>1, <3>3 DEF answers
  <2> QED
    BY <2>1, <2>2
<1>2. answers = [a \in Node |-> answers[a]]
  BY DEF answers
<1> QED
  BY <1>1, <1>2 DEF Values!Answered

(* At first there are no values and no messages.                           *)
LEMMA MapsInit ==
  ASSUME Init
  PROVE  Values!Init
<1>1. IInv
  BY InitSound
<1>2. values = [a \in Node |-> Lost]
  BY DEF Init, values
<1>3. messages = [v \in Vector |-> Lost]
  BY DEF Init, messages
<1> QED
  BY <1>1, <1>2, <1>3, AnsweredRight DEF Values!Init

(* The two modules flatten, and bound, sequences in the same way.          *)
LEMMA FlattenSame == \A s : FlattenSeq(s) = Values!FlattenSeq(s)
BY DEF FlattenSeq, Values!FlattenSeq

(* The same for their bound.                                               *)
LEMMA BoundedSame == \A S, n : BoundedSeq(S, n) = Values!BoundedSeq(S, n)
BY DEF BoundedSeq, SeqOf, Values!BoundedSeq, Values!SeqOf

(* The trees of the first elements of an array are those of a container.   *)
LEMMA ElementsGroup ==
  ASSUME IInv, NEW k \in Array, Readable(k), NEW n \in 0 .. Len(array[k])
  PROVE  Elements(k, n) \in Values!Groups /\ Len(Elements(k, n)) = n
<1>1. array[k] # Gone /\ array[k] \in Seq(Pointer) /\ Len(array[k]) \in 0 .. MaxArray
  BY Memory DEF Readable, IInv
<1>2. n \in Nat /\ n <= MaxArray /\ 1 .. n \subseteq DOMAIN array[k] /\ MaxArray \in Nat
  BY <1>1, NumberAssumption
<1>3. \A i \in 1 .. n : array[k][i] \in Intact
  BY <1>2 DEF Readable
<1> DEFINE s == [i \in 1 .. n |-> array[k][i]]
<1>4. s \in Seq(Intact) /\ Len(s) = n /\ DOMAIN s = 1 .. n
  BY <1>2, <1>3
<1>5. s \in Values!BoundedSeq(Values!Existing, MaxArray)
  <2> HIDE DEF s
  <2>1. s \in BoundedSeq(Intact, MaxArray)
    BY <1>2, <1>4, BoundedSeqs
  <2> QED
    BY <2>1, BoundedSame, ValuesSeen DEF ValuesAre
<1>6. [i \in DOMAIN s |-> Values!ValueOf(s[i])] = Elements(k, n)
  BY <1>3, <1>4, ValuesSeen DEF ValuesAre, Elements
<1>7. Len(Elements(k, n)) = n
  BY <1>2 DEF Elements
<1> QED
  BY <1>5, <1>6, <1>7 DEF Values!Groups

(* A new value is a new name for a tree.                                   *)
LEMMA MapsCreate ==
  ASSUME IInv, IInv', NEW a \in Node, NEW x, NEW t, NEW uses, Create(a, x, t, uses),
         built'[a] # Lost,
         Values!Leaf(t) \/ Values!Container(t) \/ Values!Received(t)
  PROVE  Values!Create(a)
<1>1. /\ node[a] = Free
      /\ built' = [built EXCEPT ![a] = [tree |-> t, uses |-> uses \cup {a}]]
      /\ UNCHANGED <<block, vec, fds, sent>>
  BY DEF Create
<1>2. built[a] = Lost
  BY <1>1, Kinds DEF IInv, Sound
<1>3. ValuesAre /\ ValuesAre'
  BY ValuesSeen, PTL
<1>4. \A b \in Node : b # a => built'[b] = built[b]
  BY <1>1 DEF IInv, TypeOK
<1>5. values'[a] = t /\ values'[a] # Lost /\ values[a] = Lost
  <2>1. built'[a].tree = t
    BY <1>1 DEF IInv, TypeOK
  <2> QED
    BY <1>2, <1>3, <2>1 DEF ValuesAre
<1>6. values' = [values EXCEPT ![a] = values'[a]]
  BY <1>3, <1>4 DEF ValuesAre
<1>7. UNCHANGED messages
  BY <1>1 DEF messages
<1> QED
  BY <1>5, <1>6, <1>7 DEF Values!Create

(* What ends is not there any more; nothing else changes.                  *)
LEMMA MapsEnd ==
  ASSUME IInv, IInv', built' = built \/ \E z : built' = Without(z)
  PROVE  Values!End
<1>1. ValuesAre /\ ValuesAre'
  BY ValuesSeen, PTL
<1>2. \A a \in Node : built'[a] \in {built[a], Lost}
  BY DEF Without
<1> QED
  BY <1>1, <1>2 DEF ValuesAre, Values!End

(* A message, for the two modules, says the same.                          *)
LEMMA MeaningIsResolved ==
  ASSUME NEW bytes \in Seq(Token), NEW list, NEW m, m.bytes = bytes, m.list = list
  PROVE  Values!Meaning(m) = Resolved(bytes, list)
BY DEF Values!Meaning, Resolved, Tokens, Fds, IsFd

(* And both leave out the descriptors in the same way.                     *)
LEMMA WithoutFdsSame ==
  ASSUME NEW tree \in Seq(Token)
  PROVE  Values!WithoutFds(tree) = WithoutFds(tree)
<1>1. ASSUME NEW i \in DOMAIN tree, tree[i][1] = "fd", ~ IsFd(tree[i])
      PROVE  tree[i] = <<"fd", NoFd>>
  <2>1. tree[i] \in Token
    OBVIOUS
  <2> QED
    BY <1>1, <2>1, TokenPairs DEF IsFd
<1>2. \A i \in DOMAIN tree : IsFd(tree[i]) => tree[i][1] = "fd"
  BY DEF IsFd
<1> QED
  BY <1>1, <1>2 DEF Values!WithoutFds, WithoutFds, Tokens, Fds

(* Numbers and descriptors are leaves.                                     *)
LEMMA MapsNumber ==
  ASSUME IInv, NEW a \in Node,
         \/ \E i \in Number : create_int(a, i)
         \/ \E f \in Fd : create_fd(a, f)
  PROVE  Values!Create(a)
<1>1. IInv' /\ built'[a] # Lost
  BY CreatesNumber
<1>2. ASSUME NEW kind \in {"int", "fd"}, NEW n, NEW x, Create(a, x, <<<<kind, n>>>>, {})
      PROVE  Values!Create(a)
  <2>1. Values!Leaf(<<<<kind, n>>>>)
    BY DEF Values!Leaf
  <2> QED
    BY <1>1, <1>2, <2>1, MapsCreate
<1> QED
  BY <1>2 DEF create_int, create_fd

(* Binary and encoded values are received.                                 *)
LEMMA MapsBytes ==
  ASSUME IInv, NEW a \in Node, NEW v \in Vector, create_binary(a, v) \/ create_encoded(a, v)
  PROVE  Values!Create(a)
<1>1. IInv' /\ built'[a] # Lost
  BY CreatesBytes
<1>2. sent[v] # Lost
  BY DEF create_binary, create_encoded
<1>3. messages[v] # Lost /\ messages[v].bytes = block[vec[v]]
  <2>1. block[vec[v]] \in Trees /\ fds[v] \in Seq(Nat)
    BY <1>2, OfMessage DEF IInv, TypeOK
  <2>2. messages[v] = [bytes |-> block[vec[v]], list |-> fds[v]]
    BY <1>2 DEF messages
  <2> QED
    BY <2>1, <2>2, NoValueAssumption
<1>4. /\ Values!Received(Binary(block[vec[v]]))
      /\ Values!Received(block[vec[v]])
  BY <1>3 DEF Values!Received, Binary
<1> QED
  BY <1>1, <1>4, MapsCreate DEF create_binary, create_encoded

(* Sequences are containers of the trees their elements have now.          *)
LEMMA MapsSeq ==
  ASSUME IInv, NEW a \in Node, NEW k \in Array, create_seq(a, k)
  PROVE  Values!Create(a)
<1> DEFINE n == Len(array[k])
           s == Elements(k, n)
<1>1. IInv' /\ built'[a] # Lost
  BY CreatesSeq
<1>2. /\ Readable(k)
      /\ Create(a, [kind |-> "seq", values |-> k, size |-> n], Sequence(s), UsedBy(k, n))
  BY DEF create_seq
<1>3. n \in 0 .. n
  BY <1>2, Memory DEF Readable, IInv
<1>4. s \in Values!Groups
  BY <1>2, <1>3, ElementsGroup
<1> HIDE DEF s, n
<1>5. Sequence(s) = <<<<"seq", Len(s)>>>> \o Values!FlattenSeq(s)
  BY FlattenSame DEF Sequence
<1>6. Values!Container(Sequence(s))
  BY <1>4, <1>5 DEF Values!Container
<1> QED
  BY <1>1, <1>2, <1>6, MapsCreate

(* So are maps.                                                            *)
LEMMA MapsMap ==
  ASSUME IInv, NEW a \in Node, NEW k \in Array, NEW l \in Array, create_map(a, k, l)
  PROVE  Values!Create(a)
<1> DEFINE n == Len(array[k])
           m == Len(array[l])
           f == IF n < m THEN n ELSE m
           s == Elements(k, f)
           t == Elements(l, f)
<1>1. IInv' /\ built'[a] # Lost
  BY CreatesMap
<1>2. /\ Readable(k) /\ Readable(l)
      /\ Create(a, [kind |-> "map", keys |-> k, values |-> l, size |-> Entries(n, m)],
                Map(s, t), UsedBy(k, f) \cup UsedBy(l, f))
  BY DEF create_map
<1>3. f \in 0 .. n /\ f \in 0 .. m
  <2>1. n \in Nat /\ m \in Nat
    BY <1>2, Memory DEF Readable, IInv
  <2> QED
    BY <2>1
<1> HIDE DEF f
<1>4. s \in Values!Groups /\ t \in Values!Groups /\ Len(s) = f /\ Len(t) = f
  BY <1>2, <1>3, ElementsGroup
<1> HIDE DEF s, t, n, m
<1>5. Map(s, t) = <<<<"map", Len(s)>>>> \o Values!FlattenSeq(s) \o Values!FlattenSeq(t)
  BY FlattenSame DEF Map
<1>6. Values!Container(Map(s, t))
  BY <1>4, <1>5 DEF Values!Container
<1> QED
  BY <1>1, <1>2, <1>6, MapsCreate

(* A step that writes to v, or frees it, leaves the other messages.        *)
LEMMA MapsOthers ==
  ASSUME IInv, NEW v \in Vector,
         \A w \in Vector : w # v => sent'[w] = sent[w] /\ fds'[w] = fds[w],
         \A w \in Vector : w # v /\ vec[w] # Gone => block'[vec'[w]] = block[vec[w]]
  PROVE  messages' = [messages EXCEPT ![v] = messages'[v]]
<1>1. \A w \in Vector : sent[w] # Lost => vec[w] # Gone
  BY DEF IInv, Owned
<1>2. \A w \in Vector : w # v => messages'[w] = messages[w]
  BY <1>1 DEF messages
<1>3. messages = [w \in Vector |-> messages[w]] /\ messages' = [w \in Vector |-> messages'[w]]
  BY DEF messages
<1> QED
  BY <1>2, <1>3

(* encode sends the value or, where it writes over what it reads, the      *)
(* message is no more.                                                     *)
LEMMA MapsEncode ==
  ASSUME IInv, NEW p \in Intact, NEW v \in Vector, NEW places \in Lists(Tree(p)),
         encode(p, v, places)
  PROVE  Values!Send(p, v) \/ Values!Forget(v)
<1> DEFINE list  == IF places = {} THEN <<>> ELSE Listed(TreeOf(p), places)
           tree  == IF places = {} THEN WithoutFds(TreeOf(p)) ELSE TreeOf(p)
           self  == vec[v] \in UsesOf(p)
<1>1. PICK b \in Block : Puts(v, Output(p, v, places), b)
  BY Encodes
<1>2. /\ fds' = [fds EXCEPT ![v] = list]
      /\ sent' = [sent EXCEPT ![v] = IF self THEN Lost ELSE tree]
      /\ built' = Without(vec[v])
  BY Encodes
<1>3. TreeOf(p) \in Trees
  BY Encodes
<1> HIDE DEF list, tree, self
<1>4. IInv'
  BY EncodeSound
<1>5. Values!End
  BY <1>2, <1>4, MapsEnd
<1>6. \A w \in Vector : w # v /\ vec[w] # Gone => block'[vec'[w]] = block[vec[w]]
  BY <1>1, PutsThere
<1>7. \A w \in Vector : w # v => sent'[w] = sent[w] /\ fds'[w] = fds[w]
  BY <1>2 DEF IInv, TypeOK
<1>8. messages' = [messages EXCEPT ![v] = messages'[v]]
  BY <1>6, <1>7, MapsOthers
<1>9. sent'[v] = IF self THEN Lost ELSE tree
  BY <1>2 DEF IInv, TypeOK
<1>10. CASE sent'[v] = Lost
  <2>1. messages'[v] = Lost
    BY <1>10 DEF messages
  <2> QED
    BY <1>5, <1>8, <2>1 DEF Values!Forget
<1>11. CASE sent'[v] # Lost
  <2>1. sent'[v] = tree
    BY <1>9, <1>11
  <2>2. Delivered(v)' /\ TypeOK'
    BY <1>4, <1>11 DEF IInv
  <2>3. /\ block'[vec'[v]] \in Trees /\ fds'[v] \in Seq(Nat)
        /\ Resolved(block'[vec'[v]], fds'[v]) = tree
    <3>1. vec'[v] \in DOMAIN block'
      BY <1>4, <1>11 DEF IInv, TypeOK, Owned
    <3>2. fds'[v] \in Seq(Nat) /\ block'[vec'[v]] \in Seq(Token)
      BY <2>2, <3>1 DEF TypeOK
    <3> QED
      BY <2>1, <2>2, <3>2 DEF Delivered, Trees
  <2>4. messages'[v] = [bytes |-> block'[vec'[v]], list |-> fds'[v]]
    BY <1>11 DEF messages
  <2>5. messages'[v] # Lost
    BY <2>3, <2>4, NoValueAssumption
  <2>6. Values!Meaning(messages'[v]) = tree
    BY <2>3, <2>4, MeaningIsResolved DEF Trees
  <2>7. Values!ValueOf(p) = TreeOf(p) /\ Values!WithoutFds(TreeOf(p)) = WithoutFds(TreeOf(p))
    BY <1>3, ValuesSeen, WithoutFdsSame DEF ValuesAre, Trees
  <2>8. tree \in {Values!ValueOf(p), Values!WithoutFds(Values!ValueOf(p))}
    BY <2>7 DEF tree
  <2> QED
    BY <1>5, <1>8, <2>5, <2>6, <2>8 DEF Values!Send
<1> QED
  BY <1>10, <1>11

(* A vector that is taken away is forgotten.                               *)
LEMMA MapsDropVector ==
  ASSUME IInv, NEW v \in Vector, drop_vector(v)
  PROVE  Values!Forget(v)
<1>1. /\ block' = [b \in DOMAIN block \ {vec[v]} |-> block[b]]
      /\ vec' = [vec EXCEPT ![v] = Gone] /\ fds' = [fds EXCEPT ![v] = <<>>]
      /\ sent' = [sent EXCEPT ![v] = Lost] /\ built' = Without(vec[v])
  <2>1. block' = [b \in DOMAIN block \ {vec[v]} |-> block[b]]
    BY DEF drop_vector, Restrict
  <2> QED
    BY <2>1 DEF drop_vector
<1>2. IInv' /\ Values!End
  BY <1>1, DropVectorSound, MapsEnd
<1>3. /\ sent'[v] = Lost
      /\ \A w \in Vector : w # v => sent'[w] = sent[w] /\ fds'[w] = fds[w] /\ vec'[w] = vec[w]
  BY <1>1 DEF IInv, TypeOK
<1>4. \A w \in Vector : w # v /\ vec[w] # Gone => block'[vec'[w]] = block[vec[w]]
  <2>1. \A w \in Vector : w # v /\ vec[w] # Gone => vec[w] \in DOMAIN block \ {vec[v]}
    BY Memory DEF IInv, Owned
  <2> QED
    BY <1>1, <1>3, <2>1
<1>5. messages' = [messages EXCEPT ![v] = messages'[v]]
  BY <1>3, <1>4, MapsOthers
<1>6. messages'[v] = Lost
  BY <1>3 DEF messages
<1> QED
  BY <1>2, <1>5, <1>6 DEF Values!Forget

(* Every step is one of ImmutableValues, or changes nothing it sees.       *)
LEMMA MapsNext ==
  ASSUME IInv, [Next]_vars
  PROVE  [Values!Next]_<<values, answers, messages>>
<1>1. IInv'
  BY NextSound
<1>2. Values!Answered'
  BY <1>1, AnsweredRight, PTL
<1>3. ASSUME built' = built \/ \E z : built' = Without(z), UNCHANGED <<block, vec, fds, sent>>
      PROVE  Values!Next
  <2>1. Values!End
    BY <1>1, <1>3, MapsEnd
  <2>2. UNCHANGED messages
    BY <1>3 DEF messages
  <2> QED
    BY <1>2, <2>1, <2>2 DEF Values!Next
<1>4. ASSUME NEW a \in Node, Values!Create(a)
      PROVE  Values!Next
  BY <1>2, <1>4 DEF Values!Next
<1>5. ASSUME NEW a \in Node, delete(a)
      PROVE  Values!Next
  BY <1>3, <1>5 DEF delete
<1>6. ASSUME NEW p \in Intact, NEW v \in Vector, NEW places \in Lists(Tree(p)),
             encode(p, v, places)
      PROVE  Values!Next
  <2>1. p \in Values!Existing
    BY ValuesSeen DEF ValuesAre
  <2> QED
    BY <1>2, <1>6, <2>1, MapsEncode DEF Values!Next
<1>7. ASSUME NEW k \in Array, NEW s, make_array(k, s)
      PROVE  Values!Next
  BY <1>3, <1>7 DEF make_array
<1>8. ASSUME NEW k \in Array, drop_array(k)
      PROVE  Values!Next
  BY <1>3, <1>8 DEF drop_array
<1>9. ASSUME NEW v \in Vector, drop_vector(v)
      PROVE  Values!Next
  BY <1>2, <1>9, MapsDropVector DEF Values!Next
<1>10. CASE UNCHANGED vars
  BY <1>3, <1>10 DEF vars
<1> QED
  BY <1>4, <1>5, <1>6, <1>7, <1>8, <1>9, <1>10, MapsNumber, MapsBytes, MapsSeq, MapsMap DEF Next

(* Seen through its addresses, a program that uses argdata uses values     *)
(* that never change: pointers to elements, addresses that are freed and   *)
(* allocated again, vectors that move and lists of descriptors cannot be   *)
(* told from them.                                                         *)
THEOREM AreImmutableValues == Spec => ImplementsImmutableValues
<1>1. Init => Values!Init
  BY MapsInit
<1>2. IInv /\ [Next]_vars => [Values!Next]_<<values, answers, messages>>
  BY MapsNext
<1> QED
  BY <1>1, <1>2, Invariance, PTL DEF Spec, ImplementsImmutableValues, Values!Spec
=============================================================================
