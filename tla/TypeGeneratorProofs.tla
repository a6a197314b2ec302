------------------------- MODULE TypeGeneratorProofs -------------------------
(***************************************************************************)
(* Proofs about StructGenerator and TypeGenerator, for any lists of types  *)
(* that satisfy their assumptions and any nesting of variants.             *)
(*                                                                         *)
(* The definitions of the generator are recursive.  First it is proved,    *)
(* by induction over the nesting, that the recursive functions satisfy     *)
(* their definitions and have values of the right type.  Then what is      *)
(* written for a list of members is compared with its places: they are in  *)
(* the same order, at the same paths and of the same types, and none of    *)
(* their types is hidden.  Both loops are shown to write that for each     *)
(* type that is not skipped, in the order of the list.  Last, what is      *)
(* qualified is found from the list of members alone, and CloudABI's own   *)
(* structures are gone through, one by one.                                *)
(***************************************************************************)
EXTENDS AbiStructs, TypeGenerator, InductionTheorems

USE NestingAssumption

(* A function on the first n numbers is a sequence.                        *)
LEMMA SeqIntro ==
  ASSUME NEW S, NEW n \in Nat, NEW s, s = [k \in 1 .. n |-> s[k]], \A k \in 1 .. n : s[k] \in S
  PROVE  s \in Seq(S) /\ Len(s) = n
<1>1. s \in [1 .. n -> S]
  OBVIOUS
<1> QED
  BY <1>1, SeqDef

-----------------------------------------------------------------------------
(* What the recursive functions are.                                       *)

ListsOver(L) == Seq(Leaf \cup Variants(L))

(* Lists are defined as they are meant.  They are in no set that could be  *)
(* named beforehand: they are put together from what there is up to each   *)
(* nesting.                                                                *)
LEMMA ListsDef ==
  /\ Lists[0] = Seq(Leaf)
  /\ \A d \in Nat : Lists[d + 1] = ListsOver(Lists[d])
<1> DEFINE St(v) == ListsOver(v)
           Z == Seq(Leaf)
           Up(g, n) == g = [i \in 0 .. n |-> g[i]] /\ g[0] = Z /\ \A i \in 0 .. n - 1 : g[i + 1] = St(g[i])
           A == {n \in Nat : \E g : Up(g, n)}
<1> HIDE DEF St, Z
<1>1. 0 \in A
  <2>1. Up([i \in 0 .. 0 |-> Z], 0)
    OBVIOUS
  <2> HIDE DEF Up
  <2> QED
    BY <2>1
<1>2. ASSUME NEW n \in Nat, n \in A
      PROVE  n + 1 \in A
  <2>1. PICK g : Up(g, n)
    BY <1>2
  <2> DEFINE h == [i \in 0 .. n + 1 |-> IF i = n + 1 THEN St(g[n]) ELSE g[i]]
  <2>2. h[0] = Z
    BY <2>1
  <2>3. ASSUME NEW i \in 0 .. (n + 1) - 1
        PROVE  h[i + 1] = St(h[i])
    <3>1. i + 1 \in 0 .. n + 1 /\ i \in 0 .. n + 1 /\ h[i] = g[i]
      OBVIOUS
    <3>2. CASE i = n
      BY <3>1, <3>2
    <3>3. CASE i # n
      <4>1. i \in 0 .. n - 1 /\ h[i + 1] = g[i + 1]
        BY <3>3
      <4> QED
        BY <2>1, <3>1, <4>1
    <3> QED
      BY <3>2, <3>3
  <2>4. h = [i \in 0 .. n + 1 |-> h[i]]
    OBVIOUS
  <2> HIDE DEF h
  <2>5. Up(h, n + 1)
    BY <2>2, <2>3, <2>4
  <2> HIDE DEF Up
  <2> QED
    BY <2>5
<1>3. Nat \subseteq A
  <2> HIDE DEF A
  <2> QED
    BY <1>1, <1>2, Induction
<1>4. ASSUME NEW n \in Nat, NEW g, Up(g, n), NEW h, Up(h, n + 1)
      PROVE  h[n] = g[n]
  <2> DEFINE B == {i \in Nat : i <= n => h[i] = g[i]}
  <2>1. 0 \in B
    BY <1>4
  <2>2. ASSUME NEW i \in Nat, i \in B
        PROVE  i + 1 \in B
    <3> SUFFICES ASSUME i + 1 <= n
                 PROVE  h[i + 1] = g[i + 1]
      OBVIOUS
    <3>1. h[i] = g[i] /\ i \in 0 .. n - 1 /\ i \in 0 .. (n + 1) - 1
      BY <2>2
    <3> QED
      BY <1>4, <3>1
  <2>3. Nat \subseteq B
    <3> HIDE DEF B
    <3> QED
      BY <2>1, <2>2, Induction
  <2> QED
    BY <2>3
<1> DEFINE a(n) == CHOOSE g : Up(g, n)
           f == [n \in Nat |-> a(n)[n]]
<1>5. \A n \in Nat : Up(a(n), n)
  <2> HIDE DEF Up
  <2> QED
    BY <1>3
<1> HIDE DEF a
<1>6. f[0] = Z
  BY <1>5
<1>7. ASSUME NEW n \in Nat
      PROVE  f[n + 1] = St(f[n])
  <2>1. n + 1 \in Nat /\ Up(a(n + 1), n + 1) /\ Up(a(n), n)
    <3> HIDE DEF Up
    <3> QED
      BY <1>5
  <2>2. a(n + 1)[n] = a(n)[n]
    <3> HIDE DEF Up
    <3> QED
      BY <1>4, <2>1
  <2>3. n \in 0 .. (n + 1) - 1
    OBVIOUS
  <2>4. a(n + 1)[n + 1] = St(a(n + 1)[n])
    BY <2>1, <2>3
  <2> QED
    BY <2>1, <2>2, <2>4
<1>8. f = [n \in Nat |-> f[n]]
  OBVIOUS
<1> HIDE DEF f
<1> DEFINE Body(g, d) == Seq(Leaf \cup IF d = 0 THEN {} ELSE Variants(g[d - 1]))
<1>9. \A d \in Nat : f[d] = Body(f, d)
  <2> SUFFICES ASSUME NEW d \in Nat
               PROVE  f[d] = Body(f, d)
    OBVIOUS
  <2>1. CASE d = 0
    <3>1. Body(f, d) = Seq(Leaf)
      BY <2>1
    <3> QED
      BY <1>6, <2>1, <3>1 DEF Z
  <2>2. CASE d # 0
    <3>1. d - 1 \in Nat /\ (d - 1) + 1 = d
      BY <2>2
    <3>2. f[(d - 1) + 1] = St(f[d - 1])
      BY <1>7, <3>1
    <3> QED
      BY <2>2, <3>1, <3>2 DEF St, ListsOver
  <2> QED
    BY <2>1, <2>2
<1>10. f = [d \in Nat |-> Body(f, d)]
  <2> HIDE DEF Body
  <2> QED
    BY <1>8, <1>9
<1>11. Lists = [d \in Nat |-> Body(Lists, d)]
  <2>1. Lists = CHOOSE g : g = [d \in Nat |-> Body(g, d)]
    BY DEF Lists
  <2> HIDE DEF Body
  <2> QED
    BY <1>10, <2>1
<1>12. Lists[0] = Body(Lists, 0) /\ \A d \in Nat : Lists[d + 1] = Body(Lists, d + 1)
  <2> HIDE DEF Body
  <2> QED
    BY <1>11
<1>13. Lists[0] = Seq(Leaf)
  BY <1>12
<1>14. ASSUME NEW d \in Nat
       PROVE  Lists[d + 1] = ListsOver(Lists[d])
  <2>1. (d + 1) - 1 = d /\ d + 1 # 0
    OBVIOUS
  <2> QED
    BY <1>12, <2>1 DEF ListsOver
<1> QED
  BY <1>13, <1>14

(* A member is a leaf or a variant, whose alternatives nest less deep.     *)
LEMMA ListFacts ==
  ASSUME NEW d \in Nat, NEW ms \in Lists[d]
  PROVE  /\ Len(ms) \in Nat /\ DOMAIN ms = 1 .. Len(ms)
         /\ \A k \in DOMAIN ms :
              /\ ~IsVariant(ms[k]) => ms[k] \in Leaf
              /\ IsVariant(ms[k]) => /\ d # 0 /\ d - 1 \in Nat
                                     /\ ms[k] \in Variants(Lists[d - 1])
<1>1. CASE d = 0
  <2>1. ms \in Seq(Leaf)
    BY <1>1, ListsDef
  <2>2. \A m \in Leaf : ~IsVariant(m)
    BY DEF Leaf, IsVariant
  <2> QED
    BY <2>1, <2>2
<1>2. CASE d # 0
  <2>1. d - 1 \in Nat /\ (d - 1) + 1 = d
    BY <1>2
  <2>2. ms \in Seq(Leaf \cup Variants(Lists[d - 1]))
    BY <2>1, ListsDef DEF ListsOver
  <2>3. \A m \in Leaf : ~IsVariant(m)
    BY DEF Leaf, IsVariant
  <2>4. \A m \in Variants(Lists[d - 1]) : IsVariant(m)
    BY DEF Variants, IsVariant
  <2> QED
    BY <1>2, <2>1, <2>2, <2>3, <2>4
<1> QED
  BY <1>1, <1>2

(* Lists of leaves and variants are lists of members.                      *)
LEMMA ListIntro ==
  ASSUME NEW d \in Nat, NEW n \in Nat, NEW ms, ms = [k \in 1 .. n |-> ms[k]],
         \A k \in 1 .. n : ms[k] \in Leaf \/ (d # 0 /\ ms[k] \in Variants(Lists[d - 1]))
  PROVE  ms \in Lists[d]
<1>1. CASE d = 0
  <2>1. ms \in Seq(Leaf)
    BY <1>1, SeqIntro
  <2> QED
    BY <1>1, <2>1, ListsDef
<1>2. CASE d # 0
  <2>1. d - 1 \in Nat /\ (d - 1) + 1 = d
    BY <1>2
  <2>2. ms \in Seq(Leaf \cup Variants(Lists[d - 1]))
    BY SeqIntro
  <2> QED
    BY <2>1, <2>2, ListsDef DEF ListsOver
<1> QED
  BY <1>1, <1>2

(* The alternatives of a variant.                                          *)
LEMMA VariantFacts ==
  ASSUME NEW L, NEW m \in Variants(L)
  PROVE  /\ m.name = None /\ m.form = "variant" /\ Len(m.members) \in Nat
         /\ DOMAIN m.members = 1 .. Len(m.members)
         /\ \A i \in DOMAIN m.members : /\ m.members[i].name \in STRING \cup {None}
                                        /\ m.members[i].type \in L
<1>1. m.members \in Seq(Alternatives(L)) /\ m.name = None /\ m.form = "variant"
  BY DEF Variants
<1>2. \A i \in DOMAIN m.members : m.members[i] \in Alternatives(L)
  BY <1>1
<1> QED
  BY <1>1, <1>2 DEF Alternatives

(* What is reserved by the members before one are names.                   *)
LEMMA NamesBeforeType ==
  ASSUME NEW d \in Nat, NEW ms \in Lists[d], NEW k \in DOMAIN ms
  PROVE  NamesBefore(ms, k) \in SUBSET STRING
<1>1. ASSUME NEW j \in 1 .. k
      PROVE  ms[j].name \in STRING \cup {None}
  <2>1. j \in DOMAIN ms
    <3>1. Len(ms) \in Nat /\ DOMAIN ms = 1 .. Len(ms)
      BY ListFacts
    <3> QED
      BY <3>1
  <2>2. CASE IsVariant(ms[j])
    BY <2>1, <2>2, ListFacts, VariantFacts
  <2>3. CASE ~IsVariant(ms[j])
    <3>1. ms[j] \in Leaf
      BY <2>1, <2>3, ListFacts
    <3> QED
      BY <3>1 DEF Leaf
  <2> QED
    BY <2>2, <2>3
<1> QED
  BY <1>1 DEF NamesBefore

-----------------------------------------------------------------------------
(* What is written.                                                        *)

(* What writes lists of nesting d, and the writer of those of nesting d    *)
(* from one, g, of those nested in them; the pairs of this kind below are  *)
(* for places and for assertions.                                          *)
WrittenAs(d) == [Lists[d] -> [SUBSET STRING -> Lists[d]]]

MembersBy(d, g) ==
  [ms \in Lists[d] |-> [reserved_names \in SUBSET STRING |->
     [k \in DOMAIN ms |-> Member(ms, k, reserved_names, g)]]]

(* Members written are members.                                            *)
LEMMA MemberType ==
  ASSUME NEW d \in Nat, NEW ms \in Lists[d], NEW reserved \in SUBSET STRING, NEW g,
         d # 0 => g \in WrittenAs(d - 1)
  PROVE  [k \in DOMAIN ms |-> Member(ms, k, reserved, g)] \in Lists[d]
<1>1. ASSUME NEW k \in DOMAIN ms, ~IsVariant(ms[k])
      PROVE  Member(ms, k, reserved, g) \in Leaf
  <2>1. ms[k] \in Leaf
    BY <1>1, ListFacts
  <2> QED
    BY <1>1, <2>1 DEF Member, Leaf
<1>2. ASSUME NEW k \in DOMAIN ms, IsVariant(ms[k])
      PROVE  d # 0 /\ Member(ms, k, reserved, g) \in Variants(Lists[d - 1])
  <2>1. d # 0 /\ d - 1 \in Nat /\ ms[k] \in Variants(Lists[d - 1])
    BY <1>2, ListFacts
  <2>2. g \in WrittenAs(d - 1)
    BY <2>1
  <2> DEFINE xs == ms[k].members
             R == InAlternatives(ms, k, reserved)
             ys == [i \in DOMAIN xs |-> Alternative(xs[i].name, g[xs[i].type][R])]
  <2>3. R \in SUBSET STRING
    BY NamesBeforeType DEF InAlternatives
  <2>4. Len(xs) \in Nat /\ DOMAIN xs = 1 .. Len(xs)
    BY <2>1, VariantFacts
  <2>5. ASSUME NEW i \in 1 .. Len(xs)
        PROVE  ys[i] \in Alternatives(Lists[d - 1])
    <3> HIDE DEF R
    <3>1. xs[i].name \in STRING \cup {None} /\ xs[i].type \in Lists[d - 1]
      BY <2>1, <2>4, VariantFacts
    <3>2. g[xs[i].type][R] \in Lists[d - 1]
      <4>1. g[xs[i].type] \in [SUBSET STRING -> Lists[d - 1]]
        BY <2>2, <3>1 DEF WrittenAs
      <4> QED
        BY <2>3, <4>1
    <3>3. ys[i] = Alternative(xs[i].name, g[xs[i].type][R])
      BY <2>4
    <3> DEFINE n == xs[i].name
               t == g[xs[i].type][R]
    <3>4. n \in STRING \cup {None} /\ t \in Lists[d - 1]
      BY <3>1, <3>2
    <3> HIDE DEF n, t
    <3>5. Alternative(n, t) \in Alternatives(Lists[d - 1])
      BY <3>4 DEF Alternatives, Alternative
    <3> QED
      BY <3>3, <3>5 DEF n, t
  <2>6. ys = [i \in 1 .. Len(xs) |-> ys[i]]
    BY <2>4
  <2>7. ys \in Seq(Alternatives(Lists[d - 1]))
    <3> HIDE DEF ys
    <3> QED
      BY <2>4, <2>5, <2>6, SeqIntro
  <2>8. Member(ms, k, reserved, g) = Variant(ys)
    BY <1>2 DEF Member
  <2> HIDE DEF ys
  <2> QED
    BY <2>1, <2>7, <2>8 DEF Variant, Variants
<1> DEFINE ns == [k \in DOMAIN ms |-> Member(ms, k, reserved, g)]
<1>3. Len(ms) \in Nat /\ DOMAIN ms = 1 .. Len(ms)
  BY ListFacts
<1>4. ns = [k \in 1 .. Len(ms) |-> ns[k]]
  BY <1>3
<1>5. \A k \in 1 .. Len(ms) : ns[k] \in Leaf \/ (d # 0 /\ ns[k] \in Variants(Lists[d - 1]))
  BY <1>1, <1>2, <1>3
<1> HIDE DEF ns
<1>6. ns \in Lists[d]
  BY <1>3, <1>4, <1>5, ListIntro
<1> QED
  BY <1>6 DEF ns

(* Members are defined as they are meant, and typed.                       *)
LEMMA MembersDef ==
  ASSUME NEW d \in Nat
  PROVE  Members[d] = MembersBy(d, Members[d - 1]) /\ Members[d] \in WrittenAs(d)
<1> DEFINE S == [n \in Nat |-> WrittenAs(n)]
           F == [n \in Nat |-> [g \in WrittenAs(n) |-> MembersBy(n + 1, g)]]
           s0 == MembersBy(0, <<>>)
<1>1. ASSUME NEW n \in Nat, NEW g, n # 0 => g \in WrittenAs(n - 1)
      PROVE  MembersBy(n, g) \in WrittenAs(n)
  <2> DEFINE W(ms, r) == [k \in DOMAIN ms |-> Member(ms, k, r, g)]
  <2>1. \A ms \in Lists[n] : \A r \in SUBSET STRING : W(ms, r) \in Lists[n]
    BY <1>1, MemberType
  <2>2. MembersBy(n, g) = [ms \in Lists[n] |-> [r \in SUBSET STRING |-> W(ms, r)]]
    BY DEF MembersBy
  <2> DEFINE V(ms) == [r \in SUBSET STRING |-> W(ms, r)]
             T == [SUBSET STRING -> Lists[n]]
  <2> HIDE DEF W
  <2>3. \A ms \in Lists[n] : V(ms) \in T
    BY <2>1
  <2>4. MembersBy(n, g) = [ms \in Lists[n] |-> V(ms)]
    BY <2>2
  <2> HIDE DEF V, T
  <2>5. MembersBy(n, g) \in [Lists[n] -> T]
    BY <2>3, <2>4
  <2> QED
    BY <2>5 DEF WrittenAs, T
<1>2. s0 \in S[0]
  BY <1>1
<1>3. ASSUME NEW n \in Nat, NEW g \in S[n]
      PROVE  F[n][g] \in S[n + 1]
  <2>1. n + 1 \in Nat /\ (n + 1) - 1 = n
    OBVIOUS
  <2> HIDE DEF WrittenAs
  <2>2. MembersBy(n + 1, g) \in WrittenAs(n + 1)
    BY <1>1, <2>1
  <2> QED
    BY <2>1, <2>2
<1>4. PICK f : /\ f = [n \in Nat |-> f[n]] /\ f[0] = s0
               /\ \A n \in Nat : f[n] \in S[n] /\ f[n + 1] = F[n][f[n]]
  <2> HIDE DEF S, F, s0
  <2> QED
    BY <1>2, <1>3, TypedRecursion
<1>5. \A g, h : MembersBy(0, g) = MembersBy(0, h)
  <2> SUFFICES ASSUME NEW g, NEW h
               PROVE  MembersBy(0, g) = MembersBy(0, h)
    OBVIOUS
  <2>1. ASSUME NEW ms \in Lists[0], NEW k \in DOMAIN ms
        PROVE  ~IsVariant(ms[k])
    BY ListFacts
  <2>2. \A ms \in Lists[0] : \A r \in SUBSET STRING : \A k \in DOMAIN ms :
          Member(ms, k, r, g) = Member(ms, k, r, h)
    BY <2>1 DEF Member
  <2> QED
    BY <2>2 DEF MembersBy
<1>6. \A n \in Nat : f[n] = MembersBy(n, f[n - 1])
  <2> SUFFICES ASSUME NEW n \in Nat
               PROVE  f[n] = MembersBy(n, f[n - 1])
    OBVIOUS
  <2>1. CASE n = 0
    BY <1>4, <1>5, <2>1
  <2>2. CASE n # 0
    <3>1. n - 1 \in Nat /\ (n - 1) + 1 = n
      BY <2>2
    <3>2. f[n - 1] \in WrittenAs(n - 1) /\ f[(n - 1) + 1] = F[n - 1][f[n - 1]]
      BY <1>4, <3>1
    <3> QED
      BY <3>1, <3>2
  <2> QED
    BY <2>1, <2>2
<1>7. f = [n \in Nat |-> MembersBy(n, f[n - 1])]
  BY <1>4, <1>6
<1>8. Members = [n \in Nat |-> MembersBy(n, Members[n - 1])]
  <2>1. Members = CHOOSE g : g = [n \in Nat |-> MembersBy(n, g[n - 1])]
    BY DEF Members, MembersBy
  <2> QED
    BY <1>7, <2>1
<1>9. \A n \in Nat : Members[n] = MembersBy(n, Members[n - 1])
  BY <1>8
<1>10. \A n \in Nat : Members[n] \in WrittenAs(n)
  <2> DEFINE A == {n \in Nat : Members[n] \in WrittenAs(n)}
  <2>1. 0 \in A
    BY <1>1, <1>9
  <2>2. ASSUME NEW n \in Nat, n \in A
        PROVE  n + 1 \in A
    <3>1. n + 1 \in Nat /\ (n + 1) - 1 = n
      OBVIOUS
    <3> QED
      BY <1>1, <1>9, <2>2, <3>1
  <2> HIDE DEF A
  <2>3. Nat \subseteq A
    BY <2>1, <2>2, Induction
  <2> QED
    BY <2>3 DEF A
<1> QED
  BY <1>9, <1>10

(* What is written has the members that are read: a leaf is qualified if   *)
(* its type is plain and reserved, and in alternatives the names before    *)
(* the variant are reserved.                                               *)
LEMMA WrittenFacts ==
  ASSUME NEW d \in Nat, NEW ms \in Lists[d], NEW r \in SUBSET STRING,
         NEW ns, ns = Members[d][ms][r]
  PROVE     /\ ns \in Lists[d] /\ DOMAIN ns = DOMAIN ms
            /\ \A k \in DOMAIN ms :
                 /\ IsVariant(ns[k]) <=> IsVariant(ms[k])
                 /\ ~IsVariant(ms[k]) =>
                      /\ ns[k].form = ms[k].form /\ ns[k].type = ms[k].type /\ ns[k].name = ms[k].name
                      /\ ns[k].qualified <=> ms[k].form = "plain" /\ ms[k].type \in r
                 /\ IsVariant(ms[k]) =>
                      /\ DOMAIN ns[k].members = DOMAIN ms[k].members
                      /\ \A i \in DOMAIN ms[k].members :
                           /\ ns[k].members[i].name = ms[k].members[i].name
                           /\ ns[k].members[i].type =
                                Members[d - 1][ms[k].members[i].type][NamesBefore(ms, k)]
<1>1. ns = [k \in DOMAIN ms |-> Member(ms, k, r, Members[d - 1])]
  <2> DEFINE W(q) == [k \in DOMAIN ms |-> Member(ms, k, q, Members[d - 1])]
  <2>1. Members[d] = MembersBy(d, Members[d - 1])
    BY MembersDef
  <2>2. Members[d][ms] = [q \in SUBSET STRING |-> W(q)]
    BY <2>1 DEF MembersBy
  <2> HIDE DEF W
  <2>3. Members[d][ms][r] = W(r)
    BY <2>2
  <2> QED
    BY <2>3 DEF W
<1>2. ns \in Lists[d]
  <2>1. Members[d] \in WrittenAs(d)
    BY MembersDef
  <2>2. Members[d][ms] \in [SUBSET STRING -> Lists[d]]
    BY <2>1 DEF WrittenAs
  <2> QED
    BY <2>2
<1>3. ASSUME NEW k \in DOMAIN ms, ~IsVariant(ms[k])
      PROVE  /\ ~IsVariant(ns[k])
             /\ ns[k].form = ms[k].form /\ ns[k].type = ms[k].type /\ ns[k].name = ms[k].name
             /\ ns[k].qualified <=> ms[k].form = "plain" /\ ms[k].type \in r
  <2>1. ms[k] \in Leaf
    BY <1>3, ListFacts
  <2> DEFINE q == ms[k].form = "plain" /\ ms[k].type \in r
             m == ms[k]
  <2>2. ns[k] = [m EXCEPT !.qualified = q]
    BY <1>1, <1>3 DEF Member, ForMember
  <2>3. m \in Leaf
    BY <2>1
  <2> HIDE DEF m, q
  <2>4. ns[k] = [form |-> m.form, type |-> m.type, name |-> m.name, qualified |-> q]
    BY <2>2, <2>3 DEF Leaf
  <2>5. ns[k].form = m.form /\ ns[k].type = m.type /\ ns[k].name = m.name /\ ns[k].qualified = q
    BY <2>4
  <2>6. ~IsVariant(m)
    BY <1>3 DEF m
  <2>7. ~IsVariant(ns[k])
    BY <2>5, <2>6 DEF IsVariant
  <2> QED
    BY <2>5, <2>7 DEF m, q
<1>4. ASSUME NEW k \in DOMAIN ms, IsVariant(ms[k])
      PROVE  /\ IsVariant(ns[k])
             /\ DOMAIN ns[k].members = DOMAIN ms[k].members
             /\ \A i \in DOMAIN ms[k].members :
                  /\ ns[k].members[i].name = ms[k].members[i].name
                  /\ ns[k].members[i].type =
                       Members[d - 1][ms[k].members[i].type][NamesBefore(ms, k)]
  <2> DEFINE xs == ms[k].members
             ys == [i \in DOMAIN xs |->
                      Alternative(xs[i].name, Members[d - 1][xs[i].type][NamesBefore(ms, k)])]
  <2>1. ns[k] = Variant(ys)
    BY <1>1, <1>4 DEF Member, InAlternatives
  <2>2. DOMAIN ys = DOMAIN xs
    OBVIOUS
  <2>3. \A i \in DOMAIN xs :
          /\ ys[i].name = xs[i].name
          /\ ys[i].type = Members[d - 1][xs[i].type][NamesBefore(ms, k)]
    BY DEF Alternative
  <2> HIDE DEF ys
  <2>4. ns[k].form = "variant" /\ ns[k].members = ys
    BY <2>1 DEF Variant
  <2> QED
    BY <2>2, <2>3, <2>4 DEF IsVariant
<1>5. DOMAIN ns = DOMAIN ms
  BY <1>1
<1> QED
  BY <1>2, <1>3, <1>4, <1>5

-----------------------------------------------------------------------------
(* Places.                                                                 *)

(* Paths and places, by their types.                                       *)
Path  == {p \in Seq(STRING) : p # <<>>}
Place == [path : Path, member : Leaf, scope : SUBSET STRING]

(* What is declared before the k-th of things declared in order.           *)
Before(s, k) == UNION {Declared(s[j]) : j \in 1 .. (k - 1)}

(* What places declare are names.                                          *)
LEMMA DeclaredType ==
  ASSUME NEW X \in SUBSET Place
  PROVE  Declared(X) \in SUBSET STRING
<1> SUFFICES ASSUME NEW x \in X
             PROVE  Head(x.path) \in STRING
  BY DEF Declared
<1>1. x.path \in Seq(STRING) /\ x.path # <<>>
  BY DEF Place, Path
<1> QED
  BY <1>1, HeadTailProperties

(* The places of things that are declared in order are those of each, with *)
(* what is declared before it in their scopes.                             *)
LEMMA InOrderFacts ==
  ASSUME NEW n \in Nat, NEW s, DOMAIN s = 1 .. n, \A k \in 1 .. n : s[k] \in SUBSET Place
  PROVE  /\ InOrder(s) \in SUBSET Place
         /\ \A y \in InOrder(s) : \E k \in 1 .. n : \E x \in s[k] :
              y.path = x.path /\ y.member = x.member /\ y.scope = x.scope \cup Before(s, k)
         /\ \A k \in 1 .. n : \A x \in s[k] : \E y \in InOrder(s) :
              y.path = x.path /\ y.member = x.member
<1> DEFINE Y(k, x) == [x EXCEPT !.scope = @ \cup Before(s, k)]
<1>1. ASSUME NEW k \in 1 .. n
      PROVE  Before(s, k) \in SUBSET STRING
  <2>1. ASSUME NEW j \in 1 .. (k - 1)
        PROVE  Declared(s[j]) \in SUBSET STRING
    <3>1. j \in 1 .. n
      OBVIOUS
    <3> QED
      BY <3>1, DeclaredType
  <2> QED
    BY <2>1 DEF Before
<1>2. ASSUME NEW k \in 1 .. n, NEW x \in s[k]
      PROVE  /\ Y(k, x) \in Place /\ Y(k, x).path = x.path /\ Y(k, x).member = x.member
             /\ Y(k, x).scope = x.scope \cup Before(s, k)
  <2>1. x \in Place
    OBVIOUS
  <2> DEFINE B == Before(s, k)
  <2>2. B \in SUBSET STRING
    BY <1>1
  <2> HIDE DEF B
  <2>3. [x EXCEPT !.scope = @ \cup B] = [path |-> x.path, member |-> x.member, scope |-> x.scope \cup B]
    <3> DEFINE C == x.scope \cup B
    <3> HIDE DEF C
    <3>1. [x EXCEPT !.scope = C] = [path |-> x.path, member |-> x.member, scope |-> C]
      BY <2>1 DEF Place
    <3> QED
      BY <3>1 DEF C
  <2>4. x.scope \cup B \in SUBSET STRING /\ x.path \in Path /\ x.member \in Leaf
    BY <2>1, <2>2 DEF Place
  <2>5. Y(k, x) = [path |-> x.path, member |-> x.member, scope |-> x.scope \cup B]
    BY <2>3 DEF B
  <2> QED
    BY <2>4, <2>5 DEF Place, B
<1>3. InOrder(s) = UNION {{Y(k, x) : x \in s[k]} : k \in 1 .. n}
  BY DEF InOrder, Before
<1> HIDE DEF Y
<1>4. \A y : y \in InOrder(s) <=> \E k \in 1 .. n : \E x \in s[k] : y = Y(k, x)
  BY <1>3
<1> QED
  BY <1>2, <1>4

(* The path to what path p leads to in a structure with name n, or without.*)
Through(n, p) == IF n = None THEN p ELSE <<n>> \o p

(* The places inside a structure with a name, or without: their paths go   *)
(* through it.                                                             *)
LEMMA InsideFacts ==
  ASSUME NEW X \in SUBSET Place, NEW n \in STRING \cup {None}
  PROVE  /\ Inside(n, X) \in SUBSET Place
         /\ \A y \in Inside(n, X) : \E x \in X :
              /\ y.member = x.member /\ y.scope = x.scope
              /\ y.path = Through(n, x.path)
         /\ \A x \in X : \E y \in Inside(n, X) :
              /\ y.member = x.member
              /\ y.path = Through(n, x.path)
<1> DEFINE To(x) == Through(n, x.path)
           Y(x) == [x EXCEPT !.path = IF n = None THEN @ ELSE <<n>> \o @]
<1>1. ASSUME NEW x \in X
      PROVE  Y(x) \in Place /\ Y(x).member = x.member /\ Y(x).scope = x.scope /\ Y(x).path = To(x)
  <2>1. x \in Place
    OBVIOUS
  <2>2. x.path \in Path /\ x.path \in Seq(STRING)
    BY <2>1 DEF Place, Path
  <2>3. To(x) \in Path
    <3>1. CASE n = None
      BY <2>2, <3>1 DEF Through
    <3>2. CASE n # None
      <4>1. <<n>> \in Seq(STRING) /\ Len(<<n>>) = 1
        <5>1. n \in STRING
          BY <3>2
        <5>2. \A S : \A a \in S : <<a>> \in Seq(S)
          OBVIOUS
        <5>3. Len(<<n>>) = 1
          OBVIOUS
        <5> QED
          BY <5>1, <5>2, <5>3
      <4>2. <<n>> \o x.path \in Seq(STRING) /\ Len(<<n>> \o x.path) = 1 + Len(x.path)
        BY <2>2, <4>1, ConcatProperties
      <4>3. <<n>> \o x.path # <<>>
        BY <2>2, <4>2, LenProperties
      <4> QED
        BY <3>2, <4>2, <4>3 DEF Path, Through
    <3> QED
      BY <3>1, <3>2
  <2>4. Y(x) = [x EXCEPT !.path = To(x)]
    BY DEF Through
  <2> HIDE DEF To, Y
  <2>5. Y(x) = [path |-> To(x), member |-> x.member, scope |-> x.scope]
    BY <2>1, <2>4 DEF Place
  <2> QED
    BY <2>1, <2>3, <2>5 DEF Place
<1>2. Inside(n, X) = {Y(x) : x \in X}
  BY DEF Inside
<1> HIDE DEF Y, To
<1>3. /\ Inside(n, X) \in SUBSET Place
      /\ \A y \in Inside(n, X) : \E x \in X :
            y.member = x.member /\ y.scope = x.scope /\ y.path = To(x)
      /\ \A x \in X : \E y \in Inside(n, X) : y.member = x.member /\ y.path = To(x)
  BY <1>1, <1>2
<1> QED
  BY <1>3 DEF To

PlacedAs(d)   == [Lists[d] -> SUBSET Place]
PlacesBy(d, g) == [ms \in Lists[d] |-> InOrder([k \in DOMAIN ms |-> PlacesIn(ms[k], g)])]

(* The places in a member.                                                 *)
LEMMA PlacesInType ==
  ASSUME NEW d \in Nat, NEW ms \in Lists[d], NEW g, d # 0 => g \in PlacedAs(d - 1),
         NEW k \in DOMAIN ms
  PROVE  PlacesIn(ms[k], g) \in SUBSET Place
<1>1. CASE ~IsVariant(ms[k])
  <2>1. ms[k] \in Leaf
    BY <1>1, ListFacts
  <2>2. ms[k].name \in STRING
    BY <2>1 DEF Leaf
  <2>3. <<ms[k].name>> \in Path
    BY <2>2 DEF Path
  <2> QED
    BY <1>1, <2>1, <2>3 DEF PlacesIn, Place
<1>2. CASE IsVariant(ms[k])
  <2>1. d # 0 /\ d - 1 \in Nat /\ ms[k] \in Variants(Lists[d - 1])
    BY <1>2, ListFacts
  <2> DEFINE xs == ms[k].members
             s  == [i \in DOMAIN xs |-> Inside(xs[i].name, g[xs[i].type])]
  <2>2. Len(xs) \in Nat /\ DOMAIN xs = 1 .. Len(xs)
    BY <2>1, VariantFacts
  <2>3. ASSUME NEW i \in 1 .. Len(xs)
        PROVE  s[i] \in SUBSET Place
    <3>1. xs[i].name \in STRING \cup {None} /\ xs[i].type \in Lists[d - 1]
      BY <2>1, <2>2, VariantFacts
    <3>2. g[xs[i].type] \in SUBSET Place
      BY <2>1, <3>1 DEF PlacedAs
    <3>3. Inside(xs[i].name, g[xs[i].type]) \in SUBSET Place
      BY <3>1, <3>2, InsideFacts
    <3> QED
      BY <2>2, <3>3
  <2>4. DOMAIN s = 1 .. Len(xs)
    BY <2>2
  <2>5. PlacesIn(ms[k], g) = InOrder(s)
    BY <1>2 DEF PlacesIn
  <2> HIDE DEF s
  <2> QED
    BY <2>2, <2>3, <2>4, <2>5, InOrderFacts
<1> QED
  BY <1>1, <1>2

(* The places of a list are places, if those of lists nested in it are.    *)
LEMMA PlacesByType ==
  ASSUME NEW d \in Nat, NEW g, d # 0 => g \in PlacedAs(d - 1)
  PROVE  PlacesBy(d, g) \in PlacedAs(d)
<1> SUFFICES ASSUME NEW ms \in Lists[d]
             PROVE  InOrder([k \in DOMAIN ms |-> PlacesIn(ms[k], g)]) \in SUBSET Place
  BY DEF PlacesBy, PlacedAs
<1> DEFINE s == [k \in DOMAIN ms |-> PlacesIn(ms[k], g)]
<1>1. Len(ms) \in Nat /\ DOMAIN s = 1 .. Len(ms)
  BY ListFacts
<1>2. \A k \in 1 .. Len(ms) : s[k] \in SUBSET Place
  <2>1. \A k \in DOMAIN ms : PlacesIn(ms[k], g) \in SUBSET Place
    BY PlacesInType
  <2> QED
    BY <1>1, <2>1
<1> HIDE DEF s
<1>3. InOrder(s) \in SUBSET Place
  BY <1>1, <1>2, InOrderFacts
<1> QED
  BY <1>3 DEF s

(* Places are defined as they are meant, and typed.                        *)
LEMMA PlacesDef ==
  ASSUME NEW d \in Nat
  PROVE  Places[d] = PlacesBy(d, Places[d - 1]) /\ Places[d] \in PlacedAs(d)
<1> DEFINE S == [n \in Nat |-> PlacedAs(n)]
           F == [n \in Nat |-> [g \in PlacedAs(n) |-> PlacesBy(n + 1, g)]]
           s0 == PlacesBy(0, <<>>)
<1>1. ASSUME NEW n \in Nat, NEW g, n # 0 => g \in PlacedAs(n - 1)
      PROVE  PlacesBy(n, g) \in PlacedAs(n)
  BY <1>1, PlacesByType
<1>2. s0 \in S[0]
  BY <1>1
<1>3. ASSUME NEW n \in Nat, NEW g \in S[n]
      PROVE  F[n][g] \in S[n + 1]
  <2>1. n + 1 \in Nat /\ (n + 1) - 1 = n
    OBVIOUS
  <2> HIDE DEF PlacedAs
  <2>2. PlacesBy(n + 1, g) \in PlacedAs(n + 1)
    BY <1>1, <2>1
  <2> QED
    BY <2>1, <2>2
<1>4. PICK f : /\ f = [n \in Nat |-> f[n]] /\ f[0] = s0
               /\ \A n \in Nat : f[n] \in S[n] /\ f[n + 1] = F[n][f[n]]
  <2> HIDE DEF S, F, s0
  <2> QED
    BY <1>2, <1>3, TypedRecursion
<1>5. \A g, h : PlacesBy(0, g) = PlacesBy(0, h)
  <2> SUFFICES ASSUME NEW g, NEW h
               PROVE  PlacesBy(0, g) = PlacesBy(0, h)
    OBVIOUS
  <2>1. ASSUME NEW ms \in Lists[0], NEW k \in DOMAIN ms
        PROVE  ~IsVariant(ms[k])
    BY ListFacts
  <2>2. \A ms \in Lists[0] : \A k \in DOMAIN ms : PlacesIn(ms[k], g) = PlacesIn(ms[k], h)
    BY <2>1 DEF PlacesIn
  <2>3. \A ms \in Lists[0] :
          [k \in DOMAIN ms |-> PlacesIn(ms[k], g)] = [k \in DOMAIN ms |-> PlacesIn(ms[k], h)]
    BY <2>2
  <2> QED
    BY <2>3 DEF PlacesBy
<1>6. \A n \in Nat : f[n] = PlacesBy(n, f[n - 1])
  <2> SUFFICES ASSUME NEW n \in Nat
               PROVE  f[n] = PlacesBy(n, f[n - 1])
    OBVIOUS
  <2>1. CASE n = 0
    BY <1>4, <1>5, <2>1
  <2>2. CASE n # 0
    <3>1. n - 1 \in Nat /\ (n - 1) + 1 = n
      BY <2>2
    <3>2. f[n - 1] \in PlacedAs(n - 1) /\ f[(n - 1) + 1] = F[n - 1][f[n - 1]]
      BY <1>4, <3>1
    <3> QED
      BY <3>1, <3>2
  <2> QED
    BY <2>1, <2>2
<1>7. f = [n \in Nat |-> PlacesBy(n, f[n - 1])]
  BY <1>4, <1>6
<1>8. Places = [n \in Nat |-> PlacesBy(n, Places[n - 1])]
  <2>1. Places = CHOOSE g : g = [n \in Nat |-> PlacesBy(n, g[n - 1])]
    BY DEF Places, PlacesBy
  <2> QED
    BY <1>7, <2>1
<1>9. \A n \in Nat : Places[n] = PlacesBy(n, Places[n - 1])
  BY <1>8
<1>10. \A n \in Nat : Places[n] \in PlacedAs(n)
  <2> DEFINE A == {n \in Nat : Places[n] \in PlacedAs(n)}
  <2>1. 0 \in A
    BY <1>1, <1>9
  <2>2. ASSUME NEW n \in Nat, n \in A
        PROVE  n + 1 \in A
    <3>1. n + 1 \in Nat /\ (n + 1) - 1 = n
      OBVIOUS
    <3> QED
      BY <1>1, <1>9, <2>2, <3>1
  <2> HIDE DEF A
  <2>3. Nat \subseteq A
    BY <2>1, <2>2, Induction
  <2> QED
    BY <2>3 DEF A
<1> QED
  BY <1>9, <1>10

(* The places in each member of a list.                                    *)
Parts(d, ms) == [k \in DOMAIN ms |-> PlacesIn(ms[k], Places[d - 1])]

(* The places of a list are those in its members.                          *)
LEMMA PlacesFacts ==
  ASSUME NEW d \in Nat, NEW ms \in Lists[d]
  PROVE  /\ Places[d][ms] \in SUBSET Place
         /\ \A k \in DOMAIN ms : Parts(d, ms)[k] \in SUBSET Place
         /\ \A y \in Places[d][ms] : \E k \in DOMAIN ms : \E x \in Parts(d, ms)[k] :
              y.path = x.path /\ y.member = x.member /\ y.scope = x.scope \cup Before(Parts(d, ms), k)
         /\ \A k \in DOMAIN ms : \A x \in Parts(d, ms)[k] : \E y \in Places[d][ms] :
              y.path = x.path /\ y.member = x.member
<1> DEFINE s == Parts(d, ms)
           n == Len(ms)
           R == Places[d][ms]
<1>1. n \in Nat /\ DOMAIN s = 1 .. n /\ DOMAIN ms = 1 .. n
  BY ListFacts DEF Parts
<1>2. d # 0 => Places[d - 1] \in PlacedAs(d - 1)
  <2>1. d # 0 => d - 1 \in Nat
    OBVIOUS
  <2> QED
    BY <2>1, PlacesDef
<1>3. \A k \in DOMAIN ms : s[k] \in SUBSET Place
  BY <1>2, PlacesInType DEF Parts
<1>4. R = InOrder(s)
  BY PlacesDef DEF PlacesBy, Parts
<1> HIDE DEF s, n, R
<1>5. \A k \in 1 .. n : s[k] \in SUBSET Place
  BY <1>1, <1>3
<1>6. /\ R \in SUBSET Place
      /\ \A y \in R : \E k \in 1 .. n : \E x \in s[k] :
           y.path = x.path /\ y.member = x.member /\ y.scope = x.scope \cup Before(s, k)
      /\ \A k \in 1 .. n : \A x \in s[k] : \E y \in R :
           y.path = x.path /\ y.member = x.member
  BY <1>1, <1>4, <1>5, InOrderFacts
<1> QED
  BY <1>1, <1>3, <1>6 DEF R, s

-----------------------------------------------------------------------------
(* What is asserted.                                                       *)

AssertedAs(d) == [Lists[d] -> [Seq(STRING) -> SUBSET Seq(STRING)]]

AssertsIn(ms, path, g) == UNION {AssertsOf(m, path, g) : m \in ToSet(ms)}
AssertsBy(d, g) ==
  [ms \in Lists[d] |-> [path \in Seq(STRING) |-> AssertsIn(ms, path, g)]]

(* The path at which an alternative starts.                                *)
LEMMA PathOfType ==
  ASSUME NEW L, NEW m \in Variants(L), NEW x \in ToSet(m.members)
  PROVE  PathOf(x) \in Seq(STRING) /\ x.type \in L
<1>1. PICK i \in DOMAIN m.members : x = m.members[i]
  BY DEF ToSet
<1>2. x.name \in STRING \cup {None} /\ x.type \in L
  BY <1>1, VariantFacts
<1>3. CASE x.name = None
  BY <1>2, <1>3 DEF PathOf
<1>4. CASE x.name # None
  <2>1. x.name \in STRING
    BY <1>2, <1>4
  <2>2. <<x.name>> \in Seq(STRING)
    BY <2>1
  <2> QED
    BY <1>2, <1>4, <2>2 DEF PathOf
<1> QED
  BY <1>3, <1>4

(* What is asserted of a list are paths, if that of lists nested in it     *)
(* are.                                                                    *)
LEMMA AssertsByType ==
  ASSUME NEW d \in Nat, NEW g, d # 0 => g \in AssertedAs(d - 1)
  PROVE  AssertsBy(d, g) \in AssertedAs(d)
<1>1. ASSUME NEW ms \in Lists[d], NEW path \in Seq(STRING), NEW m \in ToSet(ms)
      PROVE  AssertsOf(m, path, g) \in SUBSET Seq(STRING)
  <2>1. PICK k \in DOMAIN ms : m = ms[k]
    BY DEF ToSet
  <2>2. CASE ~IsVariant(m)
    <3>1. m \in Leaf
      BY <2>1, <2>2, ListFacts
    <3>2. m.name \in STRING
      BY <3>1 DEF Leaf
    <3>3. Append(path, m.name) \in Seq(STRING)
      BY <3>2, AppendProperties
    <3> QED
      BY <2>2, <3>3 DEF AssertsOf
  <2>3. CASE IsVariant(m)
    <3>1. d # 0 /\ m \in Variants(Lists[d - 1])
      BY <2>1, <2>3, ListFacts
    <3>2. ASSUME NEW x \in ToSet(m.members)
          PROVE  g[x.type][PathOf(x)] \in SUBSET Seq(STRING)
      <4>1. PathOf(x) \in Seq(STRING) /\ x.type \in Lists[d - 1]
        BY <3>1, PathOfType
      <4>2. g[x.type] \in [Seq(STRING) -> SUBSET Seq(STRING)]
        BY <3>1, <4>1 DEF AssertedAs
      <4> QED
        BY <4>1, <4>2
    <3> QED
      BY <2>3, <3>2 DEF AssertsOf
  <2> QED
    BY <2>2, <2>3
<1>2. \A ms \in Lists[d] : \A path \in Seq(STRING) : AssertsIn(ms, path, g) \in SUBSET Seq(STRING)
  BY <1>1 DEF AssertsIn
<1> DEFINE V(ms) == [path \in Seq(STRING) |-> AssertsIn(ms, path, g)]
           T == [Seq(STRING) -> SUBSET Seq(STRING)]
<1>3. \A ms \in Lists[d] : V(ms) \in T
  BY <1>2
<1>4. AssertsBy(d, g) = [ms \in Lists[d] |-> V(ms)]
  BY DEF AssertsBy
<1> HIDE DEF V, T
<1>5. AssertsBy(d, g) \in [Lists[d] -> T]
  BY <1>3, <1>4
<1> QED
  BY <1>5 DEF AssertedAs, T

(* Assertions are defined as they are meant, and typed.                    *)
LEMMA AssertsDef ==
  ASSUME NEW d \in Nat
  PROVE  Asserts[d] = AssertsBy(d, Asserts[d - 1]) /\ Asserts[d] \in AssertedAs(d)
<1> DEFINE S == [n \in Nat |-> AssertedAs(n)]
           F == [n \in Nat |-> [g \in AssertedAs(n) |-> AssertsBy(n + 1, g)]]
           s0 == AssertsBy(0, <<>>)
<1>1. ASSUME NEW n \in Nat, NEW g, n # 0 => g \in AssertedAs(n - 1)
      PROVE  AssertsBy(n, g) \in AssertedAs(n)
  BY <1>1, AssertsByType
<1>2. s0 \in S[0]
  BY <1>1
<1>3. ASSUME NEW n \in Nat, NEW g \in S[n]
      PROVE  F[n][g] \in S[n + 1]
  <2>1. n + 1 \in Nat /\ (n + 1) - 1 = n
    OBVIOUS
  <2> HIDE DEF AssertedAs
  <2>2. AssertsBy(n + 1, g) \in AssertedAs(n + 1)
    BY <1>1, <2>1
  <2> QED
    BY <2>1, <2>2
<1>4. PICK f : /\ f = [n \in Nat |-> f[n]] /\ f[0] = s0
               /\ \A n \in Nat : f[n] \in S[n] /\ f[n + 1] = F[n][f[n]]
  <2> HIDE DEF S, F, s0
  <2> QED
    BY <1>2, <1>3, TypedRecursion
<1>5. \A g, h : AssertsBy(0, g) = AssertsBy(0, h)
  <2> SUFFICES ASSUME NEW g, NEW h
               PROVE  AssertsBy(0, g) = AssertsBy(0, h)
    OBVIOUS
  <2>1. ASSUME NEW ms \in Lists[0], NEW k \in DOMAIN ms
        PROVE  ~IsVariant(ms[k])
    BY ListFacts
  <2>2. ASSUME NEW ms \in Lists[0], NEW path \in Seq(STRING)
        PROVE  AssertsIn(ms, path, g) = AssertsIn(ms, path, h)
    <3>1. \A m \in ToSet(ms) : AssertsOf(m, path, g) = AssertsOf(m, path, h)
      BY <2>1 DEF AssertsOf, ToSet
    <3> QED
      BY <3>1 DEF AssertsIn
  <2>3. ASSUME NEW ms \in Lists[0]
        PROVE  [path \in Seq(STRING) |-> AssertsIn(ms, path, g)]
                 = [path \in Seq(STRING) |-> AssertsIn(ms, path, h)]
    BY <2>2
  <2> QED
    BY <2>3 DEF AssertsBy
<1>6. \A n \in Nat : f[n] = AssertsBy(n, f[n - 1])
  <2> SUFFICES ASSUME NEW n \in Nat
               PROVE  f[n] = AssertsBy(n, f[n - 1])
    OBVIOUS
  <2>1. CASE n = 0
    BY <1>4, <1>5, <2>1
  <2>2. CASE n # 0
    <3>1. n - 1 \in Nat /\ (n - 1) + 1 = n
      BY <2>2
    <3>2. f[n - 1] \in AssertedAs(n - 1) /\ f[(n - 1) + 1] = F[n - 1][f[n - 1]]
      BY <1>4, <3>1
    <3> QED
      BY <3>1, <3>2
  <2> QED
    BY <2>1, <2>2
<1>7. f = [n \in Nat |-> AssertsBy(n, f[n - 1])]
  BY <1>4, <1>6
<1>8. Asserts = [n \in Nat |-> AssertsBy(n, Asserts[n - 1])]
  <2>1. Asserts = CHOOSE g : g = [n \in Nat |-> AssertsBy(n, g[n - 1])]
    BY DEF Asserts, AssertsBy, AssertsIn
  <2> QED
    BY <1>7, <2>1
<1>9. \A n \in Nat : Asserts[n] = AssertsBy(n, Asserts[n - 1])
  BY <1>8
<1>10. \A n \in Nat : Asserts[n] \in AssertedAs(n)
  <2> DEFINE A == {n \in Nat : Asserts[n] \in AssertedAs(n)}
  <2>1. 0 \in A
    BY <1>1, <1>9
  <2>2. ASSUME NEW n \in Nat, n \in A
        PROVE  n + 1 \in A
    <3>1. n + 1 \in Nat /\ (n + 1) - 1 = n
      OBVIOUS
    <3> QED
      BY <1>1, <1>9, <2>2, <3>1
  <2> HIDE DEF A
  <2>3. Nat \subseteq A
    BY <2>1, <2>2, Induction
  <2> QED
    BY <2>3 DEF A
<1> QED
  BY <1>9, <1>10

(* The assertions of a list are those of its members.                      *)
LEMMA AssertsFacts ==
  ASSUME NEW d \in Nat, NEW ms \in Lists[d], NEW path \in Seq(STRING)
  PROVE  Asserts[d][ms][path] = AssertsIn(ms, path, Asserts[d - 1])
<1>1. Asserts[d] = AssertsBy(d, Asserts[d - 1])
  BY AssertsDef
<1>2. Asserts[d][ms] = [p \in Seq(STRING) |-> AssertsIn(ms, p, Asserts[d - 1])]
  BY <1>1 DEF AssertsBy
<1> QED
  BY <1>2

-----------------------------------------------------------------------------
(* Lists without variants, and variants of such.                           *)

(* Lists without variants.                                                 *)
Flat(ms) == \A k \in DOMAIN ms : ~IsVariant(ms[k])

(* A leaf is one place.                                                    *)
LEMMA LeafPlace ==
  ASSUME NEW m \in Leaf, NEW g
  PROVE  /\ PlacesIn(m, g) = {[path |-> <<m.name>>, member |-> m, scope |-> {}]}
         /\ Declared(PlacesIn(m, g)) = {m.name}
<1>1. ~IsVariant(m)
  BY DEF Leaf, IsVariant
<1>2. PlacesIn(m, g) = {[path |-> <<m.name>>, member |-> m, scope |-> {}]}
  BY <1>1 DEF PlacesIn
<1>3. Head(<<m.name>>) = m.name
  OBVIOUS
<1> QED
  BY <1>2, <1>3 DEF Declared

(* Before the k-th member, all of which are leaves, their names are        *)
(* declared.                                                               *)
LEMMA BeforeLeaves ==
  ASSUME NEW d \in Nat, NEW ms \in Lists[d], NEW k \in DOMAIN ms,
         \A j \in 1 .. (k - 1) : ~IsVariant(ms[j])
  PROVE  Before(Parts(d, ms), k) = {ms[j].name : j \in 1 .. (k - 1)}
<1> DEFINE s == Parts(d, ms)
<1>1. ASSUME NEW j \in 1 .. (k - 1)
      PROVE  Declared(s[j]) = {ms[j].name}
  <2>1. Len(ms) \in Nat /\ DOMAIN ms = 1 .. Len(ms)
    BY ListFacts
  <2>2. j \in DOMAIN ms
    BY <2>1
  <2>3. ms[j] \in Leaf
    BY <2>2, ListFacts
  <2> QED
    BY <2>2, <2>3, LeafPlace DEF Parts
<1> HIDE DEF s
<1>2. Before(s, k) = {ms[j].name : j \in 1 .. (k - 1)}
  BY <1>1 DEF Before
<1> QED
  BY <1>2 DEF s

(* The places of such a list are its members, each with those before it in *)
(* its scope.                                                              *)
LEMMA FlatPlaces ==
  ASSUME NEW d \in Nat, NEW ms \in Lists[d], Flat(ms)
  PROVE  /\ \A y \in Places[d][ms] : \E k \in DOMAIN ms :
              /\ y.path = <<ms[k].name>> /\ y.member = ms[k]
              /\ y.scope = {ms[j].name : j \in 1 .. (k - 1)}
         /\ \A k \in DOMAIN ms : \E y \in Places[d][ms] :
              y.path = <<ms[k].name>> /\ y.member = ms[k]
<1> DEFINE s == Parts(d, ms)
           B(k) == {ms[j].name : j \in 1 .. (k - 1)}
<1>1. ASSUME NEW k \in DOMAIN ms
      PROVE  s[k] = {[path |-> <<ms[k].name>>, member |-> ms[k], scope |-> {}]} /\ Before(s, k) = B(k)
  <2>1. ms[k] \in Leaf
    BY ListFacts DEF Flat
  <2>2. \A j \in 1 .. (k - 1) : ~IsVariant(ms[j])
    <3>1. Len(ms) \in Nat /\ DOMAIN ms = 1 .. Len(ms)
      BY ListFacts
    <3> QED
      BY <3>1 DEF Flat
  <2>3. s[k] = PlacesIn(ms[k], Places[d - 1])
    BY DEF Parts
  <2>4. Before(s, k) = B(k)
    BY <2>2, BeforeLeaves
  <2> QED
    BY <2>1, <2>3, <2>4, LeafPlace
<1>2. /\ \A y \in Places[d][ms] : \E k \in DOMAIN ms : \E x \in s[k] :
           y.path = x.path /\ y.member = x.member /\ y.scope = x.scope \cup Before(s, k)
      /\ \A k \in DOMAIN ms : \A x \in s[k] : \E y \in Places[d][ms] :
           y.path = x.path /\ y.member = x.member
  BY PlacesFacts
<1> HIDE DEF s, B
<1>3. ASSUME NEW y \in Places[d][ms]
      PROVE  \E k \in DOMAIN ms : y.path = <<ms[k].name>> /\ y.member = ms[k] /\ y.scope = B(k)
  <2>1. PICK k \in DOMAIN ms : \E x \in s[k] :
               y.path = x.path /\ y.member = x.member /\ y.scope = x.scope \cup Before(s, k)
    BY <1>2
  <2>2. PICK x \in s[k] :
               y.path = x.path /\ y.member = x.member /\ y.scope = x.scope \cup Before(s, k)
    BY <2>1
  <2>3. x = [path |-> <<ms[k].name>>, member |-> ms[k], scope |-> {}] /\ Before(s, k) = B(k)
    BY <1>1
  <2> QED
    BY <2>2, <2>3
<1>4. ASSUME NEW k \in DOMAIN ms
      PROVE  \E y \in Places[d][ms] : y.path = <<ms[k].name>> /\ y.member = ms[k]
  <2> DEFINE x == [path |-> <<ms[k].name>>, member |-> ms[k], scope |-> {}]
  <2>1. x \in s[k]
    BY <1>1
  <2>2. \E y \in Places[d][ms] : y.path = x.path /\ y.member = x.member
    <3> HIDE DEF x
    <3> QED
      BY <1>2, <2>1
  <2> QED
    BY <2>2
<1> QED
  BY <1>3, <1>4 DEF B

(* One path is asserted for each member of such a list.                    *)
LEMMA FlatAsserts ==
  ASSUME NEW d \in Nat, NEW ms \in Lists[d], Flat(ms), NEW path \in Seq(STRING)
  PROVE  Asserts[d][ms][path] = {Append(path, ms[k].name) : k \in DOMAIN ms}
<1>1. Asserts[d][ms][path] = UNION {AssertsOf(m, path, Asserts[d - 1]) : m \in ToSet(ms)}
  BY AssertsFacts DEF AssertsIn
<1>2. \A k \in DOMAIN ms : AssertsOf(ms[k], path, Asserts[d - 1]) = {Append(path, ms[k].name)}
  BY DEF Flat, AssertsOf
<1> QED
  BY <1>1, <1>2 DEF ToSet

(* The places in each alternative of a variant.                            *)
AlternativeParts(d, m) ==
  [i \in DOMAIN m.members |-> Inside(m.members[i].name, Places[d][m.members[i].type])]

(* The places of an alternative are those of its list of members, with     *)
(* paths through it.                                                       *)
LEMMA AlternativeFacts ==
  ASSUME NEW d \in Nat, NEW m \in Variants(Lists[d]), NEW i \in DOMAIN m.members
  PROVE  LET X == Places[d][m.members[i].type]
             Y == AlternativeParts(d, m)[i]
             n == m.members[i].name
         IN /\ Y \in SUBSET Place
            /\ \A y \in Y : \E z \in X :
                 y.member = z.member /\ y.scope = z.scope /\ y.path = Through(n, z.path)
            /\ \A z \in X : \E y \in Y :
                 y.member = z.member /\ y.path = Through(n, z.path)
<1> DEFINE X == Places[d][m.members[i].type]
           Y == AlternativeParts(d, m)[i]
           n == m.members[i].name
<1>1. n \in STRING \cup {None} /\ m.members[i].type \in Lists[d]
  BY VariantFacts
<1>2. X \in SUBSET Place
  BY <1>1, PlacesDef DEF PlacedAs
<1>3. Y = Inside(n, X)
  BY DEF AlternativeParts
<1> HIDE DEF X, Y, n
<1>4. /\ Y \in SUBSET Place
      /\ \A y \in Y : \E z \in X :
           y.member = z.member /\ y.scope = z.scope /\ y.path = Through(n, z.path)
      /\ \A z \in X : \E y \in Y :
           y.member = z.member /\ y.path = Through(n, z.path)
  BY <1>1, <1>2, <1>3, InsideFacts
<1> QED
  BY <1>4 DEF X, Y, n

(* The places in a variant: each is one in an alternative, with what the   *)
(* alternatives before it declare in its scope, and all of those are       *)
(* there.                                                                  *)
LEMMA VariantPlaces ==
  ASSUME NEW d \in Nat, NEW m \in Variants(Lists[d])
  PROVE  /\ \A x \in PlacesIn(m, Places[d]) : \E i \in DOMAIN m.members :
              \E z \in Places[d][m.members[i].type] :
                /\ x.member = z.member /\ x.path = Through(m.members[i].name, z.path)
                /\ x.scope = z.scope \cup Before(AlternativeParts(d, m), i)
         /\ \A i \in DOMAIN m.members : \A z \in Places[d][m.members[i].type] :
              \E x \in PlacesIn(m, Places[d]) :
                x.member = z.member /\ x.path = Through(m.members[i].name, z.path)
<1> DEFINE xs == m.members
           n == Len(xs)
           t == AlternativeParts(d, m)
           R == PlacesIn(m, Places[d])
<1>1. n \in Nat /\ DOMAIN xs = 1 .. n /\ DOMAIN t = 1 .. n
  BY VariantFacts DEF AlternativeParts
<1>2. R = InOrder(t)
  <2>1. IsVariant(m)
    BY VariantFacts DEF IsVariant
  <2> QED
    BY <2>1 DEF PlacesIn, AlternativeParts
<1>3. ASSUME NEW i \in 1 .. n
      PROVE  /\ t[i] \in SUBSET Place
             /\ \A y \in t[i] : \E z \in Places[d][xs[i].type] :
                  y.member = z.member /\ y.scope = z.scope /\ y.path = Through(xs[i].name, z.path)
             /\ \A z \in Places[d][xs[i].type] : \E y \in t[i] :
                  y.member = z.member /\ y.path = Through(xs[i].name, z.path)
  BY <1>1, AlternativeFacts
<1> HIDE DEF t, R, n
<1>4. /\ \A x \in R : \E i \in 1 .. n : \E y \in t[i] :
           x.path = y.path /\ x.member = y.member /\ x.scope = y.scope \cup Before(t, i)
      /\ \A i \in 1 .. n : \A y \in t[i] : \E x \in R :
           x.path = y.path /\ x.member = y.member
  <2>1. \A i \in 1 .. n : t[i] \in SUBSET Place
    BY <1>3
  <2> QED
    BY <1>1, <1>2, <2>1, InOrderFacts
<1>5. ASSUME NEW x \in R
      PROVE  \E i \in 1 .. n : \E z \in Places[d][xs[i].type] :
               /\ x.member = z.member /\ x.path = Through(xs[i].name, z.path)
               /\ x.scope = z.scope \cup Before(t, i)
  <2>1. PICK i \in 1 .. n : \E y \in t[i] :
             x.path = y.path /\ x.member = y.member /\ x.scope = y.scope \cup Before(t, i)
    BY <1>4
  <2>2. PICK y \in t[i] :
             x.path = y.path /\ x.member = y.member /\ x.scope = y.scope \cup Before(t, i)
    BY <2>1
  <2>3. PICK z \in Places[d][xs[i].type] :
             y.member = z.member /\ y.scope = z.scope /\ y.path = Through(xs[i].name, z.path)
    BY <1>3
  <2> QED
    BY <2>2, <2>3
<1>6. ASSUME NEW i \in 1 .. n, NEW z \in Places[d][xs[i].type]
      PROVE  \E x \in R : x.member = z.member /\ x.path = Through(xs[i].name, z.path)
  <2>1. PICK y \in t[i] : y.member = z.member /\ y.path = Through(xs[i].name, z.path)
    BY <1>3
  <2>2. PICK x \in R : x.path = y.path /\ x.member = y.member
    BY <1>4
  <2> QED
    BY <2>1, <2>2
<1> QED
  BY <1>1, <1>5, <1>6 DEF t, R

-----------------------------------------------------------------------------
(* The paths of structures with variants of flat alternatives only.        *)

(* Lists with no variant in a variant, and their paths: to a leaf, through *)
(* the alternatives of one variant, and through any variant.               *)
Shallow(ms) == \A k \in DOMAIN ms : IsVariant(ms[k]) =>
                 \A i \in DOMAIN ms[k].members : Flat(ms[k].members[i].type)

LeafPath(ms, p) == \E k \in DOMAIN ms : ~IsVariant(ms[k]) /\ p = <<ms[k].name>>

VariantPath(m, p) ==
  \E i \in DOMAIN m.members :
    LET a == m.members[i]
    IN \E q \in DOMAIN a.type : p = Through(a.name, <<a.type[q].name>>)

InnerPath(ms, p) == \E k \in DOMAIN ms : IsVariant(ms[k]) /\ VariantPath(ms[k], p)

(* A variant of a list of members, and its alternatives.                   *)
LEMMA Nested ==
  ASSUME NEW d \in Nat, NEW ms \in Lists[d], NEW k \in DOMAIN ms, IsVariant(ms[k])
  PROVE  /\ d # 0 /\ d - 1 \in Nat /\ ms[k] \in Variants(Lists[d - 1])
         /\ \A i \in DOMAIN ms[k].members : /\ ms[k].members[i].type \in Lists[d - 1]
                                            /\ ms[k].members[i].name \in STRING \cup {None}
<1>1. d # 0 /\ d - 1 \in Nat /\ ms[k] \in Variants(Lists[d - 1])
  BY ListFacts
<1> QED
  BY <1>1, VariantFacts

(* These are the paths that the generator asserts ...                      *)
LEMMA AssertedPaths ==
  ASSUME NEW d \in Nat, NEW ms \in Lists[d], Shallow(ms)
  PROVE  \A p : p \in Asserts[d][ms][<<>>] <=> LeafPath(ms, p) \/ InnerPath(ms, p)
<1>1. <<>> \in Seq(STRING)
  OBVIOUS
<1>2. \A p : p \in Asserts[d][ms][<<>>] <=>
              \E k \in DOMAIN ms : p \in AssertsOf(ms[k], <<>>, Asserts[d - 1])
  <2>1. Asserts[d][ms][<<>>] = UNION {AssertsOf(m, <<>>, Asserts[d - 1]) : m \in ToSet(ms)}
    BY <1>1, AssertsFacts DEF AssertsIn
  <2> QED
    BY <2>1 DEF ToSet
<1>3. ASSUME NEW k \in DOMAIN ms, ~IsVariant(ms[k])
      PROVE  AssertsOf(ms[k], <<>>, Asserts[d - 1]) = {<<ms[k].name>>}
  <2>1. Append(<<>>, ms[k].name) = <<ms[k].name>>
    OBVIOUS
  <2> QED
    BY <1>3, <2>1 DEF AssertsOf
<1>4. ASSUME NEW k \in DOMAIN ms, IsVariant(ms[k]), NEW p
      PROVE  p \in AssertsOf(ms[k], <<>>, Asserts[d - 1]) <=> VariantPath(ms[k], p)
  <2> DEFINE xs == ms[k].members
  <2>1. d - 1 \in Nat /\ ms[k] \in Variants(Lists[d - 1])
    BY <1>4, Nested
  <2>2. p \in AssertsOf(ms[k], <<>>, Asserts[d - 1]) <=>
          \E i \in DOMAIN xs : p \in Asserts[d - 1][xs[i].type][PathOf(xs[i])]
    BY <1>4 DEF AssertsOf, ToSet
  <2>3. ASSUME NEW i \in DOMAIN xs
        PROVE  p \in Asserts[d - 1][xs[i].type][PathOf(xs[i])] <=>
                 \E q \in DOMAIN xs[i].type : p = Through(xs[i].name, <<xs[i].type[q].name>>)
    <3>1. xs[i] \in ToSet(xs)
      BY DEF ToSet
    <3>2. PathOf(xs[i]) \in Seq(STRING) /\ xs[i].type \in Lists[d - 1]
      BY <2>1, <3>1, PathOfType
    <3>3. Flat(xs[i].type)
      BY <1>4 DEF Shallow
    <3> DEFINE a == xs[i]
    <3>4. Asserts[d - 1][a.type][PathOf(a)] = {Append(PathOf(a), a.type[q].name) : q \in DOMAIN a.type}
      BY <2>1, <3>2, <3>3, FlatAsserts
    <3>5. ASSUME NEW q
          PROVE  Append(PathOf(a), a.type[q].name) = Through(a.name, <<a.type[q].name>>)
      <4> DEFINE n == a.name  x == a.type[q].name
      <4> HIDE DEF n, x
      <4>1. Append(<<>>, x) = <<x>> /\ Append(<<n>>, x) = <<n>> \o <<x>>
        OBVIOUS
      <4>2. Append(IF n = None THEN <<>> ELSE <<n>>, x) = IF n = None THEN <<x>> ELSE <<n>> \o <<x>>
        BY <4>1
      <4> QED
        BY <4>2 DEF PathOf, Through, n, x
    <3> HIDE DEF a
    <3>6. p \in Asserts[d - 1][a.type][PathOf(a)] <=>
            \E q \in DOMAIN a.type : p = Through(a.name, <<a.type[q].name>>)
      BY <3>4, <3>5
    <3> QED
      BY <3>6 DEF a
  <2> QED
    BY <2>2, <2>3 DEF VariantPath
<1> QED
  BY <1>2, <1>3, <1>4 DEF LeafPath, InnerPath

(* The leaves of a list with no variant in a variant, with the paths to    *)
(* them: next to the variants, in the alternatives of one, and in those of *)
(* any.                                                                    *)
LeafAt(ms, p, m) == \E k \in DOMAIN ms : ~IsVariant(ms[k]) /\ p = <<ms[k].name>> /\ m = ms[k]

VariantAt(v, p, m) ==
  \E i \in DOMAIN v.members :
    LET a == v.members[i]
    IN \E q \in DOMAIN a.type : p = Through(a.name, <<a.type[q].name>>) /\ m = a.type[q]

InnerAt(ms, p, m) == \E k \in DOMAIN ms : IsVariant(ms[k]) /\ VariantAt(ms[k], p, m)

(* They are the places of the list, as C++ has them ...                    *)
LEMMA PlacedMembers ==
  ASSUME NEW d \in Nat, NEW ms \in Lists[d], Shallow(ms)
  PROVE  \A p, y : (\E x \in Places[d][ms] : x.path = p /\ x.member = y) <=>
                     LeafAt(ms, p, y) \/ InnerAt(ms, p, y)
<1>1. \A p, y : (\E x \in Places[d][ms] : x.path = p /\ x.member = y) <=>
                  \E k \in DOMAIN ms : \E x \in Parts(d, ms)[k] : x.path = p /\ x.member = y
  BY PlacesFacts
<1>2. ASSUME NEW k \in DOMAIN ms, ~IsVariant(ms[k]), NEW p, NEW y
      PROVE  (\E x \in Parts(d, ms)[k] : x.path = p /\ x.member = y) <=>
               p = <<ms[k].name>> /\ y = ms[k]
  <2>1. ms[k] \in Leaf
    BY <1>2, ListFacts
  <2>2. Parts(d, ms)[k] = {[path |-> <<ms[k].name>>, member |-> ms[k], scope |-> {}]}
    BY <2>1, LeafPlace DEF Parts
  <2> QED
    BY <2>2
<1>3. ASSUME NEW k \in DOMAIN ms, IsVariant(ms[k]), NEW p, NEW y
      PROVE  (\E x \in Parts(d, ms)[k] : x.path = p /\ x.member = y) <=> VariantAt(ms[k], p, y)
  <2> DEFINE xs == ms[k].members
             e == d - 1
             m == ms[k]
  <2>1. e \in Nat /\ m \in Variants(Lists[e]) /\ \A i \in DOMAIN xs : xs[i].type \in Lists[e]
    BY <1>3, Nested
  <2>2. Parts(d, ms)[k] = PlacesIn(m, Places[e])
    BY DEF Parts
  <2> HIDE DEF e
  <2>3. (\E x \in PlacesIn(m, Places[e]) : x.path = p /\ x.member = y) <=>
          \E i \in DOMAIN xs : \E z \in Places[e][xs[i].type] :
            p = Through(xs[i].name, z.path) /\ y = z.member
    <3> HIDE DEF m
    <3>1. (\E x \in PlacesIn(m, Places[e]) : x.path = p /\ x.member = y) <=>
            \E i \in DOMAIN m.members : \E z \in Places[e][m.members[i].type] :
              p = Through(m.members[i].name, z.path) /\ y = z.member
      <4>1. /\ \A x \in PlacesIn(m, Places[e]) : \E i \in DOMAIN m.members :
                 \E z \in Places[e][m.members[i].type] :
                   /\ x.member = z.member /\ x.path = Through(m.members[i].name, z.path)
                   /\ x.scope = z.scope \cup Before(AlternativeParts(e, m), i)
            /\ \A i \in DOMAIN m.members : \A z \in Places[e][m.members[i].type] :
                 \E x \in PlacesIn(m, Places[e]) :
                   x.member = z.member /\ x.path = Through(m.members[i].name, z.path)
        BY <2>1, VariantPlaces
      <4> QED
        BY <4>1
    <3> QED
      BY <3>1 DEF m
  <2>4. ASSUME NEW i \in DOMAIN xs
        PROVE  (\E z \in Places[e][xs[i].type] : p = Through(xs[i].name, z.path) /\ y = z.member) <=>
                 \E q \in DOMAIN xs[i].type :
                   p = Through(xs[i].name, <<xs[i].type[q].name>>) /\ y = xs[i].type[q]
    <3> DEFINE a == xs[i]
    <3>1. Flat(a.type) /\ a.type \in Lists[e]
      BY <1>3, <2>1 DEF Shallow
    <3> HIDE DEF a
    <3>2. /\ \A z \in Places[e][a.type] : \E q \in DOMAIN a.type :
               z.path = <<a.type[q].name>> /\ z.member = a.type[q]
          /\ \A q \in DOMAIN a.type : \E z \in Places[e][a.type] :
               z.path = <<a.type[q].name>> /\ z.member = a.type[q]
      <4> DEFINE t == a.type
      <4>1. Flat(t) /\ t \in Lists[e]
        BY <3>1
      <4> HIDE DEF t
      <4>2. /\ \A z \in Places[e][t] : \E h \in DOMAIN t :
                 /\ z.path = <<t[h].name>> /\ z.member = t[h]
                 /\ z.scope = {t[j].name : j \in 1 .. (h - 1)}
            /\ \A h \in DOMAIN t : \E z \in Places[e][t] :
                 z.path = <<t[h].name>> /\ z.member = t[h]
        BY <2>1, <4>1, FlatPlaces
      <4>3. /\ \A z \in Places[e][t] : \E q \in DOMAIN t : z.path = <<t[q].name>> /\ z.member = t[q]
            /\ \A q \in DOMAIN t : \E z \in Places[e][t] : z.path = <<t[q].name>> /\ z.member = t[q]
        BY <4>2
      <4> QED
        BY <4>3 DEF t
    <3>3. (\E z \in Places[e][a.type] : p = Through(a.name, z.path) /\ y = z.member) <=>
            \E q \in DOMAIN a.type : p = Through(a.name, <<a.type[q].name>>) /\ y = a.type[q]
      <4> DEFINE F(w) == Through(a.name, w)
      <4>1. ASSUME NEW z \in Places[e][a.type], p = F(z.path), y = z.member
            PROVE  \E q \in DOMAIN a.type : p = F(<<a.type[q].name>>) /\ y = a.type[q]
        <5> HIDE DEF F
        <5>1. PICK q \in DOMAIN a.type : z.path = <<a.type[q].name>> /\ z.member = a.type[q]
          BY <3>2
        <5>2. p = F(<<a.type[q].name>>) /\ y = a.type[q]
          BY <4>1, <5>1
        <5> QED
          BY <5>2
      <4>2. ASSUME NEW q \in DOMAIN a.type, p = F(<<a.type[q].name>>), y = a.type[q]
            PROVE  \E z \in Places[e][a.type] : p = F(z.path) /\ y = z.member
        <5> HIDE DEF F
        <5>1. PICK z \in Places[e][a.type] : z.path = <<a.type[q].name>> /\ z.member = a.type[q]
          BY <3>2
        <5>2. p = F(z.path) /\ y = z.member
          BY <4>2, <5>1
        <5> QED
          BY <5>2
      <4> QED
        BY <4>1, <4>2
    <3> QED
      BY <3>3 DEF a
  <2> QED
    BY <2>2, <2>3, <2>4 DEF VariantAt
<1>4. ASSUME NEW p, NEW y, NEW k \in DOMAIN ms
      PROVE  (\E x \in Parts(d, ms)[k] : x.path = p /\ x.member = y) <=>
               \/ ~IsVariant(ms[k]) /\ p = <<ms[k].name>> /\ y = ms[k]
               \/ IsVariant(ms[k]) /\ VariantAt(ms[k], p, y)
  BY <1>2, <1>3
<1> QED
  BY <1>1, <1>4 DEF LeafAt, InnerAt

(* ... and so the same paths are those of the places.                      *)
LEMMA PlacedPaths ==
  ASSUME NEW d \in Nat, NEW ms \in Lists[d], Shallow(ms)
  PROVE  \A p : (\E x \in Places[d][ms] : x.path = p) <=> LeafPath(ms, p) \/ InnerPath(ms, p)
<1>1. \A p : (\E y : LeafAt(ms, p, y)) <=> LeafPath(ms, p)
  BY DEF LeafAt, LeafPath
<1>2. \A v, p : (\E y : VariantAt(v, p, y)) <=> VariantPath(v, p)
  BY DEF VariantAt, VariantPath
<1>3. \A p : (\E y : InnerAt(ms, p, y)) <=> InnerPath(ms, p)
  BY <1>2 DEF InnerAt, InnerPath
<1>4. \A p, y : (\E x \in Places[d][ms] : x.path = p /\ x.member = y) <=>
                  LeafAt(ms, p, y) \/ InnerAt(ms, p, y)
  BY PlacedMembers
<1> QED
  BY <1>1, <1>3, <1>4

(* ns is what is written for ms.                                           *)
Writes(d, ms, r, ns) ==
  d \in Nat /\ ms \in Lists[d] /\ r \in SUBSET STRING /\ ns = Members[d][ms][r]

(* What is written is as shallow, and has the same paths.                  *)
LEMMA WrittenPaths ==
  ASSUME NEW d, NEW ms, NEW r, NEW ns, Writes(d, ms, r, ns), Shallow(ms)
  PROVE  /\ Shallow(ns)
         /\ \A p : LeafPath(ns, p) \/ InnerPath(ns, p) <=> LeafPath(ms, p) \/ InnerPath(ms, p)
<1>1. d \in Nat /\ ms \in Lists[d] /\ r \in SUBSET STRING /\ ns = Members[d][ms][r]
  BY DEF Writes
<1>2. /\ ns \in Lists[d] /\ DOMAIN ns = DOMAIN ms
      /\ \A k \in DOMAIN ms : /\ IsVariant(ns[k]) <=> IsVariant(ms[k])
                              /\ ~IsVariant(ms[k]) => ns[k].name = ms[k].name
  BY <1>1, WrittenFacts
<1>3. \A p : LeafPath(ns, p) <=> LeafPath(ms, p)
  BY <1>2 DEF LeafPath
<1>4. ASSUME NEW k \in DOMAIN ms, IsVariant(ms[k])
      PROVE  /\ DOMAIN ns[k].members = DOMAIN ms[k].members
             /\ \A i \in DOMAIN ms[k].members :
                  LET a == ms[k].members[i]
                      b == ns[k].members[i]
                  IN /\ b.name = a.name /\ DOMAIN b.type = DOMAIN a.type
                     /\ Flat(a.type) => /\ Flat(b.type)
                                        /\ \A q \in DOMAIN a.type : b.type[q].name = a.type[q].name
                     /\ \A q \in DOMAIN a.type : b.type[q].name = a.type[q].name
  <2>1. /\ DOMAIN ns[k].members = DOMAIN ms[k].members
        /\ \A i \in DOMAIN ms[k].members :
             /\ ns[k].members[i].name = ms[k].members[i].name
             /\ ns[k].members[i].type = Members[d - 1][ms[k].members[i].type][NamesBefore(ms, k)]
    BY <1>1, <1>4, WrittenFacts
  <2>2. ASSUME NEW i \in DOMAIN ms[k].members
        PROVE  LET a == ms[k].members[i]
                   b == ns[k].members[i]
               IN /\ DOMAIN b.type = DOMAIN a.type
                  /\ Flat(a.type) => Flat(b.type)
                  /\ \A q \in DOMAIN a.type : b.type[q].name = a.type[q].name
    <3> DEFINE t == ms[k].members[i].type
               u == ns[k].members[i].type
               R == NamesBefore(ms, k)
               e == d - 1
    <3>1. e \in Nat /\ t \in Lists[e] /\ R \in SUBSET STRING /\ u = Members[e][t][R]
      BY <1>1, <1>4, <2>1, Nested, NamesBeforeType
    <3> HIDE DEF t, u, R, e
    <3>2. /\ u \in Lists[e] /\ DOMAIN u = DOMAIN t
          /\ \A q \in DOMAIN t : /\ IsVariant(u[q]) <=> IsVariant(t[q])
                                 /\ ~IsVariant(t[q]) => u[q].name = t[q].name
      BY <3>1, WrittenFacts
    <3>3. ASSUME NEW q \in DOMAIN t, IsVariant(t[q])
          PROVE  u[q].name = t[q].name
      <4>1. t[q].name = None
        <5>1. t[q] \in Variants(Lists[e - 1])
          BY <3>1, <3>3, Nested
        <5> QED
          BY <5>1, VariantFacts
      <4>2. u[q].name = None
        <5>1. q \in DOMAIN u /\ IsVariant(u[q])
          BY <3>2, <3>3
        <5>2. u[q] \in Variants(Lists[e - 1])
          BY <3>1, <3>2, <5>1, Nested
        <5> QED
          BY <5>2, VariantFacts
      <4> QED
        BY <4>1, <4>2
    <3>4. DOMAIN u = DOMAIN t /\ (Flat(t) => Flat(u)) /\ \A q \in DOMAIN t : u[q].name = t[q].name
      BY <3>2, <3>3 DEF Flat
    <3> QED
      BY <3>4 DEF t, u
  <2> QED
    BY <2>1, <2>2
<1>5. \A p : InnerPath(ns, p) <=> InnerPath(ms, p)
  <2>1. ASSUME NEW k \in DOMAIN ms, IsVariant(ms[k]), NEW p
        PROVE  VariantPath(ns[k], p) <=> VariantPath(ms[k], p)
    <3> DEFINE xs == ms[k].members
               ys == ns[k].members
    <3>1. DOMAIN ys = DOMAIN xs
      BY <1>4, <2>1
    <3>2. ASSUME NEW i \in DOMAIN xs
          PROVE  /\ ys[i].name = xs[i].name /\ DOMAIN ys[i].type = DOMAIN xs[i].type
                 /\ \A q \in DOMAIN xs[i].type : ys[i].type[q].name = xs[i].type[q].name
      BY <1>4, <2>1
    <3> HIDE DEF xs, ys
    <3>3. ASSUME NEW i \in DOMAIN xs
          PROVE  (\E q \in DOMAIN ys[i].type : p = Through(ys[i].name, <<ys[i].type[q].name>>)) <=>
                   \E q \in DOMAIN xs[i].type : p = Through(xs[i].name, <<xs[i].type[q].name>>)
      BY <3>2
    <3>4. (\E i \in DOMAIN ys : \E q \in DOMAIN ys[i].type :
             p = Through(ys[i].name, <<ys[i].type[q].name>>)) <=>
            \E i \in DOMAIN xs : \E q \in DOMAIN xs[i].type :
              p = Through(xs[i].name, <<xs[i].type[q].name>>)
      BY <3>1, <3>3
    <3> QED
      BY <3>4 DEF VariantPath, xs, ys
  <2> QED
    BY <1>2, <2>1 DEF InnerPath
<1>6. Shallow(ns)
  BY <1>2, <1>4 DEF Shallow
<1> QED
  BY <1>3, <1>5, <1>6

(* So the assertions for a shallow list are about the places in what is    *)
(* written for it, all of them and no others.                              *)
LEMMA AssertsAreThePaths ==
  ASSUME NEW d \in Nat, NEW ms \in Lists[d], NEW r \in SUBSET STRING, Shallow(ms)
  PROVE  Asserts[d][ms][<<>>] = {x.path : x \in Places[d][Members[d][ms][r]]}
<1> DEFINE ns == Members[d][ms][r]
<1>1. ns = Members[d][ms][r] /\ Writes(d, ms, r, ns)
  BY DEF Writes
<1> HIDE DEF ns
<1>2. ns \in Lists[d]
  BY <1>1, WrittenFacts
<1>3. /\ Shallow(ns)
      /\ \A p : LeafPath(ns, p) \/ InnerPath(ns, p) <=> LeafPath(ms, p) \/ InnerPath(ms, p)
  BY <1>1, WrittenPaths
<1>4. \A p : (\E x \in Places[d][ns] : x.path = p) <=> LeafPath(ms, p) \/ InnerPath(ms, p)
  <2>1. \A p : (\E x \in Places[d][ns] : x.path = p) <=> LeafPath(ns, p) \/ InnerPath(ns, p)
    BY <1>2, <1>3, PlacedPaths
  <2> QED
    BY <1>3, <2>1
<1>5. \A p : p \in Asserts[d][ms][<<>>] <=> LeafPath(ms, p) \/ InnerPath(ms, p)
  BY AssertedPaths
<1>6. Asserts[d][ms][<<>>] = {x.path : x \in Places[d][ns]}
  BY <1>4, <1>5
<1> QED
  BY <1>6 DEF ns

-----------------------------------------------------------------------------
(* Every type is found.                                                    *)

(* A writable list is shallow, and no variant comes before another member. *)
LEMMA WritableFacts ==
  ASSUME NEW d \in Nat, NEW ms \in Lists[d], Writable(ms)
  PROVE  /\ Shallow(ms)
         /\ \A k \in DOMAIN ms : \A j \in 1 .. (k - 1) : j \in DOMAIN ms /\ ~IsVariant(ms[j])
<1>1. Shallow(ms)
  <2> SUFFICES ASSUME NEW k \in DOMAIN ms, IsVariant(ms[k]), NEW i \in DOMAIN ms[k].members,
                      NEW q \in DOMAIN ms[k].members[i].type
               PROVE  ~IsVariant(ms[k].members[i].type[q])
    BY DEF Shallow, Flat
  <2>1. ms[k].members[i].type[q] \in ToSet(ms[k].members[i].type)
    BY DEF ToSet
  <2> QED
    BY <2>1 DEF Writable
<1>2. Len(ms) \in Nat /\ DOMAIN ms = 1 .. Len(ms)
  BY ListFacts
<1>3. \A j \in DOMAIN ms : IsVariant(ms[j]) => j = Len(ms)
  BY DEF Writable
<1> QED
  BY <1>1, <1>2, <1>3

(* What an alternative declares are the names that it is said to declare.  *)
LEMMA DeclaredNames ==
  ASSUME NEW d \in Nat, NEW m \in Variants(Lists[d]), NEW i \in DOMAIN m.members,
         Flat(m.members[i].type)
  PROVE  Declared(AlternativeParts(d, m)[i]) \subseteq Names(m.members[i])
<1> DEFINE n == m.members[i].name
           t == m.members[i].type
<1>1. t \in Lists[d] /\ n \in STRING \cup {None}
  BY VariantFacts
<1>2. \A y \in AlternativeParts(d, m)[i] : \E z \in Places[d][t] : y.path = Through(n, z.path)
  BY AlternativeFacts
<1>3. \A z \in Places[d][t] : \E q \in DOMAIN t : z.path = <<t[q].name>>
  <2>1. Flat(t)
    OBVIOUS
  <2> HIDE DEF t
  <2>2. \A y \in Places[d][t] : \E k \in DOMAIN t :
          /\ y.path = <<t[k].name>> /\ y.member = t[k]
          /\ y.scope = {t[j].name : j \in 1 .. (k - 1)}
    BY <1>1, <2>1, FlatPlaces
  <2> QED
    BY <2>2
<1>4. \A q \in DOMAIN t : t[q] \in ToSet(t)
  BY DEF ToSet
<1>5. Names(m.members[i]) = IF n = None THEN {x.name : x \in ToSet(t)} ELSE {n}
  BY DEF Names
<1> HIDE DEF n, t
<1>6. ASSUME NEW y \in AlternativeParts(d, m)[i]
      PROVE  Head(y.path) \in Names(m.members[i])
  <2>1. PICK z \in Places[d][t] : y.path = Through(n, z.path)
    BY <1>2
  <2>2. PICK q \in DOMAIN t : z.path = <<t[q].name>>
    BY <1>3
  <2>3. CASE n = None
    <3>1. Head(y.path) = t[q].name
      BY <2>1, <2>2, <2>3 DEF Through
    <3> QED
      BY <1>4, <1>5, <2>3, <3>1
  <2>4. CASE n # None
    <3>1. y.path = <<n>> \o <<t[q].name>>
      BY <2>1, <2>2, <2>4 DEF Through
    <3>2. Head(y.path) = n
      BY <3>1
    <3> QED
      BY <1>5, <2>4, <3>2
  <2> QED
    BY <2>3, <2>4
<1> QED
  BY <1>6 DEF Declared

(* Is b, in the variant that is member k of ns, what is written for        *)
(* alternative a of member k of ms?                                        *)
AsWritten(e, ms, ns, k, i, a, b) ==
  /\ e \in Nat /\ ns[k] \in Variants(Lists[e]) /\ i \in DOMAIN ns[k].members
  /\ a.type \in Lists[e] /\ b.type \in Lists[e]
  /\ Flat(a.type) /\ Flat(b.type) /\ DOMAIN b.type = DOMAIN a.type
  /\ a.name = b.name /\ Names(a) = Names(b)
  /\ \A q \in DOMAIN a.type :
       /\ b.type[q].name = a.type[q].name /\ b.type[q].type = a.type[q].type
       /\ b.type[q].qualified <=>
            a.type[q].form = "plain" /\ a.type[q].type \in NamesBefore(ms, k)

(* The alternatives that are written for those of a writable structure.    *)
LEMMA WrittenAlternative ==
  ASSUME NEW d, NEW ms, NEW r, NEW ns, Writes(d, ms, r, ns), Writable(ms),
         NEW k \in DOMAIN ms, IsVariant(ms[k]), NEW i \in DOMAIN ms[k].members
  PROVE  AsWritten(d - 1, ms, ns, k, i, ms[k].members[i], ns[k].members[i])
<1> DEFINE e == d - 1
           t == ms[k].members[i].type
           u == ns[k].members[i].type
           R == NamesBefore(ms, k)
<1>1. d \in Nat /\ ms \in Lists[d] /\ r \in SUBSET STRING /\ ns = Members[d][ms][r]
  BY DEF Writes
<1>2. /\ ns \in Lists[d] /\ DOMAIN ns = DOMAIN ms /\ IsVariant(ns[k])
      /\ i \in DOMAIN ns[k].members /\ ns[k].members[i].name = ms[k].members[i].name
      /\ u = Members[d - 1][t][R]
  BY <1>1, WrittenFacts
<1>3. e \in Nat /\ t \in Lists[e] /\ R \in SUBSET STRING /\ ns[k] \in Variants(Lists[e])
  BY <1>1, <1>2, Nested, NamesBeforeType
<1>4. Flat(t)
  BY <1>1, WritableFacts DEF Shallow
<1>5. u = Members[e][t][R]
  BY <1>2
<1> HIDE DEF e, t, u, R
<1>6. /\ u \in Lists[e] /\ DOMAIN u = DOMAIN t
      /\ \A q \in DOMAIN t :
           /\ IsVariant(u[q]) <=> IsVariant(t[q])
           /\ ~IsVariant(t[q]) =>
                /\ u[q].form = t[q].form /\ u[q].type = t[q].type /\ u[q].name = t[q].name
                /\ u[q].qualified <=> t[q].form = "plain" /\ t[q].type \in R
  BY <1>3, <1>5, WrittenFacts
<1>7. Flat(u)
  BY <1>4, <1>6 DEF Flat
<1>8. \A q \in DOMAIN t : u[q].type = t[q].type /\ u[q].name = t[q].name
  BY <1>4, <1>6 DEF Flat
<1>9. \A q \in DOMAIN t : u[q].qualified <=> t[q].form = "plain" /\ t[q].type \in R
  BY <1>4, <1>6 DEF Flat
<1>10. {x.name : x \in ToSet(t)} = {x.name : x \in ToSet(u)}
  <2>1. {x.name : x \in ToSet(t)} = {t[q].name : q \in DOMAIN t}
    BY DEF ToSet
  <2>2. {x.name : x \in ToSet(u)} = {u[q].name : q \in DOMAIN u}
    BY DEF ToSet
  <2>3. \A q \in DOMAIN t : q \in DOMAIN u /\ u[q].name = t[q].name
    BY <1>6, <1>8
  <2>4. {t[q].name : q \in DOMAIN t} = {u[q].name : q \in DOMAIN u}
    BY <1>6, <2>3
  <2> QED
    BY <2>1, <2>2, <2>4
<1>11. Names(ms[k].members[i]) = Names(ns[k].members[i])
  BY <1>2, <1>10 DEF Names, t, u
<1> DEFINE a == ms[k].members[i]
           b == ns[k].members[i]
<1>12. a.type = t /\ b.type = u /\ a.name = b.name /\ i \in DOMAIN ns[k].members /\ Names(a) = Names(b)
  BY <1>2, <1>11 DEF t, u
<1> HIDE DEF a, b
<1>13. /\ e \in Nat /\ ns[k] \in Variants(Lists[e]) /\ i \in DOMAIN ns[k].members
       /\ a.type \in Lists[e] /\ b.type \in Lists[e]
       /\ Flat(a.type) /\ Flat(b.type) /\ DOMAIN b.type = DOMAIN a.type
       /\ a.name = b.name /\ Names(a) = Names(b)
       /\ \A q \in DOMAIN a.type :
            /\ b.type[q].name = a.type[q].name /\ b.type[q].type = a.type[q].type
            /\ b.type[q].qualified <=> a.type[q].form = "plain" /\ a.type[q].type \in R
  BY <1>3, <1>4, <1>6, <1>7, <1>12, <1>8, <1>9
<1> QED
  BY <1>13 DEF AsWritten, e, a, b, R

(* The names that are declared before a member of a writable structure.    *)
LEMMA NamesBeforeMember ==
  ASSUME NEW d, NEW ms, NEW r, NEW ns, Writes(d, ms, r, ns), Writable(ms), NEW k \in DOMAIN ms
  PROVE  /\ ns \in Lists[d] /\ DOMAIN ns = DOMAIN ms
         /\ Before(Parts(d, ns), k) = {ms[j].name : j \in 1 .. (k - 1)}
         /\ \A j \in 1 .. (k - 1) : j \in DOMAIN ms /\ ms[j].name \in NamesBefore(ms, k)
<1>1. d \in Nat /\ ms \in Lists[d] /\ r \in SUBSET STRING /\ ns = Members[d][ms][r]
  BY DEF Writes
<1>2. /\ ns \in Lists[d] /\ DOMAIN ns = DOMAIN ms
      /\ \A j \in DOMAIN ms : /\ IsVariant(ns[j]) <=> IsVariant(ms[j])
                              /\ ~IsVariant(ms[j]) => ns[j].name = ms[j].name
  BY <1>1, WrittenFacts
<1>3. \A j \in 1 .. (k - 1) : j \in DOMAIN ms /\ ~IsVariant(ms[j])
  BY <1>1, WritableFacts
<1>4. Before(Parts(d, ns), k) = {ns[j].name : j \in 1 .. (k - 1)}
  BY <1>1, <1>2, <1>3, BeforeLeaves
<1>5. {ns[j].name : j \in 1 .. (k - 1)} = {ms[j].name : j \in 1 .. (k - 1)}
  BY <1>2, <1>3
<1>6. ASSUME NEW j \in 1 .. (k - 1)
      PROVE  ms[j].name \in NamesBefore(ms, k)
  <2>1. ms[j] \in Leaf
    BY <1>1, <1>3, ListFacts
  <2>2. ms[j].name \in STRING
    BY <2>1 DEF Leaf
  <2>3. Len(ms) \in Nat /\ DOMAIN ms = 1 .. Len(ms)
    BY <1>1, ListFacts
  <2>4. j \in 1 .. k
    BY <2>3
  <2> QED
    BY <2>2, <2>4 DEF NamesBefore
<1> QED
  BY <1>2, <1>3, <1>4, <1>5, <1>6

(* Is the type of place x found where it is written?                       *)
Found(x) == x.member.qualified \/ typename(x.member.type) \notin x.scope

(* A type that is found in its alternative and before the variant.         *)
LEMMA FoundInAlternative ==
  ASSUME NEW d, NEW ms, NEW r, NEW ns, Writes(d, ms, r, ns), Writable(ms),
         NEW k \in DOMAIN ms, IsVariant(ms[k]), NEW i \in DOMAIN ms[k].members,
         NEW z \in Places[d - 1][ns[k].members[i].type]
  PROVE  \/ z.member.qualified
         \/ typename(z.member.type) \notin
              z.scope \cup Before(AlternativeParts(d - 1, ns[k]), i) \cup {ms[j].name : j \in 1 .. (k - 1)}
<1> DEFINE e == d - 1
           xs == ms[k].members
           m == ns[k]
           t == xs[i].type
           u == m.members[i].type
           N == {ms[j].name : j \in 1 .. (k - 1)}
           B == Before(AlternativeParts(e, m), i)
<1>0. AsWritten(e, ms, ns, k, i, xs[i], m.members[i])
  BY WrittenAlternative
<1>1. d \in Nat /\ ms \in Lists[d]
  BY DEF Writes
<1>2. Len(xs) \in Nat /\ DOMAIN xs = 1 .. Len(xs)
  BY <1>1, Nested, VariantFacts
<1>3. ASSUME NEW j \in DOMAIN xs
      PROVE  /\ e \in Nat /\ m \in Variants(Lists[e]) /\ j \in DOMAIN m.members
             /\ m.members[j].type \in Lists[e] /\ Flat(m.members[j].type)
             /\ Names(xs[j]) = Names(m.members[j])
  <2>1. AsWritten(e, ms, ns, k, j, xs[j], m.members[j])
    BY WrittenAlternative
  <2> QED
    BY <2>1 DEF AsWritten
<1>4. /\ u \in Lists[e] /\ Flat(t) /\ Flat(u) /\ DOMAIN u = DOMAIN t
      /\ \A q \in DOMAIN t : u[q].name = t[q].name /\ u[q].type = t[q].type
  BY <1>0 DEF AsWritten
<1>5. \A q \in DOMAIN t : t[q].form = "plain" /\ t[q].type \in NamesBefore(ms, k) => u[q].qualified
  BY <1>0 DEF AsWritten
<1>6. /\ ~Hides(t)
      /\ \A q \in DOMAIN t :
           /\ typename(t[q].type) \in NamesBefore(ms, k) =>
                t[q].form = "plain" /\ typename(t[q].type) = t[q].type
           /\ \A j \in 1 .. (i - 1) : typename(t[q].type) \notin Names(xs[j])
  <2>1. \A q \in DOMAIN t : t[q] \in ToSet(t)
    BY DEF ToSet
  <2> QED
    BY <2>1 DEF Writable
<1>7. B \subseteq UNION {Names(xs[j]) : j \in 1 .. (i - 1)}
  <2>1. ASSUME NEW j \in 1 .. (i - 1)
        PROVE  Declared(AlternativeParts(e, m)[j]) \subseteq Names(xs[j])
    <3>1. j \in DOMAIN xs
      BY <1>2
    <3>2. /\ e \in Nat /\ m \in Variants(Lists[e]) /\ j \in DOMAIN m.members
          /\ Flat(m.members[j].type) /\ Names(xs[j]) = Names(m.members[j])
      BY <1>3, <3>1
    <3> HIDE DEF e, m, xs
    <3>3. Declared(AlternativeParts(e, m)[j]) \subseteq Names(m.members[j])
      BY <3>2, DeclaredNames
    <3> QED
      BY <3>2, <3>3
  <2> QED
    BY <2>1 DEF Before
<1>8. N \subseteq NamesBefore(ms, k)
  BY NamesBeforeMember
<1>9. e \in Nat /\ z \in Places[e][u]
  BY <1>3
<1> HIDE DEF e, t, u, N, B
<1>10. PICK q \in DOMAIN u : z.member = u[q] /\ z.scope = {u[j].name : j \in 1 .. (q - 1)}
  BY <1>4, <1>9, FlatPlaces
<1> DEFINE T == typename(t[q].type)
<1>11. typename(z.member.type) = T
  BY <1>4, <1>10
<1> HIDE DEF T
<1>12. T \notin z.scope
  <2>1. Len(u) \in Nat /\ DOMAIN u = 1 .. Len(u)
    BY <1>4, <1>9, ListFacts
  <2> SUFFICES ASSUME NEW j \in 1 .. (q - 1)
               PROVE  u[j].name # T
    BY <1>10
  <2>2. j \in DOMAIN t /\ q \in DOMAIN t /\ j # q
    BY <1>4, <2>1
  <2>3. ~IsVariant(t[j]) /\ ~IsVariant(t[q])
    BY <1>4, <2>2 DEF Flat
  <2>4. t[j].name # T
    BY <1>6, <2>2, <2>3 DEF Hides, T
  <2> QED
    BY <1>4, <2>2, <2>4
<1>13. T \notin B
  BY <1>4, <1>6, <1>7 DEF T
<1>14. T \in N => u[q].qualified
  BY <1>4, <1>5, <1>6, <1>8 DEF T
<1>15. z.member.qualified \/ T \notin z.scope \cup B \cup N
  BY <1>10, <1>12, <1>13, <1>14
<1> QED
  BY <1>11, <1>15 DEF B, N, e

(* In what is written for a writable structure every type is found.        *)
LEMMA TypesFound ==
  ASSUME NEW d, NEW ms, NEW r, NEW ns, Writes(d, ms, r, ns), Writable(ms),
         NEW x \in Places[d][ns]
  PROVE  Found(x)
<1>1. d \in Nat /\ ms \in Lists[d] /\ r \in SUBSET STRING /\ ns = Members[d][ms][r]
  BY DEF Writes
<1>2. /\ ns \in Lists[d] /\ DOMAIN ns = DOMAIN ms
      /\ \A k \in DOMAIN ms : /\ IsVariant(ns[k]) <=> IsVariant(ms[k])
                              /\ ~IsVariant(ms[k]) => ns[k].type = ms[k].type
  BY <1>1, WrittenFacts
<1>3. PICK k \in DOMAIN ms : \E y \in Parts(d, ns)[k] :
           x.path = y.path /\ x.member = y.member /\ x.scope = y.scope \cup Before(Parts(d, ns), k)
  BY <1>1, <1>2, PlacesFacts
<1>4. PICK y \in Parts(d, ns)[k] :
           x.path = y.path /\ x.member = y.member /\ x.scope = y.scope \cup Before(Parts(d, ns), k)
  BY <1>3
<1> DEFINE N == {ms[j].name : j \in 1 .. (k - 1)}
<1>5. x.member = y.member /\ x.scope = y.scope \cup N
  BY <1>4, NamesBeforeMember
<1>6. CASE ~IsVariant(ms[k])
  <2>1. ns[k] \in Leaf
    BY <1>1, <1>2, <1>6, ListFacts
  <2>2. Parts(d, ns)[k] = {[path |-> <<ns[k].name>>, member |-> ns[k], scope |-> {}]}
    BY <1>2, <2>1, LeafPlace DEF Parts
  <2>3. x.member = ns[k] /\ x.scope = N
    BY <1>5, <2>2
  <2>4. typename(ms[k].type) \notin N
    <3>1. \A j \in 1 .. (k - 1) : j \in DOMAIN ms /\ ~IsVariant(ms[j])
      BY <1>1, WritableFacts
    <3>2. Len(ms) \in Nat /\ DOMAIN ms = 1 .. Len(ms)
      BY <1>1, ListFacts
    <3>3. \A j \in 1 .. (k - 1) : j # k
      BY <3>2
    <3> QED
      BY <1>6, <3>1, <3>3 DEF Writable, Hides
  <2> QED
    BY <1>2, <1>6, <2>3, <2>4 DEF Found
<1>7. CASE IsVariant(ms[k])
  <2> DEFINE e == d - 1
             m == ns[k]
  <2>1. e \in Nat /\ m \in Variants(Lists[e])
    BY <1>1, <1>2, <1>7, Nested
  <2>2. y \in PlacesIn(m, Places[e])
    BY <1>2 DEF Parts
  <2> HIDE DEF e, m
  <2>3. \A p \in PlacesIn(m, Places[e]) : \E i \in DOMAIN m.members :
             \E z \in Places[e][m.members[i].type] :
               /\ p.member = z.member /\ p.path = Through(m.members[i].name, z.path)
               /\ p.scope = z.scope \cup Before(AlternativeParts(e, m), i)
    BY <2>1, VariantPlaces
  <2>4. PICK i \in DOMAIN m.members : \E z \in Places[e][m.members[i].type] :
             /\ y.member = z.member /\ y.path = Through(m.members[i].name, z.path)
             /\ y.scope = z.scope \cup Before(AlternativeParts(e, m), i)
    BY <2>2, <2>3
  <2>5. PICK z \in Places[e][m.members[i].type] :
             /\ y.member = z.member /\ y.path = Through(m.members[i].name, z.path)
             /\ y.scope = z.scope \cup Before(AlternativeParts(e, m), i)
    BY <2>4
  <2>6. i \in DOMAIN ms[k].members
    <3>1. DOMAIN ns[k].members = DOMAIN ms[k].members
      BY <1>1, <1>7, WrittenFacts
    <3> QED
      BY <3>1 DEF m
  <2>7. \/ z.member.qualified
        \/ typename(z.member.type) \notin z.scope \cup Before(AlternativeParts(e, m), i) \cup N
    BY <1>7, <2>5, <2>6, FoundInAlternative DEF e, m
  <2>8. x.member = z.member /\ x.scope = z.scope \cup Before(AlternativeParts(e, m), i) \cup N
    BY <1>5, <2>5
  <2> QED
    BY <2>7, <2>8 DEF Found
<1> QED
  BY <1>6, <1>7
-----------------------------------------------------------------------------
(* What is qualified.                                                      *)

(* Is a member qualified?                                                  *)
Qualified(m) == m.qualified

(* What is in alternative i of the variant that is member k, is plain, and *)
(* has a type with the name of a member before the variant: at path p.     *)
Reserved(ms, k, p) ==
  \E i \in DOMAIN ms[k].members :
    LET a == ms[k].members[i]
    IN \E q \in DOMAIN a.type :
         /\ a.type[q].form = "plain" /\ a.type[q].type \in NamesBefore(ms, k)
         /\ p = Through(a.name, <<a.type[q].name>>)

(* The same of any of its variants.                                        *)
ReservedAt(ms, p) == \E k \in DOMAIN ms : IsVariant(ms[k]) /\ Reserved(ms, k, p)

(* In what is written for a writable structure these are qualified, and no *)
(* others.                                                                 *)
LEMMA QualifiedPaths ==
  ASSUME NEW d, NEW ms, NEW ns, Writes(d, ms, {}, ns), Writable(ms)
  PROVE  \A p : (\E x \in Places[d][ns] : x.path = p /\ Qualified(x.member)) <=> ReservedAt(ms, p)
<1>1. d \in Nat /\ ms \in Lists[d] /\ {} \in SUBSET STRING /\ ns = Members[d][ms][{}]
  BY DEF Writes
<1>2. Shallow(ms)
  BY <1>1, WritableFacts
<1>3. ns \in Lists[d] /\ DOMAIN ns = DOMAIN ms /\ \A k \in DOMAIN ms : IsVariant(ns[k]) <=> IsVariant(ms[k])
  BY <1>1, WrittenFacts
<1>4. Shallow(ns)
  BY <1>2, WrittenPaths
<1>5. \A p, y : (\E x \in Places[d][ns] : x.path = p /\ x.member = y) <=>
                  LeafAt(ns, p, y) \/ InnerAt(ns, p, y)
  BY <1>1, <1>3, <1>4, PlacedMembers
<1>6. \A k \in DOMAIN ms : ~IsVariant(ms[k]) => ~Qualified(ns[k])
  <2>1. \A k \in DOMAIN ms : ~IsVariant(ms[k]) =>
          (Qualified(ns[k]) <=> ms[k].form = "plain" /\ ms[k].type \in {})
    BY <1>1, WrittenFacts DEF Qualified
  <2> QED
    BY <2>1
<1>7. ASSUME NEW k \in DOMAIN ms, IsVariant(ms[k]), NEW p
      PROVE  (\E y : VariantAt(ns[k], p, y) /\ Qualified(y)) <=> Reserved(ms, k, p)
  <2> DEFINE xs == ms[k].members
             ys == ns[k].members
             B == NamesBefore(ms, k)
  <2>1. DOMAIN ys = DOMAIN xs
    BY <1>1, <1>7, WrittenFacts
  <2>2. ASSUME NEW i \in DOMAIN xs
        PROVE  /\ DOMAIN ys[i].type = DOMAIN xs[i].type /\ xs[i].name = ys[i].name
               /\ \A q \in DOMAIN xs[i].type :
                    /\ ys[i].type[q].name = xs[i].type[q].name
                    /\ Qualified(ys[i].type[q]) <=>
                         xs[i].type[q].form = "plain" /\ xs[i].type[q].type \in B
    <3>1. AsWritten(d - 1, ms, ns, k, i, xs[i], ys[i])
      BY <1>7, WrittenAlternative
    <3> QED
      BY <3>1 DEF AsWritten, Qualified
  <2> HIDE DEF xs, ys, B
  <2>3. (\E i \in DOMAIN ys : \E q \in DOMAIN ys[i].type :
           p = Through(ys[i].name, <<ys[i].type[q].name>>) /\ Qualified(ys[i].type[q])) <=>
        \E i \in DOMAIN xs : \E q \in DOMAIN xs[i].type :
           /\ xs[i].type[q].form = "plain" /\ xs[i].type[q].type \in B
           /\ p = Through(xs[i].name, <<xs[i].type[q].name>>)
    <3>1. ASSUME NEW i \in DOMAIN xs
          PROVE  (\E q \in DOMAIN ys[i].type :
                    p = Through(ys[i].name, <<ys[i].type[q].name>>) /\ Qualified(ys[i].type[q])) <=>
                 \E q \in DOMAIN xs[i].type :
                    /\ xs[i].type[q].form = "plain" /\ xs[i].type[q].type \in B
                    /\ p = Through(xs[i].name, <<xs[i].type[q].name>>)
      <4> DEFINE a == xs[i]
                 b == ys[i]
                 R(q) == a.type[q].form = "plain" /\ a.type[q].type \in B
      <4>1. /\ DOMAIN b.type = DOMAIN a.type /\ a.name = b.name
            /\ \A q \in DOMAIN a.type : b.type[q].name = a.type[q].name /\ (Qualified(b.type[q]) <=> R(q))
        BY <2>2
      <4> HIDE DEF a, b, R
      <4>2. \A q \in DOMAIN a.type : Through(b.name, <<b.type[q].name>>) = Through(a.name, <<a.type[q].name>>)
        BY <4>1
      <4>3. (\E q \in DOMAIN b.type : p = Through(b.name, <<b.type[q].name>>) /\ Qualified(b.type[q])) <=>
              \E q \in DOMAIN a.type : R(q) /\ p = Through(a.name, <<a.type[q].name>>)
        BY <4>1, <4>2
      <4> QED
        BY <4>3 DEF a, b, R
    <3> QED
      BY <2>1, <3>1
  <2>4. Reserved(ms, k, p) <=>
          \E i \in DOMAIN xs : \E q \in DOMAIN xs[i].type :
            /\ xs[i].type[q].form = "plain" /\ xs[i].type[q].type \in B
            /\ p = Through(xs[i].name, <<xs[i].type[q].name>>)
    BY DEF Reserved, xs, B
  <2>5. \A y : VariantAt(ns[k], p, y) <=>
          \E i \in DOMAIN ys : \E q \in DOMAIN ys[i].type :
            p = Through(ys[i].name, <<ys[i].type[q].name>>) /\ y = ys[i].type[q]
    BY DEF VariantAt, ys
  <2>6. (\E y : VariantAt(ns[k], p, y) /\ Qualified(y)) <=>
          \E i \in DOMAIN ys : \E q \in DOMAIN ys[i].type :
            p = Through(ys[i].name, <<ys[i].type[q].name>>) /\ Qualified(ys[i].type[q])
    <3>1. ASSUME NEW y, VariantAt(ns[k], p, y), Qualified(y)
          PROVE  \E i \in DOMAIN ys : \E q \in DOMAIN ys[i].type :
                   p = Through(ys[i].name, <<ys[i].type[q].name>>) /\ Qualified(ys[i].type[q])
      BY <2>5, <3>1
    <3>2. ASSUME NEW i \in DOMAIN ys, NEW q \in DOMAIN ys[i].type,
                 p = Through(ys[i].name, <<ys[i].type[q].name>>), Qualified(ys[i].type[q])
          PROVE  \E y : VariantAt(ns[k], p, y) /\ Qualified(y)
      <4>1. VariantAt(ns[k], p, ys[i].type[q])
        BY <2>5, <3>2
      <4> QED
        BY <3>2, <4>1
    <3> QED
      BY <3>1, <3>2
  <2> QED
    BY <2>3, <2>4, <2>6
<1>8. ASSUME NEW p
      PROVE  (\E x \in Places[d][ns] : x.path = p /\ Qualified(x.member)) <=> ReservedAt(ms, p)
  <2>1. (\E x \in Places[d][ns] : x.path = p /\ Qualified(x.member)) <=>
          \E y : (LeafAt(ns, p, y) \/ InnerAt(ns, p, y)) /\ Qualified(y)
    BY <1>5
  <2>2. \A y : LeafAt(ns, p, y) => ~Qualified(y)
    BY <1>3, <1>6 DEF LeafAt
  <2>3. (\E y : InnerAt(ns, p, y) /\ Qualified(y)) <=>
          \E k \in DOMAIN ms : IsVariant(ms[k]) /\ \E y : VariantAt(ns[k], p, y) /\ Qualified(y)
    BY <1>3 DEF InnerAt
  <2> QED
    BY <1>7, <2>1, <2>2, <2>3 DEF ReservedAt
<1> QED
  BY <1>8

-----------------------------------------------------------------------------
(* Types are mentioned where they were.                                    *)

(* Is t the type of a member of form f in ms, or in an alternative of m?   *)
Mentions(d, ms, f, t) == \E x \in Places[d][ms] : x.member.form = f /\ x.member.type = t

MentionsInVariant(d, m, f, t) ==
  \E i \in DOMAIN m.members : Mentions(d, m.members[i].type, f, t)

(* A list mentions the types of its members, and of those of alternatives. *)
LEMMA MentionedTypes ==
  ASSUME NEW d \in Nat, NEW ms \in Lists[d], NEW f, NEW t
  PROVE  Mentions(d, ms, f, t) <=>
           \E k \in DOMAIN ms :
             \/ ~IsVariant(ms[k]) /\ ms[k].form = f /\ ms[k].type = t
             \/ IsVariant(ms[k]) /\ MentionsInVariant(d - 1, ms[k], f, t)
<1> DEFINE At(k) == \E y \in Parts(d, ms)[k] : y.member.form = f /\ y.member.type = t
<1>1. Mentions(d, ms, f, t) <=> \E k \in DOMAIN ms : At(k)
  <2>1. \A y \in Places[d][ms] : \E k \in DOMAIN ms : \E x \in Parts(d, ms)[k] : y.member = x.member
    BY PlacesFacts
  <2>2. \A k \in DOMAIN ms : \A x \in Parts(d, ms)[k] : \E y \in Places[d][ms] : y.member = x.member
    BY PlacesFacts
  <2> QED
    BY <2>1, <2>2 DEF Mentions
<1>2. ASSUME NEW k \in DOMAIN ms, ~IsVariant(ms[k])
      PROVE  At(k) <=> ms[k].form = f /\ ms[k].type = t
  <2>1. ms[k] \in Leaf
    BY <1>2, ListFacts
  <2>2. Parts(d, ms)[k] = {[path |-> <<ms[k].name>>, member |-> ms[k], scope |-> {}]}
    BY <2>1, LeafPlace DEF Parts
  <2> QED
    BY <2>2
<1>3. ASSUME NEW k \in DOMAIN ms, IsVariant(ms[k])
      PROVE  At(k) <=> MentionsInVariant(d - 1, ms[k], f, t)
  <2> DEFINE e == d - 1
             m == ms[k]
  <2>1. e \in Nat /\ m \in Variants(Lists[e])
    BY <1>3, Nested
  <2>2. Parts(d, ms)[k] = PlacesIn(m, Places[e])
    BY DEF Parts
  <2> HIDE DEF e, m
  <2>3. /\ \A x \in PlacesIn(m, Places[e]) : \E i \in DOMAIN m.members :
             \E z \in Places[e][m.members[i].type] :
               /\ x.member = z.member /\ x.path = Through(m.members[i].name, z.path)
               /\ x.scope = z.scope \cup Before(AlternativeParts(e, m), i)
        /\ \A i \in DOMAIN m.members : \A z \in Places[e][m.members[i].type] :
             \E x \in PlacesIn(m, Places[e]) :
               x.member = z.member /\ x.path = Through(m.members[i].name, z.path)
    BY <2>1, VariantPlaces
  <2>4. \A x \in PlacesIn(m, Places[e]) : \E i \in DOMAIN m.members :
          \E z \in Places[e][m.members[i].type] : x.member = z.member
    BY <2>3
  <2>5. \A i \in DOMAIN m.members : \A z \in Places[e][m.members[i].type] :
          \E x \in PlacesIn(m, Places[e]) : x.member = z.member
    BY <2>3
  <2>6. At(k) <=> \E x \in PlacesIn(m, Places[e]) : x.member.form = f /\ x.member.type = t
    BY <2>2
  <2>7. (\E x \in PlacesIn(m, Places[e]) : x.member.form = f /\ x.member.type = t)
          <=> MentionsInVariant(e, m, f, t)
    BY <2>4, <2>5 DEF MentionsInVariant, Mentions
  <2> QED
    BY <2>6, <2>7 DEF e, m
<1>4. \A k \in DOMAIN ms :
        At(k) <=> \/ ~IsVariant(ms[k]) /\ ms[k].form = f /\ ms[k].type = t
                  \/ IsVariant(ms[k]) /\ MentionsInVariant(d - 1, ms[k], f, t)
  BY <1>2, <1>3
<1> QED
  BY <1>1, <1>4

(* What is written mentions the same types.                                *)
LEMMA WrittenMentions ==
  ASSUME NEW d \in Nat, NEW ms \in Lists[d], NEW r \in SUBSET STRING, NEW f, NEW t
  PROVE  Mentions(d, Members[d][ms][r], f, t) <=> Mentions(d, ms, f, t)
<1> DEFINE A == {n \in Nat : \A l \in Lists[n] : \A q \in SUBSET STRING :
                   Mentions(n, Members[n][l][q], f, t) <=> Mentions(n, l, f, t)}
<1>1. ASSUME NEW n \in Nat, n # 0 => n - 1 \in A, NEW l \in Lists[n], NEW q \in SUBSET STRING
      PROVE  Mentions(n, Members[n][l][q], f, t) <=> Mentions(n, l, f, t)
  <2> DEFINE ns == Members[n][l][q]
  <2>1. /\ ns \in Lists[n] /\ DOMAIN ns = DOMAIN l
        /\ \A k \in DOMAIN l :
             /\ IsVariant(ns[k]) <=> IsVariant(l[k])
             /\ ~IsVariant(l[k]) => ns[k].form = l[k].form /\ ns[k].type = l[k].type
             /\ IsVariant(l[k]) =>
                  /\ DOMAIN ns[k].members = DOMAIN l[k].members
                  /\ \A i \in DOMAIN l[k].members :
                       ns[k].members[i].type = Members[n - 1][l[k].members[i].type][NamesBefore(l, k)]
    BY WrittenFacts
  <2> HIDE DEF ns
  <2>2. ASSUME NEW k \in DOMAIN l, IsVariant(l[k])
        PROVE  MentionsInVariant(n - 1, ns[k], f, t) <=> MentionsInVariant(n - 1, l[k], f, t)
    <3> DEFINE B == NamesBefore(l, k)
               e == n - 1
    <3>1. n # 0 /\ e \in Nat /\ \A i \in DOMAIN l[k].members : l[k].members[i].type \in Lists[e]
      BY <2>2, Nested
    <3>2. B \in SUBSET STRING
      BY NamesBeforeType
    <3>3. e \in A
      BY <1>1, <3>1
    <3>4. /\ DOMAIN ns[k].members = DOMAIN l[k].members
          /\ \A i \in DOMAIN l[k].members :
               ns[k].members[i].type = Members[e][l[k].members[i].type][B]
      BY <2>1, <2>2
    <3> HIDE DEF B, e
    <3>5. \A i \in DOMAIN l[k].members :
            Mentions(e, ns[k].members[i].type, f, t) <=> Mentions(e, l[k].members[i].type, f, t)
      BY <3>1, <3>2, <3>3, <3>4
    <3> QED
      BY <3>4, <3>5 DEF MentionsInVariant, e
  <2> DEFINE In(x, k) == \/ ~IsVariant(x[k]) /\ x[k].form = f /\ x[k].type = t
                         \/ IsVariant(x[k]) /\ MentionsInVariant(n - 1, x[k], f, t)
  <2>3. Mentions(n, l, f, t) <=> \E k \in DOMAIN l : In(l, k)
    BY MentionedTypes
  <2>4. Mentions(n, ns, f, t) <=> \E k \in DOMAIN ns : In(ns, k)
    BY <2>1, MentionedTypes
  <2>5. \A k \in DOMAIN l : In(ns, k) <=> In(l, k)
    BY <2>1, <2>2
  <2> HIDE DEF In
  <2> QED
    BY <2>1, <2>3, <2>4, <2>5 DEF ns
<1>2. 0 \in A
  BY <1>1
<1>3. \A n \in Nat : n \in A => n + 1 \in A
  <2> SUFFICES ASSUME NEW n \in Nat, n \in A
               PROVE  n + 1 \in A
    OBVIOUS
  <2> DEFINE p == n + 1
  <2>1. p \in Nat /\ p - 1 = n
    OBVIOUS
  <2> HIDE DEF A, p
  <2>2. p # 0 => p - 1 \in A
    BY <2>1
  <2>3. \A l \in Lists[p] : \A q \in SUBSET STRING :
          Mentions(p, Members[p][l][q], f, t) <=> Mentions(p, l, f, t)
    BY <2>1, <2>2, <1>1
  <2> QED
    BY <2>1, <2>3 DEF A, p
<1>4. Nat \subseteq A
  <2> HIDE DEF A
  <2> QED
    BY <1>2, <1>3, Induction
<1> QED
  BY <1>4
-----------------------------------------------------------------------------
(* Both generators go through a list from its start to its end, and write  *)
(* something for each type that is not skipped.                            *)

(* s is what is left of xs after its first n.                              *)
Left(s, xs, n) ==
  /\ n \in 0 .. Len(xs) /\ s \in Seq(ToSet(xs)) /\ Len(s) = Len(xs) - n
  /\ \A k \in 1 .. Len(s) : s[k] = xs[n + k]

(* o[k] is what is written for xs[i], ws[i]: what is written before it is  *)
(* what is written for those before xs[i] that are not skipped.            *)
MadeFrom(o, xs, ws, k, i) ==
  /\ o[k] = ws[i] /\ xs[i].name \notin skipped
  /\ \A j \in 1 .. (i - 1) : xs[j].name \notin skipped => \E l \in 1 .. (k - 1) : o[l] = ws[j]
  /\ \A l \in 1 .. (k - 1) : \E j \in 1 .. (i - 1) : o[l] = ws[j]

(* o is what is written for the first n of xs.                             *)
Made(o, xs, ws, n) ==
  /\ o \in Seq(ToSet(ws))
  /\ \A k \in DOMAIN o : \E i \in 1 .. n : MadeFrom(o, xs, ws, k, i)
  /\ \A j \in 1 .. n : xs[j].name \notin skipped => \E k \in DOMAIN o : o[k] = ws[j]

(* At first all of a list is left.                                         *)
LEMMA LeftAtFirst ==
  ASSUME NEW S, NEW xs \in Seq(S)
  PROVE  Left(xs, xs, 0)
<1>1. Len(xs) \in Nat /\ DOMAIN xs = 1 .. Len(xs) /\ \A k \in 1 .. Len(xs) : xs[k] = xs[0 + k]
  OBVIOUS
<1>2. xs \in Seq(ToSet(xs))
  <2>1. xs = [k \in 1 .. Len(xs) |-> xs[k]] /\ \A k \in 1 .. Len(xs) : xs[k] \in ToSet(xs)
    BY <1>1 DEF ToSet
  <2> QED
    BY <1>1, <2>1, SeqIntro
<1> QED
  BY <1>1, <1>2 DEF Left

(* The head of what is left is the next one.                               *)
LEMMA LeftAfterHead ==
  ASSUME NEW S, NEW xs \in Seq(S), NEW s, NEW n, Left(s, xs, n), s # <<>>
  PROVE  /\ n \in Nat /\ n + 1 \in DOMAIN xs /\ Head(s) = xs[n + 1]
         /\ Left(Tail(s), xs, n + 1)
<1> DEFINE T == ToSet(xs)
<1>1. /\ n \in 0 .. Len(xs) /\ s \in Seq(T) /\ Len(s) = Len(xs) - n
      /\ \A k \in 1 .. Len(s) : s[k] = xs[n + k]
  BY DEF Left
<1> HIDE DEF T
<1>2. Len(xs) \in Nat /\ DOMAIN xs = 1 .. Len(xs) /\ Len(s) \in Nat /\ Len(s) # 0
  BY <1>1
<1>3. Head(s) = s[1] /\ Tail(s) \in Seq(T) /\ Len(Tail(s)) = Len(s) - 1
      /\ \A k \in 1 .. Len(Tail(s)) : Tail(s)[k] = s[k + 1]
  BY <1>1, <1>2
<1>4. \A k \in 1 .. Len(Tail(s)) : k + 1 \in 1 .. Len(s) /\ n + (k + 1) = (n + 1) + k
  BY <1>1, <1>2, <1>3
<1>5. n + 1 \in 0 .. Len(xs) /\ n + 1 \in 1 .. Len(xs) /\ 1 \in 1 .. Len(s)
  BY <1>1, <1>2
<1>6. Len(Tail(s)) = Len(xs) - (n + 1)
  BY <1>1, <1>2, <1>3
<1>7. \A k \in 1 .. Len(Tail(s)) : Tail(s)[k] = xs[(n + 1) + k]
  BY <1>1, <1>3, <1>4
<1> QED
  BY <1>1, <1>2, <1>3, <1>5, <1>6, <1>7 DEF Left, T

(* What is made of nothing is nothing.                                     *)
LEMMA MadeAtFirst ==
  ASSUME NEW xs, NEW ws
  PROVE  Made(<<>>, xs, ws, 0)
BY DEF Made

(* A skipped type adds nothing to what is made ...                         *)
LEMMA MadeBySkipping ==
  ASSUME NEW o, NEW xs, NEW ws, NEW n \in Nat, Made(o, xs, ws, n), xs[n + 1].name \in skipped
  PROVE  Made(o, xs, ws, n + 1)
<1>1. \A i \in 1 .. n : i \in 1 .. (n + 1)
  OBVIOUS
<1>2. \A j \in 1 .. (n + 1) : j \in 1 .. n \/ j = n + 1
  OBVIOUS
<1> QED
  BY <1>1, <1>2 DEF Made

(* ... and one that is not skipped is written after all others.            *)
LEMMA MadeByWriting ==
  ASSUME NEW o, NEW xs, NEW ws, NEW n \in Nat, Made(o, xs, ws, n),
         xs[n + 1].name \notin skipped, n + 1 \in DOMAIN ws
  PROVE  Made(Append(o, ws[n + 1]), xs, ws, n + 1)
<1> DEFINE T == ToSet(ws)
           w == ws[n + 1]
           p == Append(o, w)
<1>1. o \in Seq(T) /\ w \in T
  BY DEF Made, ToSet
<1> HIDE DEF T
<1>2. /\ p \in Seq(T) /\ Len(o) \in Nat /\ DOMAIN o = 1 .. Len(o)
      /\ DOMAIN p = 1 .. (Len(o) + 1) /\ p[Len(o) + 1] = w /\ \A k \in DOMAIN o : p[k] = o[k]
  BY <1>1
<1> HIDE DEF p, w
<1>3. \A j \in 1 .. (n + 1) : xs[j].name \notin skipped => \E k \in DOMAIN p : p[k] = ws[j]
  <2> SUFFICES ASSUME NEW j \in 1 .. (n + 1), xs[j].name \notin skipped
               PROVE  \E k \in DOMAIN p : p[k] = ws[j]
    OBVIOUS
  <2>1. CASE j \in 1 .. n
    <3>1. PICK k \in DOMAIN o : o[k] = ws[j]
      BY <2>1 DEF Made
    <3> QED
      BY <1>2, <3>1
  <2>2. CASE j = n + 1
    BY <1>2, <2>2 DEF w
  <2> QED
    BY <2>1, <2>2
<1>4. ASSUME NEW k \in DOMAIN o
      PROVE  \E i \in 1 .. (n + 1) : MadeFrom(p, xs, ws, k, i)
  <2>1. PICK i \in 1 .. n : MadeFrom(o, xs, ws, k, i)
    BY DEF Made
  <2>2. \A l \in 1 .. (k - 1) : p[l] = o[l]
    <3>1. \A l \in 1 .. (k - 1) : l \in DOMAIN o
      BY <1>2
    <3> QED
      BY <1>2, <3>1
  <2>3. MadeFrom(p, xs, ws, k, i)
    <3>1. p[k] = ws[i] /\ xs[i].name \notin skipped
      BY <1>2, <2>1 DEF MadeFrom
    <3>2. ASSUME NEW j \in 1 .. (i - 1), xs[j].name \notin skipped
          PROVE  \E l \in 1 .. (k - 1) : p[l] = ws[j]
      BY <2>1, <2>2, <3>2 DEF MadeFrom
    <3>3. ASSUME NEW l \in 1 .. (k - 1)
          PROVE  \E j \in 1 .. (i - 1) : p[l] = ws[j]
      BY <2>1, <2>2 DEF MadeFrom
    <3> QED
      BY <3>1, <3>2, <3>3 DEF MadeFrom
  <2>4. i \in 1 .. (n + 1)
    OBVIOUS
  <2> QED
    BY <2>3, <2>4
<1>5. MadeFrom(p, xs, ws, Len(o) + 1, n + 1)
  <2>1. \A j \in 1 .. n : xs[j].name \notin skipped => \E l \in DOMAIN o : o[l] = ws[j]
    BY DEF Made
  <2>2. \A l \in DOMAIN o : \E j \in 1 .. n : o[l] = ws[j]
    BY DEF Made, MadeFrom
  <2>3. (n + 1) - 1 = n /\ (Len(o) + 1) - 1 = Len(o)
    BY <1>2
  <2> QED
    BY <1>2, <2>1, <2>2, <2>3 DEF MadeFrom, w
<1>6. \A k \in DOMAIN p : \E i \in 1 .. (n + 1) : MadeFrom(p, xs, ws, k, i)
  <2>1. \A k \in DOMAIN p : k \in DOMAIN o \/ k = Len(o) + 1
    BY <1>2
  <2>2. n + 1 \in 1 .. (n + 1)
    OBVIOUS
  <2> QED
    BY <2>1, <2>2, <1>4, <1>5
<1> QED
  BY <1>2, <1>3, <1>6 DEF Made, p, w, T

-----------------------------------------------------------------------------
(* The structures.                                                         *)

(* What is written for each type, and what of that has been written.       *)
Structs(types) == [j \in DOMAIN types |-> Written(types[j])]

StructsFrom(types) ==
  \E n \in 0 .. Len(types) : Left(todo, types, n) /\ Made(out, types, Structs(types), n)

(* The inductive invariant: there is a list of which the first have been   *)
(* dealt with and the others are still to be generated.                    *)
StructsInv == \E types \in Inputs : StructsFrom(types)

(* The type of the types in a list that may be given.                      *)
StructureType == [name : STRING, members : Lists[Nesting]]

(* A list that may be given is a sequence of them.                         *)
LEMMA InputType ==
  ASSUME NEW types \in Inputs
  PROVE  types \in Seq(StructureType)
BY InputsAssumption DEF StructureType

(* At the start all of a list is left.                                     *)
LEMMA StructsInit ==
  ASSUME NEW types \in Inputs, todo = types, out = <<>>
  PROVE  StructsFrom(types)
<1>1. types \in Seq(StructureType)
  BY InputType
<1>2. Left(todo, types, 0)
  BY <1>1, LeftAtFirst
<1>3. Made(out, types, Structs(types), 0)
  BY MadeAtFirst
<1>4. 0 \in 0 .. Len(types)
  BY <1>2 DEF Left
<1> QED
  BY <1>2, <1>3, <1>4 DEF StructsFrom

(* A step of the generator goes on with the same list.                     *)
LEMMA StructsStep ==
  ASSUME NEW types \in Inputs, StructsFrom(types), [Next]_vars
  PROVE  StructsFrom(types)'
<1>1. types \in Seq(StructureType)
  BY InputType
<1>2. PICK n \in 0 .. Len(types) : Left(todo, types, n) /\ Made(out, types, Structs(types), n)
  BY DEF StructsFrom
<1>3. ASSUME todo # <<>>
      PROVE  /\ n \in Nat /\ n + 1 \in 0 .. Len(types) /\ n + 1 \in DOMAIN types
             /\ Head(todo) = types[n + 1] /\ Left(Tail(todo), types, n + 1)
  <2>1. /\ n \in Nat /\ n + 1 \in DOMAIN types
        /\ Head(todo) = types[n + 1] /\ Left(Tail(todo), types, n + 1)
    BY <1>1, <1>2, <1>3, LeftAfterHead
  <2> QED
    BY <2>1 DEF Left
<1>4. CASE generate_type
  <2>1. todo # <<>> /\ Head(todo).name \notin skipped
        /\ out' = Append(out, Written(Head(todo))) /\ todo' = Tail(todo)
    BY <1>4 DEF generate_type
  <2>2. Structs(types)[n + 1] = Written(Head(todo)) /\ n + 1 \in DOMAIN Structs(types)
    BY <1>3, <2>1 DEF Structs
  <2>3. Made(out', types, Structs(types), n + 1)
    BY <1>2, <1>3, <2>1, <2>2, MadeByWriting
  <2> QED
    BY <1>3, <2>1, <2>3 DEF StructsFrom
<1>5. CASE skip
  <2>1. todo # <<>> /\ Head(todo).name \in skipped /\ out' = out /\ todo' = Tail(todo)
    BY <1>5 DEF skip
  <2>2. Made(out', types, Structs(types), n + 1)
    BY <1>2, <1>3, <2>1, MadeBySkipping
  <2> QED
    BY <1>3, <2>1, <2>2 DEF StructsFrom
<1>6. CASE UNCHANGED vars
  BY <1>6 DEF StructsFrom, vars
<1> QED
  BY <1>4, <1>5, <1>6 DEF Next

(* What has been written is what is written for one of the types.          *)
LEMMA WrittenStructs ==
  ASSUME NEW types \in Inputs, StructsFrom(types), NEW k \in DOMAIN out
  PROVE  \E i \in DOMAIN types :
           /\ types[i].name \in STRING /\ types[i].members \in Lists[Nesting]
           /\ MadeFrom(out, types, Structs(types), k, i)
           /\ out[k] = Written(types[i])
<1>1. types \in Seq(StructureType)
  BY InputType
<1>2. PICK n \in 0 .. Len(types) : Left(todo, types, n) /\ Made(out, types, Structs(types), n)
  BY DEF StructsFrom
<1>3. PICK i \in 1 .. n : MadeFrom(out, types, Structs(types), k, i)
  BY <1>2 DEF Made
<1>4. i \in DOMAIN types
  BY <1>1
<1>5. types[i] \in StructureType
  BY <1>1, <1>4
<1>6. out[k] = Written(types[i])
  BY <1>3, <1>4 DEF MadeFrom, Structs
<1> QED
  BY <1>3, <1>4, <1>5, <1>6 DEF StructureType
(* The theorem of the loop: at any time the structures written are those   *)
(* of the first types of the list, skipped ones apart, and in its order.   *)
THEOREM StructsFollowTheList == Spec => []StructsInv
<1>1. Init => StructsInv
  BY StructsInit DEF Init, StructsInv
<1>2. StructsInv /\ [Next]_vars => StructsInv'
  BY StructsStep DEF StructsInv
<1> QED
  BY <1>1, <1>2, PTL DEF Spec

(* What is written for a type, for the lemmas above.                       *)
LEMMA WrittenStructure ==
  ASSUME NEW t, t.members \in Lists[Nesting], NEW s, s = Written(t)
  PROVE  /\ s.of = t /\ s.name = typename(t.name)
         /\ Writes(Nesting, t.members, {}, s.members)
         /\ s.asserts = Asserts[Nesting][t.members][<<>>]
<1>1. Nesting \in Nat /\ {} \in SUBSET STRING
  BY NestingAssumption
<1> QED
  BY <1>1 DEF Written, Writes, generate_struct_members, generate_struct_member_asserts

(* Every type in a writable structure is found, whatever its members.      *)
THEOREM TypesAreFound == Spec => []NamesResolve
<1>1. StructsInv => NamesResolve
  <2> SUFFICES ASSUME StructsInv, NEW s \in ToSet(out), Writable(s.of.members),
                      NEW x \in PlacesOf(s.members)
               PROVE  x.member.qualified \/ typename(x.member.type) \notin x.scope
    BY DEF NamesResolve
  <2>1. PICK types \in Inputs : StructsFrom(types)
    BY DEF StructsInv
  <2>2. PICK k \in DOMAIN out : s = out[k]
    BY DEF ToSet
  <2>3. PICK i \in DOMAIN types : /\ types[i].members \in Lists[Nesting]
                                  /\ out[k] = Written(types[i])
    BY <2>1, WrittenStructs
  <2>4. s.of = types[i] /\ Writes(Nesting, types[i].members, {}, s.members)
    BY <2>2, <2>3, WrittenStructure
  <2>5. x \in Places[Nesting][s.members]
    BY DEF PlacesOf
  <2>6. Found(x)
    BY <2>4, <2>5, TypesFound
  <2> QED
    BY <2>6 DEF Found
<1> QED
  BY <1>1, StructsFollowTheList, PTL

(* The offsets of all members of a writable structure are asserted, under  *)
(* the paths by which C and C++ reach them, and nothing else is.           *)
THEOREM OffsetsAreAsserted == Spec => []AssertsCoverMembers
<1>1. StructsInv => AssertsCoverMembers
  <2> SUFFICES ASSUME StructsInv, NEW s \in ToSet(out), Writable(s.of.members)
               PROVE  s.asserts = {x.path : x \in PlacesOf(s.members)}
    BY DEF AssertsCoverMembers
  <2>1. PICK types \in Inputs : StructsFrom(types)
    BY DEF StructsInv
  <2>2. PICK k \in DOMAIN out : s = out[k]
    BY DEF ToSet
  <2>3. PICK i \in DOMAIN types : /\ types[i].members \in Lists[Nesting]
                                  /\ out[k] = Written(types[i])
    BY <2>1, WrittenStructs
  <2> DEFINE ms == types[i].members
  <2>4. /\ s.of = types[i] /\ Writes(Nesting, ms, {}, s.members)
        /\ s.asserts = Asserts[Nesting][ms][<<>>]
    BY <2>2, <2>3, WrittenStructure
  <2>5. Writable(ms)
    BY <2>4
  <2> HIDE DEF ms
  <2>6. /\ Nesting \in Nat /\ ms \in Lists[Nesting] /\ {} \in SUBSET STRING
        /\ s.members = Members[Nesting][ms][{}]
    BY <2>4 DEF Writes
  <2>7. Shallow(ms)
    BY <2>5, <2>6, WritableFacts
  <2>8. Asserts[Nesting][ms][<<>>] = {x.path : x \in Places[Nesting][Members[Nesting][ms][{}]]}
    BY <2>6, <2>7, AssertsAreThePaths
  <2> QED
    BY <2>4, <2>6, <2>8 DEF PlacesOf
<1> QED
  BY <1>1, StructsFollowTheList, PTL

(* What is written contains what the type contains.                        *)
LEMMA WrittenEmbeds ==
  ASSUME NEW ms, NEW ns, Writes(Nesting, ms, {}, ns), NEW t, Embeds(ns, t)
  PROVE  Embeds(ms, t)
<1>1. PICK x \in Places[Nesting][ns] : x.member.form \in {"plain", "array"} /\ x.member.type = t
  BY DEF Embeds, PlacesOf
<1> DEFINE f == x.member.form
<1>2. f \in {"plain", "array"} /\ Mentions(Nesting, ns, f, t)
  BY <1>1 DEF Mentions
<1> HIDE DEF f
<1>3. Mentions(Nesting, ns, f, t) <=> Mentions(Nesting, ms, f, t)
  BY WrittenMentions DEF Writes
<1>4. PICK y \in Places[Nesting][ms] : y.member.form = f /\ y.member.type = t
  BY <1>2, <1>3 DEF Mentions
<1> QED
  BY <1>2, <1>4 DEF Embeds, PlacesOf

(* A structure that contains another, or an array of it, is written after  *)
(* it: skipping does not change the order.                                 *)
THEOREM ContainedAreWrittenFirst == Spec => []DefinedBeforeUse
<1>1. StructsInv => DefinedBeforeUse
  <2> SUFFICES ASSUME StructsInv, NEW k \in DOMAIN out, NEW t \in Structures,
                      Embeds(out[k].members, t)
               PROVE  t \in Included \/ \E j \in 1 .. (k - 1) : out[j].of.name = t
    BY DEF DefinedBeforeUse
  <2>1. PICK types \in Inputs : StructsFrom(types)
    BY DEF StructsInv
  <2>2. PICK i \in DOMAIN types : /\ types[i].members \in Lists[Nesting]
                                  /\ MadeFrom(out, types, Structs(types), k, i)
                                  /\ out[k] = Written(types[i])
    BY <2>1, WrittenStructs
  <2>3. Writes(Nesting, types[i].members, {}, out[k].members)
    BY <2>2, WrittenStructure
  <2>4. Embeds(types[i].members, t)
    BY <2>3, WrittenEmbeds
  <2>5. IF t \in cpp_skip THEN t \in Included ELSE \E j \in 1 .. (i - 1) : types[j].name = t
    BY <2>4, InputsAssumption
  <2>6. CASE t \notin skipped
    <3>1. PICK j \in 1 .. (i - 1) : types[j].name = t
      BY <2>5, <2>6 DEF skipped
    <3>2. PICK l \in 1 .. (k - 1) : out[l] = Structs(types)[j]
      BY <2>2, <2>6, <3>1 DEF MadeFrom
    <3>3. j \in DOMAIN types
      BY InputType
    <3>4. out[l].of = types[j]
      BY <3>2, <3>3 DEF Structs, Written
    <3> QED
      BY <3>1, <3>4
  <2>7. CASE t \in skipped
    BY <2>5, <2>7 DEF skipped
  <2> QED
    BY <2>6, <2>7
<1> QED
  BY <1>1, StructsFollowTheList, PTL
-----------------------------------------------------------------------------
(* The structures of CloudABI.                                             *)

(* The names of CloudABI that are mangled, and what they are mangled to.   *)
LEMMA MangledNames ==
  /\ DOMAIN mangled = {"private", "int", "delete", "errno", "2big"}
  /\ mangled["private"] = "private_" /\ mangled["int"] = "int_" /\ mangled["delete"] = "delete_"
  /\ mangled["errno"] = "error" /\ mangled["2big"] = "_2big"
BY DEF mangled

(* Most types are called in C++ what CloudABI calls them.                  *)
LEMMA AbiTypenames ==
  /\ \A t : t \notin {"char", "size", "uint8", "uint16", "private", "int", "delete", "errno", "2big"}
              => typename(t) = t
  /\ typename("errno") = "error" /\ typename("size") = "std::size_t"
  /\ typename("uint8") = "std::uint8_t" /\ typename("uint16") = "std::uint16_t"
<1>1. DOMAIN std = {"char", "size", "uint8", "uint16"}
  BY DEF std
<1> QED
  BY <1>1, MangledNames DEF typename, mangle, std

(* The lists of CloudABI without variants are writable: what their members *)
(* are called and what their types are called have nothing in common.      *)
LEMMA FlatAbi ==
  ASSUME NEW ms \in {fdstat, filestat, recv_in, send_in, send_out, sockstat, recv_out, <<>>}
  PROVE  Flat(ms) /\ ~Hides(ms)
<1> DEFINE Named(l, names, types) ==
             \A k \in DOMAIN l : ~IsVariant(l[k]) /\ l[k].name \in names /\ l[k].type \in types
<1>1. ASSUME NEW l, NEW names, NEW types, Named(l, names, types),
             \A t \in types : typename(t) \notin names
      PROVE  Flat(l) /\ ~Hides(l)
  BY <1>1 DEF Flat, Hides
<1>2. Flat(fdstat) /\ ~Hides(fdstat)
  <2> DEFINE N == {"fs_filetype", "fs_flags", "fs_rights_base", "fs_rights_inheriting"}
             T == {"filetype", "fdflags", "rights"}
  <2>1. Named(fdstat, N, T)
    BY DEF IsVariant, fdstat, M, Range_, Simple
  <2>2. \A t \in T : typename(t) \notin N
    BY AbiTypenames
  <2> HIDE DEF N, T, Named
  <2> QED
    BY <1>1, <2>1, <2>2
<1>3. Flat(filestat) /\ ~Hides(filestat)
  <2> DEFINE N == {"st_dev", "st_ino", "st_filetype", "st_nlink", "st_size",
                "st_atim", "st_mtim", "st_ctim"}
             T == {"device", "inode", "filetype", "linkcount", "filesize", "timestamp"}
  <2>1. Named(filestat, N, T)
    BY DEF IsVariant, filestat, M, Range_, Simple
  <2>2. \A t \in T : typename(t) \notin N
    BY AbiTypenames
  <2> HIDE DEF N, T, Named
  <2> QED
    BY <1>1, <2>1, <2>2
<1>4. Flat(recv_in) /\ ~Hides(recv_in)
  <2> DEFINE N == {"ri_data", "ri_fds", "ri_flags"}
             T == {"iovec", "fd", "msgflags"}
  <2>1. Named(recv_in, N, T)
    BY DEF IsVariant, recv_in, M, Range_, Simple
  <2>2. \A t \in T : typename(t) \notin N
    BY AbiTypenames
  <2> HIDE DEF N, T, Named
  <2> QED
    BY <1>1, <2>1, <2>2
<1>5. Flat(send_in) /\ ~Hides(send_in)
  <2> DEFINE N == {"si_data", "si_fds", "si_flags"}
             T == {"ciovec", "fd", "msgflags"}
  <2>1. Named(send_in, N, T)
    BY DEF IsVariant, send_in, M, Range_, Simple
  <2>2. \A t \in T : typename(t) \notin N
    BY AbiTypenames
  <2> HIDE DEF N, T, Named
  <2> QED
    BY <1>1, <2>1, <2>2
<1>6. Flat(send_out) /\ ~Hides(send_out)
  <2> DEFINE N == {"so_datalen"}
             T == {"size"}
  <2>1. Named(send_out, N, T)
    BY DEF IsVariant, send_out, M, Range_, Simple
  <2>2. \A t \in T : typename(t) \notin N
    BY AbiTypenames
  <2> HIDE DEF N, T, Named
  <2> QED
    BY <1>1, <2>1, <2>2
<1>7. Flat(sockstat) /\ ~Hides(sockstat)
  <2> DEFINE N == {"ss_sockname", "ss_peername", "ss_error", "ss_state"}
             T == {"sockaddr", "errno", "sstate"}
  <2>1. Named(sockstat, N, T)
    BY DEF IsVariant, sockstat, M, Range_, Simple
  <2>2. \A t \in T : typename(t) \notin N
    BY AbiTypenames
  <2> HIDE DEF N, T, Named
  <2> QED
    BY <1>1, <2>1, <2>2
<1>8. Flat(recv_out) /\ ~Hides(recv_out)
  <2> DEFINE N == {"ro_datalen", "ro_fdslen", "ro_sockname", "ro_peername", "ro_flags"}
             T == {"size", "sockaddr", "msgflags"}
  <2>1. Named(recv_out, N, T)
    BY DEF IsVariant, recv_out, M, Range_, Simple
  <2>2. \A t \in T : typename(t) \notin N
    BY AbiTypenames
  <2> HIDE DEF N, T, Named
  <2> QED
    BY <1>1, <2>1, <2>2
<1>9. Flat(<<>>) /\ ~Hides(<<>>)
  BY DEF Flat, Hides
<1> QED
  BY <1>2, <1>3, <1>4, <1>5, <1>6, <1>7, <1>8, <1>9

(* Can a be an alternative, called n, after members with names N, if the   *)
(* names of its types are T?  Those of members R are reserved in it.       *)
Suited(a, n, T, N, R) ==
  /\ a.name = n /\ n # None /\ ~Hides(a.type)
  /\ \A m \in ToSet(a.type) :
       /\ ~IsVariant(m) /\ typename(m.type) \in T
       /\ typename(m.type) \in N => m.form = "plain" /\ typename(m.type) = m.type
  /\ \A q \in DOMAIN a.type : a.type[q].form = "plain" /\ a.type[q].type \in N <=> q \in R

(* An alternative is suited if its members are.                            *)
LEMMA SuitedBy ==
  ASSUME NEW a, NEW n, NEW T, NEW N, NEW R, a.name = n, n # None,
         \A j, k \in DOMAIN a.type : j # k => a.type[j].name # typename(a.type[k].type),
         \A q \in DOMAIN a.type :
           LET m == a.type[q]
           IN /\ m.form # "variant" /\ typename(m.type) \in T
              /\ typename(m.type) \in N => m.form = "plain" /\ typename(m.type) = m.type
              /\ m.form = "plain" /\ m.type \in N <=> q \in R
  PROVE  Suited(a, n, T, N, R)
<1> DEFINE t == a.type
<1>1. \A m \in ToSet(t) : \E q \in DOMAIN t : m = t[q]
  BY DEF ToSet
<1>2. \A q \in DOMAIN t :
        /\ ~IsVariant(t[q]) /\ typename(t[q].type) \in T
        /\ typename(t[q].type) \in N => t[q].form = "plain" /\ typename(t[q].type) = t[q].type
  BY DEF IsVariant
<1>3. \A q \in DOMAIN t : t[q].form = "plain" /\ t[q].type \in N <=> q \in R
  OBVIOUS
<1>4. ~Hides(t)
  BY DEF Hides
<1> HIDE DEF t
<1>5. \A m \in ToSet(t) :
        /\ ~IsVariant(m) /\ typename(m.type) \in T
        /\ typename(m.type) \in N => m.form = "plain" /\ typename(m.type) = m.type
  BY <1>1, <1>2
<1> QED
  BY <1>3, <1>4, <1>5 DEF Suited, t

(* A path of two names.                                                    *)
LEMMA PathOfTwo ==
  ASSUME NEW a, NEW b
  PROVE  <<a>> \o <<b>> = <<a, b>>
<1>1. <<a>> \in Seq({a, b}) /\ <<b>> \in Seq({a, b}) /\ <<a, b>> \in Seq({a, b})
  OBVIOUS
<1>2. <<a>> \o <<b>> \in Seq({a, b}) /\ Len(<<a>> \o <<b>>) = 2
  BY <1>1
<1>3. \A i \in 1 .. 2 : (<<a>> \o <<b>>)[i] = <<a, b>>[i]
  BY <1>1
<1> QED
  BY <1>1, <1>2, <1>3, SeqEqual

(* Member n of ms is a variant, with c such alternatives, the others are   *)
(* leaves, and no alternative has a type that is called like one before it.*)
SuitedVariant(ms, n, c, N, T, R) ==
  /\ n \in Nat /\ n # 0 /\ Len(ms) = n /\ DOMAIN ms = 1 .. n
  /\ ~Hides(ms) /\ (\A k \in 1 .. (n - 1) : ~IsVariant(ms[k])) /\ IsVariant(ms[n])
  /\ c \in Nat /\ DOMAIN ms[n].members = 1 .. c
  /\ \A i \in 1 .. c : /\ Suited(ms[n].members[i], N[i], T[i], NamesBefore(ms, n), R[i])
                       /\ \A j \in 1 .. (i - 1) : N[j] \notin T[i]

(* Path p leads to a member that is reserved in such a variant.            *)
SuitedPath(ms, n, c, N, R, p) ==
  \E i \in 1 .. c : \E q \in DOMAIN ms[n].members[i].type \cap R[i] :
    p = Through(N[i], <<ms[n].members[i].type[q].name>>)

(* A structure with such a variant is writable, and these paths are those  *)
(* of the reserved types in it.                                            *)
LEMMA WritableBy ==
  ASSUME NEW ms, NEW n, NEW c, NEW N, NEW T, NEW R, SuitedVariant(ms, n, c, N, T, R)
  PROVE  /\ Writable(ms)
         /\ \A p : ReservedAt(ms, p) <=> SuitedPath(ms, n, c, N, R, p)
<1> DEFINE xs == ms[n].members
           B == NamesBefore(ms, n)
<1>1. n \in DOMAIN ms /\ Len(ms) = n /\ ~Hides(ms) /\ DOMAIN ms[n].members = 1 .. c
      /\ \A k \in DOMAIN ms : IsVariant(ms[k]) <=> k = n
  BY DEF SuitedVariant
<1>2. ASSUME NEW i \in 1 .. c
      PROVE  Suited(xs[i], N[i], T[i], B, R[i]) /\ Names(xs[i]) = {N[i]}
  <2>1. Suited(xs[i], N[i], T[i], B, R[i])
    BY DEF SuitedVariant
  <2> HIDE DEF xs, B
  <2>2. xs[i].name = N[i] /\ N[i] # None
    BY <2>1 DEF Suited
  <2>3. QED
    BY <2>1, <2>2 DEF Names
<1>3. \A i \in 1 .. c : \A j \in 1 .. (i - 1) : j \in 1 .. c /\ N[j] \notin T[i]
  BY DEF SuitedVariant
<1> HIDE DEF xs, B
<1>4. ASSUME NEW i \in 1 .. c
      PROVE  /\ ~Hides(xs[i].type)
             /\ \A m \in ToSet(xs[i].type) :
                  /\ ~IsVariant(m)
                  /\ typename(m.type) \in B => m.form = "plain" /\ typename(m.type) = m.type
                  /\ \A j \in 1 .. (i - 1) : typename(m.type) \notin Names(xs[j])
  <2>1. /\ ~Hides(xs[i].type)
        /\ \A m \in ToSet(xs[i].type) :
             /\ ~IsVariant(m) /\ typename(m.type) \in T[i]
             /\ typename(m.type) \in B => m.form = "plain" /\ typename(m.type) = m.type
    BY <1>2 DEF Suited
  <2>2. \A j \in 1 .. (i - 1) : Names(xs[j]) = {N[j]} /\ N[j] \notin T[i]
    BY <1>2, <1>3
  <2> QED
    BY <2>1, <2>2
<1>5. Writable(ms)
  <2> HIDE DEF IsVariant
  <2>1. ASSUME NEW k \in DOMAIN ms, IsVariant(ms[k])
        PROVE  /\ k = n /\ k = Len(ms)
               /\ DOMAIN ms[k].members = 1 .. c
               /\ \A i \in 1 .. c :
                    /\ ~Hides(ms[k].members[i].type)
                    /\ \A m \in ToSet(ms[k].members[i].type) :
                         /\ ~IsVariant(m)
                         /\ typename(m.type) \in NamesBefore(ms, k) =>
                              m.form = "plain" /\ typename(m.type) = m.type
                         /\ \A j \in 1 .. (i - 1) : typename(m.type) \notin Names(ms[k].members[j])
    <3>1. k = n
      BY <1>1, <2>1
    <3> QED
      BY <1>1, <1>4, <3>1 DEF xs, B
  <2> QED
    BY <1>1, <2>1 DEF Writable
<1>6. ASSUME NEW p
      PROVE  Reserved(ms, n, p) <=>
               \E i \in 1 .. c : \E q \in DOMAIN xs[i].type \cap R[i] : p = Through(N[i], <<xs[i].type[q].name>>)
  <2>1. Reserved(ms, n, p) <=> \E i \in 1 .. c : \E q \in DOMAIN xs[i].type :
          /\ xs[i].type[q].form = "plain" /\ xs[i].type[q].type \in B
          /\ p = Through(xs[i].name, <<xs[i].type[q].name>>)
    BY <1>1 DEF Reserved, xs, B
  <2>2. ASSUME NEW i \in 1 .. c
        PROVE  /\ xs[i].name = N[i]
               /\ \A q \in DOMAIN xs[i].type :
                    xs[i].type[q].form = "plain" /\ xs[i].type[q].type \in B <=> q \in R[i]
    BY <1>2 DEF Suited
  <2> QED
    BY <2>1, <2>2
<1>7. \A p : ReservedAt(ms, p) <=> Reserved(ms, n, p)
  BY <1>1 DEF ReservedAt
<1>8. \A p : ReservedAt(ms, p) <=> SuitedPath(ms, n, c, N, R, p)
  BY <1>6, <1>7 DEF SuitedPath, xs
<1> QED
  BY <1>5, <1>8

(* An event is writable, and the userdata of a clock, after the member of  *)
(* that name, is the one reserved type.                                    *)
LEMMA EventMembers ==
  /\ Writable(event)
  /\ \A p : ReservedAt(event, p) <=> p = <<"clock", "identifier">>
<1> DEFINE xs == event[4].members
           B == {"userdata", "error", "type"}
           N == <<"clock", "condvar", "fd_readwrite", "lock", "proc_terminate">>
           T == <<{"userdata"}, {"condvar"}, {"filesize", "fd", "eventrwflags"}, {"lock"},
                {"fd", "signal", "exitcode"}>>
           R == <<{1}, {}, {}, {}, {}>>
<1>1. /\ Len(event) = 4 /\ DOMAIN event = 1 .. 4 /\ IsVariant(event[4])
      /\ event[1] = M("userdata", "userdata")
      /\ event[2] = M("errno", "error")
      /\ event[3] = M("eventtype", "type")
  BY DEF event, Variant, IsVariant
<1>2. /\ DOMAIN xs = 1 .. 5
      /\ xs[1] = Alternative("clock", <<M("userdata", "identifier")>>)
      /\ xs[2] = Alternative("condvar", <<P("condvar", "condvar")>>)
      /\ xs[3] = Alternative("fd_readwrite",
           <<M("filesize", "nbytes"), M("fd", "fd"), M("eventrwflags", "flags")>>)
      /\ xs[4] = Alternative("lock", <<P("lock", "lock")>>)
      /\ xs[5] = Alternative("proc_terminate",
           <<M("fd", "fd"), M("signal", "signal"), M("exitcode", "exitcode")>>)
  BY DEF event, Variant
<1>3. ~Hides(event) /\ \A k \in 1 .. (4 - 1) : ~IsVariant(event[k])
  BY <1>1, AbiTypenames DEF Hides, M, Simple, IsVariant
<1>4. NamesBefore(event, 4) = B
  <2>1. \A j \in 1 .. 4 : event[j].name \in B \cup {None}
    BY DEF event, M, Simple, Variant
  <2>2. event[1].name = "userdata" /\ event[2].name = "error" /\ event[3].name = "type"
        /\ event[4].name = None
    BY DEF event, M, Simple, Variant
  <2>3. {event[j].name : j \in 1 .. 4} = B \cup {None}
    BY <2>1, <2>2
  <2>4. None \notin B
    BY NoneAssumption
  <2> QED
    BY <2>3, <2>4 DEF NamesBefore
<1> HIDE DEF xs
<1>5. Suited(xs[1], "clock", {"userdata"}, B, {1})
  <2> DEFINE a == xs[1]
  <2>1. /\ a.name = "clock" /\ DOMAIN a.type = 1 .. 1
        /\ a.type[1].form = "plain" /\ a.type[1].type = "userdata" /\ a.type[1].name = "identifier"
    BY <1>2 DEF Alternative, M, P, Simple
  <2> HIDE DEF a
  <2>2. /\ \A j, k \in DOMAIN a.type : j # k => a.type[j].name # typename(a.type[k].type)
        /\ \A q \in DOMAIN a.type :
             LET m == a.type[q]
             IN /\ m.form # "variant" /\ typename(m.type) \in {"userdata"}
                /\ typename(m.type) \in B => m.form = "plain" /\ typename(m.type) = m.type
                /\ m.form = "plain" /\ m.type \in B <=> q \in {1}
    BY <2>1, AbiTypenames
  <2>3. "clock" # None
    BY NoneAssumption
  <2> HIDE DEF B
  <2>4. Suited(a, "clock", {"userdata"}, B, {1})
    BY <2>1, <2>2, <2>3, SuitedBy
  <2> QED
    BY <2>4 DEF a
<1>6. Suited(xs[2], "condvar", {"condvar"}, B, {})
  <2> DEFINE a == xs[2]
  <2>1. /\ a.name = "condvar" /\ DOMAIN a.type = 1 .. 1
        /\ a.type[1].form = "pointer" /\ a.type[1].type = "condvar" /\ a.type[1].name = "condvar"
    BY <1>2 DEF Alternative, M, P, Simple
  <2> HIDE DEF a
  <2>2. /\ \A j, k \in DOMAIN a.type : j # k => a.type[j].name # typename(a.type[k].type)
        /\ \A q \in DOMAIN a.type :
             LET m == a.type[q]
             IN /\ m.form # "variant" /\ typename(m.type) \in {"condvar"}
                /\ typename(m.type) \in B => m.form = "plain" /\ typename(m.type) = m.type
                /\ m.form = "plain" /\ m.type \in B <=> q \in {}
    BY <2>1, AbiTypenames
  <2>3. "condvar" # None
    BY NoneAssumption
  <2> HIDE DEF B
  <2>4. Suited(a, "condvar", {"condvar"}, B, {})
    BY <2>1, <2>2, <2>3, SuitedBy
  <2> QED
    BY <2>4 DEF a
<1>7. Suited(xs[3], "fd_readwrite", {"filesize", "fd", "eventrwflags"}, B, {})
  <2> DEFINE a == xs[3]
  <2>1. /\ a.name = "fd_readwrite" /\ DOMAIN a.type = 1 .. 3
        /\ a.type[1].form = "plain" /\ a.type[1].type = "filesize" /\ a.type[1].name = "nbytes"
        /\ a.type[2].form = "plain" /\ a.type[2].type = "fd" /\ a.type[2].name = "fd"
        /\ a.type[3].form = "plain" /\ a.type[3].type = "eventrwflags" /\ a.type[3].name = "flags"
    BY <1>2 DEF Alternative, M, P, Simple
  <2> HIDE DEF a
  <2>2. /\ \A j, k \in DOMAIN a.type : j # k => a.type[j].name # typename(a.type[k].type)
        /\ \A q \in DOMAIN a.type :
             LET m == a.type[q]
             IN /\ m.form # "variant" /\ typename(m.type) \in {"filesize", "fd", "eventrwflags"}
                /\ typename(m.type) \in B => m.form = "plain" /\ typename(m.type) = m.type
                /\ m.form = "plain" /\ m.type \in B <=> q \in {}
    BY <2>1, AbiTypenames
  <2>3. "fd_readwrite" # None
    BY NoneAssumption
  <2> HIDE DEF B
  <2>4. Suited(a, "fd_readwrite", {"filesize", "fd", "eventrwflags"}, B, {})
    BY <2>1, <2>2, <2>3, SuitedBy
  <2> QED
    BY <2>4 DEF a
<1>8. Suited(xs[4], "lock", {"lock"}, B, {})
  <2> DEFINE a == xs[4]
  <2>1. /\ a.name = "lock" /\ DOMAIN a.type = 1 .. 1
        /\ a.type[1].form = "pointer" /\ a.type[1].type = "lock" /\ a.type[1].name = "lock"
    BY <1>2 DEF Alternative, M, P, Simple
  <2> HIDE DEF a
  <2>2. /\ \A j, k \in DOMAIN a.type : j # k => a.type[j].name # typename(a.type[k].type)
        /\ \A q \in DOMAIN a.type :
             LET m == a.type[q]
             IN /\ m.form # "variant" /\ typename(m.type) \in {"lock"}
                /\ typename(m.type) \in B => m.form = "plain" /\ typename(m.type) = m.type
                /\ m.form = "plain" /\ m.type \in B <=> q \in {}
    BY <2>1, AbiTypenames
  <2>3. "lock" # None
    BY NoneAssumption
  <2> HIDE DEF B
  <2>4. Suited(a, "lock", {"lock"}, B, {})
    BY <2>1, <2>2, <2>3, SuitedBy
  <2> QED
    BY <2>4 DEF a
<1>9. Suited(xs[5], "proc_terminate", {"fd", "signal", "exitcode"}, B, {})
  <2> DEFINE a == xs[5]
  <2>1. /\ a.name = "proc_terminate" /\ DOMAIN a.type = 1 .. 3
        /\ a.type[1].form = "plain" /\ a.type[1].type = "fd" /\ a.type[1].name = "fd"
        /\ a.type[2].form = "plain" /\ a.type[2].type = "signal" /\ a.type[2].name = "signal"
        /\ a.type[3].form = "plain" /\ a.type[3].type = "exitcode" /\ a.type[3].name = "exitcode"
    BY <1>2 DEF Alternative, M, P, Simple
  <2> HIDE DEF a
  <2>2. /\ \A j, k \in DOMAIN a.type : j # k => a.type[j].name # typename(a.type[k].type)
        /\ \A q \in DOMAIN a.type :
             LET m == a.type[q]
             IN /\ m.form # "variant" /\ typename(m.type) \in {"fd", "signal", "exitcode"}
                /\ typename(m.type) \in B => m.form = "plain" /\ typename(m.type) = m.type
                /\ m.form = "plain" /\ m.type \in B <=> q \in {}
    BY <2>1, AbiTypenames
  <2>3. "proc_terminate" # None
    BY NoneAssumption
  <2> HIDE DEF B
  <2>4. Suited(a, "proc_terminate", {"fd", "signal", "exitcode"}, B, {})
    BY <2>1, <2>2, <2>3, SuitedBy
  <2> QED
    BY <2>4 DEF a
<1>10. \A i \in 1 .. 5 : Suited(xs[i], N[i], T[i], B, R[i])
  <2>1. N[1] = "clock" /\ T[1] = {"userdata"} /\ R[1] = {1}
    OBVIOUS
  <2>2. N[2] = "condvar" /\ T[2] = {"condvar"} /\ R[2] = {}
    OBVIOUS
  <2>3. N[3] = "fd_readwrite" /\ T[3] = {"filesize", "fd", "eventrwflags"} /\ R[3] = {}
    OBVIOUS
  <2>4. N[4] = "lock" /\ T[4] = {"lock"} /\ R[4] = {}
    OBVIOUS
  <2>5. N[5] = "proc_terminate" /\ T[5] = {"fd", "signal", "exitcode"} /\ R[5] = {}
    OBVIOUS
  <2> HIDE DEF B, N, T, R
  <2>6. Suited(xs[1], N[1], T[1], B, R[1])
    BY <1>5, <2>1
  <2>7. Suited(xs[2], N[2], T[2], B, R[2])
    BY <1>6, <2>2
  <2>8. Suited(xs[3], N[3], T[3], B, R[3])
    BY <1>7, <2>3
  <2>9. Suited(xs[4], N[4], T[4], B, R[4])
    BY <1>8, <2>4
  <2>10. Suited(xs[5], N[5], T[5], B, R[5])
    BY <1>9, <2>5
  <2> QED
    BY <2>6, <2>7, <2>8, <2>9, <2>10
<1>11. \A i \in 1 .. 5 : \A j \in 1 .. (i - 1) : N[j] \notin T[i]
  OBVIOUS
<1> HIDE DEF N, T, R
<1>12. /\ Writable(event)
      /\ \A p : ReservedAt(event, p) <=>
                  \E i \in 1 .. 5 : \E q \in DOMAIN xs[i].type \cap R[i] :
                    p = Through(N[i], <<xs[i].type[q].name>>)
  <2> DEFINE n == 4
             c == 5
  <2>1. /\ n \in Nat /\ Len(event) = n /\ DOMAIN event = 1 .. n /\ n # 0
        /\ ~Hides(event) /\ (\A k \in 1 .. (n - 1) : ~IsVariant(event[k])) /\ IsVariant(event[n])
        /\ c \in Nat /\ DOMAIN event[n].members = 1 .. c
    BY <1>1, <1>2, <1>3 DEF xs
  <2>2. \A i \in 1 .. c : /\ Suited(event[n].members[i], N[i], T[i], NamesBefore(event, n), R[i])
                         /\ \A j \in 1 .. (i - 1) : N[j] \notin T[i]
    <3> HIDE DEF B
    <3> QED
      BY <1>4, <1>10, <1>11 DEF xs
  <2> HIDE DEF B, n, c
  <2>3. /\ Writable(event)
        /\ \A p : ReservedAt(event, p) <=> SuitedPath(event, n, c, N, R, p)
    <3>1. SuitedVariant(event, n, c, N, T, R)
      BY <2>1, <2>2 DEF SuitedVariant
    <3> QED
      BY <3>1, WritableBy
  <2> QED
    BY <2>3 DEF SuitedPath, xs, n, c
<1>13. \A p : (\E i \in 1 .. 5 : \E q \in DOMAIN xs[i].type \cap R[i] :
                  p = Through(N[i], <<xs[i].type[q].name>>)) <=> p = <<"clock", "identifier">>
  <2>1. DOMAIN xs[1].type = 1 .. 1 /\ xs[1].type[1].name = "identifier"
    BY <1>2 DEF Alternative, M, Simple
  <2>2. Through("clock", <<"identifier">>) = <<"clock", "identifier">>
    BY PathOfTwo, NoneAssumption DEF Through
  <2>3. N[1] = "clock" /\ R[1] = {1} /\ \A i \in 2 .. 5 : R[i] = {}
    BY DEF N, R
  <2> DEFINE F(i, q) == Through(N[i], <<xs[i].type[q].name>>)
             D(i) == DOMAIN xs[i].type \cap R[i]
  <2>4. 1 \in D(1) /\ \A i \in 1 .. 5 : \A q \in D(i) : i = 1 /\ q = 1
    BY <2>1, <2>3
  <2>5. F(1, 1) = <<"clock", "identifier">>
    <3> DEFINE a == N[1]
               b == xs[1].type[1].name
    <3>1. a = "clock" /\ b = "identifier" /\ F(1, 1) = Through(a, <<b>>)
      BY <2>1, <2>3
    <3> HIDE DEF a, b, F
    <3> QED
      BY <2>2, <3>1
  <2> HIDE DEF F, D
  <2>6. \A p : (\E i \in 1 .. 5 : \E q \in D(i) : p = F(i, q)) <=> p = <<"clock", "identifier">>
    BY <2>4, <2>5
  <2> QED
    BY <2>6 DEF F, D
<1> QED
  BY <1>12, <1>13

(* So is a subscription, with the same reserved type.                      *)
LEMMA SubscriptionMembers ==
  /\ Writable(subscription)
  /\ \A p : ReservedAt(subscription, p) <=> p = <<"clock", "identifier">>
<1> DEFINE xs == subscription[4].members
           B == {"userdata", "flags", "type"}
           N == <<"clock", "condvar", "fd_readwrite", "lock", "proc_terminate">>
           T == <<{"userdata", "clockid", "timestamp", "subclockflags"},
                {"condvar", "lock", "scope"}, {"fd", "subrwflags"}, {"lock", "scope"}, {"fd"}>>
           R == <<{1}, {}, {}, {}, {}>>
<1>1. /\ Len(subscription) = 4 /\ DOMAIN subscription = 1 .. 4 /\ IsVariant(subscription[4])
      /\ subscription[1] = M("userdata", "userdata")
      /\ subscription[2] = M("subflags", "flags")
      /\ subscription[3] = M("eventtype", "type")
  BY DEF subscription, Variant, IsVariant
<1>2. /\ DOMAIN xs = 1 .. 5
      /\ xs[1] = Alternative("clock",
           <<M("userdata", "identifier"), M("clockid", "clock_id"), M("timestamp", "timeout"),
            M("timestamp", "precision"), M("subclockflags", "flags")>>)
      /\ xs[2] = Alternative("condvar",
           <<P("condvar", "condvar"), P("lock", "lock"), M("scope", "condvar_scope"),
            M("scope", "lock_scope")>>)
      /\ xs[3] = Alternative("fd_readwrite", <<M("fd", "fd"), M("subrwflags", "flags")>>)
      /\ xs[4] = Alternative("lock", <<P("lock", "lock"), M("scope", "lock_scope")>>)
      /\ xs[5] = Alternative("proc_terminate", <<M("fd", "fd")>>)
  BY DEF subscription, Variant
<1>3. ~Hides(subscription) /\ \A k \in 1 .. (4 - 1) : ~IsVariant(subscription[k])
  BY <1>1, AbiTypenames DEF Hides, M, Simple, IsVariant
<1>4. NamesBefore(subscription, 4) = B
  <2>1. \A j \in 1 .. 4 : subscription[j].name \in B \cup {None}
    BY DEF subscription, M, Simple, Variant
  <2>2. subscription[1].name = "userdata" /\ subscription[2].name = "flags" /\ subscription[3].name = "type"
        /\ subscription[4].name = None
    BY DEF subscription, M, Simple, Variant
  <2>3. {subscription[j].name : j \in 1 .. 4} = B \cup {None}
    BY <2>1, <2>2
  <2>4. None \notin B
    BY NoneAssumption
  <2> QED
    BY <2>3, <2>4 DEF NamesBefore
<1> HIDE DEF xs
<1>5. Suited(xs[1], "clock", {"userdata", "clockid", "timestamp", "subclockflags"}, B, {1})
  <2> DEFINE a == xs[1]
  <2>1. /\ a.name = "clock" /\ DOMAIN a.type = 1 .. 5
        /\ a.type[1].form = "plain" /\ a.type[1].type = "userdata" /\ a.type[1].name = "identifier"
        /\ a.type[2].form = "plain" /\ a.type[2].type = "clockid" /\ a.type[2].name = "clock_id"
        /\ a.type[3].form = "plain" /\ a.type[3].type = "timestamp" /\ a.type[3].name = "timeout"
        /\ a.type[4].form = "plain" /\ a.type[4].type = "timestamp" /\ a.type[4].name = "precision"
        /\ a.type[5].form = "plain" /\ a.type[5].type = "subclockflags" /\ a.type[5].name = "flags"
    BY <1>2 DEF Alternative, M, P, Simple
  <2> HIDE DEF a
  <2>2. /\ \A j, k \in DOMAIN a.type : j # k => a.type[j].name # typename(a.type[k].type)
        /\ \A q \in DOMAIN a.type :
             LET m == a.type[q]
             IN /\ m.form # "variant" /\ typename(m.type) \in {"userdata", "clockid", "timestamp", "subclockflags"}
                /\ typename(m.type) \in B => m.form = "plain" /\ typename(m.type) = m.type
                /\ m.form = "plain" /\ m.type \in B <=> q \in {1}
    BY <2>1, AbiTypenames
  <2>3. "clock" # None
    BY NoneAssumption
  <2> HIDE DEF B
  <2>4. Suited(a, "clock", {"userdata", "clockid", "timestamp", "subclockflags"}, B, {1})
    BY <2>1, <2>2, <2>3, SuitedBy
  <2> QED
    BY <2>4 DEF a
<1>6. Suited(xs[2], "condvar", {"condvar", "lock", "scope"}, B, {})
  <2> DEFINE a == xs[2]
  <2>1. /\ a.name = "condvar" /\ DOMAIN a.type = 1 .. 4
        /\ a.type[1].form = "pointer" /\ a.type[1].type = "condvar" /\ a.type[1].name = "condvar"
        /\ a.type[2].form = "pointer" /\ a.type[2].type = "lock" /\ a.type[2].name = "lock"
        /\ a.type[3].form = "plain" /\ a.type[3].type = "scope" /\ a.type[3].name = "condvar_scope"
        /\ a.type[4].form = "plain" /\ a.type[4].type = "scope" /\ a.type[4].name = "lock_scope"
    BY <1>2 DEF Alternative, M, P, Simple
  <2> HIDE DEF a
  <2>2. /\ \A j, k \in DOMAIN a.type : j # k => a.type[j].name # typename(a.type[k].type)
        /\ \A q \in DOMAIN a.type :
             LET m == a.type[q]
             IN /\ m.form # "variant" /\ typename(m.type) \in {"condvar", "lock", "scope"}
                /\ typename(m.type) \in B => m.form = "plain" /\ typename(m.type) = m.type
                /\ m.form = "plain" /\ m.type \in B <=> q \in {}
    BY <2>1, AbiTypenames
  <2>3. "condvar" # None
    BY NoneAssumption
  <2> HIDE DEF B
  <2>4. Suited(a, "condvar", {"condvar", "lock", "scope"}, B, {})
    BY <2>1, <2>2, <2>3, SuitedBy
  <2> QED
    BY <2>4 DEF a
<1>7. Suited(xs[3], "fd_readwrite", {"fd", "subrwflags"}, B, {})
  <2> DEFINE a == xs[3]
  <2>1. /\ a.name = "fd_readwrite" /\ DOMAIN a.type = 1 .. 2
        /\ a.type[1].form = "plain" /\ a.type[1].type = "fd" /\ a.type[1].name = "fd"
        /\ a.type[2].form = "plain" /\ a.type[2].type = "subrwflags" /\ a.type[2].name = "flags"
    BY <1>2 DEF Alternative, M, P, Simple
  <2> HIDE DEF a
  <2>2. /\ \A j, k \in DOMAIN a.type : j # k => a.type[j].name # typename(a.type[k].type)
        /\ \A q \in DOMAIN a.type :
             LET m == a.type[q]
             IN /\ m.form # "variant" /\ typename(m.type) \in {"fd", "subrwflags"}
                /\ typename(m.type) \in B => m.form = "plain" /\ typename(m.type) = m.type
                /\ m.form = "plain" /\ m.type \in B <=> q \in {}
    BY <2>1, AbiTypenames
  <2>3. "fd_readwrite" # None
    BY NoneAssumption
  <2> HIDE DEF B
  <2>4. Suited(a, "fd_readwrite", {"fd", "subrwflags"}, B, {})
    BY <2>1, <2>2, <2>3, SuitedBy
  <2> QED
    BY <2>4 DEF a
<1>8. Suited(xs[4], "lock", {"lock", "scope"}, B, {})
  <2> DEFINE a == xs[4]
  <2>1. /\ a.name = "lock" /\ DOMAIN a.type = 1 .. 2
        /\ a.type[1].form = "pointer" /\ a.type[1].type = "lock" /\ a.type[1].name = "lock"
        /\ a.type[2].form = "plain" /\ a.type[2].type = "scope" /\ a.type[2].name = "lock_scope"
    BY <1>2 DEF Alternative, M, P, Simple
  <2> HIDE DEF a
  <2>2. /\ \A j, k \in DOMAIN a.type : j # k => a.type[j].name # typename(a.type[k].type)
        /\ \A q \in DOMAIN a.type :
             LET m == a.type[q]
             IN /\ m.form # "variant" /\ typename(m.type) \in {"lock", "scope"}
                /\ typename(m.type) \in B => m.form = "plain" /\ typename(m.type) = m.type
                /\ m.form = "plain" /\ m.type \in B <=> q \in {}
    BY <2>1, AbiTypenames
  <2>3. "lock" # None
    BY NoneAssumption
  <2> HIDE DEF B
  <2>4. Suited(a, "lock", {"lock", "scope"}, B, {})
    BY <2>1, <2>2, <2>3, SuitedBy
  <2> QED
    BY <2>4 DEF a
<1>9. Suited(xs[5], "proc_terminate", {"fd"}, B, {})
  <2> DEFINE a == xs[5]
  <2>1. /\ a.name = "proc_terminate" /\ DOMAIN a.type = 1 .. 1
        /\ a.type[1].form = "plain" /\ a.type[1].type = "fd" /\ a.type[1].name = "fd"
    BY <1>2 DEF Alternative, M, P, Simple
  <2> HIDE DEF a
  <2>2. /\ \A j, k \in DOMAIN a.type : j # k => a.type[j].name # typename(a.type[k].type)
        /\ \A q \in DOMAIN a.type :
             LET m == a.type[q]
             IN /\ m.form # "variant" /\ typename(m.type) \in {"fd"}
                /\ typename(m.type) \in B => m.form = "plain" /\ typename(m.type) = m.type
                /\ m.form = "plain" /\ m.type \in B <=> q \in {}
    BY <2>1, AbiTypenames
  <2>3. "proc_terminate" # None
    BY NoneAssumption
  <2> HIDE DEF B
  <2>4. Suited(a, "proc_terminate", {"fd"}, B, {})
    BY <2>1, <2>2, <2>3, SuitedBy
  <2> QED
    BY <2>4 DEF a
<1>10. \A i \in 1 .. 5 : Suited(xs[i], N[i], T[i], B, R[i])
  <2>1. N[1] = "clock" /\ T[1] = {"userdata", "clockid", "timestamp", "subclockflags"} /\ R[1] = {1}
    OBVIOUS
  <2>2. N[2] = "condvar" /\ T[2] = {"condvar", "lock", "scope"} /\ R[2] = {}
    OBVIOUS
  <2>3. N[3] = "fd_readwrite" /\ T[3] = {"fd", "subrwflags"} /\ R[3] = {}
    OBVIOUS
  <2>4. N[4] = "lock" /\ T[4] = {"lock", "scope"} /\ R[4] = {}
    OBVIOUS
  <2>5. N[5] = "proc_terminate" /\ T[5] = {"fd"} /\ R[5] = {}
    OBVIOUS
  <2> HIDE DEF B, N, T, R
  <2>6. Suited(xs[1], N[1], T[1], B, R[1])
    BY <1>5, <2>1
  <2>7. Suited(xs[2], N[2], T[2], B, R[2])
    BY <1>6, <2>2
  <2>8. Suited(xs[3], N[3], T[3], B, R[3])
    BY <1>7, <2>3
  <2>9. Suited(xs[4], N[4], T[4], B, R[4])
    BY <1>8, <2>4
  <2>10. Suited(xs[5], N[5], T[5], B, R[5])
    BY <1>9, <2>5
  <2> QED
    BY <2>6, <2>7, <2>8, <2>9, <2>10
<1>11. \A i \in 1 .. 5 : \A j \in 1 .. (i - 1) : N[j] \notin T[i]
  OBVIOUS
<1> HIDE DEF N, T, R
<1>12. /\ Writable(subscription)
      /\ \A p : ReservedAt(subscription, p) <=>
                  \E i \in 1 .. 5 : \E q \in DOMAIN xs[i].type \cap R[i] :
                    p = Through(N[i], <<xs[i].type[q].name>>)
  <2> DEFINE n == 4
             c == 5
  <2>1. /\ n \in Nat /\ Len(subscription) = n /\ DOMAIN subscription = 1 .. n /\ n # 0
        /\ ~Hides(subscription) /\ (\A k \in 1 .. (n - 1) : ~IsVariant(subscription[k])) /\ IsVariant(subscription[n])
        /\ c \in Nat /\ DOMAIN subscription[n].members = 1 .. c
    BY <1>1, <1>2, <1>3 DEF xs
  <2>2. \A i \in 1 .. c : /\ Suited(subscription[n].members[i], N[i], T[i], NamesBefore(subscription, n), R[i])
                         /\ \A j \in 1 .. (i - 1) : N[j] \notin T[i]
    <3> HIDE DEF B
    <3> QED
      BY <1>4, <1>10, <1>11 DEF xs
  <2> HIDE DEF B, n, c
  <2>3. /\ Writable(subscription)
        /\ \A p : ReservedAt(subscription, p) <=> SuitedPath(subscription, n, c, N, R, p)
    <3>1. SuitedVariant(subscription, n, c, N, T, R)
      BY <2>1, <2>2 DEF SuitedVariant
    <3> QED
      BY <3>1, WritableBy
  <2> QED
    BY <2>3 DEF SuitedPath, xs, n, c
<1>13. \A p : (\E i \in 1 .. 5 : \E q \in DOMAIN xs[i].type \cap R[i] :
                  p = Through(N[i], <<xs[i].type[q].name>>)) <=> p = <<"clock", "identifier">>
  <2>1. DOMAIN xs[1].type = 1 .. 5 /\ xs[1].type[1].name = "identifier"
    BY <1>2 DEF Alternative, M, Simple
  <2>2. Through("clock", <<"identifier">>) = <<"clock", "identifier">>
    BY PathOfTwo, NoneAssumption DEF Through
  <2>3. N[1] = "clock" /\ R[1] = {1} /\ \A i \in 2 .. 5 : R[i] = {}
    BY DEF N, R
  <2> DEFINE F(i, q) == Through(N[i], <<xs[i].type[q].name>>)
             D(i) == DOMAIN xs[i].type \cap R[i]
  <2>4. 1 \in D(1) /\ \A i \in 1 .. 5 : \A q \in D(i) : i = 1 /\ q = 1
    BY <2>1, <2>3
  <2>5. F(1, 1) = <<"clock", "identifier">>
    <3> DEFINE a == N[1]
               b == xs[1].type[1].name
    <3>1. a = "clock" /\ b = "identifier" /\ F(1, 1) = Through(a, <<b>>)
      BY <2>1, <2>3
    <3> HIDE DEF a, b, F
    <3> QED
      BY <2>2, <3>1
  <2> HIDE DEF F, D
  <2>6. \A p : (\E i \in 1 .. 5 : \E q \in D(i) : p = F(i, q)) <=> p = <<"clock", "identifier">>
    BY <2>4, <2>5
  <2> QED
    BY <2>6 DEF F, D
<1> QED
  BY <1>12, <1>13

(* So is a socket address, in which no type is reserved.                   *)
LEMMA SockaddrMembers ==
  /\ Writable(sockaddr)
  /\ \A p : ReservedAt(sockaddr, p) <=> FALSE
<1> DEFINE xs == sockaddr[2].members
           B == {"sa_family"}
           N == <<"sa_inet", "sa_inet6">>
           T == <<{"std::uint8_t", "std::uint16_t"}, {"std::uint8_t", "std::uint16_t"}>>
           R == <<{}, {}>>
<1>1. /\ Len(sockaddr) = 2 /\ DOMAIN sockaddr = 1 .. 2 /\ IsVariant(sockaddr[2])
      /\ sockaddr[1] = M("sa_family", "sa_family")
  BY DEF sockaddr, Variant, IsVariant
<1>2. /\ DOMAIN xs = 1 .. 2
      /\ xs[1] = Alternative("sa_inet",
           <<Simple("array", "uint8", "addr"), M("uint16", "port")>>)
      /\ xs[2] = Alternative("sa_inet6",
           <<Simple("array", "uint8", "addr"), M("uint16", "port")>>)
  BY DEF sockaddr, Variant
<1>3. ~Hides(sockaddr) /\ \A k \in 1 .. (2 - 1) : ~IsVariant(sockaddr[k])
  BY <1>1, AbiTypenames DEF Hides, M, Simple, IsVariant
<1>4. NamesBefore(sockaddr, 2) = B
  <2>1. \A j \in 1 .. 2 : sockaddr[j].name \in B \cup {None}
    BY DEF sockaddr, M, Simple, Variant
  <2>2. sockaddr[1].name = "sa_family"
        /\ sockaddr[2].name = None
    BY DEF sockaddr, M, Simple, Variant
  <2>3. {sockaddr[j].name : j \in 1 .. 2} = B \cup {None}
    BY <2>1, <2>2
  <2>4. None \notin B
    BY NoneAssumption
  <2> QED
    BY <2>3, <2>4 DEF NamesBefore
<1> HIDE DEF xs
<1>5. Suited(xs[1], "sa_inet", {"std::uint8_t", "std::uint16_t"}, B, {})
  <2> DEFINE a == xs[1]
  <2>1. /\ a.name = "sa_inet" /\ DOMAIN a.type = 1 .. 2
        /\ a.type[1].form = "array" /\ a.type[1].type = "uint8" /\ a.type[1].name = "addr"
        /\ a.type[2].form = "plain" /\ a.type[2].type = "uint16" /\ a.type[2].name = "port"
    BY <1>2 DEF Alternative, M, P, Simple
  <2> HIDE DEF a
  <2>2. /\ \A j, k \in DOMAIN a.type : j # k => a.type[j].name # typename(a.type[k].type)
        /\ \A q \in DOMAIN a.type :
             LET m == a.type[q]
             IN /\ m.form # "variant" /\ typename(m.type) \in {"std::uint8_t", "std::uint16_t"}
                /\ typename(m.type) \in B => m.form = "plain" /\ typename(m.type) = m.type
                /\ m.form = "plain" /\ m.type \in B <=> q \in {}
    BY <2>1, AbiTypenames
  <2>3. "sa_inet" # None
    BY NoneAssumption
  <2> HIDE DEF B
  <2>4. Suited(a, "sa_inet", {"std::uint8_t", "std::uint16_t"}, B, {})
    BY <2>1, <2>2, <2>3, SuitedBy
  <2> QED
    BY <2>4 DEF a
<1>6. Suited(xs[2], "sa_inet6", {"std::uint8_t", "std::uint16_t"}, B, {})
  <2> DEFINE a == xs[2]
  <2>1. /\ a.name = "sa_inet6" /\ DOMAIN a.type = 1 .. 2
        /\ a.type[1].form = "array" /\ a.type[1].type = "uint8" /\ a.type[1].name = "addr"
        /\ a.type[2].form = "plain" /\ a.type[2].type = "uint16" /\ a.type[2].name = "port"
    BY <1>2 DEF Alternative, M, P, Simple
  <2> HIDE DEF a
  <2>2. /\ \A j, k \in DOMAIN a.type : j # k => a.type[j].name # typename(a.type[k].type)
        /\ \A q \in DOMAIN a.type :
             LET m == a.type[q]
             IN /\ m.form # "variant" /\ typename(m.type) \in {"std::uint8_t", "std::uint16_t"}
                /\ typename(m.type) \in B => m.form = "plain" /\ typename(m.type) = m.type
                /\ m.form = "plain" /\ m.type \in B <=> q \in {}
    BY <2>1, AbiTypenames
  <2>3. "sa_inet6" # None
    BY NoneAssumption
  <2> HIDE DEF B
  <2>4. Suited(a, "sa_inet6", {"std::uint8_t", "std::uint16_t"}, B, {})
    BY <2>1, <2>2, <2>3, SuitedBy
  <2> QED
    BY <2>4 DEF a
<1>7. \A i \in 1 .. 2 : Suited(xs[i], N[i], T[i], B, R[i])
  <2>1. N[1] = "sa_inet" /\ T[1] = {"std::uint8_t", "std::uint16_t"} /\ R[1] = {}
    OBVIOUS
  <2>2. N[2] = "sa_inet6" /\ T[2] = {"std::uint8_t", "std::uint16_t"} /\ R[2] = {}
    OBVIOUS
  <2> HIDE DEF B, N, T, R
  <2>3. Suited(xs[1], N[1], T[1], B, R[1])
    BY <1>5, <2>1
  <2>4. Suited(xs[2], N[2], T[2], B, R[2])
    BY <1>6, <2>2
  <2> QED
    BY <2>3, <2>4
<1>8. \A i \in 1 .. 2 : \A j \in 1 .. (i - 1) : N[j] \notin T[i]
  OBVIOUS
<1> HIDE DEF N, T, R
<1>9. /\ Writable(sockaddr)
      /\ \A p : ReservedAt(sockaddr, p) <=>
                  \E i \in 1 .. 2 : \E q \in DOMAIN xs[i].type \cap R[i] :
                    p = Through(N[i], <<xs[i].type[q].name>>)
  <2> DEFINE n == 2
             c == 2
  <2>1. /\ n \in Nat /\ Len(sockaddr) = n /\ DOMAIN sockaddr = 1 .. n /\ n # 0
        /\ ~Hides(sockaddr) /\ (\A k \in 1 .. (n - 1) : ~IsVariant(sockaddr[k])) /\ IsVariant(sockaddr[n])
        /\ c \in Nat /\ DOMAIN sockaddr[n].members = 1 .. c
    BY <1>1, <1>2, <1>3 DEF xs
  <2>2. \A i \in 1 .. c : /\ Suited(sockaddr[n].members[i], N[i], T[i], NamesBefore(sockaddr, n), R[i])
                         /\ \A j \in 1 .. (i - 1) : N[j] \notin T[i]
    <3> HIDE DEF B
    <3> QED
      BY <1>4, <1>7, <1>8 DEF xs
  <2> HIDE DEF B, n, c
  <2>3. /\ Writable(sockaddr)
        /\ \A p : ReservedAt(sockaddr, p) <=> SuitedPath(sockaddr, n, c, N, R, p)
    <3>1. SuitedVariant(sockaddr, n, c, N, T, R)
      BY <2>1, <2>2 DEF SuitedVariant
    <3> QED
      BY <3>1, WritableBy
  <2> QED
    BY <2>3 DEF SuitedPath, xs, n, c
<1>10. \A p : (\E i \in 1 .. 2 : \E q \in DOMAIN xs[i].type \cap R[i] :
                  p = Through(N[i], <<xs[i].type[q].name>>)) <=> FALSE
  <2>1. \A i \in 1 .. 2 : R[i] = {}
    BY DEF R
  <2> QED
    BY <2>1
<1> QED
  BY <1>9, <1>10

(* What is qualified in structs.hpp, by structure.                         *)
CheckedInOf(n) == {Tail(path) : path \in {c \in CheckedIn : Head(c) = n}}

(* That is one member each of events and subscriptions.                    *)
LEMMA CheckedInByName ==
  /\ CheckedInOf("event") = {<<"clock", "identifier">>}
  /\ CheckedInOf("subscription") = {<<"clock", "identifier">>}
  /\ \A n : n \notin {"event", "subscription"} => CheckedInOf(n) = {}
<1>1. ASSUME NEW a, NEW b, NEW c
      PROVE  Head(<<a, b, c>>) = a /\ Tail(<<a, b, c>>) = <<b, c>>
  <2>1. <<a, b, c>> \in Seq({a, b, c}) /\ <<b, c>> \in Seq({a, b, c})
    OBVIOUS
  <2>2. Tail(<<a, b, c>>) \in Seq({a, b, c}) /\ Len(Tail(<<a, b, c>>)) = 2
    BY <2>1
  <2>3. \A i \in 1 .. 2 : Tail(<<a, b, c>>)[i] = <<b, c>>[i]
    BY <2>1
  <2>4. Tail(<<a, b, c>>) = <<b, c>>
    BY <2>1, <2>2, <2>3, SeqEqual
  <2> QED
    BY <2>4
<1> DEFINE e == <<"event", "clock", "identifier">>
           u == <<"subscription", "clock", "identifier">>
           r == <<"clock", "identifier">>
<1>2. Head(e) = "event" /\ Tail(e) = r /\ Head(u) = "subscription" /\ Tail(u) = r /\ CheckedIn = {e, u}
  BY <1>1 DEF CheckedIn
<1> HIDE DEF e, u, r
<1>3. \A n, p : p \in CheckedInOf(n) <=> n \in {"event", "subscription"} /\ p = r
  BY <1>2 DEF CheckedInOf
<1>4. CheckedInOf("event") = {r} /\ CheckedInOf("subscription") = {r}
  BY <1>3
<1> QED
  BY <1>3, <1>4 DEF r

(* Where a CloudABI structure has reserved types is where structs.hpp has  *)
(* a qualified one.                                                        *)
LEMMA ReservedInAbi ==
  ASSUME NEW t \in ToSet(Abi)
  PROVE  /\ Writable(t.members) /\ typename(t.name) = t.name
         /\ \A p : ReservedAt(t.members, p) <=> p \in CheckedInOf(t.name)
<1> DEFINE FlatTypes == {fdstat, filestat, recv_in, send_in, send_out, sockstat, recv_out, <<>>}
           FlatNames == {"ciovec", "fdstat", "filestat", "iovec", "recv_in", "send_in", "send_out",
                         "sockstat", "recv_out"}
<1>1. \/ t.name = "event" /\ t.members = event
      \/ t.name = "subscription" /\ t.members = subscription
      \/ t.name = "sockaddr" /\ t.members = sockaddr
      \/ t.name \in FlatNames /\ t.members \in FlatTypes
  <2>1. PICK k \in DOMAIN Abi : t = Abi[k]
    BY DEF ToSet
  <2>2. DOMAIN Abi = 1 .. 12
    BY DEF Abi
  <2> QED
    BY <2>1, <2>2 DEF Abi, Type
<1>2. typename(t.name) = t.name
  BY <1>1, AbiTypenames
<1>3. Writable(t.members) /\ \A p : ReservedAt(t.members, p) <=> p \in CheckedInOf(t.name)
  <2>1. CASE t.name = "event" /\ t.members = event
    BY <2>1, EventMembers, CheckedInByName
  <2>2. CASE t.name = "subscription" /\ t.members = subscription
    BY <2>2, SubscriptionMembers, CheckedInByName
  <2>3. CASE t.name = "sockaddr" /\ t.members = sockaddr
    BY <2>3, SockaddrMembers, CheckedInByName
  <2>4. CASE t.name \in FlatNames /\ t.members \in FlatTypes
    <3>1. Flat(t.members) /\ ~Hides(t.members)
      BY <2>4, FlatAbi
    <3>2. Writable(t.members) /\ \A p : ~ReservedAt(t.members, p)
      BY <3>1 DEF Flat, Writable, ReservedAt
    <3>3. CheckedInOf(t.name) = {}
      BY <2>4, CheckedInByName
    <3> QED
      BY <3>2, <3>3
  <2> QED
    BY <1>1, <2>1, <2>2, <2>3, <2>4
<1> QED
  BY <1>2, <1>3

(* The structures of CloudABI can be written, whatever list they are in,   *)
(* and what is written for them is qualified where structs.hpp is.         *)
THEOREM AbiIsAsCheckedIn == Spec => []AbiAsCheckedIn
<1>1. StructsInv => AbiAsCheckedIn
  <2> SUFFICES ASSUME StructsInv, NEW s \in ToSet(out), s.of \in ToSet(Abi)
               PROVE  /\ Writable(s.of.members)
                      /\ {x.path : x \in {y \in PlacesOf(s.members) : y.member.qualified}} =
                           CheckedInOf(s.name)
    BY DEF AbiAsCheckedIn, CheckedInOf
  <2>1. PICK types \in Inputs : StructsFrom(types)
    BY DEF StructsInv
  <2>2. PICK k \in DOMAIN out : s = out[k]
    BY DEF ToSet
  <2>3. PICK i \in DOMAIN types : /\ types[i].members \in Lists[Nesting]
                                  /\ out[k] = Written(types[i])
    BY <2>1, WrittenStructs
  <2> DEFINE t == types[i]
             ms == t.members
             ns == s.members
  <2>4. s.of = t /\ s.name = typename(t.name) /\ Writes(Nesting, ms, {}, ns)
    BY <2>2, <2>3, WrittenStructure
  <2>5. t \in ToSet(Abi)
    BY <2>4
  <2> HIDE DEF t
  <2>6. /\ Writable(ms) /\ typename(t.name) = t.name
        /\ \A p : ReservedAt(ms, p) <=> p \in CheckedInOf(t.name)
    BY <2>5, ReservedInAbi
  <2> HIDE DEF ms, ns
  <2>7. \A p : (\E x \in Places[Nesting][ns] : x.path = p /\ Qualified(x.member)) <=> ReservedAt(ms, p)
    BY <2>4, <2>6, QualifiedPaths
  <2>8. {x.path : x \in {y \in Places[Nesting][ns] : Qualified(y.member)}} = CheckedInOf(t.name)
    BY <2>6, <2>7
  <2> QED
    BY <2>4, <2>6, <2>8 DEF PlacesOf, Qualified, ms, ns
<1> QED
  BY <1>1, StructsFollowTheList, PTL

-----------------------------------------------------------------------------
(* The types.                                                              *)

(* The run of both generators is, to the structures, one of the second.    *)
THEOREM GenerateImplementsSpec == Generate => Spec
<1>1. InitGenerate => Init
  BY DEF InitGenerate
<1>2. [NextGenerate]_allvars => [Next]_vars
  BY DEF NextGenerate, allvars, declare_type, skip_type, write_struct
<1> QED
  BY <1>1, <1>2, PTL DEF Generate, Spec

(* What is proved of the structures holds of them in the run of both.      *)
THEOREM StructuresOfGenerate ==
  Generate => [](NamesResolve /\ AssertsCoverMembers /\ DefinedBeforeUse /\ AbiAsCheckedIn)
BY GenerateImplementsSpec, TypesAreFound, OffsetsAreAsserted, ContainedAreWrittenFirst,
   AbiIsAsCheckedIn, PTL

(* Mangling makes names usable, and keeps them apart.                      *)
LEMMA MangleFacts ==
  ASSUME NEW a, Nameable(a)
  PROVE  /\ mangle(a) \notin Unusable
         /\ a # "none" => mangle(a) # "none"
         /\ \A b : Nameable(b) /\ mangle(a) = mangle(b) => a = b
<1> DEFINE D == {"private", "int", "delete", "errno", "2big"}
           R == {"private_", "int_", "delete_", "error", "_2big"}
<1>1. DOMAIN mangled = D /\ ToSet(mangled) = R
  BY MangledNames DEF ToSet
<1>2. R \cap Unusable = {} /\ "none" \notin R
  BY DEF Unusable, Keywords
<1>3. \A n : Nameable(n) /\ n \notin D => n \notin Unusable /\ n \notin R /\ mangle(n) = n
  BY <1>1 DEF Nameable, mangle
<1>4. \A n \in D : mangle(n) \in R
  BY MangledNames DEF mangle
<1>5. \A n, k \in D : mangle(n) = mangle(k) => n = k
  BY MangledNames DEF mangle
<1> HIDE DEF D, R
<1> QED
  BY <1>2, <1>3, <1>4, <1>5
(* What is declared for each type, and what of that has been declared.     *)
Declaration(t) == [name |-> typename(t.name), braces |-> Enumerators(t)]

Declarations(ts) == [j \in DOMAIN ts |-> Declaration(ts[j])]

TypesFrom(ts) ==
  \E n \in 0 .. Len(ts) : Left(undeclared, ts, n) /\ Made(declared, ts, Declarations(ts), n)

(* The inductive invariant of both: they are going through a list of       *)
(* structures, and the list of types that is given with it.                *)
TypesInv == \E types \in Inputs : StructsFrom(types) /\ TypesFrom(TypesFor(types))

(* The type of the types of the list for TypesFor.                         *)
AnyType == [name : STRING, kind : {"alias", "struct", "enum", "flags"}, values : SUBSET STRING]

(* The list of types is a sequence of types.                               *)
LEMMA TypesForType ==
  ASSUME NEW types \in Inputs
  PROVE  TypesFor(types) \in Seq(AnyType)
BY TypesAssumption DEF AnyType

(* At the start all types are left.                                        *)
LEMMA TypesInit ==
  ASSUME NEW types \in Inputs, undeclared = TypesFor(types), declared = <<>>
  PROVE  TypesFrom(TypesFor(types))
<1> DEFINE ts == TypesFor(types)
<1>1. ts \in Seq(AnyType) /\ undeclared = ts
  BY TypesForType
<1> HIDE DEF ts
<1>2. Left(undeclared, ts, 0)
  BY <1>1, LeftAtFirst
<1>3. Made(declared, ts, Declarations(ts), 0)
  BY MadeAtFirst
<1>4. 0 \in 0 .. Len(ts)
  BY <1>2 DEF Left
<1> QED
  BY <1>2, <1>3, <1>4 DEF TypesFrom, ts

(* A step of either generator goes on with the same types.                 *)
LEMMA TypesStep ==
  ASSUME NEW ts \in Seq(AnyType), TypesFrom(ts), [NextGenerate]_allvars
  PROVE  TypesFrom(ts)'
<1>1. PICK n \in 0 .. Len(ts) : Left(undeclared, ts, n) /\ Made(declared, ts, Declarations(ts), n)
  BY DEF TypesFrom
<1>2. ASSUME undeclared # <<>>
      PROVE  /\ n \in Nat /\ n + 1 \in 0 .. Len(ts) /\ n + 1 \in DOMAIN ts
             /\ Head(undeclared) = ts[n + 1] /\ Left(Tail(undeclared), ts, n + 1)
  <2>1. /\ n \in Nat /\ n + 1 \in DOMAIN ts
        /\ Head(undeclared) = ts[n + 1] /\ Left(Tail(undeclared), ts, n + 1)
    BY <1>1, <1>2, LeftAfterHead
  <2> QED
    BY <2>1 DEF Left
<1>3. CASE declare_type
  <2>1. /\ undeclared # <<>> /\ Head(undeclared).name \notin skipped
        /\ declared' = Append(declared, Declaration(Head(undeclared)))
        /\ undeclared' = Tail(undeclared)
    BY <1>3 DEF declare_type, Declaration
  <2>2. Declarations(ts)[n + 1] = Declaration(Head(undeclared)) /\ n + 1 \in DOMAIN Declarations(ts)
    BY <1>2, <2>1 DEF Declarations
  <2>3. Made(declared', ts, Declarations(ts), n + 1)
    BY <1>1, <1>2, <2>1, <2>2, MadeByWriting
  <2> QED
    BY <1>2, <2>1, <2>3 DEF TypesFrom
<1>4. CASE skip_type
  <2>1. /\ undeclared # <<>> /\ Head(undeclared).name \in skipped
        /\ declared' = declared /\ undeclared' = Tail(undeclared)
    BY <1>4 DEF skip_type
  <2>2. Made(declared', ts, Declarations(ts), n + 1)
    BY <1>1, <1>2, <2>1, MadeBySkipping
  <2> QED
    BY <1>2, <2>1, <2>2 DEF TypesFrom
<1>5. CASE UNCHANGED <<undeclared, declared>>
  BY <1>5 DEF TypesFrom
<1> QED
  BY <1>3, <1>4, <1>5 DEF NextGenerate, write_struct, allvars

(* The theorem of both loops: what is declared is, at any time, what is    *)
(* written for the first types of the list that is given, in its order.    *)
THEOREM TypesFollowTheList == Generate => []TypesInv
<1>1. InitGenerate => TypesInv
  <2> SUFFICES ASSUME InitGenerate
               PROVE  TypesInv
    OBVIOUS
  <2>1. /\ todo \in Inputs /\ out = <<>>
        /\ undeclared = TypesFor(todo) /\ declared = <<>>
    BY DEF InitGenerate, Init
  <2>2. StructsFrom(todo) /\ TypesFrom(TypesFor(todo))
    BY <2>1, StructsInit, TypesInit
  <2> QED
    BY <2>1, <2>2 DEF TypesInv
<1>2. TypesInv /\ [NextGenerate]_allvars => TypesInv'
  <2> SUFFICES ASSUME TypesInv, [NextGenerate]_allvars
               PROVE  TypesInv'
    OBVIOUS
  <2>1. PICK types \in Inputs : StructsFrom(types) /\ TypesFrom(TypesFor(types))
    BY DEF TypesInv
  <2>2. [Next]_vars
    BY DEF NextGenerate, allvars, declare_type, skip_type, write_struct
  <2>3. StructsFrom(types)'
    BY <2>1, <2>2, StructsStep
  <2>4. TypesFrom(TypesFor(types))'
    <3>1. TypesFor(types) \in Seq(AnyType)
      BY TypesForType
    <3> QED
      BY <2>1, <3>1, TypesStep
  <2> QED
    BY <2>3, <2>4 DEF TypesInv
<1> QED
  BY <1>1, <1>2, PTL DEF Generate

(* What has been declared is what is written for one of the types.         *)
LEMMA DeclaredTypes ==
  ASSUME NEW ts \in Seq(AnyType), TypesFrom(ts), NEW k \in DOMAIN declared
  PROVE  \E i \in DOMAIN ts :
           /\ MadeFrom(declared, ts, Declarations(ts), k, i)
           /\ declared[k] = Declaration(ts[i])
<1>1. PICK n \in 0 .. Len(ts) : Left(undeclared, ts, n) /\ Made(declared, ts, Declarations(ts), n)
  BY DEF TypesFrom
<1>2. PICK i \in 1 .. n : MadeFrom(declared, ts, Declarations(ts), k, i)
  BY <1>1 DEF Made
<1>3. i \in DOMAIN ts
  OBVIOUS
<1>4. declared[k] = Declaration(ts[i])
  BY <1>2, <1>3 DEF MadeFrom, Declarations
<1> QED
  BY <1>2, <1>3, <1>4
(* What is assumed of the types, one by one.                               *)
LEMMA AssumedTypes ==
  ASSUME NEW types \in Inputs, NEW ts, ts = TypesFor(types), NEW j \in DOMAIN ts
  PROVE  /\ Nameable(ts[j].name) /\ typename(ts[j].name) = mangle(ts[j].name)
         /\ \A v \in ts[j].values : Nameable(v)
         /\ ts[j].kind = "flags" => "none" \notin ts[j].values
         /\ \A k \in 1 .. (j - 1) : ts[k].name # ts[j].name
         /\ \A k \in 1 .. (j - 1) : k \in DOMAIN ts
<1>1. ts \in Seq(AnyType)
  BY TypesForType
<1>2. /\ Nameable(ts[j].name) /\ ts[j].name \notin DOMAIN std \cup ToSet(std)
      /\ \A v \in ts[j].values : Nameable(v)
      /\ ts[j].kind = "flags" => "none" \notin ts[j].values
      /\ \A k \in 1 .. (j - 1) : ts[k].name # ts[j].name
  BY TypesAssumption
<1>3. typename(ts[j].name) = mangle(ts[j].name)
  BY <1>2 DEF typename
<1>4. \A k \in 1 .. (j - 1) : k \in DOMAIN ts
  BY <1>1
<1> QED
  BY <1>2, <1>3, <1>4

(* All names that are declared are usable in C++, and mean one thing.      *)
THEOREM NamesCanBeDeclared == Generate => []NamesDeclarable
<1>1. TypesInv => NamesDeclarable
  <2> SUFFICES ASSUME NEW types \in Inputs, TypesFrom(TypesFor(types))
               PROVE  NamesDeclarable
    BY DEF TypesInv
  <2> DEFINE ts == TypesFor(types)
  <2>1. ts = TypesFor(types) /\ ts \in Seq(AnyType) /\ TypesFrom(ts)
    BY TypesForType
  <2> HIDE DEF ts
  <2>2. ASSUME NEW j \in DOMAIN declared, NEW k \in DOMAIN declared,
               declared[j].name = declared[k].name, j \in 1 .. (k - 1)
        PROVE  FALSE
    <3>1. PICK i \in DOMAIN ts : /\ MadeFrom(declared, ts, Declarations(ts), k, i)
                                 /\ declared[k] = Declaration(ts[i])
      BY <2>1, DeclaredTypes
    <3>2. PICK l \in 1 .. (i - 1) : declared[j] = Declarations(ts)[l]
      BY <2>2, <3>1 DEF MadeFrom
    <3>3. l \in DOMAIN ts /\ ts[l].name # ts[i].name
      BY <2>1, AssumedTypes
    <3>4. declared[j] = Declaration(ts[l])
      BY <3>2, <3>3 DEF Declarations
    <3>5. typename(ts[l].name) = typename(ts[i].name)
      BY <2>2, <3>1, <3>4 DEF Declaration
    <3>6. mangle(ts[l].name) = mangle(ts[i].name) /\ Nameable(ts[l].name) /\ Nameable(ts[i].name)
      BY <2>1, <3>3, <3>5, AssumedTypes
    <3> QED
      BY <3>3, <3>6, MangleFacts
  <2>3. ASSUME NEW j \in DOMAIN declared, NEW k \in DOMAIN declared,
               declared[j].name = declared[k].name
        PROVE  j = k
    <3>1. j \in Nat /\ k \in Nat /\ j > 0 /\ k > 0
      <4>1. declared \in Seq(ToSet(Declarations(ts)))
        BY <2>1 DEF TypesFrom, Made
      <4> QED
        BY <4>1
    <3>2. j \in 1 .. (k - 1) \/ k \in 1 .. (j - 1) \/ j = k
      BY <3>1
    <3> QED
      BY <2>2, <2>3, <3>2
  <2>4. ASSUME NEW d \in ToSet(declared)
        PROVE  LET names == d.braces.names
               IN /\ d.name \notin Unusable
                  /\ \A v \in DOMAIN names :
                       /\ names[v] \notin Unusable
                       /\ d.braces.kind = "flags" => names[v] # "none"
                       /\ \A w \in DOMAIN names : names[v] = names[w] => v = w
    <3>1. PICK k \in DOMAIN declared : d = declared[k]
      BY DEF ToSet
    <3>2. PICK i \in DOMAIN ts : declared[k] = Declaration(ts[i])
      BY <2>1, DeclaredTypes
    <3> DEFINE t == ts[i]
    <3>3. /\ Nameable(t.name) /\ typename(t.name) = mangle(t.name)
          /\ \A v \in t.values : Nameable(v)
          /\ t.kind = "flags" => "none" \notin t.values
      BY <2>1, AssumedTypes
    <3>4. /\ d.name = typename(t.name) /\ d.braces.kind = t.kind
          /\ d.braces.names = [v \in t.values |-> mangle(v)]
      BY <3>1, <3>2 DEF Declaration, Enumerators, valname
    <3> HIDE DEF t
    <3>5. d.name \notin Unusable
      BY <3>3, <3>4, MangleFacts
    <3>6. ASSUME NEW v \in t.values
          PROVE  /\ mangle(v) \notin Unusable
                 /\ t.kind = "flags" => mangle(v) # "none"
                 /\ \A w \in t.values : mangle(v) = mangle(w) => v = w
      BY <3>3, MangleFacts
    <3> QED
      BY <3>4, <3>5, <3>6
  <2> QED
    BY <2>3, <2>4 DEF NamesDeclarable
<1> QED
  BY <1>1, TypesFollowTheList, PTL

(* The name that is written for a known type is that of a std type, of one *)
(* of the types, or of a structure in an included header.                  *)
LEMMA KnownNames ==
  ASSUME NEW ts, NEW t, Known(ts, t)
  PROVE  \/ typename(t) \in Included \cup ToSet(std)
         \/ \E j \in DOMAIN ts : ts[j].name \notin skipped /\ typename(t) = typename(ts[j].name)
<1>1. CASE t \in DOMAIN std
  BY <1>1 DEF typename, ToSet
<1>2. CASE t \notin DOMAIN std
  <2>1. PICK j \in DOMAIN ts : ts[j].name = t
    BY <1>2 DEF Known
  <2>2. CASE t \notin skipped
    BY <2>1, <2>2
  <2>3. CASE t \in skipped
    <3>1. t \in cpp_skip /\ t \in Included
      BY <1>2, <2>3 DEF Known, skipped
    <3>2. t \notin DOMAIN mangled
      BY <3>1, MangledNames DEF cpp_skip
    <3> QED
      BY <1>2, <3>1, <3>2 DEF typename, mangle
  <2> QED
    BY <2>2, <2>3
<1> QED
  BY <1>1, <1>2

(* Once the types are declared, all that structures mention are known.     *)
THEOREM MentionedAreDeclared == Generate => []TypesDeclared
<1>1. TypesInv => TypesDeclared
  <2> SUFFICES ASSUME NEW types \in Inputs, StructsFrom(types), TypesFrom(TypesFor(types)),
                      NEW s \in ToSet(out), undeclared = <<>>, declared # <<>>
               PROVE  LET known == {d.name : d \in ToSet(declared)} \cup Included \cup ToSet(std)
                      IN /\ s.name \in known
                         /\ \A x \in PlacesOf(s.members) : typename(x.member.type) \in known
    BY DEF TypesInv, TypesDeclared
  <2> DEFINE ts == TypesFor(types)
             known == {d.name : d \in ToSet(declared)} \cup Included \cup ToSet(std)
  <2>1. ts = TypesFor(types) /\ ts \in Seq(AnyType) /\ TypesFrom(ts)
    BY TypesForType
  <2> HIDE DEF ts
  <2>2. ASSUME NEW t, Known(ts, t)
        PROVE  typename(t) \in known
    <3>1. CASE typename(t) \in Included \cup ToSet(std)
      BY <3>1
    <3>2. ASSUME NEW j \in DOMAIN ts, ts[j].name \notin skipped, typename(t) = typename(ts[j].name)
          PROVE  typename(t) \in known
      <4>1. PICK n \in 0 .. Len(ts) : /\ Left(undeclared, ts, n)
                                      /\ Made(declared, ts, Declarations(ts), n)
        BY <2>1 DEF TypesFrom
      <4>2. n = Len(ts)
        BY <2>1, <4>1 DEF Left
      <4>3. j \in 1 .. n
        BY <2>1, <4>2
      <4>4. PICK k \in DOMAIN declared : declared[k] = Declarations(ts)[j]
        BY <3>2, <4>1, <4>3 DEF Made
      <4>5. declared[k].name = typename(ts[j].name) /\ declared[k] \in ToSet(declared)
        BY <4>4 DEF Declarations, Declaration, ToSet
      <4> QED
        BY <3>2, <4>5
    <3> HIDE DEF known
    <3> QED
      BY <2>2, <3>1, <3>2, KnownNames DEF known
  <2>3. ts # <<>>
    <3>1. PICK k \in DOMAIN declared : TRUE
      <4> DEFINE T == ToSet(Declarations(ts))
      <4>1. declared \in Seq(T)
        BY <2>1 DEF TypesFrom, Made
      <4> HIDE DEF T
      <4>2. Len(declared) \in Nat \ {0} /\ DOMAIN declared = 1 .. Len(declared)
        BY <4>1
      <4>3. 1 \in DOMAIN declared
        BY <4>2
      <4> QED
        BY <4>3
    <3>2. PICK i \in DOMAIN ts : declared[k] = Declaration(ts[i])
      BY <2>1, DeclaredTypes
    <3> QED
      BY <3>2
  <2>4. PICK k \in DOMAIN out : s = out[k]
    BY DEF ToSet
  <2>5. PICK i \in DOMAIN types : /\ types[i].members \in Lists[Nesting]
                                  /\ MadeFrom(out, types, Structs(types), k, i)
                                  /\ out[k] = Written(types[i])
    BY WrittenStructs
  <2> DEFINE ms == types[i].members
  <2>6. types[i].name \notin cpp_skip
    BY <2>5 DEF MadeFrom, skipped
  <2>7. Known(ts, types[i].name) /\ \A y \in PlacesOf(ms) : Known(ts, y.member.type)
    BY <2>1, <2>3, <2>6, TypesAssumption
  <2>8. s.name = typename(types[i].name) /\ Writes(Nesting, ms, {}, s.members)
    BY <2>4, <2>5, WrittenStructure
  <2> HIDE DEF known, ms
  <2>9. s.name \in known
    BY <2>2, <2>7, <2>8
  <2>10. ASSUME NEW x \in PlacesOf(s.members)
         PROVE  typename(x.member.type) \in known
    <3> DEFINE f == x.member.form
               t == x.member.type
    <3>1. Mentions(Nesting, s.members, f, t)
      BY DEF Mentions, PlacesOf
    <3> HIDE DEF f, t
    <3>2. Mentions(Nesting, s.members, f, t) <=> Mentions(Nesting, ms, f, t)
      BY <2>8, WrittenMentions DEF Writes
    <3>3. PICK y \in Places[Nesting][ms] : y.member.type = t
      BY <3>1, <3>2 DEF Mentions
    <3>4. Known(ts, t)
      BY <2>7, <3>3 DEF PlacesOf
    <3> QED
      BY <2>2, <3>4 DEF t
  <2> QED
    BY <2>9, <2>10 DEF known
<1> QED
  BY <1>1, TypesFollowTheList, PTL
=============================================================================
