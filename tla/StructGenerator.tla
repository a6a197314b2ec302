-------------------------- MODULE StructGenerator --------------------------
(***************************************************************************)
(* CppStructDefsGenerator of generate.py, which writes structs.hpp from    *)
(* the CloudABI definitions: one C++ structure for each structure type,    *)
(* and static assertions that it is laid out as the C one.                 *)
(*                                                                         *)
(* A member is simple (a type and a name), a range (which the C structure  *)
(* has as a pointer and a length), or a variant: a union without a name of *)
(* alternatives, each with members of its own and perhaps a name.  In C++  *)
(* a member's name hides a type of that name from its declaration on, in   *)
(* its own structure and in those nested in it, and what an unnamed union  *)
(* declares is declared in the structure around it.  The generator writes  *)
(* cloudabi:: before a type that would be hidden.                          *)
(*                                                                         *)
(* The text is abstracted to the tree of members; cloudabi.generator, the  *)
(* parser and base class it uses, is not part of the repository.           *)
(***************************************************************************)
EXTENDS Naturals, Sequences, SequencesExt

CONSTANTS
  Inputs,     \* the lists of types that it may be given
  Nesting,    \* how deep variants nest in their members, at most
  Structures, \* the names of all structure types
  Included,   \* those that the headers included by structs.hpp define
  None        \* the name of a variant, or of an alternative without a name

VARIABLES
  todo,       \* the types that are still to be generated
  out         \* the structures written so far

vars == <<todo, out>>

ASSUME NestingAssumption == Nesting \in Nat /\ None \notin STRING

cpp_skip == {"auxtype", "auxv", "ciovec", "dircookie", "dirent", "fd", "lookup",
             "iovec", "tcb", "threadattr"}

(* Fault: a structure others contain is skipped.                           *)
skipped_Sockaddr == cpp_skip \cup {"sockaddr"}

skipped == cpp_skip

-----------------------------------------------------------------------------
(* CppNaming.  One name of CloudABI, 2big, is no identifier.              *)

mangled == [name \in {"private", "int", "delete", "errno", "2big"} |->
  CASE name = "private" -> "private_"
    [] name = "int"     -> "int_"
    [] name = "delete"  -> "delete_"
    [] name = "errno"   -> "error"
    [] name = "2big"    -> "_2big"]
std == [char |-> "char", size |-> "std::size_t",
        uint8 |-> "std::uint8_t", uint16 |-> "std::uint16_t"]

mangle(name) == IF name \in DOMAIN mangled THEN mangled[name] ELSE name
typename(t)  == IF t \in DOMAIN std THEN std[t] ELSE mangle(t)

-----------------------------------------------------------------------------
(* Members.  The form of a member is that of its type if it is simple:     *)
(* "plain" for a type with a name, "array", or "pointer" to a type with a  *)
(* name; only the first has the name that the generator looks up.          *)

Simple(form, t, n) == [form |-> form, type |-> t, name |-> n, qualified |-> FALSE]
Range_(t, n)       == Simple("range", t, n)
Variant(alternatives) == [form |-> "variant", name |-> None, members |-> alternatives]
Alternative(n, ms)    == [name |-> n, type |-> ms]

IsVariant(m) == m.form = "variant"

Leaf == [form : {"plain", "array", "pointer", "range"}, type : STRING, name : STRING,
         qualified : BOOLEAN]
Alternatives(L) == [name : STRING \cup {None}, type : L]
Variants(L) == [form : {"variant"}, name : {None}, members : Seq(Alternatives(L))]

(* The lists of members, as read or as written, by the nesting of variants.*)
Lists[d \in Nat] == Seq(Leaf \cup IF d = 0 THEN {} ELSE Variants(Lists[d - 1]))

NamesBefore(ms, k) == {ms[j].name : j \in 1..k} \ {None}

(* Fault: nested structures get the reserved names of their parent.        *)
InAlternatives_Inherit(ms, k, reserved_names) == reserved_names

(* What is reserved in the alternatives of a variant: the names of members *)
(* that come before it.                                                    *)
InAlternatives(ms, k, reserved_names) == NamesBefore(ms, k)

(* Fault: the names of the structure itself are reserved as well.          *)
ForMember_Own(ms, k, reserved_names) == reserved_names \cup NamesBefore(ms, k)

ForMember(ms, k, reserved_names) == reserved_names

(* Member k as written, if inner writes the members of alternatives: a     *)
(* type is qualified if its name, as CloudABI has it, is reserved.         *)
Member(ms, k, reserved_names, inner) ==
  IF IsVariant(ms[k])
  THEN LET xs == ms[k].members
       IN Variant([i \in DOMAIN xs |->
            Alternative(xs[i].name, inner[xs[i].type][InAlternatives(ms, k, reserved_names)])])
  ELSE [ms[k] EXCEPT !.qualified =
          ms[k].form = "plain" /\ ms[k].type \in ForMember(ms, k, reserved_names)]

Members[d \in Nat] ==
  [ms \in Lists[d] |-> [reserved_names \in SUBSET STRING |->
     [k \in DOMAIN ms |-> Member(ms, k, reserved_names, Members[d - 1])]]]

generate_struct_members(ms, reserved_names) == Members[Nesting][ms][reserved_names]

(* Fault: the path of a named alternative is left out.                     *)
PathOf_None(x) == <<>>

(* A path starts anew at an alternative.                                   *)
PathOf(x) == IF x.name = None THEN <<>> ELSE <<x.name>>

(* The paths to what is asserted of member m, if inner has those of        *)
(* alternatives.  Of a range, which is two fields in C, it is the first.   *)
AssertsOf(m, path, inner) ==
  IF IsVariant(m) THEN UNION {inner[x.type][PathOf(x)] : x \in ToSet(m.members)}
                  ELSE {Append(path, m.name)}

Asserts[d \in Nat] ==
  [ms \in Lists[d] |-> [path \in Seq(STRING) |->
     UNION {AssertsOf(m, path, Asserts[d - 1]) : m \in ToSet(ms)}]]

generate_struct_member_asserts(ms, path) == Asserts[Nesting][ms][path]

-----------------------------------------------------------------------------
Init == todo \in Inputs /\ out = <<>>

(* What is written for type t.                                             *)
Written(t) == [name    |-> typename(t.name),
               of      |-> t,
               members |-> generate_struct_members(t.members, {}),
               asserts |-> generate_struct_member_asserts(t.members, <<>>)]

generate_type ==
  /\ todo # <<>>
  /\ Head(todo).name \notin skipped
  /\ out' = Append(out, Written(Head(todo)))
  /\ todo' = Tail(todo)

skip ==
  /\ todo # <<>>
  /\ Head(todo).name \in skipped
  /\ todo' = Tail(todo)
  /\ UNCHANGED out

Next == generate_type \/ skip

Spec == Init /\ [][Next]_vars

-----------------------------------------------------------------------------
(* The reference: C++ scopes and paths.  A place is a member that is not a *)
(* variant, the path to it, and the names declared before it in scopes     *)
(* around it.  What a list of members declares are the first names of the  *)
(* paths into it.                                                          *)

Declared(X) == {Head(x.path) : x \in X}

(* The places of things that are declared one after the other.             *)
InOrder(s) ==
  UNION {{[x EXCEPT !.scope = @ \cup UNION {Declared(s[j]) : j \in 1..(k - 1)}] : x \in s[k]}
         : k \in DOMAIN s}

(* The places of X in a structure with name n, or without.                 *)
Inside(n, X) == {[x EXCEPT !.path = IF n = None THEN @ ELSE <<n>> \o @] : x \in X}

PlacesIn(m, inner) ==
  IF IsVariant(m)
  THEN InOrder([i \in DOMAIN m.members |-> Inside(m.members[i].name, inner[m.members[i].type])])
  ELSE {[path |-> <<m.name>>, member |-> m, scope |-> {}]}

Places[d \in Nat] ==
  [ms \in Lists[d] |-> InOrder([k \in DOMAIN ms |-> PlacesIn(ms[k], Places[d - 1])])]

PlacesOf(ms) == Places[Nesting][ms]

(* The structures that the generator can write, and CloudABI has: there is *)
(* a variant at the end only, and none inside of it; no member is called   *)
(* like the type of another at its level; no alternative, and no member of *)
(* one without a name, is called like a type in a later alternative; and a *)
(* type in an alternative that is called like a member next to the variant *)
(* is plain, and called the same in CloudABI.                              *)
Hides(ms) == \E j, k \in {i \in DOMAIN ms : ~IsVariant(ms[i])} :
               j # k /\ ms[j].name = typename(ms[k].type)

(* The names that alternative x declares in the structure around it.       *)
Names(x) == IF x.name = None THEN {m.name : m \in ToSet(x.type)} ELSE {x.name}

Writable(ms) ==
  /\ ~Hides(ms)
  /\ \A k \in DOMAIN ms : IsVariant(ms[k]) =>
       LET xs == ms[k].members
       IN /\ k = Len(ms)
          /\ \A i \in DOMAIN xs :
               /\ ~Hides(xs[i].type)
               /\ \A m \in ToSet(xs[i].type) :
                    /\ ~IsVariant(m)
                    /\ typename(m.type) \in NamesBefore(ms, k) =>
                         m.form = "plain" /\ typename(m.type) = m.type
                    /\ \A j \in 1..(i - 1) : typename(m.type) \notin Names(xs[j])

(* A structure can contain another, or an array of it, only once it is     *)
(* defined.                                                                *)
Embeds(ms, t) ==
  \E x \in PlacesOf(ms) : x.member.form \in {"plain", "array"} /\ x.member.type = t

(* CloudABI lists a structure after those that it contains, and of those   *)
(* that are skipped it contains such as are defined in other headers.      *)
ASSUME InputsAssumption ==
  \A types \in Inputs :
    /\ types \in Seq([name : STRING, members : Lists[Nesting]])
    /\ \A k \in DOMAIN types : \A t \in Structures : Embeds(types[k].members, t) =>
         IF t \in cpp_skip THEN t \in Included ELSE \E j \in 1..(k - 1) : types[j].name = t

-----------------------------------------------------------------------------
(* In what is written for such a structure every type is found: it is not  *)
(* hidden by a member with its name, in the structure or around it.        *)
NamesResolve ==
  \A s \in ToSet(out) : Writable(s.of.members) =>
    \A x \in PlacesOf(s.members) : x.member.qualified \/ typename(x.member.type) \notin x.scope

(* The offsets of all its members are asserted, under the paths by which   *)
(* C++ and C reach them, and of nothing else.                              *)
AssertsCoverMembers ==
  \A s \in ToSet(out) : Writable(s.of.members) =>
    s.asserts = {x.path : x \in PlacesOf(s.members)}

(* A structure that contains another, or an array of it, follows it.       *)
DefinedBeforeUse ==
  \A k \in DOMAIN out : \A t \in Structures : Embeds(out[k].members, t) =>
    t \in Included \/ \E j \in 1..(k - 1) : out[j].of.name = t
=============================================================================
