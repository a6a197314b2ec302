--------------------------- MODULE TypeGenerator ----------------------------
(***************************************************************************)
(* CppTypeDefsGenerator of generate.py, which writes types.hpp, followed   *)
(* by CppStructDefsGenerator, whose structures use the types declared      *)
(* there.  The main program runs the one after the other on the same       *)
(* definitions.                                                            *)
(*                                                                         *)
(* A type is an alias, an enumeration, a set of flags or a structure.      *)
(* Layout, the values of enumerators and the C names are left out.         *)
(***************************************************************************)
EXTENDS StructGenerator, FiniteSets

CONSTANTS
  TypesFor(_)  \* the list of types that is given with a list of structures

VARIABLES
  undeclared,  \* the types that are still to be declared
  declared     \* the declarations written so far

allvars == <<vars, undeclared, declared>>

Alias(n)     == [name |-> n, kind |-> "alias",  values |-> {}]
Struct(n)    == [name |-> n, kind |-> "struct", values |-> {}]
Enum(n, vs)  == [name |-> n, kind |-> "enum",   values |-> vs]
Flags(n, vs) == [name |-> n, kind |-> "flags",  values |-> vs]

(* Fault: names of values are not mangled.                                 *)
valname_Plain(value) == value

valname(value) == mangle(value)

(* The names that the braces declare, in no order; flags start with none.  *)
Enumerators(type) ==
  [kind |-> type.kind, names |-> [v \in type.values |-> valname(v)]]

(* max() of no values raises: flags without any stop the generator.        *)
Generatable(type) == type.kind = "flags" => type.values # {}

InitGenerate == Init /\ undeclared = TypesFor(todo) /\ declared = <<>>

(* CppTypeDefsGenerator.generate_type                                      *)
declare_type ==
  /\ undeclared # <<>> /\ Head(undeclared).name \notin skipped
  /\ Generatable(Head(undeclared))
  /\ declared' = Append(declared, [name  |-> typename(Head(undeclared).name),
                                   braces |-> Enumerators(Head(undeclared))])
  /\ undeclared' = Tail(undeclared)
  /\ UNCHANGED vars

skip_type ==
  /\ undeclared # <<>> /\ Head(undeclared).name \in skipped
  /\ undeclared' = Tail(undeclared)
  /\ UNCHANGED <<declared, vars>>

write_struct == undeclared = <<>> /\ Next /\ UNCHANGED <<undeclared, declared>>

NextGenerate == declare_type \/ skip_type \/ write_struct

Generate == InitGenerate /\ [][NextGenerate]_allvars

-----------------------------------------------------------------------------
Keywords ==
  {"alignas", "alignof", "and", "and_eq", "asm", "auto", "bitand", "bitor", "bool",
   "break", "case", "catch", "char", "char16_t", "char32_t", "class", "compl", "const",
   "constexpr", "const_cast", "continue", "decltype", "default", "delete", "do", "double",
   "dynamic_cast", "else", "enum", "explicit", "export", "extern", "false", "float", "for",
   "friend", "goto", "if", "inline", "int", "long", "mutable", "namespace", "new",
   "noexcept", "not", "not_eq", "nullptr", "operator", "or", "or_eq", "private",
   "protected", "public", "register", "reinterpret_cast", "return", "short", "signed",
   "sizeof", "static", "static_assert", "static_cast", "struct", "switch", "template",
   "this", "thread_local", "throw", "true", "try", "typedef", "typeid", "typename",
   "union", "unsigned", "using", "virtual", "void", "volatile", "wchar_t", "while",
   "xor", "xor_eq"}

(* errno is a macro, and 2big, of all names CloudABI has, no identifier.   *)
Unusable == Keywords \cup {"errno", "2big"}

(* What a name of CloudABI may be: if it cannot be used, it is one that is *)
(* mangled, and it is nothing that a name is mangled to.                   *)
Nameable(n) == n \in DOMAIN mangled \/ n \notin Unusable \cup ToSet(mangled)

(* Is t a type to structures, if the types are ts?                         *)
Known(ts, t) ==
  \/ t \in DOMAIN std
  \/ (\E j \in DOMAIN ts : ts[j].name = t) /\ (t \in cpp_skip => t \in Included)

(* CloudABI: the types have different names, none of them a std type's,    *)
(* and no flag is called none; all types that structures mention are among *)
(* them.                                                                   *)
ASSUME TypesAssumption ==
  \A structures \in Inputs :
    LET ts == TypesFor(structures)
    IN /\ ts \in Seq([name : STRING, kind : {"alias", "struct", "enum", "flags"},
                      values : SUBSET STRING])
       /\ \A j \in DOMAIN ts :
            /\ Nameable(ts[j].name) /\ ts[j].name \notin DOMAIN std \cup ToSet(std)
            /\ \A v \in ts[j].values : Nameable(v)
            /\ ts[j].kind = "flags" => "none" \notin ts[j].values
            /\ \A k \in 1..(j - 1) : ts[k].name # ts[j].name
       /\ ts # <<>> => \A k \in DOMAIN structures :
            LET s == structures[k]
            IN s.name \notin cpp_skip =>
                 Known(ts, s.name) /\ \A x \in PlacesOf(s.members) : Known(ts, x.member.type)

(* Every name that types.hpp declares can be declared in C++, and means    *)
(* one thing: types have different names, and so have the enumerators of   *)
(* a type, none among them for flags.                                      *)
NamesDeclarable ==
  /\ \A j, k \in DOMAIN declared : declared[j].name = declared[k].name => j = k
  /\ \A d \in ToSet(declared) :
       LET names == d.braces.names
       IN /\ d.name \notin Unusable
          /\ \A v \in DOMAIN names :
               /\ names[v] \notin Unusable
               /\ d.braces.kind = "flags" => names[v] # "none"
               /\ \A w \in DOMAIN names : names[v] = names[w] => v = w

(* Whatever type a structure of structs.hpp mentions is one of the std     *)
(* types, is declared in types.hpp, or is skipped there and defined in a   *)
(* header that structs.hpp includes; and so are the structures themselves. *)
TypesDeclared ==
  LET known == {d.name : d \in ToSet(declared)} \cup Included \cup ToSet(std)
  IN \A s \in ToSet(out) : undeclared = <<>> /\ declared # <<>> =>
       /\ s.name \in known
       /\ \A x \in PlacesOf(s.members) : typename(x.member.type) \in known
=============================================================================
