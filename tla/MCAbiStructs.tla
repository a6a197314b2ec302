---------------------------- MODULE MCAbiStructs ----------------------------
(* The CloudABI types and structures, one by one, and small structures one *)
(* at a time: up to two members, of which the last may be a variant with   *)
(* two alternatives, with names that are types and names that are not; and *)
(* a variant in a variant.                                                 *)
EXTENDS AbiTypes

MCTypes == {"fd", "errno"}
MCNames == {"fd", "error", "x"}

Leaves == {Simple(form, t, n) : form \in {"plain", "pointer"}, t \in MCTypes, n \in MCNames}
          \cup {Range_("fd", "x")}

Distinct(ms) == \A j, k \in DOMAIN ms : j # k => ms[j].name # ms[k].name

Pairs == {ms \in Leaves \X Leaves : Distinct(ms)}

One == {Alternative(n, <<m>>) : n \in {None, "fd", "u"}, m \in Leaves}
Two == {Alternative(n, ms)    : n \in {None, "u"}, ms \in Pairs}

Small ==
  {<<m>> : m \in Leaves} \cup Pairs
    \cup {<<m, Variant(<<a>>)>>    : m \in Leaves, a \in Two}
    \cup {<<m, Variant(<<a, b>>)>> : m \in Leaves, a \in One, b \in One}
    \cup {<<Variant(<<Alternative(n, <<m, Variant(<<a>>)>>)>>)>> :
            n \in {None, "u"}, m \in Leaves, a \in One}

MCInputs == {Abi} \cup {<<Type("small", ms)>> : ms \in Small}

MCTypesFor(structures) == IF structures = Abi THEN AbiTypeList ELSE <<>>
=============================================================================
