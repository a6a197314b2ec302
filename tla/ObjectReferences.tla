------------------------- MODULE ObjectReferences --------------------------
(***************************************************************************)
(* What the wrappers for descriptors promise: a variable that holds a      *)
(* descriptor is a reference to an object, as if there were no numbers.    *)
(* It refers to the same object until its own thread gives it up or hands  *)
(* it on, until someone replaces what it refers to, or until its process   *)
(* ends; no close, reuse of a number, fork or exec elsewhere changes it.   *)
(*                                                                         *)
(* A call that returns references leaves them with its thread, in Result,  *)
(* from where they are returned to variables of the caller or dropped.     *)
(***************************************************************************)
EXTENDS Functions

CONSTANTS
  Proc, Thread, Object,
  NoObject,    \* what a variable without a descriptor refers to
  Result,      \* where a call in progress has its results
  Unique, Raw  \* the variables of a thread: owned, and closed by hand

VARIABLE refs  \* refs[p][t][v]: what variable v of thread t refers to

Named == Unique \cup Raw
Var   == Result \cup Named

Nothing == [t \in Thread |-> [v \in Var |-> NoObject]]

Referents(p) == {refs[p][t][v] : t \in Thread, v \in Named} \ {NoObject}
Unreferenced ==
  Object \ UNION {{refs[p][t][v] : t \in Thread, v \in Var} : p \in Proc}

(* An image whose thread t has been given obj[r] in r for each r of Raw.   *)
Image(t, obj) ==
  [Nothing EXCEPT ![t] = [v \in Var |-> IF v \in Raw THEN obj[v] ELSE NoObject]]

Init ==
  \E p \in Proc, t \in Thread, obj \in [Raw -> Object \cup {NoObject}] :
    refs = [[q \in Proc |-> Nothing] EXCEPT ![p] = Image(t, obj)]

(* A call results in a reference to an object that nobody refers to yet,   *)
(* or, if it duplicates one, to what a variable refers to.                 *)
Obtain(p, t, r) ==
  /\ refs[p][t][r] = NoObject
  /\ \E o \in Unreferenced \cup Referents(p) : refs' = [refs EXCEPT ![p][t][r] = o]

(* All results of a call are returned, to variables that refer to nothing. *)
Results(p, t) == {r \in Result : refs[p][t][r] # NoObject}
Vacant(p, t)  == {u \in Unique : refs[p][t][u] = NoObject}

Returned(p, t, to, v) ==
  IF v \in Result THEN NoObject
  ELSE IF \E r \in DOMAIN to : to[r] = v
       THEN refs[p][t][CHOOSE r \in DOMAIN to : to[r] = v] ELSE refs[p][t][v]

Return(p, t) ==
  \E to \in Injection(Results(p, t), Vacant(p, t)) :
    refs' = [refs EXCEPT ![p][t] = [v \in Var |-> Returned(p, t, to, v)]]

(* A thread gives up what the variables vs refer to.                       *)
Drop(p, t, vs) ==
  refs' = [refs EXCEPT ![p][t] = [v \in Var |-> IF v \in vs THEN NoObject ELSE refs[p][t][v]]]

(* A thread hands a reference on, to a variable of any thread.             *)
Move(p, t, u, s, w) ==
  /\ refs[p][t][u] # NoObject /\ refs[p][s][w] = NoObject
  /\ refs' = [refs EXCEPT ![p][t][u] = NoObject, ![p][s][w] = refs[p][t][u]]

(* Any thread may have a variable refer to what another refers to.         *)
Replace(p, t, v) ==
  /\ refs[p][t][v] # NoObject
  /\ \E o \in Referents(p) : refs' = [refs EXCEPT ![p][t][v] = o]

(* A child has the references of the forking thread, and that one a        *)
(* reference to the child.                                                 *)
Fork(p, t, q, r) ==
  /\ refs[q] = Nothing /\ refs[p][t][r] = NoObject
  /\ \E o \in Unreferenced :
       refs' = [refs EXCEPT ![q] = [Nothing EXCEPT ![t] = refs[p][t]], ![p][t][r] = o]

(* A new image is given some of the references.                            *)
Exec(p, t) ==
  \E obj \in [Raw -> Referents(p) \cup {NoObject}] :
    refs' = [refs EXCEPT ![p] = Image(t, obj)]

Exit(p) == refs' = [refs EXCEPT ![p] = Nothing]

Step(p, t) ==
  \/ Exec(p, t) \/ Return(p, t) \/ Drop(p, t, Result)
  \/ \E v \in Named : Drop(p, t, {v}) \/ Replace(p, t, v)
  \/ \E u, w \in Unique, s \in Thread : Move(p, t, u, s, w)
  \/ \E r \in Result : Obtain(p, t, r) \/ \E q \in Proc : Fork(p, t, q, r)

Next == \E p \in Proc : Exit(p) \/ \E t \in Thread : Step(p, t)

Spec == Init /\ [][Next]_refs
=============================================================================
