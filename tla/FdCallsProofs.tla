--------------------------- MODULE FdCallsProofs ---------------------------
(***************************************************************************)
(* Proofs about FdCalls, from those about FdOwnership.                     *)
(*                                                                         *)
(* A call changes no table and no variable, so that the invariants of      *)
(* ownership hold.  What a call was given and kept is still the content of *)
(* a named variable (Sound), though perhaps not of the variable it was     *)
(* copied from: no step takes a descriptor from the named variables of a   *)
(* process but by closing or replacing its number or by ending the image,  *)
(* and these are the steps that make arguments lapse.  By the invariant of *)
(* ownership the number of a variable leads to the object it was obtained  *)
(* for.                                                                    *)
(***************************************************************************)
EXTENDS FdCalls, FdOwnershipProofs

-----------------------------------------------------------------------------
(* What becomes of the descriptors in named variables.                     *)

(* A step that leaves alone each named variable that holds something.      *)
NamedLeftAlone ==
  \A q \in Proc, s \in Thread, v \in Named :
    handle[q][s][v] # Empty => handle'[q][s][v] = handle[q][s][v]

LEMMA LeftAloneKeeps ==
  ASSUME NamedLeftAlone, NEW q \in Proc
  PROVE  Usable(q) \subseteq Usable(q)'
<1> SUFFICES ASSUME NEW s \in Thread, NEW v \in Named, handle[q][s][v] # Empty
             PROVE  handle[q][s][v] \in Usable(q)'
  BY DEF Usable
<1>1. handle'[q][s][v] = handle[q][s][v]
  BY DEF NamedLeftAlone
<1>2. QED
  BY <1>1 DEF Usable

(* The wrappers that open a descriptor write to their local a.             *)
LEMMA AllocateLeavesAlone ==
  ASSUME IInv, NEW p \in Proc, NEW t \in Thread, NEW c, NEW o, NEW m,
         Allocate(p, t, c, o, m)
  PROVE  NamedLeftAlone
<1>1. PICK n \in Free(p) :
        handle' = [handle EXCEPT ![p][t]["a"] = [fd |-> n, obj |-> m]]
  BY DEF Allocate
<1>2. QED
  BY <1>1, VarFacts DEF NamedLeftAlone, IInv, Shape, Memories

LEMMA Create2LeavesAlone ==
  ASSUME IInv, NEW p \in Proc, NEW t \in Thread, create2(p, t)
  PROVE  NamedLeftAlone
<1>1. PICK n1 \in Free(p), n2 \in Free(p), o1 \in Fresh, o2 \in Fresh :
        /\ n1 # n2 /\ o1 # o2
        /\ table' = [table EXCEPT ![p][n1] = o1, ![p][n2] = o2]
        /\ \E ab \in Create2Locals([fd |-> n1, obj |-> o1], [fd |-> n2, obj |-> o2]) :
             handle' = [handle EXCEPT ![p][t]["a"] = ab[1], ![p][t]["b"] = ab[2]]
  BY DEF create2
<1>2. PICK ab \in Create2Locals([fd |-> n1, obj |-> o1], [fd |-> n2, obj |-> o2]) :
        handle' = [handle EXCEPT ![p][t]["a"] = ab[1], ![p][t]["b"] = ab[2]]
  BY <1>1
<1> DEFINE h == [handle EXCEPT ![p][t]["a"] = ab[1]]
<1>3. /\ DOMAIN h = Proc
      /\ \A q \in Proc : DOMAIN h[q] = Thread
      /\ \A q \in Proc, s \in Thread : DOMAIN h[q][s] = Var
      /\ \A q \in Proc, s \in Thread, v \in Named : h[q][s][v] = handle[q][s][v]
  BY VarFacts DEF IInv, Shape, Memories
<1>4. handle' = [h EXCEPT ![p][t]["b"] = ab[2]]
  BY <1>2
<1> HIDE DEF h
<1>5. \A q \in Proc, s \in Thread, v \in Named : handle'[q][s][v] = h[q][s][v]
  BY <1>3, <1>4, VarFacts
<1>6. QED
  BY <1>3, <1>5 DEF NamedLeftAlone

(* A return fills variables that were empty.                               *)
LEMMA ReturnOneLeavesAlone ==
  ASSUME IInv, NEW p \in Proc, NEW t \in Thread, NEW u \in Unique, ReturnOne(p, t, u)
  PROVE  NamedLeftAlone
<1>1. /\ handle[p][t][u] = Empty
      /\ handle' = [handle EXCEPT ![p][t]["a"] = Empty, ![p][t][u] = handle[p][t]["a"]]
  BY DEF ReturnOne
<1>2. QED
  BY <1>1, VarFacts DEF NamedLeftAlone, IInv, Shape, Memories

LEMMA ReturnTwoLeavesAlone ==
  ASSUME IInv, NEW p \in Proc, NEW t \in Thread, NEW u \in Unique, NEW w \in Unique,
         ReturnTwo(p, t, u, w)
  PROVE  NamedLeftAlone
<1>1. handle[p][t][u] = Empty /\ handle[p][t][w] = Empty
  BY DEF ReturnTwo
<1>2. handle \in [Proc -> Memories]
  BY DEF IInv, Shape
<1>3. \A q \in Proc, s \in Thread, v \in Var :
        handle'[q][s][v] = IF q # p \/ s # t THEN handle[q][s][v]
                           ELSE IF v \in {"a", "b"} THEN Empty
                           ELSE IF v = u THEN handle[p][t]["a"]
                           ELSE IF v = w THEN handle[p][t]["b"] ELSE handle[q][s][v]
  BY <1>2, ReturnTwoMemory
<1>4. QED
  BY <1>1, <1>3, VarFacts DEF NamedLeftAlone

(* Dropping a result empties locals.                                       *)
LEMMA DiscardLeavesAlone ==
  ASSUME IInv, NEW p \in Proc, NEW t \in Thread, Discard(p, t)
  PROVE  NamedLeftAlone
BY VarFacts DEF Discard, NamedLeftAlone, IInv, Shape, Memories

(* A fork writes to the parent's a, and to the memory of a process that    *)
(* was not running.                                                        *)
LEMMA ForkLeavesAlone ==
  ASSUME IInv, NEW p \in Proc, NEW t \in Thread, NEW r \in Proc, proc_fork(p, t, r)
  PROVE  NamedLeftAlone
<1>1. r # p /\ handle[r] = NoHandles
  BY DEF proc_fork, Idle, IInv, ProcInv
<1>2. PICK n \in Free(p), o \in Fresh :
        handle' = [handle EXCEPT ![r] = ChildMemory(p, t),
                                 ![p][t]["a"] = [fd |-> n, obj |-> o]]
  BY DEF proc_fork
<1>3. \A s \in Thread, v \in Named : handle[r][s][v] = Empty
  BY <1>1, VarFacts DEF NoHandles
<1>4. \A q \in Proc \ {r}, s \in Thread, v \in Named :
        handle'[q][s][v] = handle[q][s][v]
  BY <1>1, <1>2, VarFacts DEF IInv, Shape, Memories
<1>5. QED
  BY <1>3, <1>4 DEF NamedLeftAlone

(* A move takes a descriptor from one named variable to another.           *)
LEMMA MoveKeeps ==
  ASSUME IInv, NEW p \in Proc, NEW t \in Thread, NEW u \in Unique,
         NEW s \in Thread, NEW w \in Unique, Move(p, t, u, s, w), NEW q \in Proc
  PROVE  Usable(q) \subseteq Usable(q)'
<1>1. /\ handle[p][t][u] # Empty /\ handle[p][s][w] = Empty
      /\ handle' = [handle EXCEPT ![p][t][u] = Empty, ![p][s][w] = handle[p][t][u]]
  BY DEF Move
<1>2. u \in Var /\ w \in Var /\ u \in Named /\ w \in Named
  BY VarFacts
<1>3. \A o \in Proc, r \in Thread, v \in Var :
        handle'[o][r][v] = IF o = p /\ r = s /\ v = w THEN handle[p][t][u]
                           ELSE IF o = p /\ r = t /\ v = u THEN Empty
                           ELSE handle[o][r][v]
  BY <1>1, <1>2 DEF IInv, Shape, Memories
<1> SUFFICES ASSUME NEW r \in Thread, NEW v \in Named, handle[q][r][v] # Empty
             PROVE  handle[q][r][v] \in Usable(q)'
  BY DEF Usable
<1>4. CASE q = p /\ r = t /\ v = u
  <2>1. handle'[q][s][w] = handle[q][r][v]
    BY <1>2, <1>3, <1>4
  <2>2. QED
    BY <1>2, <2>1 DEF Usable
<1>5. CASE ~(q = p /\ r = t /\ v = u)
  <2>1. v \in Var /\ ~(q = p /\ r = s /\ v = w)
    BY <1>1, VarFacts
  <2>2. handle'[q][r][v] = handle[q][r][v]
    BY <1>3, <1>5, <2>1
  <2>3. QED
    BY <2>2 DEF Usable
<1>6. QED
  BY <1>4, <1>5

(* No step but a close, a replace, an exec and an exit takes a descriptor  *)
(* from the named variables of a process.                                  *)
LEMMA KeepingKeeps ==
  ASSUME IInv, NEW p \in Proc, NEW t \in Thread, Keeping(p, t), NEW q \in Proc
  PROVE  Usable(q) \subseteq Usable(q)'
<1>1. CASE Fail(p, t) \/ ReturnError(p, t)
  BY <1>1 DEF Fail, ReturnError, Usable
<1>2. CASE create1(p, t)
  BY <1>2, AllocateLeavesAlone, LeftAloneKeeps DEF create1
<1>3. CASE create2(p, t)
  BY <1>3, Create2LeavesAlone, LeftAloneKeeps
<1>4. CASE \E x \in Usable(p) : dup(p, t, x) \/ file_open(p, t, x) \/ sock_accept(p, t, x)
  BY <1>4, AllocateLeavesAlone, LeftAloneKeeps DEF dup, file_open, sock_accept
<1>5. CASE \E u \in Unique : ReturnOne(p, t, u)
  BY <1>5, ReturnOneLeavesAlone, LeftAloneKeeps
<1>6. CASE \E u, w \in Unique : ReturnTwo(p, t, u, w)
  BY <1>6, ReturnTwoLeavesAlone, LeftAloneKeeps
<1>7. CASE Discard(p, t)
  BY <1>7, DiscardLeavesAlone, LeftAloneKeeps
<1>8. CASE \E u, w \in Unique, s \in Thread : Move(p, t, u, s, w)
  BY <1>8, MoveKeeps
<1>9. CASE \E r \in Proc : proc_fork(p, t, r)
  BY <1>9, ForkLeavesAlone, LeftAloneKeeps
<1>10. QED
  BY <1>1, <1>2, <1>3, <1>4, <1>5, <1>6, <1>7, <1>8, <1>9 DEF Keeping

(* Closing a variable takes its own descriptor only.                       *)
LEMMA CloseVarTakes ==
  ASSUME IInv, NEW p \in Proc, NEW t \in Thread, NEW v \in Named, CloseVar(p, t, v),
         NEW q \in Proc, NEW x \in Usable(q), q # p \/ x.fd # handle[p][t][v].fd
  PROVE  x \in Usable(q)'
<1>1. handle' = [handle EXCEPT ![p][t][v] = Empty] /\ v \in Var
  BY VarFacts DEF CloseVar
<1>2. PICK s \in Thread, w \in Named : x = handle[q][s][w] /\ x # Empty
  BY DEF Usable
<1>3. ~(q = p /\ s = t /\ w = v)
  BY <1>2
<1>4. handle'[q][s][w] = x
  BY <1>1, <1>2, <1>3, VarFacts DEF IInv, Shape, Memories
<1>5. QED
  BY <1>2, <1>4 DEF Usable

(* A replace rewrites the variables that hold its target only.             *)
LEMMA ReplaceTakes ==
  ASSUME IInv, NEW p \in Proc, NEW t \in Thread, NEW x \in Usable(p), NEW y \in Usable(p),
         replace(p, t, x, y),
         NEW q \in Proc, NEW z \in Usable(q), q # p \/ z.fd # x.fd
  PROVE  z \in Usable(q)'
<1>1. handle' = [handle EXCEPT ![p] =
        [s \in Thread |-> [v \in Var |->
           IF handle[p][s][v].fd = x.fd THEN [fd |-> x.fd, obj |-> y.obj]
                                        ELSE handle[p][s][v]]]]
  BY DEF replace
<1>2. PICK s \in Thread, w \in Named : z = handle[q][s][w] /\ z # Empty
  BY DEF Usable
<1>3. handle'[q][s][w] = z
  BY <1>1, <1>2, VarFacts DEF IInv, Shape, Memories
<1>4. QED
  BY <1>2, <1>3 DEF Usable

(* The end of an image concerns one process.                               *)
LEMMA EndTakes ==
  ASSUME IInv, NEW p \in Proc, NEW t \in Thread, Exec(p, t) \/ proc_exit(p, t),
         NEW q \in Proc, q # p
  PROVE  Usable(q) \subseteq Usable(q)'
<1>1. handle'[q] = handle[q]
  BY DEF Exec, proc_exec, proc_exit, IInv, Shape
<1>2. QED
  BY <1>1 DEF Usable

-----------------------------------------------------------------------------
(* The invariant of the calls in progress.                                 *)

(* An argument that was kept is what some named variable holds.            *)
Sound(p, a) == a.kept => [fd |-> a.fd, obj |-> a.obj] \in Usable(p)

CallOK(p, c) ==
  /\ c.room \in Nat
  /\ \A i \in DOMAIN c.args : Sound(p, c.args[i])

PendingOK ==
  /\ DOMAIN pending = Proc
  /\ \A p \in Proc : DOMAIN pending[p] = Thread
  /\ \A p \in Proc, t \in Thread : CallOK(p, pending[p][t])

Outcome == ActsOnWhatWasMeant /\ EventsFit

FInv == IInv /\ PendingOK /\ Outcome

LEMMA NothingIsOK == ASSUME NEW p PROVE CallOK(p, NotCalling)
BY DEF CallOK, NotCalling

LEMMA NothingHappened == ASSUME last' = Nothing PROVE Outcome'
BY DEF Nothing, Outcome, ActsOnWhatWasMeant, EventsFit

(* The calls stay as they are, and no descriptor is taken away.            *)
LEMMA SamePending ==
  ASSUME PendingOK, UNCHANGED pending,
         \A q \in Proc : Usable(q) \subseteq Usable(q)'
  PROVE  PendingOK'
BY DEF PendingOK, CallOK, Sound

(* Number n of p is taken from the variables, and lapses.                  *)
LEMMA LapsedPending ==
  ASSUME PendingOK, NEW p \in Proc, NEW n, pending' = Lapsed(p, n),
         \A q \in Proc : \A x \in Usable(q) : q # p \/ x.fd # n => x \in Usable(q)'
  PROVE  PendingOK'
<1>1. DOMAIN pending' = Proc /\ \A q \in Proc : DOMAIN pending'[q] = Thread
  BY DEF PendingOK, Lapsed
<1>2. ASSUME NEW q \in Proc, NEW t \in Thread, q # p
      PROVE  CallOK(q, pending[q][t])'
  <2>1. pending'[q][t] = pending[q][t] /\ CallOK(q, pending[q][t])
    BY <1>2 DEF PendingOK, Lapsed
  <2>2. QED
    BY <1>2, <2>1 DEF CallOK, Sound
<1>3. ASSUME NEW t \in Thread
      PROVE  CallOK(p, pending[p][t])'
  <2> DEFINE c == pending[p][t]
  <2>1. /\ pending'[p][t].room = c.room
        /\ pending'[p][t].args = LapsedArgs(c.args, n)
    BY DEF PendingOK, Lapsed
  <2>2. c.room \in Nat /\ \A i \in DOMAIN c.args : Sound(p, c.args[i])
    BY DEF PendingOK, CallOK
  <2> HIDE DEF c
  <2>3. ASSUME NEW i \in DOMAIN pending'[p][t].args
        PROVE  Sound(p, pending[p][t].args[i])'
    <3> DEFINE a == c.args[i]
               b == pending'[p][t].args[i]
    <3>1. i \in DOMAIN c.args /\ b.fd = a.fd /\ b.obj = a.obj
          /\ b.kept = (a.kept /\ a.fd # n)
      BY <2>1, <2>3 DEF LapsedArgs
    <3>2. Sound(p, a)
      BY <2>2, <3>1
    <3> HIDE DEF a, b
    <3>3. ASSUME b.kept PROVE [fd |-> b.fd, obj |-> b.obj] \in Usable(p)'
      <4>1. a.kept /\ a.fd # n
        BY <3>1, <3>3
      <4>2. [fd |-> a.fd, obj |-> a.obj] \in Usable(p)
        BY <3>2, <4>1 DEF Sound
      <4>3. [fd |-> a.fd, obj |-> a.obj].fd # n
        BY <4>1
      <4>4. [fd |-> a.fd, obj |-> a.obj] \in Usable(p)'
        BY <4>2, <4>3
      <4>5. QED
        BY <3>1, <4>4
    <3>4. QED
      BY <3>3 DEF Sound, b
  <2>4. QED
    BY <2>1, <2>2, <2>3 DEF CallOK
<1>4. QED
  BY <1>1, <1>2, <1>3 DEF PendingOK

(* One thread's call begins or ends.                                       *)
LEMMA PutPending ==
  ASSUME PendingOK, UNCHANGED vars, NEW p \in Proc, NEW t \in Thread, NEW c, CallOK(p, c),
         pending' = [pending EXCEPT ![p][t] = c]
  PROVE  PendingOK'
<1>1. DOMAIN pending' = Proc /\ \A q \in Proc : DOMAIN pending'[q] = Thread
  BY DEF PendingOK
<1>2. \A q \in Proc, s \in Thread :
        pending'[q][s] = IF q = p /\ s = t THEN c ELSE pending[q][s]
  BY DEF PendingOK
<1>3. \A q \in Proc : Usable(q)' = Usable(q)
  BY DEF vars, Usable
<1>4. \A q \in Proc, s \in Thread : CallOK(q, pending'[q][s])
  BY <1>2 DEF PendingOK
<1>5. \A q \in Proc, s \in Thread : CallOK(q, pending[q][s])'
  BY <1>3, <1>4 DEF CallOK, Sound
<1>6. QED
  BY <1>1, <1>5 DEF PendingOK

(* An image ends.                                                          *)
LEMMA EndedPending ==
  ASSUME PendingOK, NEW p \in Proc, Ended(p),
         \A q \in Proc \ {p} : Usable(q) \subseteq Usable(q)'
  PROVE  PendingOK'
<1>1. DOMAIN pending' = Proc /\ \A q \in Proc : DOMAIN pending'[q] = Thread
  BY DEF PendingOK, Ended, NoneCalls
<1>2. \A t \in Thread : pending'[p][t] = NotCalling
  BY DEF PendingOK, Ended, NoneCalls
<1>3. \A q \in Proc \ {p}, t \in Thread : pending'[q][t] = pending[q][t]
  BY DEF PendingOK, Ended
<1>4. \A t \in Thread : CallOK(p, pending[p][t])'
  BY <1>2 DEF CallOK, NotCalling
<1>5. ASSUME NEW q \in Proc \ {p}, NEW t \in Thread
      PROVE  CallOK(q, pending[q][t])'
  <2>1. CallOK(q, pending[q][t]) /\ pending'[q][t] = pending[q][t]
    BY <1>3 DEF PendingOK
  <2>2. QED
    BY <2>1 DEF CallOK, Sound
<1>6. QED
  BY <1>1, <1>4, <1>5 DEF PendingOK

-----------------------------------------------------------------------------
(* The steps.                                                              *)

(* The steps of FdOwnership.                                               *)
LEMMA OpeningStep ==
  ASSUME FInv, NEW p \in Proc, NEW t \in Thread, Opening(p, t)
  PROVE  Step(p, t) /\ PendingOK' /\ Outcome'
<1>1. IInv /\ PendingOK /\ Outcome'
  BY NothingHappened DEF FInv, Opening
<1>2. CASE Keeping(p, t) /\ UNCHANGED pending
  BY <1>1, <1>2, KeepingKeeps, SamePending DEF Step
<1>3. ASSUME NEW v \in Named, CloseVar(p, t, v), pending' = Lapsed(p, handle[p][t][v].fd)
      PROVE  PendingOK'
  BY <1>1, <1>3, CloseVarTakes, LapsedPending
<1>4. CASE \E u \in Unique : fd_closer(p, t, u) /\ pending' = Lapsed(p, handle[p][t][u].fd)
  BY <1>1, <1>3, <1>4, VarFacts DEF fd_closer, Step
<1>5. CASE \E r \in Raw : close(p, t, r) /\ pending' = Lapsed(p, handle[p][t][r].fd)
  BY <1>1, <1>3, <1>5, VarFacts DEF close, Step
<1>6. CASE \E x, y \in Usable(p) : replace(p, t, x, y) /\ pending' = Lapsed(p, x.fd)
  <2>1. PICK x \in Usable(p), y \in Usable(p) :
          replace(p, t, x, y) /\ pending' = Lapsed(p, x.fd)
    BY <1>6
  <2>2. \A q \in Proc : \A z \in Usable(q) : q # p \/ z.fd # x.fd => z \in Usable(q)'
    BY <1>1, <2>1, ReplaceTakes
  <2>3. PendingOK'
    BY <1>1, <2>1, <2>2, LapsedPending
  <2>4. QED
    BY <1>1, <2>1, <2>3 DEF Step
<1>7. CASE Exec(p, t) /\ Ended(p)
  BY <1>1, <1>7, EndTakes, EndedPending DEF Step
<1>8. CASE proc_exit(p, t) /\ Ended(p)
  BY <1>1, <1>8, EndTakes, EndedPending DEF Step
<1>9. QED
  BY <1>2, <1>4, <1>5, <1>6, <1>7, <1>8 DEF Opening

(* The first step of a call: its arguments are what variables hold.        *)
LEMMA CalledStep ==
  ASSUME FInv, NEW p \in Proc, NEW t \in Thread, NEW xs, NEW room \in Nat,
         \A i \in DOMAIN xs : xs[i] \in Usable(p), Called(p, t, xs, room)
  PROVE  UNCHANGED vars /\ PendingOK' /\ Outcome'
<1> DEFINE c == [busy |-> TRUE, room |-> room,
                 args |-> [i \in DOMAIN xs |-> Argument(xs[i])]]
<1>1. \A i \in DOMAIN xs : [fd |-> xs[i].fd, obj |-> xs[i].obj] \in Usable(p)
  <2>1. \A i \in DOMAIN xs : xs[i] \in Handle
    BY VarFacts DEF Usable, FInv, IInv, Shape, Memories
  <2>2. \A i \in DOMAIN xs : xs[i] = [fd |-> xs[i].fd, obj |-> xs[i].obj]
    BY <2>1, HandleFacts
  <2>3. QED
    BY <2>2
<1>2. CallOK(p, c)
  BY <1>1 DEF CallOK, Sound, Argument
<1>3. pending' = [pending EXCEPT ![p][t] = c] /\ last' = Nothing /\ UNCHANGED vars
  BY DEF Called
<1> HIDE DEF c
<1>4. QED
  BY <1>2, <1>3, PutPending, NothingHappened DEF FInv

(* The calls on one descriptor, and those on two.                          *)
LEMMA OneDescriptor ==
  ASSUME FInv, NEW p \in Proc, NEW t \in Thread, NEW x \in Usable(p), NEW room \in Nat,
         Called(p, t, <<x>>, room)
  PROVE  UNCHANGED vars /\ PendingOK' /\ Outcome'
<1>1. DOMAIN <<x>> = {1} /\ <<x>>[1] = x
  OBVIOUS
<1>2. \A i \in DOMAIN <<x>> : <<x>>[i] \in Usable(p)
  BY <1>1
<1>3. QED
  BY <1>2, CalledStep

LEMMA TwoDescriptors ==
  ASSUME FInv, NEW p \in Proc, NEW t \in Thread, NEW x \in Usable(p), NEW y \in Usable(p),
         Called(p, t, <<x, y>>, 0)
  PROVE  UNCHANGED vars /\ PendingOK' /\ Outcome'
<1>1. DOMAIN <<x, y>> = {1, 2} /\ <<x, y>>[1] = x /\ <<x, y>>[2] = y
  OBVIOUS
<1>2. \A i \in DOMAIN <<x, y>> : <<x, y>>[i] \in Usable(p)
  BY <1>1
<1>3. QED
  BY <1>2, CalledStep

(* The system call.  A number that was kept is that of a variable, and so  *)
(* leads to the object that it was obtained for.                           *)
LEMMA SystemCallStep ==
  ASSUME FInv, NEW p \in Proc, NEW t \in Thread, system_call(p, t)
  PROVE  UNCHANGED vars /\ PendingOK' /\ Outcome'
<1> DEFINE c == pending[p][t]
<1>1. CallOK(p, c)
  BY DEF FInv, PendingOK
<1>2. PICK n \in 0..c.room, err \in BOOLEAN :
        last' = [ok |-> ~err, args |-> c.args, room |-> c.room,
          reached |-> IF err THEN <<>> ELSE [i \in DOMAIN c.args |-> table[p][c.args[i].fd]],
          events  |-> IF err THEN 0 ELSE n]
  BY DEF system_call
<1>3. pending' = [pending EXCEPT ![p][t] = NotCalling] /\ UNCHANGED vars
  BY DEF system_call
<1> HIDE DEF c
<1>4. ASSUME NEW i \in DOMAIN c.args, c.args[i].kept
      PROVE  table[p][c.args[i].fd] = c.args[i].obj
  <2>1. [fd |-> c.args[i].fd, obj |-> c.args[i].obj] \in Usable(p)
    BY <1>1, <1>4 DEF CallOK, Sound
  <2>2. \A x \in Usable(p) : table[p][x.fd] = x.obj
    BY UsableFacts DEF FInv
  <2>3. QED
    BY <2>1, <2>2
<1>5. ActsOnWhatWasMeant'
  <2>1. /\ last'.ok = ~err /\ last'.args = c.args
        /\ ~err => last'.reached = [i \in DOMAIN c.args |-> table[p][c.args[i].fd]]
    BY <1>2
  <2>2. QED
    BY <1>4, <2>1 DEF ActsOnWhatWasMeant
<1>6. EventsFit'
  <2>1. last'.room = c.room /\ last'.events \in {0, n} /\ c.room \in Nat
    BY <1>1, <1>2 DEF CallOK
  <2>2. QED
    BY <2>1 DEF EventsFit
<1>7. PendingOK'
  BY <1>3, NothingIsOK, PutPending DEF FInv
<1>8. QED
  BY <1>3, <1>5, <1>6, <1>7 DEF Outcome

(* Wrappers that are given no descriptor.                                  *)
LEMMA AloneStep ==
  ASSUME FInv, NEW p, NEW t, NEW ok, NEW reached, NEW events, NEW room,
         events <= room, CalledAlone(p, t, ok, reached, events, room)
  PROVE  UNCHANGED vars /\ PendingOK' /\ Outcome'
<1>1. /\ last' = [ok |-> ok, args |-> <<>>, reached |-> reached,
                  events |-> events, room |-> room]
      /\ UNCHANGED <<vars, pending>>
  BY DEF CalledAlone
<1>2. DOMAIN <<>> = {}
  OBVIOUS
<1>3. last'.args = <<>> /\ last'.events = events /\ last'.room = room
  BY <1>1
<1>4. Outcome'
  BY <1>2, <1>3 DEF Outcome, ActsOnWhatWasMeant, EventsFit
<1>5. \A q \in Proc : Usable(q) \subseteq Usable(q)'
  BY <1>1 DEF vars, Usable
<1>6. QED
  BY <1>1, <1>4, <1>5, SamePending DEF FInv

(* poll checks the room itself.                                            *)
LEMMA PollStep ==
  ASSUME FInv, NEW p, NEW t, NEW in \in 0..MaxEvents, NEW room \in 0..MaxEvents,
         poll(p, t, in, room)
  PROVE  UNCHANGED vars /\ PendingOK' /\ Outcome'
<1>1. PICK n \in 0..in, ok \in BOOLEAN :
        /\ ok => ~TooSmall(in, room)
        /\ CalledAlone(p, t, ok, <<>>, IF ok THEN n ELSE 0, room)
  BY DEF poll
<1>2. in \in Nat /\ room \in Nat
  BY MaxEventsAssumption
<1>3. (IF ok THEN n ELSE 0) <= room
  BY <1>1, <1>2 DEF TooSmall
<1>4. QED
  BY <1>1, <1>3, AloneStep

(* Every step is one of FdOwnership or changes nothing there.              *)
LEMMA FNextStep ==
  ASSUME FInv, [FNext]_fvars
  PROVE  [Next]_vars /\ PendingOK' /\ Outcome'
<1>1. CASE UNCHANGED fvars
  <2>1. UNCHANGED vars /\ UNCHANGED pending /\ UNCHANGED last
    BY <1>1 DEF fvars
  <2>2. \A q \in Proc : Usable(q) \subseteq Usable(q)'
    BY <2>1 DEF vars, Usable
  <2>3. Outcome'
    BY <2>1 DEF FInv, Outcome, ActsOnWhatWasMeant, EventsFit
  <2>4. QED
    BY <2>1, <2>2, <2>3, SamePending DEF FInv
<1>2. ASSUME NEW p \in Proc, NEW t \in Thread, Opening(p, t)
      PROVE  [Next]_vars /\ PendingOK' /\ Outcome'
  BY <1>2, OpeningStep DEF Next
<1>3. ASSUME NEW p \in Proc, NEW t \in Thread, FCall(p, t)
      PROVE  [Next]_vars /\ PendingOK' /\ Outcome'
  <2>1. CASE \E x \in Usable(p) :
               \/ transfer(p, t, x) \/ query(p, t, x) \/ file_query(p, t, x)
               \/ sock_stat_get(p, t, x) \/ fd_mem_map(p, t, x)
               \/ datasync(p, t, x) \/ sync(p, t, x) \/ file_change(p, t, x)
               \/ file_update(p, t, x) \/ sock_change(p, t, x)
    BY <2>1, OneDescriptor DEF transfer, query, file_query, sock_stat_get, fd_mem_map,
       datasync, sync, file_change, file_update, sock_change
  <2>2. CASE \E x \in Usable(p), room \in 0..MaxEvents : fd_poll(p, t, x, room)
    BY <2>2, OneDescriptor, MaxEventsAssumption DEF fd_poll
  <2>3. CASE \E x, y \in Usable(p) : sock_dir(p, t, x, y) \/ file_pair(p, t, x, y)
    BY <2>3, TwoDescriptors DEF sock_dir, file_pair
  <2>4. CASE system_call(p, t)
    BY <2>4, SystemCallStep
  <2>5. CASE clock(p, t) \/ mem_call(p, t) \/ random_get(p, t)
    BY <2>5, AloneStep DEF clock, mem_call, random_get
  <2>6. CASE proc_raise(p, t)
    <3>1. CASE \E ok \in BOOLEAN : CalledAlone(p, t, ok, <<>>, 0, 0)
      BY <3>1, AloneStep
    <3>2. CASE proc_exit(p, t) /\ Ended(p) /\ last' = Nothing
      BY <3>2, EndTakes, EndedPending, NothingHappened DEF FInv, Next, Step
    <3>3. QED
      BY <2>6, <3>1, <3>2 DEF proc_raise
  <2>7. CASE \E in, room \in 0..MaxEvents : poll(p, t, in, room)
    BY <2>7, PollStep
  <2>8. CASE \E anon \in BOOLEAN : mem_map(p, t, anon)
    BY <2>8, AloneStep DEF mem_map
  <2>9. QED
    BY <1>3, <2>1, <2>2, <2>3, <2>4, <2>5, <2>6, <2>7, <2>8 DEF FCall
<1>4. QED
  BY <1>1, <1>2, <1>3 DEF FNext

LEMMA FInvariant == FSpec => []FInv
<1>1. FInit => FInv
  <2> SUFFICES ASSUME FInit PROVE FInv
    OBVIOUS
  <2>1. IInv /\ pending = [p \in Proc |-> NoneCalls] /\ last = Nothing
    BY InitInv DEF FInit
  <2>2. \A p \in Proc, t \in Thread : pending[p][t] = NotCalling
    BY <2>1 DEF NoneCalls
  <2>3. PendingOK
    BY <2>1, <2>2, NothingIsOK DEF PendingOK, NoneCalls
  <2>4. Outcome
    BY <2>1 DEF Nothing, Outcome, ActsOnWhatWasMeant, EventsFit
  <2>5. QED
    BY <2>1, <2>3, <2>4 DEF FInv
<1>2. FInv /\ [FNext]_fvars => FInv'
  BY FNextStep, NextInv DEF FInv
<1>3. QED
  BY <1>1, <1>2, PTL DEF FSpec

(* A program that also reads, writes, maps and polls is one of those that  *)
(* FdOwnership describes, and what is proved of those holds for it.        *)
THEOREM CallsKeepOwnership == FSpec => Spec
<1>1. FInit => Init
  BY DEF FInit
<1>2. FInv /\ [FNext]_fvars => [Next]_vars
  BY FNextStep
<1>3. QED
  BY <1>1, <1>2, FInvariant, PTL DEF FSpec, Spec

(* To a program that uses all of the wrappers for descriptors, these are   *)
(* references to objects.                                                  *)
THEOREM CallsUseReferences == FSpec => ImplementsReferences
BY CallsKeepOwnership, DescriptorsAreReferences, PTL

(* Between the copy of a number and the system call on it, other threads   *)
(* and processes do what they like with their descriptors: only one that   *)
(* closes the very variable the number came from, or replaces what it      *)
(* means, makes the call act on another object.                            *)
THEOREM CallsActOnWhatWasMeant == FSpec => []ActsOnWhatWasMeant
<1>1. FInv => ActsOnWhatWasMeant
  BY DEF FInv, Outcome
<1>2. QED
  BY <1>1, FInvariant, PTL

(* Neither poll lets the kernel write past the end of the range it is      *)
(* given for events, whatever its size and the number of subscriptions.    *)
THEOREM PollsStayInRange == FSpec => []EventsFit
<1>1. FInv => EventsFit
  BY DEF FInv, Outcome
<1>2. QED
  BY <1>1, FInvariant, PTL
=============================================================================
