------------------------- MODULE FdOwnershipProofs -------------------------
(***************************************************************************)
(* Proofs about FdOwnership, for any number of processes, threads,         *)
(* descriptor numbers, objects and variables.                              *)
(*                                                                         *)
(* What the three invariants say of one process depends on its table T and *)
(* its memory H alone.  Good(T, H) collects it, the first lemmas say that  *)
(* each thing a wrapper does to a table and a memory keeps it, and the     *)
(* proof of a step of the system picks the lemma that fits the action.     *)
(***************************************************************************)
EXTENDS FdOwnership, TLAPS

Tables   == [Number -> Object \cup {NoObject}]
Memories == [Thread -> [Var -> Handle]]

Sole(H) ==
  \A s, t \in Thread, v, w \in Var :
    H[s][v].fd # NoFd /\ H[s][v].fd = H[t][w].fd => s = t /\ v = w

Denotes(T, H) ==
  \A t \in Thread, v \in Var : H[t][v] # Empty => T[H[t][v].fd] = H[t][v].obj

Good(T, H) == T \in Tables /\ H \in Memories /\ Sole(H) /\ Denotes(T, H)

(* A handle with a number is not Empty, and its number and object are what *)
(* the type says.                                                          *)
LEMMA HandleFacts ==
  ASSUME NEW x \in Handle
  PROVE  /\ x # Empty <=> x.fd # NoFd
         /\ x # Empty => x.fd \in Number /\ x.obj \in Object
         /\ x = [fd |-> x.fd, obj |-> x.obj]
BY NoFdAssumption, NoObjectAssumption DEF Handle, Empty

(* The content of an empty variable.                                       *)
LEMMA EmptyFacts == Empty \in Handle /\ Empty.fd = NoFd
BY DEF Handle, Empty

(* A memory with nothing in it is good with any table.                     *)
LEMMA NothingIsGood ==
  ASSUME NEW T \in Tables
  PROVE  Good(T, NoHandles)
BY EmptyFacts DEF Good, Memories, Sole, Denotes, NoHandles

(* Opening a closed number disturbs no one, and its new holder is the only *)
(* one, since every number that is held is open.                           *)
LEMMA OpenIsGood ==
  ASSUME NEW T, NEW H, Good(T, H), NEW n \in Number, T[n] = NoObject, NEW o \in Object
  PROVE  Good([T EXCEPT ![n] = o], H)
<1>1. \A t \in Thread, v \in Var : H[t][v] # Empty => H[t][v].fd # n
  BY HandleFacts, NoObjectAssumption DEF Good, Memories, Denotes
<1>2. [T EXCEPT ![n] = o] \in Tables
  BY DEF Good, Tables
<1>3. Denotes([T EXCEPT ![n] = o], H)
  BY <1>1, HandleFacts DEF Good, Denotes, Tables, Memories
<1>4. QED
  BY <1>2, <1>3 DEF Good

(* Writing to a variable a handle that denotes its object and that no      *)
(* other variable holds.                                                   *)
LEMMA PutIsGood ==
  ASSUME NEW T, NEW H, Good(T, H), NEW t \in Thread, NEW v \in Var,
         NEW x \in Handle, x # Empty => T[x.fd] = x.obj,
         \A s \in Thread, w \in Var : x # Empty /\ H[s][w].fd = x.fd => s = t /\ w = v,
         NEW G \in Memories,
         \A s \in Thread, w \in Var : G[s][w] = IF s = t /\ w = v THEN x ELSE H[s][w]
  PROVE  Good(T, G)
<1>1. Sole(G)
  BY HandleFacts DEF Good, Sole, Memories
<1>2. Denotes(T, G)
  BY DEF Good, Denotes
<1>3. QED
  BY <1>1, <1>2 DEF Good

(* Opening a closed number for the variable that gets it.                  *)
LEMMA AllocateIsGood ==
  ASSUME NEW T, NEW H, Good(T, H), NEW n \in Number, T[n] = NoObject, NEW o \in Object,
         NEW t \in Thread, NEW v \in Var, NEW G \in Memories,
         \A s \in Thread, w \in Var :
           G[s][w] = IF s = t /\ w = v THEN [fd |-> n, obj |-> o] ELSE H[s][w]
  PROVE  Good([T EXCEPT ![n] = o], G)
<1> DEFINE x == [fd |-> n, obj |-> o]
           U == [T EXCEPT ![n] = o]
<1>1. Good(U, H)
  BY OpenIsGood
<1>2. x \in Handle /\ x # Empty => U[x.fd] = x.obj
  BY DEF Good, Tables
<1>3. x \in Handle
  BY DEF Handle
<1>4. \A s \in Thread, w \in Var : H[s][w].fd # x.fd
  BY HandleFacts, NoFdAssumption, NoObjectAssumption DEF Good, Denotes, Memories
<1> HIDE DEF U, x
<1>5. Good(U, G)
  <2>1. \A s \in Thread, w \in Var : G[s][w] = IF s = t /\ w = v THEN x ELSE H[s][w]
    BY DEF x
  <2>2. QED
    BY <1>1, <1>2, <1>3, <1>4, <2>1, PutIsGood
<1>6. QED
  BY <1>5 DEF U

(* Moving a handle from one variable to another.                           *)
LEMMA MoveIsGood ==
  ASSUME NEW T, NEW H, Good(T, H),
         NEW t \in Thread, NEW v \in Var, NEW s \in Thread, NEW w \in Var,
         s # t \/ w # v,
         NEW G \in Memories,
         G[s][w] = H[t][v], G[t][v] = Empty,
         \A r \in Thread, z \in Var :
           ~(r = s /\ z = w) /\ ~(r = t /\ z = v) => G[r][z] = H[r][z]
  PROVE  Good(T, G)
<1>1. \A r \in Thread, z \in Var :
        G[r][z] = IF r = s /\ z = w THEN H[t][v]
                  ELSE IF r = t /\ z = v THEN Empty ELSE H[r][z]
  OBVIOUS
<1>2. Sole(G)
  BY <1>1, EmptyFacts DEF Good, Sole
<1>3. Denotes(T, G)
  BY <1>1 DEF Good, Denotes
<1>4. QED
  BY <1>2, <1>3 DEF Good

(* Closing the numbers of a thread's variables K and emptying them.        *)
LEMMA CloseIsGood ==
  ASSUME NEW T, NEW H, Good(T, H), NEW t \in Thread, NEW K \in SUBSET Var,
         NEW U \in Tables,
         \A n \in Number : (\A v \in K : H[t][v].fd # n) => U[n] = T[n],
         NEW G \in Memories,
         \A s \in Thread, w \in Var :
           G[s][w] = IF s = t /\ w \in K THEN Empty ELSE H[s][w]
  PROVE  Good(U, G)
<1>1. Sole(G)
  BY EmptyFacts DEF Good, Sole
<1>2. ASSUME NEW s \in Thread, NEW w \in Var, G[s][w] # Empty
      PROVE  U[G[s][w].fd] = G[s][w].obj
  <2>1. G[s][w] = H[s][w] /\ ~(s = t /\ w \in K)
    BY <1>2
  <2>2. H[s][w].fd \in Number /\ H[s][w].fd # NoFd
    BY <1>2, <2>1, HandleFacts DEF Good, Memories
  <2>3. \A v \in K : H[t][v].fd # H[s][w].fd
    BY <2>1, <2>2 DEF Good, Sole
  <2>4. U[H[s][w].fd] = T[H[s][w].fd]
    BY <2>2, <2>3
  <2>5. QED
    BY <1>2, <2>1, <2>4 DEF Good, Denotes
<1>3. QED
  BY <1>1, <1>2 DEF Good, Denotes

(* Making number n another name of object o, for all who hold it.          *)
LEMMA ReplaceIsGood ==
  ASSUME NEW T, NEW H, Good(T, H), NEW n \in Number, NEW o \in Object,
         NEW G \in Memories,
         \A s \in Thread, w \in Var :
           G[s][w] = IF H[s][w].fd = n THEN [fd |-> n, obj |-> o] ELSE H[s][w]
  PROVE  Good([T EXCEPT ![n] = o], G)
<1>1. \A s \in Thread, w \in Var : G[s][w].fd = H[s][w].fd
  OBVIOUS
<1>2. Sole(G)
  BY <1>1 DEF Good, Sole
<1>3. [T EXCEPT ![n] = o] \in Tables
  BY DEF Good, Tables
<1>4. Denotes([T EXCEPT ![n] = o], G)
  BY HandleFacts DEF Good, Denotes, Tables, Memories
<1>5. QED
  BY <1>2, <1>3, <1>4 DEF Good

(* Forgetting some of the variables.                                       *)
LEMMA ForgetIsGood ==
  ASSUME NEW T, NEW H, Good(T, H), NEW G \in Memories,
         \A s \in Thread, w \in Var : G[s][w] \in {Empty, H[s][w]}
  PROVE  Good(T, G)
<1>1. Sole(G)
  BY EmptyFacts DEF Good, Sole
<1>2. Denotes(T, G)
  BY DEF Good, Denotes
<1>3. QED
  BY <1>1, <1>2 DEF Good

(* A new program image, whatever it was given.                             *)
LEMMA ImageIsGood ==
  ASSUME NEW t \in Thread, NEW given \in SUBSET Raw,
         NEW num \in Injection(given, Number), NEW obj \in [given -> Object]
  PROVE  Good(ImageTable(given, num, obj), ImageHandles(t, given, num, obj))
<1> DEFINE T == ImageTable(given, num, obj)
           H == ImageHandles(t, given, num, obj)
<1>1. /\ num \in [given -> Number]
      /\ \A v, w \in given : num[v] = num[w] => v = w
  BY DEF Injection, IsInjective
<1>2. \A v \in given : T[num[v]] = obj[v]
  BY <1>1 DEF ImageTable
<1>3. T \in Tables
  BY DEF ImageTable, Tables
<1>4. \A s \in Thread, v \in Var :
         H[s][v] = IF s = t /\ v \in given THEN [fd |-> num[v], obj |-> obj[v]] ELSE Empty
  BY DEF ImageHandles, NoHandles
<1>5. H \in Memories
  BY <1>1 DEF ImageHandles, NoHandles, Memories, Handle
<1>6. \A s \in Thread, v \in Var : H[s][v] # Empty \/ H[s][v].fd # NoFd =>
         s = t /\ v \in given /\ H[s][v].fd = num[v] /\ H[s][v].obj = obj[v]
  <2> HIDE DEF H
  <2> TAKE s \in Thread, v \in Var
  <2>1. CASE s = t /\ v \in given
    <3>1. H[s][v] = [fd |-> num[v], obj |-> obj[v]]
      BY <1>4, <2>1
    <3>2. QED
      BY <2>1, <3>1
  <2>2. CASE ~(s = t /\ v \in given)
    <3>1. H[s][v] = Empty
      BY <1>4, <2>2
    <3>2. QED
      BY <3>1, EmptyFacts
  <2>3. QED
    BY <2>1, <2>2
<1> HIDE DEF T, H
<1>7. Sole(H)
  BY <1>1, <1>6 DEF Sole
<1>8. Denotes(T, H)
  BY <1>2, <1>6 DEF Denotes
<1>9. Good(T, H)
  BY <1>3, <1>5, <1>7, <1>8 DEF Good
<1>10. QED
  BY <1>9 DEF T, H

-----------------------------------------------------------------------------
(* The inductive invariant, one process at a time: its table T and memory  *)
(* H are good; a thread outside of a wrapper has nothing in its locals,    *)
(* and only create2 has anything in b; a thread in a wrapper is running;   *)
(* and nothing is left of a process that is not running.                   *)

Locals(H, C) ==
  \A t \in Thread :
    /\ C[t] \in {"idle", "error"} => H[t]["a"] = Empty
    /\ C[t] # "create2" => H[t]["b"] = Empty

ProcInv(T, H, C, R) ==
  /\ Good(T, H)
  /\ C \in [Thread -> Call]
  /\ R \subseteq Thread
  /\ Locals(H, C)
  /\ \A t \in Thread : C[t] # "idle" => t \in R
  /\ R = {} => T = NoTable /\ H = NoHandles /\ C = NoCalls

Shape ==
  /\ table   \in [Proc -> Tables]
  /\ handle  \in [Proc -> Memories]
  /\ call    \in [Proc -> [Thread -> Call]]
  /\ threads \in [Proc -> SUBSET Thread]

IInv ==
  /\ Shape
  /\ \A p \in Proc : ProcInv(table[p], handle[p], call[p], threads[p])

Same(p) ==
  /\ table'[p] = table[p] /\ handle'[p] = handle[p]
  /\ call'[p] = call[p] /\ threads'[p] = threads[p]

(* The inductive invariant is stronger than the three properties.          *)
LEMMA InvImplies == IInv => TypeOK /\ SoleOwner /\ HandleDenotesItsObject
BY DEF IInv, Shape, ProcInv, Good, Tables, Memories, Sole, Denotes,
       TypeOK, SoleOwner, HandleDenotesItsObject

(* A step of one process leaves the others alone.                          *)
LEMMA OneProcess ==
  ASSUME IInv, NEW p \in Proc, Shape', \A q \in Proc \ {p} : Same(q),
         ProcInv(table'[p], handle'[p], call'[p], threads'[p])
  PROVE  IInv'
BY DEF IInv, Same

(* Locals and named variables are told apart.                              *)
LEMMA VarFacts ==
  /\ "a" \in Var /\ "b" \in Var
  /\ \A v \in Named : v \in Var /\ v # "a" /\ v # "b"
  /\ Unique \subseteq Named /\ Raw \subseteq Named
BY VarAssumption DEF Var, Local, Named

(* The calls of a process that does not run.                               *)
LEMMA NoCallsFacts == NoCalls \in [Thread -> Call]
BY DEF NoCalls, Call

(* The first step of a wrapper that returns one descriptor: number n, open *)
(* for an object o.                                                        *)
LEMMA AllocateStep ==
  ASSUME IInv, NEW p \in Proc, NEW t \in Thread, NEW c \in OneFd, NEW o \in Object,
         Allocate(p, t, c, o, o)
  PROVE  IInv'
<1>1. PICK n \in Free(p) :
        /\ table'  = [table  EXCEPT ![p][n] = o]
        /\ handle' = [handle EXCEPT ![p][t]["a"] = [fd |-> n, obj |-> o]]
  BY DEF Allocate
<1>2. n \in Number /\ table[p][n] = NoObject /\ [fd |-> n, obj |-> o] \in Handle
  BY DEF Free, Handle
<1>3. /\ call[p][t] = "idle" /\ t \in threads[p]
      /\ call' = [call EXCEPT ![p][t] = c] /\ threads' = threads
      /\ c \in Call
  BY DEF Allocate, Enter, Idle, Call
<1>4. Shape' /\ \A q \in Proc \ {p} : Same(q)
  BY <1>1, <1>2, <1>3, VarFacts DEF IInv, Shape, Same, Tables, Memories
<1>5. /\ table'[p] = [table[p] EXCEPT ![n] = o]
      /\ \A s \in Thread, v \in Var :
           handle'[p][s][v] = IF s = t /\ v = "a" THEN [fd |-> n, obj |-> o]
                                                  ELSE handle[p][s][v]
  BY <1>1, VarFacts DEF IInv, Shape, Tables, Memories
<1>6. Good(table'[p], handle'[p])
  <2>1. Good(table[p], handle[p]) /\ handle'[p] \in Memories
    BY <1>4 DEF IInv, Shape, ProcInv
  <2>2. Good([table[p] EXCEPT ![n] = o], handle'[p])
    BY <1>2, <1>5, <2>1, VarFacts, AllocateIsGood
  <2>3. QED
    BY <1>5, <2>2
<1>7. Locals(handle'[p], call'[p])
  <2> SUFFICES ASSUME NEW s \in Thread
               PROVE  /\ call'[p][s] \in {"idle", "error"} => handle'[p][s]["a"] = Empty
                      /\ call'[p][s] # "create2" => handle'[p][s]["b"] = Empty
    BY DEF Locals
  <2>1. /\ call[p][s] \in {"idle", "error"} => handle[p][s]["a"] = Empty
        /\ call[p][s] # "create2" => handle[p][s]["b"] = Empty
    BY DEF IInv, ProcInv, Locals
  <2>2. call'[p][s] = IF s = t THEN c ELSE call[p][s]
    BY <1>3 DEF IInv, Shape
  <2>3. /\ s # t => handle'[p][s]["a"] = handle[p][s]["a"]
        /\ handle'[p][s]["b"] = handle[p][s]["b"]
    BY <1>5, VarFacts
  <2>4. c \notin {"idle", "error", "create2"} /\ call[p][t] # "create2"
    BY <1>3 DEF OneFd
  <2>5. QED
    BY <2>1, <2>2, <2>3, <2>4
<1>8. ProcInv(table'[p], handle'[p], call'[p], threads'[p])
  BY <1>3, <1>4, <1>6, <1>7 DEF IInv, Shape, ProcInv
<1>9. QED
  BY <1>4, <1>8, OneProcess

(* A call that fails, and the return of its error.                         *)
LEMMA FailStep ==
  ASSUME IInv, NEW p \in Proc, NEW t \in Thread, Fail(p, t) \/ ReturnError(p, t)
  PROVE  IInv'
<1>1. /\ UNCHANGED <<table, handle, threads>>
      /\ \E c \in {"idle", "error"} : call' = [call EXCEPT ![p][t] = c]
      /\ call[p][t] \in {"idle", "error"}
      /\ t \in threads[p]
  BY DEF Fail, ReturnError, Enter, Idle, IInv, ProcInv
<1>2. Shape' /\ \A q \in Proc \ {p} : Same(q)
  BY <1>1 DEF IInv, Shape, Same, Call
<1>3. Locals(handle'[p], call'[p])
  BY <1>1 DEF IInv, Shape, ProcInv, Locals
<1>4. ProcInv(table'[p], handle'[p], call'[p], threads'[p])
  BY <1>1, <1>2, <1>3 DEF IInv, Shape, ProcInv
<1>5. QED
  BY <1>2, <1>4, OneProcess

(* create2 opens two numbers and keeps one of them, in b.                  *)
LEMMA Create2Step ==
  ASSUME IInv, NEW p \in Proc, NEW t \in Thread, create2(p, t)
  PROVE  IInv'
<1>0. PICK n1 \in Free(p), n2 \in Free(p), o1 \in Fresh, o2 \in Fresh :
        /\ n1 # n2 /\ o1 # o2
        /\ table' = [table EXCEPT ![p][n1] = o1, ![p][n2] = o2]
        /\ \E ab \in Create2Locals([fd |-> n1, obj |-> o1], [fd |-> n2, obj |-> o2]) :
             handle' = [handle EXCEPT ![p][t]["a"] = ab[1], ![p][t]["b"] = ab[2]]
  BY DEF create2
<1>1. PICK ab \in Create2Locals([fd |-> n1, obj |-> o1], [fd |-> n2, obj |-> o2]) :
        handle' = [handle EXCEPT ![p][t]["a"] = ab[1], ![p][t]["b"] = ab[2]]
  BY <1>0
<1>2. /\ n1 \in Number /\ n2 \in Number /\ o1 \in Object /\ o2 \in Object
      /\ table[p][n1] = NoObject /\ table[p][n2] = NoObject
  BY DEF Free, Fresh
<1>3. /\ ab[1] = Empty
      /\ ab[2] \in {[fd |-> n1, obj |-> o1], [fd |-> n2, obj |-> o2]}
  BY DEF Create2Locals
<1>4. ab[1] \in Handle /\ ab[2] \in Handle
  BY <1>2, <1>3 DEF Handle
<1>5. /\ call[p][t] = "idle" /\ t \in threads[p]
      /\ call' = [call EXCEPT ![p][t] = "create2"] /\ threads' = threads
      /\ "create2" \in Call
  BY DEF create2, Enter, Idle, Call
<1>6. Shape' /\ \A q \in Proc \ {p} : Same(q)
  <2>1. table' \in [Proc -> Tables]
    BY <1>0, <1>2 DEF IInv, Shape, Tables
  <2>2. handle' \in [Proc -> Memories]
    BY <1>1, <1>4, VarFacts DEF IInv, Shape, Memories
  <2>3. call' \in [Proc -> [Thread -> Call]] /\ threads' \in [Proc -> SUBSET Thread]
    BY <1>5 DEF IInv, Shape
  <2>4. \A q \in Proc \ {p} : Same(q)
    BY <1>0, <1>1, <1>5 DEF IInv, Shape, Same
  <2>5. QED
    BY <2>1, <2>2, <2>3, <2>4 DEF Shape
<1>7. /\ table'[p] = [table[p] EXCEPT ![n1] = o1, ![n2] = o2]
      /\ \A s \in Thread, v \in Var :
           handle'[p][s][v] = IF s = t /\ v = "b" THEN ab[2] ELSE handle[p][s][v]
  <2>1. handle[p][t]["a"] = Empty
    BY <1>5 DEF IInv, ProcInv, Locals
  <2>2. QED
    BY <1>0, <1>1, <1>3, <2>1, VarFacts DEF IInv, Shape, Tables, Memories
<1>8. Good(table'[p], handle'[p])
  <2>1. Good(table[p], handle[p]) /\ handle'[p] \in Memories
    BY <1>6 DEF IInv, Shape, ProcInv
  <2>2. CASE ab[2] = [fd |-> n1, obj |-> o1]
    <3> DEFINE U == [table[p] EXCEPT ![n1] = o1]
    <3>1. \A s \in Thread, v \in Var :
            handle'[p][s][v] = IF s = t /\ v = "b" THEN [fd |-> n1, obj |-> o1]
                                                   ELSE handle[p][s][v]
      BY <1>7, <2>2
    <3>2. Good(U, handle'[p])
      <4>1. "b" \in Var /\ table[p][n1] = NoObject /\ n1 \in Number /\ o1 \in Object
        BY <1>2, VarFacts
      <4>2. QED
        BY <2>1, <3>1, <4>1, AllocateIsGood
    <3>3. U[n2] = NoObject
      BY <1>0, <1>2, <2>1 DEF Good, Tables
    <3>4. Good([U EXCEPT ![n2] = o2], handle'[p])
      BY <1>2, <3>2, <3>3, OpenIsGood
    <3>5. QED
      BY <1>7, <3>4
  <2>3. CASE ab[2] = [fd |-> n2, obj |-> o2]
    <3> DEFINE U == [table[p] EXCEPT ![n1] = o1]
    <3>1. \A s \in Thread, v \in Var :
            handle'[p][s][v] = IF s = t /\ v = "b" THEN [fd |-> n2, obj |-> o2]
                                                   ELSE handle[p][s][v]
      BY <1>7, <2>3
    <3>2. Good(U, handle[p])
      BY <1>2, <2>1, OpenIsGood
    <3>3. U[n2] = NoObject
      BY <1>0, <1>2, <2>1 DEF Good, Tables
    <3> HIDE DEF U
    <3>4. handle'[p] \in Memories
      BY <2>1
    <3>5. Good([U EXCEPT ![n2] = o2], handle'[p])
      <4>1. "b" \in Var /\ n2 \in Number /\ o2 \in Object
        BY <1>2, VarFacts
      <4>2. QED
        BY <3>1, <3>2, <3>3, <3>4, <4>1, AllocateIsGood
    <3>6. QED
      BY <1>7, <3>5 DEF U
  <2>4. QED
    BY <1>3, <2>2, <2>3
<1>9. Locals(handle'[p], call'[p])
  <2> SUFFICES ASSUME NEW s \in Thread
               PROVE  /\ call'[p][s] \in {"idle", "error"} => handle'[p][s]["a"] = Empty
                      /\ call'[p][s] # "create2" => handle'[p][s]["b"] = Empty
    BY DEF Locals
  <2>1. /\ call[p][s] \in {"idle", "error"} => handle[p][s]["a"] = Empty
        /\ call[p][s] # "create2" => handle[p][s]["b"] = Empty
    BY DEF IInv, ProcInv, Locals
  <2>2. call'[p][s] = IF s = t THEN "create2" ELSE call[p][s]
    BY <1>5 DEF IInv, Shape
  <2>3. /\ handle'[p][s]["a"] = handle[p][s]["a"]
        /\ s # t => handle'[p][s]["b"] = handle[p][s]["b"]
    BY <1>7, VarFacts
  <2>4. QED
    BY <2>1, <2>2, <2>3
<1>10. ProcInv(table'[p], handle'[p], call'[p], threads'[p])
  BY <1>5, <1>6, <1>8, <1>9 DEF IInv, Shape, ProcInv
<1>11. QED
  BY <1>6, <1>10, OneProcess

(* Writing a handle into a variable keeps the type of the memories.        *)
LEMMA WriteType ==
  ASSUME NEW h \in [Proc -> Memories], NEW p \in Proc, NEW t \in Thread,
         NEW v \in Var, NEW x \in Handle
  PROVE  [h EXCEPT ![p][t][v] = x] \in [Proc -> Memories]
BY DEF Memories

(* The caller's unique_fd takes over the local.                            *)
LEMMA ReturnOneStep ==
  ASSUME IInv, NEW p \in Proc, NEW t \in Thread, NEW u \in Unique, ReturnOne(p, t, u)
  PROVE  IInv'
<1>1. /\ call[p][t] \in OneFd /\ "idle" \in Call /\ t \in threads[p]
      /\ handle' = [handle EXCEPT ![p][t]["a"] = Empty, ![p][t][u] = handle[p][t]["a"]]
      /\ call' = [call EXCEPT ![p][t] = "idle"]
      /\ table' = table /\ threads' = threads
  BY DEF ReturnOne, OneFd, Call, IInv, ProcInv
<1>2. u \in Var /\ u # "a" /\ u # "b"
  BY VarFacts
<1>3. \A s \in Thread, v \in Var : handle[p][s][v] \in Handle
  BY DEF IInv, Shape, Memories
<1>4. Shape' /\ \A q \in Proc \ {p} : Same(q)
  <2> DEFINE h == [handle EXCEPT ![p][t]["a"] = Empty]
             x == handle[p][t]["a"]
  <2>1. "a" \in Var /\ Empty \in Handle /\ x \in Handle /\ handle \in [Proc -> Memories]
    BY <1>3, VarFacts, EmptyFacts DEF IInv, Shape
  <2>2. h \in [Proc -> Memories]
    BY <2>1, WriteType
  <2> HIDE DEF h, x
  <2>3. [h EXCEPT ![p][t][u] = x] \in [Proc -> Memories]
    BY <1>2, <2>1, <2>2, WriteType
  <2>4. handle' \in [Proc -> Memories]
    BY <1>1, <2>3 DEF h, x
  <2>5. QED
    BY <1>1, <2>4 DEF IInv, Shape, Same
<1>5. \A s \in Thread, v \in Var :
        handle'[p][s][v] = IF s = t /\ v = u THEN handle[p][t]["a"]
                           ELSE IF s = t /\ v = "a" THEN Empty ELSE handle[p][s][v]
  BY <1>1, <1>2, VarFacts DEF IInv, Shape, Memories
<1>6. Good(table'[p], handle'[p])
  <2>1. Good(table[p], handle[p]) /\ handle'[p] \in Memories
    BY <1>4 DEF IInv, Shape, ProcInv
  <2>2. /\ handle'[p][t][u] = handle[p][t]["a"] /\ handle'[p][t]["a"] = Empty
        /\ \A r \in Thread, z \in Var :
             ~(r = t /\ z = u) /\ ~(r = t /\ z = "a") => handle'[p][r][z] = handle[p][r][z]
    BY <1>2, <1>5, VarFacts
  <2>3. Good(table[p], handle'[p])
    BY <1>2, <2>1, <2>2, VarFacts, MoveIsGood
  <2>4. QED
    BY <1>1, <2>3
<1>7. Locals(handle'[p], call'[p])
  <2> SUFFICES ASSUME NEW s \in Thread
               PROVE  /\ call'[p][s] \in {"idle", "error"} => handle'[p][s]["a"] = Empty
                      /\ call'[p][s] # "create2" => handle'[p][s]["b"] = Empty
    BY DEF Locals
  <2>1. /\ call[p][s] \in {"idle", "error"} => handle[p][s]["a"] = Empty
        /\ call[p][s] # "create2" => handle[p][s]["b"] = Empty
    BY DEF IInv, ProcInv, Locals
  <2>2. call'[p][s] = IF s = t THEN "idle" ELSE call[p][s]
    BY <1>1 DEF IInv, Shape
  <2>3. /\ handle'[p][s]["a"] = IF s = t THEN Empty ELSE handle[p][s]["a"]
        /\ handle'[p][s]["b"] = handle[p][s]["b"]
    BY <1>2, <1>5, VarFacts
  <2>4. QED
    BY <1>1, <2>1, <2>2, <2>3 DEF OneFd
<1>8. ProcInv(table'[p], handle'[p], call'[p], threads'[p])
  BY <1>1, <1>4, <1>6, <1>7 DEF IInv, Shape, ProcInv
<1>9. QED
  BY <1>4, <1>8, OneProcess

(* The memories with handle x written to variable v of one thread.  The    *)
(* write changes that variable only.                                       *)
Write(h, p, t, v, x) == [h EXCEPT ![p][t][v] = x]

LEMMA WriteFacts ==
  ASSUME NEW h \in [Proc -> Memories], NEW p \in Proc, NEW t \in Thread,
         NEW v \in Var, NEW x \in Handle
  PROVE  /\ Write(h, p, t, v, x) \in [Proc -> Memories]
         /\ \A q \in Proc, s \in Thread, z \in Var :
              Write(h, p, t, v, x)[q][s][z] =
                IF q = p /\ s = t /\ z = v THEN x ELSE h[q][s][z]
<1>1. Write(h, p, t, v, x) \in [Proc -> Memories]
  BY WriteType DEF Write
<1>2. \A q \in Proc, s \in Thread, z \in Var :
        Write(h, p, t, v, x)[q][s][z] = IF q = p /\ s = t /\ z = v THEN x ELSE h[q][s][z]
  BY DEF Write, Memories
<1>3. QED
  BY <1>1, <1>2

(* The memories after create2 has returned.                                *)
LEMMA ReturnTwoMemory ==
  ASSUME handle \in [Proc -> Memories], NEW p \in Proc, NEW t \in Thread,
         NEW u \in Unique, NEW w \in Unique, ReturnTwo(p, t, u, w)
  PROVE  /\ handle' \in [Proc -> Memories]
         /\ \A q \in Proc, s \in Thread, v \in Var :
              handle'[q][s][v] = IF q # p \/ s # t THEN handle[q][s][v]
                                 ELSE IF v \in {"a", "b"} THEN Empty
                                 ELSE IF v = u THEN handle[p][t]["a"]
                                 ELSE IF v = w THEN handle[p][t]["b"] ELSE handle[q][s][v]
<1> DEFINE x  == handle[p][t]["a"]
           y  == handle[p][t]["b"]
           h1 == Write(handle, p, t, "a", Empty)
           h2 == Write(h1, p, t, u, x)
           h3 == Write(h2, p, t, "b", Empty)
           h4 == Write(h3, p, t, w, y)
<1>1. handle' = h4 /\ u # w
  BY DEF ReturnTwo, Write
<1>2. "a" \in Var /\ "b" \in Var /\ u \in Var /\ w \in Var
      /\ u # "a" /\ u # "b" /\ w # "a" /\ w # "b"
  BY VarFacts
<1>3. x \in Handle /\ y \in Handle /\ Empty \in Handle
  BY <1>2, EmptyFacts DEF Memories
<1> HIDE DEF x, y
<1>4. /\ h1 \in [Proc -> Memories]
      /\ \A q \in Proc, s \in Thread, v \in Var :
           h1[q][s][v] = IF q = p /\ s = t /\ v = "a" THEN Empty ELSE handle[q][s][v]
  BY <1>2, <1>3, WriteFacts
<1> HIDE DEF h1
<1>5. /\ h2 \in [Proc -> Memories]
      /\ \A q \in Proc, s \in Thread, v \in Var :
           h2[q][s][v] = IF q = p /\ s = t /\ v = u THEN x ELSE h1[q][s][v]
  <2>1. h1 \in [Proc -> Memories] /\ u \in Var /\ x \in Handle
    BY <1>2, <1>3, <1>4
  <2>2. QED
    BY <2>1, WriteFacts
<1> HIDE DEF h2
<1>6. /\ h3 \in [Proc -> Memories]
      /\ \A q \in Proc, s \in Thread, v \in Var :
           h3[q][s][v] = IF q = p /\ s = t /\ v = "b" THEN Empty ELSE h2[q][s][v]
  <2>1. h2 \in [Proc -> Memories] /\ "b" \in Var /\ Empty \in Handle
    BY <1>2, <1>3, <1>5
  <2>2. QED
    BY <2>1, WriteFacts
<1> HIDE DEF h3
<1>7. /\ h4 \in [Proc -> Memories]
      /\ \A q \in Proc, s \in Thread, v \in Var :
           h4[q][s][v] = IF q = p /\ s = t /\ v = w THEN y ELSE h3[q][s][v]
  <2>1. h3 \in [Proc -> Memories] /\ w \in Var /\ y \in Handle
    BY <1>2, <1>3, <1>6
  <2>2. QED
    BY <2>1, WriteFacts
<1> HIDE DEF h4
<1>8. ASSUME NEW q \in Proc, NEW s \in Thread, NEW v \in Var
      PROVE  h4[q][s][v] = IF q # p \/ s # t THEN handle[q][s][v]
                           ELSE IF v \in {"a", "b"} THEN Empty
                           ELSE IF v = u THEN x ELSE IF v = w THEN y ELSE handle[q][s][v]
  <2>1. /\ h1[q][s][v] = IF q = p /\ s = t /\ v = "a" THEN Empty ELSE handle[q][s][v]
        /\ h2[q][s][v] = IF q = p /\ s = t /\ v = u THEN x ELSE h1[q][s][v]
        /\ h3[q][s][v] = IF q = p /\ s = t /\ v = "b" THEN Empty ELSE h2[q][s][v]
        /\ h4[q][s][v] = IF q = p /\ s = t /\ v = w THEN y ELSE h3[q][s][v]
    BY <1>4, <1>5, <1>6, <1>7
  <2>2. QED
    BY <1>1, <1>2, <2>1
<1>9. QED
  BY <1>1, <1>7, <1>8 DEF x, y

(* What a step that starts no wrapper may do to the locals.                *)
LEMMA LocalsKept ==
  ASSUME NEW H, NEW C, Locals(H, C), NEW G, NEW D,
         \A s \in Thread :
           \/ G[s]["a"] = Empty /\ G[s]["b"] = Empty
           \/ G[s]["a"] = H[s]["a"] /\ G[s]["b"] = H[s]["b"] /\ D[s] = C[s]
  PROVE  Locals(G, D)
BY DEF Locals

(* The caller's two unique_fds take over the locals of create2: two moves. *)
LEMMA ReturnTwoStep ==
  ASSUME IInv, NEW p \in Proc, NEW t \in Thread, NEW u \in Unique, NEW w \in Unique,
         ReturnTwo(p, t, u, w)
  PROVE  IInv'
<1>1. /\ call[p][t] = "create2" /\ "idle" \in Call /\ t \in threads[p]
      /\ u # w
      /\ handle' = [handle EXCEPT ![p][t]["a"] = Empty, ![p][t][u] = handle[p][t]["a"],
                                  ![p][t]["b"] = Empty, ![p][t][w] = handle[p][t]["b"]]
      /\ call' = [call EXCEPT ![p][t] = "idle"]
      /\ table' = table /\ threads' = threads
  BY DEF ReturnTwo, Call, IInv, ProcInv
<1>2. /\ u \in Var /\ u # "a" /\ u # "b"
      /\ w \in Var /\ w # "a" /\ w # "b"
      /\ u # w
  BY <1>1, VarFacts
<1>3. \A s \in Thread, v \in Var : handle[p][s][v] \in Handle
  BY DEF IInv, Shape, Memories
<1>4. Shape' /\ \A q \in Proc \ {p} : Same(q)
  <2>1. handle' \in [Proc -> Memories]
    BY ReturnTwoMemory DEF IInv, Shape
  <2>2. \A q \in Proc \ {p} : handle'[q] = handle[q]
    BY <1>1 DEF IInv, Shape
  <2>3. QED
    BY <1>1, <2>1, <2>2 DEF IInv, Shape, Same
<1>5. \A s \in Thread, v \in Var :
        handle'[p][s][v] = IF s # t THEN handle[p][s][v]
                           ELSE IF v \in {"a", "b"} THEN Empty
                           ELSE IF v = u THEN handle[p][t]["a"]
                           ELSE IF v = w THEN handle[p][t]["b"] ELSE handle[p][s][v]
  <2>1. handle \in [Proc -> Memories]
    BY DEF IInv, Shape
  <2>2. QED
    BY <2>1, ReturnTwoMemory
<1>6. Good(table[p], handle'[p])
  <2> DEFINE G == [s \in Thread |-> [v \in Var |->
                     IF s = t /\ v = "a" THEN Empty
                     ELSE IF s = t /\ v = u THEN handle[p][t]["a"]
                     ELSE handle[p][s][v]]]
  <2>1. G \in Memories
    BY <1>3, VarFacts, EmptyFacts DEF Memories
  <2>2. /\ G[t][u] = handle[p][t]["a"] /\ G[t]["a"] = Empty
        /\ \A r \in Thread, z \in Var :
             ~(r = t /\ z = u) /\ ~(r = t /\ z = "a") => G[r][z] = handle[p][r][z]
        /\ G[t]["b"] = handle[p][t]["b"]
        /\ \A r \in Thread, z \in Var :
             G[r][z] = IF r # t THEN handle[p][r][z]
                       ELSE IF z = "a" THEN Empty
                       ELSE IF z = u THEN handle[p][t]["a"] ELSE handle[p][r][z]
    BY <1>2, VarFacts
  <2>3. Good(table[p], handle[p]) /\ handle'[p] \in Memories
    BY <1>4 DEF IInv, Shape, ProcInv
  <2> HIDE DEF G
  <2>4. Good(table[p], G)
    BY <1>2, <2>1, <2>2, <2>3, VarFacts, MoveIsGood
  <2>5. handle'[p][t][w] = G[t]["b"] /\ handle'[p][t]["b"] = Empty
    BY <1>2, <1>5, <2>2, VarFacts
  <2>6. ASSUME NEW r \in Thread, NEW z \in Var, ~(r = t /\ z = w), ~(r = t /\ z = "b")
        PROVE  handle'[p][r][z] = G[r][z]
    <3>1. CASE r # t
      BY <1>5, <2>2, <3>1
    <3>2. CASE r = t
      BY <1>5, <2>2, <2>6, <3>2
    <3>3. QED
      BY <3>1, <3>2
  <2>7. QED
    BY <1>2, <2>3, <2>4, <2>5, <2>6, VarFacts, MoveIsGood
<1>7. Locals(handle'[p], call'[p])
  <2>1. \A s \in Thread : call'[p][s] = IF s = t THEN "idle" ELSE call[p][s]
    BY <1>1 DEF IInv, Shape
  <2>2. Locals(handle[p], call[p])
    BY DEF IInv, ProcInv
  <2>3. QED
    BY <1>5, <2>1, <2>2, VarFacts, LocalsKept
<1>8. ProcInv(table'[p], handle'[p], call'[p], threads'[p])
  <2>1. Good(table'[p], handle'[p]) /\ call'[p] \in [Thread -> Call] /\ threads'[p] \subseteq Thread
    BY <1>1, <1>4, <1>6 DEF Shape
  <2>2. \A s \in Thread : call'[p][s] # "idle" => s \in threads'[p]
    BY <1>1 DEF IInv, Shape, ProcInv
  <2>3. threads'[p] # {}
    BY <1>1
  <2>4. QED
    BY <1>7, <2>1, <2>2, <2>3 DEF ProcInv
<1>9. QED
  BY <1>4, <1>8, OneProcess

(* Closing: the drop of a result, of a unique_fd, and close() by hand.     *)
(* Thread t of process p closes and empties its variables K.               *)
Closes(p, t, K) ==
  /\ t \in threads[p]
  /\ table' \in [Proc -> Tables]
  /\ \A q \in Proc \ {p} : table'[q] = table[q]
  /\ \A n \in Number : (\A v \in K : handle[p][t][v].fd # n) => table'[p][n] = table[p][n]
  /\ handle' \in [Proc -> Memories]
  /\ \A q \in Proc \ {p} : handle'[q] = handle[q]
  /\ \A s \in Thread, v \in Var :
       handle'[p][s][v] = IF s = t /\ v \in K THEN Empty ELSE handle[p][s][v]
  /\ call' \in [Proc -> [Thread -> Call]]
  /\ \A q \in Proc \ {p} : call'[q] = call[q]
  /\ \A s \in Thread : \/ call'[p][s] = call[p][s]
                       \/ s = t /\ call'[p][s] = "idle" /\ "a" \in K /\ "b" \in K
  /\ threads' = threads

(* Closing what a thread's own variables hold keeps the invariant.         *)
LEMMA CloseStep ==
  ASSUME IInv, NEW p \in Proc, NEW t \in Thread, NEW K \in SUBSET Var, Closes(p, t, K)
  PROVE  IInv'
<1>1. Shape' /\ \A q \in Proc \ {p} : Same(q)
  BY DEF Closes, IInv, Shape, Same
<1>2. Good(table'[p], handle'[p])
  <2>1. Good(table[p], handle[p])
    BY DEF IInv, ProcInv
  <2>2. table'[p] \in Tables /\ handle'[p] \in Memories
    BY <1>1 DEF Shape
  <2>3. /\ \A n \in Number :
             (\A v \in K : handle[p][t][v].fd # n) => table'[p][n] = table[p][n]
        /\ \A s \in Thread, v \in Var :
             handle'[p][s][v] = IF s = t /\ v \in K THEN Empty ELSE handle[p][s][v]
    BY DEF Closes
  <2>4. QED
    BY <2>1, <2>2, <2>3, CloseIsGood
<1>3. Locals(handle'[p], call'[p])
  <2>1. Locals(handle[p], call[p])
    BY DEF IInv, ProcInv
  <2>2. QED
    BY <2>1, VarFacts DEF Locals, Closes
<1>4. ProcInv(table'[p], handle'[p], call'[p], threads'[p])
  BY <1>1, <1>2, <1>3 DEF IInv, Shape, ProcInv, Closes
<1>5. QED
  BY <1>1, <1>4, OneProcess

(* cloudabi_sys_fd_close changes the numbers it is given, in one table.    *)
LEMMA AfterCloseFacts ==
  ASSUME IInv, NEW p \in Proc, NEW hs, table' = AfterClose(p, hs)
  PROVE  /\ table' \in [Proc -> Tables]
         /\ \A q \in Proc \ {p} : table'[q] = table[q]
         /\ \A n \in Number : (\A x \in hs : x.fd # n) => table'[p][n] = table[p][n]
         /\ \A n \in Number : (\E x \in hs : x.fd = n) => table'[p][n] = NoObject
BY DEF AfterClose, IInv, Shape, Tables

(* Dropping a wrapper's result closes and empties the locals.              *)
LEMMA DiscardCloses ==
  ASSUME IInv, NEW p \in Proc, NEW t \in Thread, Discard(p, t)
  PROVE  Closes(p, t, {"a", "b"})
<1>1. /\ t \in threads[p] /\ "idle" \in Call
      /\ table' = AfterClose(p, {handle[p][t]["a"], handle[p][t]["b"]})
      /\ handle' = [handle EXCEPT ![p][t]["a"] = Empty, ![p][t]["b"] = Empty]
      /\ call' = [call EXCEPT ![p][t] = "idle"] /\ threads' = threads
  BY DEF Discard, OneFd, Call, IInv, ProcInv
<1>2. /\ table' \in [Proc -> Tables]
      /\ \A q \in Proc \ {p} : table'[q] = table[q]
      /\ \A n \in Number : (\A v \in {"a", "b"} : handle[p][t][v].fd # n)
                             => table'[p][n] = table[p][n]
  <2> DEFINE hs == {handle[p][t]["a"], handle[p][t]["b"]}
  <2>1. \A n \in Number : (\A v \in {"a", "b"} : handle[p][t][v].fd # n)
                            => \A x \in hs : x.fd # n
    OBVIOUS
  <2>2. table' = AfterClose(p, hs)
    BY <1>1
  <2> HIDE DEF hs
  <2>3. /\ table' \in [Proc -> Tables]
        /\ \A q \in Proc \ {p} : table'[q] = table[q]
        /\ \A n \in Number : (\A x \in hs : x.fd # n) => table'[p][n] = table[p][n]
    BY <2>2, AfterCloseFacts
  <2>4. QED
    BY <2>1, <2>3
<1>3. /\ handle' \in [Proc -> Memories]
      /\ \A q \in Proc \ {p} : handle'[q] = handle[q]
      /\ \A s \in Thread, v \in Var :
           handle'[p][s][v] = IF s = t /\ v \in {"a", "b"} THEN Empty ELSE handle[p][s][v]
  <2>1. handle \in [Proc -> Memories]
    BY DEF IInv, Shape
  <2> DEFINE h == [handle EXCEPT ![p][t]["a"] = Empty]
  <2>2. h \in [Proc -> Memories]
    BY <2>1, VarFacts, EmptyFacts, WriteType
  <2>3. /\ \A q \in Proc \ {p} : h[q] = handle[q]
        /\ \A s \in Thread, v \in Var :
             h[p][s][v] = IF s = t /\ v = "a" THEN Empty ELSE handle[p][s][v]
    BY <2>1, VarFacts DEF Memories
  <2>4. handle' = [h EXCEPT ![p][t]["b"] = Empty]
    BY <1>1
  <2> HIDE DEF h
  <2>5. handle' \in [Proc -> Memories]
    BY <2>2, <2>4, VarFacts, EmptyFacts, WriteType
  <2>6. /\ \A q \in Proc \ {p} : handle'[q] = h[q]
        /\ \A s \in Thread, v \in Var :
             handle'[p][s][v] = IF s = t /\ v = "b" THEN Empty ELSE h[p][s][v]
    BY <2>2, <2>4, VarFacts DEF Memories
  <2>7. QED
    BY <2>3, <2>5, <2>6
<1>4. /\ call' \in [Proc -> [Thread -> Call]]
      /\ \A q \in Proc \ {p} : call'[q] = call[q]
      /\ \A s \in Thread : call'[p][s] = call[p][s] \/ (s = t /\ call'[p][s] = "idle")
  BY <1>1 DEF IInv, Shape
<1>5. QED
  BY <1>1, <1>2, <1>3, <1>4 DEF Closes

(* The destructor of a unique_fd, and close() by hand, close and empty one *)
(* variable.                                                               *)
LEMMA CloseVarCloses ==
  ASSUME IInv, NEW p \in Proc, NEW t \in Thread, NEW v \in Var, CloseVar(p, t, v)
  PROVE  Closes(p, t, {v})
<1>1. /\ t \in threads[p]
      /\ table' = AfterClose(p, {handle[p][t][v]})
      /\ handle' = [handle EXCEPT ![p][t][v] = Empty]
      /\ call' = call /\ threads' = threads
  BY DEF CloseVar, Idle
<1>2. /\ table' \in [Proc -> Tables]
      /\ \A q \in Proc \ {p} : table'[q] = table[q]
      /\ \A n \in Number : (\A w \in {v} : handle[p][t][w].fd # n)
                             => table'[p][n] = table[p][n]
  <2> DEFINE hs == {handle[p][t][v]}
  <2>1. \A n \in Number : (\A w \in {v} : handle[p][t][w].fd # n)
                            => \A x \in hs : x.fd # n
    OBVIOUS
  <2>2. table' = AfterClose(p, hs)
    BY <1>1
  <2> HIDE DEF hs
  <2>3. /\ table' \in [Proc -> Tables]
        /\ \A q \in Proc \ {p} : table'[q] = table[q]
        /\ \A n \in Number : (\A x \in hs : x.fd # n) => table'[p][n] = table[p][n]
    BY <2>2, AfterCloseFacts
  <2>4. QED
    BY <2>1, <2>3
<1>3. /\ handle' \in [Proc -> Memories]
      /\ \A q \in Proc \ {p} : handle'[q] = handle[q]
      /\ \A s \in Thread, w \in Var :
           handle'[p][s][w] = IF s = t /\ w \in {v} THEN Empty ELSE handle[p][s][w]
  BY <1>1, EmptyFacts DEF IInv, Shape, Memories
<1>4. QED
  BY <1>1, <1>2, <1>3 DEF Closes, IInv, Shape

(* A unique_fd moved to another variable, perhaps another thread's.        *)
LEMMA MoveStep ==
  ASSUME IInv, NEW p \in Proc, NEW t \in Thread, NEW u \in Unique,
         NEW s \in Thread, NEW w \in Unique, Move(p, t, u, s, w)
  PROVE  IInv'
<1>1. /\ t \in threads[p]
      /\ handle[p][t][u] # Empty /\ handle[p][s][w] = Empty
      /\ handle' = [handle EXCEPT ![p][t][u] = Empty, ![p][s][w] = handle[p][t][u]]
      /\ table' = table /\ call' = call /\ threads' = threads
  BY DEF Move, Idle
<1>2. /\ u \in Var /\ u # "a" /\ u # "b"
      /\ w \in Var /\ w # "a" /\ w # "b"
      /\ s # t \/ w # u
  BY <1>1, VarFacts
<1>3. handle \in [Proc -> Memories] /\ handle[p][t][u] \in Handle
  BY <1>2 DEF IInv, Shape, Memories
<1> DEFINE h == [handle EXCEPT ![p][t][u] = Empty]
<1>4. /\ h \in [Proc -> Memories]
      /\ \A q \in Proc \ {p} : h[q] = handle[q]
      /\ \A r \in Thread, v \in Var :
           h[p][r][v] = IF r = t /\ v = u THEN Empty ELSE handle[p][r][v]
  BY <1>2, <1>3, EmptyFacts DEF Memories
<1>5. handle' = [h EXCEPT ![p][s][w] = handle[p][t][u]]
  BY <1>1
<1> HIDE DEF h
<1>6. /\ handle' \in [Proc -> Memories]
      /\ \A q \in Proc \ {p} : handle'[q] = h[q]
      /\ \A r \in Thread, v \in Var :
           handle'[p][r][v] = IF r = s /\ v = w THEN handle[p][t][u] ELSE h[p][r][v]
  BY <1>2, <1>3, <1>4, <1>5 DEF Memories
<1>7. Shape' /\ \A q \in Proc \ {p} : Same(q)
  BY <1>1, <1>4, <1>6 DEF IInv, Shape, Same
<1>8. Good(table[p], handle'[p])
  <2>1. Good(table[p], handle[p]) /\ handle'[p] \in Memories
    BY <1>7 DEF IInv, Shape, ProcInv
  <2>2. /\ handle'[p][s][w] = handle[p][t][u] /\ handle'[p][t][u] = Empty
        /\ \A r \in Thread, v \in Var :
             ~(r = s /\ v = w) /\ ~(r = t /\ v = u) => handle'[p][r][v] = handle[p][r][v]
    BY <1>2, <1>4, <1>6
  <2>3. QED
    BY <1>2, <2>1, <2>2, MoveIsGood
<1>9. Locals(handle'[p], call'[p])
  <2>1. Locals(handle[p], call[p])
    BY DEF IInv, ProcInv
  <2>2. \A r \in Thread : /\ handle'[p][r]["a"] = handle[p][r]["a"]
                          /\ handle'[p][r]["b"] = handle[p][r]["b"]
    BY <1>2, <1>4, <1>6, VarFacts
  <2>3. call'[p] = call[p]
    BY <1>1
  <2>4. QED
    BY <2>1, <2>2, <2>3 DEF Locals
<1>10. ProcInv(table'[p], handle'[p], call'[p], threads'[p])
  BY <1>1, <1>8, <1>9 DEF IInv, ProcInv
<1>11. QED
  BY <1>7, <1>10, OneProcess

(* A number is made to denote another object.                              *)
LEMMA ReplaceStep ==
  ASSUME IInv, NEW p \in Proc, NEW t \in Thread,
         NEW x \in Usable(p), NEW y \in Usable(p), replace(p, t, x, y)
  PROVE  IInv'
<1>1. /\ t \in threads[p]
      /\ table' = [table EXCEPT ![p] = [table[p] EXCEPT ![x.fd] = table[p][y.fd]]]
      /\ handle' = [handle EXCEPT ![p] =
           [s \in Thread |-> [v \in Var |->
              IF handle[p][s][v].fd = x.fd THEN [fd |-> x.fd, obj |-> y.obj]
                                           ELSE handle[p][s][v]]]]
      /\ call' = call /\ threads' = threads
  BY DEF replace, AfterReplace, Idle, IInv, Shape, Tables
<1>2. x \in Handle /\ x # Empty /\ y \in Handle /\ y # Empty /\ table[p][y.fd] = y.obj
  BY VarFacts DEF Usable, IInv, Shape, ProcInv, Good, Memories, Denotes
<1>3. x.fd \in Number /\ x.fd # NoFd /\ y.fd \in Number /\ y.obj \in Object
  BY <1>2, HandleFacts
<1>4. [fd |-> x.fd, obj |-> y.obj] \in Handle
  BY <1>3 DEF Handle
<1>5. /\ handle' \in [Proc -> Memories]
      /\ \A q \in Proc \ {p} : handle'[q] = handle[q]
      /\ \A s \in Thread, v \in Var :
           handle'[p][s][v] = IF handle[p][s][v].fd = x.fd THEN [fd |-> x.fd, obj |-> y.obj]
                                                           ELSE handle[p][s][v]
  BY <1>1, <1>4 DEF IInv, Shape, Memories
<1>6. Shape' /\ \A q \in Proc \ {p} : Same(q)
  <2>1. table' \in [Proc -> Tables] /\ \A q \in Proc \ {p} : table'[q] = table[q]
    BY <1>1, <1>2, <1>3 DEF IInv, Shape, Tables
  <2>2. QED
    BY <1>1, <1>5, <2>1 DEF IInv, Shape, Same
<1>7. Good(table'[p], handle'[p])
  <2>1. Good(table[p], handle[p]) /\ handle'[p] \in Memories
    BY <1>6 DEF IInv, Shape, ProcInv
  <2>2. Good([table[p] EXCEPT ![x.fd] = y.obj], handle'[p])
    BY <1>3, <1>5, <2>1, ReplaceIsGood
  <2>3. QED
    BY <1>1, <1>2, <2>2 DEF IInv, Shape
<1>8. Locals(handle'[p], call'[p])
  <2> SUFFICES ASSUME NEW s \in Thread
               PROVE  /\ call'[p][s] \in {"idle", "error"} => handle'[p][s]["a"] = Empty
                      /\ call'[p][s] # "create2" => handle'[p][s]["b"] = Empty
    BY DEF Locals
  <2>1. \A v \in Var : handle[p][s][v] = Empty => handle'[p][s][v] = Empty
    BY <1>3, <1>5, EmptyFacts
  <2>2. /\ call[p][s] \in {"idle", "error"} => handle[p][s]["a"] = Empty
        /\ call[p][s] # "create2" => handle[p][s]["b"] = Empty
    BY DEF Locals, IInv, ProcInv
  <2>3. call'[p] = call[p]
    BY <1>1
  <2>4. QED
    BY <2>1, <2>2, <2>3, VarFacts
<1>9. ProcInv(table'[p], handle'[p], call'[p], threads'[p])
  BY <1>1, <1>7, <1>8 DEF IInv, ProcInv
<1>10. QED
  BY <1>6, <1>9, OneProcess

(* The end of a process.                                                   *)
LEMMA ExitStep ==
  ASSUME IInv, NEW p \in Proc, NEW t \in Thread, proc_exit(p, t)
  PROVE  IInv'
<1>1. NoTable \in Tables /\ NoHandles \in Memories
  BY EmptyFacts DEF NoTable, NoHandles, Tables, Memories
<1>2. Shape' /\ \A q \in Proc \ {p} : Same(q)
  BY <1>1, NoCallsFacts DEF proc_exit, IInv, Shape, Same
<1>3. /\ table'[p] = NoTable /\ handle'[p] = NoHandles
      /\ call'[p] = NoCalls /\ threads'[p] = {}
  BY DEF proc_exit, IInv, Shape
<1>4. Good(NoTable, NoHandles)
  BY <1>1, NothingIsGood
<1>5. Locals(NoHandles, NoCalls)
  BY VarFacts DEF Locals, NoHandles
<1>6. ProcInv(NoTable, NoHandles, NoCalls, {})
  BY <1>4, <1>5, NoCallsFacts DEF ProcInv, NoCalls
<1>7. QED
  BY <1>2, <1>3, <1>6, OneProcess

(* A fork: the parent opens a number for the child process, and the child  *)
(* gets a copy of the table the parent had and of the calling thread's     *)
(* variables.                                                              *)
LEMMA ForkStep ==
  ASSUME IInv, NEW p \in Proc, NEW t \in Thread, NEW q \in Proc, proc_fork(p, t, q)
  PROVE  IInv'
<1>1. PICK n \in Free(p), o \in Fresh :
        /\ table'  = [table  EXCEPT ![q] = table[p], ![p][n] = o]
        /\ handle' = [handle EXCEPT ![q] = ChildMemory(p, t),
                                    ![p][t]["a"] = [fd |-> n, obj |-> o]]
  BY DEF proc_fork
<1>2. /\ t \in threads[p] /\ call[p][t] = "idle" /\ p # q
      /\ call'    = [call    EXCEPT ![q] = [NoCalls EXCEPT ![t] = "fork"], ![p][t] = "fork"]
      /\ threads' = [threads EXCEPT ![q] = {t}]
      /\ "fork" \in Call /\ "fork" \in OneFd
  BY DEF proc_fork, Idle, Call, OneFd
<1>3. /\ n \in Number /\ o \in Object /\ table[p][n] = NoObject
      /\ [fd |-> n, obj |-> o] \in Handle
  BY DEF Free, Fresh, Handle
<1>4. /\ table[p] \in Tables /\ handle[p] \in Memories
      /\ Good(table[p], handle[p]) /\ Locals(handle[p], call[p])
  BY DEF IInv, Shape, ProcInv
<1>5. /\ ChildMemory(p, t) \in Memories
      /\ \A s \in Thread, v \in Var :
           ChildMemory(p, t)[s][v] = IF s = t /\ v # "a" THEN handle[p][t][v] ELSE Empty
  BY <1>4, VarFacts, EmptyFacts DEF ChildMemory, NoHandles, Memories
<1>6. table' \in [Proc -> Tables] /\ \A r \in Proc \ {p, q} : table'[r] = table[r]
  <2>1. [table EXCEPT ![q] = table[p]] \in [Proc -> Tables]
    BY <1>4 DEF IInv, Shape
  <2>2. QED
    BY <1>1, <1>3, <2>1 DEF Tables
<1>7. handle' \in [Proc -> Memories] /\ \A r \in Proc \ {p, q} : handle'[r] = handle[r]
  <2> DEFINE h == [handle EXCEPT ![q] = ChildMemory(p, t)]
  <2>1. h \in [Proc -> Memories]
    BY <1>5 DEF IInv, Shape
  <2>2. handle' = [h EXCEPT ![p][t]["a"] = [fd |-> n, obj |-> o]]
    BY <1>1
  <2> HIDE DEF h
  <2>3. handle' \in [Proc -> Memories]
    BY <1>3, <2>1, <2>2, VarFacts, WriteType
  <2>4. \A r \in Proc \ {p} : handle'[r] = h[r]
    BY <2>1, <2>2
  <2>5. QED
    BY <2>3, <2>4 DEF h, IInv, Shape
<1>8. /\ call' \in [Proc -> [Thread -> Call]] /\ threads' \in [Proc -> SUBSET Thread]
      /\ \A r \in Proc \ {p, q} : call'[r] = call[r] /\ threads'[r] = threads[r]
  <2>1. [NoCalls EXCEPT ![t] = "fork"] \in [Thread -> Call]
    BY <1>2, NoCallsFacts
  <2>2. [call EXCEPT ![q] = [NoCalls EXCEPT ![t] = "fork"]] \in [Proc -> [Thread -> Call]]
    BY <2>1 DEF IInv, Shape
  <2>3. QED
    BY <1>2, <2>2 DEF IInv, Shape
<1>9. Shape'
  BY <1>6, <1>7, <1>8 DEF Shape
<1>10. ProcInv(table'[p], handle'[p], call'[p], threads'[p])
  <2>1. /\ table'[p] = [table[p] EXCEPT ![n] = o]
        /\ \A s \in Thread, v \in Var :
             handle'[p][s][v] = IF s = t /\ v = "a" THEN [fd |-> n, obj |-> o]
                                                    ELSE handle[p][s][v]
    BY <1>1, <1>2, <1>4, VarFacts DEF IInv, Shape, Memories
  <2>2. handle'[p] \in Memories
    BY <1>9 DEF Shape
  <2>3. Good([table[p] EXCEPT ![n] = o], handle'[p])
    <3>1. Good(table[p], handle[p])
      BY <1>4
    <3>2. "a" \in Var
      BY VarFacts
    <3>3. QED
      BY <1>3, <2>1, <2>2, <3>1, <3>2, AllocateIsGood
  <2>4. \A s \in Thread : call'[p][s] = IF s = t THEN "fork" ELSE call[p][s]
    BY <1>2 DEF IInv, Shape
  <2>5. Locals(handle'[p], call'[p])
    <3> SUFFICES ASSUME NEW s \in Thread
                 PROVE  /\ call'[p][s] \in {"idle", "error"} => handle'[p][s]["a"] = Empty
                        /\ call'[p][s] # "create2" => handle'[p][s]["b"] = Empty
      BY DEF Locals
    <3>1. /\ call[p][s] \in {"idle", "error"} => handle[p][s]["a"] = Empty
          /\ call[p][s] # "create2" => handle[p][s]["b"] = Empty
      BY <1>4 DEF Locals
    <3>2. /\ handle'[p][s]["b"] = handle[p][s]["b"]
          /\ s # t => handle'[p][s]["a"] = handle[p][s]["a"]
      BY <2>1, VarFacts
    <3>3. call[p][t] = "idle"
      BY <1>2
    <3>4. QED
      BY <2>4, <3>1, <3>2, <3>3
  <2>6. threads'[p] = threads[p]
    BY <1>2 DEF IInv, Shape
  <2>7. QED
    BY <1>2, <1>9, <2>1, <2>3, <2>4, <2>5, <2>6 DEF IInv, Shape, ProcInv
<1>11. ProcInv(table'[q], handle'[q], call'[q], threads'[q])
  <2>1. /\ table'[q] = table[p] /\ handle'[q] = ChildMemory(p, t)
        /\ call'[q] = [NoCalls EXCEPT ![t] = "fork"] /\ threads'[q] = {t}
    BY <1>1, <1>2 DEF IInv, Shape
  <2>2. Good(table[p], ChildMemory(p, t))
    BY <1>4, <1>5, ForgetIsGood
  <2>3. \A s \in Thread : call'[q][s] = IF s = t THEN "fork" ELSE "idle"
    BY <2>1 DEF NoCalls
  <2>4. Locals(ChildMemory(p, t), call'[q])
    BY <1>2, <1>4, <1>5, <2>3, VarFacts DEF Locals
  <2>5. call'[q] \in [Thread -> Call]
    BY <1>9 DEF Shape
  <2>6. QED
    BY <2>1, <2>2, <2>3, <2>4, <2>5 DEF ProcInv
<1>12. \A r \in Proc \ {p, q} : ProcInv(table'[r], handle'[r], call'[r], threads'[r])
  BY <1>6, <1>7, <1>8 DEF IInv
<1>13. QED
  BY <1>9, <1>10, <1>11, <1>12 DEF IInv

(* A program image is fine from the start.                                 *)
LEMMA ImageInv ==
  ASSUME NEW t \in Thread, NEW given \in SUBSET Raw,
         NEW num \in Injection(given, Number), NEW obj \in [given -> Object]
  PROVE  /\ ProcInv(ImageTable(given, num, obj), ImageHandles(t, given, num, obj),
                    NoCalls, Thread)
         /\ ImageTable(given, num, obj) \in Tables
         /\ ImageHandles(t, given, num, obj) \in Memories
<1>1. Good(ImageTable(given, num, obj), ImageHandles(t, given, num, obj))
  BY ImageIsGood
<1>2. \A s \in Thread : /\ ImageHandles(t, given, num, obj)[s]["a"] = Empty
                        /\ ImageHandles(t, given, num, obj)[s]["b"] = Empty
  BY VarFacts DEF ImageHandles, NoHandles
<1>3. Locals(ImageHandles(t, given, num, obj), NoCalls)
  BY <1>2 DEF Locals
<1>4. (\A s \in Thread : NoCalls[s] = "idle") /\ Thread # {}
  BY DEF NoCalls
<1>5. QED
  BY <1>1, <1>3, <1>4, NoCallsFacts DEF ProcInv, Good

(* An exec starts a new image with what it was given.                      *)
LEMMA ExecStep ==
  ASSUME IInv, NEW p \in Proc, NEW t \in Thread, NEW given \in SUBSET Raw,
         NEW src \in [given -> Usable(p)], NEW num \in Injection(given, Number),
         proc_exec(p, t, given, src, num)
  PROVE  IInv'
<1> DEFINE obj == [v \in given |-> src[v].obj]
           T == ImageTable(given, num, obj)
           H == ImageHandles(t, given, num, obj)
<1>1. \A x \in Usable(p) : x.obj \in Object /\ table[p][x.fd] = x.obj
  <2> SUFFICES ASSUME NEW x \in Usable(p)
               PROVE  x.obj \in Object /\ table[p][x.fd] = x.obj
    OBVIOUS
  <2>1. x \in Handle /\ x # Empty /\ table[p][x.fd] = x.obj
    BY VarFacts DEF Usable, IInv, Shape, ProcInv, Good, Memories, Denotes
  <2>2. QED
    BY <2>1, HandleFacts
<1>2. obj \in [given -> Object] /\ obj = [v \in given |-> table[p][src[v].fd]]
  BY <1>1
<1>3. /\ table'   = [table   EXCEPT ![p] = T]
      /\ handle'  = [handle  EXCEPT ![p] = H]
      /\ call'    = [call    EXCEPT ![p] = NoCalls]
      /\ threads' = [threads EXCEPT ![p] = Thread]
  BY <1>2 DEF proc_exec
<1> HIDE DEF obj
<1>4. ProcInv(T, H, NoCalls, Thread) /\ T \in Tables /\ H \in Memories
  BY <1>2, ImageInv
<1> HIDE DEF T, H
<1>5. Shape' /\ \A q \in Proc \ {p} : Same(q)
  BY <1>3, <1>4, NoCallsFacts DEF IInv, Shape, Same
<1>6. ProcInv(table'[p], handle'[p], call'[p], threads'[p])
  BY <1>3, <1>4 DEF IInv, Shape
<1>7. QED
  BY <1>5, <1>6, OneProcess

-----------------------------------------------------------------------------

(* The first process starts as an image that was given its descriptors.    *)
LEMMA InitInv == Init => IInv
<1> SUFFICES ASSUME Init PROVE IInv
  OBVIOUS
<1>1. PICK p \in Proc, t \in Thread, given \in SUBSET Raw :
        \E num \in Injection(given, Number), obj \in [given -> Object] :
          /\ table   = [[q \in Proc |-> NoTable] EXCEPT ![p] = ImageTable(given, num, obj)]
          /\ handle  = [[q \in Proc |-> NoHandles]
                          EXCEPT ![p] = ImageHandles(t, given, num, obj)]
          /\ call    = [q \in Proc |-> NoCalls]
          /\ threads = [[q \in Proc |-> {}] EXCEPT ![p] = Thread]
  BY DEF Init
<1>2. PICK num \in Injection(given, Number), obj \in [given -> Object] :
        /\ table   = [[q \in Proc |-> NoTable] EXCEPT ![p] = ImageTable(given, num, obj)]
        /\ handle  = [[q \in Proc |-> NoHandles]
                        EXCEPT ![p] = ImageHandles(t, given, num, obj)]
        /\ call    = [q \in Proc |-> NoCalls]
        /\ threads = [[q \in Proc |-> {}] EXCEPT ![p] = Thread]
  BY <1>1
<1> DEFINE T == ImageTable(given, num, obj)
           H == ImageHandles(t, given, num, obj)
<1>3. ProcInv(T, H, NoCalls, Thread) /\ T \in Tables /\ H \in Memories
  BY ImageInv
<1>4. NoTable \in Tables /\ NoHandles \in Memories
  BY EmptyFacts DEF NoTable, NoHandles, Tables, Memories
<1>5. ProcInv(NoTable, NoHandles, NoCalls, {})
  <2>1. Good(NoTable, NoHandles)
    BY <1>4, NothingIsGood
  <2>2. Locals(NoHandles, NoCalls)
    BY VarFacts DEF Locals, NoHandles
  <2>3. QED
    BY <2>1, <2>2, NoCallsFacts DEF ProcInv, NoCalls
<1>6. Shape
  BY <1>2, <1>3, <1>4, NoCallsFacts DEF Shape
<1>7. ASSUME NEW q \in Proc PROVE ProcInv(table[q], handle[q], call[q], threads[q])
  <2> HIDE DEF T, H
  <2>1. CASE q = p
    <3>1. table[q] = T /\ handle[q] = H /\ call[q] = NoCalls /\ threads[q] = Thread
      BY <1>2, <2>1 DEF T, H
    <3>2. QED
      BY <1>3, <3>1
  <2>2. CASE q # p
    <3>1. table[q] = NoTable /\ handle[q] = NoHandles /\ call[q] = NoCalls /\ threads[q] = {}
      BY <1>2, <2>2
    <3>2. QED
      BY <1>5, <3>1
  <2>3. QED
    BY <2>1, <2>2
<1>8. QED
  BY <1>6, <1>7 DEF IInv

(* dup, create1, file_open and sock_accept open one number.                *)
LEMMA OpenStep ==
  ASSUME IInv, NEW p \in Proc, NEW t \in Thread,
         \/ create1(p, t)
         \/ \E x \in Usable(p) : dup(p, t, x) \/ file_open(p, t, x) \/ sock_accept(p, t, x)
  PROVE  IInv'
<1>1. Fresh \subseteq Object /\ {"create1", "dup", "file_open", "sock_accept"} \subseteq OneFd
  BY DEF Fresh, OneFd
<1>2. CASE create1(p, t)
  BY <1>1, <1>2, AllocateStep DEF create1
<1>3. ASSUME NEW x \in Usable(p), file_open(p, t, x) \/ sock_accept(p, t, x)
      PROVE  IInv'
  BY <1>1, <1>3, AllocateStep DEF file_open, sock_accept
<1>4. ASSUME NEW x \in Usable(p), dup(p, t, x)
      PROVE  IInv'
  <2>1. x \in Handle /\ x # Empty /\ table[p][x.fd] = x.obj
    BY VarFacts DEF Usable, IInv, Shape, ProcInv, Good, Memories, Denotes
  <2>2. x.obj \in Object /\ Allocate(p, t, "dup", x.obj, x.obj)
    BY <1>4, <2>1, HandleFacts DEF dup
  <2>3. QED
    BY <1>1, <2>2, AllocateStep
<1>5. QED
  BY <1>2, <1>3, <1>4

(* Every step of a thread keeps the invariant: one case for each action.   *)
LEMMA StepInv ==
  ASSUME IInv, NEW p \in Proc, NEW t \in Thread, Step(p, t)
  PROVE  IInv'
<1>1. CASE Fail(p, t) \/ ReturnError(p, t)
  BY <1>1, FailStep
<1>2. CASE create1(p, t)
  BY <1>2, OpenStep
<1>3. CASE create2(p, t)
  BY <1>3, Create2Step
<1>4. CASE \E x \in Usable(p) : dup(p, t, x) \/ file_open(p, t, x) \/ sock_accept(p, t, x)
  BY <1>4, OpenStep
<1>5. CASE \E x, y \in Usable(p) : replace(p, t, x, y)
  BY <1>5, ReplaceStep
<1>6. CASE \E u \in Unique : ReturnOne(p, t, u)
  BY <1>6, ReturnOneStep
<1>7. CASE \E u \in Unique : fd_closer(p, t, u)
  BY <1>7, VarFacts, CloseVarCloses, CloseStep DEF fd_closer
<1>8. CASE \E u, w \in Unique : ReturnTwo(p, t, u, w)
  BY <1>8, ReturnTwoStep
<1>9. CASE Discard(p, t)
  BY <1>9, VarFacts, DiscardCloses, CloseStep
<1>10. CASE \E r \in Raw : close(p, t, r)
  BY <1>10, VarFacts, CloseVarCloses, CloseStep DEF close
<1>11. CASE \E u, w \in Unique, s \in Thread : Move(p, t, u, s, w)
  BY <1>11, MoveStep
<1>12. CASE \E q \in Proc : proc_fork(p, t, q)
  BY <1>12, ForkStep
<1>13. CASE Exec(p, t)
  BY <1>13, ExecStep DEF Exec
<1>14. CASE proc_exit(p, t)
  BY <1>14, ExitStep
<1>15. QED
  BY <1>1, <1>2, <1>3, <1>4, <1>5, <1>6, <1>7, <1>8, <1>9, <1>10, <1>11, <1>12, <1>13,
     <1>14 DEF Step, Keeping

(* So does every step of the system.                                       *)
LEMMA NextInv == IInv /\ [Next]_vars => IInv'
<1> SUFFICES ASSUME IInv, [Next]_vars PROVE IInv'
  OBVIOUS
<1>1. CASE UNCHANGED vars
  BY <1>1 DEF vars, IInv, Shape
<1>2. CASE Next
  BY <1>2, StepInv DEF Next
<1>3. QED
  BY <1>1, <1>2

(* The invariant holds throughout.                                         *)
LEMMA Invariant == Spec => []IInv
<1>1. QED
  BY InitInv, NextInv, PTL DEF Spec

(* Variables keep their types, and nothing is left of a dead process.      *)
THEOREM TypeCorrect == Spec => []TypeOK
BY Invariant, InvImplies, PTL

(* No descriptor ever has two owners, whatever the threads do between the  *)
(* system call of a wrapper and its return.                                *)
THEOREM SingleOwnership == Spec => []SoleOwner
BY Invariant, InvImplies, PTL

(* What a variable holds stays open and stays the same object until the    *)
(* holder gives it up or replaces it: no close ever hits the wrong file.   *)
THEOREM HandlesStayValid == Spec => []HandleDenotesItsObject
BY Invariant, InvImplies, PTL

-----------------------------------------------------------------------------
(* Who closes.  Steps that open, move or return close nothing; of the      *)
(* others it is followed which variable held the number.                   *)

ClosedRightly(p, n) ==
  \/ \E t \in threads[p] : n \in HeldBy(p, t) \ HeldBy(p, t)' /\ n \notin Held(p)'
  \/ threads'[p] = {}
  \/ \E t \in Thread : Exec(p, t)

ClosesNothing ==
  \A p \in Proc, n \in Number : table[p][n] # NoObject => table'[p][n] # NoObject

OthersKeep(p) == \A q \in Proc \ {p} : table'[q] = table[q]

(* A thread that closes what its own variables hold gives that up, and, as *)
(* there is one owner, no one else is left with it.                        *)
LEMMA ClosesRightly ==
  ASSUME IInv, NEW p \in Proc, NEW t \in Thread, NEW K \in SUBSET Var, Closes(p, t, K),
         NEW q \in Proc, NEW n \in Number, table[q][n] # NoObject, table'[q][n] = NoObject
  PROVE  ClosedRightly(q, n)
<1>1. q = p
  BY DEF Closes
<1>2. PICK v \in K : handle[p][t][v].fd = n
  BY <1>1 DEF Closes
<1>3. n # NoFd
  BY NoFdAssumption
<1>4. ASSUME NEW s \in Thread, NEW w \in Var PROVE handle'[p][s][w].fd # n
  <2>1. CASE s = t /\ w \in K
    BY <1>3, <2>1, EmptyFacts DEF Closes
  <2>2. CASE ~(s = t /\ w \in K)
    <3>1. handle'[p][s][w] = handle[p][s][w]
      BY <2>2 DEF Closes
    <3>2. Sole(handle[p])
      BY DEF IInv, ProcInv, Good
    <3>3. handle[p][s][w].fd # n
      BY <1>2, <1>3, <2>2, <3>2 DEF Sole
    <3>4. QED
      BY <3>1, <3>3
  <2>3. QED
    BY <2>1, <2>2
<1>5. t \in threads[p] /\ n \in HeldBy(p, t)
  BY <1>2 DEF Closes, HeldBy
<1>6. \A s \in Thread : n \notin HeldBy(p, s)'
  BY <1>4 DEF HeldBy
<1>7. n \notin Held(p)'
  BY <1>6 DEF Held
<1>8. QED
  BY <1>1, <1>5, <1>6, <1>7 DEF ClosedRightly

(* Writing objects to entries of one table closes nothing in it.           *)
LEMMA OpeningCloses ==
  ASSUME IInv, NEW p \in Proc, NEW t, NEW c, NEW o \in Object, NEW m,
         Allocate(p, t, c, o, m)
  PROVE  ClosesNothing
<1>1. PICK n \in Free(p) : table' = [table EXCEPT ![p][n] = o]
  BY DEF Allocate
<1>2. QED
  BY <1>1, NoObjectAssumption DEF ClosesNothing, IInv, Shape, Tables, Free

(* What a usable handle denotes is an object.                              *)
LEMMA UsableFacts ==
  ASSUME IInv, NEW p \in Proc, NEW x \in Usable(p)
  PROVE  x.fd \in Number /\ x.obj \in Object /\ table[p][x.fd] = x.obj
<1>1. x \in Handle /\ x # Empty /\ table[p][x.fd] = x.obj
  BY VarFacts DEF Usable, IInv, Shape, ProcInv, Good, Memories, Denotes
<1>2. QED
  BY <1>1, HandleFacts

(* Every step of a thread closes rightly: one case for each action.        *)
LEMMA StepCloses ==
  ASSUME IInv, NEW p \in Proc, NEW t \in Thread, Step(p, t),
         NEW q \in Proc, NEW n \in Number, table[q][n] # NoObject, table'[q][n] = NoObject
  PROVE  ClosedRightly(q, n)
<1>1. ASSUME ClosesNothing PROVE FALSE
  BY <1>1 DEF ClosesNothing
<1>2. CASE table' = table
  BY <1>2
<1>3. CASE create1(p, t)
  BY <1>1, <1>3, OpeningCloses DEF create1, Fresh
<1>4. CASE create2(p, t)
  <2>1. PICK n1 \in Free(p), n2 \in Free(p), o1 \in Fresh, o2 \in Fresh :
          /\ n1 # n2 /\ o1 # o2
          /\ table' = [table EXCEPT ![p][n1] = o1, ![p][n2] = o2]
          /\ \E ab \in Create2Locals([fd |-> n1, obj |-> o1], [fd |-> n2, obj |-> o2]) :
               handle' = [handle EXCEPT ![p][t]["a"] = ab[1], ![p][t]["b"] = ab[2]]
    BY <1>4 DEF create2
  <2>2. o1 # NoObject /\ o2 # NoObject
    BY <2>1, NoObjectAssumption DEF Fresh
  <2>3. ClosesNothing
    BY <2>1, <2>2 DEF ClosesNothing, IInv, Shape, Tables, Free
  <2>4. QED
    BY <1>1, <2>3
<1>5. CASE \E x \in Usable(p) : dup(p, t, x) \/ file_open(p, t, x) \/ sock_accept(p, t, x)
  <2>1. PICK x \in Usable(p) : dup(p, t, x) \/ file_open(p, t, x) \/ sock_accept(p, t, x)
    BY <1>5
  <2>2. table[p][x.fd] \in Object
    BY UsableFacts
  <2>3. QED
    BY <1>1, <2>1, <2>2, OpeningCloses DEF dup, file_open, sock_accept, Fresh
<1>6. CASE \E x, y \in Usable(p) : replace(p, t, x, y)
  <2>1. PICK x \in Usable(p), y \in Usable(p) : replace(p, t, x, y)
    BY <1>6
  <2>2. table' = [table EXCEPT ![p] = [table[p] EXCEPT ![x.fd] = table[p][y.fd]]]
    BY <2>1 DEF replace, AfterReplace, IInv, Shape, Tables
  <2>3. table[p][y.fd] # NoObject
    BY UsableFacts, NoObjectAssumption
  <2>4. ClosesNothing
    BY <2>2, <2>3 DEF ClosesNothing, IInv, Shape, Tables
  <2>5. QED
    BY <1>1, <2>4
<1>7. CASE \E u \in Unique : fd_closer(p, t, u)
  BY <1>7, VarFacts, CloseVarCloses, ClosesRightly DEF fd_closer
<1>8. CASE \E r \in Raw : close(p, t, r)
  BY <1>8, VarFacts, CloseVarCloses, ClosesRightly DEF close
<1>9. CASE Discard(p, t)
  BY <1>9, VarFacts, DiscardCloses, ClosesRightly
<1>10. CASE \E r \in Proc : proc_fork(p, t, r)
  <2>1. PICK r \in Proc : proc_fork(p, t, r)
    BY <1>10
  <2>2. PICK m \in Free(p), o \in Fresh :
          table' = [table EXCEPT ![r] = table[p], ![p][m] = o]
    BY <2>1 DEF proc_fork
  <2>3. r # p /\ table[r] = NoTable
    BY <2>1 DEF proc_fork, Idle, IInv, ProcInv
  <2>4. \A k \in Number : table[r][k] = NoObject
    BY <2>3 DEF NoTable
  <2>5. \A k \in Number : table[p][k] # NoObject => table'[p][k] # NoObject
    BY <2>2, <2>3, NoObjectAssumption DEF Fresh, Free, IInv, Shape, Tables
  <2>6. \A s \in Proc \ {p, r} : table'[s] = table[s]
    BY <2>2, <2>3 DEF IInv, Shape
  <2>7. ClosesNothing
    BY <2>4, <2>5, <2>6 DEF ClosesNothing
  <2>8. QED
    BY <1>1, <2>7
<1>11. CASE Exec(p, t)
  <2>1. OthersKeep(p)
    BY <1>11 DEF Exec, proc_exec, OthersKeep, IInv, Shape
  <2>2. q = p
    BY <2>1 DEF OthersKeep
  <2>3. QED
    BY <1>11, <2>2 DEF ClosedRightly
<1>12. CASE proc_exit(p, t)
  <2>1. OthersKeep(p) /\ threads'[p] = {}
    BY <1>12 DEF proc_exit, OthersKeep, IInv, Shape
  <2>2. q = p
    BY <2>1 DEF OthersKeep
  <2>3. QED
    BY <2>1, <2>2 DEF ClosedRightly
<1>13. CASE \/ Fail(p, t) \/ ReturnError(p, t)
            \/ \E u \in Unique : ReturnOne(p, t, u)
            \/ \E u, w \in Unique : ReturnTwo(p, t, u, w)
            \/ \E u, w \in Unique, s \in Thread : Move(p, t, u, s, w)
  BY <1>2, <1>13 DEF Fail, ReturnError, ReturnOne, ReturnTwo, Move
<1>14. QED
  BY <1>3, <1>4, <1>5, <1>6, <1>7, <1>8, <1>9, <1>10, <1>11, <1>12, <1>13 DEF Step, Keeping

(* A number is closed by the thread that owns it and by no other, or with  *)
(* its whole process image: no wrapper, destructor or replace ever closes  *)
(* what another thread relies on.                                          *)
THEOREM OnlyHoldersClose == Spec => CloseOnlyByHolder
<1>1. ASSUME IInv, [Next]_vars
      PROVE  [\A p \in Proc, n \in Number :
                table[p][n] # NoObject /\ table'[p][n] = NoObject =>
                  \/ \E t \in threads[p] :
                       n \in HeldBy(p, t) \ HeldBy(p, t)' /\ n \notin Held(p)'
                  \/ threads'[p] = {}
                  \/ \E t \in Thread : Exec(p, t)]_vars
  <2>1. CASE Next
    <3>1. PICK p \in Proc, t \in Thread : Step(p, t)
      BY <2>1 DEF Next
    <3>2. \A q \in Proc, n \in Number :
            table[q][n] # NoObject /\ table'[q][n] = NoObject => ClosedRightly(q, n)
      BY <1>1, <3>1, StepCloses
    <3>3. QED
      BY <3>2 DEF ClosedRightly
  <2>2. CASE UNCHANGED vars
    BY <2>2
  <2>3. QED
    BY <1>1, <2>1, <2>2
<1>2. QED
  BY <1>1, Invariant, PTL DEF Spec, CloseOnlyByHolder

-----------------------------------------------------------------------------
(* Descriptors are lost in two ways only.  For each action it is shown     *)
(* that a number that is open and unheld after it was so before; create2   *)
(* and the child of a fork are the exceptions.                             *)

(* Is number n open in table T, and held by nothing in memory H?           *)
Lost(T, H, n) == T[n] # NoObject /\ \A s \in Thread, v \in Var : H[s][v].fd # n

NoNewLeak(p) ==
  \A n \in Number : Lost(table'[p], handle'[p], n) => Lost(table[p], handle[p], n)

(* Leaked is the set of lost numbers, before and after a step.             *)
LEMMA LeakedFacts ==
  ASSUME NEW p \in Proc
  PROVE  /\ Leaked(p)  = {n \in Number : Lost(table[p], handle[p], n)}
         /\ Leaked(p)' = {n \in Number : Lost(table'[p], handle'[p], n)}
<1>1. \A n : n \in Held(p) <=> \E s \in Thread, v \in Var : handle[p][s][v].fd = n
  BY DEF Held, HeldBy
<1>2. \A n : n \in Held(p)' <=> \E s \in Thread, v \in Var : handle'[p][s][v].fd = n
  BY DEF Held, HeldBy
<1>3. Leaked(p) = {n \in Number : Lost(table[p], handle[p], n)}
  BY <1>1 DEF Leaked, Lost
<1>4. Leaked(p)' = {n \in Number : Lost(table'[p], handle'[p], n)}
  BY <1>2 DEF Leaked, Lost
<1>5. QED
  BY <1>3, <1>4

(* Nothing is lost of a process that a step leaves alone, nor if what was  *)
(* held still is and nothing is opened.                                    *)
LEMMA SameNoLeak ==
  ASSUME NEW p \in Proc, table'[p] = table[p],
         \A s \in Thread, v \in Var : \E r \in Thread, w \in Var :
           handle'[p][r][w].fd = handle[p][s][v].fd
  PROVE  NoNewLeak(p)
<1> SUFFICES ASSUME NEW n \in Number, Lost(table'[p], handle'[p], n)
             PROVE  Lost(table[p], handle[p], n)
  BY DEF NoNewLeak
<1>1. \A r \in Thread, w \in Var : handle'[p][r][w].fd # n
  BY DEF Lost
<1>2. ASSUME NEW s \in Thread, NEW v \in Var PROVE handle[p][s][v].fd # n
  <2>1. PICK r \in Thread, w \in Var : handle'[p][r][w].fd = handle[p][s][v].fd
    OBVIOUS
  <2> DEFINE m == handle[p][s][v].fd
             k == handle'[p][r][w].fd
  <2>2. k = m /\ k # n
    BY <1>1, <2>1
  <2> HIDE DEF m, k
  <2>3. m # n
    BY <2>2
  <2>4. QED
    BY <2>3 DEF m
<1>3. QED
  BY <1>2 DEF Lost

(* A process whose memory a step leaves alone.                             *)
LEMMA OtherNoLeak ==
  ASSUME NEW p \in Proc, table'[p] = table[p], handle'[p] = handle[p]
  PROVE  NoNewLeak(p)
BY DEF NoNewLeak

(* A step of process p leaves table and memory of the others alone.        *)
OnlyOf(p) == \A q \in Proc \ {p} : table'[q] = table[q] /\ handle'[q] = handle[q]

(* A step of process p alone that loses nothing there loses nothing.       *)
LEMMA OnlyOfNoLeak ==
  ASSUME NEW p \in Proc, OnlyOf(p), NoNewLeak(p), NEW q \in Proc
  PROVE  NoNewLeak(q)
BY OtherNoLeak DEF OnlyOf

(* What a system call opens, the wrapper's local holds; nothing is         *)
(* forgotten for it, since the local was empty.                            *)
LEMMA OpenedIsHeld ==
  ASSUME IInv, NEW p \in Proc, NEW t \in Thread, Idle(p, t), NEW n \in Number, NEW o,
         NEW x, x.fd = n,
         table'[p] = [table[p] EXCEPT ![n] = o],
         \A s \in Thread, v \in Var :
           handle'[p][s][v] = IF s = t /\ v = "a" THEN x ELSE handle[p][s][v]
  PROVE  NoNewLeak(p)
<1> SUFFICES ASSUME NEW k \in Number, Lost(table'[p], handle'[p], k)
             PROVE  Lost(table[p], handle[p], k)
  BY DEF NoNewLeak
<1>1. k # n
  BY VarFacts DEF Lost
<1>2. table[p][k] # NoObject
  BY <1>1 DEF Lost, IInv, Shape, Tables
<1>3. handle[p][t]["a"].fd # k
  <2>1. handle[p][t]["a"] = Empty
    BY DEF Idle, IInv, ProcInv, Locals
  <2>2. QED
    BY <2>1, EmptyFacts, NoFdAssumption
<1>4. ASSUME NEW s \in Thread, NEW v \in Var PROVE handle[p][s][v].fd # k
  BY <1>3 DEF Lost
<1>5. QED
  BY <1>2, <1>4 DEF Lost

(* The wrappers that return one descriptor.                                *)
LEMMA AllocateNoLeak ==
  ASSUME IInv, NEW p \in Proc, NEW t \in Thread, NEW c, NEW o, NEW m,
         Allocate(p, t, c, o, m), NEW q \in Proc
  PROVE  NoNewLeak(q)
<1>1. PICK n \in Free(p) :
        /\ table'  = [table  EXCEPT ![p][n] = o]
        /\ handle' = [handle EXCEPT ![p][t]["a"] = [fd |-> n, obj |-> m]]
  BY DEF Allocate
<1>2. n \in Number /\ Idle(p, t)
  BY DEF Free, Allocate, Enter
<1>3. /\ table'[p] = [table[p] EXCEPT ![n] = o]
      /\ \A s \in Thread, v \in Var :
           handle'[p][s][v] = IF s = t /\ v = "a" THEN [fd |-> n, obj |-> m]
                                                  ELSE handle[p][s][v]
  BY <1>1, <1>2, VarFacts DEF IInv, Shape, Tables, Memories
<1>4. NoNewLeak(p)
  BY <1>2, <1>3, OpenedIsHeld
<1>5. OnlyOf(p)
  BY <1>1 DEF OnlyOf, IInv, Shape
<1>6. QED
  BY <1>4, <1>5, OnlyOfNoLeak

(* A closing step closes every number that it forgets.                     *)
LEMMA ClosesNoLeak ==
  ASSUME IInv, NEW p \in Proc, NEW t \in Thread, NEW K \in SUBSET Var, Closes(p, t, K),
         \A v \in K, n \in Number : handle[p][t][v].fd = n => table'[p][n] = NoObject,
         NEW q \in Proc
  PROVE  NoNewLeak(q)
<1>1. ASSUME NEW n \in Number, Lost(table'[p], handle'[p], n)
      PROVE  Lost(table[p], handle[p], n)
  <2>1. \A v \in K : handle[p][t][v].fd # n
    BY <1>1 DEF Lost
  <2>2. table[p][n] # NoObject
    BY <1>1, <2>1 DEF Lost, Closes
  <2>3. \A s \in Thread, v \in Var : handle[p][s][v].fd # n
    BY <1>1, <2>1 DEF Lost, Closes
  <2>4. QED
    BY <2>2, <2>3 DEF Lost
<1>2. NoNewLeak(p)
  BY <1>1 DEF NoNewLeak
<1>3. OnlyOf(p)
  BY DEF OnlyOf, Closes
<1>4. QED
  BY <1>2, <1>3, OnlyOfNoLeak

(* The destructor of a unique_fd, and close() by hand.                     *)
LEMMA CloseVarNoLeak ==
  ASSUME IInv, NEW p \in Proc, NEW t \in Thread, NEW v \in Var, CloseVar(p, t, v),
         NEW q \in Proc
  PROVE  NoNewLeak(q)
<1> DEFINE hs == {handle[p][t][v]}
<1>1. Closes(p, t, {v})
  BY CloseVarCloses
<1>2. \A n \in Number : handle[p][t][v].fd = n => table'[p][n] = NoObject
  <2>1. table' = AfterClose(p, hs) /\ handle[p][t][v] \in hs
    BY DEF CloseVar
  <2> HIDE DEF hs
  <2>2. QED
    BY <2>1, AfterCloseFacts
<1>3. QED
  BY <1>1, <1>2, ClosesNoLeak

(* A dropped result.                                                       *)
LEMMA DiscardNoLeak ==
  ASSUME IInv, NEW p \in Proc, NEW t \in Thread, Discard(p, t), NEW q \in Proc
  PROVE  NoNewLeak(q)
<1> DEFINE hs == {handle[p][t]["a"], handle[p][t]["b"]}
<1>1. Closes(p, t, {"a", "b"})
  BY DiscardCloses
<1>2. \A v \in {"a", "b"}, n \in Number : handle[p][t][v].fd = n => table'[p][n] = NoObject
  <2>1. table' = AfterClose(p, hs) /\ \A v \in {"a", "b"} : handle[p][t][v] \in hs
    BY DEF Discard
  <2> HIDE DEF hs
  <2>2. QED
    BY <2>1, AfterCloseFacts
<1>3. QED
  BY <1>1, <1>2, VarFacts, ClosesNoLeak

(* A result that is returned, and a unique_fd that is moved, is held by    *)
(* the variable it goes to.                                                *)
LEMMA MovedNoLeak ==
  ASSUME IInv, NEW p \in Proc, NEW t \in Thread,
         \/ \E u \in Unique : ReturnOne(p, t, u)
         \/ \E u, w \in Unique : ReturnTwo(p, t, u, w)
         \/ \E u, w \in Unique, s \in Thread : Move(p, t, u, s, w),
         NEW q \in Proc
  PROVE  NoNewLeak(q)
<1>1. handle \in [Proc -> [Thread -> [Var -> Handle]]]
  BY DEF IInv, Shape, Memories
<1>2. ASSUME NEW u \in Unique, ReturnOne(p, t, u) PROVE NoNewLeak(p) /\ OnlyOf(p)
  <2>1. \A s \in Thread, v \in Var :
          handle'[p][s][v] = IF s = t /\ v = u THEN handle[p][t]["a"]
                             ELSE IF s = t /\ v = "a" THEN Empty ELSE handle[p][s][v]
    BY <1>1, <1>2, VarFacts DEF ReturnOne
  <2>2. u \in Var /\ u # "a" /\ handle[p][t][u] = Empty /\ table' = table
    BY <1>2, VarFacts DEF ReturnOne
  <2>3. NoNewLeak(p)
    BY <2>1, <2>2, VarFacts, SameNoLeak
  <2>4. OnlyOf(p)
    BY <1>1, <1>2 DEF ReturnOne, OnlyOf
  <2>5. QED
    BY <2>3, <2>4
<1>3. ASSUME NEW u \in Unique, NEW w \in Unique, ReturnTwo(p, t, u, w)
      PROVE  NoNewLeak(p) /\ OnlyOf(p)
  <2>1. u \in Var /\ u # "a" /\ u # "b" /\ w \in Var /\ w # "a" /\ w # "b" /\ u # w
    BY <1>3, VarFacts DEF ReturnTwo
  <2>2. \A s \in Thread, v \in Var :
          handle'[p][s][v] = IF s # t THEN handle[p][s][v]
                             ELSE IF v \in {"a", "b"} THEN Empty
                             ELSE IF v = u THEN handle[p][t]["a"]
                             ELSE IF v = w THEN handle[p][t]["b"] ELSE handle[p][s][v]
    <3>1. handle \in [Proc -> Memories]
      BY DEF IInv, Shape
    <3>2. QED
      BY <1>3, <3>1, ReturnTwoMemory
  <2>3. handle[p][t][u] = Empty /\ handle[p][t][w] = Empty /\ table' = table
    BY <1>3 DEF ReturnTwo
  <2>4. ASSUME NEW s \in Thread, NEW v \in Var
        PROVE  \E r \in Thread, z \in Var : handle'[p][r][z].fd = handle[p][s][v].fd
    <3>1. CASE s = t /\ v = "a"
      BY <2>1, <2>2, <3>1
    <3>2. CASE s = t /\ v = "b"
      BY <2>1, <2>2, <3>2
    <3>3. CASE s = t /\ v \in {u, w}
      <4>1. handle[p][s][v] = Empty /\ handle'[p][t]["a"] = Empty
        BY <2>2, <2>3, <3>3, VarFacts
      <4>2. QED
        BY <4>1, VarFacts
    <3>4. CASE s # t \/ v \notin {"a", "b", u, w}
      BY <2>2, <3>4
    <3>5. QED
      BY <3>1, <3>2, <3>3, <3>4
  <2>5. NoNewLeak(p)
    BY <2>3, <2>4, SameNoLeak
  <2>6. OnlyOf(p)
    BY <1>1, <1>3 DEF ReturnTwo, OnlyOf
  <2>7. QED
    BY <2>5, <2>6
<1>4. ASSUME NEW u \in Unique, NEW w \in Unique, NEW s \in Thread, Move(p, t, u, s, w)
      PROVE  NoNewLeak(p) /\ OnlyOf(p)
  <2>0. handle' = [handle EXCEPT ![p][t][u] = Empty, ![p][s][w] = handle[p][t][u]]
    BY <1>4 DEF Move
  <2>1. /\ handle[p][t][u] # Empty /\ handle[p][s][w] = Empty /\ table' = table
        /\ u \in Var /\ w \in Var
    BY <1>4, VarFacts DEF Move
  <2>2. s # t \/ u # w
    BY <2>1
  <2>3. \A r \in Thread, v \in Var :
          handle'[p][r][v] = IF r = s /\ v = w THEN handle[p][t][u]
                             ELSE IF r = t /\ v = u THEN Empty ELSE handle[p][r][v]
    BY <1>1, <2>0, <2>1
  <2>4. ASSUME NEW r \in Thread, NEW v \in Var
        PROVE  \E y \in Thread, z \in Var : handle'[p][y][z].fd = handle[p][r][v].fd
    <3>1. CASE r = t /\ v = u
      <4>1. handle'[p][s][w].fd = handle[p][r][v].fd
        BY <2>1, <2>3, <3>1
      <4>2. QED
        BY <2>1, <4>1
    <3>2. CASE r = s /\ v = w
      <4>1. handle[p][r][v] = Empty /\ handle'[p][t][u] = Empty
        BY <2>1, <2>2, <2>3, <3>2
      <4>2. handle'[p][t][u].fd = handle[p][r][v].fd
        BY <4>1
      <4>3. QED
        BY <2>1, <4>2
    <3>3. CASE ~(r = t /\ v = u) /\ ~(r = s /\ v = w)
      BY <2>3, <3>3
    <3>4. QED
      BY <3>1, <3>2, <3>3
  <2>5. NoNewLeak(p)
    BY <2>1, <2>4, SameNoLeak
  <2>6. OnlyOf(p)
    BY <1>1, <2>0, <2>1 DEF OnlyOf
  <2>7. QED
    BY <2>5, <2>6
<1>5. QED
  BY <1>2, <1>3, <1>4, OnlyOfNoLeak

(* A replace opens nothing, and forgets no number.                         *)
LEMMA ReplaceNoLeak ==
  ASSUME IInv, NEW p \in Proc, NEW t \in Thread, NEW x \in Usable(p), NEW y \in Usable(p),
         replace(p, t, x, y), NEW q \in Proc
  PROVE  NoNewLeak(q)
<1>1. table' = [table EXCEPT ![p] = [table[p] EXCEPT ![x.fd] = table[p][y.fd]]]
  BY DEF replace, AfterReplace, IInv, Shape, Tables
<1>2. \A s \in Thread, v \in Var : handle'[p][s][v].fd = handle[p][s][v].fd
  BY DEF replace, IInv, Shape, Memories
<1>3. ASSUME NEW n \in Number, Lost(table'[p], handle'[p], n)
      PROVE  Lost(table[p], handle[p], n)
  <2>1. table[p][x.fd] # NoObject
    BY DEF replace, Open
  <2>2. table[p][n] # NoObject
    BY <1>1, <1>3, <2>1 DEF Lost, IInv, Shape, Tables
  <2>3. QED
    BY <1>2, <1>3, <2>2 DEF Lost
<1>4. NoNewLeak(p)
  BY <1>3 DEF NoNewLeak
<1>5. OnlyOf(p)
  BY <1>1 DEF OnlyOf, replace, IInv, Shape
<1>6. QED
  BY <1>4, <1>5, OnlyOfNoLeak

(* The image that an exec starts holds everything that is open in it.      *)
LEMMA ExecNoLeak ==
  ASSUME IInv, NEW p \in Proc, NEW t \in Thread, Exec(p, t), NEW q \in Proc
  PROVE  NoNewLeak(q)
<1>0. PICK given \in SUBSET Raw :
        \E src \in [given -> Usable(p)], num \in Injection(given, Number) :
          proc_exec(p, t, given, src, num)
  BY DEF Exec
<1>1. PICK src \in [given -> Usable(p)], num \in Injection(given, Number) :
        proc_exec(p, t, given, src, num)
  BY <1>0
<1> DEFINE tab == [v \in given |-> table[p][src[v].fd]]
           obj == [v \in given |-> src[v].obj]
<1>2. table' = [table EXCEPT ![p] = ImageTable(given, num, tab)]
  BY <1>1 DEF proc_exec
<1>3. handle' = [handle EXCEPT ![p] = ImageHandles(t, given, num, obj)]
  BY <1>1 DEF proc_exec
<1> HIDE DEF tab, obj
<1>4. ASSUME NEW n \in Number, table'[p][n] # NoObject
      PROVE  \E s \in Thread, v \in Var : handle'[p][s][v].fd = n
  <2>1. table'[p][n] = ImageTable(given, num, tab)[n]
    BY <1>2 DEF IInv, Shape
  <2>2. PICK v \in given : num[v] = n
    BY <1>4, <2>1 DEF ImageTable
  <2>3. v \in Var
    BY VarFacts
  <2>4. handle'[p][t][v] = [fd |-> num[v], obj |-> obj[v]]
    BY <1>3, <2>3 DEF ImageHandles, NoHandles, IInv, Shape
  <2>5. QED
    BY <2>2, <2>3, <2>4
<1>5. NoNewLeak(p)
  BY <1>4 DEF NoNewLeak, Lost
<1>6. OnlyOf(p)
  BY <1>2, <1>3 DEF OnlyOf, IInv, Shape
<1>7. QED
  BY <1>5, <1>6, OnlyOfNoLeak

(* Nothing is open in a process that has exited.                           *)
LEMMA ExitNoLeak ==
  ASSUME IInv, NEW p \in Proc, NEW t \in Thread, proc_exit(p, t), NEW q \in Proc
  PROVE  NoNewLeak(q)
<1>1. table'[p] = NoTable /\ OnlyOf(p)
  BY DEF proc_exit, OnlyOf, IInv, Shape
<1>2. NoNewLeak(p)
  BY <1>1 DEF NoNewLeak, Lost, NoTable
<1>3. QED
  BY <1>1, <1>2, OnlyOfNoLeak

(* create2 loses nothing of other processes.                               *)
LEMMA Create2NoLeak ==
  ASSUME IInv, NEW p \in Proc, NEW t \in Thread, create2(p, t), NEW q \in Proc
  PROVE  \/ NoNewLeak(q)
         \/ q = p /\ call[p][t] = "idle" /\ call'[p][t] = "create2"
<1>1. call[p][t] = "idle" /\ call' = [call EXCEPT ![p][t] = "create2"]
  BY DEF create2, Enter, Idle
<1>2. call'[p][t] = "create2"
  BY <1>1 DEF IInv, Shape
<1>3. OnlyOf(p)
  <2>1. PICK n1 \in Free(p), n2 \in Free(p), o1 \in Fresh, o2 \in Fresh :
          /\ n1 # n2 /\ o1 # o2
          /\ table' = [table EXCEPT ![p][n1] = o1, ![p][n2] = o2]
          /\ \E ab \in Create2Locals([fd |-> n1, obj |-> o1], [fd |-> n2, obj |-> o2]) :
               handle' = [handle EXCEPT ![p][t]["a"] = ab[1], ![p][t]["b"] = ab[2]]
    BY DEF create2
  <2>2. PICK ab \in Create2Locals([fd |-> n1, obj |-> o1], [fd |-> n2, obj |-> o2]) :
          handle' = [handle EXCEPT ![p][t]["a"] = ab[1], ![p][t]["b"] = ab[2]]
    BY <2>1
  <2>3. \A r \in Proc \ {p} : table'[r] = table[r]
    BY <2>1 DEF IInv, Shape
  <2>4. \A r \in Proc \ {p} : handle'[r] = handle[r]
    BY <2>2 DEF IInv, Shape
  <2>5. QED
    BY <2>3, <2>4 DEF OnlyOf
<1>4. CASE q = p
  BY <1>1, <1>2, <1>4
<1>5. CASE q # p
  BY <1>3, <1>5, OtherNoLeak DEF OnlyOf
<1>6. QED
  BY <1>4, <1>5

(* What a fork leaves in its child: what the parent had lost, and what its *)
(* other threads held.                                                     *)
Inherited(q, t) == Leaked(q) \cup ((UNION {HeldBy(q, s) : s \in Thread \ {t}}) \ {NoFd})

(* A fork loses nothing but in the child.                                  *)
LEMMA ForkLeak ==
  ASSUME IInv, NEW p \in Proc, NEW t \in Thread, NEW c \in Proc, proc_fork(p, t, c),
         NEW q \in Proc
  PROVE  \/ NoNewLeak(q)
         \/ q = c /\ threads[c] = {} /\ threads'[c] = {t} /\ Leaked(c)' = Inherited(p, t)
<1>1. PICK n \in Free(p), o \in Fresh :
        /\ table'  = [table  EXCEPT ![c] = table[p], ![p][n] = o]
        /\ handle' = [handle EXCEPT ![c] = ChildMemory(p, t),
                                    ![p][t]["a"] = [fd |-> n, obj |-> o]]
  BY DEF proc_fork
<1>2. n \in Number /\ Idle(p, t) /\ c # p /\ threads[c] = {} /\ threads'[c] = {t}
  BY DEF Free, proc_fork, Idle, IInv, Shape
<1>3. \A r \in Proc \ {p, c} : table'[r] = table[r] /\ handle'[r] = handle[r]
  BY <1>1 DEF IInv, Shape
<1>4. /\ table'[p] = [table[p] EXCEPT ![n] = o]
      /\ \A s \in Thread, v \in Var :
           handle'[p][s][v] = IF s = t /\ v = "a" THEN [fd |-> n, obj |-> o]
                                                  ELSE handle[p][s][v]
  BY <1>1, <1>2, VarFacts DEF IInv, Shape, Tables, Memories
<1>5. NoNewLeak(p)
  BY <1>2, <1>4, OpenedIsHeld
<1>6. table'[c] = table[p] /\ handle'[c] = ChildMemory(p, t)
  BY <1>1, <1>2 DEF IInv, Shape
<1>7. \A s \in Thread, v \in Var :
        ChildMemory(p, t)[s][v] = IF s = t /\ v # "a" THEN handle[p][t][v] ELSE Empty
  BY VarFacts DEF ChildMemory, NoHandles, IInv, Shape, Memories
<1>8. handle[p][t]["a"] = Empty
  BY <1>2 DEF Idle, IInv, ProcInv, Locals
<1>9. \A k \in Number :
        Lost(table'[c], handle'[c], k) <=>
          table[p][k] # NoObject /\ \A v \in Var : handle[p][t][v].fd # k
  <2> SUFFICES ASSUME NEW k \in Number
               PROVE  (\A s \in Thread, v \in Var : ChildMemory(p, t)[s][v].fd # k)
                        <=> \A v \in Var : handle[p][t][v].fd # k
    BY <1>6 DEF Lost
  <2>1. Empty.fd # k
    BY EmptyFacts, NoFdAssumption
  <2>2. QED
    BY <1>7, <1>8, <2>1
<1>10. \A k \in Number :
         k \in Inherited(p, t) <=>
           \/ Lost(table[p], handle[p], k)
           \/ \E s \in Thread \ {t}, v \in Var : handle[p][s][v].fd = k
  <2> SUFFICES ASSUME NEW k \in Number
               PROVE  k \in Inherited(p, t) <=>
                        \/ k \in Leaked(p)
                        \/ \E s \in Thread \ {t} : k \in HeldBy(p, s)
    BY LeakedFacts DEF HeldBy
  <2>1. k # NoFd
    BY NoFdAssumption
  <2>2. QED
    BY <2>1 DEF Inherited
<1>11. ASSUME NEW k \in Number, NEW s \in Thread, NEW v \in Var, handle[p][s][v].fd = k
       PROVE  /\ table[p][k] # NoObject
              /\ s # t => \A w \in Var : handle[p][t][w].fd # k
  <2>1. handle[p][s][v] \in Handle /\ handle[p][s][v].fd # NoFd
    BY <1>11, NoFdAssumption DEF IInv, Shape, Memories
  <2>2. handle[p][s][v] # Empty /\ handle[p][s][v].obj \in Object
    BY <2>1, HandleFacts
  <2>3. table[p][k] = handle[p][s][v].obj
    BY <1>11, <2>2 DEF IInv, ProcInv, Good, Denotes
  <2>4. Sole(handle[p])
    BY DEF IInv, ProcInv, Good
  <2>5. s # t => \A w \in Var : handle[p][t][w].fd # k
    BY <1>11, <2>1, <2>4 DEF Sole
  <2>6. QED
    BY <2>2, <2>3, <2>5, NoObjectAssumption
<1>12. \A k \in Number : k \in Leaked(c)' <=> k \in Inherited(p, t)
  <2> SUFFICES ASSUME NEW k \in Number
               PROVE  k \in Leaked(c)' <=> k \in Inherited(p, t)
    OBVIOUS
  <2>1. k \in Leaked(c)' <=> table[p][k] # NoObject /\ \A v \in Var : handle[p][t][v].fd # k
    BY <1>9, LeakedFacts
  <2>2. k \in Leaked(c)' => k \in Inherited(p, t)
    BY <1>10, <2>1 DEF Lost
  <2>3. k \in Inherited(p, t) => k \in Leaked(c)'
    BY <1>10, <1>11, <2>1 DEF Lost
  <2>4. QED
    BY <2>2, <2>3
<1>13. Leaked(c)' \subseteq Number
  BY LeakedFacts
<1>14. Inherited(p, t) \subseteq Number
  <2>1. Leaked(p) \subseteq Number
    BY LeakedFacts
  <2>2. \A s \in Thread, v \in Var : handle[p][s][v].fd \in Number \cup {NoFd}
    BY HandleFacts DEF IInv, Shape, Memories
  <2>3. \A s \in Thread : HeldBy(p, s) \subseteq Number \cup {NoFd}
    BY <2>2 DEF HeldBy
  <2>4. (UNION {HeldBy(p, s) : s \in Thread \ {t}}) \ {NoFd} \subseteq Number
    BY <2>3
  <2>5. QED
    BY <2>1, <2>4 DEF Inherited
<1>15. Leaked(c)' = Inherited(p, t)
  BY <1>12, <1>13, <1>14
<1>16. CASE q = c
  BY <1>2, <1>15, <1>16
<1>17. CASE q = p
  BY <1>5, <1>17
<1>18. CASE q \notin {p, c}
  BY <1>3, <1>18, OtherNoLeak
<1>19. QED
  BY <1>16, <1>17, <1>18

-----------------------------------------------------------------------------
(* What may happen to the lost numbers of process q.                       *)
LeaksRightly(q) ==
  \/ NoNewLeak(q)
  \/ \E t \in Thread : call[q][t] = "idle" /\ call'[q][t] = "create2"
  \/ \E p \in Proc, t \in Thread :
       threads[q] = {} /\ threads'[q] = {t} /\ Leaked(q)' = Inherited(p, t)

(* Every step of a thread does that: one case for each action.             *)
LEMMA StepLeaks ==
  ASSUME IInv, NEW p \in Proc, NEW t \in Thread, Step(p, t), NEW q \in Proc
  PROVE  LeaksRightly(q)
<1>1. CASE Fail(p, t) \/ ReturnError(p, t)
  BY <1>1, OtherNoLeak DEF Fail, ReturnError, LeaksRightly
<1>2. CASE \/ create1(p, t)
           \/ \E x \in Usable(p) : dup(p, t, x) \/ file_open(p, t, x) \/ sock_accept(p, t, x)
  BY <1>2, AllocateNoLeak DEF create1, dup, file_open, sock_accept, LeaksRightly
<1>3. CASE create2(p, t)
  BY <1>3, Create2NoLeak DEF LeaksRightly
<1>4. CASE \E x, y \in Usable(p) : replace(p, t, x, y)
  BY <1>4, ReplaceNoLeak DEF LeaksRightly
<1>5. CASE \E u \in Unique : fd_closer(p, t, u)
  BY <1>5, VarFacts, CloseVarNoLeak DEF fd_closer, LeaksRightly
<1>6. CASE \E r \in Raw : close(p, t, r)
  BY <1>6, VarFacts, CloseVarNoLeak DEF close, LeaksRightly
<1>7. CASE Discard(p, t)
  BY <1>7, DiscardNoLeak DEF LeaksRightly
<1>8. CASE \/ \E u \in Unique : ReturnOne(p, t, u)
           \/ \E u, w \in Unique : ReturnTwo(p, t, u, w)
           \/ \E u, w \in Unique, s \in Thread : Move(p, t, u, s, w)
  BY <1>8, MovedNoLeak DEF LeaksRightly
<1>9. CASE \E c \in Proc : proc_fork(p, t, c)
  BY <1>9, ForkLeak DEF LeaksRightly
<1>10. CASE Exec(p, t)
  BY <1>10, ExecNoLeak DEF LeaksRightly
<1>11. CASE proc_exit(p, t)
  BY <1>11, ExitNoLeak DEF LeaksRightly
<1>12. QED
  BY <1>1, <1>2, <1>3, <1>4, <1>5, <1>6, <1>7, <1>8, <1>9, <1>10, <1>11 DEF Step, Keeping

(* A descriptor is left open without an owner by create2, and by a fork in *)
(* its child, and in no other way, for any number of processes, threads    *)
(* and descriptors: no interleaving of the other wrappers leaks.           *)
THEOREM OnlyCreate2OrForkLeaks == Spec => LeakOnlyByCreate2OrFork
<1>1. ASSUME IInv, [Next]_vars
      PROVE  [\A p \in Proc :
                \/ Leaked(p)' \subseteq Leaked(p)
                \/ \E t \in Thread : call[p][t] = "idle" /\ call'[p][t] = "create2"
                \/ \E q \in Proc, t \in Thread :
                     /\ threads[p] = {} /\ threads'[p] = {t}
                     /\ Leaked(p)' = Leaked(q) \cup
                          ((UNION {HeldBy(q, s) : s \in Thread \ {t}}) \ {NoFd})]_vars
  <2>1. CASE Next
    <3>1. \A q \in Proc : LeaksRightly(q)
      BY <1>1, <2>1, StepLeaks DEF Next
    <3>2. \A q \in Proc : NoNewLeak(q) => Leaked(q)' \subseteq Leaked(q)
      BY LeakedFacts DEF NoNewLeak
    <3>3. QED
      BY <3>1, <3>2 DEF LeaksRightly, Inherited
  <2>2. CASE UNCHANGED vars
    BY <2>2
  <2>3. QED
    BY <1>1, <2>1, <2>2
<1>2. QED
  BY <1>1, Invariant, PTL DEF Spec, LeakOnlyByCreate2OrFork

-----------------------------------------------------------------------------
(* Descriptors implement ObjectReferences.  The invariant says what the    *)
(* numbers hide: a variable's number denotes the object that the variable  *)
(* is meant for, so that refs is the second components of the handles, and *)
(* each action of FdOwnership changes those as an action of the abstract   *)
(* specification does.                                                     *)

RefType == [Proc -> [Thread -> [Var -> Object \cup {NoObject}]]]

RefsRight ==
  /\ refs \in RefType
  /\ \A p \in Proc, t \in Thread, v \in Var :
       /\ refs[p][t][v] = handle[p][t][v].obj
       /\ refs[p][t][v] = NoObject <=> handle[p][t][v] = Empty

LEMMA RefsSeen == IInv => RefsRight
<1> SUFFICES ASSUME IInv PROVE RefsRight
  OBVIOUS
<1>1. ASSUME NEW p \in Proc, NEW t \in Thread, NEW v \in Var
      PROVE  /\ refs[p][t][v] = handle[p][t][v].obj
             /\ refs[p][t][v] = NoObject <=> handle[p][t][v] = Empty
             /\ refs[p][t][v] \in Object \cup {NoObject}
  <2>1. handle[p][t][v] \in Handle
    BY DEF IInv, Shape, Memories
  <2>2. refs[p][t][v] = IF handle[p][t][v] = Empty THEN NoObject
                        ELSE table[p][handle[p][t][v].fd]
    BY DEF refs
  <2>3. CASE handle[p][t][v] = Empty
    BY <2>2, <2>3 DEF Empty
  <2>4. CASE handle[p][t][v] # Empty
    <3>1. table[p][handle[p][t][v].fd] = handle[p][t][v].obj
      BY <2>4 DEF IInv, ProcInv, Good, Denotes
    <3>2. handle[p][t][v].obj \in Object
      BY <2>1, <2>4, HandleFacts
    <3>3. QED
      BY <2>2, <2>4, <3>1, <3>2, NoObjectAssumption
  <2>5. QED
    BY <2>3, <2>4
<1>2. refs = [p \in Proc |-> [t \in Thread |-> [v \in Var |-> refs[p][t][v]]]]
  BY DEF refs
<1>3. QED
  BY <1>1, <1>2 DEF RefsRight, RefType

(* Two functions of this type with the same values are equal.              *)
LEMMA SameRefs ==
  ASSUME NEW f \in RefType, NEW g \in RefType,
         \A p \in Proc, t \in Thread, v \in Var : f[p][t][v] = g[p][t][v]
  PROVE  f = g
<1>1. \A p \in Proc, t \in Thread : f[p][t] = g[p][t]
  BY DEF RefType
<1>2. \A p \in Proc : f[p] = g[p]
  BY <1>1 DEF RefType
<1>3. QED
  BY <1>2 DEF RefType

(* The two modules have the same variables.                                *)
LEMMA SameVars == References!Var = Var /\ References!Named = Named
BY DEF References!Var, References!Named, Var, Named

(* An object that no table has is not referred to.                         *)
LEMMA FreshUnreferenced ==
  ASSUME IInv, NEW o \in Fresh
  PROVE  o \in References!Unreferenced /\ o \in Object
<1>1. o \in Object /\ \A p \in Proc, n \in Number : table[p][n] # o
  BY DEF Fresh
<1>2. ASSUME NEW p \in Proc, NEW t \in Thread, NEW v \in Var
      PROVE  refs[p][t][v] # o
  <2>1. handle[p][t][v] \in Handle
    BY DEF IInv, Shape, Memories
  <2>2. CASE handle[p][t][v] = Empty
    BY <1>1, <2>2, NoObjectAssumption DEF refs
  <2>3. CASE handle[p][t][v] # Empty
    BY <1>1, <2>1, <2>3, HandleFacts DEF refs
  <2>4. QED
    BY <2>2, <2>3
<1>3. QED
  BY <1>1, <1>2, SameVars DEF References!Unreferenced

(* What a usable handle denotes is referred to.                            *)
LEMMA UsableReferent ==
  ASSUME IInv, NEW p \in Proc, NEW x \in Usable(p)
  PROVE  x.obj \in References!Referents(p) /\ x.obj \in Object
<1>1. PICK t \in Thread, v \in Named : x = handle[p][t][v]
  BY DEF Usable
<1>2. v \in Var /\ RefsRight
  BY <1>1, VarFacts, RefsSeen
<1>3. x.obj \in Object
  BY UsableFacts
<1>4. refs[p][t][v] = x.obj
  BY <1>1, <1>2 DEF RefsRight
<1>5. QED
  BY <1>1, <1>3, <1>4, SameVars, NoObjectAssumption DEF References!Referents

(* A memory determines what its variables refer to.                        *)
LEMMA NextRefs ==
  ASSUME IInv', NEW g \in RefType,
         \A p \in Proc, t \in Thread, v \in Var : handle'[p][t][v].obj = g[p][t][v]
  PROVE  refs' = g
<1>1. RefsRight'
  BY RefsSeen, PTL
<1>2. refs' \in RefType /\ \A p \in Proc, t \in Thread, v \in Var : refs'[p][t][v] = g[p][t][v]
  BY <1>1 DEF RefsRight, RefType
<1>3. QED
  BY <1>2, SameRefs

(* Writing one reference, and replacing those of a thread or a process.    *)
LEMMA PutRef ==
  ASSUME NEW f \in RefType, NEW p \in Proc, NEW t \in Thread, NEW v \in Var,
         NEW o \in Object \cup {NoObject}
  PROVE  /\ [f EXCEPT ![p][t][v] = o] \in RefType
         /\ \A q \in Proc, s \in Thread, w \in Var :
              [f EXCEPT ![p][t][v] = o][q][s][w] =
                IF q = p /\ s = t /\ w = v THEN o ELSE f[q][s][w]
BY DEF RefType

LEMMA PutThread ==
  ASSUME NEW f \in RefType, NEW p \in Proc, NEW t \in Thread,
         NEW m \in [Var -> Object \cup {NoObject}]
  PROVE  /\ [f EXCEPT ![p][t] = m] \in RefType
         /\ \A q \in Proc, s \in Thread, w \in Var :
              [f EXCEPT ![p][t] = m][q][s][w] =
                IF q = p /\ s = t THEN m[w] ELSE f[q][s][w]
BY DEF RefType

LEMMA PutProcess ==
  ASSUME NEW f \in RefType, NEW p \in Proc,
         NEW m \in [Thread -> [Var -> Object \cup {NoObject}]]
  PROVE  /\ [f EXCEPT ![p] = m] \in RefType
         /\ \A q \in Proc, s \in Thread, w \in Var :
              [f EXCEPT ![p] = m][q][s][w] = IF q = p THEN m[s][w] ELSE f[q][s][w]
BY DEF RefType

-----------------------------------------------------------------------------
(* One lemma for each action.                                              *)

(* The first step of a wrapper obtains a reference.                        *)
LEMMA AllocateObtains ==
  ASSUME IInv, IInv', NEW p \in Proc, NEW t \in Thread, NEW c, NEW o \in Object,
         Allocate(p, t, c, o, o),
         o \in References!Unreferenced \cup References!Referents(p)
  PROVE  References!Obtain(p, t, "a")
<1>1. PICK n \in Free(p) : handle' = [handle EXCEPT ![p][t]["a"] = [fd |-> n, obj |-> o]]
  BY DEF Allocate
<1>2. "a" \in Var /\ RefsRight
  BY VarFacts, RefsSeen
<1>3. handle[p][t]["a"] = Empty
  BY DEF Allocate, Enter, Idle, IInv, ProcInv, Locals
<1>4. refs[p][t]["a"] = NoObject
  BY <1>2, <1>3 DEF RefsRight
<1>5. refs' = [refs EXCEPT ![p][t]["a"] = o]
  <2> DEFINE g == [refs EXCEPT ![p][t]["a"] = o]
  <2>1. /\ g \in RefType
        /\ \A q \in Proc, s \in Thread, w \in Var :
             g[q][s][w] = IF q = p /\ s = t /\ w = "a" THEN o ELSE refs[q][s][w]
    BY <1>2, PutRef DEF RefsRight
  <2>2. \A q \in Proc, s \in Thread, w \in Var :
           handle'[q][s][w] = IF q = p /\ s = t /\ w = "a" THEN [fd |-> n, obj |-> o]
                                                          ELSE handle[q][s][w]
    BY <1>1, <1>2 DEF IInv, Shape, Memories
  <2> HIDE DEF g
  <2>3. \A q \in Proc, s \in Thread, w \in Var : handle'[q][s][w].obj = g[q][s][w]
    BY <1>2, <2>1, <2>2 DEF RefsRight
  <2>4. refs' = g
    BY <2>1, <2>3, NextRefs
  <2>5. QED
    BY <2>4 DEF g
<1>6. QED
  BY <1>4, <1>5 DEF References!Obtain

(* create2 obtains one: the kernel writes both numbers to b.               *)
LEMMA Create2Obtains ==
  ASSUME IInv, IInv', NEW p \in Proc, NEW t \in Thread, create2(p, t)
  PROVE  References!Obtain(p, t, "b")
<1>1. PICK n \in Number, o \in Fresh :
        handle' = [handle EXCEPT ![p][t]["a"] = Empty, ![p][t]["b"] = [fd |-> n, obj |-> o]]
  <2>1. PICK n1 \in Free(p), n2 \in Free(p), o1 \in Fresh, o2 \in Fresh :
          /\ n1 # n2 /\ o1 # o2
          /\ table' = [table EXCEPT ![p][n1] = o1, ![p][n2] = o2]
          /\ \E ab \in Create2Locals([fd |-> n1, obj |-> o1], [fd |-> n2, obj |-> o2]) :
               handle' = [handle EXCEPT ![p][t]["a"] = ab[1], ![p][t]["b"] = ab[2]]
    BY DEF create2
  <2>2. n1 \in Number /\ n2 \in Number
    BY DEF Free
  <2>3. PICK ab \in Create2Locals([fd |-> n1, obj |-> o1], [fd |-> n2, obj |-> o2]) :
               handle' = [handle EXCEPT ![p][t]["a"] = ab[1], ![p][t]["b"] = ab[2]]
    BY <2>1
  <2>4. /\ ab[1] = Empty
        /\ ab[2] = [fd |-> n1, obj |-> o1] \/ ab[2] = [fd |-> n2, obj |-> o2]
    BY DEF Create2Locals
  <2>5. QED
    BY <2>2, <2>3, <2>4
<1>2. "a" \in Var /\ "b" \in Var /\ RefsRight
  BY VarFacts, RefsSeen
<1>3. handle[p][t]["a"] = Empty /\ handle[p][t]["b"] = Empty
  BY DEF create2, Enter, Idle, IInv, ProcInv, Locals
<1>4. refs[p][t]["b"] = NoObject
  BY <1>2, <1>3 DEF RefsRight
<1>5. o \in References!Unreferenced /\ o \in Object
  BY FreshUnreferenced
<1>6. refs' = [refs EXCEPT ![p][t]["b"] = o]
  <2> DEFINE g == [refs EXCEPT ![p][t]["b"] = o]
  <2>1. /\ g \in RefType
        /\ \A q \in Proc, s \in Thread, w \in Var :
             g[q][s][w] = IF q = p /\ s = t /\ w = "b" THEN o ELSE refs[q][s][w]
    BY <1>2, <1>5, PutRef DEF RefsRight
  <2>2. \A q \in Proc, s \in Thread, w \in Var :
           handle'[q][s][w] = IF q = p /\ s = t /\ w = "b" THEN [fd |-> n, obj |-> o]
                                                          ELSE handle[q][s][w]
    BY <1>1, <1>2, <1>3 DEF IInv, Shape, Memories
  <2> HIDE DEF g
  <2>3. \A q \in Proc, s \in Thread, w \in Var : handle'[q][s][w].obj = g[q][s][w]
    BY <1>2, <2>1, <2>2 DEF RefsRight
  <2>4. refs' = g
    BY <2>1, <2>3, NextRefs
  <2>5. QED
    BY <2>4 DEF g
<1>7. QED
  BY <1>4, <1>5, <1>6 DEF References!Obtain

(* What Drop does to a memory.                                             *)
LEMMA DropsRefs ==
  ASSUME IInv, IInv', NEW p \in Proc, NEW t \in Thread, NEW vs \in SUBSET Var,
         \A q \in Proc, s \in Thread, w \in Var :
           handle'[q][s][w] = IF q = p /\ s = t /\ w \in vs THEN Empty ELSE handle[q][s][w]
  PROVE  References!Drop(p, t, vs)
<1> DEFINE m == [v \in Var |-> IF v \in vs THEN NoObject ELSE refs[p][t][v]]
           g == [refs EXCEPT ![p][t] = m]
<1>1. RefsRight
  BY RefsSeen
<1>2. m \in [Var -> Object \cup {NoObject}]
  BY <1>1 DEF RefsRight, RefType
<1>3. /\ g \in RefType
      /\ \A q \in Proc, s \in Thread, w \in Var :
            g[q][s][w] = IF q = p /\ s = t THEN m[w] ELSE refs[q][s][w]
  <2> HIDE DEF m
  <2>1. QED
    BY <1>1, <1>2, PutThread DEF RefsRight
<1>4. \A w \in Var : m[w] = IF w \in vs THEN NoObject ELSE refs[p][t][w]
  OBVIOUS
<1> HIDE DEF m, g
<1>5. \A q \in Proc, s \in Thread, w \in Var : handle'[q][s][w].obj = g[q][s][w]
  BY <1>1, <1>3, <1>4 DEF RefsRight, Empty
<1>6. refs' = g
  BY <1>3, <1>5, NextRefs
<1>7. QED
  BY <1>6, SameVars DEF g, m, References!Drop

LEMMA DiscardDrops ==
  ASSUME IInv, IInv', NEW p \in Proc, NEW t \in Thread, Discard(p, t)
  PROVE  References!Drop(p, t, Local)
<1>1. "a" \in Var /\ "b" \in Var /\ Local = {"a", "b"} /\ Local \in SUBSET Var
  BY VarFacts DEF Local
<1>2. handle' = [handle EXCEPT ![p][t]["a"] = Empty, ![p][t]["b"] = Empty]
  BY DEF Discard
<1>3. \A q \in Proc, s \in Thread, w \in Var :
         handle'[q][s][w] = IF q = p /\ s = t /\ w \in Local THEN Empty ELSE handle[q][s][w]
  BY <1>1, <1>2 DEF IInv, Shape, Memories
<1>4. QED
  BY <1>1, <1>3, DropsRefs

LEMMA CloseVarDrops ==
  ASSUME IInv, IInv', NEW p \in Proc, NEW t \in Thread, NEW v \in Named, CloseVar(p, t, v)
  PROVE  References!Drop(p, t, {v})
<1>1. v \in Var /\ {v} \in SUBSET Var
  BY VarFacts
<1>2. handle' = [handle EXCEPT ![p][t][v] = Empty]
  BY DEF CloseVar
<1>3. \A q \in Proc, s \in Thread, w \in Var :
         handle'[q][s][w] = IF q = p /\ s = t /\ w \in {v} THEN Empty ELSE handle[q][s][w]
  BY <1>1, <1>2 DEF IInv, Shape, Memories
<1>4. QED
  BY <1>1, <1>3, DropsRefs

(* A unique_fd that is moved from refers to nothing, and the other one to  *)
(* its object.                                                             *)
LEMMA MoveMoves ==
  ASSUME IInv, IInv', NEW p \in Proc, NEW t \in Thread, NEW s \in Thread,
         NEW u \in Unique, NEW w \in Unique, Move(p, t, u, s, w)
  PROVE  References!Move(p, t, u, s, w)
<1> DEFINE f == [refs EXCEPT ![p][t][u] = NoObject]
           g == [f EXCEPT ![p][s][w] = refs[p][t][u]]
<1>1. u \in Var /\ w \in Var /\ RefsRight
  BY VarFacts, RefsSeen
<1>2. /\ handle[p][t][u] # Empty /\ handle[p][s][w] = Empty
      /\ handle' = [handle EXCEPT ![p][t][u] = Empty, ![p][s][w] = handle[p][t][u]]
  BY DEF Move
<1>3. refs[p][t][u] # NoObject /\ refs[p][s][w] = NoObject
      /\ refs[p][t][u] \in Object \cup {NoObject} /\ refs \in RefType
  BY <1>1, <1>2 DEF RefsRight, RefType
<1>4. /\ f \in RefType
      /\ \A q \in Proc, r \in Thread, v \in Var :
            f[q][r][v] = IF q = p /\ r = t /\ v = u THEN NoObject ELSE refs[q][r][v]
  <2> DEFINE o == NoObject
  <2>1. o \in Object \cup {NoObject}
    OBVIOUS
  <2> HIDE DEF o
  <2>2. /\ [refs EXCEPT ![p][t][u] = o] \in RefType
        /\ \A q \in Proc, r \in Thread, v \in Var :
             [refs EXCEPT ![p][t][u] = o][q][r][v] =
               IF q = p /\ r = t /\ v = u THEN o ELSE refs[q][r][v]
    <3>1. refs \in RefType /\ u \in Var
      BY <1>1, <1>3
    <3>2. QED
      BY <2>1, <3>1, PutRef
  <2>3. QED
    BY <2>2 DEF o
<1>5. /\ g \in RefType
      /\ \A q \in Proc, r \in Thread, v \in Var :
            g[q][r][v] = IF q = p /\ r = s /\ v = w THEN refs[p][t][u] ELSE f[q][r][v]
  <2> DEFINE o == refs[p][t][u]
  <2>1. f \in RefType /\ w \in Var /\ o \in Object \cup {NoObject}
    BY <1>1, <1>3, <1>4
  <2> HIDE DEF f, o
  <2>2. /\ [f EXCEPT ![p][s][w] = o] \in RefType
        /\ \A q \in Proc, r \in Thread, v \in Var :
             [f EXCEPT ![p][s][w] = o][q][r][v] =
               IF q = p /\ r = s /\ v = w THEN o ELSE f[q][r][v]
    BY <2>1, PutRef
  <2>3. QED
    BY <2>2 DEF o
<1>6. \A q \in Proc, r \in Thread, v \in Var :
         handle'[q][r][v] = IF q = p /\ r = s /\ v = w THEN handle[p][t][u]
                            ELSE IF q = p /\ r = t /\ v = u THEN Empty ELSE handle[q][r][v]
  BY <1>1, <1>2 DEF IInv, Shape, Memories
<1> HIDE DEF f, g
<1>7. \A q \in Proc, r \in Thread, v \in Var : handle'[q][r][v].obj = g[q][r][v]
  BY <1>1, <1>4, <1>5, <1>6 DEF RefsRight, Empty
<1>8. refs' = g
  BY <1>5, <1>7, NextRefs
<1>9. QED
  BY <1>3, <1>8 DEF f, g, References!Move

(* The number of x has one holder, which refers to another object now.     *)
LEMMA ReplaceReplaces ==
  ASSUME IInv, IInv', NEW p \in Proc, NEW t \in Thread,
         NEW x \in Usable(p), NEW y \in Usable(p), replace(p, t, x, y)
  PROVE  \E s \in Thread, v \in Named : References!Replace(p, s, v)
<1>1. PICK s \in Thread, v \in Named : x = handle[p][s][v]
  BY DEF Usable
<1>2. v \in Var /\ RefsRight
  BY <1>1, VarFacts, RefsSeen
<1>3. y.obj \in References!Referents(p) /\ y.obj \in Object
  BY UsableReferent
<1>4. x \in Handle /\ x # Empty
  BY <1>1, <1>2 DEF Usable, IInv, Shape, Memories
<1>5. x.fd # NoFd
  BY <1>4, HandleFacts
<1>6. \A r \in Thread, w \in Var : handle[p][r][w].fd = x.fd <=> r = s /\ w = v
  BY <1>1, <1>2, <1>5 DEF IInv, ProcInv, Good, Sole
<1>7. refs[p][s][v] # NoObject
  BY <1>1, <1>2, <1>4 DEF RefsRight
<1>8. refs' = [refs EXCEPT ![p][s][v] = y.obj]
  <2> DEFINE g == [refs EXCEPT ![p][s][v] = y.obj]
  <2>1. /\ g \in RefType
        /\ \A q \in Proc, r \in Thread, w \in Var :
             g[q][r][w] = IF q = p /\ r = s /\ w = v THEN y.obj ELSE refs[q][r][w]
    BY <1>2, <1>3, PutRef DEF RefsRight
  <2>2. \A q \in Proc, r \in Thread, w \in Var :
           handle'[q][r][w] = IF q = p /\ handle[p][r][w].fd = x.fd
                              THEN [fd |-> x.fd, obj |-> y.obj] ELSE handle[q][r][w]
    BY DEF replace, IInv, Shape, Memories
  <2> HIDE DEF g
  <2>3. \A q \in Proc, r \in Thread, w \in Var : handle'[q][r][w].obj = g[q][r][w]
    BY <1>2, <1>6, <2>1, <2>2 DEF RefsRight
  <2>4. refs' = g
    BY <2>1, <2>3, NextRefs
  <2>5. QED
    BY <2>4 DEF g
<1>9. QED
  BY <1>1, <1>3, <1>7, <1>8 DEF References!Replace

(* The results of a call go to variables that referred to nothing.         *)
LEMMA ReturnsRefs ==
  ASSUME IInv, IInv', NEW p \in Proc, NEW t \in Thread,
         NEW to \in Injection(References!Results(p, t), References!Vacant(p, t)),
         \A q \in Proc, s \in Thread, v \in Var :
           handle'[q][s][v].obj =
             IF q = p /\ s = t THEN References!Returned(p, t, to, v) ELSE refs[q][s][v]
  PROVE  References!Return(p, t)
<1> DEFINE m == [v \in Var |-> References!Returned(p, t, to, v)]
           g == [refs EXCEPT ![p][t] = m]
<1>1. RefsRight
  BY RefsSeen
<1>2. RefsRight'
  BY RefsSeen, PTL
<1>3. \A v \in Var : References!Returned(p, t, to, v) \in Object \cup {NoObject}
  <2>1. \A v \in Var : refs'[p][t][v] = References!Returned(p, t, to, v)
    BY <1>2 DEF RefsRight
  <2>2. QED
    BY <1>2, <2>1 DEF RefsRight, RefType
<1>4. m \in [Var -> Object \cup {NoObject}] /\ \A v \in Var : m[v] = References!Returned(p, t, to, v)
  BY <1>3
<1>5. /\ g \in RefType
      /\ \A q \in Proc, s \in Thread, w \in Var :
            g[q][s][w] = IF q = p /\ s = t THEN m[w] ELSE refs[q][s][w]
  <2> HIDE DEF m
  <2>1. QED
    BY <1>1, <1>4, PutThread DEF RefsRight
<1> HIDE DEF m, g
<1>6. \A q \in Proc, s \in Thread, w \in Var : handle'[q][s][w].obj = g[q][s][w]
  BY <1>4, <1>5
<1>7. refs' = g
  BY <1>5, <1>6, NextRefs
<1>8. refs' = [refs EXCEPT ![p][t] = [v \in References!Var |-> References!Returned(p, t, to, v)]]
  BY <1>7, SameVars DEF g, m
<1>9. QED
  BY <1>8 DEF References!Return, Injection, References!Injection,
              IsInjective, References!IsInjective

LEMMA ReturnOneReturns ==
  ASSUME IInv, IInv', NEW p \in Proc, NEW t \in Thread, NEW u \in Unique, ReturnOne(p, t, u)
  PROVE  References!Return(p, t)
<1> DEFINE R  == References!Results(p, t)
           to == [r \in R |-> u]
<1>1. u \in Var /\ "a" \in Var /\ "b" \in Var /\ u \notin Local /\ RefsRight
  BY VarFacts, RefsSeen DEF Local
<1>2. /\ handle[p][t]["b"] = Empty /\ handle[p][t][u] = Empty
      /\ handle' = [handle EXCEPT ![p][t]["a"] = Empty, ![p][t][u] = handle[p][t]["a"]]
  BY DEF ReturnOne, OneFd, IInv, ProcInv, Locals
<1>3. /\ R = {r \in {"a"} : refs[p][t][r] # NoObject}
      /\ u \in References!Vacant(p, t) /\ refs[p][t][u] = NoObject
  BY <1>1, <1>2 DEF RefsRight, References!Results, References!Vacant, Local
<1>4. to \in Injection(R, References!Vacant(p, t)) /\ DOMAIN to = R /\ \A r \in R : to[r] = u
  BY <1>3 DEF Injection, IsInjective
<1> HIDE DEF to
<1>5. \A v \in Var : References!Returned(p, t, to, v) =
         IF v \in Local THEN NoObject ELSE IF v = u THEN refs[p][t]["a"] ELSE refs[p][t][v]
  <2> TAKE v \in Var
  <2>1. CASE v # u
    BY <1>4, <2>1 DEF References!Returned
  <2>2. CASE v = u /\ "a" \notin R
    BY <1>1, <1>3, <1>4, <2>2 DEF References!Returned
  <2>3. CASE v = u /\ "a" \in R
    <3>1. (CHOOSE r \in DOMAIN to : to[r] = v) = "a"
      BY <1>3, <1>4, <2>3
    <3>2. QED
      BY <1>1, <1>4, <2>3, <3>1 DEF References!Returned
  <2>4. QED
    BY <2>1, <2>2, <2>3
<1>6. \A q \in Proc, s \in Thread, v \in Var :
         handle'[q][s][v] = IF q = p /\ s = t
                            THEN IF v = u THEN handle[p][t]["a"]
                                 ELSE IF v = "a" THEN Empty ELSE handle[p][t][v]
                            ELSE handle[q][s][v]
  BY <1>1, <1>2 DEF IInv, Shape, Memories, Local
<1>7. ASSUME NEW q \in Proc, NEW s \in Thread, NEW v \in Var
      PROVE  handle'[q][s][v].obj =
               IF q = p /\ s = t THEN References!Returned(p, t, to, v) ELSE refs[q][s][v]
  <2>1. handle[q][s][v].obj = refs[q][s][v] /\ handle[p][t]["a"].obj = refs[p][t]["a"]
        /\ handle[p][t][v].obj = refs[p][t][v]
    BY <1>1 DEF RefsRight
  <2>2. v \in Local => v # u /\ (v = "a" \/ handle[p][t][v] = Empty)
    BY <1>1, <1>2 DEF Local
  <2>3. Empty.obj = NoObject /\ (v = "a" => v \in Local)
    BY DEF Empty, Local
  <2>4. QED
    BY <1>5, <1>6, <2>1, <2>2, <2>3
<1>8. QED
  BY <1>4, <1>7, ReturnsRefs

LEMMA ReturnTwoReturns ==
  ASSUME IInv, IInv', NEW p \in Proc, NEW t \in Thread, NEW u \in Unique, NEW w \in Unique,
         ReturnTwo(p, t, u, w)
  PROVE  References!Return(p, t)
<1> DEFINE R  == References!Results(p, t)
           to == [r \in R |-> IF r = "a" THEN u ELSE w]
<1>1. /\ u \in Var /\ w \in Var /\ "a" \in Var /\ "b" \in Var
      /\ u \notin Local /\ w \notin Local /\ RefsRight
  BY VarFacts, RefsSeen DEF Local
<1>2. /\ handle[p][t][u] = Empty /\ handle[p][t][w] = Empty /\ u # w
      /\ handle' = [handle EXCEPT ![p][t]["a"] = Empty, ![p][t][u] = handle[p][t]["a"],
                                  ![p][t]["b"] = Empty, ![p][t][w] = handle[p][t]["b"]]
  BY DEF ReturnTwo
<1>3. /\ R = {r \in {"a", "b"} : refs[p][t][r] # NoObject}
      /\ u \in References!Vacant(p, t) /\ refs[p][t][u] = NoObject
      /\ w \in References!Vacant(p, t) /\ refs[p][t][w] = NoObject
  BY <1>1, <1>2 DEF RefsRight, References!Results, References!Vacant, Local
<1>4. /\ to \in Injection(R, References!Vacant(p, t)) /\ DOMAIN to = R
      /\ \A r \in R : to[r] = IF r = "a" THEN u ELSE w
  BY <1>2, <1>3 DEF Injection, IsInjective
<1> HIDE DEF to
<1>5. \A v \in Var : References!Returned(p, t, to, v) =
         IF v \in Local THEN NoObject
         ELSE IF v = u THEN refs[p][t]["a"] ELSE IF v = w THEN refs[p][t]["b"] ELSE refs[p][t][v]
  <2> TAKE v \in Var
  <2>1. CASE v # u /\ v # w
    BY <1>4, <2>1 DEF References!Returned
  <2>2. CASE (v = u /\ "a" \notin R) \/ (v = w /\ "b" \notin R)
    BY <1>1, <1>2, <1>3, <1>4, <2>2 DEF References!Returned
  <2>3. CASE v = u /\ "a" \in R
    <3>1. (CHOOSE r \in DOMAIN to : to[r] = v) = "a"
      BY <1>2, <1>3, <1>4, <2>3
    <3>2. QED
      BY <1>1, <1>4, <2>3, <3>1 DEF References!Returned
  <2>4. CASE v = w /\ "b" \in R
    <3>1. (CHOOSE r \in DOMAIN to : to[r] = v) = "b"
      BY <1>2, <1>3, <1>4, <2>4
    <3>2. QED
      BY <1>1, <1>2, <1>4, <2>4, <3>1 DEF References!Returned
  <2>5. QED
    BY <2>1, <2>2, <2>3, <2>4
<1>6. \A q \in Proc, s \in Thread, v \in Var :
         handle'[q][s][v] = IF q = p /\ s = t
                            THEN IF v = u THEN handle[p][t]["a"]
                                 ELSE IF v = w THEN handle[p][t]["b"]
                                 ELSE IF v \in Local THEN Empty ELSE handle[p][t][v]
                            ELSE handle[q][s][v]
  <2>1. handle \in [Proc -> Memories]
    BY DEF IInv, Shape
  <2>2. \A q \in Proc, s \in Thread, v \in Var :
          handle'[q][s][v] = IF q # p \/ s # t THEN handle[q][s][v]
                             ELSE IF v \in {"a", "b"} THEN Empty
                             ELSE IF v = u THEN handle[p][t]["a"]
                             ELSE IF v = w THEN handle[p][t]["b"] ELSE handle[q][s][v]
    BY <2>1, ReturnTwoMemory
  <2>3. QED
    BY <1>1, <2>2 DEF Local
<1>7. ASSUME NEW q \in Proc, NEW s \in Thread, NEW v \in Var
      PROVE  handle'[q][s][v].obj =
               IF q = p /\ s = t THEN References!Returned(p, t, to, v) ELSE refs[q][s][v]
  <2>1. handle[q][s][v].obj = refs[q][s][v] /\ handle[p][t]["a"].obj = refs[p][t]["a"]
        /\ handle[p][t]["b"].obj = refs[p][t]["b"] /\ handle[p][t][v].obj = refs[p][t][v]
    BY <1>1 DEF RefsRight
  <2>2. v \in Local => v # u /\ v # w
    BY <1>1
  <2>3. Empty.obj = NoObject
    BY DEF Empty
  <2>4. QED
    BY <1>5, <1>6, <2>1, <2>2, <2>3
<1>8. QED
  BY <1>4, <1>7, ReturnsRefs

(* A process whose variables are empty refers to nothing.                  *)
LEMMA NothingFacts ==
  /\ References!Nothing \in [Thread -> [Var -> Object \cup {NoObject}]]
  /\ \A s \in Thread, v \in Var : References!Nothing[s][v] = NoObject
BY SameVars DEF References!Nothing

LEMMA NothingSeen ==
  ASSUME IInv, NEW q \in Proc, handle[q] = NoHandles
  PROVE  refs[q] = References!Nothing
<1>1. RefsRight
  BY RefsSeen
<1>2. \A s \in Thread, v \in Var : refs[q][s][v] = References!Nothing[s][v]
  BY <1>1, NothingFacts DEF RefsRight, NoHandles
<1>3. refs[q] \in [Thread -> [Var -> Object \cup {NoObject}]]
  BY <1>1 DEF RefsRight, RefType
<1>4. \A s \in Thread : refs[q][s] = References!Nothing[s]
  BY <1>2, <1>3, NothingFacts
<1>5. QED
  BY <1>3, <1>4, NothingFacts

LEMMA ExitEnds ==
  ASSUME IInv, IInv', NEW p \in Proc, NEW t \in Thread, proc_exit(p, t)
  PROVE  References!Exit(p)
<1> DEFINE N == References!Nothing
           g == [refs EXCEPT ![p] = N]
<1>1. RefsRight
  BY RefsSeen
<1>2. /\ g \in RefType
      /\ \A q \in Proc, s \in Thread, w \in Var :
           g[q][s][w] = IF q = p THEN N[s][w] ELSE refs[q][s][w]
  <2>1. N \in [Thread -> [Var -> Object \cup {NoObject}]]
    BY NothingFacts
  <2> HIDE DEF N
  <2>2. QED
    BY <1>1, <2>1, PutProcess DEF RefsRight
<1> HIDE DEF g
<1>3. \A q \in Proc, s \in Thread, w \in Var :
         handle'[q][s][w] = IF q = p THEN Empty ELSE handle[q][s][w]
  BY DEF proc_exit, IInv, Shape, NoHandles
<1>4. \A q \in Proc, s \in Thread, w \in Var : handle'[q][s][w].obj = g[q][s][w]
  BY <1>1, <1>2, <1>3, NothingFacts DEF RefsRight, Empty
<1>5. refs' = g
  BY <1>2, <1>4, NextRefs
<1>6. QED
  BY <1>5 DEF g, References!Exit

(* The child shares the references of the forking thread, and that one has *)
(* a reference to the child in a.                                          *)
LEMMA ForkForks ==
  ASSUME IInv, IInv', NEW p \in Proc, NEW t \in Thread, NEW q \in Proc, proc_fork(p, t, q)
  PROVE  References!Fork(p, t, q, "a")
<1>1. PICK n \in Free(p), o \in Fresh :
        handle' = [handle EXCEPT ![q] = ChildMemory(p, t), ![p][t]["a"] = [fd |-> n, obj |-> o]]
  BY DEF proc_fork
<1>2. "a" \in Var /\ RefsRight
  BY VarFacts, RefsSeen
<1>3. /\ q # p /\ handle[q] = NoHandles /\ handle[p][t]["a"] = Empty
  BY DEF proc_fork, Idle, IInv, ProcInv, Locals
<1>4. o \in References!Unreferenced /\ o \in Object /\ o \in Object \cup {NoObject}
  BY FreshUnreferenced
<1>5. refs[q] = References!Nothing /\ refs[p][t]["a"] = NoObject
  BY <1>2, <1>3, NothingSeen DEF RefsRight
<1> DEFINE N == References!Nothing
           m == [N EXCEPT ![t] = refs[p][t]]
           f == [refs EXCEPT ![q] = m]
           g == [f EXCEPT ![p][t]["a"] = o]
<1>6. /\ m \in [Thread -> [Var -> Object \cup {NoObject}]]
      /\ \A s \in Thread, v \in Var : m[s][v] = IF s = t THEN refs[p][t][v] ELSE NoObject
  <2>1. /\ N \in [Thread -> [Var -> Object \cup {NoObject}]]
        /\ \A s \in Thread, v \in Var : N[s][v] = NoObject
    BY NothingFacts
  <2>2. refs[p][t] \in [Var -> Object \cup {NoObject}]
    BY <1>2 DEF RefsRight, RefType
  <2> HIDE DEF N
  <2>3. QED
    BY <2>1, <2>2
<1> HIDE DEF m
<1>7. /\ f \in RefType
      /\ \A r \in Proc, s \in Thread, w \in Var :
           f[r][s][w] = IF r = q THEN m[s][w] ELSE refs[r][s][w]
  BY <1>2, <1>6, PutProcess DEF RefsRight
<1> HIDE DEF f
<1>8. /\ g \in RefType
      /\ \A r \in Proc, s \in Thread, w \in Var :
           g[r][s][w] = IF r = p /\ s = t /\ w = "a" THEN o ELSE f[r][s][w]
  BY <1>2, <1>4, <1>7, PutRef
<1> HIDE DEF g
<1>9. \A r \in Proc, s \in Thread, w \in Var :
         handle'[r][s][w] =
           IF r = p /\ s = t /\ w = "a" THEN [fd |-> n, obj |-> o]
           ELSE IF r = q THEN IF s = t THEN handle[p][t][w] ELSE Empty
           ELSE handle[r][s][w]
  <2>1. \A s \in Thread, w \in Var :
           ChildMemory(p, t)[s][w] = IF s = t THEN handle[p][t][w] ELSE Empty
    BY <1>2, <1>3 DEF ChildMemory, NoHandles, IInv, Shape, Memories
  <2> DEFINE h == [handle EXCEPT ![q] = ChildMemory(p, t)]
             x == [fd |-> n, obj |-> o]
  <2>2. \A r \in Proc : h[r] = IF r = q THEN ChildMemory(p, t) ELSE handle[r]
    BY DEF IInv, Shape
  <2>3. h \in [Proc -> Memories]
    <3>1. handle[p][t] \in [Var -> Handle] /\ NoHandles \in Memories
      BY EmptyFacts DEF IInv, Shape, Memories, NoHandles
    <3> DEFINE copy == [handle[p][t] EXCEPT !["a"] = Empty]
    <3>2. copy \in [Var -> Handle]
      BY <1>2, <3>1, EmptyFacts
    <3> HIDE DEF copy
    <3>3. [NoHandles EXCEPT ![t] = copy] \in Memories
      BY <3>1, <3>2 DEF Memories
    <3>4. ChildMemory(p, t) \in Memories
      BY <3>3 DEF ChildMemory, copy
    <3>5. QED
      BY <3>4 DEF IInv, Shape
  <2>4. handle' = Write(h, p, t, "a", x)
    BY <1>1 DEF Write
  <2>5. x \in Handle
    BY <1>4 DEF Handle, Free
  <2> HIDE DEF h, x
  <2>6. \A r \in Proc, s \in Thread, w \in Var :
           handle'[r][s][w] = IF r = p /\ s = t /\ w = "a" THEN x ELSE h[r][s][w]
    BY <1>2, <2>3, <2>4, <2>5, WriteFacts
  <2>7. ASSUME NEW r \in Proc, NEW s \in Thread, NEW w \in Var
        PROVE  handle'[r][s][w] =
                 IF r = p /\ s = t /\ w = "a" THEN x
                 ELSE IF r = q THEN IF s = t THEN handle[p][t][w] ELSE Empty
                 ELSE handle[r][s][w]
    <3>1. handle'[r][s][w] = IF r = p /\ s = t /\ w = "a" THEN x ELSE h[r][s][w]
      BY <2>6
    <3>2. h[r][s][w] = IF r = q THEN ChildMemory(p, t)[s][w] ELSE handle[r][s][w]
      BY <2>2
    <3>3. ChildMemory(p, t)[s][w] = IF s = t THEN handle[p][t][w] ELSE Empty
      BY <2>1
    <3>4. QED
      BY <3>1, <3>2, <3>3
  <2>8. QED
    BY <2>7 DEF x
<1>10. \A r \in Proc, s \in Thread, w \in Var : handle'[r][s][w].obj = g[r][s][w]
  <2>1. \A r \in Proc, s \in Thread, w \in Var : handle[r][s][w].obj = refs[r][s][w]
    BY <1>2 DEF RefsRight
  <2>2. Empty.obj = NoObject
    BY DEF Empty
  <2>3. QED
    BY <1>3, <1>6, <1>7, <1>8, <1>9, <2>1, <2>2
<1>11. refs' = g
  BY <1>8, <1>10, NextRefs
<1>12. QED
  BY <1>4, <1>5, <1>11 DEF g, f, m, References!Fork

(* The new image refers to what the old one gave it.                       *)
LEMMA ImageFacts ==
  ASSUME NEW t \in Thread, NEW obj \in [Raw -> Object \cup {NoObject}]
  PROVE  /\ References!Image(t, obj) \in [Thread -> [Var -> Object \cup {NoObject}]]
         /\ \A s \in Thread, v \in Var :
              References!Image(t, obj)[s][v] = IF s = t /\ v \in Raw THEN obj[v] ELSE NoObject
BY SameVars, NothingFacts, VarFacts DEF References!Image, References!Nothing

LEMMA ExecExecs ==
  ASSUME IInv, IInv', NEW p \in Proc, NEW t \in Thread, Exec(p, t)
  PROVE  References!Exec(p, t)
<1>1. PICK given \in SUBSET Raw : \E src \in [given -> Usable(p)],
        num \in Injection(given, Number) : proc_exec(p, t, given, src, num)
  BY DEF Exec
<1>2. PICK src \in [given -> Usable(p)] : \E num \in Injection(given, Number) :
        proc_exec(p, t, given, src, num)
  BY <1>1
<1>3. PICK num \in Injection(given, Number) : proc_exec(p, t, given, src, num)
  BY <1>2
<1> DEFINE obj == [v \in Raw |-> IF v \in given THEN src[v].obj ELSE NoObject]
           I   == References!Image(t, obj)
           g   == [refs EXCEPT ![p] = I]
<1>4. RefsRight
  BY RefsSeen
<1>5. /\ obj \in [Raw -> References!Referents(p) \cup {NoObject}]
      /\ obj \in [Raw -> Object \cup {NoObject}]
  <2>1. \A v \in given : src[v].obj \in References!Referents(p) /\ src[v].obj \in Object
    BY UsableReferent
  <2>2. QED
    BY <2>1
<1>6. \A v \in Raw : obj[v] = IF v \in given THEN src[v].obj ELSE NoObject
  OBVIOUS
<1> HIDE DEF obj
<1>7. /\ I \in [Thread -> [Var -> Object \cup {NoObject}]]
      /\ \A s \in Thread, v \in Var :
           I[s][v] = IF s = t /\ v \in Raw THEN obj[v] ELSE NoObject
  BY <1>5, ImageFacts
<1> HIDE DEF I
<1>8. /\ g \in RefType
      /\ \A q \in Proc, s \in Thread, w \in Var :
           g[q][s][w] = IF q = p THEN I[s][w] ELSE refs[q][s][w]
  BY <1>4, <1>7, PutProcess DEF RefsRight
<1> HIDE DEF g
<1>9. \A q \in Proc, s \in Thread, w \in Var :
         handle'[q][s][w] =
           IF q = p THEN IF s = t /\ w \in given THEN [fd |-> num[w], obj |-> src[w].obj] ELSE Empty
           ELSE handle[q][s][w]
  <2>1. handle' = [handle EXCEPT ![p] =
                     ImageHandles(t, given, num, [v \in given |-> src[v].obj])]
    BY <1>3 DEF proc_exec
  <2>2. \A s \in Thread, w \in Var :
           ImageHandles(t, given, num, [v \in given |-> src[v].obj])[s][w] =
             IF s = t /\ w \in given THEN [fd |-> num[w], obj |-> src[w].obj] ELSE Empty
    BY DEF ImageHandles, NoHandles
  <2>3. QED
    BY <2>1, <2>2 DEF IInv, Shape
<1>10. \A q \in Proc, s \in Thread, w \in Var : handle'[q][s][w].obj = g[q][s][w]
  <2>1. \A q \in Proc, s \in Thread, w \in Var : handle[q][s][w].obj = refs[q][s][w]
    BY <1>4 DEF RefsRight
  <2>2. Empty.obj = NoObject
    BY DEF Empty
  <2> TAKE q \in Proc, s \in Thread, w \in Var
  <2>3. CASE q # p
    <3>1. handle'[q][s][w] = handle[q][s][w]
      BY <1>9, <2>3
    <3>2. g[q][s][w] = refs[q][s][w]
      BY <1>8, <2>3
    <3>3. QED
      BY <2>1, <3>1, <3>2
  <2>4. CASE q = p /\ s = t /\ w \in given
    <3>1. w \in Raw /\ handle'[q][s][w] = [fd |-> num[w], obj |-> src[w].obj]
      BY <1>9, <2>4
    <3>2. g[q][s][w] = src[w].obj
      BY <1>6, <1>7, <1>8, <2>4, <3>1
    <3>3. QED
      BY <3>1, <3>2
  <2>5. CASE q = p /\ ~(s = t /\ w \in given)
    <3>1. handle'[q][s][w] = Empty
      BY <1>9, <2>5
    <3>2. g[q][s][w] = NoObject
      BY <1>6, <1>7, <1>8, <2>5
    <3>3. QED
      BY <2>2, <3>1, <3>2
  <2>6. QED
    BY <2>3, <2>4, <2>5
<1>11. refs' = g
  BY <1>8, <1>10, NextRefs
<1>12. QED
  BY <1>5, <1>11 DEF g, I, References!Exec

(* The first program starts with references in variables of Raw.           *)
LEMMA InitRefs == Init => References!Init
<1> SUFFICES ASSUME Init PROVE References!Init
  OBVIOUS
<1>1. PICK p \in Proc, t \in Thread, given \in SUBSET Raw :
        \E num \in Injection(given, Number), ob \in [given -> Object] :
          /\ table   = [[q \in Proc |-> NoTable] EXCEPT ![p] = ImageTable(given, num, ob)]
          /\ handle  = [[q \in Proc |-> NoHandles]
                          EXCEPT ![p] = ImageHandles(t, given, num, ob)]
          /\ call    = [q \in Proc |-> NoCalls]
          /\ threads = [[q \in Proc |-> {}] EXCEPT ![p] = Thread]
  BY DEF Init
<1>2. PICK num \in Injection(given, Number), ob \in [given -> Object] :
        handle = [[q \in Proc |-> NoHandles] EXCEPT ![p] = ImageHandles(t, given, num, ob)]
  BY <1>1
<1> DEFINE obj == [v \in Raw |-> IF v \in given THEN ob[v] ELSE NoObject]
           I   == References!Image(t, obj)
           z   == [q \in Proc |-> References!Nothing]
           g   == [z EXCEPT ![p] = I]
<1>3. IInv
  BY InitInv
<1>4. RefsRight
  BY <1>3, RefsSeen
<1>5. obj \in [Raw -> Object \cup {NoObject}]
  OBVIOUS
<1>6. \A v \in Raw : obj[v] = IF v \in given THEN ob[v] ELSE NoObject
  OBVIOUS
<1> HIDE DEF obj
<1>7. /\ I \in [Thread -> [Var -> Object \cup {NoObject}]]
      /\ \A s \in Thread, v \in Var :
           I[s][v] = IF s = t /\ v \in Raw THEN obj[v] ELSE NoObject
  BY <1>5, ImageFacts
<1> HIDE DEF I
<1>8. z \in RefType /\ \A q \in Proc, s \in Thread, w \in Var : z[q][s][w] = NoObject
  BY NothingFacts DEF RefType
<1> HIDE DEF z
<1>9. /\ g \in RefType
      /\ \A q \in Proc, s \in Thread, w \in Var :
           g[q][s][w] = IF q = p THEN I[s][w] ELSE z[q][s][w]
  BY <1>7, <1>8, PutProcess
<1> HIDE DEF g
<1>10. \A q \in Proc, s \in Thread, w \in Var :
         handle[q][s][w] =
           IF q = p /\ s = t /\ w \in given THEN [fd |-> num[w], obj |-> ob[w]] ELSE Empty
  BY <1>2 DEF ImageHandles, NoHandles
<1>11. \A q \in Proc, s \in Thread, w \in Var : refs[q][s][w] = g[q][s][w]
  <2>1. Empty.obj = NoObject
    BY DEF Empty
  <2> TAKE q \in Proc, s \in Thread, w \in Var
  <2>2. refs[q][s][w] = handle[q][s][w].obj
    BY <1>4 DEF RefsRight
  <2>3. CASE q = p /\ s = t /\ w \in given
    <3>1. w \in Raw /\ handle[q][s][w] = [fd |-> num[w], obj |-> ob[w]]
      BY <1>10, <2>3
    <3>2. g[q][s][w] = ob[w]
      BY <1>6, <1>7, <1>9, <2>3, <3>1
    <3>3. QED
      BY <2>2, <3>1, <3>2
  <2>4. CASE ~(q = p /\ s = t /\ w \in given)
    <3>1. handle[q][s][w] = Empty
      BY <1>10, <2>4
    <3>2. g[q][s][w] = NoObject
      BY <1>6, <1>7, <1>8, <1>9, <2>4
    <3>3. QED
      BY <2>1, <2>2, <3>1, <3>2
  <2>5. QED
    BY <2>3, <2>4
<1>12. refs = g
  BY <1>4, <1>9, <1>11, SameRefs DEF RefsRight
<1>13. QED
  BY <1>5, <1>12 DEF g, I, z, References!Init

(* Every step of a thread changes the references as an abstract step does, *)
(* or not at all: one case for each action.                                *)
LEMMA StepRefs ==
  ASSUME IInv, IInv', NEW p \in Proc, NEW t \in Thread, Step(p, t)
  PROVE  References!Next \/ UNCHANGED refs
<1>1. ASSUME References!Step(p, t) PROVE References!Next
  BY <1>1 DEF References!Next
<1>2. ASSUME References!Obtain(p, t, "a") \/ References!Obtain(p, t, "b")
      PROVE  References!Step(p, t)
  BY <1>2 DEF References!Step, Local
<1>3. CASE Fail(p, t) \/ ReturnError(p, t)
  BY <1>3 DEF Fail, ReturnError, refs
<1>4. CASE create1(p, t)
  <2>1. PICK o \in Fresh : Allocate(p, t, "create1", o, o)
    BY <1>4 DEF create1
  <2>2. QED
    BY <1>1, <1>2, <2>1, FreshUnreferenced, AllocateObtains
<1>5. CASE \E x \in Usable(p) : dup(p, t, x) \/ file_open(p, t, x) \/ sock_accept(p, t, x)
  <2>1. PICK x \in Usable(p) : dup(p, t, x) \/ file_open(p, t, x) \/ sock_accept(p, t, x)
    BY <1>5
  <2>2. /\ table[p][x.fd] = x.obj /\ x.obj \in Object
        /\ x.obj \in References!Referents(p)
    BY UsableFacts, UsableReferent
  <2>3. CASE dup(p, t, x)
    <3>1. Allocate(p, t, "dup", x.obj, x.obj)
      BY <2>2, <2>3 DEF dup
    <3>2. QED
      BY <1>1, <1>2, <2>2, <3>1, AllocateObtains
  <2>4. CASE file_open(p, t, x) \/ sock_accept(p, t, x)
    <3>1. PICK o \in Fresh : \/ Allocate(p, t, "file_open", o, o)
                             \/ Allocate(p, t, "sock_accept", o, o)
      BY <2>4 DEF file_open, sock_accept
    <3>2. QED
      BY <1>1, <1>2, <3>1, FreshUnreferenced, AllocateObtains
  <2>5. QED
    BY <2>1, <2>3, <2>4
<1>6. CASE create2(p, t)
  BY <1>1, <1>2, <1>6, Create2Obtains
<1>7. CASE \E x, y \in Usable(p) : replace(p, t, x, y)
  <2>1. PICK s \in Thread, v \in Named : References!Replace(p, s, v)
    BY <1>7, ReplaceReplaces
  <2>2. References!Step(p, s)
    BY <2>1, SameVars DEF References!Step
  <2>3. QED
    BY <2>2 DEF References!Next
<1>8. CASE \/ \E u \in Unique : ReturnOne(p, t, u)
           \/ \E u, w \in Unique : ReturnTwo(p, t, u, w)
  <2>1. References!Return(p, t)
    BY <1>8, ReturnOneReturns, ReturnTwoReturns
  <2>2. QED
    BY <1>1, <2>1 DEF References!Step
<1>9. CASE \/ \E u \in Unique : fd_closer(p, t, u)
           \/ \E r \in Raw : close(p, t, r)
  <2>1. PICK v \in Named : References!Drop(p, t, {v})
    BY <1>9, VarFacts, CloseVarDrops DEF fd_closer, close
  <2>2. QED
    BY <1>1, <2>1, SameVars DEF References!Step
<1>10. CASE Discard(p, t)
  BY <1>1, <1>10, DiscardDrops DEF References!Step
<1>11. CASE \E u, w \in Unique, s \in Thread : Move(p, t, u, s, w)
  <2>1. \E u, w \in Unique, s \in Thread : References!Move(p, t, u, s, w)
    BY <1>11, MoveMoves
  <2>2. QED
    BY <1>1, <2>1 DEF References!Step
<1>12. CASE \E q \in Proc : proc_fork(p, t, q)
  <2>1. \E q \in Proc : References!Fork(p, t, q, "a")
    BY <1>12, ForkForks
  <2>2. QED
    BY <1>1, <2>1 DEF References!Step, Local
<1>13. CASE Exec(p, t)
  BY <1>1, <1>13, ExecExecs DEF References!Step
<1>14. CASE proc_exit(p, t)
  BY <1>14, ExitEnds DEF References!Next
<1>15. QED
  BY <1>3, <1>4, <1>5, <1>6, <1>7, <1>8, <1>9, <1>10, <1>11, <1>12, <1>13, <1>14 DEF Step, Keeping

(* To a client that keeps to unique_fd, descriptors are references to      *)
(* objects: for any number of processes, threads and descriptors, closing  *)
(* and reusing numbers, replace, fork and exec cannot be told from what    *)
(* they would do to references.                                            *)
THEOREM DescriptorsAreReferences == Spec => ImplementsReferences
<1>1. Init => References!Init
  BY InitRefs
<1>2. IInv /\ IInv' /\ [Next]_vars => [References!Next]_refs
  <2> SUFFICES ASSUME IInv, IInv', [Next]_vars PROVE References!Next \/ UNCHANGED refs
    OBVIOUS
  <2>1. CASE Next
    BY <2>1, StepRefs DEF Next
  <2>2. CASE UNCHANGED vars
    BY <2>2 DEF vars, refs
  <2>3. QED
    BY <2>1, <2>2
<1>3. QED
  BY <1>1, <1>2, Invariant, PTL DEF Spec, ImplementsReferences, References!Spec
=============================================================================
