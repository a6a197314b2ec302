---------------------------- MODULE FdOwnership ----------------------------
(***************************************************************************)
(* Who owns which file descriptor.                                         *)
(*                                                                         *)
(* The kernel keeps one table per process, from descriptor numbers to open *)
(* objects.  The library keeps numbers: a plain `fd` is a copyable number, *)
(* a `unique_fd` is a number that its destructor closes.  Numbers are      *)
(* reused as soon as they are closed, several threads call the wrappers at *)
(* once, and proc_fork, proc_exec and proc_exit replace whole tables and   *)
(* whole address spaces.                                                   *)
(*                                                                         *)
(* A wrapper that returns descriptors takes two steps: the system call     *)
(* writes numbers into the wrapper's local variables, and the return       *)
(* builds a unique_fd from each of them.  Other threads, their forks       *)
(* included, act between the two.                                          *)
(*                                                                         *)
(* The client is assumed to call fd::close() only on a descriptor that no  *)
(* unique_fd owns, and once: Raw names the fd variables it does so with.   *)
(* close() leaves the number in the variable; a variable so spent is Empty *)
(* here, since the client makes no further use of it.                      *)
(***************************************************************************)
EXTENDS Naturals, Functions

CONSTANTS
  Proc,      \* process identities; an identity is reused after an exit
  Thread,    \* threads of a process
  Number,    \* the descriptor numbers a table has room for
  Object,    \* what descriptors refer to: files, sockets, processes, ...
  Unique,    \* names of a thread's unique_fd variables
  Raw,       \* names of a thread's fd variables it closes by hand
  NoFd,      \* the number -1 of a default constructed fd
  NoObject   \* marks a closed entry of a table

Local == {"a", "b"}     \* the fd variables of a wrapper in progress
Named == Unique \cup Raw
Var   == Local \cup Named

ASSUME NoFdAssumption == NoFd \notin Number
ASSUME NoObjectAssumption == NoObject \notin Object
ASSUME VarAssumption == Unique \cap Raw = {} /\ Local \cap Named = {}

VARIABLES
  table,     \* table[p][n]: the object that number n of process p refers to
  handle,    \* handle[p][t][v]: the content of variable v of thread t
  call,      \* call[p][t]: the wrapper that thread t is in, or "idle"
  threads    \* threads[p]: the threads of process p, {} if it is not running

vars == <<table, handle, call, threads>>

(* A variable's content: its number and, as an auxiliary component, the    *)
(* object that the program took the number for when it obtained it.        *)
Empty  == [fd |-> NoFd, obj |-> NoObject]
Handle == [fd : Number, obj : Object] \cup {Empty}

OneFd == {"create1", "dup", "file_open", "sock_accept", "fork"}
Call  == OneFd \cup {"idle", "error", "create2"}

NoHandles == [t \in Thread |-> [v \in Var |-> Empty]]
NoTable   == [n \in Number |-> NoObject]
NoCalls   == [t \in Thread |-> "idle"]

Free(p) == {n \in Number : table[p][n] = NoObject}
Fresh   == Object \ UNION {{table[p][n] : n \in Number} : p \in Proc}
Usable(p) == {handle[p][t][v] : t \in Thread, v \in Named} \ {Empty}
Open(p, x) == table[p][x.fd] # NoObject
Idle(p, t) == t \in threads[p] /\ call[p][t] = "idle"

-----------------------------------------------------------------------------
(* A program image starts with the descriptors it was given in variables   *)
(* of its main thread t: obj[v] under number num[v] for each v of given.   *)

ImageHandles(t, given, num, obj) ==
  [NoHandles EXCEPT ![t] =
     [v \in Var |-> IF v \in given THEN [fd |-> num[v], obj |-> obj[v]] ELSE Empty]]

ImageTable(given, num, obj) ==
  [n \in Number |-> IF \E v \in given : num[v] = n
                    THEN obj[CHOOSE v \in given : num[v] = n] ELSE NoObject]

Init ==
  \E p \in Proc, t \in Thread, given \in SUBSET Raw :
  \E num \in Injection(given, Number), obj \in [given -> Object] :
    /\ table   = [[q \in Proc |-> NoTable] EXCEPT ![p] = ImageTable(given, num, obj)]
    /\ handle  = [[q \in Proc |-> NoHandles]
                    EXCEPT ![p] = ImageHandles(t, given, num, obj)]
    /\ call    = [q \in Proc |-> NoCalls]
    /\ threads = [[q \in Proc |-> {}] EXCEPT ![p] = Thread]

-----------------------------------------------------------------------------
(* System calls that return descriptors.                                   *)

Enter(p, t, c) == Idle(p, t) /\ call' = [call EXCEPT ![p][t] = c]

(* Any call may fail: the locals keep the -1 they were initialised with.   *)
Fail(p, t) == Enter(p, t, "error") /\ UNCHANGED <<table, handle, threads>>

(* The kernel picks a closed number for object o, which the program takes  *)
(* for object m.                                                           *)
Allocate(p, t, c, o, m) ==
  /\ Enter(p, t, c)
  /\ \E n \in Free(p) :
       /\ table'  = [table  EXCEPT ![p][n] = o]
       /\ handle' = [handle EXCEPT ![p][t]["a"] = [fd |-> n, obj |-> m]]
  /\ UNCHANGED threads

create1(p, t) == \E o \in Fresh : Allocate(p, t, "create1", o, o)

(* Fault: dup calls create1.                                               *)
dup_Create1(p, t, x) == Open(p, x) /\ \E o \in Fresh : Allocate(p, t, "dup", o, x.obj)

dup(p, t, x) == Open(p, x) /\ Allocate(p, t, "dup", table[p][x.fd], x.obj)

file_open(p, t, x) ==
  Open(p, x) /\ \E o \in Fresh : Allocate(p, t, "file_open", o, o)

sock_accept(p, t, x) ==
  Open(p, x) /\ \E o \in Fresh : Allocate(p, t, "sock_accept", o, o)

(* Fault: make_pair(unique_fd(b), unique_fd(b)).                           *)
Create2Locals_Twice(x, y) == {<<y, y>>}

(* The locals a and b of create2 once the kernel has written x and y.      *)
(* Both out-parameters are &b.fd_, so b keeps the number written last.     *)
Create2Locals(x, y) == {<<Empty, x>>, <<Empty, y>>}

create2(p, t) ==
  /\ Enter(p, t, "create2")
  /\ \E n1, n2 \in Free(p), o1, o2 \in Fresh :
       /\ n1 # n2 /\ o1 # o2
       /\ table' = [table EXCEPT ![p][n1] = o1, ![p][n2] = o2]
       /\ \E ab \in Create2Locals([fd |-> n1, obj |-> o1], [fd |-> n2, obj |-> o2]) :
            handle' = [handle EXCEPT ![p][t]["a"] = ab[1], ![p][t]["b"] = ab[2]]
  /\ UNCHANGED threads

-----------------------------------------------------------------------------
(* The return of a wrapper: a unique_fd takes over each local.             *)

ReturnError(p, t) ==
  /\ call[p][t] = "error"
  /\ call' = [call EXCEPT ![p][t] = "idle"]
  /\ UNCHANGED <<table, handle, threads>>

ReturnOne(p, t, u) ==
  /\ call[p][t] \in OneFd
  /\ handle[p][t][u] = Empty
  /\ handle' = [handle EXCEPT ![p][t]["a"] = Empty, ![p][t][u] = handle[p][t]["a"]]
  /\ call' = [call EXCEPT ![p][t] = "idle"]
  /\ UNCHANGED <<table, threads>>

ReturnTwo(p, t, u, w) ==
  /\ call[p][t] = "create2"
  /\ u # w /\ handle[p][t][u] = Empty /\ handle[p][t][w] = Empty
  /\ handle' = [handle EXCEPT ![p][t]["a"] = Empty, ![p][t][u] = handle[p][t]["a"],
                              ![p][t]["b"] = Empty, ![p][t][w] = handle[p][t]["b"]]
  /\ call' = [call EXCEPT ![p][t] = "idle"]
  /\ UNCHANGED <<table, threads>>

(* cloudabi_sys_fd_close on the given handles: EBADF if already closed.    *)
AfterClose(p, hs) ==
  [table EXCEPT ![p] =
     [n \in Number |-> IF \E x \in hs : x.fd = n THEN NoObject ELSE table[p][n]]]

(* The caller drops the result: the destructors of the returned unique_fds *)
(* close what the locals held.                                             *)
Discard(p, t) ==
  /\ call[p][t] \in OneFd \cup {"create2"}
  /\ table'  = AfterClose(p, {handle[p][t]["a"], handle[p][t]["b"]})
  /\ handle' = [handle EXCEPT ![p][t]["a"] = Empty, ![p][t]["b"] = Empty]
  /\ call'   = [call EXCEPT ![p][t] = "idle"]
  /\ UNCHANGED threads

-----------------------------------------------------------------------------
(* Giving descriptors up.                                                  *)

(* fd_closer on the content of variable v, or close() by hand: the error   *)
(* is not looked at.                                                       *)
CloseVar(p, t, v) ==
  /\ Idle(p, t)
  /\ handle[p][t][v] # Empty
  /\ table'  = AfterClose(p, {handle[p][t][v]})
  /\ handle' = [handle EXCEPT ![p][t][v] = Empty]
  /\ UNCHANGED <<call, threads>>

(* Fault: the closer does not call close.                                  *)
fd_closer_Forget(p, t, u) ==
  /\ Idle(p, t)
  /\ handle[p][t][u] # Empty
  /\ handle' = [handle EXCEPT ![p][t][u] = Empty]
  /\ UNCHANGED <<table, call, threads>>

fd_closer(p, t, u) == CloseVar(p, t, u)
close(p, t, r)     == CloseVar(p, t, r)

(* Fault: a unique_fd can be copied.                                       *)
Move_Copy(p, t, u, s, w) ==
  /\ Idle(p, t) /\ s \in threads[p]
  /\ handle[p][t][u] # Empty /\ handle[p][s][w] = Empty
  /\ handle' = [handle EXCEPT ![p][s][w] = handle[p][t][u]]
  /\ UNCHANGED <<table, call, threads>>

(* A unique_fd can only be moved, also to another thread's variable.       *)
Move(p, t, u, s, w) ==
  /\ Idle(p, t) /\ s \in threads[p]
  /\ handle[p][t][u] # Empty /\ handle[p][s][w] = Empty
  /\ handle' = [handle EXCEPT ![p][t][u] = Empty, ![p][s][w] = handle[p][t][u]]
  /\ UNCHANGED <<table, call, threads>>

(* Fault: the two arguments of cloudabi_sys_fd_replace are swapped.        *)
AfterReplace_Swapped(p, from, to) == [table EXCEPT ![p][from] = table[p][to]]

(* Fault: the number is moved rather than copied.                          *)
AfterReplace_Renumber(p, from, to) ==
  [table EXCEPT ![p][from] = NoObject, ![p][to] = table[p][from]]

(* cloudabi_sys_fd_replace(from, to) makes number to a copy of from.       *)
AfterReplace(p, from, to) == [table EXCEPT ![p][to] = table[p][from]]

(* x.replace(y): whoever holds x's number from now on means y's object.    *)
replace(p, t, x, y) ==
  /\ Idle(p, t) /\ Open(p, x) /\ Open(p, y)
  /\ table'  = AfterReplace(p, y.fd, x.fd)
  /\ handle' = [handle EXCEPT ![p] =
       [s \in Thread |-> [v \in Var |->
          IF handle[p][s][v].fd = x.fd THEN [fd |-> x.fd, obj |-> y.obj]
                                       ELSE handle[p][s][v]]]]
  /\ UNCHANGED <<call, threads>>

-----------------------------------------------------------------------------
(* Processes.                                                              *)

(* Fault: the child wraps the thread id as its descriptor.                 *)
ChildMemory_Tid(p, t) ==
  [NoHandles EXCEPT ![t] = [handle[p][t] EXCEPT !["a"] = [fd |-> t, obj |-> NoObject]]]

(* The child runs the forking thread only, on a copy of the memory; what   *)
(* the other threads' variables held is out of its reach.  Its f is        *)
(* CLOUDABI_PROCESS_CHILD, the number of an empty fd.                      *)
ChildMemory(p, t) ==
  [NoHandles EXCEPT ![t] = [handle[p][t] EXCEPT !["a"] = Empty]]

proc_fork(p, t, q) ==
  /\ Idle(p, t) /\ threads[q] = {}
  /\ \E n \in Free(p), o \in Fresh :
       /\ table'  = [table  EXCEPT ![q] = table[p], ![p][n] = o]
       /\ handle' = [handle EXCEPT ![q] = ChildMemory(p, t),
                                   ![p][t]["a"] = [fd |-> n, obj |-> o]]
  /\ call'    = [call    EXCEPT ![q] = [NoCalls EXCEPT ![t] = "fork"], ![p][t] = "fork"]
  /\ threads' = [threads EXCEPT ![q] = {t}]

(* The new image gets src[v] for each variable v of given and nothing      *)
(* else; no destructor runs in the old one.                                *)
proc_exec(p, t, given, src, num) ==
  /\ Idle(p, t)
  /\ \A v \in given : Open(p, src[v])
  /\ table'   = [table  EXCEPT ![p] =
                   ImageTable(given, num, [v \in given |-> table[p][src[v].fd]])]
  /\ handle'  = [handle EXCEPT ![p] =
                   ImageHandles(t, given, num, [v \in given |-> src[v].obj])]
  /\ call'    = [call EXCEPT ![p] = NoCalls]
  /\ threads' = [threads EXCEPT ![p] = Thread]

Exec(p, t) ==
  \E given \in SUBSET Raw :
  \E src \in [given -> Usable(p)], num \in Injection(given, Number) :
    proc_exec(p, t, given, src, num)

(* No destructor runs; the kernel closes the table.                        *)
proc_exit(p, t) ==
  /\ Idle(p, t)
  /\ table'   = [table   EXCEPT ![p] = NoTable]
  /\ handle'  = [handle  EXCEPT ![p] = NoHandles]
  /\ call'    = [call    EXCEPT ![p] = NoCalls]
  /\ threads' = [threads EXCEPT ![p] = {}]

-----------------------------------------------------------------------------
(* What leaves every descriptor of a named variable in a named variable.    *)
Keeping(p, t) ==
  \/ Fail(p, t) \/ ReturnError(p, t)
  \/ create1(p, t) \/ create2(p, t)
  \/ \E x \in Usable(p) : dup(p, t, x) \/ file_open(p, t, x) \/ sock_accept(p, t, x)
  \/ \E u \in Unique : ReturnOne(p, t, u)
  \/ \E u, w \in Unique : ReturnTwo(p, t, u, w)
  \/ Discard(p, t)
  \/ \E u, w \in Unique, s \in Thread : Move(p, t, u, s, w)
  \/ \E q \in Proc : proc_fork(p, t, q)

Step(p, t) ==
  \/ Keeping(p, t)
  \/ \E u \in Unique : fd_closer(p, t, u)
  \/ \E r \in Raw : close(p, t, r)
  \/ \E x, y \in Usable(p) : replace(p, t, x, y)
  \/ Exec(p, t)
  \/ proc_exit(p, t)

Next == \E p \in Proc, t \in Thread : Step(p, t)

Spec == Init /\ [][Next]_vars

-----------------------------------------------------------------------------
(* Every variable has its type, and a process that is not running has no   *)
(* open descriptor, no variable and no call left over.                     *)
TypeOK ==
  /\ table   \in [Proc -> [Number -> Object \cup {NoObject}]]
  /\ handle  \in [Proc -> [Thread -> [Var -> Handle]]]
  /\ call    \in [Proc -> [Thread -> Call]]
  /\ threads \in [Proc -> SUBSET Thread]
  /\ \A p \in Proc : threads[p] = {} =>
        table[p] = NoTable /\ handle[p] = NoHandles /\ call[p] = NoCalls

(* A descriptor has one owner: no two variables of a process, unique_fd or *)
(* fd, named or local to a wrapper in progress, hold the same number.      *)
(* Otherwise two destructors would close it, the second one perhaps after  *)
(* the kernel gave the number to another thread.                           *)
SoleOwner ==
  \A p \in Proc, s, t \in Thread, v, w \in Var :
    /\ handle[p][s][v].fd # NoFd
    /\ handle[p][s][v].fd = handle[p][t][w].fd
    => s = t /\ v = w

(* A number keeps denoting what its holder obtained it for: it is open,    *)
(* and neither a close, a reuse of the number, a replace, a fork nor an    *)
(* exec by anyone else has put another object behind it.                   *)
HandleDenotesItsObject ==
  \A p \in Proc, t \in Thread, v \in Var :
    handle[p][t][v] # Empty =>
      table[p][handle[p][t][v].fd] = handle[p][t][v].obj

HeldBy(p, t) == {handle[p][t][v].fd : v \in Var}
Held(p) == UNION {HeldBy(p, t) : t \in Thread}
Leaked(p) == {n \in Number : table[p][n] # NoObject} \ Held(p)

(* An open descriptor that nothing in its process will ever close appears  *)
(* in two ways only: create2 forgets one end of the pair, and the child of *)
(* a fork inherits what the parent had leaked or its other threads held.   *)
LeakOnlyByCreate2OrFork ==
  [][\A p \in Proc :
       \/ Leaked(p)' \subseteq Leaked(p)
       \/ \E t \in Thread : call[p][t] = "idle" /\ call'[p][t] = "create2"
       \/ \E q \in Proc, t \in Thread :
            /\ threads[p] = {} /\ threads'[p] = {t}
            /\ Leaked(p)' = Leaked(q) \cup
                 ((UNION {HeldBy(q, s) : s \in Thread \ {t}}) \ {NoFd})]_vars

(* A number is only closed by the thread that holds it, and gives it up by *)
(* that step: no wrapper closes a number some other thread owns, or one    *)
(* nothing owns.  Exit and exec end everything the image held at once.     *)
CloseOnlyByHolder ==
  [][\A p \in Proc, n \in Number :
       table[p][n] # NoObject /\ table'[p][n] = NoObject =>
         \/ \E t \in threads[p] : n \in HeldBy(p, t) \ HeldBy(p, t)' /\ n \notin Held(p)'
         \/ threads'[p] = {}
         \/ \E t \in Thread : Exec(p, t)]_vars

(* Every open descriptor of a process is held by one of its variables.     *)
NoLeak == \A p \in Proc : Leaked(p) = {}

-----------------------------------------------------------------------------
(* What each variable refers to, by the kernel's table.                    *)
refs ==
  [p \in Proc |-> [t \in Thread |-> [v \in Var |->
     IF handle[p][t][v] = Empty THEN NoObject ELSE table[p][handle[p][t][v].fd]]]]

References == INSTANCE ObjectReferences WITH Result <- Local

(* Descriptors behave as references to objects: that they are numbers,     *)
(* which the kernel reuses and every thread can close, makes no difference *)
(* to a client that keeps to unique_fd.                                    *)
ImplementsReferences == References!Spec
=============================================================================
