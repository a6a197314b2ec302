------------------------------ MODULE FdCalls ------------------------------
(***************************************************************************)
(* The wrappers that open and close nothing: reading and writing, files,   *)
(* sockets, clocks, memory and polling, called by threads that open,       *)
(* close, replace, fork and exec as FdOwnership says.                      *)
(*                                                                         *)
(* A wrapper that is given descriptors takes two steps.  The first copies  *)
(* numbers out of variables: `this`, and the parameters of type fd.  The   *)
(* second is the system call on those numbers.  Between the two other      *)
(* threads may close, replace or move the variables, have the numbers      *)
(* given out again, fork, exec and exit.                                   *)
(*                                                                         *)
(* What is kept of a call is which objects it acted on, by role, and how   *)
(* many events it wrote.  What was read or written is left out.            *)
(***************************************************************************)
EXTENDS FdOwnership, Sequences

CONSTANTS
  MapAnon,    \* the descriptor number that has the value of CLOUDABI_MAP_ANON
  MaxEvents   \* bound on the sizes of the ranges given to poll

ASSUME MapAnonAssumption == MapAnon \in Number
ASSUME MaxEventsAssumption == MaxEvents \in Nat

VARIABLES
  pending,   \* pending[p][t]: what the call that thread t is in was given
  last       \* the outcome of the last step, if that was a system call

fvars == <<vars, pending, last>>

(* An argument: a copy of x's number and, as auxiliary components, the     *)
(* object it was obtained for and whether x was kept: not closed or        *)
(* replaced since.                                                         *)
Argument(x) == [fd |-> x.fd, obj |-> x.obj, kept |-> TRUE]

NotCalling == [busy |-> FALSE, args |-> <<>>, room |-> 0]
NoneCalls  == [t \in Thread |-> NotCalling]

Nothing == [ok |-> FALSE, args |-> <<>>, reached |-> <<>>, events |-> 0, room |-> 0]

Quiet(p, t) == Idle(p, t) /\ ~pending[p][t].busy

(* Number n, wherever a call of p was given it, is kept no longer.         *)
LapsedArgs(args, n) ==
  [i \in DOMAIN args |->
     [fd |-> args[i].fd, obj |-> args[i].obj, kept |-> args[i].kept /\ args[i].fd # n]]

Lapsed(p, n) ==
  [pending EXCEPT ![p] = [t \in Thread |->
     [busy |-> pending[p][t].busy, room |-> pending[p][t].room,
      args |-> LapsedArgs(pending[p][t].args, n)]]]

-----------------------------------------------------------------------------
(* The two steps of a wrapper with descriptors.                            *)

(* Only fd::poll is given room for events.                                 *)
Called(p, t, xs, room) ==
  /\ Quiet(p, t)
  /\ pending' = [pending EXCEPT ![p][t] =
       [busy |-> TRUE, room |-> room,
        args |-> [i \in DOMAIN xs |-> Argument(xs[i])]]]
  /\ last' = Nothing
  /\ UNCHANGED vars

(* It may always fail.  The kernel writes no more events than have room.   *)
system_call(p, t) ==
  LET call_ == pending[p][t]
  IN
  /\ call_.busy
  /\ \E n \in 0..call_.room : \E err \in BOOLEAN :
       /\ ~err => \A i \in DOMAIN call_.args : Open(p, call_.args[i])
       /\ last' = [ok |-> ~err, args |-> call_.args, room |-> call_.room,
            reached |-> IF err THEN <<>>
                        ELSE [i \in DOMAIN call_.args |-> table[p][call_.args[i].fd]],
            events  |-> IF err THEN 0 ELSE n]
  /\ pending' = [pending EXCEPT ![p][t] = NotCalling]
  /\ UNCHANGED vars

(* pread, pwrite, read, write; seek, stat_get; file_readlink,              *)
(* file_stat_fget, file_stat_get; sock_stat_get; mem_map.                  *)
transfer(p, t, x)      == Called(p, t, <<x>>, 0)
query(p, t, x)         == Called(p, t, <<x>>, 0)
file_query(p, t, x)    == Called(p, t, <<x>>, 0)
sock_stat_get(p, t, x) == Called(p, t, <<x>>, 0)
fd_mem_map(p, t, x)    == Called(p, t, <<x>>, 0)

(* datasync; stat_put, sync; file_advise, file_allocate, file_create;      *)
(* file_stat_fput, file_stat_put, file_symlink, file_unlink; sock_listen,  *)
(* sock_shutdown.                                                          *)
datasync(p, t, x)    == Called(p, t, <<x>>, 0)
sync(p, t, x)        == Called(p, t, <<x>>, 0)
file_change(p, t, x) == Called(p, t, <<x>>, 0)
file_update(p, t, x) == Called(p, t, <<x>>, 0)
sock_change(p, t, x) == Called(p, t, <<x>>, 0)

(* sock_bind and sock_connect: a socket, and the directory of its path.    *)
(* file_link and file_rename: the directories of two paths.                *)
sock_dir(p, t, x, dir) == Called(p, t, <<x, dir>>, 0)
file_pair(p, t, x, y)  == Called(p, t, <<x, y>>, 0)

(* fd::poll tells the kernel how much room there is.                       *)
fd_poll(p, t, x, room) == Called(p, t, <<x>>, room)

-----------------------------------------------------------------------------
(* Wrappers that are given no descriptor are a system call and no more.    *)

CalledAlone(p, t, ok, reached, events, room) ==
  /\ Quiet(p, t)
  /\ last' = [ok |-> ok, args |-> <<>>, reached |-> reached,
              events |-> events, room |-> room]
  /\ UNCHANGED <<vars, pending>>

(* clock_res_get, clock_time_get; mem_advise, mem_protect, mem_sync,       *)
(* mem_unmap; random_get.                                                  *)
clock(p, t)      == \E ok \in BOOLEAN : CalledAlone(p, t, ok, <<>>, 0, 0)
mem_call(p, t)   == \E ok \in BOOLEAN : CalledAlone(p, t, ok, <<>>, 0, 0)
random_get(p, t) == \E ok \in BOOLEAN : CalledAlone(p, t, ok, <<>>, 0, 0)

(* Fault: the size check is the wrong way round.                           *)
TooSmall_Reversed(in, room) == in < room

(* Is there no room for an event for each subscription?                    *)
TooSmall(in, room) == room < in

(* poll: the kernel is not told the room, and writes an event for some of  *)
(* the subscriptions.                                                      *)
poll(p, t, in, room) ==
  \E n \in 0..in, ok \in BOOLEAN :
    /\ ok => ~TooSmall(in, room)
    /\ CalledAlone(p, t, ok, <<>>, IF ok THEN n ELSE 0, room)

(* The free mem_map: fd::mem_map on the descriptor fd(CLOUDABI_MAP_ANON).  *)
(* Only with the flag anon, which is not among the default flags, does the *)
(* kernel take no descriptor.                                              *)
mem_map(p, t, anon) ==
  \E ok \in BOOLEAN :
    /\ ok => anon \/ table[p][MapAnon] # NoObject
    /\ CalledAlone(p, t, ok, IF ok /\ ~anon THEN <<table[p][MapAnon]>> ELSE <<>>, 0, 0)

-----------------------------------------------------------------------------
(* The steps of FdOwnership, of threads that are in none of these calls.   *)
(* Closing or replacing a number concerns the calls that were given it; an *)
(* image that ends takes its calls with it.                                *)

Ended(p) == pending' = [pending EXCEPT ![p] = NoneCalls]

Opening(p, t) ==
  /\ ~pending[p][t].busy
  /\ \/ Keeping(p, t) /\ UNCHANGED pending
     \/ \E u \in Unique : fd_closer(p, t, u) /\ pending' = Lapsed(p, handle[p][t][u].fd)
     \/ \E r \in Raw : close(p, t, r) /\ pending' = Lapsed(p, handle[p][t][r].fd)
     \/ \E x, y \in Usable(p) : replace(p, t, x, y) /\ pending' = Lapsed(p, x.fd)
     \/ Exec(p, t) /\ Ended(p)
     \/ proc_exit(p, t) /\ Ended(p)
  /\ last' = Nothing

(* The signal may be one that ends the process.                            *)
proc_raise(p, t) ==
  \/ \E ok \in BOOLEAN : CalledAlone(p, t, ok, <<>>, 0, 0)
  \/ Quiet(p, t) /\ proc_exit(p, t) /\ Ended(p) /\ last' = Nothing

FInit == Init /\ pending = [p \in Proc |-> NoneCalls] /\ last = Nothing

FCall(p, t) ==
  \/ \E x \in Usable(p) :
       \/ transfer(p, t, x) \/ query(p, t, x) \/ file_query(p, t, x)
       \/ sock_stat_get(p, t, x) \/ fd_mem_map(p, t, x)
       \/ datasync(p, t, x) \/ sync(p, t, x) \/ file_change(p, t, x)
       \/ file_update(p, t, x) \/ sock_change(p, t, x)
       \/ \E room \in 0..MaxEvents : fd_poll(p, t, x, room)
       \/ \E y \in Usable(p) : sock_dir(p, t, x, y) \/ file_pair(p, t, x, y)
  \/ system_call(p, t)
  \/ clock(p, t) \/ mem_call(p, t) \/ random_get(p, t) \/ proc_raise(p, t)
  \/ \E in, room \in 0..MaxEvents : poll(p, t, in, room)
  \/ \E anon \in BOOLEAN : mem_map(p, t, anon)

FNext == \E p \in Proc, t \in Thread : Opening(p, t) \/ FCall(p, t)

FSpec == FInit /\ [][FNext]_fvars

-----------------------------------------------------------------------------
(* A call in progress is diverted in one way only: by a thread that, after *)
(* the number was copied, closes the variable it came from or replaces     *)
(* what that number means.  Whatever else other threads do meanwhile, and  *)
(* be it to move the variable, to close, reuse and replace other numbers,  *)
(* or to fork, the system call acts in each role on the object that the    *)
(* argument was obtained for.                                              *)
ActsOnWhatWasMeant ==
  last.ok => \A i \in DOMAIN last.args :
               last.args[i].kept => last.reached[i] = last.args[i].obj

(* The kernel never writes past the end of a range of events.              *)
EventsFit == last.events <= last.room

(* A call that was given no descriptor acts on none: a mapping that was    *)
(* asked for without one is not one of a file.                             *)
AnonymousHasNoFile == last.ok /\ last.args = <<>> => last.reached = <<>>
=============================================================================
