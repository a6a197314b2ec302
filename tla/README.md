# Verification of cloudabi-cpp

cloudabi-cpp is a set of C++ headers over the CloudABI system calls and the
argdata library.  There is no main program and no thread of its own: its state
is what the kernel and the C library keep and what the objects it hands out
hold.  What can go wrong is who closes which descriptor when threads, forks
and execs interleave, and which memory the objects point into after they have
been copied, and which memory values and vectors point to that somebody else
owns.  This directory holds TLA+ specifications of those parts, the
configurations under which TLC checks them, and TLAPS proofs.

`PROJECT.json` lists the components, the runs, the faults every property is
known to catch, the source lines behind each definition, the hazards, and the
theorems.  Definitions whose name ends in `_Something` under a comment
`Fault:` are those faults; no action uses them.

## Inventory

| Component | State | Operations | What is hard | Correct means |
|---|---|---|---|---|
| Descriptor ownership: `fd.hpp`, `fd_impl.hpp`, `proc.hpp` | the number in each `fd` and `unique_fd`; the kernel's table of each process | `close`, `create1`, `create2`, `dup`, `file_open`, `sock_accept`, `replace`, `proc_fork`, `proc_exec`, `proc_exit`, moves and destructors of `unique_fd` | numbers are reused at once; a wrapper is a system call and then a return, and other threads and their forks run in between; a fork copies one thread's variables and the whole table | one owner per number; a held number means the object it was obtained for; nothing leaks; nobody closes what another holds |
| Argdata iterators: `argdata.hpp` 144-260 | the library's iterator and the pointers it handed out, in one object | `begin`, `end`, `++`, `++(int)`, copy, assignment, comparison | pointers into the object itself; copies have to relocate them; elision decides whether there is a copy | every iterator is independent of every other; loops visit each element once and end |
| Argdata values: `argdata.hpp` 41-138, 262-308 | values that point to elements, arrays and bytes that they do not own | `create_*`, `delete`, `get_*`, `as_*`, `encoded_size`, `encode` | lifetimes, and addresses that are used again; `encode` resizes, and so may move, the bytes that other values point to; sizes asked for and then relied on; an error that is ignored | a value whose parts are left alone reads as what it was built as; encoding gives it back, with its descriptors and no others |
| Other system calls: `fd_impl.hpp`, `poll.hpp`, `mem.hpp`, `clock.hpp`, `random.hpp`, `proc_raise` | none; they read the numbers and tables above | one system call each, on no, one or two descriptors | a number is copied first and used later, and may mean something else by then; `poll` does not tell the kernel how much room there is; a mapping without a file still names a descriptor | the call reaches the objects the caller meant, each in its role, unless they were closed or replaced under it; events fit; a mapping without a file maps none |
| Input and output vectors: `iovec.hpp` | a pointer and a length | conversions from pointers, arrays, texts, characters, containers and each other | which conversion an argument selects, and the length it gives; casts that would drop `const`; texts whose end is looked for and need not be in the object | a vector stays inside its object, but for a text without an end; nothing const is written; a text is sent up to its first zero |
| Structure generator: `generate.py` 128-201, and `structs.hpp`, its output | the types to do and the text so far | one pass over the CloudABI definitions | a member's name hides a type of that name, in nested structures too; paths in the layout assertions; order and omissions | every type name means that type; every member's offset is asserted; what is contained is defined before |
| Type generator: `generate.py` 85-125, and `types.hpp`, its output | the types to do and the text so far | one pass over the CloudABI definitions | names that C++ does not allow; types left to other headers; flags without values | every name can be declared and means one thing; every type a structure mentions is declared somewhere |
| `error_or.hpp`, `cloudabi.hpp`, build files | none | none | | |

The components interact through values: `argdata` carries raw descriptor
numbers, `encode` collects them, `proc_exec` sends them to a new image.
`cloudabi_sys_*`, the argdata C library and `mstd` are outside the repository;
they are modelled from how the headers use them, and marked external.

## Modules

### ObjectReferences, FdOwnership

`ObjectReferences` is the abstract specification: there are no numbers and no
tables, a variable refers to an object, as pointers do, and goes on referring to
it until its thread drops it or hands it on, until someone replaces what it
refers to, or until its process ends.  A new reference is to an object that
nobody refers to, or to what a variable refers to already.

`table[p][n]` is the kernel's table of process `p`.  `handle[p][t][v]` is
variable `v` of thread `t`: the number it holds, and, as an auxiliary
component, the object the program obtained it for.  The variables are the
client's `unique_fd`s (`Unique`), the `fd`s it closes by hand (`Raw`), and the
locals `a` and `b` of the wrapper in progress (`create1` calls its local
`result`, `dup` `dup_fd`, `file_open` and `proc_fork` `f`; they are all `a`
here).  `call[p][t]` is the wrapper the thread is in; `threads[p]` is empty
when the process does not run.

Every wrapper that returns descriptors takes two steps.  The first is the
system call, which fails (`Fail`, then `ReturnError`) or writes numbers into
the locals (`create1`, `create2`, `dup`, `file_open`, `sock_accept`,
`proc_fork`).  The second is the return: `ReturnOne` and `ReturnTwo` put the
`unique_fd`s into variables of the caller, `Discard` is the caller that ignores
the result, whose destructors run at once.  `Create2Locals` is the whole of
what is special about `create2`: the address of `b` is passed twice, so `b`
keeps either number (C++ does not see the order in which the kernel writes)
and `a` keeps -1.  Other actions are single steps: they are one system call, made on a number that
is read in the same step.  `close`, `replace` and the wrappers that open are on
variables that no other thread changes meanwhile; where threads do race for a
variable is the subject of `FdCalls`.  `Keeping` collects the actions that
leave every descriptor of a named variable in a named variable.

`proc_fork` copies the table and the calling thread's variables; the other
threads' variables exist in the child's memory but nothing will run their
destructors.  `proc_exec` makes table and variables anew from the list it is
given, each entry under a number the kernel picks, and runs no destructor;
several entries may name the same descriptor.  A failing call that has no
descriptor to return changes nothing and is no step.

`refs` maps this to `ObjectReferences`: what a variable refers to is what the
kernel's table has *now* under the number the variable holds, and not the
object kept in the handle.  A number closed by somebody else and given out
again would therefore show as a reference that changed without a step of
`ObjectReferences` that may change it.

Assumed of the client (and stated at the head of the module): it calls
`close()` by hand only on descriptors no `unique_fd` owns, and once.  `replace`
on a number is allowed to anyone and changes what every holder of the number
means; that is its purpose.

### ForwardIterator, ArgdataIterator, ArgdataTraversal

`ForwardIterator` is the abstract specification: an iterator is a position, it
yields the element there, and no operation on one iterator changes another.

`ArgdataIterator` has objects `[it, value]` in slots.  `it` is the C library's
iterator: container, position, and storage for an element decoded from a
buffer.  `value` holds pointers: to an element a built container refers to, or
`<<i, f>>`, a pointer to field `f` of the storage in slot `i`.  `Kind` selects
`map_iterator` or `seq_iterator`.  Each member function is an operator on an
object and the place it is in, and each action puts the results into slots.
`Returned` is the return of a local object by value: with elision the local is
in the caller's variable from the start, without it is copied out of a frame
that is gone afterwards, and `Elision` says which of the two a compiler may
choose.  `copy` of a `seq_iterator` copies member by member, because its
declared copy constructor takes a `map_iterator` and so is none.

`EqualIffSamePosition` is what a forward iterator's comparison promises, and
fails in two ways.  Over a decoded map two iterators at one position compare
unequal, as the run `map_equality` shows.  Over a built map that has an entry
twice, with the same key and value pointers, iterators at the two compare
equal.  `EqualIffSameEntry` is what is left: over a built map whose entries
differ (`Distinct`) comparison does tell positions apart.

`ArgdataTraversal` adds a loop over one container and a loop body that does
anything to other slots.

### FdCalls

The wrappers that open and close nothing, taken by the same threads over the
same tables.  The module extends `FdOwnership` and adds two variables.
`pending[p][t]` is what the call that thread `t` is in was given, `last` the
outcome of the last step if that was a system call.

A wrapper that is given descriptors takes two steps.  `Called` is the first:
`this` and the parameters of type `fd` are numbers, copied out of the caller's
variables (`Argument`; its auxiliary components are the object the number was
obtained for, and whether the variable was kept since).  `system_call` is the
second: it fails, or acts on what the table has under those numbers *by then*.
In between other threads take any steps: they close the variable the number
came from, get the number from the kernel again for something else, replace
what it means, move the variable, fork, exec and exit.  A close or a replace
of a number makes the calls that were given it *lapse* (`Lapsed`): such a call
may fail or be diverted to another object, and both happen in the run.  An exec
or an exit ends the calls of the image (`Ended`).

The wrappers are grouped by their form (`transfer`, `query`, `file_change`,
`sock_dir`, `file_pair`, ...); comments name the functions.  Those without a
descriptor are one step (`CalledAlone`).  `poll` and `fd_poll` differ: the first
checks the room itself, the second passes it on.  The free `mem_map` uses the
number `MapAnon`, the value of `CLOUDABI_MAP_ANON`, whoever has it.  What is
read, written or returned is left out.

### ImmutableValues, ArgdataValues

`ImmutableValues` is the abstract specification: a value is a tree, given to it
when it is made and never changed, every question is answered from that tree,
and a message is a tree with or without its descriptors.

`ArgdataValues` has addresses.  `node[a]` is the value at address `a`, with a
kind and a number, a place in the program's bytes, or one or two of its arrays;
`array[k]` has the pointers in an array, `block` the bytes of those blocks of
memory that are allocated, `vec[v]` the block of a vector and `fds[v]` the
descriptors that go with it.  An address is free again after `delete`, and an
array or a block after the program drops it, so that a dangling pointer may
lead to something else that looks like a value; `Tree(a)` is what following
the pointers finds.  `encode` is one call: it asks for the size, resizes the
bytes (`MayMove`: they may move if they grow), resizes the list to the size that
was announced, writes both, the list over what the vector had, and cuts it off
to its length (`Trimmed`; `Overwritten` writes past the end of a vector that is
too small).  The list has the descriptors
at some places of the tree (`Lists`): none, where no list is wanted, all, or,
as the C library may list a descriptor that occurs twice once or twice
(`Merge`), the first of each number.

Trees are sequences of tokens, and an encoded tree has positions in the list
where the tree has descriptors.  Numbers have two bits.  Two auxiliary
variables say what should be there: `built[a]` is the tree a value was made
as and everything it is made of, and is `Lost` once a part of that was
destroyed or written over; `sent[v]` is the tree last encoded into a vector.
The program is assumed not to use a value that is `Lost`; it may destroy
anything at any time, and calls that destroy parts of their own argument, as
encoding a value into the bytes it is made of, are in the model.

### IoVec

`object[p]` is an object of the program: a character, an array, a string or
another container, const or not, and its bytes.  `vector[i]` is an `iovec` or
`ciovec`, with the object it leads to, its first byte and its length.  Each
conversion is an action whose guard is what overloading requires: `Writable` is
that there is no pointer to `char` into what is const, an array converts to a
`ciovec` as text only, since it has no `data()`, and vectors convert to
vectors.  `read` and `write` are the kernel's transfers.  A vector is taken away
from the program when its object is destroyed or resized.

`ciovec_text` is the conversion from a `char const *`, and so from an array: its
length is what `string_view` finds by looking for a zero (`TextEnd`).  The
headers do not check that there is one in the object.  After the last byte of
a string there is; after that of anything else there may be any memory, and the
zero that is found there is up to `MaxOverrun` bytes away.  The auxiliary
component `text` of a vector says whether it came from such a conversion, and
whether the kernel has written to the object since (`"stale"`).

### StructGenerator, AbiStructs

`StructGenerator` has the two recursive methods of `CppStructDefsGenerator`,
`generate_struct_members` and `generate_struct_member_asserts`, as recursive
functions of the nesting of variants (`Members[d]`, `Asserts[d]`), and its loop
over types as `generate_type` and `skip`.  `Nesting`, a constant, bounds how
deep variants nest in the lists of types that may be given (`Inputs`).  The
text is abstracted to the tree of members, with a mark where a type is written
with `cloudabi::` before it.

The reference it is checked against is C++.  `Places` are the members that are
not variants, each with the path by which it is reached and the names declared
before it in the scopes around it; what an unnamed union declares is declared
in the structure around it.  `Writable` says which structures the generator
can write: it looks at the members before a variant only, and at names before
mangling, so a name that a later member, an alternative or a deeper variant
hides is beyond it, and so is a mangled one.  `InputsAssumption` is what the
generator takes for granted of a list: structures come after those that they
contain, and a skipped one that others contain is defined in an included
header.  `AbiStructs` has the structures of `structs.hpp`, to show that they
are writable, that their list is as assumed, and that what is in the
repository is what the generator writes for them.  Their C declarations are
external, so the lists are read off `structs.hpp`.

### TypeGenerator, AbiTypes

`TypeGenerator` extends `StructGenerator` to the main program: the
declarations of `types.hpp` (`declare_type`, `skip_type`), then the structures
over the same definitions.  A declaration is a name and the names in its
braces.  Flags without a value stop it, as `max()` of nothing does.
`TypesFor` gives the list of types that goes with a list of structures;
`TypesAssumption` is what CloudABI takes care of: types have different names,
of which those that C++ does not allow are among the five that `mangle` knows,
and structures mention no types but these.
`AbiTypes` has the types of `types.hpp` with all names of their values; the
numbers behind the names are left out.

## Runs

| Run | Question | Bounds |
|---|---|---|
| `threads` | Can one thread close, replace or inherit what another holds? Do descriptors behave as references to objects (`ImplementsReferences`)? | 1 process, 2 threads with 2 `unique_fd`s and 1 `fd` each, 4 numbers, 4 objects: both threads can be inside `create2` at once, and numbers run out and are reused |
| `processes` | The same across fork, exec and exit; and how can a descriptor be left without an owner? | 2 processes (an exited one is reused), 2 threads, 2 numbers, 3 objects |
| `pair` (violation of `NoLeak`) | Does `create2` return both ends? | 1 process, 1 thread, 2 numbers |
| `map_iterators` | Are map iterators independent, and do they implement `ForwardIterator`? | 3 slots (an original, its copy and a third to overwrite), a built map with a repeated key, one with an entry twice, a decoded one and an empty one, with and without elision |
| `seq_copy` (violation of `YieldsOwnElement`) | Is a copy of a sequence iterator independent? | the same |
| `map_equality` (violation of `EqualIffSamePosition`) | Are iterators of one container equal exactly where they are at one position? | the same, without the repeated entry and with elision |
| `traversal` | Does a loop over a sequence visit every element once and end, although copies are unsound? | 3 slots, one of them the loop's, over a decoded sequence of 3; with elision (`Elision = {TRUE}`), since without it the loop of a sequence starts with a dangling element |
| `calls` | Do the other wrappers reach what was meant, whatever happens between copying a number and using it, and keep to their buffers? | 1 process, 2 threads with 2 `unique_fd`s and 1 `fd` each, 2 numbers (two different descriptors for a call on two; the one that is closed is the one that is given out next), 3 objects, ranges of up to 1 event; 78,861 states |
| `anonymous_map` (violation of `AnonymousHasNoFile`) | Does a mapping without a descriptor leave the program's files alone? | 1 process, 1 thread, 2 numbers |
| `values` | Do values read as they were built, and encoded ones come back, whatever else is deleted, moved and reused? | 2 addresses, `true`, 2 arrays of up to one pointer, 1 vector of up to 3 tokens that moves between 2 blocks, 2 descriptors, a number that `get_int` must refuse: a container of a container, a map with one array used twice, both arrays unequal, a value encoded into the bytes of another or of itself |
| `vectors` | Does a vector stay in its object but for texts without an end, and out of const ones, and is a text sent up to its zero? | 1 object of up to 3 bytes (each zero or not), declared anew in every form, 2 vectors made of it and of each other, and a zero at most one byte after the object; 56,699 states |
| `structs` | Do the generators write names that can be declared, structures that mean what they should, with their layout checked? | the CloudABI types and structures, and every structure of up to 2 members, the last of them perhaps a variant of 2 alternatives, over 2 types and 3 names that clash in each of the ways they can; a variant in a variant (`Nesting` is 2); 47,714 states |

In the runs of `FdOwnership` processes, threads, numbers, objects and
`unique_fd` names are symmetric, and a state without successor is allowed,
since all processes may have exited.  Two variables and two threads are enough
for two holders of one number; a third process or thread adds no new pair.
`LeakOnlyByCreate2OrFork` needs two processes, since forks make leaks.
`ImplementsReferences` is checked in `threads`, where there is nobody to fork;
with forks it held too, in a model of the size of `processes` that takes TLC
too long to be one of the runs, and the theorem below has any number of
processes.  In
`calls` one process is enough: forks, execs and other processes are part of
the theorem about `FdCalls` below.  There `MapAnon` is told from the other
number; all else is symmetric.  In `values` addresses, arrays and blocks are symmetric, in
`vectors` the vectors.  Two addresses are enough for a value and a part of it,
of which either may be freed and replaced; with a third the run does not end
in reasonable time, and the theorems below have any number.  A second object
in `vectors` would not interact with the first.

**Fairness.** Only `ArgdataTraversal` assumes any: weak fairness of the loop's
own first step and of its iterations, because a single-threaded program goes
on running and the loop body is assumed to return.  Nothing is assumed about
the body.  Nothing else in the headers waits or promises to come to an end.

## What the runs found

* `create2` (`fd_impl.hpp:35`) leaks one end of each pair and returns an empty
  `unique_fd` for it.
* A copied `seq_iterator` (`argdata.hpp:203`) points into the original.
* Map iterators over decoded data at the same entry are unequal
  (`argdata.hpp:184`); a forward iterator's copy should equal the original.
  The same comparison makes two entries of a built map equal that share their
  key and value pointers.
* The free `mem_map` (`mem.hpp:26`) passes a flag as descriptor, and not the
  flag: it maps the file that has that number, if there is one.

## Proofs

`FdOwnershipProofs`, for any number of processes, threads, numbers, objects
and variables, finite or not: `TypeOK`, `SoleOwner` and
`HandleDenotesItsObject` are invariants of `Spec`.  Neither of the last two is
inductive: a wrapper's return is only a move if nothing else holds the local,
and a system call only overwrites a local if that is empty.  `IInv` adds, for
each process, that a thread outside of a wrapper has empty locals, that only
`create2` uses `b`, that a thread in a wrapper is running, and that nothing is
left of a process that is not running.  It is stated for one process at a
time, as `ProcInv` of its table, memory, calls and threads, so that a step is
shown to keep it for the process it acts on (both, for a fork) and to leave
the rest alone.  Below it, `Good` relates one table and one memory, and a few
lemmas say what keeps it: opening a number, moving a handle, closing,
replacing, forgetting, starting an image.

The two action properties rest on the same invariant.  For `CloseOnlyByHolder`
each action is shown to close no number but one that its thread holds and gives
up, exit and exec excepted (`ClosedRightly`).  `NoNewLeak` does the same for
`LeakOnlyByCreate2OrFork`: a number is lost (`Lost`) if it is open and no
variable holds it, and every action but `create2` and the child's half of `proc_fork` makes none lost that
was not.  `IInv` is needed where a system call overwrites a local, which loses
nothing since the local was empty, and for what a child inherits.

`DescriptorsAreReferences` is the refinement.  `RefsSeen` is where the invariant
is used: a held number denotes the object it was obtained for, so that `refs`
is the handles with their numbers left out, and changes only where a handle or,
by `replace`, the table under it does.  After that there is one lemma for each
action of `FdOwnership`: the system calls are `Obtain`, once or, for the one
end that `create2` keeps, with the other end never referred to; returning is
`Return`; a destructor, `close` and `Discard` are `Drop`; and a step that
changes tables alone is none.  Without `SoleOwner`, `close` would be a step
that changes what others refer to, and there is no such step.

`FdCallsProofs` builds on that.  A call changes neither tables nor variables, so
the steps of `FdCalls` are those of `FdOwnership` or stutter
(`CallsKeepOwnership`), and with its invariant the refinement carries over
(`CallsUseReferences`).  `CallsActOnWhatWasMeant` takes an invariant of its own,
since it is about a number that was read several steps before it is used, and
need not be in the variable it was read from.  `PendingOK` says that an argument
that was kept is the content of *some* named variable of the process.
`KeepingKeeps` shows that no action of `FdOwnership` takes a descriptor from the
named variables but a close, a replace and the end of the image: a move puts it
elsewhere, returns fill empty variables, system calls write to locals, and a
fork writes to the memory of another process.  `CloseVarTakes` and
`ReplaceTakes` show that a close takes, and a replace rewrites, descriptors of
one number only, and calls with that number lapse.  So at the time of the
system call a variable holds the number of each argument that was kept, and by
`HandleDenotesItsObject` that number leads to the object it was obtained for.
For `EventsFit` the same invariant has the room that `fd::poll` was given.

`ArgdataIteratorProofs`, for `map_iterator` and any containers, slots and
compilers: `SelfContained`, `YieldsOwnElement`, `LoopTestIsRight`,
`EqualIffSameEntry` and the refinement `IsForwardIterator`.  The invariant `Own(i, x)` says of object `x`
in place `i` that its pointers are those the library would hand out there for
its position, and that its storage holds the element at that position.  The
refinement follows because under `Own` what is yielded is a function of the
position.  `BuiltPosition` has the same for comparison: over a built map the
pointers are those of the entry at the position, which says which position it
is if no two entries are the same.  Nothing of the kind holds for
`seq_iterator`, as `seq_copy` shows.  `TypeOK` needs one step more than the
invariant: dereferencing an object that satisfies `Own` yields an element.

`ArgdataTraversalProofs` adds the loop to `Own`: the loop's iterator is at the
element after the last one visited.  The body's steps leave the loop's slot
alone.  The theorem holds for maps, and for sequences where `begin()` is built
in place; where it is not, a sequence iterator that was copied out of the
frame of `begin()` is the unsound copy of `seq_copy`.

`ArgdataValuesProofs`, for any finite number of addresses and any number of
arrays, vectors, blocks and descriptors: `TypeOK`, `PartsIntact`,
`ReadsWhatWasBuilt`, `EncodesTheValue`, and that `ArgdataValues` implements
`ImmutableValues`.  So what `values` checks for two addresses and arrays of one
pointer holds for trees of any depth and width.

* *The invariant.*  `Sound(a)` says that what the value at `a` points to exists
  and is listed in `built[a].uses`, with all that its elements use; this is
  what makes the bookkeeping of a step complete, since a step that destroys `x`
  makes exactly the values `Lost` that use `x`.  `StaysSound` shows that a value
  which uses nothing of what a step may destroy is as sound as before,
  `Destroys` and `Creates` that steps of either sort keep the invariant.
  `Owned`, that no two vectors share a block, is needed for `encode`: what it
  writes over is known through the vector it is given.  `Delivered` is
  `EncodesTheValue` for one vector, with the bytes not empty, so that a value
  made of them is a tree.
* *Reading.*  `PartsIntact`, one level deep, is inductive; `ReadsWhatWasBuilt`
  is not, since it says nothing of what a step destroys.  It follows from the
  invariant (`ReadsKnown`): an element uses fewer addresses than its container
  does, because it does not use the container itself, so that by induction on
  their number `Read[d]` finds the tree of every value that uses at most `d`.
  There are no more than `Depth` addresses, and `encode` and `get_*` find all
  of it.
* *Encoding.*  A list has the descriptors at certain places of the tree, all of
  them or the first of each number.  `Ranks` shows that counting the places
  before each one numbers them without gaps, so that the list has exactly
  one entry per place and each descriptor's position leads back to it
  (`EncodedWithList`).  It has no more entries than were announced, so that it
  fits into the vector as resized, and nothing of what the vector had before is
  left when that is cut off (`ListInFull`).
* *Refinement.*  Every action is matched with one of `ImmutableValues`:
  `create_*` with `Create` of a leaf, of a container of the trees its elements
  have at that moment, or of what was received; `encode` with `Send` or, into
  the bytes that are read, `Forget`; everything else ends some values or does
  nothing.  `AnsweredRight` shows that `get_*` and `as_*`, which look at a
  node and at most one token of its bytes, answer what the tree says.

`InductionTheorems` has what this needs of induction.  The library's induction
theorems take an operator, so a property is a set of numbers there
(`Induction`), which follows from the minimum of a well-founded order; from it
come the existence of functions defined by recursion (`Recursion`, and
`TypedRecursion` where the values are of a different type at each number), the
type of a flattened sequence and `Ranks`.

`IoVecProofs`, for any number of objects of any size: `InsideItsObject`,
`OnlyIovecsAreWritten` and `TextsAreSentToTheirZero`.  The invariant adds to the
types of the variables that a vector which is no text lies inside its object,
that one which is a text nobody has written to ends at one of the ends a text
has there (`TextEnd`), and that no iovec is a text.  A read keeps it because it
changes no lengths and makes the texts of its object stale.

`TypeGeneratorProofs`, for any lists of structures and types that satisfy the
assumptions, any names, and variants nested as deep as `Nesting` says:
`NamesResolve`, `AssertsCoverMembers` and `DefinedBeforeUse` for the structures
alone (`Spec`) and within the main program (`Generate`, shown to implement `Spec`), and
`NamesDeclarable` and `TypesDeclared` for the main program; and `AbiAsCheckedIn`,
for lists with structures of CloudABI among any others.

* *The recursive functions.*  That a recursive function satisfies its own
  definition has to be proved.  `ListsDef` does so for the lists of members,
  which lie in no set named beforehand; `MembersDef`, `PlacesDef` and
  `AssertsDef` for the functions on them, by `TypedRecursion`, together with
  their types.
* *Names.*  `PlacesFacts` and `VariantPlaces` say what is in the scope of a
  place: what the members and alternatives before it declare.  In `TypesFound` a
  type of a writable structure is held against each of the three scopes that
  can be around it: its alternative, the alternatives before that, and the
  members before the variant, which is where `cloudabi::` is written.  That
  `Writable` asks for a type there to have one name in C++ and CloudABI came out
  of this proof: the test for a reserved name looks at the name of CloudABI,
  and what is hidden is the mangled one.
* *Offsets.*  `AssertedPaths` and `PlacedPaths` give the paths that are asserted
  and those of the members as the same three cases, and `WrittenPaths` shows that
  writing does not change them.  Variants within variants are excluded by
  `Writable`; there the paths that are asserted start anew.
* *Order.*  `WrittenMentions`, by induction over the nesting, says that what is
  written mentions the types of what was read, at any depth.
* *The loops.*  Both generators go through a list and write something for each
  type that is not skipped.  `Left` and `Made` say what is left and what has been
  made of the first `n` types, in what order; `StructsInv` and `TypesInv`, the
  inductive invariants, are that there is such an `n` for each loop and a list
  that may be given.  The properties say nothing of `todo` or of the list, so
  none of them is inductive.
* *What is qualified.*  `AbiAsCheckedIn` says that `structs.hpp` has `cloudabi::`
  where the generator writes it, and nowhere else.  Computing this from the
  recursive functions is beyond the provers.  `QualifiedPaths` reduces it to
  the lists of members: what is written for a writable structure is qualified
  exactly where a plain member of an alternative has a type with the name of a
  member before the variant (`ReservedAt`).  With that the twelve structures
  are gone through: nine have no variant (`FlatAbi`), for the others
  `EventMembers`, `SubscriptionMembers` and `SockaddrMembers` go through the
  alternatives.  They are shown to be writable on the way, so that the
  theorems on names and offsets are not empty for the one list that matters.
* *Mangling.*  `MangleFacts`: of names that can occur it gives usable ones, and
  different ones for different names.

The assumptions on constants are those named in the modules: addresses of
values are finitely many, -1 is no descriptor number, `Unique` and `Raw` differ, pointers into storage are told
apart from pointers to elements, the decoded element is not at offset 0 of the
library's iterator, the byte from outside of an object is told apart from its
own, places of different kinds are different, and the marks for what does not exist are not
what they stand in for.  `NoneAssumption` is of the last sort: `None`, the name of
a variant, is none of the names in CloudABI's structures, which the provers
cannot derive from its not being a string.

Of the lists given to the generators what is assumed is `NestingAssumption`,
`InputsAssumption` and `TypesAssumption`; the run `structs` evaluates them for
the definitions of CloudABI, so that the theorems apply to those.

Every property of a passing run is stated by one of the theorems but
`LoopTerminates`, a liveness property, which the prover does not do and which
is only model-checked.  Of the four properties that are violated,
`YieldsOwnElement` has a theorem for maps; the others have none, of course.  What TLC adds to the theorems is that the assumptions and guards
can be met: every action is taken in some run, and every property fails for at
least one fault put into a definition.

## Not modelled

* `error_or.hpp` and `cloudabi.hpp`: an alias into a library that is not in
  the repository, and an umbrella header.  Build files.
* `as_map` and `as_seq` where `argdata_map_iterate` fails: they ignore the
  error, and what they return is whatever the C library left in `start_it_`,
  which the repository does not show.
* Texts and floating-point numbers, which are handled as binary values and
  integers are; ranges of `unsigned char`, which are `mstd::range`.
* What the wrappers of `FdCalls` read, write and return, with the checks of the
  error that stand before each return: each wrapper is a call and such a check.
  The descriptors inside the subscriptions of the free `poll`, which are the
  client's numbers in memory that only the kernel reads.
* Whether a program uses a `ciovec` of a text without an end: it may, and what
  is sent then is whatever follows the object.
* What becomes of a value whose parts the program has destroyed, or of one that
  is encoded into its own bytes: it is `Lost`, and nothing more is said of it.
* Structures that the generator cannot write (not `Writable`).  CloudABI has
  none, which `AbiAsCheckedIn` says.
* In `mem.hpp`, which ranges are mapped and how they are protected: the
  kernel's state, of which the headers keep nothing.  The calls themselves and
  their descriptors are in `FdCalls`.
* The numbers of enumerators and the operators of flags in `types.hpp`, the
  same text for every type.
* `encode`, its list of descriptors and `proc_exec` composed: `EncodesTheValue`
  says what the list has, `FdOwnership` what an image gets that is given a
  list.  Between the two is only the program.

`cloudabi_sys_*`, argdata's C library and `mstd` are modelled only as the
headers use them.

## Order of the modules

`ObjectReferences`, `ForwardIterator` and `ImmutableValues` are abstract
specifications; `FdOwnership`, `ArgdataIterator` and `ArgdataValues` implement
them.  `FdCalls` extends
`FdOwnership`, `ArgdataTraversal` extends `ArgdataIterator`, `TypeGenerator`
extends `StructGenerator`, and each `...Proofs` module what it is named after;
`ArgdataValuesProofs` and `TypeGeneratorProofs`, which is about both generators,
also extend `InductionTheorems`.
`IoVec` stands alone.  The `MC...` modules give constants and symmetry to TLC.

A next step would be a module that extends `FdOwnership` by values with
descriptors, in which a program encodes a value and hands the list to
`proc_exec`: the new image finds under each position of its data the object
that the old one meant.
