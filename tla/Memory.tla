--------------------------------- MODULE Memory ---------------------------------
(* The slab pool and the shared tensor buffers of RecursiveMachineIntelligence*)
(* /src/runtime/memory_pool.rs.  Threads call the pool under its lock and the *)
(* buffers through atomic counters, taken as sequentially consistent.  Sizes  *)
(* are in units of the least size class; callers give a block back once, with *)
(* a size of its class.                                                       *)
EXTENDS Integers, Sequences, FiniteSets, SequencesExt, FiniteSetsExt

CONSTANTS
    Class,           \* the size classes in use
    Preallocated,    \* size_classes of the PoolConfig
    InitialCapacity, GrowthFactor, AutoGrow,
    MaxTotal,        \* max_total_bytes
    BufferLen,       \* the bytes of a tensor buffer
    MaxBuffers,      \* bound: the buffers ever made
    MaxHandles       \* bound: the handles at a time

ASSUME MemoryAssumption ==
    /\ Class \subseteq Nat \ {0} /\ Preallocated \subseteq Class
    /\ \E top \in Class \cup {0} : \A c \in Class : c <= top
    /\ {InitialCapacity, GrowthFactor} \subseteq Nat \ {0} /\ AutoGrow \in BOOLEAN
    /\ {MaxTotal, BufferLen, MaxBuffers, MaxHandles} \subseteq Nat

VARIABLES
    slabs,      \* by class: the slabs, each with its free list
    managed,    \* total_managed
    held,       \* history: the blocks callers have, as class, slab and index
    handles,    \* the tensor buffers that live, of all threads
    refs,       \* by buffer: the reference count
    frees       \* by buffer: how often its memory was freed

poolVars == <<slabs, managed, held>>
bufferVars == <<handles, refs, frees>>
memoryVars == <<poolVars, bufferVars>>

Down(n) == [i \in 1 .. n |-> n - i]    \* (0..n).rev()

(* Iterator::sum. *)
Total(terms, n) ==
    LET upto[k \in 0 .. n] == IF k = 0 THEN 0 ELSE upto[k - 1] + terms[k]
    IN upto[n]

Top == Max(Class \cup {0})

(* The bytes with_config starts with, whatever the limit is. *)
Configured ==
    Total([c \in 1 .. Top |-> IF c \in Preallocated THEN c * InitialCapacity ELSE 0], Top)

Slab(capacity) == [capacity |-> capacity, free |-> Down(capacity), allocated |-> 0]

MemoryInit ==
    /\ slabs = [c \in Class |-> IF c \in Preallocated THEN <<Slab(InitialCapacity)>> ELSE <<>>]
    /\ managed = Configured
    /\ held = {}
    /\ handles = <<>> /\ refs = <<>> /\ frees = <<>>

-----------------------------------------------------------------------------
(* The pool.                                                                 *)

Taken(slab) == [slab EXCEPT !.free = Front(@), !.allocated = @ + 1]

(* alloc, from the first slab that has a block. *)
Reuse(c) ==
    LET open == {i \in DOMAIN slabs[c] : slabs[c][i].free # <<>>}
        i == Min(open)
    IN /\ open # {}
       /\ slabs' = [slabs EXCEPT ![c][i] = Taken(@)]
       /\ held' = held \cup {<<c, i, Last(slabs[c][i].free)>>}
       /\ UNCHANGED <<managed, bufferVars>>

(* Mutant: the blocks of a new slab are counted, not their bytes. *)
BlocksOf(c, slab) == slab.capacity

Bytes(c, slab) == c * slab.capacity

(* alloc, from a new slab; without room for it, or without auto_grow, it is  *)
(* an error.                                                                 *)
Grow(c) ==
    LET new == Slab(InitialCapacity * GrowthFactor) IN
    /\ AutoGrow /\ \A i \in DOMAIN slabs[c] : slabs[c][i].free = <<>>
    /\ managed + Bytes(c, new) <= MaxTotal
    /\ managed' = managed + Bytes(c, new)
    /\ slabs' = [slabs EXCEPT ![c] = Append(@, Taken(new))]
    /\ held' = held \cup {<<c, Len(slabs[c]) + 1, Last(new.free)>>}
    /\ UNCHANGED bufferVars

Given(slab, index) == [slab EXCEPT !.free = Append(@, index), !.allocated = @ - 1]

Dealloc(block) ==
    /\ block \in held
    /\ slabs' = [slabs EXCEPT ![block[1]][block[2]] = Given(@, block[3])]
    /\ held' = held \ {block}
    /\ UNCHANGED <<managed, bufferVars>>

(* Mutant: the free list is not cleared first. *)
RefilledOnTop(slab) == [slab EXCEPT !.free = @ \o Down(slab.capacity), !.allocated = 0]

Refilled(slab) == [slab EXCEPT !.free = Down(slab.capacity), !.allocated = 0]

(* reset: all blocks are free, also those callers have. *)
Reset ==
    /\ slabs' = [c \in Class |-> [i \in DOMAIN slabs[c] |-> Refilled(slabs[c][i])]]
    /\ held' = {}
    /\ UNCHANGED <<managed, bufferVars>>

-----------------------------------------------------------------------------
(* Tensor buffers.  A handle in a mutable borrow is in no other call.        *)

Fresh == Min((1 .. MaxHandles) \ DOMAIN handles)

Hold(handle) ==
    /\ Cardinality(DOMAIN handles) < MaxHandles
    /\ handles' = [h \in DOMAIN handles \cup {Fresh} |->
                      IF h = Fresh THEN handle ELSE handles[h]]

FromVec ==
    /\ Len(refs) < MaxBuffers
    /\ Hold([buffer |-> Len(refs) + 1, owned |-> TRUE, at |-> 0, len |-> BufferLen,
             borrowed |-> FALSE])
    /\ refs' = Append(refs, 1) /\ frees' = Append(frees, 0)
    /\ UNCHANGED poolVars

(* slice, and clone, which is the slice of everything. *)
Slice(h, offset, len) ==
    /\ ~handles[h].borrowed
    /\ offset + len <= handles[h].len
    /\ Hold([handles[h] EXCEPT !.owned = FALSE, !.at = @ + offset, !.len = len])
    /\ refs' = [refs EXCEPT ![handles[h].buffer] = @ + 1]
    /\ UNCHANGED <<frees, poolVars>>

(* as_bytes_mut, and the end of its borrow. *)
BorrowMut(h) ==
    /\ ~handles[h].borrowed /\ refs[handles[h].buffer] = 1
    /\ handles' = [handles EXCEPT ![h].borrowed = TRUE]
    /\ UNCHANGED <<refs, frees, poolVars>>

EndBorrow(h) ==
    /\ handles[h].borrowed
    /\ handles' = [handles EXCEPT ![h].borrowed = FALSE]
    /\ UNCHANGED <<refs, frees, poolVars>>

(* Mutant: the owner frees, whoever still looks. *)
FreesAsOwner(h) == handles[h].owned

Frees(h) == refs[handles[h].buffer] = 1 /\ handles[h].owned

(* drop. *)
Discard(h) ==
    /\ ~handles[h].borrowed
    /\ refs' = [refs EXCEPT ![handles[h].buffer] = @ - 1]
    /\ frees' = [frees EXCEPT ![handles[h].buffer] = IF Frees(h) THEN @ + 1 ELSE @]
    /\ handles' = [g \in DOMAIN handles \ {h} |-> handles[g]]
    /\ UNCHANGED poolVars

MemoryNext ==
    \/ \E c \in Class : Reuse(c) \/ Grow(c)
    \/ \E block \in held : Dealloc(block)
    \/ Reset
    \/ FromVec
    \/ \E h \in DOMAIN handles :
          \/ \E offset, len \in 0 .. BufferLen : Slice(h, offset, len)
          \/ BorrowMut(h) \/ EndBorrow(h) \/ Discard(h)

MemorySpec == MemoryInit /\ [][MemoryNext]_memoryVars

-----------------------------------------------------------------------------
(* A block is free or in one caller's hands, never both and never twice on   *)
(* the free list, through any order of growth, reuse and resets; and the     *)
(* slab counts those that are out.                                           *)
BlocksAccounted ==
    \A c \in Class : \A i \in DOMAIN slabs[c] :
        LET slab == slabs[c][i]
            out == {block[3] : block \in {b \in held : b[1] = c /\ b[2] = i}}
        IN /\ IsInjective(slab.free)
           /\ ToSet(slab.free) \cap out = {}
           /\ ToSet(slab.free) \cup out = 0 .. slab.capacity - 1
           /\ slab.allocated = Cardinality(out)

Capacity(s, c) == Total([i \in 1 .. Len(s[c]) |-> s[c][i].capacity], Len(s[c]))

InUse(s) == Total([c \in 1 .. Top |-> IF c \in Class THEN c * Capacity(s, c) ELSE 0], Top)

(* The pool's total is what its slabs hold in bytes, and it is over its      *)
(* limit only if it was made so, and then it does not grow.                  *)
PoolFits == managed = InUse(slabs) /\ (managed <= MaxTotal \/ managed = Configured)

Views(b) == {h \in DOMAIN handles : handles[h].buffer = b}

(* A buffer is freed once at most and only when nobody can see it, views of  *)
(* views stay inside it, and who writes to it is alone with it.              *)
ViewsAreSound ==
    \A b \in DOMAIN refs :
        /\ refs[b] = Cardinality(Views(b))
        /\ frees[b] <= 1 /\ (frees[b] = 1 => Views(b) = {})
        /\ \A h \in Views(b) :
              /\ handles[h].at + handles[h].len <= BufferLen
              /\ handles[h].borrowed => Views(b) = {h}

MemoryIsSound == BlocksAccounted /\ PoolFits /\ ViewsAreSound

(* memory_pool.rs:566: "Last reference and we own the data".  The memory of  *)
(* a buffer that nobody has a handle of is given back.                       *)
LastHandleFrees ==
    \A b \in DOMAIN refs : Views(b) = {} => frees[b] = 1
=============================================================================
