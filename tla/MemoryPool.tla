------------------------------ MODULE MemoryPool ------------------------------
(***************************************************************************)
(* util::MemoryPool: num_blocks_ blocks of block_size_ bytes in one array, *)
(* the free ones linked through their own first bytes.  Allocate and       *)
(* Deallocate hold pool_mutex_ from the first access to the list to the    *)
(* last and are one step each.                                             *)
(*                                                                         *)
(* A user writes what it likes into a block it holds, the bytes that were  *)
(* the link included.  It may hand Deallocate any pointer by mistake, but  *)
(* for the address of a block that it does not hold: IsValidPointer cannot *)
(* tell that, and the list would be broken.                                *)
(***************************************************************************)
EXTENDS Integers, FiniteSets

CONSTANTS
    User,           \* the threads that use the pool
    num_blocks_,
    RequestedSize,  \* the constructor's block_size
    LinkSize        \* sizeof(Block)

\* The constructor throws when there is no block.
ASSUME MemoryPoolAssumption ==
    /\ num_blocks_ \in Nat \ {0}
    /\ RequestedSize \in Nat /\ LinkSize \in Nat \ {0}

Null == -1

\* A block is named by its index; memory_ is address 0.
Block == 0 .. num_blocks_ - 1

block_size_ == IF RequestedSize < LinkSize THEN LinkSize ELSE RequestedSize

Address(b) == b * block_size_

\* Pointers into the array, and up to one block before and after it: nullptr,
\* which Deallocate ignores, is one of those before it.
Pointer == -block_size_ .. (num_blocks_ + 1) * block_size_

VARIABLES
    free_list_,         \* the first free block
    next,               \* the first bytes of each block
    allocated_count_,
    held,               \* the blocks each user has
    answer              \* what Allocate last returned to each user

vars == <<free_list_, next, allocated_count_, held, answer>>

\* Every variable has its type.
TypeOK ==
    /\ free_list_ \in Block \cup {Null}
    /\ next \in [Block -> Block \cup {Null}]
    /\ allocated_count_ \in Int
    /\ held \in [User -> SUBSET Block]
    /\ answer \in [User -> Block \cup {Null}]

\* Initialize links the blocks in the order of their addresses.
Init ==
    /\ free_list_ = 0
    /\ next = [b \in Block |-> IF b = num_blocks_ - 1 THEN Null ELSE b + 1]
    /\ allocated_count_ = 0
    /\ held = [u \in User |-> {}]
    /\ answer = [u \in User |-> Null]

-----------------------------------------------------------------------------

\* Mutant: the list is not advanced past its last block.
NextOrSame(b) == IF next[b] = Null THEN b ELSE next[b]

\* The block that becomes the first one when b is taken.
Advance(b) == next[b]

AllocateFails(u) ==
    /\ free_list_ = Null
    /\ answer' = [answer EXCEPT ![u] = Null]
    /\ UNCHANGED <<free_list_, next, allocated_count_, held>>

AllocateBlock(u) ==
    /\ free_list_ # Null
    /\ free_list_' = Advance(free_list_)
    /\ allocated_count_' = allocated_count_ + 1
    /\ held' = [held EXCEPT ![u] = @ \cup {free_list_}]
    /\ answer' = [answer EXCEPT ![u] = free_list_]
    /\ UNCHANGED next

Allocate(u) == AllocateFails(u) \/ AllocateBlock(u)

\* Mutant: the pointer is only tested to lie in the array.
InArray(p) == p >= 0 /\ p < num_blocks_ * block_size_

IsValidPointer(p) ==
    /\ p >= 0 /\ p < num_blocks_ * block_size_
    /\ p % block_size_ = 0

BlockAt(p) == p \div block_size_

\* The caller of Deallocate passes the address of no block but its own.
OwnOrInvalid(u, p) == \A b \in Block : p = Address(b) => b \in held[u]

\* Mutant: the count goes down for a pointer that is refused.
CountDown ==
    allocated_count_' = allocated_count_ - 1 /\ UNCHANGED <<free_list_, next>>

\* A pointer that is not that of a block, nullptr included, changes nothing.
Refused == UNCHANGED <<allocated_count_, free_list_, next>>

DeallocateInvalid(u, p) ==
    /\ ~IsValidPointer(p)
    /\ Refused
    /\ UNCHANGED <<held, answer>>

DeallocateBlock(u, p) ==
    /\ OwnOrInvalid(u, p) /\ IsValidPointer(p)
    /\ next' = [next EXCEPT ![BlockAt(p)] = free_list_]
    /\ free_list_' = BlockAt(p)
    /\ allocated_count_' = allocated_count_ - 1
    /\ held' = [held EXCEPT ![u] = @ \ {BlockAt(p)}]
    /\ UNCHANGED answer

Deallocate(u, p) == DeallocateInvalid(u, p) \/ DeallocateBlock(u, p)

\* The user writes to its block: its first bytes may then look like a link.
Write(u) ==
    /\ \E b \in held[u], x \in Block \cup {Null} :
          next' = [next EXCEPT ![b] = x]
    /\ UNCHANGED <<free_list_, allocated_count_, held, answer>>

GetAvailableCount == num_blocks_ - allocated_count_

Next == \E u \in User :
    Allocate(u) \/ Write(u) \/ \E p \in Pointer : Deallocate(u, p)

Spec == Init /\ [][Next]_vars

-----------------------------------------------------------------------------

Held == UNION {held[u] : u \in User}

\* list is the chain of blocks that starts at free_list_.
IsFreeList(n, list) ==
    /\ free_list_ = IF n = 0 THEN Null ELSE list[1]
    /\ \A i \in 1 .. n :
          next[list[i]] = IF i = n THEN Null ELSE list[i + 1]

\* The free list has GetAvailableCount blocks, each of them once, and they are
\* the blocks nobody holds: whatever users write into their blocks, and whatever
\* but the address of a block they do not hold they pass to Deallocate, it gets no cycle, no gap and no block that is in use.
FreeListExact ==
    \E list \in [1 .. GetAvailableCount -> Block] :
        /\ IsFreeList(GetAvailableCount, list)
        /\ \A i, j \in 1 .. GetAvailableCount : list[i] = list[j] => i = j
        /\ \A b \in Block :
              b \in Held <=> \A i \in 1 .. GetAvailableCount : list[i] # b

\* allocated_count_, which is read without the lock, is the number of blocks
\* that are held.
CountExact == allocated_count_ = Cardinality(Held)

Allocator == INSTANCE BlockAllocator

\* The pool implements BlockAllocator: no block has two holders, and Allocate
\* returns nullptr only when every block is held.
AllocatorSpec == Allocator!Spec

===============================================================================
