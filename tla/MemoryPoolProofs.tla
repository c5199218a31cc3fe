--------------------------- MODULE MemoryPoolProofs ---------------------------
(***************************************************************************)
(* Proofs about MemoryPool, for any number and size of blocks and any set  *)
(* of users.  FreeListExact and CountExact are inductive together with     *)
(* HeldOnce: a block that has one holder only is held by nobody once that  *)
(* one has given it back.                                                  *)
(***************************************************************************)
EXTENDS MemoryPool, FiniteSetTheorems, TLAPS

\* No block has two holders.
HeldOnce ==
    \A u, v \in User : u # v => held[u] \cap held[v] = {}

Inv == TypeOK /\ HeldOnce /\ CountExact /\ FreeListExact

-----------------------------------------------------------------------------
(* Facts about addresses and sets of blocks. *)

\* block_size_ is positive, because a block has room for the link.
LEMMA SizeType == block_size_ \in Nat \ {0}
  BY MemoryPoolAssumption DEF block_size_

\* A pointer that IsValidPointer accepts is the address of a block.
LEMMA ValidIsAddress ==
  ASSUME NEW p \in Pointer, IsValidPointer(p)
  PROVE  BlockAt(p) \in Block /\ p = Address(BlockAt(p))
<1> DEFINE q == p \div block_size_
<1>1. p \in Nat /\ block_size_ \in Nat /\ block_size_ > 0 /\ num_blocks_ \in Nat
  BY SizeType, MemoryPoolAssumption DEF Pointer, IsValidPointer
<1>2. q \in Nat /\ p = block_size_ * q + (p % block_size_)
  BY <1>1
<1>3. p = q * block_size_
  BY <1>1, <1>2 DEF IsValidPointer
<1>4. q * block_size_ < num_blocks_ * block_size_
  BY <1>3 DEF IsValidPointer
<1>5. q < num_blocks_
  <2> SUFFICES ASSUME q >= num_blocks_ PROVE FALSE
    BY <1>1, <1>2
  <2>1. q * block_size_ >= num_blocks_ * block_size_
    BY <1>1, <1>2
  <2> HIDE DEF q
  <2> QED
    BY <1>1, <1>2, <1>4, <2>1
<1> QED
  BY <1>1, <1>2, <1>3, <1>5 DEF BlockAt, Address, Block

\* There are num_blocks_ blocks.
LEMMA BlocksFinite == IsFiniteSet(Block) /\ Cardinality(Block) = num_blocks_
  BY FS_Interval, MemoryPoolAssumption DEF Block

\* The number of held blocks is a natural number.
LEMMA HeldFinite ==
  ASSUME TypeOK
  PROVE  Held \subseteq Block /\ IsFiniteSet(Held) /\ Cardinality(Held) \in Nat
<1>1. Held \subseteq Block
  BY DEF Held, TypeOK
<1> QED
  BY <1>1, BlocksFinite, FS_Subset, FS_CardinalityType

-----------------------------------------------------------------------------

\* The list that Initialize builds has every block.
LEMMA InitInv == Init => Inv
<1> SUFFICES ASSUME Init PROVE Inv
  OBVIOUS
<1> USE MemoryPoolAssumption
<1>1. TypeOK /\ HeldOnce
  BY DEF Init, TypeOK, HeldOnce, Block, Null
<1>2. Held = {}
  BY DEF Init, Held
<1>3. CountExact
  BY <1>2, FS_EmptySet DEF CountExact, Init
<1>4. GetAvailableCount = num_blocks_
  BY DEF GetAvailableCount, Init
<1> DEFINE list == [i \in 1 .. num_blocks_ |-> i - 1]
<1>5. list \in [1 .. num_blocks_ -> Block]
  BY DEF Block
<1>6. IsFreeList(num_blocks_, list)
  BY DEF IsFreeList, Init, Block
<1>7. \A b \in Block : list[b + 1] = b /\ b + 1 \in 1 .. num_blocks_
  BY DEF Block
<1>8. \A i, j \in 1 .. num_blocks_ : list[i] = list[j] => i = j
  OBVIOUS
<1> HIDE DEF list
<1>9. FreeListExact
  BY <1>2, <1>4, <1>5, <1>6, <1>7, <1>8 DEF FreeListExact
<1> QED
  BY <1>1, <1>3, <1>9 DEF Inv

\* Allocate takes the first block of the list, which nobody holds.
LEMMA FirstIsFree ==
  ASSUME Inv, free_list_ # Null
  PROVE  /\ free_list_ \in Block \ Held
         /\ GetAvailableCount \in Nat \ {0}
<1> PICK list \in [1 .. GetAvailableCount -> Block] :
        /\ IsFreeList(GetAvailableCount, list)
        /\ \A b \in Block :
              b \in Held <=> \A i \in 1 .. GetAvailableCount : list[i] # b
  BY DEF Inv, FreeListExact
<1>1. GetAvailableCount \in Nat
  <2>1. Cardinality(Held) <= num_blocks_
    BY HeldFinite, BlocksFinite, FS_Subset DEF Inv
  <2> QED
    BY <2>1, HeldFinite, MemoryPoolAssumption
    DEF Inv, CountExact, GetAvailableCount
<1>2. GetAvailableCount # 0
  BY DEF IsFreeList
<1>3. free_list_ = list[1] /\ 1 \in 1 .. GetAvailableCount
  BY <1>1, <1>2 DEF IsFreeList
<1> QED
  BY <1>1, <1>2, <1>3

\* Taking the first block leaves the rest of the list.
LEMMA AllocateInv ==
  ASSUME Inv, NEW u \in User, AllocateBlock(u) PROVE Inv'
<1> DEFINE b == free_list_
           n == GetAvailableCount
<1>1. b \in Block \ Held /\ n \in Nat \ {0}
  BY FirstIsFree DEF AllocateBlock
<1>2. PICK list \in [1 .. n -> Block] :
        /\ IsFreeList(n, list)
        /\ \A i, j \in 1 .. n : list[i] = list[j] => i = j
        /\ \A c \in Block : c \in Held <=> \A i \in 1 .. n : list[i] # c
  BY DEF Inv, FreeListExact
<1>3. /\ held' = [held EXCEPT ![u] = @ \cup {b}]
      /\ next' = next /\ free_list_' = next[b]
      /\ allocated_count_' = allocated_count_ + 1
  BY DEF AllocateBlock, Advance
<1>4. TypeOK'
  BY <1>1, <1>3 DEF AllocateBlock, Inv, TypeOK, Null
<1>5. Held' = Held \cup {b}
  BY <1>3 DEF Held, Inv, TypeOK
<1>6. HeldOnce'
  BY <1>1, <1>3 DEF HeldOnce, Held, Inv, TypeOK
<1>7. CountExact'
  BY <1>1, <1>3, <1>5, HeldFinite, FS_AddElement DEF Inv, CountExact
<1>8. GetAvailableCount' = n - 1
  BY <1>3, MemoryPoolAssumption DEF GetAvailableCount, Inv, TypeOK
<1> HIDE DEF n
<1> DEFINE rest == [i \in 1 .. n - 1 |-> list[i + 1]]
<1>9. rest \in [1 .. n - 1 -> Block]
  BY <1>1
<1>10. list[1] = b
  BY <1>1, <1>2 DEF IsFreeList
<1>11. free_list_' = IF n - 1 = 0 THEN Null ELSE rest[1]
  BY <1>1, <1>2, <1>3, <1>10 DEF IsFreeList
<1>12. \A i \in 1 .. n - 1 :
          next'[rest[i]] = IF i = n - 1 THEN Null ELSE rest[i + 1]
  BY <1>1, <1>2, <1>3 DEF IsFreeList
<1>13. \A i, j \in 1 .. n - 1 : rest[i] = rest[j] => i = j
  BY <1>1, <1>2
<1>14. ASSUME NEW c \in Block
       PROVE  c \in Held' <=> \A i \in 1 .. n - 1 : rest[i] # c
  <2>1. CASE c = b
    BY <1>1, <1>2, <1>5, <1>10, <2>1
  <2>2. CASE c # b /\ c \in Held
    BY <1>1, <1>2, <1>5, <2>2
  <2>3. CASE c # b /\ c \notin Held
    <3>1. PICK i \in 1 .. n : list[i] = c
      BY <1>2, <2>3
    <3>2. i - 1 \in 1 .. n - 1 /\ rest[i - 1] = c
      BY <1>1, <1>10, <2>3, <3>1
    <3> QED
      BY <1>5, <2>3, <3>2
  <2> QED
    BY <2>1, <2>2, <2>3
<1> HIDE DEF rest
<1>15. FreeListExact'
  BY <1>8, <1>9, <1>11, <1>12, <1>13, <1>14 DEF FreeListExact, IsFreeList
<1> QED
  BY <1>4, <1>6, <1>7, <1>15 DEF Inv

\* The block a user gives back is its own, and no other user's.
LEMMA GivenBackIsHeld ==
  ASSUME Inv, NEW u \in User, NEW p \in Pointer, DeallocateBlock(u, p)
  PROVE  /\ BlockAt(p) \in Block /\ BlockAt(p) \in held[u]
         /\ BlockAt(p) \in Held
         /\ \A v \in User \ {u} : BlockAt(p) \notin held[v]
<1>1. BlockAt(p) \in Block /\ p = Address(BlockAt(p))
  BY ValidIsAddress DEF DeallocateBlock
<1>2. BlockAt(p) \in held[u]
  BY <1>1 DEF DeallocateBlock, OwnOrInvalid
<1> QED
  BY <1>1, <1>2 DEF Held, Inv, HeldOnce

\* Giving a block back puts it in front of the list.
LEMMA DeallocateInv ==
  ASSUME Inv, NEW u \in User, NEW p \in Pointer, DeallocateBlock(u, p)
  PROVE  Inv'
<1> DEFINE b == BlockAt(p)
           n == GetAvailableCount
<1>1. /\ b \in Block /\ b \in held[u] /\ b \in Held
      /\ \A v \in User \ {u} : b \notin held[v]
  BY GivenBackIsHeld
<1>2. /\ held' = [held EXCEPT ![u] = @ \ {b}]
      /\ next' = [next EXCEPT ![b] = free_list_] /\ free_list_' = b
      /\ allocated_count_' = allocated_count_ - 1
  BY DEF DeallocateBlock
<1>3. TypeOK'
  BY <1>1, <1>2 DEF DeallocateBlock, Inv, TypeOK
<1> HIDE DEF b
<1>4. Held' = Held \ {b}
  BY <1>1, <1>2 DEF Held, Inv, TypeOK
<1>5. HeldOnce'
  BY <1>2 DEF HeldOnce, Inv, TypeOK
<1>6. CountExact'
  BY <1>1, <1>2, <1>4, HeldFinite, FS_RemoveElement DEF Inv, CountExact
<1>7. n \in Nat
  <2>1. Cardinality(Held) <= num_blocks_
    BY HeldFinite, BlocksFinite, FS_Subset DEF Inv
  <2> QED
    BY <2>1, HeldFinite, MemoryPoolAssumption
    DEF Inv, CountExact, GetAvailableCount
<1>8. GetAvailableCount' = n + 1
  BY <1>2, MemoryPoolAssumption DEF GetAvailableCount, Inv, TypeOK
<1>9. PICK list \in [1 .. n -> Block] :
        /\ IsFreeList(n, list)
        /\ \A i, j \in 1 .. n : list[i] = list[j] => i = j
        /\ \A c \in Block : c \in Held <=> \A i \in 1 .. n : list[i] # c
  BY DEF Inv, FreeListExact
<1> HIDE DEF n
<1> DEFINE more == [i \in 1 .. n + 1 |-> IF i = 1 THEN b ELSE list[i - 1]]
<1>10. more \in [1 .. n + 1 -> Block]
  BY <1>1, <1>7
<1>11. /\ more[1] = b /\ 1 \in 1 .. n + 1
       /\ \A i \in 1 .. n : i + 1 \in 1 .. n + 1 /\ more[i + 1] = list[i]
       /\ \A i \in 1 .. n + 1 : i # 1 => i - 1 \in 1 .. n /\ more[i] = list[i - 1]
  BY <1>7
<1> HIDE DEF more
<1>12. \A i \in 1 .. n : list[i] # b
  BY <1>1, <1>9
<1>13. ASSUME NEW i \in 1 .. n + 1
       PROVE  next'[more[i]] = IF i = n + 1 THEN Null ELSE more[i + 1]
  <2>1. CASE i = 1
    <3>1. next'[b] = free_list_
      BY <1>1, <1>2 DEF Inv, TypeOK
    <3>2. free_list_ = IF n = 0 THEN Null ELSE list[1]
      BY <1>9 DEF IsFreeList
    <3>3. n # 0 => more[2] = list[1]
      BY <1>7, <1>11
    <3> QED
      BY <1>7, <1>11, <2>1, <3>1, <3>2, <3>3
  <2>2. CASE i # 1
    <3>1. i - 1 \in 1 .. n /\ more[i] = list[i - 1]
      BY <1>11, <2>2
    <3>2. next'[list[i - 1]] = next[list[i - 1]]
      BY <1>2, <1>9, <1>12, <3>1 DEF Inv, TypeOK
    <3>3. next[list[i - 1]] = IF i - 1 = n THEN Null ELSE list[i]
      BY <1>9, <3>1 DEF IsFreeList
    <3>4. i # n + 1 => more[i + 1] = list[i]
      BY <1>7, <1>11, <3>1
    <3> QED
      BY <1>7, <3>1, <3>2, <3>3, <3>4
  <2> QED
    BY <2>1, <2>2
<1>14. \A i, j \in 1 .. n + 1 : more[i] = more[j] => i = j
  BY <1>7, <1>9, <1>11, <1>12
<1>15. \A c \in Block : c \in Held' <=> \A i \in 1 .. n + 1 : more[i] # c
  BY <1>4, <1>9, <1>11, <1>12
<1>16. free_list_' = IF n + 1 = 0 THEN Null ELSE more[1]
  BY <1>2, <1>7, <1>11
<1>17. FreeListExact'
  BY <1>8, <1>10, <1>13, <1>14, <1>15, <1>16 DEF FreeListExact, IsFreeList
<1> QED
  BY <1>3, <1>5, <1>6, <1>17 DEF Inv

\* What a user writes into its block is behind no link of the list.
LEMMA WriteInv ==
  ASSUME Inv, NEW u \in User, Write(u) PROVE Inv'
<1>1. PICK b \in held[u], x \in Block \cup {Null} :
        next' = [next EXCEPT ![b] = x]
  BY DEF Write
<1>2. UNCHANGED <<free_list_, allocated_count_, held, answer>>
  BY DEF Write
<1>3. TypeOK'
  BY <1>1, <1>2 DEF Inv, TypeOK
<1>4. Held' = Held /\ GetAvailableCount' = GetAvailableCount
  BY <1>2 DEF Held, GetAvailableCount
<1>5. HeldOnce' /\ CountExact'
  BY <1>2, <1>4 DEF Inv, HeldOnce, CountExact
<1>6. b \in Held /\ b \in Block
  BY DEF Held, Inv, TypeOK
<1>7. PICK list \in [1 .. GetAvailableCount -> Block] :
        /\ IsFreeList(GetAvailableCount, list)
        /\ \A i, j \in 1 .. GetAvailableCount : list[i] = list[j] => i = j
        /\ \A c \in Block :
              c \in Held <=> \A i \in 1 .. GetAvailableCount : list[i] # c
  BY DEF Inv, FreeListExact
<1>8. \A i \in 1 .. GetAvailableCount : next'[list[i]] = next[list[i]]
  BY <1>1, <1>6, <1>7 DEF Inv, TypeOK
<1>9. IsFreeList(GetAvailableCount, list)'
  BY <1>2, <1>4, <1>7, <1>8 DEF IsFreeList
<1>10. FreeListExact'
  BY <1>4, <1>7, <1>9 DEF FreeListExact
<1> QED
  BY <1>3, <1>5, <1>10 DEF Inv

\* Steps that change neither the list nor who holds what.
LEMMA RefusedInv ==
  ASSUME Inv, UNCHANGED <<free_list_, next, allocated_count_, held>>,
         answer' \in [User -> Block \cup {Null}]
  PROVE  Inv'
<1>1. TypeOK' /\ HeldOnce'
  BY DEF Inv, TypeOK, HeldOnce
<1>2. Held' = Held /\ GetAvailableCount' = GetAvailableCount
  BY DEF Held, GetAvailableCount
<1>3. CountExact'
  BY <1>2 DEF Inv, CountExact
<1>4. PICK list \in [1 .. GetAvailableCount -> Block] :
        /\ IsFreeList(GetAvailableCount, list)
        /\ \A i, j \in 1 .. GetAvailableCount : list[i] = list[j] => i = j
        /\ \A c \in Block :
              c \in Held <=> \A i \in 1 .. GetAvailableCount : list[i] # c
  BY DEF Inv, FreeListExact
<1>5. IsFreeList(GetAvailableCount, list)'
  BY <1>2, <1>4 DEF IsFreeList
<1>6. FreeListExact'
  BY <1>2, <1>4, <1>5 DEF FreeListExact
<1> QED
  BY <1>1, <1>3, <1>6 DEF Inv

\* Every step keeps the invariant.
LEMMA NextInv == Inv /\ [Next]_vars => Inv'
<1> SUFFICES ASSUME Inv, [Next]_vars PROVE Inv'
  OBVIOUS
<1>1. ASSUME NEW u \in User, AllocateFails(u) PROVE Inv'
  BY <1>1, RefusedInv DEF AllocateFails, Inv, TypeOK
<1>2. ASSUME NEW u \in User, NEW p \in Pointer, DeallocateInvalid(u, p) PROVE Inv'
  BY <1>2, RefusedInv DEF DeallocateInvalid, Refused, Inv, TypeOK
<1>3. CASE UNCHANGED vars
  BY <1>3, RefusedInv DEF vars, Inv, TypeOK
<1> QED
  BY <1>1, <1>2, <1>3, AllocateInv, DeallocateInv, WriteInv
  DEF Next, Allocate, Deallocate

\* The inductive invariant holds of every state of the pool.
LEMMA Invariance == Spec => []Inv
  BY InitInv, NextInv, PTL DEF Spec

-----------------------------------------------------------------------------

\* The free list always has exactly the blocks nobody holds, each once, for any
\* number of blocks and whatever users write or pass to Deallocate.
THEOREM FreeListAlwaysExact == Spec => []FreeListExact
  BY Invariance, PTL DEF Inv

\* allocated_count_ is always the number of blocks that are held, so that
\* GetAvailableCount never underflows.
THEOREM CountAlwaysExact == Spec => []CountExact
  BY Invariance, PTL DEF Inv

\* The pool implements BlockAllocator: no block is handed to two users, and
\* Allocate returns nullptr only when no block is left.
THEOREM ImplementsAllocator == Spec => AllocatorSpec
<1>1. Init => Allocator!Init
  BY DEF Init, Allocator!Init
<1>2. Inv /\ [Next]_vars => [Allocator!Next]_<<held, answer>>
  <2> SUFFICES ASSUME Inv, [Next]_vars
               PROVE  [Allocator!Next]_<<held, answer>>
    OBVIOUS
  <2>1. ASSUME NEW u \in User, AllocateFails(u) PROVE Allocator!Next
    <3>1. PICK list \in [1 .. GetAvailableCount -> Block] :
            /\ IsFreeList(GetAvailableCount, list)
            /\ \A c \in Block :
                  c \in Held <=> \A i \in 1 .. GetAvailableCount : list[i] # c
      BY DEF Inv, FreeListExact
    <3>2. GetAvailableCount \in Int
      BY MemoryPoolAssumption DEF GetAvailableCount, Inv, TypeOK
    <3>3. 1 .. GetAvailableCount = {}
      <4> SUFFICES ASSUME GetAvailableCount >= 1 PROVE FALSE
        BY <3>2
      <4>1. list[1] = Null /\ list[1] \in Block
        BY <2>1, <3>1, <3>2 DEF AllocateFails, IsFreeList
      <4> QED
        BY <4>1, MemoryPoolAssumption DEF Block, Null
    <3>4. Block \subseteq Held
      BY <3>1, <3>3
    <3>5. Allocator!Free = {}
      BY <3>4 DEF Allocator!Free, Held
    <3> QED
      BY <2>1, <3>5 DEF AllocateFails, Allocator!Next, Allocator!Refuse
  <2>2. ASSUME NEW u \in User, AllocateBlock(u) PROVE Allocator!Next
    <3>1. free_list_ \in Block /\ free_list_ \in Allocator!Free
      BY <2>2, FirstIsFree DEF AllocateBlock, Allocator!Free, Held
    <3>2. Allocator!Grant(u, free_list_)
      BY <2>2, <3>1 DEF AllocateBlock, Allocator!Grant
    <3> QED
      BY <3>1, <3>2 DEF Allocator!Next
  <2>3. ASSUME NEW u \in User, NEW p \in Pointer, DeallocateBlock(u, p)
        PROVE  Allocator!Next
    <3>1. BlockAt(p) \in Block /\ BlockAt(p) \in held[u]
      BY <2>3, GivenBackIsHeld
    <3>2. Allocator!GiveBack(u, BlockAt(p))
      BY <2>3, <3>1 DEF DeallocateBlock, Allocator!GiveBack
    <3> QED
      BY <3>1, <3>2 DEF Allocator!Next
  <2>4. ASSUME NEW u \in User,
               Write(u) \/ \E p \in Pointer : DeallocateInvalid(u, p)
        PROVE  UNCHANGED <<held, answer>>
    BY <2>4 DEF Write, DeallocateInvalid
  <2>5. CASE UNCHANGED vars
    BY <2>5 DEF vars
  <2> QED
    BY <2>1, <2>2, <2>3, <2>4, <2>5 DEF Next, Allocate, Deallocate
<1> QED
  BY <1>1, <1>2, Invariance, PTL DEF Spec, AllocatorSpec, Allocator!Spec

===============================================================================
