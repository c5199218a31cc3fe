---------------------------- MODULE BlockAllocator ----------------------------
(***************************************************************************)
(* What MemoryPool promises: each block has at most one holder, Allocate   *)
(* gives a block that nobody holds, and refuses only when all are held.    *)
(***************************************************************************)
CONSTANTS
    Block,      \* the blocks
    User,       \* the threads that use them
    Null        \* nullptr

VARIABLES
    held,       \* the blocks each user has
    answer      \* what Allocate last returned to each user

Free == {b \in Block : \A u \in User : b \notin held[u]}

Init == /\ held = [u \in User |-> {}]
        /\ answer = [u \in User |-> Null]

Grant(u, b) ==
    /\ b \in Free
    /\ held' = [held EXCEPT ![u] = @ \cup {b}]
    /\ answer' = [answer EXCEPT ![u] = b]

Refuse(u) ==
    /\ Free = {}
    /\ answer' = [answer EXCEPT ![u] = Null]
    /\ UNCHANGED held

GiveBack(u, b) ==
    /\ b \in held[u]
    /\ held' = [held EXCEPT ![u] = @ \ {b}]
    /\ UNCHANGED answer

Next == \E u \in User :
            Refuse(u) \/ \E b \in Block : Grant(u, b) \/ GiveBack(u, b)

Spec == Init /\ [][Next]_<<held, answer>>

===============================================================================
