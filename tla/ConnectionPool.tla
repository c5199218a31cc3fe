---------------------------- MODULE ConnectionPool ----------------------------
(***************************************************************************)
(* conn::ConnectionPool, the Connection objects it maps descriptors to,    *)
(* and the thread of its heartbeat check.                                  *)
(*                                                                         *)
(* The map is only touched under mutex_, so AddConnection, GetConnection   *)
(* and the heartbeat's scan are one step each, taken while mutex_ is free. *)
(* RemoveConnection also calls Connection::Close, whose effects on the     *)
(* object and on the descriptor are visible to threads that hold a         *)
(* shared_ptr to the connection and take no lock: it is several steps.     *)
(***************************************************************************)
EXTENDS Sockets

CONSTANTS
    MaxConnections,     \* max_connections_
    Hb                  \* the heartbeat thread

Thread == Loop \cup {Hb}

ASSUME PoolAssumption ==
    /\ MaxConnections \in Nat
    /\ Hb \notin Loop /\ None # Hb

VARIABLES
    connections_,   \* the map from descriptors to connections
    mutex_,         \* the thread inside RemoveConnection, or None
    state_, fd_,    \* of every Connection object
    timedOut,       \* would IsTimeout(heartbeat_timeout_ms_) return true?
    timeout_fds,    \* the heartbeat thread's list of descriptors to remove
    pc,             \* where each thread is
    argFd,          \* the parameter fd of the call it is in
    obj             \* the local conn of that call

pool == <<connections_, mutex_, state_, fd_, timedOut, timeout_fds,
          pc, argFd, obj>>

RemoveSteps == {"remove", "close", "unset", "erase"}

PoolTypeOK(otherSteps) ==
    /\ connections_ \in [Fd -> Client \cup {None}]
    /\ mutex_ \in Thread \cup {None}
    /\ state_ \in [Client -> {"CONNECTING", "CONNECTED", "CLOSED"}]
    /\ fd_ \in [Client -> Fd \cup {None}]
    /\ timedOut \in [Client -> BOOLEAN]
    /\ timeout_fds \subseteq Fd
    /\ pc \in [Thread -> RemoveSteps \cup otherSteps]
    /\ argFd \in [Thread -> Fd \cup {None}]
    /\ obj \in [Thread -> Client \cup {None}]

PoolInit ==
    /\ connections_ = [f \in Fd |-> None]
    /\ mutex_ = None
    /\ state_ = [c \in Client |-> "CONNECTING"]
    /\ fd_ = [c \in Client |-> None]
    /\ timedOut = [c \in Client |-> FALSE]
    /\ timeout_fds = {}
    /\ pc = [t \in Thread |-> IF t = Hb THEN "sweep" ELSE "dispatch"]
    /\ argFd = [t \in Thread |-> None]
    /\ obj = [t \in Thread |-> None]

Goto(t, step) == pc' = [pc EXCEPT ![t] = step]

\* The end of a thread's work on a descriptor: the heartbeat goes on to its
\* next descriptor, an IO thread to its next event.
Return(t) ==
    /\ Goto(t, IF t = Hb THEN "sweep" ELSE "dispatch")
    /\ argFd' = [argFd EXCEPT ![t] = None]
    /\ obj' = [obj EXCEPT ![t] = None]

\* The connection under a number, or None; the caller has to find the lock
\* free.
GetConnection(f) == connections_[f]

InPool(c) == \E f \in Fd : connections_[f] = c

-----------------------------------------------------------------------------

PoolSize == Cardinality({f \in Fd : connections_[f] # None})

\* Mutants: the limit is off by one, in either direction.
PoolFullOffByOne == PoolSize > MaxConnections
PoolFullTooSoon == PoolSize + 1 >= MaxConnections

PoolFull == PoolSize >= MaxConnections

\* AddConnection(c), under the descriptor f = c->GetFd(); the caller gets
\* `accepted`.  (running_ is true from Init to Shutdown.)
AddConnection(c, f, accepted) ==
    /\ mutex_ = None
    /\ accepted = (~PoolFull /\ connections_[f] = None)
    /\ connections_' = IF accepted THEN [connections_ EXCEPT ![f] = c]
                                   ELSE connections_

-----------------------------------------------------------------------------
(* RemoveConnection(argFd[t]) *)

\* Mutant: RemoveConnection without the lock.
RemoveFindEarlyClose(t) ==
    /\ pc[t] = "remove"
    /\ LET c == connections_[argFd[t]] IN
       \/ /\ c = None
          /\ Return(t)
          /\ UNCHANGED <<mutex_, state_>>
       \/ /\ c # None
          /\ obj' = [obj EXCEPT ![t] = c]
          /\ state_' = [state_ EXCEPT ![c] = "CLOSED"]
          /\ Goto(t, IF state_[c] = "CLOSED" THEN "erase" ELSE "close")
          /\ UNCHANGED <<mutex_, argFd>>
    /\ UNCHANGED <<connections_, fd_, timedOut, timeout_fds, kernel>>

\* Mutant: the lock covers no more than the lookup, and Close has no test of
\* state_.
RemoveFindUnlocked(t) ==
    /\ pc[t] = "remove" /\ mutex_ = None /\ connections_[argFd[t]] # None
    /\ obj' = [obj EXCEPT ![t] = connections_[argFd[t]]]
    /\ state_' = [state_ EXCEPT ![connections_[argFd[t]]] = "CLOSED"]
    /\ Goto(t, "close")
    /\ UNCHANGED <<connections_, mutex_, fd_, timedOut, timeout_fds, argFd,
                   kernel>>

\* Mutant: the early return of RemoveConnection leaves the mutex locked.
RemoveFindKeepsLock(t) ==
    /\ pc[t] = "remove" /\ mutex_ = None
    /\ LET c == connections_[argFd[t]] IN
       \/ /\ c = None
          /\ Return(t)
          /\ UNCHANGED state_
       \/ /\ c # None
          /\ obj' = [obj EXCEPT ![t] = c]
          /\ state_' = [state_ EXCEPT ![c] = "CLOSED"]
          /\ Goto(t, IF state_[c] = "CLOSED" THEN "erase" ELSE "close")
          /\ UNCHANGED argFd
    /\ mutex_' = t
    /\ UNCHANGED <<connections_, fd_, timedOut, timeout_fds, kernel>>

\* Lock, find, and the first half of Close: nothing is closed when the object
\* is CLOSED already.
RemoveFind(t) ==
    /\ pc[t] = "remove" /\ mutex_ = None
    /\ LET c == connections_[argFd[t]] IN
       \/ /\ c = None
          /\ Return(t)
          /\ UNCHANGED <<mutex_, state_>>
       \/ /\ c # None
          /\ mutex_' = t
          /\ obj' = [obj EXCEPT ![t] = c]
          /\ state_' = [state_ EXCEPT ![c] = "CLOSED"]
          /\ Goto(t, IF state_[c] = "CLOSED" THEN "erase" ELSE "close")
          /\ UNCHANGED argFd
    /\ UNCHANGED <<connections_, fd_, timedOut, timeout_fds, kernel>>

\* Close: close(fd_)
RemoveClose(t) ==
    /\ pc[t] = "close"
    /\ CloseFd(fd_[obj[t]])
    /\ Goto(t, "unset")
    /\ UNCHANGED <<connections_, mutex_, state_, fd_, timedOut, timeout_fds,
                   argFd, obj, peer, backlog, aborted>>

\* Close: fd_ = -1.  Then connections_.erase and the end of the lock's scope.
RemoveErase(t) ==
    /\ pc[t] \in {"unset", "erase"}
    /\ fd_' = IF pc[t] = "unset" THEN [fd_ EXCEPT ![obj[t]] = None] ELSE fd_
    /\ connections_' = [connections_ EXCEPT ![argFd[t]] = None]
    /\ mutex_' = None
    /\ Return(t)
    /\ UNCHANGED <<state_, timedOut, timeout_fds, kernel>>

RemoveConnection(t) == RemoveFind(t) \/ RemoveClose(t) \/ RemoveErase(t)

-----------------------------------------------------------------------------
(* HeartbeatCheckLoop *)

\* The time since last_heartbeat_ of a connection exceeds the timeout.
Age(c) ==
    /\ ~timedOut[c] /\ InPool(c)
    /\ timedOut' = [timedOut EXCEPT ![c] = TRUE]
    /\ UNCHANGED <<connections_, mutex_, state_, fd_, timeout_fds,
                   pc, argFd, obj, kernel>>

\* Mutant: the scan never finds a timed-out connection.
ScanNothing ==
    /\ pc[Hb] = "sweep" /\ timeout_fds = {} /\ mutex_ = None
    /\ UNCHANGED <<kernel, pool>>

\* After the 10 s wait: collect the descriptors of idle connections.
HeartbeatScan ==
    /\ pc[Hb] = "sweep" /\ timeout_fds = {} /\ mutex_ = None
    /\ timeout_fds' = {f \in Fd : /\ connections_[f] # None
                                  /\ timedOut[connections_[f]]}
    /\ UNCHANGED <<connections_, mutex_, state_, fd_, timedOut,
                   pc, argFd, obj, kernel>>

\* With mutex_ released, RemoveConnection(fd) for each of them.
HeartbeatRemove ==
    /\ pc[Hb] = "sweep"
    /\ \E f \in timeout_fds :
          /\ timeout_fds' = timeout_fds \ {f}
          /\ argFd' = [argFd EXCEPT ![Hb] = f]
    /\ Goto(Hb, "remove")
    /\ UNCHANGED <<connections_, mutex_, state_, fd_, timedOut, obj, kernel>>

Heartbeat == HeartbeatScan \/ HeartbeatRemove \/ RemoveConnection(Hb)

=============================================================================
