---------------------------- MODULE ReactorProofs ----------------------------
(***************************************************************************)
(* Proofs about Reactor, for any number of clients, descriptors and loops  *)
(* and any limit on the pool.  PoolEntriesLive is not inductive: it says   *)
(* nothing while the lock is held.  Inv adds what holds during a           *)
(* RemoveConnection, what HandleAccept knows of the connection it has not  *)
(* yet handed over, and that a client is fresh until it is accepted.       *)
(***************************************************************************)
EXTENDS Reactor, FiniteSetTheorems, TLAPS

Locked == {"close", "unset", "erase"}

\* A thread that works on an event or a timeout has its descriptor.
ThreadInv ==
    /\ \A t \in Thread : pc[t] \notin {"dispatch", "sweep"} => argFd[t] \in Fd
    /\ pc[Hb] \in RemoveSteps \cup {"sweep"}
    /\ \A l \in Loop : pc[l] # "sweep"

\* mutex_ is held exactly by the thread inside RemoveConnection.
LockInv == \A t \in Thread : pc[t] \in Locked <=> mutex_ = t

\* What that thread knows of the entry it is removing.
HolderInv ==
    \A t \in Thread : pc[t] \in Locked =>
        /\ obj[t] \in Client
        /\ connections_[argFd[t]] = obj[t]
        /\ state_[obj[t]] = "CLOSED"
        /\ pc[t] = "close" => sock[argFd[t]] = obj[t]

\* An entry is live unless its remover has closed the descriptor already.
EntryInv ==
    \A f \in Fd : connections_[f] # None =>
        /\ fd_[connections_[f]] = f
        /\ \/ sock[f] = connections_[f]
           \/ \E t \in Thread : pc[t] = "unset" /\ argFd[t] = f

\* The connection HandleAccept has accepted is known to no other thread.
MainInv ==
    /\ pcMain # "accept" => mainObj \in Client /\ mainFd \in Fd
    /\ pcMain \in {"add", "reject1", "reject2"} =>
          /\ ~InPool(mainObj)
          /\ fd_[mainObj] = mainFd
          /\ sock[mainFd] = IF pcMain = "reject2" THEN None ELSE mainObj

\* A client that was not accepted yet is not in the pool.
FreshInv ==
    \A c \in Client :
        /\ peer[c] = "idle" => c \notin backlog
        /\ peer[c] = "idle" \/ c \in backlog => ~InPool(c) /\ mainObj # c

Inv == /\ TypeOK /\ ThreadInv
       /\ LockInv /\ HolderInv /\ EntryInv /\ MainInv /\ FreshInv

-----------------------------------------------------------------------------
(* Type correctness needs ThreadInv only: a removal by a thread without a  *)
(* descriptor would look outside the map.                                  *)

Typed == TypeOK /\ ThreadInv

\* The server starts with every variable of its type.
LEMMA InitTyped == Init => Typed
  BY SocketsAssumption, PoolAssumption
  DEF Init, Typed, TypeOK, ThreadInv, SocketsTypeOK, PoolTypeOK, SocketsInit,
      PoolInit, IoSteps, RemoveSteps, Loop, Thread, Event

\* HandleAccept keeps the types.
LEMMA MainTyped ==
  ASSUME Typed, Main PROVE Typed'
<1> USE SocketsAssumption, PoolAssumption
    DEF Typed, TypeOK, ThreadInv, SocketsTypeOK, PoolTypeOK, kernel, pool, io
<1>1. CASE Accept
  BY <1>1 DEF Accept, FreeFds
<1>2. CASE Add
  <2>1. PICK accepted \in BOOLEAN :
           /\ connections_' = IF accepted
                               THEN [connections_ EXCEPT ![mainFd] = mainObj]
                               ELSE connections_
           /\ pcMain' = IF accepted THEN "watch" ELSE "reject1"
    BY <1>2, Zenon DEF Add, AfterAdd, AddConnection
  <2> QED
    BY <1>2, <2>1 DEF Add
<1>3. CASE RejectClose
  BY <1>3 DEF RejectClose, CloseFd, Target
<1>4. CASE RejectDestroy
  BY <1>4 DEF RejectDestroy, CloseFd, Target, MainDone
<1>5. CASE Watch
  <2>1. next_loop_idx_' \in Loop
    BY <1>5 DEF Watch, NextLoop, Loop
  <2>2. armed' \in [Client -> SUBSET {"IN", "OUT"}]
    BY <1>5 DEF Watch, AddFd
  <2>3. watch' \in [Client -> Loop \cup {None}]
    BY <1>5 DEF Watch, AddFd
  <2> QED
    BY <1>5, <2>1, <2>2, <2>3 DEF Watch, AddFd, MainDone
<1> QED
  BY <1>1, <1>2, <1>3, <1>4, <1>5 DEF Main

\* RemoveConnection, on any thread, keeps the types.
LEMMA RemoveTyped ==
  ASSUME Typed, NEW t \in Thread, RemoveConnection(t), UNCHANGED <<main, io>>
  PROVE  Typed'
<1> USE SocketsAssumption, PoolAssumption
    DEF Typed, TypeOK, ThreadInv, SocketsTypeOK, PoolTypeOK, kernel, main, io,
        Goto, RemoveSteps, IoSteps, Thread
<1>1. CASE RemoveFind(t)
  <2>1. argFd[t] \in Fd /\ connections_[argFd[t]] \in Client \cup {None}
    BY <1>1 DEF RemoveFind
  <2> QED
    BY <1>1, <2>1 DEF RemoveFind, Return
<1>2. CASE RemoveClose(t)
  BY <1>2 DEF RemoveClose, CloseFd, Target
<1>3. CASE RemoveErase(t)
  BY <1>3 DEF RemoveErase, Return
<1> QED
  BY <1>1, <1>2, <1>3 DEF RemoveConnection

\* The heartbeat's scan and sweep keep the types.
LEMMA HeartbeatTyped ==
  ASSUME Typed, HeartbeatThread PROVE Typed'
<1> USE SocketsAssumption, PoolAssumption
    DEF Typed, TypeOK, ThreadInv, SocketsTypeOK, PoolTypeOK, kernel, main, io,
        Goto, RemoveSteps, IoSteps, Thread
<1>1. CASE HeartbeatScan
  BY <1>1 DEF HeartbeatScan, HeartbeatThread
<1>2. CASE HeartbeatRemove
  BY <1>2 DEF HeartbeatRemove, HeartbeatThread
<1>3. CASE RemoveConnection(Hb)
  BY <1>3, RemoveTyped DEF HeartbeatThread
<1> QED
  BY <1>1, <1>2, <1>3 DEF Heartbeat, HeartbeatThread

\* Going on to a handler's next step keeps the types.
LEMMA ContinueTyped ==
  ASSUME Typed, NEW l \in Loop, pc[l] \notin {"dispatch", "sweep"},
         NEW step \in IoSteps, Continue(l, step)
  PROVE  /\ pc' \in [Thread -> RemoveSteps \cup IoSteps \cup {"sweep"}]
         /\ argFd' \in [Thread -> Fd \cup {None}]
         /\ obj' \in [Thread -> Client \cup {None}]
         /\ ThreadInv'
<1> USE SocketsAssumption, PoolAssumption
    DEF Typed, TypeOK, ThreadInv, PoolTypeOK, Goto, RemoveSteps, IoSteps,
        Thread
<1>1. CASE step = "dispatch"
  BY <1>1 DEF Continue, Return
<1>2. CASE step # "dispatch"
  BY <1>2 DEF Continue
<1> QED
  BY <1>1, <1>2

\* Every step of the handlers of an IO thread keeps the types.
LEMMA IoTyped ==
  ASSUME Typed, NEW l \in Loop, IoThread(l) PROVE Typed'
<1> USE SocketsAssumption, PoolAssumption
    DEF Typed, TypeOK, SocketsTypeOK, PoolTypeOK, kernel, pool, main, io
<1>1. CASE Wait(l)
  <2>1. batch' \in [Loop -> SUBSET Event]
    BY <1>1 DEF Wait, Ready
  <2>2. armed' \in [Client -> SUBSET {"IN", "OUT"}]
    BY <1>1 DEF Wait
  <2> QED
    BY <1>1, <2>1, <2>2 DEF Wait, ThreadInv
<1>2. CASE Dispatch(l)
  <2>1. PICK e \in batch[l] : LET c == connections_[e.fd] IN
          /\ batch' = [batch EXCEPT ![l] = @ \ {e}]
          /\ \/ /\ e.ev = "ERR"
                /\ Goto(l, "del")
                /\ argFd' = [argFd EXCEPT ![l] = e.fd]
                /\ UNCHANGED obj
             \/ /\ e.ev # "ERR" /\ c # None
                /\ Goto(l, IF e.ev = "IN" THEN "recv" ELSE "wsend")
                /\ argFd' = [argFd EXCEPT ![l] = e.fd]
                /\ obj' = [obj EXCEPT ![l] = c]
             \/ /\ e.ev # "ERR" /\ c = None
                /\ UNCHANGED <<pc, argFd, obj>>
    BY <1>2 DEF Dispatch, GetConnection
  <2>2. e.fd \in Fd /\ connections_[e.fd] \in Client \cup {None}
    BY DEF Event
  <2>3. batch' \in [Loop -> SUBSET Event]
    <3>1. batch' = [batch EXCEPT ![l] = @ \ {e}]
      BY <2>1
    <3> QED
      BY <3>1
  <2>4. /\ pc' \in [Thread -> RemoveSteps \cup IoSteps \cup {"sweep"}]
        /\ argFd' \in [Thread -> Fd \cup {None}]
        /\ obj' \in [Thread -> Client \cup {None}]
        /\ ThreadInv'
    BY <2>1, <2>2 DEF Goto, ThreadInv, RemoveSteps, IoSteps, Thread
  <2> QED
    BY <1>2, <2>3, <2>4 DEF Dispatch, GetConnection
<1>3. CASE RecvCheck(l)
  BY <1>3, ContinueTyped DEF RecvCheck, IoSteps
<1>4. CASE RecvCall(l)
  <2>1. \E step \in IoSteps : Continue(l, step)
    BY <1>4 DEF RecvCall, IoSteps
  <2>2. /\ inq' \in [Client -> BOOLEAN] /\ rbuf' \in [Client -> BOOLEAN]
        /\ timedOut' \in [Client -> BOOLEAN]
    <3>1. \/ UNCHANGED <<inq, rbuf, timedOut>>
          \/ \E s : /\ inq' = [inq EXCEPT ![s] = FALSE]
                    /\ rbuf' = [rbuf EXCEPT ![obj[l]] = TRUE]
                    /\ timedOut' = [timedOut EXCEPT ![obj[l]] = FALSE]
      BY <1>4, Zenon DEF RecvCall
    <3> QED
      BY <3>1
  <2>3. state_' \in [Client -> {"CONNECTING", "CONNECTED", "CLOSED"}]
    BY <1>4 DEF RecvCall
  <2> QED
    BY <1>4, <2>1, <2>2, <2>3, ContinueTyped DEF RecvCall
<1>5. CASE Echo(l)
  <2>1. \E step \in IoSteps : Continue(l, step)
    BY <1>5 DEF Echo, IoSteps
  <2> QED
    BY <1>5, <2>1, ContinueTyped DEF Echo
<1>6. CASE \E caller \in {"rsend", "wsend"} : SendCheck(l, caller)
  <2>1. \E step \in IoSteps : Continue(l, step)
    BY <1>6 DEF SendCheck, IoSteps, AfterAgain
  <2>2. timedOut' \in [Client -> BOOLEAN]
    BY <1>6 DEF SendCheck
  <2> QED
    BY <1>6, <2>1, <2>2, ContinueTyped DEF SendCheck
<1>7. CASE \E caller \in {"rsend", "wsend"}, call \in {"rsendcall", "wsendcall"} :
             SendCall(l, caller, call)
  <2>1. \/ \E step \in IoSteps : Continue(l, step)
        \/ UNCHANGED <<pc, argFd, obj>>
    BY <1>7 DEF SendCall, IoSteps, AfterAgain
  <2>2. /\ pc' \in [Thread -> RemoveSteps \cup IoSteps \cup {"sweep"}]
        /\ argFd' \in [Thread -> Fd \cup {None}]
        /\ obj' \in [Thread -> Client \cup {None}]
        /\ ThreadInv'
    BY <1>7, <2>1, ContinueTyped DEF SendCall, ThreadInv
  <2>3. pend' \in [Client -> BOOLEAN] /\ timedOut' \in [Client -> BOOLEAN]
    <3>1. \/ UNCHANGED <<pend, timedOut>>
          \/ \E left \in BOOLEAN :
                /\ pend' = [pend EXCEPT ![obj[l]] = left /\ SendMayBlock]
                /\ timedOut' = [timedOut EXCEPT ![obj[l]] = FALSE]
      BY <1>7, Zenon DEF SendCall
    <3> QED
      BY <3>1
  <2>4. state_' \in [Client -> {"CONNECTING", "CONNECTED", "CLOSED"}]
    BY <1>7 DEF SendCall
  <2>5. aborted' \in {aborted, "SIGPIPE"}
    BY <1>7 DEF SendCall
  <2> QED
    BY <1>7, <2>2, <2>3, <2>4, <2>5 DEF SendCall
<1>8. CASE Rearm(l)
  <2>1. Continue(l, "dispatch")
    BY <1>8 DEF Rearm, Continue
  <2>2. armed' \in [Client -> SUBSET {"IN", "OUT"}]
    BY <1>8 DEF Rearm, ModifyFd
  <2> QED
    BY <1>8, <2>1, <2>2, ContinueTyped DEF Rearm, ModifyFd, IoSteps
<1>9. CASE HandleError(l)
  BY <1>9 DEF HandleError, RemoveFd, Goto, ThreadInv, RemoveSteps, IoSteps,
              Thread
<1>10. CASE RemoveConnection(l) /\ UNCHANGED <<main, io>>
  BY <1>10, RemoveTyped DEF Thread
<1>11. \/ Wait(l) \/ Dispatch(l) \/ RecvCheck(l) \/ RecvCall(l) \/ Echo(l)
       \/ SendCheck(l, "rsend") \/ SendCall(l, "rsend", "rsendcall")
       \/ SendCheck(l, "wsend") \/ SendCall(l, "wsend", "wsendcall")
       \/ Rearm(l) \/ HandleError(l)
       \/ RemoveConnection(l) /\ UNCHANGED <<main, io>>
  BY Zenon DEF IoThread, Send
<1> HIDE DEF Typed
<1> QED
  BY <1>1, <1>2, <1>3, <1>4, <1>5, <1>6, <1>7, <1>8, <1>9, <1>10, <1>11, Zenon

\* The peers and the clock keep the types.
LEMMA OthersTyped ==
  ASSUME Typed,
         Terminated \/ UNCHANGED vars \/ \E c \in Client : Peer(c) \/ Clock(c)
  PROVE  Typed'
<1> USE DEF Typed, TypeOK, ThreadInv, SocketsTypeOK, PoolTypeOK, kernel, pool,
            main, io
<1>1. CASE Terminated \/ UNCHANGED vars
  BY <1>1 DEF Terminated, vars
<1>2. CASE \E c \in Client : Peer(c)
  <2>1. peer' \in [Client -> {"idle", "open", "fin", "rst", "finrst"}]
    BY <1>2 DEF Peer, PeerConnect, PeerSend, PeerClose, PeerReset
  <2>2. backlog' \subseteq Client /\ inq' \in [Client -> BOOLEAN]
    BY <1>2 DEF Peer, PeerConnect, PeerSend, PeerClose, PeerReset
  <2>3. UNCHANGED <<sock, watch, armed, aborted, pool, main, io>>
    BY <1>2 DEF Peer, PeerConnect, PeerSend, PeerClose, PeerReset
  <2> QED
    BY <2>1, <2>2, <2>3
<1>3. CASE \E c \in Client : Clock(c)
  BY <1>3 DEF Clock, Age
<1> QED
  BY <1>1, <1>2, <1>3

\* Every variable always has its type, for every value of the constants.
THEOREM TypeCorrect == Spec => []TypeOK
<1>1. Typed /\ [Next]_vars => Typed'
  BY MainTyped, IoTyped, HeartbeatTyped, OthersTyped DEF Next
<1> QED
  BY InitTyped, <1>1, PTL DEF Spec, Typed

-----------------------------------------------------------------------------
(* Most steps leave alone what Inv is about. *)

Frame ==
    /\ UNCHANGED <<connections_, mutex_, fd_, sock, backlog, peer,
                   pcMain, mainObj, mainFd>>
    /\ \A c \in Client : state_[c] = "CLOSED" => state_'[c] = "CLOSED"
    /\ \A t \in Thread : pc[t] \in Locked \/ pc'[t] \in Locked =>
          pc'[t] = pc[t] /\ argFd'[t] = argFd[t] /\ obj'[t] = obj[t]

\* A step that leaves the pool, the descriptors and the removals alone keeps
\* the invariant.
LEMMA FramePreserves ==
  ASSUME Inv, Frame, Typed' PROVE Inv'
<1>1. LockInv'
  BY DEF Inv, Frame, LockInv
<1>2. HolderInv'
  BY DEF Inv, Frame, HolderInv
<1>3. EntryInv'
  BY DEF Inv, Frame, EntryInv, Locked
<1>4. MainInv' /\ FreshInv'
  BY DEF Inv, Frame, MainInv, FreshInv, InPool
<1> QED
  BY <1>1, <1>2, <1>3, <1>4 DEF Inv, Typed

\* Going on to a handler's next step is such a step.
LEMMA ContinueFrames ==
  ASSUME Typed, NEW l \in Loop, pc[l] \notin Locked,
         NEW step \in IoSteps, Continue(l, step)
  PROVE  \A t \in Thread : pc[t] \in Locked \/ pc'[t] \in Locked =>
            pc'[t] = pc[t] /\ argFd'[t] = argFd[t] /\ obj'[t] = obj[t]
<1> USE SocketsAssumption, PoolAssumption
    DEF Typed, TypeOK, PoolTypeOK, Goto, Locked, IoSteps, Thread
<1>1. CASE step = "dispatch"
  BY <1>1 DEF Continue, Return
<1>2. CASE step # "dispatch"
  BY <1>2 DEF Continue
<1> QED
  BY <1>1, <1>2

\* So is every step of an IO thread outside RemoveConnection: a handler
\* never closes a descriptor itself.
LEMMA IoFrames ==
  ASSUME Inv, NEW l \in Loop, IoThread(l),
         ~(RemoveConnection(l) /\ UNCHANGED <<main, io>>)
  PROVE  Frame
<1> USE DEF Frame, kernel, pool, main, io
<1>0. Typed /\ TypeOK
  BY DEF Inv, Typed
<1>1. CASE Wait(l)
  BY <1>1 DEF Wait
<1>2. CASE Dispatch(l)
  <2>1. pc[l] = "dispatch" /\ pc'[l] \notin Locked
    BY <1>0, <1>2 DEF Dispatch, GetConnection, Goto, Locked, TypeOK, PoolTypeOK, Thread
  <2>2. \A t \in Thread \ {l} :
           pc'[t] = pc[t] /\ argFd'[t] = argFd[t] /\ obj'[t] = obj[t]
    BY <1>0, <1>2 DEF Dispatch, GetConnection, Goto, TypeOK, PoolTypeOK
  <2> QED
    BY <1>2, <2>1, <2>2 DEF Dispatch, GetConnection, Locked
<1>3. CASE RecvCheck(l)
  <2>1. pc[l] \notin Locked /\ \E step \in IoSteps : Continue(l, step)
    BY <1>3 DEF RecvCheck, IoSteps, Locked
  <2> QED
    BY <1>0, <1>3, <2>1, ContinueFrames DEF RecvCheck
<1>4. CASE RecvCall(l)
  <2>1. pc[l] \notin Locked /\ \E step \in IoSteps : Continue(l, step)
    BY <1>4 DEF RecvCall, IoSteps, Locked
  <2>2. \A c \in Client : state_[c] = "CLOSED" => state_'[c] = "CLOSED"
    BY <1>0, <1>4 DEF RecvCall, TypeOK, PoolTypeOK
  <2> QED
    BY <1>0, <1>4, <2>1, <2>2, ContinueFrames DEF RecvCall
<1>5. CASE Echo(l)
  <2>1. pc[l] \notin Locked /\ \E step \in IoSteps : Continue(l, step)
    BY <1>5 DEF Echo, IoSteps, Locked
  <2> QED
    BY <1>0, <1>5, <2>1, ContinueFrames DEF Echo
<1>6. CASE \E caller \in {"rsend", "wsend"} : SendCheck(l, caller)
  <2>1. pc[l] \notin Locked /\ \E step \in IoSteps : Continue(l, step)
    BY <1>6 DEF SendCheck, IoSteps, Locked, AfterAgain
  <2> QED
    BY <1>0, <1>6, <2>1, ContinueFrames DEF SendCheck
<1>7. CASE \E caller \in {"rsend", "wsend"}, call \in {"rsendcall", "wsendcall"} :
             SendCall(l, caller, call)
  <2>1. /\ pc[l] \notin Locked
        /\ \/ \E step \in IoSteps : Continue(l, step)
           \/ UNCHANGED <<pc, argFd, obj>>
    BY <1>7 DEF SendCall, IoSteps, Locked, AfterAgain
  <2>2. \A c \in Client : state_[c] = "CLOSED" => state_'[c] = "CLOSED"
    BY <1>0, <1>7 DEF SendCall, TypeOK, PoolTypeOK
  <2> QED
    BY <1>0, <1>7, <2>1, <2>2, ContinueFrames DEF SendCall
<1>8. CASE Rearm(l)
  <2>1. pc[l] \notin Locked /\ Continue(l, "dispatch")
    BY <1>8 DEF Rearm, Continue, Locked
  <2> QED
    BY <1>0, <1>8, <2>1, ContinueFrames DEF Rearm, IoSteps
<1>9. CASE HandleError(l)
  <2>1. pc[l] \notin Locked /\ pc' = [pc EXCEPT ![l] = "remove"]
    BY <1>9 DEF HandleError, Goto, Locked
  <2> QED
    BY <1>0, <1>9, <2>1 DEF HandleError, TypeOK, PoolTypeOK, Thread, Locked
<1>11. \/ Wait(l) \/ Dispatch(l) \/ RecvCheck(l) \/ RecvCall(l) \/ Echo(l)
       \/ SendCheck(l, "rsend") \/ SendCall(l, "rsend", "rsendcall")
       \/ SendCheck(l, "wsend") \/ SendCall(l, "wsend", "wsendcall")
       \/ Rearm(l) \/ HandleError(l)
  BY Zenon DEF IoThread, Send
<1> HIDE DEF Frame
<1> QED
  BY <1>1, <1>2, <1>3, <1>4, <1>5, <1>6, <1>7, <1>8, <1>9, <1>11, Zenon

-----------------------------------------------------------------------------
(* The steps that change the pool or the descriptor table. *)

\* The invariant holds when the server starts.
LEMMA InitInv == Init => Inv
<1> SUFFICES ASSUME Init PROVE Inv
  OBVIOUS
<1>1. Typed
  BY InitTyped
<1>2. /\ \A t \in Thread : pc[t] \in {"sweep", "dispatch"}
      /\ \A f \in Fd : connections_[f] = None
      /\ mutex_ = None /\ pcMain = "accept" /\ mainObj = None /\ backlog = {}
  BY DEF Init, PoolInit, SocketsInit
<1>3. LockInv
  BY <1>2, SocketsAssumption, PoolAssumption DEF LockInv, Locked, Thread
<1>4. HolderInv /\ EntryInv /\ MainInv
  BY <1>2 DEF HolderInv, EntryInv, MainInv, Locked
<1>5. FreshInv
  BY <1>2, SocketsAssumption DEF FreshInv, InPool
<1> QED
  BY <1>1, <1>3, <1>4, <1>5 DEF Inv, Typed

\* accept takes a free number, which no entry of the pool has.
LEMMA AcceptInv ==
  ASSUME Inv, Accept PROVE Inv'
<1>1. Typed'
  BY MainTyped DEF Inv, Typed, Main
<1>2. CASE FreeFds = {}
  <2>1. Frame
    BY <1>2 DEF Accept, Frame, FreeFds, main, io
  <2> QED
    BY <1>1, <2>1, FramePreserves
<1>3. CASE FreeFds # {}
  <2>1. PICK c \in backlog, f \in FreeFds :
             /\ backlog' = backlog \ {c}
             /\ sock' = [sock EXCEPT ![f] = c]
             /\ fd_' = [fd_ EXCEPT ![c] = f]
             /\ state_' = [state_ EXCEPT ![c] = "CONNECTED"]
             /\ mainObj' = c /\ mainFd' = f /\ pcMain' = "add"
    BY <1>3 DEF Accept
  <2>2. UNCHANGED <<connections_, mutex_, pc, argFd, obj, peer>>
    BY DEF Accept
  <2>3. /\ c \in Client /\ f \in Fd /\ sock[f] = None
        /\ ~InPool(c) /\ peer[c] # "idle"
    BY DEF FreeFds, Inv, FreshInv, TypeOK, SocketsTypeOK
  <2> USE DEF Inv, TypeOK, SocketsTypeOK, PoolTypeOK
  <2>4. LockInv'
    BY <2>2 DEF LockInv
  <2>5. HolderInv'
    BY <2>1, <2>2, <2>3, SocketsAssumption
    DEF HolderInv, InPool, ThreadInv, Locked
  <2>6. EntryInv'
    BY <2>1, <2>2, <2>3 DEF EntryInv, InPool
  <2>7. MainInv'
    BY <2>1, <2>2, <2>3 DEF MainInv, InPool
  <2>8. FreshInv'
    BY <2>1, <2>2, <2>3 DEF FreshInv, InPool
  <2> QED
    BY <1>1, <2>4, <2>5, <2>6, <2>7, <2>8 DEF Typed
<1> QED
  BY <1>2, <1>3

\* AddConnection enters a connection that holds its own open socket.
LEMMA AddInv ==
  ASSUME Inv, Add PROVE Inv'
<1>1. Typed'
  BY MainTyped DEF Inv, Typed, Main
<1>2. PICK accepted \in BOOLEAN :
         /\ connections_' = IF accepted
                             THEN [connections_ EXCEPT ![mainFd] = mainObj]
                             ELSE connections_
         /\ pcMain' = IF accepted THEN "watch" ELSE "reject1"
  BY Zenon DEF Add, AfterAdd, AddConnection
<1>3. /\ UNCHANGED <<mutex_, state_, fd_, sock, backlog, peer, pc, argFd, obj,
                     mainObj, mainFd>>
      /\ pcMain = "add" /\ mutex_ = None
  BY DEF Add, AddConnection, kernel
<1>4. /\ mainObj \in Client /\ mainFd \in Fd /\ ~InPool(mainObj)
      /\ fd_[mainObj] = mainFd /\ sock[mainFd] = mainObj
  BY <1>3 DEF Inv, MainInv
<1>5. \A t \in Thread : pc[t] \notin Locked
  BY <1>3, SocketsAssumption, PoolAssumption DEF Inv, LockInv, Thread
<1> USE DEF Inv, TypeOK, PoolTypeOK
<1>6. LockInv' /\ HolderInv'
  BY <1>3, <1>5 DEF LockInv, HolderInv
<1>7. EntryInv'
  BY <1>2, <1>3, <1>4 DEF EntryInv
<1>8. MainInv'
  BY <1>2, <1>3, <1>4 DEF MainInv, InPool
<1>9. FreshInv'
  BY <1>2, <1>3, <1>4 DEF FreshInv, InPool
<1> QED
  BY <1>1, <1>6, <1>7, <1>8, <1>9 DEF Typed

\* Closing the number of a rejected connection hits no entry of the pool.
LEMMA RejectCloseInv ==
  ASSUME Inv, RejectClose PROVE Inv'
<1>1. Typed'
  BY MainTyped DEF Inv, Typed, Main
<1>2. /\ UNCHANGED <<connections_, mutex_, state_, fd_, backlog, peer, pc,
                     argFd, obj, mainObj, mainFd>>
      /\ pcMain = "reject1" /\ pcMain' = "reject2"
      /\ sock' = [sock EXCEPT ![mainFd] = None]
  BY DEF RejectClose, CloseFd, Target, pool
<1>3. /\ mainObj \in Client /\ mainFd \in Fd /\ ~InPool(mainObj)
      /\ fd_[mainObj] = mainFd /\ sock[mainFd] = mainObj
  BY <1>2 DEF Inv, MainInv
<1> USE DEF Inv, TypeOK, SocketsTypeOK, PoolTypeOK
<1>4. LockInv'
  BY <1>2 DEF LockInv
<1>5. HolderInv'
  BY <1>2, <1>3 DEF HolderInv, InPool, ThreadInv, Locked
<1>6. EntryInv'
  BY <1>2, <1>3 DEF EntryInv, InPool
<1>7. MainInv' /\ FreshInv'
  BY <1>2, <1>3 DEF MainInv, FreshInv, InPool
<1> QED
  BY <1>1, <1>4, <1>5, <1>6, <1>7 DEF Typed

\* The second close, by ~Connection, finds the number still free: only the
\* main thread accepts.
LEMMA RejectDestroyInv ==
  ASSUME Inv, RejectDestroy PROVE Inv'
<1>1. Typed'
  BY MainTyped DEF Inv, Typed, Main
<1>2. /\ UNCHANGED <<connections_, mutex_, backlog, peer, pc, argFd, obj>>
      /\ pcMain = "reject2" /\ pcMain' = "accept" /\ mainObj' = None
      /\ sock' = [sock EXCEPT ![fd_[mainObj]] = None]
      /\ fd_' = [fd_ EXCEPT ![mainObj] = None]
      /\ state_' = [state_ EXCEPT ![mainObj] = "CLOSED"]
  BY DEF RejectDestroy, CloseFd, Target, MainDone
<1>3. /\ mainObj \in Client /\ mainFd \in Fd /\ ~InPool(mainObj)
      /\ fd_[mainObj] = mainFd /\ sock[mainFd] = None
  BY <1>2 DEF Inv, MainInv
<1> USE DEF Inv, TypeOK, SocketsTypeOK, PoolTypeOK
<1>4. LockInv'
  BY <1>2 DEF LockInv
<1>5. sock' = sock
  BY <1>2, <1>3
<1>6. HolderInv'
  BY <1>2, <1>3, <1>5 DEF HolderInv
<1>7. EntryInv'
  BY <1>2, <1>3, <1>5 DEF EntryInv, InPool
<1>8. MainInv'
  BY <1>2 DEF MainInv
<1>9. FreshInv'
  BY <1>2, SocketsAssumption DEF FreshInv, InPool
<1> QED
  BY <1>1, <1>4, <1>6, <1>7, <1>8, <1>9 DEF Typed

\* Registering with a loop does not concern the pool.
LEMMA WatchInv ==
  ASSUME Inv, Watch PROVE Inv'
<1>1. Typed'
  BY MainTyped DEF Inv, Typed, Main
<1>2. /\ UNCHANGED <<connections_, mutex_, state_, fd_, sock, backlog, peer,
                     pc, argFd, obj>>
      /\ pcMain' = "accept" /\ mainObj' = None
  BY DEF Watch, MainDone, pool
<1>3. LockInv' /\ HolderInv' /\ EntryInv' /\ MainInv'
  BY <1>2 DEF Inv, LockInv, HolderInv, EntryInv, MainInv
<1>4. FreshInv'
  BY <1>2, SocketsAssumption DEF Inv, FreshInv, InPool
<1> QED
  BY <1>1, <1>3, <1>4 DEF Inv, Typed

\* Looking the connection up and marking it CLOSED takes the lock.
LEMMA RemoveFindInv ==
  ASSUME Inv, NEW t \in Thread, RemoveFind(t), UNCHANGED <<main, io>>
  PROVE  Inv'
<1>1. Typed'
  BY RemoveTyped DEF Inv, Typed, RemoveConnection
<1> DEFINE c == connections_[argFd[t]]
<1>2. /\ UNCHANGED <<connections_, fd_, sock, backlog, peer, pcMain, mainObj,
                     mainFd>>
      /\ pc[t] = "remove" /\ mutex_ = None
  BY DEF RemoveFind, kernel, main
<1>3. argFd[t] \in Fd
  BY <1>2 DEF Inv, ThreadInv
<1>4. CASE c = None
  <2>1. Frame
    BY <1>2, <1>4
    DEF RemoveFind, Return, Frame, Goto, Locked, Inv, TypeOK, PoolTypeOK
  <2> QED
    BY <1>1, <2>1, FramePreserves
<1>5. CASE c # None
  <2>1. /\ mutex_' = t
        /\ obj' = [obj EXCEPT ![t] = c]
        /\ state_' = [state_ EXCEPT ![c] = "CLOSED"]
        /\ pc' = [pc EXCEPT ![t] = IF state_[c] = "CLOSED"
                                   THEN "erase" ELSE "close"]
        /\ UNCHANGED argFd
    BY <1>5 DEF RemoveFind, Goto
  <2>2. \A u \in Thread : pc[u] \notin Locked
    BY <1>2, SocketsAssumption, PoolAssumption DEF Inv, LockInv, Thread
  <2> USE DEF Inv, TypeOK, PoolTypeOK
  <2>3. LockInv'
    BY <2>1, <2>2 DEF LockInv, Locked
  <2>4. HolderInv'
    BY <1>2, <1>3, <1>5, <2>1, <2>2 DEF HolderInv, EntryInv, Locked
  <2>5. EntryInv'
    BY <1>2, <2>1, <2>2 DEF EntryInv, Locked
  <2>6. MainInv' /\ FreshInv'
    BY <1>2 DEF MainInv, FreshInv, InPool
  <2> QED
    BY <1>1, <2>3, <2>4, <2>5, <2>6 DEF Typed
<1> QED
  BY <1>4, <1>5

\* Under the lock, close(fd_) closes the socket of the entry itself.
LEMMA RemoveCloseInv ==
  ASSUME Inv, NEW t \in Thread, RemoveClose(t), UNCHANGED <<main, io>>
  PROVE  Inv'
<1>1. Typed'
  BY RemoveTyped DEF Inv, Typed, RemoveConnection
<1>2. /\ UNCHANGED <<connections_, mutex_, state_, fd_, backlog, peer, argFd,
                     obj, pcMain, mainObj, mainFd>>
      /\ pc[t] = "close" /\ pc' = [pc EXCEPT ![t] = "unset"]
      /\ sock' = [sock EXCEPT ![fd_[obj[t]]] = None]
  BY DEF RemoveClose, CloseFd, Target, Goto, main
<1>3. /\ argFd[t] \in Fd /\ obj[t] \in Client /\ mutex_ = t
      /\ connections_[argFd[t]] = obj[t] /\ sock[argFd[t]] = obj[t]
      /\ fd_[obj[t]] = argFd[t]
  BY <1>2, SocketsAssumption
  DEF Inv, ThreadInv, HolderInv, LockInv, EntryInv, Locked
<1>4. \A u \in Thread : u # t => pc[u] \notin Locked
  BY <1>3 DEF Inv, LockInv
<1> USE DEF Inv, TypeOK, SocketsTypeOK, PoolTypeOK
<1>5. LockInv'
  BY <1>2, <1>3 DEF LockInv, Locked
<1>6. HolderInv'
  BY <1>2, <1>3, <1>4 DEF HolderInv, Locked
<1>7. EntryInv'
  BY <1>2, <1>3, <1>4 DEF EntryInv, Locked
<1>8. MainInv'
  BY <1>2, <1>3 DEF MainInv, InPool
<1>9. FreshInv'
  BY <1>2 DEF FreshInv, InPool
<1> QED
  BY <1>1, <1>5, <1>6, <1>7, <1>8, <1>9 DEF Typed

\* Erasing the entry releases the lock, with no stale entry left.
LEMMA RemoveEraseInv ==
  ASSUME Inv, NEW t \in Thread, RemoveErase(t), UNCHANGED <<main, io>>
  PROVE  Inv'
<1>1. Typed'
  BY RemoveTyped DEF Inv, Typed, RemoveConnection
<1>2. /\ UNCHANGED <<state_, sock, backlog, peer, pcMain, mainObj, mainFd>>
      /\ pc[t] \in {"unset", "erase"} /\ mutex_' = None
      /\ pc' = [pc EXCEPT ![t] = IF t = Hb THEN "sweep" ELSE "dispatch"]
      /\ argFd' = [argFd EXCEPT ![t] = None]
      /\ connections_' = [connections_ EXCEPT ![argFd[t]] = None]
      /\ fd_' \in {fd_, [fd_ EXCEPT ![obj[t]] = None]}
  BY DEF RemoveErase, Return, Goto, kernel, main
<1>3. /\ argFd[t] \in Fd /\ obj[t] \in Client /\ mutex_ = t
      /\ connections_[argFd[t]] = obj[t] /\ fd_[obj[t]] = argFd[t]
  BY <1>2, SocketsAssumption
  DEF Inv, ThreadInv, HolderInv, LockInv, EntryInv, Locked
<1> USE DEF Inv, TypeOK, SocketsTypeOK, PoolTypeOK
<1>4. \A u \in Thread : u # t => pc[u] \notin Locked
  BY <1>3 DEF LockInv
<1>5. \A u \in Thread : pc'[u] \notin Locked /\ u # None
  BY <1>2, <1>4, SocketsAssumption, PoolAssumption DEF Locked, Thread
<1>6. LockInv' /\ HolderInv'
  BY <1>2, <1>5 DEF LockInv, HolderInv
<1>7. EntryInv'
  BY <1>2, <1>3, <1>4 DEF EntryInv, Locked
<1>8. MainInv'
  <2>1. pcMain \in {"add", "reject1", "reject2"} => fd_'[mainObj] = fd_[mainObj]
    BY <1>2, <1>3 DEF MainInv, InPool
  <2>2. ~InPool(mainObj) /\ mainObj \in Client => ~InPool(mainObj)'
    BY <1>2, <1>3, SocketsAssumption DEF InPool
  <2> QED
    BY <1>2, <2>1, <2>2 DEF MainInv
<1>9. FreshInv'
  BY <1>2, <1>3, SocketsAssumption DEF FreshInv, InPool
<1> QED
  BY <1>1, <1>6, <1>7, <1>8, <1>9 DEF Typed

\* RemoveConnection as a whole keeps the invariant.
LEMMA RemoveInv ==
  ASSUME Inv, NEW t \in Thread, RemoveConnection(t), UNCHANGED <<main, io>>
  PROVE  Inv'
  BY RemoveFindInv, RemoveCloseInv, RemoveEraseInv DEF RemoveConnection

\* The heartbeat thread keeps the invariant.
LEMMA HeartbeatInv ==
  ASSUME Inv, HeartbeatThread PROVE Inv'
<1>1. Typed'
  BY HeartbeatTyped DEF Inv, Typed
<1>2. CASE HeartbeatScan \/ HeartbeatRemove
  <2>1. Frame
    BY <1>2
    DEF HeartbeatScan, HeartbeatRemove, HeartbeatThread, Goto, Frame, Locked,
        kernel, main, Inv, TypeOK, PoolTypeOK
  <2> QED
    BY <1>1, <2>1, FramePreserves
<1>3. CASE RemoveConnection(Hb)
  BY <1>3, RemoveInv DEF HeartbeatThread, Thread
<1> QED
  BY <1>2, <1>3 DEF Heartbeat, HeartbeatThread

\* The peers and the clock keep the invariant.
LEMMA OthersInv ==
  ASSUME Inv,
         Terminated \/ UNCHANGED vars \/ \E c \in Client : Peer(c) \/ Clock(c)
  PROVE  Inv'
<1>1. Typed'
  BY OthersTyped DEF Inv, Typed
<1>2. CASE Terminated \/ UNCHANGED vars
  <2>1. Frame
    BY <1>2 DEF Terminated, vars, kernel, pool, main, Frame
  <2> QED
    BY <1>1, <2>1, FramePreserves
<1>3. CASE \E c \in Client : Clock(c)
  <2>1. Frame
    BY <1>3 DEF Clock, Age, kernel, main, Frame
  <2> QED
    BY <1>1, <2>1, FramePreserves
<1>4. ASSUME NEW c \in Client, Peer(c) PROVE Inv'
  <2>1. UNCHANGED <<connections_, mutex_, state_, fd_, sock, pc, argFd, obj,
                    pcMain, mainObj, mainFd>>
    BY <1>4 DEF Peer, PeerConnect, PeerSend, PeerClose, PeerReset, pool, main
  <2>2. LockInv' /\ HolderInv' /\ EntryInv' /\ MainInv'
    BY <2>1 DEF Inv, LockInv, HolderInv, EntryInv, MainInv, InPool
  <2>3. \A d \in Client : /\ peer'[d] = "idle" => peer[d] = "idle"
                          /\ d \in backlog' => d \in backlog \/ peer[d] = "idle"
    BY <1>4
    DEF Peer, PeerConnect, PeerSend, PeerClose, PeerReset, Inv, TypeOK,
        SocketsTypeOK
  <2>4. \A d \in Client : peer'[d] = "idle" => d \notin backlog'
    BY <1>4
    DEF Peer, PeerConnect, PeerSend, PeerClose, PeerReset, Inv, TypeOK,
        SocketsTypeOK, FreshInv
  <2>5. FreshInv'
    BY <2>1, <2>3, <2>4 DEF Inv, FreshInv, InPool
  <2> QED
    BY <1>1, <2>2, <2>5 DEF Inv, Typed
<1> QED
  BY <1>2, <1>3, <1>4

\* Every step keeps the invariant.
LEMMA NextInv ==
  Inv /\ [Next]_vars => Inv'
<1> SUFFICES ASSUME Inv, [Next]_vars PROVE Inv'
  OBVIOUS
<1>1. CASE Main
  BY <1>1, AcceptInv, AddInv, RejectCloseInv, RejectDestroyInv, WatchInv
  DEF Main
<1>2. ASSUME NEW l \in Loop, IoThread(l) PROVE Inv'
  <2>1. CASE RemoveConnection(l) /\ UNCHANGED <<main, io>>
    BY <2>1, RemoveInv DEF Thread
  <2>2. CASE ~(RemoveConnection(l) /\ UNCHANGED <<main, io>>)
    <3>1. Frame
      BY <1>2, <2>2, IoFrames
    <3>2. Typed'
      BY <1>2, IoTyped DEF Inv, Typed
    <3> QED
      BY <3>1, <3>2, FramePreserves
  <2> QED
    BY <2>1, <2>2
<1>3. CASE HeartbeatThread
  BY <1>3, HeartbeatInv
<1> QED
  BY <1>1, <1>2, <1>3, OthersInv DEF Next

-----------------------------------------------------------------------------

\* The inductive invariant holds of every state of the server.
LEMMA Invariance == Spec => []Inv
  BY InitInv, NextInv, PTL DEF Spec

\* Whenever the pool's lock is free, every entry maps the number of an open
\* descriptor to the connection that owns it, however accept, the IO threads
\* and the heartbeat interleave.
THEOREM PoolEntriesAlwaysLive == Spec => []PoolEntriesLive
<1>1. Inv => PoolEntriesLive
  BY SocketsAssumption, PoolAssumption
  DEF Inv, EntryInv, LockInv, PoolEntriesLive, Locked, Thread
<1> QED
  BY Invariance, <1>1, PTL

\* For any number of clients, descriptors and loops, no close by number hits a
\* socket that got the number while the closing thread had its connection in
\* hand: not the double close of a rejected connection, and not the close of
\* RemoveConnection after its lookup.
THEOREM ClosesOnlyOwnSocket == Spec => ClosesOwnSocket
<1>1. Inv /\ [Next]_vars => [ClosesOwn]_vars
  <2> SUFFICES ASSUME Inv, Next PROVE ClosesOwn
    OBVIOUS
  <2> USE DEF ClosesOwn
  <2>1. CASE Main
    <3>1. CASE RejectDestroy
      BY <3>1
      DEF RejectDestroy, CloseFd, Target, Inv, MainInv, TypeOK, SocketsTypeOK
    <3>2. CASE RejectClose
      BY <3>2, SocketsAssumption
      DEF RejectClose, CloseFd, Target, Inv, MainInv, TypeOK, SocketsTypeOK
    <3>3. CASE Accept
      BY <3>3, SocketsAssumption
      DEF Accept, FreeFds, Inv, TypeOK, SocketsTypeOK
    <3>4. CASE Add \/ Watch
      BY <3>4 DEF Add, Watch, kernel
    <3> QED
      BY <2>1, <3>1, <3>2, <3>3, <3>4 DEF Main
  <2>2. ASSUME NEW t \in Thread, RemoveConnection(t) PROVE ClosesOwn
    <3>1. CASE RemoveClose(t)
      <4>1. /\ obj[t] \in Client /\ sock[argFd[t]] = obj[t] /\ argFd[t] \in Fd
            /\ fd_[obj[t]] = argFd[t] /\ pc[t] = "close"
        BY <3>1, SocketsAssumption
        DEF RemoveClose, Inv, HolderInv, EntryInv, ThreadInv, Locked
      <4>2. sock' = [sock EXCEPT ![argFd[t]] = None] /\ pc' = [pc EXCEPT ![t] = "unset"]
        BY <3>1, <4>1 DEF RemoveClose, CloseFd, Goto
      <4>3. pc'[t] # pc[t]
        BY <4>1, <4>2 DEF Inv, TypeOK, PoolTypeOK
      <4> QED
        BY <4>1, <4>2, <4>3 DEF Inv, TypeOK, SocketsTypeOK
    <3>2. CASE RemoveFind(t) \/ RemoveErase(t)
      BY <3>2 DEF RemoveFind, RemoveErase, kernel
    <3> QED
      BY <2>2, <3>1, <3>2 DEF RemoveConnection
  <2>3. ASSUME NEW l \in Loop, IoThread(l) PROVE ClosesOwn
    <3>1. CASE RemoveConnection(l)
      BY <3>1, <2>2 DEF Thread
    <3>2. CASE ~RemoveConnection(l)
      BY <2>3, <3>2, IoFrames DEF Frame
    <3> QED
      BY <3>1, <3>2
  <2>4. CASE HeartbeatThread
    BY <2>4, <2>2
    DEF HeartbeatThread, Heartbeat, HeartbeatScan, HeartbeatRemove, kernel,
        Thread
  <2>5. ASSUME NEW c \in Client, Peer(c) \/ Clock(c) PROVE ClosesOwn
    BY <2>5
    DEF Peer, PeerConnect, PeerSend, PeerClose, PeerReset, Clock, Age, kernel
  <2>6. CASE Terminated
    BY <2>6 DEF Terminated, vars, kernel
  <2> QED
    BY <2>1, <2>3, <2>4, <2>5, <2>6 DEF Next
<1> QED
  BY Invariance, <1>1, PTL DEF Spec, ClosesOwnSocket

-----------------------------------------------------------------------------
(* The limit of the pool. *)

\* The number of entries is a natural number, for finitely many descriptors.
LEMMA PoolSizeType ==
  IsFiniteSet({f \in Fd : connections_[f] # None}) /\ PoolSize \in Nat
<1>1. IsFiniteSet({f \in Fd : connections_[f] # None})
  BY SocketsAssumption, FS_Subset
<1> QED
  BY <1>1, FS_CardinalityType DEF PoolSize

\* The number of entries never exceeds max_connections_.
THEOREM PoolAlwaysBounded == Spec => []PoolBounded
<1> DEFINE entries == {f \in Fd : connections_[f] # None}
<1>1. Init => PoolBounded
  <2> SUFFICES ASSUME Init PROVE PoolSize = 0
    BY PoolAssumption DEF PoolBounded
  <2>1. entries = {}
    BY DEF Init, PoolInit
  <2> QED
    BY <2>1, FS_EmptySet DEF PoolSize
<1>2. ASSUME PoolBounded, UNCHANGED connections_ PROVE PoolBounded'
  BY <1>2 DEF PoolBounded, PoolSize
<1>3. ASSUME Inv, PoolBounded, Add PROVE PoolBounded'
  <2>1. PICK accepted \in BOOLEAN : AddConnection(mainObj, mainFd, accepted)
    BY <1>3 DEF Add
  <2>2. CASE accepted
    <3>1. /\ connections_' = [connections_ EXCEPT ![mainFd] = mainObj]
          /\ ~PoolFull /\ connections_[mainFd] = None
      BY <2>1, <2>2, Zenon DEF AddConnection
    <3>2. mainFd \in Fd /\ mainObj \in Client
      BY <1>3 DEF Add, Inv, MainInv
    <3>3. entries' = entries \cup {mainFd} /\ mainFd \notin entries
      <4>1. connections_ \in [Fd -> Client \cup {None}] /\ mainObj # None
        BY <1>3, <3>2, SocketsAssumption DEF Inv, TypeOK, PoolTypeOK
      <4>2. \A f \in Fd : connections_'[f] # None
                          <=> connections_[f] # None \/ f = mainFd
        BY <3>1, <3>2, <4>1
      <4> QED
        BY <3>1, <3>2, <4>2
    <3>4. PoolSize' = PoolSize + 1
      BY <3>3, PoolSizeType, FS_AddElement DEF PoolSize
    <3> QED
      BY <3>1, <3>4, PoolSizeType, PoolAssumption DEF PoolFull, PoolBounded
  <2>3. CASE ~accepted
    BY <1>2, <1>3, <2>1, <2>3, Zenon DEF AddConnection
  <2> QED
    BY <2>2, <2>3
<1>4. ASSUME Inv, PoolBounded, NEW t \in Thread, RemoveErase(t)
      PROVE  PoolBounded'
  <2>1. entries' \subseteq entries
    BY <1>4 DEF RemoveErase, Inv, TypeOK, PoolTypeOK
  <2>2. IsFiniteSet(entries) /\ PoolSize \in Nat
    BY PoolSizeType
  <2>3. Cardinality(entries') <= Cardinality(entries)
    BY <2>1, <2>2, FS_Subset
  <2>4. Cardinality(entries') \in Nat
    BY <2>1, <2>2, FS_Subset, FS_CardinalityType
  <2> QED
    BY <1>4, <2>2, <2>3, <2>4, PoolAssumption DEF PoolBounded, PoolSize
<1>5. ASSUME Inv, PoolBounded, [Next]_vars PROVE PoolBounded'
  <2>1. CASE UNCHANGED vars \/ Terminated
    BY <1>2, <1>5, <2>1 DEF vars, pool, Terminated
  <2>2. CASE Main
    <3>1. CASE Add
      BY <1>3, <1>5, <3>1
    <3>2. CASE Accept \/ RejectClose \/ RejectDestroy \/ Watch
      BY <1>2, <1>5, <3>2
      DEF Accept, RejectClose, RejectDestroy, Watch, pool
    <3> QED
      BY <2>2, <3>1, <3>2 DEF Main
  <2>3. ASSUME NEW t \in Thread, RemoveConnection(t) PROVE PoolBounded'
    BY <1>2, <1>4, <1>5, <2>3 DEF RemoveConnection, RemoveFind, RemoveClose
  <2>4. ASSUME NEW l \in Loop, IoThread(l) PROVE PoolBounded'
    <3>1. CASE RemoveConnection(l)
      BY <3>1, <2>3 DEF Thread
    <3>2. CASE ~RemoveConnection(l)
      BY <1>2, <1>5, <2>4, <3>2, IoFrames DEF Frame
    <3> QED
      BY <3>1, <3>2
  <2>5. CASE HeartbeatThread
    BY <1>2, <1>5, <2>3, <2>5
    DEF HeartbeatThread, Heartbeat, HeartbeatScan, HeartbeatRemove, Thread
  <2>6. ASSUME NEW c \in Client, Peer(c) \/ Clock(c) PROVE PoolBounded'
    BY <1>2, <1>5, <2>6 DEF Peer, Clock, Age, pool
  <2> QED
    BY <1>5, <2>1, <2>2, <2>4, <2>5, <2>6 DEF Next
<1> QED
  BY <1>1, <1>5, Invariance, PTL DEF Spec

-----------------------------------------------------------------------------
(* Reactor implements BoundedRegistry. *)

\* One client changes its status and no other does.
LEMMA OneBecomes ==
  ASSUME NEW c \in Client, NEW old, NEW new,
         StatusOf(c) = old, StatusOf(c)' = new,
         \A d \in Client : d # c => StatusOf(d)' = StatusOf(d)
  PROVE  Registry!Become(c, old, new)
BY DEF Registry!Become, Status

\* No client changes its status when the pool, the backlog and what HandleAccept
\* is about to add stay as they are and nobody connects.
LEMMA NoneBecomes ==
  ASSUME UNCHANGED connections_, UNCHANGED backlog,
         UNCHANGED pcMain \/ (pcMain # "add" /\ pcMain' # "add"),
         pcMain = "add" => UNCHANGED mainObj,
         \A c \in Client : peer'[c] = "idle" <=> peer[c] = "idle"
  PROVE  UNCHANGED Status
<1>1. \A c \in Client : InPool(c)' <=> InPool(c)
  BY DEF InPool
<1>2. \A c \in Client : StatusOf(c)' = StatusOf(c)
  BY <1>1 DEF StatusOf
<1> QED
  BY <1>2 DEF Status

\* StatusOf by cases.
LEMMA StatusCases ==
  ASSUME NEW c \in Client
  PROVE  /\ Status[c] = StatusOf(c)
         /\ InPool(c) => StatusOf(c) = "member"
         /\ ~InPool(c) /\ (c \in backlog \/ (pcMain = "add" /\ mainObj = c))
               => StatusOf(c) = "waiting"
         /\ ~InPool(c) /\ ~(c \in backlog \/ (pcMain = "add" /\ mainObj = c))
               => StatusOf(c) = IF peer[c] = "idle" THEN "away" ELSE "gone"
         /\ StatusOf(c) = "member" => InPool(c)
BY DEF Status, StatusOf

\* The pool has as many members as entries: no connection has two.
LEMMA MembersAreEntries ==
  ASSUME Inv PROVE Cardinality(Registry!Member) = PoolSize
<1> DEFINE entries == {f \in Fd : connections_[f] # None}
           value == [f \in entries |-> connections_[f]]
<1>1. Registry!Member = {c \in Client : InPool(c)}
  BY StatusCases DEF Registry!Member
<1>2. value \in Bijection(entries, Registry!Member)
  <2>1. connections_ \in [Fd -> Client \cup {None}]
    BY DEF Inv, TypeOK, PoolTypeOK
  <2>2. \A f \in entries : value[f] \in Registry!Member
    BY <1>1, <2>1 DEF InPool
  <2>3. \A f, g \in entries : value[f] = value[g] => f = g
    BY DEF Inv, EntryInv
  <2>4. \A c \in Registry!Member : \E f \in entries : value[f] = c
    BY <1>1, SocketsAssumption DEF InPool
  <2>5. value \in [entries -> Registry!Member]
    BY <2>2
  <2> HIDE DEF entries, value
  <2>6. value \in Injection(entries, Registry!Member)
    BY <2>3, <2>5 DEF Injection, IsInjective
  <2>7. value \in Surjection(entries, Registry!Member)
    BY <2>4, <2>5 DEF Surjection
  <2> QED
    BY <2>6, <2>7 DEF Bijection
<1>3. IsFiniteSet(entries)
  BY PoolSizeType
<1>4. Cardinality(entries) = Cardinality(Registry!Member)
  <2> HIDE DEF entries, value
  <2> QED
    BY <1>2, <1>3, FS_Bijection DEF ExistsBijection
<1> QED
  BY <1>4 DEF PoolSize

\* AddConnection admits the connection, or turns it away because the pool is
\* full: its number is never in the map already.
LEMMA AddImplements ==
  ASSUME Inv, Add
  PROVE  \E c \in Client : Registry!Admit(c) \/ Registry!TurnAway(c)
<1>1. PICK accepted \in BOOLEAN :
         AddConnection(mainObj, mainFd, accepted) /\ pcMain' = AfterAdd(accepted)
  BY DEF Add
<1>2. /\ pcMain = "add" /\ mainObj \in Client /\ mainFd \in Fd
      /\ ~InPool(mainObj) /\ fd_[mainObj] = mainFd /\ sock[mainFd] = mainObj
  BY DEF Add, Inv, MainInv
<1>3. mutex_ = None /\ accepted = (~PoolFull /\ connections_[mainFd] = None)
  BY <1>1 DEF AddConnection
<1>4. connections_ \in [Fd -> Client \cup {None}]
  BY DEF Inv, TypeOK, PoolTypeOK
<1>5. connections_[mainFd] = None
  <2>1. \A t \in Thread : pc[t] # "unset"
    BY <1>3, PoolAssumption, SocketsAssumption DEF Inv, LockInv, Locked, Thread
  <2> QED
    BY <1>2, <1>4, <2>1 DEF Inv, EntryInv, InPool
<1>6. PICK c \in Client : c = mainObj
  BY <1>2
<1>7. StatusOf(c) = "waiting"
  BY <1>2, <1>6 DEF StatusOf
<1>8. UNCHANGED <<peer, backlog>> /\ pcMain' # "add"
  BY <1>1 DEF Add, AfterAdd, kernel
<1>9. CASE accepted
  <2>1. connections_' = [connections_ EXCEPT ![mainFd] = c]
    BY <1>1, <1>6, <1>9, Zenon DEF AddConnection
  <2>2. InPool(c)' /\ \A d \in Client : d # c => (InPool(d)' <=> InPool(d))
    BY <1>2, <1>4, <1>5, <2>1, SocketsAssumption DEF InPool
  <2>3. StatusOf(c)' = "member"
    BY <2>2 DEF StatusOf
  <2>4. \A d \in Client : d # c => StatusOf(d)' = StatusOf(d)
    BY <1>6, <1>8, <2>2 DEF StatusOf
  <2>5. Registry!Become(c, "waiting", "member")
    BY <1>7, <2>3, <2>4, OneBecomes
  <2>6. ~PoolFull
    BY <1>3, <1>9, Zenon
  <2>7. Cardinality(Registry!Member) < MaxConnections
    BY <2>6, MembersAreEntries, PoolSizeType, PoolAssumption DEF PoolFull
  <2>8. Registry!Admit(c)
    BY <2>5, <2>7, Zenon DEF Registry!Admit, Registry!Cardinality, Cardinality
  <2> QED
    BY <2>8, Zenon
<1>10. CASE ~accepted
  <2>1. connections_' = connections_
    BY <1>1, <1>10, Zenon DEF AddConnection
  <2>2. \A d \in Client : InPool(d)' <=> InPool(d)
    BY <2>1 DEF InPool
  <2>3. ~InPool(c) /\ peer[c] # "idle" /\ c \notin backlog
    BY <1>2, <1>6 DEF Inv, FreshInv
  <2>4. StatusOf(c)' = "gone"
    BY <1>8, <2>2, <2>3 DEF StatusOf
  <2>5. \A d \in Client : d # c => StatusOf(d)' = StatusOf(d)
    BY <1>6, <1>8, <2>2 DEF StatusOf
  <2>6. Registry!Become(c, "waiting", "gone")
    BY <1>7, <2>4, <2>5, OneBecomes
  <2>7. PoolFull
    BY <1>3, <1>5, <1>10
  <2>8. Cardinality(Registry!Member) >= MaxConnections
    BY <2>7, MembersAreEntries, PoolSizeType, PoolAssumption DEF PoolFull
  <2>9. Registry!TurnAway(c)
    BY <2>6, <2>8, Zenon DEF Registry!TurnAway, Registry!Cardinality, Cardinality
  <2> QED
    BY <2>9, Zenon
<1> QED
  BY <1>9, <1>10

\* accept hands a client from the backlog to HandleAccept, and the steps after
\* AddConnection move nobody.
LEMMA MainImplements ==
  ASSUME Inv, Main PROVE Registry!Next \/ UNCHANGED Status
<1>1. CASE Add
  BY <1>1, AddImplements DEF Registry!Next
<1>2. CASE Accept
  <2>1. \A c \in Client : InPool(c)' <=> InPool(c)
    BY <1>2 DEF Accept, InPool
  <2>2. \A c \in Client : StatusOf(c)' = StatusOf(c)
    BY <1>2, <2>1 DEF Accept, StatusOf
  <2> QED
    BY <2>2 DEF Status
<1>3. CASE RejectClose \/ RejectDestroy \/ Watch
  BY <1>3, NoneBecomes DEF RejectClose, RejectDestroy, Watch, MainDone, pool
<1> QED
  BY <1>1, <1>2, <1>3 DEF Main

\* The end of RemoveConnection takes one client out of the pool.
LEMMA RemoveImplements ==
  ASSUME Inv, NEW t \in Thread, RemoveConnection(t), UNCHANGED main
  PROVE  Registry!Next \/ UNCHANGED Status
<1>1. CASE RemoveFind(t) \/ RemoveClose(t)
  BY <1>1, NoneBecomes DEF RemoveFind, RemoveClose, kernel, main
<1>2. CASE RemoveErase(t)
  <2> DEFINE c == obj[t]
             f == argFd[t]
  <2>1. c \in Client /\ f \in Fd /\ connections_[f] = c
    BY <1>2 DEF RemoveErase, Inv, HolderInv, ThreadInv, Locked
  <2>2. connections_ \in [Fd -> Client \cup {None}]
    BY DEF Inv, TypeOK, PoolTypeOK
  <2>3. connections_' = [connections_ EXCEPT ![f] = None]
    BY <1>2 DEF RemoveErase
  <2>4. \A g \in Fd : connections_[g] = c => g = f
    BY <2>1, SocketsAssumption DEF Inv, EntryInv
  <2>5. InPool(c) /\ peer[c] # "idle" /\ c \notin backlog
    BY <2>1 DEF InPool, Inv, FreshInv
  <2>6. UNCHANGED <<peer, backlog, pcMain, mainObj>>
    BY <1>2 DEF RemoveErase, kernel, main
  <2>7. ~(pcMain = "add" /\ mainObj = c)
    BY <2>5 DEF Inv, MainInv
  <2> HIDE DEF c, f
  <2>8. ~(\E g \in Fd : connections_'[g] = c)
    BY <2>1, <2>2, <2>3, <2>4, SocketsAssumption
  <2>9. \A d \in Client : d # c => (InPool(d)' <=> InPool(d))
    BY <2>1, <2>2, <2>3, SocketsAssumption DEF InPool
  <2>10. \A d \in Client : d # c => StatusOf(d)' = StatusOf(d)
    BY <2>6, <2>9 DEF StatusOf
  <2>11. PICK e \in Client : e = c
    BY <2>1
  <2>12. StatusOf(e) = "member" /\ StatusOf(e)' = "gone"
    BY <2>5, <2>6, <2>7, <2>8, <2>11 DEF StatusOf, InPool
  <2>13. \A d \in Client : d # e => StatusOf(d)' = StatusOf(d)
    BY <2>10, <2>11
  <2>14. Registry!Become(e, "member", "gone")
    BY <2>12, <2>13, OneBecomes
  <2> QED
    BY <2>14 DEF Registry!Leave, Registry!Next
<1> QED
  BY <1>1, <1>2 DEF RemoveConnection

\* Peers connect; what else they do, and time, move nobody.
LEMMA PeerImplements ==
  ASSUME Inv, NEW c \in Client, Peer(c) \/ Clock(c)
  PROVE  Registry!Next \/ UNCHANGED Status
<1>0. peer \in [Client -> {"idle", "open", "fin", "rst", "finrst"}]
  BY DEF Inv, TypeOK, SocketsTypeOK
<1>1. CASE Peer(c) /\ PeerConnect(c)
  <2>1. UNCHANGED <<connections_, pcMain, mainObj>>
    BY <1>1 DEF Peer, pool, main
  <2>2. ~InPool(c) /\ peer[c] = "idle" /\ c \notin backlog /\ mainObj # c
    BY <1>1 DEF PeerConnect, Inv, FreshInv
  <2>3. \A d \in Client : InPool(d)' <=> InPool(d)
    BY <2>1 DEF InPool
  <2>4. c \in backlog' /\ \A d \in Client : d # c =>
           (d \in backlog' <=> d \in backlog) /\ peer'[d] = peer[d]
    BY <1>0, <1>1 DEF PeerConnect
  <2>5. StatusOf(c) = "away" /\ StatusOf(c)' = "waiting"
    BY <2>1, <2>2, <2>3, <2>4 DEF StatusOf
  <2>6. \A d \in Client : d # c => StatusOf(d)' = StatusOf(d)
    BY <2>1, <2>3, <2>4 DEF StatusOf
  <2>7. Registry!Become(c, "away", "waiting")
    BY <2>5, <2>6, OneBecomes
  <2> QED
    BY <2>7 DEF Registry!Connect, Registry!Next
<1>2. CASE Peer(c) /\ (PeerSend(c) \/ PeerClose(c) \/ PeerReset(c))
  <2>1. UNCHANGED <<connections_, backlog, pcMain, mainObj>>
    BY <1>2 DEF Peer, PeerSend, PeerClose, PeerReset, pool, main
  <2>2. \A d \in Client : peer'[d] = "idle" <=> peer[d] = "idle"
    BY <1>0, <1>2 DEF PeerSend, PeerClose, PeerReset
  <2> QED
    BY <2>1, <2>2, NoneBecomes
<1>3. CASE Clock(c)
  BY <1>3, NoneBecomes DEF Clock, Age, kernel, main
<1> QED
  BY <1>1, <1>2, <1>3 DEF Peer

\* Every behaviour of the reactors is one of the bounded registry: whichever
\* threads add and remove connections, one is rejected only when the pool is
\* full, is admitted once and leaves once.
THEOREM RegistryImplemented == Spec => ImplementsRegistry
<1>1. Init => Registry!Init
  BY SocketsAssumption
  DEF Init, SocketsInit, PoolInit, Registry!Init, Status, StatusOf, InPool
<1>2. Inv /\ [Next]_vars => [Registry!Next]_Status
  <2> SUFFICES ASSUME Inv, [Next]_vars PROVE Registry!Next \/ UNCHANGED Status
    OBVIOUS
  <2>1. CASE UNCHANGED vars \/ Terminated
    BY <2>1, NoneBecomes DEF vars, kernel, pool, main, Terminated
  <2>2. CASE Main
    BY <2>2, MainImplements
  <2>3. ASSUME NEW l \in Loop, IoThread(l)
        PROVE  Registry!Next \/ UNCHANGED Status
    <3>1. CASE RemoveConnection(l) /\ UNCHANGED <<main, io>>
      BY <3>1, RemoveImplements DEF Thread
    <3>2. CASE ~(RemoveConnection(l) /\ UNCHANGED <<main, io>>)
      BY <2>3, <3>2, IoFrames, NoneBecomes DEF Frame
    <3> QED
      BY <3>1, <3>2
  <2>4. CASE HeartbeatThread
    <3>1. CASE RemoveConnection(Hb)
      BY <2>4, <3>1, RemoveImplements DEF HeartbeatThread, Thread
    <3>2. CASE HeartbeatScan \/ HeartbeatRemove
      BY <2>4, <3>2, NoneBecomes
      DEF HeartbeatThread, HeartbeatScan, HeartbeatRemove, kernel, main
    <3> QED
      BY <2>4, <3>1, <3>2 DEF HeartbeatThread, Heartbeat
  <2>5. ASSUME NEW c \in Client, Peer(c) \/ Clock(c)
        PROVE  Registry!Next \/ UNCHANGED Status
    BY <2>5, PeerImplements
  <2> QED
    BY <2>1, <2>2, <2>3, <2>4, <2>5 DEF Next
<1> QED
  BY Invariance, <1>1, <1>2, PTL DEF Spec, ImplementsRegistry, Registry!Spec

=============================================================================
