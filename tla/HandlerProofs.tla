---------------------------- MODULE HandlerProofs ----------------------------
(***************************************************************************)
(* Proofs about the handlers of the IO threads in Reactor.                 *)
(*                                                                         *)
(* The first part holds whatever the clock does: a descriptor whose peer   *)
(* is still there is never left to itself (LivePeerKept).  It needs that a *)
(* connection has one descriptor, the one a handler looked it up by, for   *)
(* as long as it is open; then a handler that marks a connection CLOSED    *)
(* has seen the end of that connection's own peer.                         *)
(*                                                                         *)
(* The second part supposes that no connection times out.  A connection    *)
(* then belongs to the loop it is registered with, and to the one event or *)
(* handler of that loop, until HandleError has taken the registration      *)
(* away; QuietInv follows it from hand to hand.                            *)
(***************************************************************************)
EXTENDS ReactorProofs

HandlerSteps == IoSteps \ {"dispatch", "del"}

-----------------------------------------------------------------------------
(* Whatever the clock does. *)

\* An open connection knows its descriptor, so it has only one.
OpenInv == \A f \in Fd : sock[f] # None => fd_[sock[f]] = f

\* A client that was not accepted has no descriptor, and no handler knows it.
UnseenInv ==
    \A c \in Client : peer[c] = "idle" \/ c \in backlog =>
        /\ ~Open(c)
        /\ \A l \in Loop : pc[l] \in HandlerSteps => obj[l] # c

\* A handler has the number of its connection, unless Close took it away.
LookedUpInv ==
    \A l \in Loop : pc[l] \in HandlerSteps =>
        obj[l] \in Client /\ fd_[obj[l]] \in {argFd[l], None}

\* Close has closed the descriptor before it forgets the number.
UnsetInv == \A t \in Thread : pc[t] = "unset" => ~Open(obj[t])

\* A connection that is CLOSED and open has lost its peer or is about to be
\* closed.
ClosedInv ==
    \A c \in Client : state_[c] = "CLOSED" /\ Open(c) =>
        peer[c] # "open" \/ \E t \in Thread : pc[t] = "close" /\ obj[t] = c

\* LivePeerKept, and HandleAccept lets go of a connection only when it is in
\* the pool.
KeptInv ==
    \A c \in Client : Open(c) /\ peer[c] = "open" =>
        InPool(c) \/ (mainObj = c /\ pcMain \in {"add", "reject1", "reject2"})

LiveInv == /\ OpenInv /\ UnseenInv /\ LookedUpInv /\ UnsetInv /\ ClosedInv
           /\ KeptInv

-----------------------------------------------------------------------------
(* While no connection times out. *)

\* The heartbeat finds nothing to remove.
NoTimeoutInv ==
    /\ \A c \in Client : ~timedOut[c]
    /\ timeout_fds = {} /\ pc[Hb] = "sweep"

\* What is registered is pooled and open.
WatchedInv ==
    \A c \in Client : watch[c] # None =>
        \E f \in Fd : connections_[f] = c /\ sock[f] = c

\* An event is that of a connection of its own loop, one for each, and none of
\* the connection that is being handled.
BatchInv ==
    \A l \in Loop : \A e \in batch[l] :
        /\ sock[e.fd] # None /\ watch[sock[e.fd]] = l
        /\ \A d \in batch[l] : d.fd = e.fd => d = e
        /\ pc[l] # "dispatch" => argFd[l] # e.fd

\* So is what a handler works on.
HandledInv ==
    \A l \in Loop :
        /\ Handling(l) => sock[argFd[l]] # None /\ watch[sock[argFd[l]]] = l
        /\ pc[l] \in HandlerSteps => obj[l] = sock[argFd[l]]
        /\ pc[l] = "del" => obj[l] \in {None, sock[argFd[l]]}
        /\ pc[l] = "dispatch" => obj[l] = None

\* A thread that removes a connection has taken its registration away.
RemovalInv ==
    \A l \in Loop : pc[l] \in RemoveSteps =>
        /\ connections_[argFd[l]] # None
        /\ watch[connections_[argFd[l]]] = None

\* No two threads work on one number.
ApartInv ==
    \A l, m \in Loop : l # m /\ pc[l] # "dispatch" /\ pc[m] # "dispatch" =>
        argFd[l] # argFd[m]

\* Between AddConnection and AddFd nobody touches the new connection.
NewInv ==
    /\ pcMain \in {"add", "watch"} => state_[mainObj] # "CLOSED"
    /\ pcMain = "watch" =>
          /\ connections_[mainFd] = mainObj /\ sock[mainFd] = mainObj
          /\ watch[mainObj] = None
          /\ \A l \in Loop : pc[l] # "dispatch" => argFd[l] # mainFd

\* A registered connection is CLOSED only by a handler that goes on to remove
\* it.
ErrorInv ==
    \A c \in Client : watch[c] # None /\ state_[c] = "CLOSED" =>
        \E l \in Loop : pc[l] = "del" /\ sock[argFd[l]] = c

QuietInv ==
    /\ NoTimeoutInv /\ WatchedInv /\ BatchInv /\ HandledInv /\ RemovalInv
    /\ ApartInv /\ NewInv /\ ErrorInv /\ EpollCallsSucceed

-----------------------------------------------------------------------------
(* What a step of a handler does. *)

\* The call in Recv or Send found no socket, or one whose peer has gone.
Lost(l) == \E f \in CallFd(l) : Target(f) = None \/ peer[Target(f)] # "open"

\* A handler goes on to its next step, returns only after a spurious EAGAIN or
\* from a CLOSED connection, and marks its connection CLOSED only on the way to
\* HandleError.
GoesOn(l, step) ==
    /\ pc' = [pc EXCEPT ![l] = step]
    /\ IF step = "dispatch"
       THEN argFd' = [argFd EXCEPT ![l] = None] /\ obj' = [obj EXCEPT ![l] = None]
       ELSE UNCHANGED <<argFd, obj>>

HandlerMove(l) ==
    /\ pc[l] \in HandlerSteps
    /\ UNCHANGED <<connections_, mutex_, fd_, timeout_fds, peer, backlog, sock,
                   watch, armed, main, batch>>
    /\ aborted' \in {aborted, "SIGPIPE"}
    /\ \A c \in Client : timedOut'[c] => timedOut[c]
    /\ \/ UNCHANGED <<pc, argFd, obj, state_>> /\ aborted' = "SIGPIPE"
       \/ \E step \in IoSteps :
             /\ GoesOn(l, step) /\ UNCHANGED state_
             /\ step = "dispatch" => state_[obj[l]] = "CLOSED" \/ SpuriousWritable
       \/ /\ GoesOn(l, "del") /\ state_' = [state_ EXCEPT ![obj[l]] = "CLOSED"]
          /\ Lost(l)

HandlerStep(l) ==
    \/ RecvCheck(l) \/ RecvCall(l) \/ Echo(l)
    \/ SendCheck(l, "rsend") \/ SendCall(l, "rsend", "rsendcall")
    \/ SendCheck(l, "wsend") \/ SendCall(l, "wsend", "wsendcall")

\* Continue is what GoesOn says.
LEMMA ContinueGoesOn ==
  ASSUME NEW l \in Loop, NEW step, Continue(l, step) PROVE GoesOn(l, step)
<1>1. l # Hb
  BY PoolAssumption
<1> QED
  BY <1>1 DEF Continue, Return, Goto, GoesOn

\* Every step of Recv, Send and the handlers around them is such a move.
LEMMA HandlerMoves ==
  ASSUME Inv, NEW l \in Loop, HandlerStep(l) PROVE HandlerMove(l)
<1>0. /\ timedOut \in [Client -> BOOLEAN]
      /\ peer \in [Client -> {"idle", "open", "fin", "rst", "finrst"}]
      /\ sock \in [Fd -> Client \cup {None}]
  BY DEF Inv, TypeOK, PoolTypeOK, SocketsTypeOK
<1> USE DEF kernel, main, io, HandlerMove
<1>1. CASE RecvCheck(l)
  <2>1. \E step \in IoSteps : step # "dispatch" /\ Continue(l, step)
    BY <1>1 DEF RecvCheck, IoSteps
  <2> QED
    BY <1>1, <2>1, ContinueGoesOn DEF RecvCheck, HandlerSteps, IoSteps
<1>2. CASE RecvCall(l)
  <2>1. \A c \in Client : timedOut'[c] => timedOut[c]
    <3>1. timedOut' = timedOut \/ timedOut' = [timedOut EXCEPT ![obj[l]] = FALSE]
      BY <1>2 DEF RecvCall
    <3> QED
      BY <1>0, <3>1
  <2>2. \/ \E step \in {"recv", "echo"} : Continue(l, step) /\ UNCHANGED state_
        \/ /\ Continue(l, "del") /\ state_' = [state_ EXCEPT ![obj[l]] = "CLOSED"]
           /\ Lost(l)
    BY <1>2 DEF RecvCall, Lost
  <2>3. \/ \E step \in {"recv", "echo"} : GoesOn(l, step) /\ UNCHANGED state_
        \/ /\ GoesOn(l, "del") /\ state_' = [state_ EXCEPT ![obj[l]] = "CLOSED"]
           /\ Lost(l)
    BY <2>2, ContinueGoesOn
  <2> QED
    BY <1>2, <2>1, <2>3 DEF RecvCall, HandlerSteps, IoSteps
<1>3. CASE Echo(l)
  <2>1. \E step \in IoSteps : step # "dispatch" /\ Continue(l, step)
    BY <1>3 DEF Echo, IoSteps
  <2> QED
    BY <1>3, <2>1, ContinueGoesOn DEF Echo, HandlerSteps, IoSteps
<1>4. ASSUME NEW caller \in {"rsend", "wsend"}, SendCheck(l, caller)
      PROVE  HandlerMove(l)
  <2>1. \A c \in Client : timedOut'[c] => timedOut[c]
    <3>1. \/ timedOut' = timedOut
          \/ timedOut' = [timedOut EXCEPT ![obj[l]] = @ /\ caller = "rsend"]
      BY <1>4 DEF SendCheck
    <3> QED
      BY <1>0, <3>1
  <2>2. \E step \in IoSteps :
           /\ Continue(l, step)
           /\ step = "dispatch" => state_[obj[l]] = "CLOSED"
    BY <1>4 DEF SendCheck, IoSteps, AfterAgain
  <2>3. \E step \in IoSteps :
           /\ GoesOn(l, step)
           /\ step = "dispatch" => state_[obj[l]] = "CLOSED"
    BY <2>2, ContinueGoesOn
  <2> QED
    BY <1>4, <2>1, <2>3 DEF SendCheck, HandlerSteps, IoSteps
<1>5. ASSUME NEW caller \in {"rsend", "wsend"}, NEW call \in {"rsendcall", "wsendcall"},
             SendCall(l, caller, call)
      PROVE  HandlerMove(l)
  <2>1. \A c \in Client : timedOut'[c] => timedOut[c]
    <3>1. timedOut' = timedOut \/ timedOut' = [timedOut EXCEPT ![obj[l]] = FALSE]
      BY <1>5 DEF SendCall
    <3> QED
      BY <1>0, <3>1
  <2>2. \/ UNCHANGED <<pc, argFd, obj, state_>> /\ aborted' = "SIGPIPE"
        \/ /\ \E step \in IoSteps :
                 /\ Continue(l, step) /\ UNCHANGED state_
                 /\ step = "dispatch" => SpuriousWritable
           /\ aborted' = aborted
        \/ /\ Continue(l, "del") /\ state_' = [state_ EXCEPT ![obj[l]] = "CLOSED"]
           /\ Lost(l) /\ aborted' = aborted
    BY <1>5 DEF SendCall, IoSteps, AfterAgain, Lost
  <2>3. \/ UNCHANGED <<pc, argFd, obj, state_>> /\ aborted' = "SIGPIPE"
        \/ /\ \E step \in IoSteps :
                 /\ GoesOn(l, step) /\ UNCHANGED state_
                 /\ step = "dispatch" => SpuriousWritable
           /\ aborted' = aborted
        \/ /\ GoesOn(l, "del") /\ state_' = [state_ EXCEPT ![obj[l]] = "CLOSED"]
           /\ Lost(l) /\ aborted' = aborted
    BY <2>2, ContinueGoesOn
  <2> QED
    BY <1>5, <2>1, <2>3 DEF SendCall, HandlerSteps, IoSteps
<1> HIDE DEF HandlerMove
<1> QED
  BY <1>1, <1>2, <1>3, <1>4, <1>5, Zenon DEF HandlerStep

-----------------------------------------------------------------------------
(* A live peer's connection is kept. *)

\* Nothing is accepted, closed or erased, and threads only move between steps
\* that LiveInv does not tell apart.
LiveFrame ==
    /\ UNCHANGED <<sock, fd_, connections_, peer, backlog, mainObj, pcMain, state_>>
    /\ \A t \in Thread :
          \/ pc'[t] = pc[t] /\ argFd'[t] = argFd[t] /\ obj'[t] = obj[t]
          \/ pc[t] \in HandlerSteps /\ argFd'[t] = argFd[t] /\ obj'[t] = obj[t]
             /\ pc'[t] \in HandlerSteps
          \/ pc[t] # "close" /\ pc'[t] \notin HandlerSteps \cup {"unset"}

\* Such a step keeps LiveInv.
LEMMA LiveFrames == ASSUME LiveInv, LiveFrame PROVE LiveInv'
<1>0. \A c \in Client : /\ Open(c)' <=> Open(c)
                        /\ InPool(c)' <=> InPool(c)
  BY DEF LiveFrame, Open, InPool
<1>1. OpenInv'
  BY DEF LiveInv, LiveFrame, OpenInv
<1>2. UnseenInv'
  BY <1>0 DEF LiveInv, LiveFrame, UnseenInv, HandlerSteps, Thread
<1>3. LookedUpInv'
  BY DEF LiveInv, LiveFrame, LookedUpInv, Thread
<1>4. UnsetInv'
  BY DEF LiveInv, LiveFrame, UnsetInv, HandlerSteps, IoSteps, Open
<1>5. ClosedInv'
  BY <1>0 DEF LiveInv, LiveFrame, ClosedInv, HandlerSteps, IoSteps
<1>6. KeptInv'
  BY <1>0 DEF LiveInv, LiveFrame, KeptInv
<1> QED
  BY <1>1, <1>2, <1>3, <1>4, <1>5, <1>6 DEF LiveInv

\* The server starts without connections.
LEMMA InitLive == Init => LiveInv
<1> SUFFICES ASSUME Init PROVE LiveInv
  OBVIOUS
<1>1. /\ \A f \in Fd : sock[f] = None
      /\ \A t \in Thread : pc[t] \in {"sweep", "dispatch"}
  BY DEF Init, SocketsInit, PoolInit
<1>2. \A c \in Client : ~Open(c)
  BY <1>1, SocketsAssumption DEF Open
<1> QED
  BY <1>1, <1>2
  DEF LiveInv, OpenInv, UnseenInv, LookedUpInv, UnsetInv, ClosedInv, KeptInv,
      HandlerSteps, Thread, IoSteps

\* accept gives a connection its one descriptor.
LEMMA AcceptLive == ASSUME Inv, LiveInv, Accept PROVE LiveInv'
<1>1. CASE FreeFds = {}
  <2>1. LiveFrame
    BY <1>1 DEF Accept, LiveFrame, FreeFds
  <2> QED
    BY <2>1, LiveFrames
<1>2. CASE FreeFds # {}
  <2>1. PICK c \in backlog, f \in FreeFds :
             /\ backlog' = backlog \ {c}
             /\ sock' = [sock EXCEPT ![f] = c]
             /\ fd_' = [fd_ EXCEPT ![c] = f]
             /\ state_' = [state_ EXCEPT ![c] = "CONNECTED"]
             /\ mainObj' = c /\ pcMain' = "add"
    BY <1>2 DEF Accept
  <2>2. UNCHANGED <<connections_, pc, argFd, obj, peer>> /\ pcMain = "accept"
    BY DEF Accept
  <2>3. /\ c \in Client /\ f \in Fd /\ sock[f] = None
        /\ ~InPool(c) /\ peer[c] # "idle" /\ ~Open(c)
        /\ \A l \in Loop : pc[l] \in HandlerSteps => obj[l] # c
    BY DEF FreeFds, Inv, FreshInv, TypeOK, SocketsTypeOK, LiveInv, UnseenInv
  <2>4. /\ sock \in [Fd -> Client \cup {None}] /\ fd_ \in [Client -> Fd \cup {None}]
        /\ state_ \in [Client -> {"CONNECTING", "CONNECTED", "CLOSED"}]
    BY DEF Inv, TypeOK, SocketsTypeOK, PoolTypeOK
  <2>5. \A d \in Client : d # c => (Open(d)' <=> Open(d))
    BY <2>1, <2>3, <2>4, SocketsAssumption DEF Open
  <2>6. OpenInv'
    BY <2>1, <2>3, <2>4 DEF LiveInv, OpenInv, Open
  <2>7. UnseenInv'
    BY <2>1, <2>2, <2>3, <2>5 DEF LiveInv, UnseenInv
  <2>8. LookedUpInv'
    BY <2>1, <2>2, <2>3, <2>4 DEF LiveInv, LookedUpInv
  <2>9. UnsetInv'
    <3> SUFFICES ASSUME NEW t \in Thread, pc[t] = "unset" PROVE ~Open(obj[t])'
      BY <2>2 DEF UnsetInv
    <3>1. obj[t] \in Client /\ InPool(obj[t])
      BY DEF Inv, HolderInv, ThreadInv, Locked, InPool
    <3>2. obj[t] # c /\ ~Open(obj[t])
      BY <2>3, <3>1 DEF LiveInv, UnsetInv
    <3> QED
      BY <2>1, <2>2, <2>3, <2>4, <3>1, <3>2 DEF Open
  <2>10. ClosedInv'
    BY <2>1, <2>2, <2>3, <2>4, <2>5 DEF LiveInv, ClosedInv
  <2>11. KeptInv'
    BY <2>1, <2>2, <2>5 DEF LiveInv, KeptInv, InPool
  <2> QED
    BY <2>6, <2>7, <2>8, <2>9, <2>10, <2>11 DEF LiveInv
<1> QED
  BY <1>1, <1>2

\* AddConnection takes over from HandleAccept, or refuses.
LEMMA AddLive == ASSUME Inv, LiveInv, Add PROVE LiveInv'
<1>1. PICK accepted \in BOOLEAN :
         /\ connections_' = IF accepted
                             THEN [connections_ EXCEPT ![mainFd] = mainObj]
                             ELSE connections_
         /\ pcMain' = IF accepted THEN "watch" ELSE "reject1"
         /\ accepted => connections_[mainFd] = None
  BY Zenon DEF Add, AfterAdd, AddConnection
<1>2. /\ UNCHANGED <<sock, fd_, peer, backlog, mainObj, mainFd, state_, pc, argFd, obj>>
      /\ pcMain = "add"
  BY DEF Add, kernel
<1>3. /\ mainFd \in Fd /\ mainObj \in Client
      /\ connections_ \in [Fd -> Client \cup {None}]
  BY <1>2 DEF Inv, MainInv, TypeOK, PoolTypeOK
<1>4. /\ \A c \in Client : InPool(c) => InPool(c)'
      /\ accepted => InPool(mainObj)'
  BY <1>1, <1>2, <1>3, SocketsAssumption DEF InPool
<1>5. OpenInv' /\ UnseenInv' /\ LookedUpInv' /\ UnsetInv' /\ ClosedInv'
  BY <1>2 DEF LiveInv, OpenInv, UnseenInv, LookedUpInv, UnsetInv, ClosedInv, Open
<1>6. KeptInv'
  <2>1. \A c \in Client : Open(c)' => Open(c)
    BY <1>2 DEF Open
  <2>2. CASE accepted
    BY <1>1, <1>2, <1>4, <2>1, <2>2 DEF LiveInv, KeptInv
  <2>3. CASE ~accepted
    BY <1>1, <1>2, <1>4, <2>1, <2>3 DEF LiveInv, KeptInv
  <2> QED
    BY <2>2, <2>3
<1> QED
  BY <1>5, <1>6 DEF LiveInv

\* Closing a descriptor, or the end of HandleAccept, keeps LiveInv.
LEMMA RejectLive == ASSUME Inv, LiveInv, RejectClose \/ RejectDestroy PROVE LiveInv'
<1> USE DEF LiveInv
<1>0. /\ sock \in [Fd -> Client \cup {None}] /\ fd_ \in [Client -> Fd \cup {None}]
      /\ state_ \in [Client -> {"CONNECTING", "CONNECTED", "CLOSED"}]
  BY DEF Inv, TypeOK, SocketsTypeOK, PoolTypeOK
<1>1. CASE RejectClose
  <2>1. /\ UNCHANGED <<connections_, state_, fd_, backlog, peer, pc, argFd, obj, mainObj>>
        /\ pcMain = "reject1" /\ pcMain' = "reject2"
        /\ sock' = [sock EXCEPT ![mainFd] = None]
    BY <1>1 DEF RejectClose, CloseFd, Target, pool
  <2>2. \A f \in Fd : sock'[f] # None => sock'[f] = sock[f]
    BY <1>0, <2>1
  <2>3. \A c : c # None /\ Open(c)' => Open(c)
    BY <2>2 DEF Open
  <2>4. OpenInv' /\ LookedUpInv'
    BY <2>1, <2>2 DEF OpenInv, LookedUpInv
  <2>5. UnseenInv' /\ ClosedInv' /\ KeptInv'
    BY <2>1, <2>3, SocketsAssumption DEF UnseenInv, ClosedInv, KeptInv, InPool
  <2>6. UnsetInv'
    <3>1. \A t \in Thread : pc[t] = "unset" => obj[t] # None
      BY SocketsAssumption DEF Inv, HolderInv, Locked
    <3> QED
      BY <2>1, <2>3, <3>1 DEF UnsetInv
  <2> QED
    BY <2>4, <2>5, <2>6
<1>2. CASE RejectDestroy
  <2>1. /\ UNCHANGED <<connections_, backlog, peer, pc, argFd, obj>>
        /\ pcMain = "reject2" /\ pcMain' = "accept" /\ mainObj' = None
        /\ sock' = [sock EXCEPT ![fd_[mainObj]] = None]
        /\ fd_' = [fd_ EXCEPT ![mainObj] = None]
        /\ state_' = [state_ EXCEPT ![mainObj] = "CLOSED"]
    BY <1>2 DEF RejectDestroy, CloseFd, Target, MainDone
  <2>2. /\ mainObj \in Client /\ mainFd \in Fd
        /\ fd_[mainObj] = mainFd /\ sock[mainFd] = None
    BY <2>1 DEF Inv, MainInv
  <2>3. ~Open(mainObj)
    BY <2>2, SocketsAssumption DEF OpenInv, Open
  <2>4. sock' = sock
    BY <1>0, <2>1, <2>2
  <2>5. \A c : Open(c)' <=> Open(c)
    BY <2>4 DEF Open
  <2>6. OpenInv'
    BY <1>0, <2>1, <2>2, <2>3, <2>4 DEF OpenInv, Open
  <2>7. UnseenInv' /\ LookedUpInv'
    BY <1>0, <2>1, <2>2, <2>5 DEF UnseenInv, LookedUpInv
  <2>8. UnsetInv'
    BY <2>1, <2>5 DEF UnsetInv
  <2>9. ClosedInv' /\ KeptInv'
    BY <1>0, <2>1, <2>2, <2>3, <2>5 DEF ClosedInv, KeptInv, InPool
  <2> QED
    BY <2>6, <2>7, <2>8, <2>9
<1> QED
  BY <1>1, <1>2

\* HandleAccept lets go of a connection that is in the pool.
LEMMA WatchLive == ASSUME LiveInv, Watch PROVE LiveInv'
<1>1. /\ UNCHANGED <<connections_, state_, fd_, sock, backlog, peer, pc, argFd, obj>>
      /\ pcMain = "watch" /\ pcMain' = "accept"
  BY DEF Watch, MainDone, pool
<1>2. OpenInv' /\ UnseenInv' /\ LookedUpInv' /\ UnsetInv' /\ ClosedInv'
  BY <1>1 DEF LiveInv, OpenInv, UnseenInv, LookedUpInv, UnsetInv, ClosedInv, Open
<1>3. KeptInv'
  BY <1>1 DEF LiveInv, KeptInv, Open, InPool
<1> QED
  BY <1>2, <1>3 DEF LiveInv

\* A handler that marks its connection CLOSED has seen the end of its peer.
LEMMA MoveLive == ASSUME Inv, LiveInv, NEW l \in Loop, HandlerMove(l) PROVE LiveInv'
<1>0. /\ pc \in [Thread -> RemoveSteps \cup IoSteps \cup {"sweep"}]
      /\ argFd \in [Thread -> Fd \cup {None}] /\ obj \in [Thread -> Client \cup {None}]
      /\ state_ \in [Client -> {"CONNECTING", "CONNECTED", "CLOSED"}]
      /\ l \in Thread /\ pc[l] \in HandlerSteps
  BY DEF Inv, TypeOK, PoolTypeOK, Thread, HandlerMove
<1>1. CASE UNCHANGED <<pc, argFd, obj, state_>>
  <2>1. LiveFrame
    BY <1>1 DEF LiveFrame, HandlerMove, main
  <2> QED
    BY <2>1, LiveFrames
<1>2. ASSUME NEW step \in IoSteps, GoesOn(l, step), UNCHANGED state_ PROVE LiveInv'
  <2>1. \A t \in Thread :
          \/ pc'[t] = pc[t] /\ argFd'[t] = argFd[t] /\ obj'[t] = obj[t]
          \/ pc[t] \in HandlerSteps /\ argFd'[t] = argFd[t] /\ obj'[t] = obj[t]
             /\ pc'[t] \in HandlerSteps
          \/ pc[t] # "close" /\ pc'[t] \notin HandlerSteps \cup {"unset"}
    BY <1>0, <1>2 DEF GoesOn, HandlerSteps, IoSteps
  <2>2. LiveFrame
    BY <1>2, <2>1 DEF LiveFrame, HandlerMove, main
  <2> QED
    BY <2>2, LiveFrames
<1>3. CASE /\ GoesOn(l, "del") /\ state_' = [state_ EXCEPT ![obj[l]] = "CLOSED"]
           /\ Lost(l)
  <2>1. /\ pc' = [pc EXCEPT ![l] = "del"]
        /\ UNCHANGED <<argFd, obj, sock, fd_, connections_, peer, backlog, mainObj, pcMain>>
    BY <1>3 DEF GoesOn, HandlerMove, main
  <2>2. Open(obj[l]) => peer[obj[l]] # "open"
    <3> SUFFICES ASSUME NEW g \in Fd, sock[g] = obj[l] PROVE peer[obj[l]] # "open"
      BY DEF Open
    <3>1. obj[l] \in Client /\ fd_[obj[l]] = g /\ g = argFd[l]
      BY <1>0, SocketsAssumption DEF LiveInv, LookedUpInv, OpenInv
    <3> QED
      BY <1>3, <3>1, SocketsAssumption DEF Lost, CallFd, Target
  <2>3. \A c : Open(c)' <=> Open(c)
    BY <2>1 DEF Open
  <2>4. \A t \in Thread : pc'[t] # "del" => pc'[t] = pc[t]
    BY <1>0, <2>1
  <2>5. OpenInv' /\ KeptInv'
    BY <2>1, <2>3 DEF LiveInv, OpenInv, KeptInv, InPool
  <2>6. UnseenInv' /\ LookedUpInv'
    BY <2>1, <2>3, <2>4 DEF LiveInv, UnseenInv, LookedUpInv, HandlerSteps, Thread
  <2>7. UnsetInv'
    BY <2>1, <2>3, <2>4 DEF LiveInv, UnsetInv
  <2>8. ClosedInv'
    BY <1>0, <1>3, <2>1, <2>2, <2>3 DEF LiveInv, ClosedInv, HandlerSteps, IoSteps
  <2> QED
    BY <2>5, <2>6, <2>7, <2>8 DEF LiveInv
<1> QED
  BY <1>1, <1>2, <1>3 DEF HandlerMove

\* A handler starts with what it finds in the pool.
LEMMA DispatchLive == ASSUME Inv, LiveInv, NEW l \in Loop, Dispatch(l) PROVE LiveInv'
<1>0. /\ pc \in [Thread -> RemoveSteps \cup IoSteps \cup {"sweep"}]
      /\ argFd \in [Thread -> Fd \cup {None}] /\ obj \in [Thread -> Client \cup {None}]
      /\ connections_ \in [Fd -> Client \cup {None}]
      /\ l \in Thread /\ batch[l] \subseteq Event
  BY DEF Inv, TypeOK, PoolTypeOK, Thread
<1>1. /\ UNCHANGED <<sock, fd_, connections_, peer, backlog, mainObj, pcMain, state_>>
      /\ pc[l] = "dispatch" /\ mutex_ = None
  BY DEF Dispatch, GetConnection, kernel, main
<1>2. \A t \in Thread \ {l} :
         pc'[t] = pc[t] /\ argFd'[t] = argFd[t] /\ obj'[t] = obj[t]
  BY <1>0 DEF Dispatch, GetConnection, Goto
<1>3. CASE pc'[l] \notin HandlerSteps
  <2>1. pc'[l] \in {"dispatch", "del"}
    BY <1>0, <1>3 DEF Dispatch, GetConnection, Goto, HandlerSteps, IoSteps
  <2>2. LiveFrame
    BY <1>1, <1>2, <2>1 DEF LiveFrame, HandlerSteps
  <2> QED
    BY <2>2, LiveFrames
<1>4. CASE pc'[l] \in HandlerSteps
  <2>1. PICK f \in Fd : /\ connections_[f] # None
                        /\ argFd'[l] = f /\ obj'[l] = connections_[f]
    BY <1>0, <1>1, <1>4 DEF Dispatch, GetConnection, Goto, HandlerSteps, IoSteps, Event
  <2>2. /\ obj'[l] \in Client /\ fd_[obj'[l]] = f
        /\ peer[obj'[l]] # "idle" /\ obj'[l] \notin backlog
    BY <1>0, <2>1 DEF Inv, EntryInv, FreshInv, InPool
  <2>3. \A c : Open(c)' <=> Open(c)
    BY <1>1 DEF Open
  <2>4. OpenInv' /\ KeptInv'
    BY <1>1, <2>3 DEF LiveInv, OpenInv, KeptInv, InPool
  <2>5. LookedUpInv'
    BY <1>1, <1>2, <2>1, <2>2 DEF LiveInv, LookedUpInv, Thread
  <2>6. UnseenInv'
    BY <1>1, <1>2, <2>2, <2>3 DEF LiveInv, UnseenInv, Thread
  <2>7. UnsetInv'
    BY <1>1, <1>2, <1>4, <2>3 DEF LiveInv, UnsetInv, HandlerSteps, IoSteps
  <2>8. ClosedInv'
    BY <1>1, <1>2, <2>3 DEF LiveInv, ClosedInv
  <2> QED
    BY <2>4, <2>5, <2>6, <2>7, <2>8 DEF LiveInv
<1> QED
  BY <1>3, <1>4

\* The other steps of an IO thread, outside RemoveConnection.
LEMMA IoLive ==
  ASSUME Inv, LiveInv, NEW l \in Loop, Wait(l) \/ Rearm(l) \/ HandleError(l)
  PROVE  LiveInv'
<1>0. /\ pc \in [Thread -> RemoveSteps \cup IoSteps \cup {"sweep"}]
      /\ argFd \in [Thread -> Fd \cup {None}] /\ obj \in [Thread -> Client \cup {None}]
      /\ l \in Thread /\ l # Hb
  BY PoolAssumption DEF Inv, TypeOK, PoolTypeOK, Thread
<1>1. CASE Wait(l)
  <2>1. LiveFrame
    BY <1>1 DEF Wait, LiveFrame, pool, main
  <2> QED
    BY <2>1, LiveFrames
<1>2. CASE Rearm(l)
  <2>1. LiveFrame
    BY <1>0, <1>2 DEF Rearm, LiveFrame, Return, Goto, main, HandlerSteps
  <2> QED
    BY <2>1, LiveFrames
<1>3. CASE HandleError(l)
  <2>1. LiveFrame
    BY <1>0, <1>3 DEF HandleError, LiveFrame, Goto, main, HandlerSteps, IoSteps
  <2> QED
    BY <2>1, LiveFrames
<1> QED
  BY <1>1, <1>2, <1>3

\* RemoveConnection closes what it has marked, and forgets a descriptor without
\* closing it only when the connection was CLOSED before.
LEMMA RemoveLive ==
  ASSUME Inv, LiveInv, NEW t \in Thread, RemoveConnection(t), UNCHANGED <<main, io>>
  PROVE  LiveInv'
<1> USE DEF LiveInv
<1>0. /\ pc \in [Thread -> RemoveSteps \cup IoSteps \cup {"sweep"}]
      /\ argFd \in [Thread -> Fd \cup {None}] /\ obj \in [Thread -> Client \cup {None}]
      /\ connections_ \in [Fd -> Client \cup {None}]
      /\ sock \in [Fd -> Client \cup {None}] /\ fd_ \in [Client -> Fd \cup {None}]
      /\ state_ \in [Client -> {"CONNECTING", "CONNECTED", "CLOSED"}]
  BY DEF Inv, TypeOK, PoolTypeOK, SocketsTypeOK
<1>1. CASE RemoveFind(t)
  <2> DEFINE c == connections_[argFd[t]]
  <2>1. /\ UNCHANGED <<connections_, fd_, sock, backlog, peer, pcMain, mainObj>>
        /\ pc[t] = "remove" /\ mutex_ = None
    BY <1>1 DEF RemoveFind, kernel, main
  <2>2. CASE c = None
    <3>1. LiveFrame
      BY <1>0, <1>1, <2>1, <2>2
      DEF RemoveFind, Return, Goto, LiveFrame, HandlerSteps, IoSteps
    <3> QED
      BY <3>1, LiveFrames
  <2>3. CASE c # None
    <3>1. /\ obj' = [obj EXCEPT ![t] = c]
          /\ state_' = [state_ EXCEPT ![c] = "CLOSED"]
          /\ pc' = [pc EXCEPT ![t] = IF state_[c] = "CLOSED" THEN "erase" ELSE "close"]
          /\ UNCHANGED argFd
      BY <1>1, <2>3 DEF RemoveFind, Goto
    <3>2. argFd[t] \in Fd /\ c \in Client
      BY <1>0, <2>1, <2>3 DEF Inv, ThreadInv
    <3>3. \A u \in Thread : pc[u] # "close"
      BY <2>1, SocketsAssumption, PoolAssumption DEF Inv, LockInv, Thread, Locked
    <3> HIDE DEF c
    <3>4. \A d : Open(d)' <=> Open(d)
      BY <2>1 DEF Open
    <3>5. \A u \in Thread :
             \/ pc'[u] = pc[u] /\ obj'[u] = obj[u]
             \/ pc'[u] \in {"erase", "close"}
      BY <1>0, <3>1
    <3>6. OpenInv' /\ KeptInv'
      BY <2>1, <3>4 DEF OpenInv, KeptInv, InPool
    <3>7. LookedUpInv' /\ UnseenInv'
      BY <2>1, <3>1, <3>4, <3>5 DEF LookedUpInv, UnseenInv, HandlerSteps, IoSteps, Thread
    <3>8. UnsetInv'
      BY <3>4, <3>5 DEF UnsetInv
    <3>9. ClosedInv'
      <4> SUFFICES ASSUME NEW d \in Client, state_'[d] = "CLOSED", Open(d),
                          peer[d] = "open"
                   PROVE  \E u \in Thread : pc'[u] = "close" /\ obj'[u] = d
        BY <2>1, <3>4 DEF ClosedInv
      <4>1. state_[d] # "CLOSED"
        BY <3>3 DEF ClosedInv
      <4>2. d = c
        BY <1>0, <3>1, <3>2, <4>1
      <4>3. pc'[t] = "close" /\ obj'[t] = d
        BY <1>0, <3>1, <4>1, <4>2
      <4> QED
        BY <4>3
    <3> QED
      BY <3>6, <3>7, <3>8, <3>9
  <2> QED
    BY <2>2, <2>3
<1>2. CASE RemoveClose(t)
  <2>1. /\ UNCHANGED <<connections_, state_, fd_, backlog, peer, argFd, obj,
                       pcMain, mainObj>>
        /\ pc[t] = "close" /\ pc' = [pc EXCEPT ![t] = "unset"]
        /\ sock' = [sock EXCEPT ![fd_[obj[t]]] = None]
    BY <1>2 DEF RemoveClose, CloseFd, Target, Goto, main
  <2>2. /\ argFd[t] \in Fd /\ obj[t] \in Client /\ mutex_ = t
        /\ sock[argFd[t]] = obj[t] /\ fd_[obj[t]] = argFd[t]
    BY <2>1, SocketsAssumption DEF Inv, ThreadInv, HolderInv, LockInv, EntryInv, Locked
  <2>3. \A u \in Thread : u # t => pc[u] \notin Locked
    BY <2>2 DEF Inv, LockInv
  <2>4. \A f \in Fd : sock'[f] # None => sock'[f] = sock[f] /\ sock[f] # obj[t]
    BY <1>0, <2>1, <2>2 DEF OpenInv
  <2>5. /\ \A d \in Client : Open(d)' => Open(d)
        /\ ~Open(obj[t])'
    BY <2>1, <2>2, <2>4, SocketsAssumption DEF Open
  <2>6. OpenInv' /\ KeptInv'
    BY <2>1, <2>4, <2>5 DEF OpenInv, KeptInv, InPool
  <2>7. LookedUpInv' /\ UnseenInv'
    BY <1>0, <2>1, <2>5 DEF LookedUpInv, UnseenInv, HandlerSteps, IoSteps, Thread
  <2>8. UnsetInv'
    BY <1>0, <2>1, <2>3, <2>5 DEF UnsetInv, Locked
  <2>9. ClosedInv'
    BY <1>0, <2>1, <2>3, <2>5 DEF ClosedInv, Locked
  <2> QED
    BY <2>6, <2>7, <2>8, <2>9
<1>3. CASE RemoveErase(t)
  <2>1. /\ UNCHANGED <<state_, sock, backlog, peer, pcMain, mainObj>>
        /\ pc[t] \in {"unset", "erase"}
        /\ pc' = [pc EXCEPT ![t] = IF t = Hb THEN "sweep" ELSE "dispatch"]
        /\ argFd' = [argFd EXCEPT ![t] = None] /\ obj' = [obj EXCEPT ![t] = None]
        /\ connections_' = [connections_ EXCEPT ![argFd[t]] = None]
        /\ fd_' = IF pc[t] = "unset" THEN [fd_ EXCEPT ![obj[t]] = None] ELSE fd_
    BY <1>3 DEF RemoveErase, Return, Goto, kernel, main
  <2>2. /\ argFd[t] \in Fd /\ obj[t] \in Client /\ mutex_ = t
        /\ connections_[argFd[t]] = obj[t] /\ state_[obj[t]] = "CLOSED"
    BY <2>1 DEF Inv, ThreadInv, HolderInv, LockInv, Locked
  <2>3. \A u \in Thread : pc[u] # "close" /\ (pc[u] = "unset" => u = t)
    BY <2>1, <2>2 DEF Inv, LockInv, Locked
  <2>4. Open(obj[t]) => pc[t] = "erase" /\ peer[obj[t]] # "open"
    BY <2>1, <2>2, <2>3 DEF UnsetInv, ClosedInv
  <2>5. \A d : Open(d)' <=> Open(d)
    BY <2>1 DEF Open
  <2>6. \A d \in Client : d # obj[t] /\ InPool(d) => InPool(d)'
    BY <1>0, <2>1, <2>2 DEF InPool
  <2>7. OpenInv'
    BY <1>0, <2>1, <2>2, <2>4 DEF OpenInv, Open
  <2>8. KeptInv'
    BY <2>1, <2>4, <2>5, <2>6 DEF KeptInv
  <2>9. LookedUpInv' /\ UnseenInv'
    BY <1>0, <2>1, <2>5 DEF LookedUpInv, UnseenInv, HandlerSteps, IoSteps, Thread
  <2>10. UnsetInv' /\ ClosedInv'
    BY <1>0, <2>1, <2>3, <2>5 DEF UnsetInv, ClosedInv
  <2> QED
    BY <2>7, <2>8, <2>9, <2>10
<1> QED
  BY <1>1, <1>2, <1>3 DEF RemoveConnection

\* The heartbeat's own steps, the peers and the clock.
LEMMA OthersLive ==
  ASSUME Inv, LiveInv,
         \/ HeartbeatScan /\ UNCHANGED <<main, io>>
         \/ HeartbeatRemove /\ UNCHANGED <<main, io>>
         \/ Terminated \/ UNCHANGED vars
         \/ \E c \in Client : Peer(c) \/ Clock(c)
  PROVE  LiveInv'
<1>0. /\ pc \in [Thread -> RemoveSteps \cup IoSteps \cup {"sweep"}]
      /\ argFd \in [Thread -> Fd \cup {None}]
      /\ peer \in [Client -> {"idle", "open", "fin", "rst", "finrst"}]
  BY DEF Inv, TypeOK, PoolTypeOK, SocketsTypeOK
<1>1. CASE \/ Terminated \/ UNCHANGED vars
           \/ HeartbeatScan /\ UNCHANGED <<main, io>>
           \/ \E c \in Client : Clock(c)
  <2>1. UNCHANGED <<sock, fd_, connections_, peer, backlog, mainObj, pcMain, state_,
                    pc, argFd, obj>>
    BY <1>1 DEF Terminated, vars, HeartbeatScan, Clock, Age, kernel, pool, main
  <2>2. LiveFrame
    BY <2>1 DEF LiveFrame
  <2> QED
    BY <2>2, LiveFrames
<1>2. CASE HeartbeatRemove /\ UNCHANGED <<main, io>>
  <2>1. LiveFrame
    BY <1>0, <1>2
    DEF HeartbeatRemove, Goto, LiveFrame, kernel, main, HandlerSteps, IoSteps, Thread
  <2> QED
    BY <2>1, LiveFrames
<1>3. ASSUME NEW c \in Client, Peer(c) PROVE LiveInv'
  <2>1. UNCHANGED <<connections_, mutex_, state_, fd_, sock, pc, argFd, obj,
                    pcMain, mainObj>>
    BY <1>3 DEF Peer, PeerConnect, PeerSend, PeerClose, PeerReset, pool, main
  <2>2. \A d \in Client :
           /\ peer'[d] = "idle" \/ d \in backlog' => peer[d] = "idle" \/ d \in backlog
           /\ peer'[d] = "open" => peer[d] \in {"idle", "open"}
    BY <1>0, <1>3 DEF Peer, PeerConnect, PeerSend, PeerClose, PeerReset
  <2>3. \A d : Open(d)' <=> Open(d)
    BY <2>1 DEF Open
  <2>4. OpenInv' /\ LookedUpInv' /\ UnsetInv'
    BY <2>1, <2>3 DEF LiveInv, OpenInv, LookedUpInv, UnsetInv
  <2>5. UnseenInv'
    BY <2>1, <2>2, <2>3 DEF LiveInv, UnseenInv
  <2>6. ClosedInv' /\ KeptInv'
    BY <2>1, <2>2, <2>3 DEF LiveInv, UnseenInv, ClosedInv, KeptInv, InPool
  <2> QED
    BY <2>4, <2>5, <2>6 DEF LiveInv
<1> QED
  BY <1>1, <1>2, <1>3

\* An IO thread's step is one of these.
LEMMA IoCases ==
  ASSUME NEW l \in Loop, IoThread(l)
  PROVE  \/ Wait(l) \/ Dispatch(l) \/ HandlerStep(l) \/ Rearm(l) \/ HandleError(l)
         \/ RemoveConnection(l) /\ UNCHANGED <<main, io>>
  BY Zenon DEF IoThread, HandlerStep, Send

\* Every step keeps LiveInv.
LEMMA NextLive == Inv /\ LiveInv /\ [Next]_vars => LiveInv'
<1> SUFFICES ASSUME Inv, LiveInv, [Next]_vars PROVE LiveInv'
  OBVIOUS
<1>1. CASE Main
  BY <1>1, AcceptLive, AddLive, RejectLive, WatchLive DEF Main
<1>2. ASSUME NEW l \in Loop, IoThread(l) PROVE LiveInv'
  <2>1. l \in Thread
    BY DEF Thread
  <2> QED
    BY <1>2, <2>1, IoCases, IoLive, DispatchLive, HandlerMoves, MoveLive, RemoveLive
<1>3. CASE HeartbeatThread
  <2>1. Hb \in Thread
    BY DEF Thread
  <2> QED
    BY <1>3, <2>1, OthersLive, RemoveLive DEF HeartbeatThread, Heartbeat
<1> QED
  BY <1>1, <1>2, <1>3, OthersLive DEF Next

\* LiveInv holds of every state of the server.
LEMMA LiveInvariance == Spec => []LiveInv
  BY InitLive, NextLive, Invariance, PTL DEF Spec

\* The descriptor of a connection whose peer is still there is always the pool's
\* or HandleAccept's, whenever connections time out and however the threads
\* interleave.
THEOREM LivePeerAlwaysKept == Spec => []LivePeerKept
<1>1. LiveInv => LivePeerKept
  BY DEF LiveInv, KeptInv, LivePeerKept
<1> QED
  BY LiveInvariance, <1>1, PTL

-----------------------------------------------------------------------------
(* Without timeouts, a connection is in one pair of hands. *)

\* What is registered is under its own number in the pool, and what HandleAccept
\* has in its hands is not registered yet.
LEMMA QuietFacts ==
  ASSUME Inv, LiveInv, QuietInv
  PROVE  /\ \A f \in Fd : sock[f] # None /\ watch[sock[f]] # None =>
                connections_[f] = sock[f]
         /\ pcMain # "accept" => mainObj \in Client /\ mainFd \in Fd
                                 /\ watch[mainObj] = None
         /\ \A l \in Loop : l # None /\ l # Hb /\ l \in Thread
         /\ \A l \in Loop : pc[l] # "dispatch" => argFd[l] \in Fd
         /\ \A l \in Loop : pc[l] = "dispatch" \/ Handling(l) \/ pc[l] \in RemoveSteps
         /\ \A c \in Client : c # None
<1>1. ASSUME NEW f \in Fd, sock[f] # None, watch[sock[f]] # None
      PROVE  connections_[f] = sock[f]
  <2>1. sock[f] \in Client
    BY <1>1 DEF Inv, TypeOK, SocketsTypeOK
  <2>2. PICK g \in Fd : connections_[g] = sock[f] /\ sock[g] = sock[f]
    BY <1>1, <2>1 DEF QuietInv, WatchedInv
  <2>3. g = f
    BY <1>1, <2>2 DEF LiveInv, OpenInv
  <2> QED
    BY <2>2, <2>3
<1>2. pcMain # "accept" => mainObj \in Client /\ mainFd \in Fd /\ watch[mainObj] = None
  BY DEF Inv, MainInv, TypeOK, QuietInv, WatchedInv, NewInv, InPool
<1>3. \A l \in Loop : l # None /\ l # Hb /\ l \in Thread
  BY SocketsAssumption, PoolAssumption DEF Thread
<1>4. \A l \in Loop : pc[l] # "dispatch" => argFd[l] \in Fd
  BY <1>3 DEF Inv, ThreadInv
<1>5. \A l \in Loop : pc[l] = "dispatch" \/ Handling(l) \/ pc[l] \in RemoveSteps
  BY DEF Handling
<1> QED
  BY <1>1, <1>2, <1>3, <1>4, <1>5, SocketsAssumption

\* The types the proofs below use.
LEMMA QuietTypes ==
  ASSUME Inv
  PROVE  /\ pc \in [Thread -> RemoveSteps \cup IoSteps \cup {"sweep"}]
         /\ argFd \in [Thread -> Fd \cup {None}] /\ obj \in [Thread -> Client \cup {None}]
         /\ connections_ \in [Fd -> Client \cup {None}]
         /\ sock \in [Fd -> Client \cup {None}] /\ fd_ \in [Client -> Fd \cup {None}]
         /\ watch \in [Client -> Loop \cup {None}]
         /\ state_ \in [Client -> {"CONNECTING", "CONNECTED", "CLOSED"}]
         /\ batch \in [Loop -> SUBSET Event]
  BY DEF Inv, TypeOK, PoolTypeOK, SocketsTypeOK

\* The server starts with nothing registered.
LEMMA InitQuiet == Init => QuietInv
<1> SUFFICES ASSUME Init PROVE QuietInv
  OBVIOUS
<1>1. /\ \A c \in Client : ~timedOut[c] /\ watch[c] = None
      /\ timeout_fds = {} /\ aborted = "no" /\ pcMain = "accept"
      /\ \A l \in Loop : batch[l] = {}
      /\ \A t \in Thread : pc[t] = (IF t = Hb THEN "sweep" ELSE "dispatch") /\ obj[t] = None
  BY DEF Init, SocketsInit, PoolInit
<1>2. Hb \in Thread /\ \A l \in Loop : l \in Thread /\ l # Hb
  BY PoolAssumption DEF Thread
<1>3. \A l \in Loop : pc[l] = "dispatch" /\ obj[l] = None
  BY <1>1, <1>2
<1>4. NoTimeoutInv
  BY <1>1, <1>2 DEF NoTimeoutInv
<1>5. WatchedInv /\ BatchInv /\ ErrorInv /\ NewInv /\ EpollCallsSucceed
  BY <1>1 DEF WatchedInv, BatchInv, ErrorInv, NewInv, EpollCallsSucceed
<1>6. HandledInv /\ RemovalInv /\ ApartInv
  BY <1>3 DEF HandledInv, RemovalInv, ApartInv, Handling, HandlerSteps, RemoveSteps
<1> QED
  BY <1>4, <1>5, <1>6 DEF QuietInv

\* Steps that leave the registrations, the pool and the threads alone.
LEMMA QuietFrame ==
  ASSUME QuietInv, NoTimeoutInv', EpollCallsSucceed',
         UNCHANGED <<watch, connections_, sock, batch, pc, argFd, obj, pcMain,
                     mainObj, mainFd, state_>>
  PROVE  QuietInv'
<1>1. WatchedInv' /\ BatchInv' /\ RemovalInv' /\ ApartInv'
  BY DEF QuietInv, WatchedInv, BatchInv, RemovalInv, ApartInv
<1>2. HandledInv' /\ NewInv' /\ ErrorInv'
  BY DEF QuietInv, HandledInv, NewInv, ErrorInv, Handling
<1> QED
  BY <1>1, <1>2 DEF QuietInv

\* accept gives a free number, which no event and no handler has.
LEMMA AcceptQuiet == ASSUME Inv, LiveInv, QuietInv, Accept PROVE QuietInv'
<1>1. NoTimeoutInv' /\ EpollCallsSucceed'
  BY DEF Accept, QuietInv, NoTimeoutInv, EpollCallsSucceed
<1>2. CASE FreeFds = {}
  BY <1>1, <1>2, QuietFrame DEF Accept, FreeFds, io
<1>3. CASE FreeFds # {}
  <2>1. PICK c \in backlog, f \in FreeFds :
             /\ sock' = [sock EXCEPT ![f] = c]
             /\ state_' = [state_ EXCEPT ![c] = "CONNECTED"]
             /\ mainObj' = c /\ pcMain' = "add"
    BY <1>3 DEF Accept
  <2>2. UNCHANGED <<watch, connections_, batch, pc, argFd, obj>>
    BY DEF Accept, io
  <2>3. c \in Client /\ f \in Fd /\ sock[f] = None
    BY DEF FreeFds, Inv, TypeOK, SocketsTypeOK
  <2>4. \A g \in Fd : sock[g] # None => sock'[g] = sock[g]
    BY <2>1, <2>3, QuietTypes
  <2> USE DEF QuietInv
  <2>5. WatchedInv' /\ RemovalInv' /\ ApartInv'
    BY <2>2, <2>4, QuietFacts DEF WatchedInv, RemovalInv, ApartInv
  <2>6. BatchInv'
    BY <2>2, <2>4, QuietTypes DEF BatchInv, Event
  <2>7. HandledInv'
    BY <2>2, <2>4, QuietFacts DEF HandledInv, Handling, HandlerSteps, RemoveSteps, IoSteps
  <2>8. NewInv'
    BY <2>1, <2>3, QuietTypes DEF NewInv
  <2>9. ErrorInv'
    BY <2>1, <2>2, <2>3, <2>4, QuietTypes, QuietFacts DEF ErrorInv
  <2> QED
    BY <1>1, <2>5, <2>6, <2>7, <2>8, <2>9
<1> QED
  BY <1>2, <1>3

\* AddConnection finds no thread at work on the number.
LEMMA AddQuiet == ASSUME Inv, LiveInv, QuietInv, Add PROVE QuietInv'
<1>1. PICK accepted \in BOOLEAN :
         /\ connections_' = IF accepted
                             THEN [connections_ EXCEPT ![mainFd] = mainObj]
                             ELSE connections_
         /\ pcMain' = IF accepted THEN "watch" ELSE "reject1"
         /\ accepted => connections_[mainFd] = None
  BY Zenon DEF Add, AfterAdd, AddConnection
<1>2. /\ UNCHANGED <<watch, sock, batch, pc, argFd, obj, mainObj, mainFd, state_,
                     timedOut, timeout_fds, aborted>>
      /\ pcMain = "add"
  BY DEF Add, kernel, io
<1>3. /\ mainFd \in Fd /\ mainObj \in Client
      /\ watch[mainObj] = None /\ sock[mainFd] = mainObj
  BY <1>2, QuietFacts DEF Inv, MainInv
<1>4. \A f \in Fd : connections_[f] # None => connections_'[f] = connections_[f]
  <2>1. CASE accepted
    BY <1>1, <1>3, <2>1, QuietTypes
  <2>2. CASE ~accepted
    BY <1>1, <2>2
  <2> QED
    BY <2>1, <2>2
<1> USE DEF QuietInv
<1>5. NoTimeoutInv' /\ EpollCallsSucceed' /\ BatchInv' /\ ApartInv' /\ ErrorInv'
  BY <1>2 DEF NoTimeoutInv, EpollCallsSucceed, BatchInv, ApartInv, ErrorInv
<1>6. HandledInv'
  BY <1>2 DEF HandledInv, Handling
<1>7. WatchedInv' /\ RemovalInv'
  BY <1>2, <1>4, QuietFacts DEF WatchedInv, RemovalInv, RemoveSteps
<1>8. NewInv'
  <2>1. CASE accepted
    <3>1. connections_'[mainFd] = mainObj /\ connections_[mainFd] = None
      BY <1>1, <1>3, <2>1, QuietTypes
    <3>2. \A l \in Loop : pc[l] # "dispatch" => argFd[l] # mainFd
      BY <1>3, <3>1, QuietFacts DEF HandledInv, RemovalInv
    <3> QED
      BY <1>2, <1>3, <3>1, <3>2 DEF NewInv
  <2>2. CASE ~accepted
    BY <1>1, <2>2 DEF NewInv
  <2> QED
    BY <2>1, <2>2
<1> QED
  BY <1>5, <1>6, <1>7, <1>8

\* Closing the descriptor of a connection that is not registered changes no
\* registration.
LEMMA CloseKeeps ==
  ASSUME Inv, NEW f \in Fd, CloseFd(f), sock[f] # None => watch[sock[f]] = None
  PROVE  /\ watch' = watch
         /\ \A g \in Fd : sock[g] # None /\ watch[sock[g]] # None => sock'[g] = sock[g]
<1>1. sock' = [sock EXCEPT ![f] = None]
  BY DEF CloseFd, Target
<1>2. watch' = [c \in Client |-> IF c = sock[f] THEN None ELSE watch[c]]
  BY DEF CloseFd, Target
<1>3. watch' = watch
  BY <1>2, QuietTypes, SocketsAssumption
<1> QED
  BY <1>1, <1>3, QuietTypes

\* What is registered stays open, so every event and handler keeps its socket.
LEMMA SocketsQuiet ==
  ASSUME Inv, LiveInv, QuietInv,
         \A g \in Fd : sock[g] # None /\ watch[sock[g]] # None => sock'[g] = sock[g],
         UNCHANGED <<watch, connections_, batch, pc, argFd, obj>>
  PROVE  WatchedInv' /\ BatchInv' /\ HandledInv' /\ RemovalInv' /\ ApartInv'
<1> USE DEF QuietInv
<1>1. WatchedInv' /\ RemovalInv' /\ ApartInv'
  BY QuietFacts DEF WatchedInv, RemovalInv, ApartInv
<1>2. BatchInv'
  BY QuietTypes, QuietFacts DEF BatchInv, Event
<1>3. HandledInv'
  BY QuietFacts DEF HandledInv, Handling, HandlerSteps, RemoveSteps, IoSteps
<1> QED
  BY <1>1, <1>2, <1>3

\* A rejected connection was never registered.
LEMMA RejectQuiet ==
  ASSUME Inv, LiveInv, QuietInv, RejectClose \/ RejectDestroy PROVE QuietInv'
<1>1. CASE RejectClose
  <2>1. /\ UNCHANGED <<connections_, state_, batch, pc, argFd, obj, timedOut,
                       timeout_fds, aborted>>
        /\ pcMain = "reject1" /\ pcMain' = "reject2" /\ CloseFd(mainFd)
    BY <1>1 DEF RejectClose, pool, io
  <2>2. mainFd \in Fd /\ sock[mainFd] = mainObj /\ watch[mainObj] = None
    BY <2>1, QuietFacts DEF Inv, MainInv
  <2>3. /\ watch' = watch
        /\ \A g \in Fd : sock[g] # None /\ watch[sock[g]] # None => sock'[g] = sock[g]
    BY <2>1, <2>2, CloseKeeps
  <2>4. WatchedInv' /\ BatchInv' /\ HandledInv' /\ RemovalInv' /\ ApartInv'
    BY <2>1, <2>3, SocketsQuiet
  <2>5. NoTimeoutInv' /\ EpollCallsSucceed' /\ NewInv'
    BY <2>1 DEF QuietInv, NoTimeoutInv, EpollCallsSucceed, NewInv
  <2>6. ErrorInv'
    BY <2>1, <2>3, QuietFacts DEF QuietInv, ErrorInv
  <2> QED
    BY <2>4, <2>5, <2>6 DEF QuietInv
<1>2. CASE RejectDestroy
  <2>1. /\ UNCHANGED <<connections_, batch, pc, argFd, obj, timedOut,
                       timeout_fds, aborted>>
        /\ pcMain = "reject2" /\ pcMain' = "accept" /\ CloseFd(fd_[mainObj])
        /\ state_' = [state_ EXCEPT ![mainObj] = "CLOSED"]
    BY <1>2 DEF RejectDestroy, MainDone, io
  <2>2. /\ fd_[mainObj] \in Fd /\ sock[fd_[mainObj]] = None
        /\ mainObj \in Client /\ watch[mainObj] = None
    BY <2>1, QuietFacts DEF Inv, MainInv
  <2>3. /\ watch' = watch
        /\ \A g \in Fd : sock[g] # None /\ watch[sock[g]] # None => sock'[g] = sock[g]
    BY <2>1, <2>2, CloseKeeps
  <2>4. WatchedInv' /\ BatchInv' /\ HandledInv' /\ RemovalInv' /\ ApartInv'
    BY <2>1, <2>3, SocketsQuiet
  <2>5. NoTimeoutInv' /\ EpollCallsSucceed' /\ NewInv'
    BY <2>1 DEF QuietInv, NoTimeoutInv, EpollCallsSucceed, NewInv
  <2>6. ErrorInv'
    BY <2>1, <2>2, <2>3, QuietFacts, QuietTypes DEF QuietInv, ErrorInv
  <2> QED
    BY <2>4, <2>5, <2>6 DEF QuietInv
<1> QED
  BY <1>1, <1>2

\* AddFd succeeds: the new connection is open and nobody's yet.
LEMMA WatchQuiet == ASSUME Inv, LiveInv, QuietInv, Watch PROVE QuietInv'
<1> DEFINE k == next_loop_idx_
<1>1. /\ UNCHANGED <<connections_, sock, state_, batch, pc, argFd, obj, timedOut,
                     timeout_fds>>
      /\ pcMain = "watch" /\ pcMain' = "accept" /\ AddFd(k, mainFd)
  BY DEF Watch, MainDone, pool, io
<1>2. /\ mainFd \in Fd /\ mainObj \in Client /\ watch[mainObj] = None
      /\ sock[mainFd] = mainObj /\ connections_[mainFd] = mainObj
      /\ state_[mainObj] # "CLOSED" /\ k \in Loop
      /\ \A l \in Loop : pc[l] # "dispatch" => argFd[l] # mainFd
  BY <1>1, QuietFacts DEF QuietInv, NewInv, Inv, TypeOK
<1>3. watch' = [watch EXCEPT ![mainObj] = k] /\ aborted' = aborted
  BY <1>1, <1>2, QuietFacts DEF AddFd, Unwatched
<1> HIDE DEF k
<1>4. \A c \in Client : c # mainObj => watch'[c] = watch[c]
  BY <1>3, QuietTypes
<1> USE DEF QuietInv
<1>5. NoTimeoutInv' /\ EpollCallsSucceed' /\ ApartInv' /\ NewInv'
  BY <1>1, <1>3 DEF NoTimeoutInv, EpollCallsSucceed, ApartInv, NewInv
<1>6. WatchedInv'
  BY <1>1, <1>2, <1>4 DEF WatchedInv
<1>7. BatchInv'
  BY <1>1, <1>2, <1>4, QuietTypes, QuietFacts DEF BatchInv, Event
<1>8. HandledInv'
  BY <1>1, <1>2, <1>4, QuietTypes, QuietFacts
  DEF HandledInv, Handling, HandlerSteps, RemoveSteps, IoSteps
<1>9. RemovalInv'
  <2> SUFFICES ASSUME NEW l \in Loop, pc[l] \in RemoveSteps
               PROVE  /\ connections_[argFd[l]] # None
                      /\ watch'[connections_[argFd[l]]] = None
    BY <1>1 DEF RemovalInv
  <2>1. /\ argFd[l] \in Fd /\ argFd[l] # mainFd /\ connections_[argFd[l]] # None
        /\ watch[connections_[argFd[l]]] = None
    BY <1>2, QuietFacts DEF RemovalInv, RemoveSteps
  <2>2. connections_[argFd[l]] # mainObj
    BY <1>2, <2>1, QuietFacts DEF Inv, EntryInv
  <2> QED
    BY <1>4, <2>1, <2>2, QuietTypes
<1>10. ErrorInv'
  BY <1>1, <1>2, <1>4 DEF ErrorInv
<1> QED
  BY <1>5, <1>6, <1>7, <1>8, <1>9, <1>10

\* epoll_wait reports one event for each connection of the loop that has one.
LEMMA WaitQuiet == ASSUME Inv, LiveInv, QuietInv, NEW l \in Loop, Wait(l) PROVE QuietInv'
<1>1. PICK writable \in SUBSET Client : batch' = [batch EXCEPT ![l] = Ready(l, writable)]
  BY DEF Wait
<1>2. /\ UNCHANGED <<watch, connections_, sock, pc, argFd, obj, pcMain, mainObj,
                     mainFd, state_, timedOut, timeout_fds, aborted>>
      /\ pc[l] = "dispatch"
  BY DEF Wait, pool, main
<1> USE DEF QuietInv
<1>3. BatchInv'
  <2>1. \A m \in Loop : m # l => batch'[m] = batch[m]
    BY <1>1, QuietTypes
  <2>2. batch'[l] = Ready(l, writable)
    BY <1>1, QuietTypes
  <2>3. \A e \in Ready(l, writable) :
           /\ sock[e.fd] # None /\ watch[sock[e.fd]] = l
           /\ \A d \in Ready(l, writable) : d.fd = e.fd => d = e
    BY DEF Ready, Event
  <2> QED
    BY <1>2, <2>1, <2>2, <2>3 DEF BatchInv
<1>4. NoTimeoutInv' /\ EpollCallsSucceed' /\ WatchedInv' /\ RemovalInv' /\ ApartInv'
  BY <1>2 DEF NoTimeoutInv, EpollCallsSucceed, WatchedInv, RemovalInv, ApartInv
<1>5. HandledInv' /\ NewInv' /\ ErrorInv'
  BY <1>2 DEF HandledInv, NewInv, ErrorInv, Handling
<1> QED
  BY <1>3, <1>4, <1>5

\* An event is of a connection that nobody has in hand, and it is in the pool.
LEMMA DispatchQuiet ==
  ASSUME Inv, LiveInv, QuietInv, NEW l \in Loop, Dispatch(l) PROVE QuietInv'
<1>0. /\ pc \in [Thread -> RemoveSteps \cup IoSteps \cup {"sweep"}]
      /\ argFd \in [Thread -> Fd \cup {None}] /\ obj \in [Thread -> Client \cup {None}]
      /\ batch \in [Loop -> SUBSET Event] /\ l \in Thread /\ l # None
      /\ sock \in [Fd -> Client \cup {None}]
  BY QuietTypes, QuietFacts
<1>1. PICK e \in batch[l] : LET c == connections_[e.fd] IN
          /\ batch' = [batch EXCEPT ![l] = @ \ {e}]
          /\ \/ /\ e.ev = "ERR"
                /\ Goto(l, "del")
                /\ argFd' = [argFd EXCEPT ![l] = e.fd]
                /\ UNCHANGED obj
             \/ /\ e.ev # "ERR" /\ c # None
                /\ Goto(l, IF e.ev = "IN" THEN "recv" ELSE "wsend")
                /\ argFd' = [argFd EXCEPT ![l] = e.fd]
                /\ obj' = [obj EXCEPT ![l] = c]
             \/ /\ e.ev # "ERR" /\ c = None
                /\ UNCHANGED <<pc, argFd, obj>>
  BY DEF Dispatch, GetConnection
<1>2. /\ UNCHANGED <<watch, connections_, sock, pcMain, mainObj, mainFd, state_,
                     timedOut, timeout_fds, aborted>>
      /\ pc[l] = "dispatch"
  BY DEF Dispatch, GetConnection, kernel, main
<1> USE DEF QuietInv
<1>3. /\ e.fd \in Fd /\ sock[e.fd] \in Client /\ watch[sock[e.fd]] = l
      /\ \A d \in batch[l] : d.fd = e.fd => d = e
  BY <1>0 DEF BatchInv, Event
<1>4. connections_[e.fd] = sock[e.fd] /\ sock[e.fd] # None
  BY <1>0, <1>3, QuietFacts, SocketsAssumption
<1>5. /\ argFd' = [argFd EXCEPT ![l] = e.fd]
      /\ \E step \in {"del", "recv", "wsend"} :
            /\ pc' = [pc EXCEPT ![l] = step]
            /\ obj' = IF step = "del" THEN obj ELSE [obj EXCEPT ![l] = sock[e.fd]]
  BY <1>1, <1>4 DEF Goto
<1>6. /\ argFd'[l] = e.fd /\ pc'[l] \in {"del", "recv", "wsend"}
      /\ obj'[l] = IF pc'[l] = "del" THEN obj[l] ELSE sock[e.fd]
      /\ batch'[l] = batch[l] \ {e}
  <2>1. batch' = [batch EXCEPT ![l] = @ \ {e}]
    BY <1>1
  <2> QED
    BY <1>0, <1>5, <2>1
<1>7. /\ \A t \in Thread : t # l =>
             pc'[t] = pc[t] /\ argFd'[t] = argFd[t] /\ obj'[t] = obj[t]
      /\ \A m \in Loop : m # l => batch'[m] = batch[m]
  <2>1. batch' = [batch EXCEPT ![l] = @ \ {e}]
    BY <1>1
  <2> QED
    BY <1>0, <1>5, <2>1
<1>8. \A m \in Loop : m \in Thread
  BY QuietFacts
<1>9. \A m \in Loop : m # l /\ pc[m] # "dispatch" => argFd[m] # e.fd
  BY <1>3, <1>4, QuietFacts DEF HandledInv, RemovalInv
<1>10. NoTimeoutInv'
  BY <1>2, <1>7, QuietFacts DEF NoTimeoutInv, Thread
<1>11. EpollCallsSucceed' /\ WatchedInv'
  BY <1>2 DEF EpollCallsSucceed, WatchedInv
<1>12. BatchInv'
  <2> SUFFICES ASSUME NEW m \in Loop, NEW d \in batch'[m]
               PROVE  /\ sock[d.fd] # None /\ watch[sock[d.fd]] = m
                      /\ \A b \in batch'[m] : b.fd = d.fd => b = d
                      /\ pc'[m] # "dispatch" => argFd'[m] # d.fd
    BY <1>2 DEF BatchInv
  <2>1. CASE m = l
    BY <1>3, <1>6, <2>1 DEF BatchInv
  <2>2. CASE m # l
    BY <1>7, <1>8, <2>2 DEF BatchInv
  <2> QED
    BY <2>1, <2>2
<1>13. HandledInv'
  <2> SUFFICES ASSUME NEW m \in Loop
               PROVE  /\ Handling(m)' => sock[argFd'[m]] # None
                                         /\ watch[sock[argFd'[m]]] = m
                      /\ pc'[m] \in HandlerSteps => obj'[m] = sock[argFd'[m]]
                      /\ pc'[m] = "del" => obj'[m] \in {None, sock[argFd'[m]]}
                      /\ pc'[m] = "dispatch" => obj'[m] = None
    BY <1>2 DEF HandledInv
  <2>1. CASE m = l
    BY <1>2, <1>3, <1>4, <1>6, <2>1 DEF HandledInv, HandlerSteps
  <2>2. CASE m # l
    BY <1>7, <1>8, <2>2 DEF HandledInv, Handling
  <2> QED
    BY <2>1, <2>2
<1>14. RemovalInv'
  BY <1>2, <1>6, <1>7, <1>8 DEF RemovalInv, RemoveSteps
<1>15. ApartInv'
  BY <1>6, <1>7, <1>8, <1>9 DEF ApartInv
<1>16. NewInv'
  BY <1>2, <1>3, <1>6, <1>7, <1>8, QuietFacts DEF NewInv
<1>17. ErrorInv'
  BY <1>2, <1>7, <1>8 DEF ErrorInv
<1> QED
  BY <1>10, <1>11, <1>12, <1>13, <1>14, <1>15, <1>16, <1>17

\* A thread that gives its connection back, or goes on with it.
LEMMA MoveKeeps ==
  ASSUME Inv, LiveInv, QuietInv, NEW l \in Loop, Handling(l),
         NEW step \in IoSteps, GoesOn(l, step),
         step \in HandlerSteps => pc[l] \in HandlerSteps,
         UNCHANGED <<watch, connections_, sock, batch, pcMain, mainObj, mainFd>>
  PROVE  /\ BatchInv' /\ HandledInv' /\ RemovalInv' /\ ApartInv' /\ pc'[Hb] = pc[Hb]
         /\ NewInv' \/ state_' # state_
<1>0. /\ pc \in [Thread -> RemoveSteps \cup IoSteps \cup {"sweep"}]
      /\ argFd \in [Thread -> Fd \cup {None}] /\ obj \in [Thread -> Client \cup {None}]
      /\ \A m \in Loop : m \in Thread /\ m # Hb
      /\ Hb \in Thread
  BY QuietTypes, QuietFacts DEF Thread
<1>1. /\ pc'[l] = step
      /\ step # "dispatch" => argFd'[l] = argFd[l] /\ obj'[l] = obj[l]
      /\ step = "dispatch" => obj'[l] = None
      /\ \A t \in Thread : t # l =>
            pc'[t] = pc[t] /\ argFd'[t] = argFd[t] /\ obj'[t] = obj[t]
  BY <1>0 DEF GoesOn
<1>2. pc[l] \in HandlerSteps \cup {"del"}
  BY <1>0 DEF Handling, HandlerSteps, ThreadInv, Inv
<1> USE DEF QuietInv
<1>3. BatchInv'
  BY <1>0, <1>1, <1>2 DEF BatchInv, HandlerSteps
<1>4. HandledInv'
  <2> SUFFICES ASSUME NEW m \in Loop
               PROVE  /\ Handling(m)' => sock[argFd'[m]] # None
                                         /\ watch[sock[argFd'[m]]] = m
                      /\ pc'[m] \in HandlerSteps => obj'[m] = sock[argFd'[m]]
                      /\ pc'[m] = "del" => obj'[m] \in {None, sock[argFd'[m]]}
                      /\ pc'[m] = "dispatch" => obj'[m] = None
    BY DEF HandledInv
  <2>1. CASE m = l
    BY <1>1, <1>2, <2>1 DEF HandledInv, Handling, HandlerSteps
  <2>2. CASE m # l
    BY <1>0, <1>1, <2>2 DEF HandledInv, Handling
  <2> QED
    BY <2>1, <2>2
<1>5. RemovalInv'
  BY <1>0, <1>1, <1>2 DEF RemovalInv, RemoveSteps, IoSteps
<1>6. ApartInv'
  BY <1>0, <1>1, <1>2 DEF ApartInv, HandlerSteps
<1>7. NewInv' \/ state_' # state_
  BY <1>0, <1>1, <1>2 DEF NewInv, HandlerSteps
<1> QED
  BY <1>0, <1>1, <1>3, <1>4, <1>5, <1>6, <1>7

\* Recv and Send stay with the connection until it is re-armed, given up after a
\* spurious EAGAIN, or on its way to HandleError.
LEMMA MoveQuiet ==
  ASSUME Inv, LiveInv, QuietInv, NEW l \in Loop, HandlerMove(l) PROVE QuietInv'
<1>0. /\ pc \in [Thread -> RemoveSteps \cup IoSteps \cup {"sweep"}]
      /\ state_ \in [Client -> {"CONNECTING", "CONNECTED", "CLOSED"}]
      /\ l \in Thread /\ pc[l] \in HandlerSteps /\ Handling(l)
      /\ \A m \in Loop : m \in Thread
  BY QuietTypes, QuietFacts
  DEF HandlerMove, Handling, HandlerSteps, IoSteps, RemoveSteps
<1>1. /\ UNCHANGED <<watch, connections_, sock, batch, pcMain, mainObj, mainFd,
                     timeout_fds>>
      /\ \A c \in Client : timedOut'[c] => timedOut[c]
      /\ aborted' \in {aborted, "SIGPIPE"}
  BY DEF HandlerMove, main
<1> USE DEF QuietInv
<1>2. EpollCallsSucceed' /\ WatchedInv'
  BY <1>1 DEF EpollCallsSucceed, WatchedInv
<1>3. CASE UNCHANGED <<pc, argFd, obj, state_>>
  <2>1. NoTimeoutInv'
    BY <1>1, <1>3 DEF NoTimeoutInv
  <2> QED
    BY <1>1, <1>2, <1>3, <2>1, QuietFrame
<1>4. ASSUME NEW step \in IoSteps, GoesOn(l, step), UNCHANGED state_ PROVE QuietInv'
  <2>1. /\ BatchInv' /\ HandledInv' /\ RemovalInv' /\ ApartInv' /\ NewInv'
        /\ pc'[Hb] = pc[Hb]
    BY <1>0, <1>1, <1>4, MoveKeeps
  <2>2. NoTimeoutInv'
    BY <1>1, <2>1 DEF NoTimeoutInv
  <2>3. ErrorInv'
    <3>1. \A m \in Loop : pc[m] = "del" =>
             pc'[m] = "del" /\ argFd'[m] = argFd[m]
      BY <1>0, <1>4, QuietTypes DEF GoesOn, HandlerSteps
    <3> QED
      BY <1>1, <1>4, <3>1 DEF ErrorInv
  <2> QED
    BY <1>2, <2>1, <2>2, <2>3
<1>5. CASE GoesOn(l, "del") /\ state_' = [state_ EXCEPT ![obj[l]] = "CLOSED"]
  <2>1. /\ BatchInv' /\ HandledInv' /\ RemovalInv' /\ ApartInv' /\ pc'[Hb] = pc[Hb]
    BY <1>0, <1>1, <1>5, MoveKeeps DEF IoSteps, HandlerSteps
  <2>2. NoTimeoutInv'
    BY <1>1, <2>1 DEF NoTimeoutInv
  <2>3. pc'[l] = "del" /\ UNCHANGED argFd
    BY <1>0, <1>5 DEF GoesOn
  <2>4. ErrorInv'
    <3>1. \A m \in Loop : pc[m] = "del" => pc'[m] = "del"
      BY <1>0, <1>5 DEF GoesOn
    <3>2. obj[l] = sock[argFd[l]]
      BY <1>0 DEF HandledInv
    <3>3. \A c \in Client : c # obj[l] => state_'[c] = state_[c]
      BY <1>0, <1>5
    <3> QED
      BY <1>1, <2>3, <3>1, <3>2, <3>3 DEF ErrorInv
  <2>5. NewInv'
    <3>1. watch[obj[l]] = l /\ l # None
      BY <1>0, QuietFacts DEF HandledInv
    <3>2. pcMain # "accept" => mainObj \in Client /\ mainObj # obj[l]
      BY <3>1, QuietFacts
    <3>3. pcMain # "accept" => state_'[mainObj] = state_[mainObj]
      BY <1>0, <1>5, <3>2
    <3>4. \A m \in Loop : pc'[m] # "dispatch" => pc[m] # "dispatch"
      BY <1>0, <1>5 DEF GoesOn, HandlerSteps
    <3> QED
      BY <1>1, <2>3, <3>3, <3>4 DEF NewInv
  <2> QED
    BY <1>2, <2>1, <2>2, <2>4, <2>5
<1> QED
  BY <1>3, <1>4, <1>5 DEF HandlerMove

\* ModifyFd succeeds: the connection is registered with the thread's own loop.
LEMMA RearmQuiet == ASSUME Inv, LiveInv, QuietInv, NEW l \in Loop, Rearm(l) PROVE QuietInv'
<1>1. /\ UNCHANGED <<watch, connections_, sock, batch, pcMain, mainObj, mainFd, state_,
                     timedOut, timeout_fds>>
      /\ pc[l] = "mod" /\ Return(l)
  BY DEF Rearm, main, io
<1>2. Handling(l) /\ l # Hb /\ l \in Thread
  BY <1>1, QuietFacts DEF Handling, RemoveSteps
<1>3. GoesOn(l, "dispatch")
  BY <1>1, <1>2 DEF Return, Goto, GoesOn
<1>4. aborted' = aborted
  <2>1. Watches(l, argFd[l])
    BY <1>2 DEF QuietInv, HandledInv, Watches
  <2> QED
    BY <2>1 DEF Rearm, ModifyFd
<1>5. /\ BatchInv' /\ HandledInv' /\ RemovalInv' /\ ApartInv' /\ NewInv'
      /\ pc'[Hb] = pc[Hb]
  BY <1>1, <1>2, <1>3, MoveKeeps DEF IoSteps, HandlerSteps
<1>6. \A m \in Loop : pc[m] = "del" => pc'[m] = "del" /\ argFd'[m] = argFd[m]
  BY <1>1, <1>3, QuietTypes, QuietFacts DEF GoesOn
<1>7. NoTimeoutInv' /\ EpollCallsSucceed' /\ WatchedInv' /\ ErrorInv'
  BY <1>1, <1>4, <1>5, <1>6
  DEF QuietInv, NoTimeoutInv, EpollCallsSucceed, WatchedInv, ErrorInv
<1> QED
  BY <1>5, <1>7 DEF QuietInv

\* RemoveFd succeeds, and leaves the connection in the pool to this thread.
LEMMA ErrorQuiet ==
  ASSUME Inv, LiveInv, QuietInv, NEW l \in Loop, HandleError(l) PROVE QuietInv'
<1> DEFINE c == sock[argFd[l]]
<1>1. /\ UNCHANGED <<connections_, sock, batch, pcMain, mainObj, mainFd, state_,
                     timedOut, timeout_fds, argFd, obj>>
      /\ pc[l] = "del" /\ pc' = [pc EXCEPT ![l] = "remove"]
  BY DEF HandleError, main, io, Goto
<1>2. /\ Handling(l) /\ l \in Thread /\ l # Hb /\ l # None /\ argFd[l] \in Fd
      /\ \A m \in Loop : m \in Thread
  BY <1>1, QuietFacts DEF Handling, RemoveSteps
<1>3. c \in Client /\ c # None /\ watch[c] = l /\ connections_[argFd[l]] = c
  BY <1>2, QuietFacts, QuietTypes DEF QuietInv, HandledInv
<1>4. watch' = [watch EXCEPT ![c] = None] /\ aborted' = aborted
  BY <1>3 DEF HandleError, RemoveFd, Watches
<1>5. \A g \in Fd : sock[g] = c => g = argFd[l]
  BY <1>2, <1>3 DEF LiveInv, OpenInv
<1> HIDE DEF c
<1>6. /\ \A d \in Client : d # c => watch'[d] = watch[d]
      /\ \A d \in Client : watch[d] = None => watch'[d] = None
      /\ watch'[c] = None
  BY <1>3, <1>4, QuietTypes
<1>7. /\ pc'[l] = "remove"
      /\ \A t \in Thread : t # l => pc'[t] = pc[t]
  BY <1>1, <1>2, QuietTypes
<1> USE DEF QuietInv
<1>8. NoTimeoutInv' /\ EpollCallsSucceed'
  BY <1>1, <1>2, <1>4, <1>7 DEF NoTimeoutInv, EpollCallsSucceed, Thread
<1>9. WatchedInv'
  BY <1>1, <1>6 DEF WatchedInv
<1>10. BatchInv'
  <2> SUFFICES ASSUME NEW m \in Loop, NEW e \in batch[m]
               PROVE  /\ sock[e.fd] # None /\ watch'[sock[e.fd]] = m
                      /\ \A d \in batch[m] : d.fd = e.fd => d = e
                      /\ pc'[m] # "dispatch" => argFd[m] # e.fd
    BY <1>1 DEF BatchInv
  <2>1. /\ e.fd \in Fd /\ sock[e.fd] \in Client /\ watch[sock[e.fd]] = m
        /\ sock[e.fd] # None
    BY QuietTypes DEF BatchInv, Event
  <2>2. sock[e.fd] # c
    BY <1>1, <1>3, <1>5, <2>1 DEF BatchInv
  <2> QED
    BY <1>1, <1>2, <1>6, <1>7, <2>1, <2>2 DEF BatchInv
<1>11. HandledInv'
  <2> SUFFICES ASSUME NEW m \in Loop, m # l
               PROVE  /\ Handling(m) => sock[argFd[m]] # None
                                        /\ watch'[sock[argFd[m]]] = m
                      /\ pc[m] \in HandlerSteps => obj[m] = sock[argFd[m]]
                      /\ pc[m] = "del" => obj[m] \in {None, sock[argFd[m]]}
                      /\ pc[m] = "dispatch" => obj[m] = None
    BY <1>1, <1>2, <1>7 DEF HandledInv, Handling, HandlerSteps, IoSteps, RemoveSteps
  <2>1. ASSUME Handling(m) PROVE sock[argFd[m]] # None /\ watch'[sock[argFd[m]]] = m
    <3>1. argFd[m] \in Fd /\ sock[argFd[m]] \in Client /\ watch[sock[argFd[m]]] = m
      BY <2>1, QuietFacts, QuietTypes DEF HandledInv, Handling
    <3> QED
      BY <1>3, <1>6, <3>1, SocketsAssumption
  <2> QED
    BY <2>1 DEF HandledInv
<1>12. RemovalInv'
  <2> SUFFICES ASSUME NEW m \in Loop, pc'[m] \in RemoveSteps
               PROVE  /\ connections_[argFd[m]] # None
                      /\ watch'[connections_[argFd[m]]] = None
    BY <1>1 DEF RemovalInv
  <2>1. CASE m = l
    BY <1>3, <1>6, <2>1
  <2>2. CASE m # l
    <3>1. /\ pc[m] \in RemoveSteps /\ argFd[m] \in Fd
          /\ connections_[argFd[m]] # None /\ watch[connections_[argFd[m]]] = None
      BY <1>2, <1>7, <2>2, QuietFacts DEF RemovalInv, RemoveSteps
    <3>2. connections_[argFd[m]] \in Client
      BY <3>1, QuietTypes
    <3> QED
      BY <1>6, <3>1, <3>2
  <2> QED
    BY <2>1, <2>2
<1>13. ApartInv'
  BY <1>1, <1>2, <1>7 DEF ApartInv
<1>14. NewInv'
  BY <1>1, <1>2, <1>6, <1>7, QuietFacts DEF NewInv
<1>15. ErrorInv'
  <2> SUFFICES ASSUME NEW d \in Client, watch'[d] # None, state_[d] = "CLOSED"
               PROVE  \E m \in Loop : pc'[m] = "del" /\ sock[argFd[m]] = d
    BY <1>1 DEF ErrorInv
  <2>1. d # c /\ watch[d] # None
    BY <1>6
  <2>2. PICK m \in Loop : pc[m] = "del" /\ sock[argFd[m]] = d
    BY <2>1 DEF ErrorInv
  <2>3. m # l
    BY <2>1, <2>2 DEF c
  <2> QED
    BY <1>2, <1>7, <2>2, <2>3
<1> QED
  BY <1>8, <1>9, <1>10, <1>11, <1>12, <1>13, <1>14, <1>15

\* RemoveConnection works on a connection that is not registered any more.
LEMMA RemoveQuiet ==
  ASSUME Inv, LiveInv, QuietInv, NEW l \in Loop, RemoveConnection(l),
         UNCHANGED <<main, io>>
  PROVE  QuietInv'
<1>0. /\ pc \in [Thread -> RemoveSteps \cup IoSteps \cup {"sweep"}]
      /\ argFd \in [Thread -> Fd \cup {None}] /\ obj \in [Thread -> Client \cup {None}]
      /\ connections_ \in [Fd -> Client \cup {None}]
      /\ state_ \in [Client -> {"CONNECTING", "CONNECTED", "CLOSED"}]
      /\ l \in Thread /\ l # Hb /\ Hb \in Thread
      /\ \A m \in Loop : m \in Thread
  BY QuietTypes, QuietFacts DEF Thread
<1>1. /\ UNCHANGED <<batch, pcMain, mainObj, mainFd, timedOut, timeout_fds, aborted>>
      /\ pc[l] \in RemoveSteps
  BY DEF RemoveConnection, RemoveFind, RemoveClose, RemoveErase, RemoveSteps, kernel,
         main, io
<1> DEFINE c == connections_[argFd[l]]
<1>2. argFd[l] \in Fd /\ c \in Client /\ c # None /\ watch[c] = None
  BY <1>0, <1>1, QuietFacts DEF QuietInv, RemovalInv, RemoveSteps
<1>3. pcMain = "watch" => argFd[l] # mainFd /\ c # mainObj
  <2>1. pcMain = "watch" => argFd[l] # mainFd /\ connections_[mainFd] = mainObj
    BY <1>1 DEF QuietInv, NewInv, RemoveSteps
  <2> QED
    BY <1>2, <2>1, QuietFacts DEF Inv, EntryInv
<1>4. pcMain = "add" => c # mainObj
  BY <1>2 DEF Inv, MainInv, InPool
<1> USE DEF QuietInv
<1>5. CASE RemoveFind(l)
  <2>1. /\ UNCHANGED <<watch, connections_, sock, argFd>>
        /\ obj' = [obj EXCEPT ![l] = c] /\ state_' = [state_ EXCEPT ![c] = "CLOSED"]
        /\ \E step \in {"erase", "close"} : pc' = [pc EXCEPT ![l] = step]
    BY <1>2, <1>5 DEF RemoveFind, kernel, Goto
  <2> HIDE DEF c
  <2>2. /\ pc'[l] \in {"erase", "close"}
        /\ \A t \in Thread : t # l => pc'[t] = pc[t] /\ obj'[t] = obj[t]
        /\ \A d \in Client : d # c => state_'[d] = state_[d]
    BY <1>0, <1>2, <2>1
  <2>3. NoTimeoutInv' /\ EpollCallsSucceed' /\ WatchedInv'
    BY <1>0, <1>1, <2>1, <2>2 DEF NoTimeoutInv, EpollCallsSucceed, WatchedInv
  <2>4. BatchInv' /\ ApartInv'
    BY <1>0, <1>1, <2>1, <2>2 DEF BatchInv, ApartInv, RemoveSteps
  <2>5. HandledInv'
    BY <1>0, <2>1, <2>2 DEF HandledInv, Handling, HandlerSteps, IoSteps, RemoveSteps
  <2>6. RemovalInv'
    BY <1>0, <1>1, <2>1, <2>2 DEF RemovalInv
  <2>7. NewInv'
    BY <1>0, <1>1, <1>3, <1>4, <2>1, <2>2, QuietFacts DEF NewInv, RemoveSteps
  <2>8. ErrorInv'
    BY <1>0, <1>1, <1>2, <2>1, <2>2 DEF ErrorInv, RemoveSteps
  <2> QED
    BY <2>3, <2>4, <2>5, <2>6, <2>7, <2>8
<1>6. CASE RemoveClose(l)
  <2>1. /\ UNCHANGED <<connections_, state_, argFd, obj>>
        /\ pc[l] = "close" /\ pc' = [pc EXCEPT ![l] = "unset"]
        /\ CloseFd(fd_[obj[l]])
    BY <1>6 DEF RemoveClose, Goto
  <2>2. fd_[obj[l]] = argFd[l] /\ sock[argFd[l]] = c
    BY <1>0, <1>2, <2>1 DEF Inv, HolderInv, EntryInv, Locked
  <2> HIDE DEF c
  <2>3. /\ watch' = watch
        /\ \A g \in Fd : sock[g] # None /\ watch[sock[g]] # None => sock'[g] = sock[g]
    BY <1>2, <2>1, <2>2, CloseKeeps
  <2>4. pc'[l] = "unset" /\ \A t \in Thread : t # l => pc'[t] = pc[t]
    BY <1>0, <2>1
  <2>5. NoTimeoutInv' /\ EpollCallsSucceed'
    BY <1>0, <1>1, <2>4 DEF NoTimeoutInv, EpollCallsSucceed
  <2>6. WatchedInv' /\ RemovalInv' /\ ApartInv'
    BY <1>0, <1>1, <2>1, <2>3, <2>4, QuietFacts
    DEF WatchedInv, RemovalInv, ApartInv, RemoveSteps
  <2>7. BatchInv'
    BY <1>0, <1>1, <2>1, <2>3, <2>4, QuietTypes, QuietFacts DEF BatchInv, Event
  <2>8. HandledInv'
    <3> SUFFICES ASSUME NEW m \in Loop, m # l
                 PROVE  /\ Handling(m) => sock'[argFd[m]] # None
                                          /\ watch[sock'[argFd[m]]] = m
                        /\ pc[m] \in HandlerSteps => obj[m] = sock'[argFd[m]]
                        /\ pc[m] = "del" => obj[m] \in {None, sock'[argFd[m]]}
                        /\ pc[m] = "dispatch" => obj[m] = None
      BY <1>0, <2>1, <2>3, <2>4 DEF HandledInv, Handling, HandlerSteps, IoSteps, RemoveSteps
    <3>1. Handling(m) => sock'[argFd[m]] = sock[argFd[m]]
      BY <2>3, QuietFacts DEF HandledInv, Handling
    <3> QED
      BY <3>1 DEF HandledInv, Handling, HandlerSteps, IoSteps, RemoveSteps
  <2>9. NewInv'
    <3>1. pcMain = "watch" => sock'[mainFd] = sock[mainFd]
      BY <1>2, <1>3, <2>1, <2>2, QuietTypes DEF CloseFd, Target
    <3> QED
      BY <1>0, <1>1, <2>1, <2>3, <2>4, <3>1 DEF NewInv
  <2>10. ErrorInv'
    BY <1>0, <2>1, <2>3, <2>4, QuietFacts DEF ErrorInv
  <2> QED
    BY <2>5, <2>6, <2>7, <2>8, <2>9, <2>10
<1>7. CASE RemoveErase(l)
  <2>1. /\ UNCHANGED <<watch, sock, state_>>
        /\ pc' = [pc EXCEPT ![l] = "dispatch"]
        /\ argFd' = [argFd EXCEPT ![l] = None] /\ obj' = [obj EXCEPT ![l] = None]
        /\ connections_' = [connections_ EXCEPT ![argFd[l]] = None]
    BY <1>0, <1>7 DEF RemoveErase, Return, Goto, kernel
  <2>2. /\ pc'[l] = "dispatch" /\ obj'[l] = None
        /\ \A t \in Thread : t # l =>
              pc'[t] = pc[t] /\ argFd'[t] = argFd[t] /\ obj'[t] = obj[t]
        /\ \A f \in Fd : f # argFd[l] => connections_'[f] = connections_[f]
    BY <1>0, <1>2, <2>1
  <2>3. NoTimeoutInv' /\ EpollCallsSucceed'
    BY <1>0, <1>1, <2>2 DEF NoTimeoutInv, EpollCallsSucceed
  <2>4. WatchedInv'
    BY <1>2, <2>1, <2>2 DEF WatchedInv
  <2>5. BatchInv' /\ ApartInv'
    BY <1>0, <1>1, <2>1, <2>2 DEF BatchInv, ApartInv
  <2>6. HandledInv'
    BY <1>0, <2>1, <2>2 DEF HandledInv, Handling, HandlerSteps
  <2>7. RemovalInv'
    BY <1>0, <1>1, <2>1, <2>2, QuietFacts DEF RemovalInv, ApartInv, RemoveSteps
  <2>8. NewInv'
    BY <1>0, <1>1, <1>3, <2>1, <2>2, QuietFacts DEF NewInv
  <2>9. ErrorInv'
    BY <1>0, <1>1, <2>1, <2>2 DEF ErrorInv, RemoveSteps
  <2> QED
    BY <2>3, <2>4, <2>5, <2>6, <2>7, <2>8, <2>9
<1> QED
  BY <1>5, <1>6, <1>7 DEF RemoveConnection

\* The heartbeat finds nothing, and the peers do not concern the threads.
LEMMA OthersQuiet ==
  ASSUME Inv, QuietInv, ~Timeouts,
         HeartbeatThread \/ Terminated \/ UNCHANGED vars
            \/ \E c \in Client : Peer(c) \/ Clock(c)
  PROVE  QuietInv'
<1>1. pc[Hb] = "sweep" /\ timeout_fds = {} /\ \A c \in Client : ~timedOut[c]
  BY DEF QuietInv, NoTimeoutInv
<1>2. CASE HeartbeatThread
  <2>1. HeartbeatScan /\ UNCHANGED <<main, io>>
    BY <1>1, <1>2
    DEF HeartbeatThread, Heartbeat, HeartbeatRemove, RemoveConnection, RemoveFind,
        RemoveClose, RemoveErase
  <2>2. timeout_fds' = {}
    BY <1>1, <2>1, QuietTypes DEF HeartbeatScan
  <2>3. UNCHANGED <<kernel, connections_, state_, timedOut, pc, argFd, obj, main, io>>
    BY <2>1 DEF HeartbeatScan
  <2>4. NoTimeoutInv' /\ EpollCallsSucceed'
    BY <1>1, <2>2, <2>3 DEF NoTimeoutInv, EpollCallsSucceed, QuietInv, kernel
  <2> QED
    BY <2>3, <2>4, QuietFrame DEF kernel, main, io
<1>3. CASE Terminated \/ UNCHANGED vars
  <2>1. NoTimeoutInv' /\ EpollCallsSucceed'
    BY <1>3
    DEF Terminated, vars, pool, kernel, NoTimeoutInv, EpollCallsSucceed, QuietInv
  <2> QED
    BY <1>3, <2>1, QuietFrame DEF Terminated, vars, pool, kernel, main, io
<1>4. ASSUME NEW c \in Client, Peer(c) PROVE QuietInv'
  <2>1. UNCHANGED <<watch, sock, aborted, pool, main, io>>
    BY <1>4 DEF Peer, PeerConnect, PeerSend, PeerClose, PeerReset
  <2>2. NoTimeoutInv' /\ EpollCallsSucceed'
    BY <2>1 DEF NoTimeoutInv, EpollCallsSucceed, QuietInv, pool
  <2> QED
    BY <2>1, <2>2, QuietFrame DEF pool, main, io
<1> QED
  BY <1>2, <1>3, <1>4 DEF Clock

\* Every step keeps QuietInv.
LEMMA NextQuiet ==
  ASSUME ~Timeouts PROVE Inv /\ LiveInv /\ QuietInv /\ [Next]_vars => QuietInv'
<1> SUFFICES ASSUME Inv, LiveInv, QuietInv, [Next]_vars PROVE QuietInv'
  OBVIOUS
<1>1. CASE Main
  BY <1>1, AcceptQuiet, AddQuiet, RejectQuiet, WatchQuiet DEF Main
<1>2. ASSUME NEW l \in Loop, IoThread(l) PROVE QuietInv'
  BY <1>2, IoCases, WaitQuiet, DispatchQuiet, HandlerMoves, MoveQuiet, RearmQuiet,
     ErrorQuiet, RemoveQuiet
<1> QED
  BY <1>1, <1>2, OthersQuiet DEF Next

\* QuietInv holds of every state of a server without timeouts.
LEMMA QuietInvariance == ASSUME ~Timeouts PROVE Spec => []QuietInv
  BY InitQuiet, NextQuiet, Invariance, LiveInvariance, PTL DEF Spec

-----------------------------------------------------------------------------
(* And none falls out of all hands. *)

\* A registration that has fired has an event or a handler.
FiredInv ==
    \A c \in Client, l \in Loop : watch[c] = l /\ armed[c] = {} =>
        \/ \E e \in batch[l] : sock[e.fd] = c
        \/ Handling(l) /\ sock[argFd[l]] = c

\* Steps that report no event and take none: a handler that stops has armed or
\* removed what it handled.
FiredFrame ==
    /\ batch' = batch
    /\ \A c \in Client : watch'[c] # None /\ armed'[c] = {} =>
          watch[c] = watch'[c] /\ armed[c] = {}
    /\ \A g \in Fd : sock[g] # None /\ watch[sock[g]] # None => sock'[g] = sock[g]
    /\ \A l \in Loop : Handling(l) =>
          \/ Handling(l)' /\ argFd'[l] = argFd[l]
          \/ watch'[sock[argFd[l]]] # l
          \/ armed'[sock[argFd[l]]] # {}

\* Such a step keeps FiredInv.
LEMMA FiredFrames ==
  ASSUME Inv, LiveInv, QuietInv, FiredInv, FiredFrame PROVE FiredInv'
<1> SUFFICES ASSUME NEW c \in Client, NEW l \in Loop, watch'[c] = l, armed'[c] = {}
             PROVE  \/ \E e \in batch'[l] : sock'[e.fd] = c
                    \/ Handling(l)' /\ sock'[argFd'[l]] = c
  BY DEF FiredInv
<1>1. watch[c] = l /\ armed[c] = {} /\ l # None /\ c # None
  BY QuietFacts DEF FiredFrame
<1>2. CASE \E e \in batch[l] : sock[e.fd] = c
  <2>1. PICK e \in batch[l] : sock[e.fd] = c
    BY <1>2
  <2>2. e.fd \in Fd
    BY QuietTypes DEF Event
  <2> QED
    BY <1>1, <2>1, <2>2 DEF FiredFrame
<1>3. CASE Handling(l) /\ sock[argFd[l]] = c
  <2>1. argFd[l] \in Fd
    BY <1>3, QuietFacts DEF Handling
  <2> QED
    BY <1>1, <1>3, <2>1 DEF FiredFrame
<1> QED
  BY <1>1, <1>2, <1>3 DEF FiredInv

\* HandleAccept concerns no connection that is registered.
LEMMA MainFired == ASSUME Inv, LiveInv, QuietInv, FiredInv, Main PROVE FiredInv'
<1>0. /\ sock \in [Fd -> Client \cup {None}] /\ watch \in [Client -> Loop \cup {None}]
      /\ armed \in [Client -> SUBSET {"IN", "OUT"}]
  BY DEF Inv, TypeOK, SocketsTypeOK
<1>1. CASE Accept
  <2>1. /\ UNCHANGED <<batch, watch, armed, pc, argFd>>
        /\ \A g \in Fd : sock[g] # None => sock'[g] = sock[g]
    BY <1>0, <1>1 DEF Accept, FreeFds, io
  <2>2. FiredFrame
    BY <2>1 DEF FiredFrame, Handling
  <2> QED
    BY <2>2, FiredFrames
<1>2. CASE Add
  <2>1. FiredFrame
    BY <1>2 DEF Add, FiredFrame, Handling, kernel, io
  <2> QED
    BY <2>1, FiredFrames
<1>3. CASE RejectClose \/ RejectDestroy
  <2>1. PICK f \in Fd : CloseFd(f) /\ (sock[f] # None => watch[sock[f]] = None)
    BY <1>3, QuietFacts DEF RejectClose, RejectDestroy, Inv, MainInv
  <2>2. UNCHANGED <<batch, pc, argFd>>
    BY <1>3 DEF RejectClose, RejectDestroy, pool, io
  <2>3. /\ watch' = watch
        /\ \A g \in Fd : sock[g] # None /\ watch[sock[g]] # None => sock'[g] = sock[g]
    BY <2>1, CloseKeeps
  <2>4. \A c \in Client : watch[c] # None => armed'[c] = armed[c]
    BY <2>1, QuietFacts DEF CloseFd, Target
  <2>5. FiredFrame
    BY <2>2, <2>3, <2>4 DEF FiredFrame, Handling
  <2> QED
    BY <2>5, FiredFrames
<1>4. CASE Watch
  <2>1. /\ UNCHANGED <<sock, batch, pc, argFd>>
        /\ AddFd(next_loop_idx_, mainFd)
    BY <1>4 DEF Watch, pool, io
  <2>2. Unwatched(mainFd) /\ mainFd \in Fd /\ sock[mainFd] \in Client
    BY <1>4, QuietFacts DEF QuietInv, NewInv, Watch, Unwatched
  <2>3. /\ watch' = [watch EXCEPT ![sock[mainFd]] = next_loop_idx_]
        /\ armed' = [armed EXCEPT ![sock[mainFd]] = {"IN", "OUT"}]
    BY <2>1, <2>2 DEF AddFd
  <2>4. FiredFrame
    BY <1>0, <2>1, <2>2, <2>3 DEF FiredFrame, Handling
  <2> QED
    BY <2>4, FiredFrames
<1> QED
  BY <1>1, <1>2, <1>3, <1>4 DEF Main

\* What epoll_wait disarms is in its result, and what was disarmed before has
\* been dealt with: epoll_wait is called when no event and no handler is left.
LEMMA WaitFired ==
  ASSUME Inv, LiveInv, QuietInv, FiredInv, NEW l \in Loop, Wait(l) PROVE FiredInv'
<1>1. PICK writable \in SUBSET Client :
         /\ batch' = [batch EXCEPT ![l] = Ready(l, writable)]
         /\ armed' = [c \in Client |->
               IF \E e \in Ready(l, writable) : sock[e.fd] = c THEN {} ELSE armed[c]]
  BY DEF Wait
<1>2. /\ UNCHANGED <<watch, sock, pc, argFd>>
      /\ pc[l] = "dispatch" /\ batch[l] = {}
  BY DEF Wait, pool
<1>3. /\ batch'[l] = Ready(l, writable)
      /\ \A m \in Loop : m # l => batch'[m] = batch[m]
  BY <1>1, QuietTypes
<1>4. \A e \in Ready(l, writable) : watch[sock[e.fd]] = l
  BY DEF Ready
<1> SUFFICES ASSUME NEW c \in Client, NEW m \in Loop, watch[c] = m, armed'[c] = {}
             PROVE  \/ \E e \in batch'[m] : sock[e.fd] = c
                    \/ Handling(m) /\ sock[argFd[m]] = c
  BY <1>2 DEF FiredInv, Handling
<1>5. CASE m = l
  BY <1>1, <1>2, <1>3, <1>5 DEF FiredInv, Handling
<1>6. CASE m # l
  <2>1. armed[c] = {}
    BY <1>1, <1>4, <1>6
  <2> QED
    BY <1>3, <1>6, <2>1 DEF FiredInv
<1> QED
  BY <1>5, <1>6

\* An event that leaves the batch gets a handler: its connection is in the pool.
LEMMA DispatchFired ==
  ASSUME Inv, LiveInv, QuietInv, FiredInv, NEW l \in Loop, Dispatch(l) PROVE FiredInv'
<1>0. /\ pc \in [Thread -> RemoveSteps \cup IoSteps \cup {"sweep"}]
      /\ argFd \in [Thread -> Fd \cup {None}]
      /\ batch \in [Loop -> SUBSET Event] /\ \A m \in Loop : m \in Thread
  BY QuietTypes, QuietFacts
<1>1. PICK e \in batch[l] :
          /\ batch' = [batch EXCEPT ![l] = @ \ {e}]
          /\ \/ \E step \in {"del", "recv", "wsend"} : Goto(l, step)
                /\ argFd' = [argFd EXCEPT ![l] = e.fd]
             \/ connections_[e.fd] = None
  BY DEF Dispatch, GetConnection
<1>2. UNCHANGED <<watch, armed, sock>> /\ pc[l] = "dispatch"
  BY DEF Dispatch, GetConnection, kernel
<1>3. connections_[e.fd] # None
  <2>1. e.fd \in Fd /\ sock[e.fd] # None /\ watch[sock[e.fd]] = l /\ l # None
    BY <1>0, QuietFacts DEF QuietInv, BatchInv, Event
  <2> QED
    BY <2>1, QuietFacts
<1>4. /\ Handling(l)' /\ argFd'[l] = e.fd
      /\ \A m \in Loop : m # l => pc'[m] = pc[m] /\ argFd'[m] = argFd[m]
  BY <1>0, <1>1, <1>3 DEF Goto, Handling, RemoveSteps
<1>5. /\ batch'[l] = batch[l] \ {e}
      /\ \A m \in Loop : m # l => batch'[m] = batch[m]
  BY <1>0, <1>1
<1> SUFFICES ASSUME NEW c \in Client, NEW m \in Loop, watch[c] = m, armed[c] = {}
             PROVE  \/ \E d \in batch'[m] : sock[d.fd] = c
                    \/ Handling(m)' /\ sock[argFd'[m]] = c
  BY <1>2 DEF FiredInv
<1>6. CASE m = l
  BY <1>2, <1>4, <1>5, <1>6 DEF FiredInv, Handling
<1>7. CASE m # l
  BY <1>4, <1>5, <1>7 DEF FiredInv, Handling
<1> QED
  BY <1>6, <1>7

\* A handler keeps its connection: without a spurious EAGAIN it never returns from
\* Send before it has armed the registration.
LEMMA MoveFired ==
  ASSUME Inv, LiveInv, QuietInv, FiredInv, ~SpuriousWritable, NEW l \in Loop,
         HandlerMove(l)
  PROVE  FiredInv'
<1>0. /\ pc \in [Thread -> RemoveSteps \cup IoSteps \cup {"sweep"}]
      /\ \A m \in Loop : m \in Thread /\ m # None
      /\ pc[l] \in HandlerSteps /\ Handling(l)
  BY QuietTypes, QuietFacts
  DEF HandlerMove, Handling, HandlerSteps, IoSteps, RemoveSteps
<1>1. UNCHANGED <<watch, armed, sock, batch>>
  BY DEF HandlerMove
<1>2. state_[obj[l]] # "CLOSED"
  <2>1. obj[l] = sock[argFd[l]] /\ obj[l] \in Client /\ watch[obj[l]] = l
    BY <1>0 DEF QuietInv, HandledInv, LiveInv, LookedUpInv
  <2>2. ASSUME state_[obj[l]] = "CLOSED" PROVE FALSE
    <3>1. PICK m \in Loop : pc[m] = "del" /\ sock[argFd[m]] = obj[l]
      BY <1>0, <2>1, <2>2 DEF QuietInv, ErrorInv
    <3>2. watch[obj[l]] = m
      BY <3>1 DEF QuietInv, HandledInv, Handling, RemoveSteps
    <3> QED
      BY <1>0, <2>1, <3>1, <3>2 DEF HandlerSteps
  <2> QED
    BY <2>2
<1>3. \/ UNCHANGED <<pc, argFd>>
      \/ \E step \in IoSteps : step # "dispatch" /\ GoesOn(l, step)
  BY <1>2 DEF HandlerMove, IoSteps
<1>4. \A m \in Loop : Handling(m) => Handling(m)' /\ argFd'[m] = argFd[m]
  <2>1. CASE UNCHANGED <<pc, argFd>>
    BY <2>1 DEF Handling
  <2>2. CASE \E step \in IoSteps : step # "dispatch" /\ GoesOn(l, step)
    BY <1>0, <2>2 DEF Handling, GoesOn, IoSteps, RemoveSteps
  <2> QED
    BY <1>3, <2>1, <2>2
<1>5. FiredFrame
  BY <1>1, <1>4 DEF FiredFrame
<1> QED
  BY <1>5, FiredFrames

\* Re-arming and removing are how a handler ends.
LEMMA EndFired ==
  ASSUME Inv, LiveInv, QuietInv, FiredInv, NEW l \in Loop, Rearm(l) \/ HandleError(l)
  PROVE  FiredInv'
<1>0. /\ pc \in [Thread -> RemoveSteps \cup IoSteps \cup {"sweep"}]
      /\ argFd \in [Thread -> Fd \cup {None}]
      /\ watch \in [Client -> Loop \cup {None}]
      /\ armed \in [Client -> SUBSET {"IN", "OUT"}]
      /\ l \in Thread /\ \A m \in Loop : m \in Thread /\ m # None
  BY QuietTypes, QuietFacts DEF Inv, TypeOK, SocketsTypeOK
<1>1. /\ UNCHANGED <<sock, batch>>
      /\ \A m \in Loop : m # l => pc'[m] = pc[m] /\ argFd'[m] = argFd[m]
      /\ Handling(l)
  BY <1>0 DEF Rearm, HandleError, Return, Goto, io, Handling, RemoveSteps
<1> DEFINE c == sock[argFd[l]]
<1>2. Watches(l, argFd[l]) /\ c \in Client /\ watch[c] = l
  BY <1>1, QuietTypes, QuietFacts DEF QuietInv, HandledInv, Watches, Handling
<1>3. CASE Rearm(l)
  <2>1. PICK events : events # {} /\ armed' = [armed EXCEPT ![c] = events]
    BY <1>2, <1>3 DEF Rearm, ModifyFd
  <2>2. watch' = watch
    BY <1>3 DEF Rearm
  <2> HIDE DEF c
  <2>3. armed'[c] # {} /\ \A d \in Client : d # c => armed'[d] = armed[d]
    BY <1>0, <1>2, <2>1
  <2>4. FiredFrame
    BY <1>1, <2>2, <2>3 DEF FiredFrame, Handling, c
  <2> QED
    BY <2>4, FiredFrames
<1>4. CASE HandleError(l)
  <2>1. /\ watch' = [watch EXCEPT ![c] = None]
        /\ armed' = [armed EXCEPT ![c] = {}]
    BY <1>2, <1>4 DEF HandleError, RemoveFd
  <2> HIDE DEF c
  <2>2. /\ watch'[c] = None
        /\ \A d \in Client : d # c => watch'[d] = watch[d] /\ armed'[d] = armed[d]
    BY <1>0, <1>2, <2>1
  <2>3. FiredFrame
    BY <1>0, <1>1, <2>2 DEF FiredFrame, Handling, c
  <2> QED
    BY <2>3, FiredFrames
<1> QED
  BY <1>3, <1>4

\* RemoveConnection closes what is not registered.
LEMMA RemoveFired ==
  ASSUME Inv, LiveInv, QuietInv, FiredInv, NEW l \in Loop, RemoveConnection(l),
         UNCHANGED <<main, io>>
  PROVE  FiredInv'
<1>0. /\ pc \in [Thread -> RemoveSteps \cup IoSteps \cup {"sweep"}]
      /\ argFd \in [Thread -> Fd \cup {None}]
      /\ l \in Thread /\ \A m \in Loop : m \in Thread
  BY QuietTypes, QuietFacts
<1>1. /\ batch' = batch
      /\ \A m \in Loop : m # l => pc'[m] = pc[m] /\ argFd'[m] = argFd[m]
      /\ pc[l] \in RemoveSteps
  BY <1>0
  DEF RemoveConnection, RemoveFind, RemoveClose, RemoveErase, Return, Goto, io, RemoveSteps
<1>2. CASE RemoveFind(l) \/ RemoveErase(l)
  <2>1. UNCHANGED <<watch, armed, sock>>
    BY <1>2 DEF RemoveFind, RemoveErase, kernel
  <2>2. FiredFrame
    BY <1>1, <2>1 DEF FiredFrame, Handling
  <2> QED
    BY <2>2, FiredFrames
<1>3. CASE RemoveClose(l)
  <2>1. CloseFd(fd_[obj[l]]) /\ pc[l] = "close"
    BY <1>3 DEF RemoveClose
  <2>2. /\ fd_[obj[l]] \in Fd /\ sock[fd_[obj[l]]] # None
        /\ watch[sock[fd_[obj[l]]]] = None
    <3>1. /\ argFd[l] \in Fd /\ connections_[argFd[l]] = obj[l]
          /\ sock[argFd[l]] = obj[l] /\ obj[l] \in Client
      BY <1>0, <2>1 DEF Inv, ThreadInv, HolderInv, Locked
    <3>2. watch[obj[l]] = None /\ fd_[obj[l]] = argFd[l] /\ obj[l] # None
      BY <1>1, <3>1, SocketsAssumption DEF QuietInv, RemovalInv, LiveInv, OpenInv
    <3> QED
      BY <3>1, <3>2
  <2>3. /\ watch' = watch
        /\ \A g \in Fd : sock[g] # None /\ watch[sock[g]] # None => sock'[g] = sock[g]
    BY <2>1, <2>2, CloseKeeps
  <2>4. \A c \in Client : watch[c] # None => armed'[c] = armed[c]
    BY <2>1, <2>2 DEF CloseFd, Target
  <2>5. FiredFrame
    BY <1>1, <2>3, <2>4 DEF FiredFrame, Handling
  <2> QED
    BY <2>5, FiredFrames
<1> QED
  BY <1>2, <1>3 DEF RemoveConnection

\* Neither the heartbeat nor the peers touch a registration.
LEMMA OthersFired ==
  ASSUME Inv, LiveInv, QuietInv, FiredInv, ~Timeouts,
         HeartbeatThread \/ Terminated \/ UNCHANGED vars
            \/ \E c \in Client : Peer(c) \/ Clock(c)
  PROVE  FiredInv'
<1>1. UNCHANGED <<watch, armed, sock, batch, pc, argFd>>
  <2>1. pc[Hb] = "sweep" /\ timeout_fds = {}
    BY DEF QuietInv, NoTimeoutInv
  <2>2. CASE HeartbeatThread
    BY <2>1, <2>2
    DEF HeartbeatThread, Heartbeat, HeartbeatScan, HeartbeatRemove, RemoveConnection,
        RemoveFind, RemoveClose, RemoveErase, kernel, io
  <2>3. CASE Terminated \/ UNCHANGED vars
    BY <2>3 DEF Terminated, vars, kernel, pool, io
  <2>4. ASSUME NEW c \in Client, Peer(c)
        PROVE  UNCHANGED <<watch, armed, sock, batch, pc, argFd>>
    BY <2>4 DEF Peer, PeerConnect, PeerSend, PeerClose, PeerReset, pool, io
  <2> QED
    BY <2>2, <2>3, <2>4 DEF Clock
<1>2. FiredFrame
  BY <1>1 DEF FiredFrame, Handling
<1> QED
  BY <1>2, FiredFrames

\* Every step keeps FiredInv.
LEMMA NextFired ==
  ASSUME ~Timeouts, ~SpuriousWritable
  PROVE  Inv /\ LiveInv /\ QuietInv /\ FiredInv /\ [Next]_vars => FiredInv'
<1> SUFFICES ASSUME Inv, LiveInv, QuietInv, FiredInv, [Next]_vars PROVE FiredInv'
  OBVIOUS
<1>1. ASSUME NEW l \in Loop, IoThread(l) PROVE FiredInv'
  BY <1>1, IoCases, WaitFired, DispatchFired, HandlerMoves, MoveFired, EndFired,
     RemoveFired
<1> QED
  BY <1>1, MainFired, OthersFired DEF Next

-----------------------------------------------------------------------------

\* As long as no connection times out, epoll_ctl never fails and no exception of
\* the wrapper ends the process.
THEOREM EpollCallsAlwaysSucceed ==
  ASSUME ~Timeouts PROVE Spec => []EpollCallsSucceed
<1>1. QuietInv => EpollCallsSucceed
  BY DEF QuietInv
<1> QED
  BY QuietInvariance, <1>1, PTL

\* As long as no connection times out, the registrations are those of pooled
\* connections.
THEOREM RegisteredAlwaysInPool ==
  ASSUME ~Timeouts PROVE Spec => []RegisteredInPool
<1>1. QuietInv => RegisteredInPool
  BY DEF QuietInv, WatchedInv, RegisteredInPool, InPool
<1> QED
  BY QuietInvariance, <1>1, PTL

\* As long as no connection times out, no two handlers work on one connection,
\* so its unlocked buffers are safe.
THEOREM AlwaysOneHandler ==
  ASSUME ~Timeouts PROVE Spec => []OneHandlerPerConnection
<1>1. Inv /\ QuietInv => OneHandlerPerConnection
  <2> SUFFICES ASSUME QuietInv, Inv, NEW l \in Loop, NEW m \in Loop, l # m,
                      Handling(l), Handling(m), obj[l] # None, obj[l] = obj[m]
               PROVE  FALSE
    BY DEF OneHandlerPerConnection
  <2>1. \A k \in Loop : Handling(k) /\ obj[k] # None => watch[obj[k]] = k
    <3> SUFFICES ASSUME NEW k \in Loop, Handling(k), obj[k] # None
                 PROVE  watch[obj[k]] = k
      OBVIOUS
    <3>1. pc[k] \in HandlerSteps \cup {"del"}
      BY QuietTypes DEF Inv, ThreadInv, Handling, HandlerSteps, Thread
    <3> QED
      BY <3>1 DEF QuietInv, HandledInv
  <2> QED
    BY <2>1
<1> QED
  BY QuietInvariance, Invariance, <1>1, PTL

\* As long as no connection times out, recv and send reach the socket of the
\* connection that was looked up.
THEOREM HandlerAlwaysUsesOwnSocket ==
  ASSUME ~Timeouts PROVE Spec => []HandlerUsesOwnSocket
<1>1. Inv /\ QuietInv => HandlerUsesOwnSocket
  <2> SUFFICES ASSUME Inv, QuietInv, NEW l \in Loop,
                      pc[l] \in {"recvcall", "rsendcall", "wsendcall"}
               PROVE  Target(argFd[l]) = obj[l]
    BY DEF HandlerUsesOwnSocket
  <2>1. argFd[l] \in Fd /\ obj[l] = sock[argFd[l]]
    BY DEF Inv, ThreadInv, Thread, QuietInv, HandledInv, HandlerSteps, IoSteps
  <2> QED
    BY <2>1 DEF Target
<1> QED
  BY QuietInvariance, Invariance, <1>1, PTL

\* As long as no connection times out and a socket reported writable takes a
\* byte, a one-shot registration that has fired is always on its way to being
\* armed again or removed.
THEOREM FiredAlwaysOwned ==
  ASSUME ~Timeouts, ~SpuriousWritable PROVE Spec => []FiredIsOwned
<1>1. Init => FiredInv
  BY SocketsAssumption DEF Init, SocketsInit, FiredInv
<1>2. FiredInv => FiredIsOwned
  BY DEF FiredInv, FiredIsOwned
<1> QED
  BY <1>1, <1>2, NextFired, QuietInvariance, LiveInvariance, Invariance, PTL DEF Spec

=============================================================================
