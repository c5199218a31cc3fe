------------------------------- MODULE Reactor -------------------------------
(***************************************************************************)
(* The main reactor (Server::HandleAccept on the main thread), the IO      *)
(* reactors (EventLoop::Loop on one thread each) and the heartbeat thread, *)
(* sharing the connection pool and the descriptor table.                   *)
(*                                                                         *)
(* An IO thread looks a connection up under the pool's lock and then works *)
(* on the object and on its descriptor without one.  Its steps are the     *)
(* reads of state_ and the system calls, so that every other thread can    *)
(* run between any two of them.  The buffers of a connection are reduced   *)
(* to whether they are empty; module EchoStream keeps their contents.      *)
(***************************************************************************)
EXTENDS ConnectionPool

CONSTANTS
    Timeouts,       \* may a connection stay idle past heartbeat_timeout_ms_?
    SendMayBlock,   \* may send() take fewer bytes than it was given?
    SpuriousWritable    \* may it take none of them, with EAGAIN, although
                        \* epoll reported the socket writable (the kernel is
                        \* short of socket memory)?

ASSUME ReactorAssumption ==
    /\ Timeouts \in BOOLEAN
    /\ SendMayBlock \in BOOLEAN
    /\ SpuriousWritable \in BOOLEAN

VARIABLES
    batch,          \* the events of a loop's epoll_wait not yet handled
    rbuf,           \* read_idx_ > 0
    pend,           \* write_idx_ > 0, which is HasPendingData()
    pcMain,         \* where HandleAccept is
    mainObj,        \* its conn
    mainFd,         \* its client_fd
    next_loop_idx_

main == <<pcMain, mainObj, mainFd, next_loop_idx_>>
io == <<batch, rbuf, pend>>
vars == <<kernel, pool, main, io>>

IoSteps == {"dispatch", "recv", "recvcall", "echo", "rsend", "rsendcall",
            "wsend", "wsendcall", "mod", "del"}

Event == [fd : Fd, ev : {"ERR", "IN", "OUT"}]

\* Every variable has its type.
TypeOK ==
    /\ SocketsTypeOK
    /\ PoolTypeOK(IoSteps \cup {"sweep"})
    /\ batch \in [Loop -> SUBSET Event]
    /\ rbuf \in [Client -> BOOLEAN] /\ pend \in [Client -> BOOLEAN]
    /\ pcMain \in {"accept", "add", "reject1", "reject2", "watch"}
    /\ mainObj \in Client \cup {None}
    /\ mainFd \in Fd \cup {None}
    /\ next_loop_idx_ \in Loop

Init ==
    /\ SocketsInit
    /\ PoolInit
    /\ batch = [l \in Loop |-> {}]
    /\ rbuf = [c \in Client |-> FALSE] /\ pend = [c \in Client |-> FALSE]
    /\ pcMain = "accept" /\ mainObj = None /\ mainFd = None
    /\ next_loop_idx_ = 0

-----------------------------------------------------------------------------
(* Server::HandleAccept.  The listening socket is edge-triggered and the   *)
(* loop accepts until EAGAIN, so main accepts whenever the backlog is not  *)
(* empty.                                                                  *)

\* accept and the Connection object.  With no descriptor left accept fails
\* with EMFILE and Socket::CheckError throws.
Accept ==
    /\ pcMain = "accept" /\ backlog # {}
    /\ \/ \E c \in backlog, f \in FreeFds :
             /\ backlog' = backlog \ {c}
             /\ sock' = [sock EXCEPT ![f] = c]
             /\ fd_' = [fd_ EXCEPT ![c] = f]
             /\ state_' = [state_ EXCEPT ![c] = "CONNECTED"]
             /\ mainObj' = c /\ mainFd' = f /\ pcMain' = "add"
             /\ UNCHANGED aborted
       \/ /\ FreeFds = {}
          /\ aborted' = "accept"
          /\ UNCHANGED <<backlog, sock, fd_, state_, mainObj, mainFd, pcMain>>
    /\ UNCHANGED <<peer, inq, watch, armed, connections_, mutex_, timedOut,
                   timeout_fds, pc, argFd, obj, next_loop_idx_, io>>

\* Mutant: the result of AddConnection is ignored.
AfterAddIgnored(accepted) == "watch"

AfterAdd(accepted) == IF accepted THEN "watch" ELSE "reject1"

\* AddConnection before the descriptor is watched.
Add ==
    /\ pcMain = "add"
    /\ \E accepted \in BOOLEAN :
          /\ AddConnection(mainObj, mainFd, accepted)
          /\ pcMain' = AfterAdd(accepted)
    /\ UNCHANGED <<kernel, mutex_, state_, fd_, timedOut, timeout_fds, pc,
                   argFd, obj, mainObj, mainFd, next_loop_idx_, io>>

MainDone == pcMain' = "accept" /\ mainObj' = None /\ mainFd' = None

\* client_socket.Close() of a rejected connection.
RejectClose ==
    /\ pcMain = "reject1"
    /\ CloseFd(mainFd)
    /\ pcMain' = "reject2"
    /\ UNCHANGED <<peer, backlog, aborted, pool, mainObj, mainFd,
                   next_loop_idx_, io>>

\* ~Connection closes the same number again: the object never learned that
\* client_socket had closed it.
RejectDestroy ==
    /\ pcMain = "reject2"
    /\ CloseFd(fd_[mainObj])
    /\ state_' = [state_ EXCEPT ![mainObj] = "CLOSED"]
    /\ fd_' = [fd_ EXCEPT ![mainObj] = None]
    /\ MainDone
    /\ UNCHANGED <<peer, backlog, aborted, connections_, mutex_,
                   timedOut, timeout_fds, pc, argFd, obj, next_loop_idx_, io>>

\* Mutant: the round robin does not wrap around.
NextLoopNoWrap == next_loop_idx_ + 1

NextLoop == (next_loop_idx_ + 1) % NumLoops

\* GetNextEventLoop and AddFd.
Watch ==
    /\ pcMain = "watch"
    /\ AddFd(next_loop_idx_, mainFd)
    /\ next_loop_idx_' = NextLoop
    /\ MainDone
    /\ UNCHANGED <<peer, backlog, inq, sock, pool, io>>

Main == Accept \/ Add \/ RejectClose \/ RejectDestroy \/ Watch

-----------------------------------------------------------------------------
(* EventLoop::Loop, HandleEvents *)

\* The events epoll_wait reports when the sockets in writable have room.
Ready(l, writable) ==
    {e \in Event : LET c == sock[e.fd] IN
        c # None /\ watch[c] = l /\ EventOf(c, c \in writable) = e.ev}

\* Mutant: all loops wait on one epoll instance, without EPOLLONESHOT.
WaitShared(l) ==
    /\ pc[l] = "dispatch" /\ batch[l] = {}
    /\ \E m \in Loop, writable \in SUBSET Client :
          /\ Ready(m, writable) # {}
          /\ batch' = [batch EXCEPT ![l] = Ready(m, writable)]
    /\ UNCHANGED <<kernel, pool, main, rbuf, pend>>

\* Wait(-1): every registration it reports is disarmed.
Wait(l) ==
    /\ pc[l] = "dispatch" /\ batch[l] = {}
    /\ \E writable \in SUBSET Client :
          LET events == Ready(l, writable) IN
          /\ events # {}
          /\ batch' = [batch EXCEPT ![l] = events]
          /\ armed' = [c \in Client |->
                IF \E e \in events : sock[e.fd] = c THEN {} ELSE armed[c]]
    /\ UNCHANGED <<peer, backlog, inq, sock, watch, aborted, pool, main,
                   rbuf, pend>>

\* The branch of HandleEvents for the next event.  HandleRead and HandleWrite
\* start with GetConnection and return when there is none; HandleError looks
\* the connection up only to log it.
Dispatch(l) ==
    /\ pc[l] = "dispatch" /\ mutex_ = None
    /\ \E e \in batch[l] : LET c == GetConnection(e.fd) IN
          /\ batch' = [batch EXCEPT ![l] = @ \ {e}]
          /\ \/ /\ e.ev = "ERR"
                /\ Goto(l, "del")
                /\ argFd' = [argFd EXCEPT ![l] = e.fd]
                /\ UNCHANGED obj
             \/ /\ e.ev # "ERR" /\ c # None
                /\ Goto(l, IF e.ev = "IN" THEN "recv" ELSE "wsend")
                /\ argFd' = [argFd EXCEPT ![l] = e.fd]
                /\ obj' = [obj EXCEPT ![l] = c]
             \/ /\ e.ev # "ERR" /\ c = None
                /\ UNCHANGED <<pc, argFd, obj>>
    /\ UNCHANGED <<kernel, connections_, mutex_, state_, fd_, timedOut,
                   timeout_fds, main, rbuf, pend>>

\* A handler goes on to step, or returns.
Continue(l, step) ==
    \/ step = "dispatch" /\ Return(l)
    \/ step # "dispatch" /\ Goto(l, step) /\ UNCHANGED <<argFd, obj>>

\* The descriptor a call in Recv or Send uses: fd_ may have been read at any
\* time since state_ was, when the object still had the number it was looked
\* up by.
CallFd(l) == {fd_[obj[l]], argFd[l]}

-----------------------------------------------------------------------------
(* Connection::Recv and HandleRead *)

\* The test of state_.  For a CLOSED connection Recv returns -1 with errno as
\* the thread's last failed call left it, and HandleRead tests errno.
RecvCheck(l) ==
    /\ pc[l] = "recv"
    /\ \/ state_[obj[l]] # "CLOSED" /\ Continue(l, "recvcall")
       \/ /\ state_[obj[l]] = "CLOSED"
          /\ \E next \in {"echo", "del"} : Continue(l, next)
    /\ UNCHANGED <<kernel, connections_, mutex_, state_, fd_, timedOut,
                   timeout_fds, main, io>>

\* Mutant: at the end of the stream Recv closes the descriptor itself.
RecvCallCloses(l) ==
    /\ pc[l] = "recvcall"
    /\ LET s == Target(argFd[l]) IN
       \/ /\ s # None /\ ~inq[s] /\ peer[s] = "open"
          /\ Continue(l, "echo")
          /\ UNCHANGED <<inq, sock, watch, armed, state_>>
       \/ /\ ~(s # None /\ (inq[s] \/ peer[s] = "open"))
          /\ state_' = [state_ EXCEPT ![obj[l]] = "CLOSED"]
          /\ CloseFd(argFd[l])
          /\ Continue(l, "del")
    /\ UNCHANGED <<peer, backlog, aborted, connections_, mutex_, fd_,
                   timedOut, timeout_fds, main, io>>

\* recv: data first, then the end of the stream or an error.  HandleRead calls
\* Recv until it returns no data.
RecvCall(l) ==
    /\ pc[l] = "recvcall"
    /\ \E f \in CallFd(l) : LET s == Target(f) IN
       \/ /\ s # None /\ inq[s]
          /\ inq' = [inq EXCEPT ![s] = FALSE]
          /\ rbuf' = [rbuf EXCEPT ![obj[l]] = TRUE]
          /\ timedOut' = [timedOut EXCEPT ![obj[l]] = FALSE]
          /\ Continue(l, "recv")
          /\ UNCHANGED state_
       \/ /\ s # None /\ ~inq[s] /\ peer[s] = "open"
          /\ Continue(l, "echo")
          /\ UNCHANGED <<inq, rbuf, timedOut, state_>>
       \/ /\ ~(s # None /\ (inq[s] \/ peer[s] = "open"))
          /\ state_' = [state_ EXCEPT ![obj[l]] = "CLOSED"]
          /\ Continue(l, "del")
          /\ UNCHANGED <<inq, rbuf, timedOut>>
    /\ UNCHANGED <<peer, backlog, sock, watch, armed, aborted, connections_,
                   mutex_, fd_, timeout_fds, main, batch, pend>>

\* AppendWriteBuffer and ConsumeReadBuffer
Echo(l) ==
    /\ pc[l] = "echo"
    /\ rbuf' = [rbuf EXCEPT ![obj[l]] = FALSE]
    /\ pend' = [pend EXCEPT ![obj[l]] = @ \/ rbuf[obj[l]]]
    /\ Continue(l, IF rbuf[obj[l]] THEN "rsend" ELSE "mod")
    /\ UNCHANGED <<kernel, connections_, mutex_, state_, fd_, timedOut,
                   timeout_fds, main, batch>>

-----------------------------------------------------------------------------
(* Connection::Send, called by HandleRead ("rsend") and HandleWrite        *)
(* ("wsend").                                                              *)

\* Where the handler goes on when Send returns -1 and errno is EAGAIN:
\* HandleRead re-registers the descriptor, HandleWrite does not.
AfterAgain(caller) == IF caller = "rsend" THEN "mod" ELSE "dispatch"

\* The tests of state_ and write_idx_, and HandleWrite's UpdateHeartbeat when
\* nothing was to be sent.
SendCheck(l, caller) ==
    /\ pc[l] = caller
    /\ \/ /\ state_[obj[l]] = "CLOSED"
          /\ \E next \in {AfterAgain(caller), "del"} : Continue(l, next)
          /\ UNCHANGED timedOut
       \/ /\ state_[obj[l]] # "CLOSED" /\ pend[obj[l]]
          /\ Continue(l, IF caller = "rsend" THEN "rsendcall" ELSE "wsendcall")
          /\ UNCHANGED timedOut
       \/ /\ state_[obj[l]] # "CLOSED" /\ ~pend[obj[l]]
          /\ Continue(l, "mod")
          /\ timedOut' = [timedOut EXCEPT ![obj[l]] = @ /\ caller = "rsend"]
    /\ UNCHANGED <<kernel, connections_, mutex_, state_, fd_, timeout_fds,
                   main, io>>

\* send: some or all of the bytes, EAGAIN, an error, or SIGPIPE.
SendCall(l, caller, call) ==
    /\ pc[l] = call
    /\ \E f \in CallFd(l) : LET s == Target(f) IN
       \/ /\ s # None /\ peer[s] \in {"open", "fin"}
          /\ \E left \in BOOLEAN :
                pend' = [pend EXCEPT ![obj[l]] = left /\ SendMayBlock]
          /\ timedOut' = [timedOut EXCEPT ![obj[l]] = FALSE]
          /\ Continue(l, "mod")
          /\ UNCHANGED <<state_, aborted>>
       \/ /\ s # None /\ peer[s] \in {"open", "fin"}
          /\ IF caller = "rsend" THEN SendMayBlock ELSE SpuriousWritable
          /\ Continue(l, AfterAgain(caller))
          /\ UNCHANGED <<pend, timedOut, state_, aborted>>
       \/ /\ ~(s # None /\ peer[s] # "rst")
          /\ state_' = [state_ EXCEPT ![obj[l]] = "CLOSED"]
          /\ Continue(l, "del")
          /\ UNCHANGED <<pend, timedOut, aborted>>
       \/ /\ s # None /\ peer[s] = "finrst"
          /\ aborted' = "SIGPIPE"
          /\ UNCHANGED <<pc, argFd, obj, pend, timedOut, state_>>
    /\ UNCHANGED <<peer, backlog, inq, sock, watch, armed, connections_,
                   mutex_, fd_, timeout_fds, main, batch, rbuf>>

Send(l) ==
    \/ SendCheck(l, "rsend") \/ SendCall(l, "rsend", "rsendcall")
    \/ SendCheck(l, "wsend") \/ SendCall(l, "wsend", "wsendcall")

-----------------------------------------------------------------------------

\* Mutant: the registration is modified only to ask for EPOLLOUT.
RearmOnlyPending(l) ==
    /\ pc[l] = "mod"
    /\ IF pend[obj[l]] THEN ModifyFd(l, argFd[l], {"IN", "OUT"})
                       ELSE UNCHANGED <<armed, aborted>>
    /\ Return(l)
    /\ UNCHANGED <<peer, backlog, inq, sock, watch, connections_, mutex_,
                   state_, fd_, timedOut, timeout_fds, main, io>>

\* The end of HandleRead and HandleWrite: arm the one-shot registration.
Rearm(l) ==
    /\ pc[l] = "mod"
    /\ ModifyFd(l, argFd[l], {"IN"} \cup (IF pend[obj[l]] THEN {"OUT"} ELSE {}))
    /\ Return(l)
    /\ UNCHANGED <<peer, backlog, inq, sock, watch, connections_, mutex_,
                   state_, fd_, timedOut, timeout_fds, main, io>>

\* Mutant: HandleError without RemoveFd.
HandleErrorNoRemoveFd(l) ==
    /\ pc[l] = "del"
    /\ Goto(l, "remove")
    /\ UNCHANGED <<kernel, connections_, mutex_, state_, fd_, timedOut,
                   timeout_fds, argFd, obj, main, io>>

\* Mutant: HandleError without RemoveConnection.
HandleErrorKeepsEntry(l) ==
    /\ pc[l] = "del"
    /\ RemoveFd(l, argFd[l])
    /\ Return(l)
    /\ UNCHANGED <<peer, backlog, inq, sock, connections_, mutex_, state_,
                   fd_, timedOut, timeout_fds, main, io>>

\* HandleError: RemoveFd, then RemoveConnection.
HandleError(l) ==
    /\ pc[l] = "del"
    /\ RemoveFd(l, argFd[l])
    /\ Goto(l, "remove")
    /\ UNCHANGED <<peer, backlog, inq, sock, connections_, mutex_, state_,
                   fd_, timedOut, timeout_fds, argFd, obj, main, io>>

IoThread(l) ==
    \/ Wait(l) \/ Dispatch(l)
    \/ RecvCheck(l) \/ RecvCall(l) \/ Echo(l)
    \/ Send(l)
    \/ Rearm(l) \/ HandleError(l)
    \/ RemoveConnection(l) /\ UNCHANGED <<main, io>>

-----------------------------------------------------------------------------

Peer(c) ==
    /\ PeerConnect(c) \/ PeerSend(c) \/ PeerClose(c) \/ PeerReset(c)
    /\ UNCHANGED <<pool, main, io>>

HeartbeatThread == Heartbeat /\ UNCHANGED <<main, io>>

Clock(c) == Timeouts /\ Age(c) /\ UNCHANGED <<main, io>>

Running == aborted = "no"

Terminated == ~Running /\ UNCHANGED vars

Next ==
    \/ Running /\ Main
    \/ Running /\ \E l \in Loop : IoThread(l)
    \/ Running /\ HeartbeatThread
    \/ Running /\ \E c \in Client : Peer(c) \/ Clock(c)
    \/ Terminated

Spec == Init /\ [][Next]_vars

\* Every thread keeps running: the main loop, the event loops and the
\* heartbeat loop have no exit here and block in no call for ever.
Fairness ==
    /\ WF_vars(Running /\ Main)
    /\ \A l \in Loop : WF_vars(Running /\ IoThread(l))
    /\ WF_vars(Running /\ HeartbeatThread)

FairSpec == Spec /\ Fairness

-----------------------------------------------------------------------------
(* What holds whatever the peers and the clock do. *)

\* Whenever the pool's lock is free, the connection under key fd holds the
\* number fd and the open socket of its own peer: neither a close nor the
\* reuse of a number by accept leaves a stale entry behind.
PoolEntriesLive ==
    mutex_ = None =>
        \A f \in Fd : connections_[f] # None =>
            /\ fd_[connections_[f]] = f
            /\ sock[f] = connections_[f]

\* AddConnection never lets the pool grow past max_connections_.
PoolBounded == PoolSize <= MaxConnections

\* What a step closes is the socket of the connection that the thread which takes
\* the step has in hand.
ClosesOwn ==
    \A f \in Fd : sock[f] # None /\ sock'[f] = None =>
        \/ pcMain' # pcMain /\ mainObj = sock[f]
        \/ \E t \in Thread : pc'[t] # pc[t] /\ obj[t] = sock[f]

\* A close by number never hits the socket of a connection that accept has given
\* this number since: HandleAccept closes no other socket than that of the
\* connection it rejects, although it closes the number twice, and a call of
\* RemoveConnection none but that of the connection it found under the lock,
\* however many threads remove it.  (Which one it finds is another question: the
\* heartbeat, and HandleError, may come with a number that was reused before.)
ClosesOwnSocket == [][ClosesOwn]_vars

\* The descriptor of a connection whose peer is still there is never left to
\* itself: it is the pool's, or in the hands of HandleAccept.  Only connections
\* that the peer has ended can use up the descriptors that accept needs.
LivePeerKept ==
    \A c \in Client : Open(c) /\ peer[c] = "open" => InPool(c) \/ mainObj = c

\* A client as its peer sees it: waiting until HandleAccept has called
\* AddConnection, then a member until RemoveConnection, or turned away.
StatusOf(c) ==
    IF InPool(c) THEN "member"
    ELSE IF c \in backlog \/ (pcMain = "add" /\ mainObj = c) THEN "waiting"
    ELSE IF peer[c] = "idle" THEN "away"
    ELSE "gone"

Status == [c \in Client |-> StatusOf(c)]

Registry == INSTANCE BoundedRegistry WITH Limit <- MaxConnections, status <- Status

\* The reactors, the pool and the heartbeat together implement the registry:
\* a connection is rejected only when max_connections_ others are pooled, enters
\* the pool once, and leaves it once, however many threads remove it at a time.
ImplementsRegistry == Registry!Spec

-----------------------------------------------------------------------------
(* What holds as long as no connection times out. *)

Handling(l) == pc[l] \notin {"dispatch"} \cup RemoveSteps

\* epoll_ctl never fails: an IO thread modifies and removes only what it has
\* registered, so no exception ends the process.
EpollCallsSucceed == aborted \notin {"AddFd", "ModifyFd", "RemoveFd"}

\* An epoll registration is always that of a pooled connection, also while
\* HandleError takes both away.
RegisteredInPool == \A c \in Client : watch[c] # None => InPool(c)

\* A connection has one loop, and the loop one thread: its buffers, for which
\* there is no lock, are never in the hands of two handlers.
OneHandlerPerConnection ==
    \A l, m \in Loop :
        l # m /\ Handling(l) /\ Handling(m) /\ obj[l] # None => obj[l] # obj[m]

\* A handler reads and writes the socket of the connection it looked up.
HandlerUsesOwnSocket ==
    \A l \in Loop : pc[l] \in {"recvcall", "rsendcall", "wsendcall"} =>
        Target(argFd[l]) = obj[l]

\* A registration that has fired is never forgotten: its event is still to be
\* handled, or a handler is on its way to re-arming or removing it.
FiredIsOwned ==
    Running => \A c \in Client, l \in Loop : watch[c] = l /\ armed[c] = {} =>
        \/ \E e \in batch[l] : sock[e.fd] = c
        \/ Handling(l) /\ sock[argFd[l]] = c

-----------------------------------------------------------------------------
(* Progress, under FairSpec.  Recv is called until the socket is empty, so *)
(* one peer that never stops sending keeps its IO thread to itself: what   *)
(* the IO threads promise supposes that every peer pauses.                 *)

PeersPause == <>[][\A c \in Client : ~PeerSend(c)]_vars

\* HandleAccept gets to the end with every connection in the listen queue: it
\* is accepted, then pooled and registered, or rejected.  RemoveConnection on
\* the other threads never keeps the lock that AddConnection needs.
BacklogServed ==
    \A c \in Client : c \in backlog
        ~> (c \notin backlog /\ mainObj # c) \/ ~Running

\* Bytes that arrive on a pooled connection are received, or the connection
\* is removed.
ReadableServed ==
    PeersPause => \A c \in Client :
        InPool(c) /\ inq[c] ~> ~InPool(c) \/ ~inq[c] \/ ~Running

\* A connection whose peer has closed or reset it leaves the pool.
DeadPeerRemoved ==
    PeersPause => \A c \in Client :
        InPool(c) /\ peer[c] # "open" ~> ~InPool(c) \/ ~Running

\* A connection that stays idle past the timeout leaves the pool.
IdleRemoved ==
    \A c \in Client : InPool(c) /\ timedOut[c]
        ~> ~InPool(c) \/ ~timedOut[c] \/ ~Running

-----------------------------------------------------------------------------
(* What the documentation and the comments say, and the code does not do.  *)

\* "Resource recovery: invalid connections are released in time": a CLOSED
\* connection that has left the pool has given its descriptor back.
ClosedIsReleased ==
    \A c \in Client : state_[c] = "CLOSED" /\ ~InPool(c) => ~Open(c)

\* "Disconnected automatically": the heartbeat closes the connection under the
\* IO thread that is handling it, and the server goes on.
TimeoutKeepsServing == aborted \notin {"ModifyFd", "RemoveFd"}

=============================================================================
