------------------------------- MODULE Sockets -------------------------------
(***************************************************************************)
(* The kernel objects the server works on, as the classes net::Socket and  *)
(* net::Epoll use them: the connections of the peers, the table of file    *)
(* descriptors and the interest lists of the epoll instances.              *)
(*                                                                         *)
(* Every connection is registered with EPOLLET | EPOLLONESHOT.  A one-shot *)
(* registration that has fired reports nothing more, EPOLLERR and EPOLLHUP *)
(* included, until it is modified; modifying it polls the file again.  So  *)
(* while it is armed it behaves like a level-triggered one.                *)
(*                                                                         *)
(* No function of the repository catches an exception: what a wrapper      *)
(* throws reaches std::terminate and ends the process.  SIGPIPE keeps its  *)
(* default action, and ends it too.                                        *)
(***************************************************************************)
EXTENDS Integers, FiniteSets

CONSTANTS
    Client,     \* the connections peers may open, each at most once
    Fd,         \* the descriptors the process may use for connections
    NumLoops,   \* the size of IOThreadPool::loops_
    None        \* nullptr, or the descriptor -1

Loop == 0 .. NumLoops - 1

\* IOThreadPool's constructor and Server::Init make at least one loop.
ASSUME SocketsAssumption ==
    /\ IsFiniteSet(Client) /\ IsFiniteSet(Fd)
    /\ NumLoops \in Nat \ {0}
    /\ None \notin Client \cup Fd \cup Loop

VARIABLES
    peer,       \* what the peer has done with its end of each connection
    backlog,    \* the connections waiting in the listen queue
    inq,        \* does the socket hold bytes that were not received yet?
    sock,       \* the descriptor table: which connection a number denotes
    watch,      \* the epoll instance a connection is registered with
    armed,      \* the events it is registered for; {} once one-shot fired
    aborted     \* the call whose exception ended the process, or "no"

kernel == <<peer, backlog, inq, sock, watch, armed, aborted>>

SocketsTypeOK ==
    /\ peer \in [Client -> {"idle", "open", "fin", "rst", "finrst"}]
    /\ backlog \subseteq Client
    /\ inq \in [Client -> BOOLEAN]
    /\ sock \in [Fd -> Client \cup {None}]
    /\ watch \in [Client -> Loop \cup {None}]
    /\ armed \in [Client -> SUBSET {"IN", "OUT"}]
    /\ aborted \in {"no", "accept", "AddFd", "ModifyFd", "RemoveFd",
                   "SIGPIPE"}

SocketsInit ==
    /\ peer = [c \in Client |-> "idle"]
    /\ backlog = {}
    /\ inq = [c \in Client |-> FALSE]
    /\ sock = [f \in Fd |-> None]
    /\ watch = [c \in Client |-> None]
    /\ armed = [c \in Client |-> {}]
    /\ aborted = "no"

Open(c) == \E f \in Fd : sock[f] = c

-----------------------------------------------------------------------------
(* The peers. *)

PeerConnect(c) ==
    /\ peer[c] = "idle"
    /\ peer' = [peer EXCEPT ![c] = "open"]
    /\ backlog' = backlog \cup {c}
    /\ UNCHANGED <<inq, sock, watch, armed, aborted>>

PeerSend(c) ==
    /\ peer[c] = "open" /\ ~inq[c]
    /\ c \in backlog \/ Open(c)
    /\ inq' = [inq EXCEPT ![c] = TRUE]
    /\ UNCHANGED <<peer, backlog, sock, watch, armed, aborted>>

PeerClose(c) ==
    /\ peer[c] = "open"
    /\ c \in backlog \/ Open(c)
    /\ peer' = [peer EXCEPT ![c] = "fin"]
    /\ UNCHANGED <<backlog, inq, sock, watch, armed, aborted>>

\* A reset after the peer's FIN makes send fail with EPIPE, and so raise
\* SIGPIPE, where one without makes it fail with ECONNRESET.
PeerReset(c) ==
    /\ peer[c] \in {"open", "fin"}
    /\ c \in backlog \/ Open(c)
    /\ peer' = [peer EXCEPT ![c] = IF peer[c] = "fin" THEN "finrst" ELSE "rst"]
    /\ UNCHANGED <<backlog, inq, sock, watch, armed, aborted>>

-----------------------------------------------------------------------------
(* Descriptors.  Accept and CloseFd leave aborted to their callers. *)

FreeFds == {f \in Fd : sock[f] = None}

\* The connection a system call on descriptor f reaches; None is EBADF.
Target(f) == IF f \in Fd THEN sock[f] ELSE None

\* close(f).  Closing a number that is not open is EBADF and does nothing.
\* Closing the only descriptor of a socket drops its registration and what
\* it had received.
CloseFd(f) ==
    /\ sock' = [sock EXCEPT ![f] = None]
    /\ inq' = [c \in Client |-> inq[c] /\ c # Target(f)]
    /\ watch' = [c \in Client |-> IF c = Target(f) THEN None ELSE watch[c]]
    /\ armed' = [c \in Client |-> IF c = Target(f) THEN {} ELSE armed[c]]

-----------------------------------------------------------------------------
(* class Epoll.  epoll_ctl names a file by its descriptor; a number that   *)
(* is closed, or that denotes a socket this instance does not watch, is an *)
(* error, and CheckError throws.                                           *)

Watches(l, f) == sock[f] # None /\ watch[sock[f]] = l

Unwatched(f) == sock[f] # None /\ watch[sock[f]] = None

AddFd(l, f) ==
    \/ /\ Unwatched(f)
       /\ watch' = [watch EXCEPT ![sock[f]] = l]
       /\ armed' = [armed EXCEPT ![sock[f]] = {"IN", "OUT"}]
       /\ UNCHANGED aborted
    \/ /\ ~Unwatched(f)
       /\ aborted' = "AddFd"
       /\ UNCHANGED <<watch, armed>>

ModifyFd(l, f, events) ==
    \/ /\ Watches(l, f)
       /\ armed' = [armed EXCEPT ![sock[f]] = events]
       /\ UNCHANGED aborted
    \/ /\ ~Watches(l, f)
       /\ aborted' = "ModifyFd"
       /\ UNCHANGED armed

RemoveFd(l, f) ==
    \/ /\ Watches(l, f)
       /\ watch' = [watch EXCEPT ![sock[f]] = None]
       /\ armed' = [armed EXCEPT ![sock[f]] = {}]
       /\ UNCHANGED aborted
    \/ /\ ~Watches(l, f)
       /\ aborted' = "RemoveFd"
       /\ UNCHANGED <<watch, armed>>

\* What epoll_wait reports for an armed connection, as the branch that
\* EventLoop::HandleEvents takes on it: an error or hang-up comes first, then
\* readable, then writable.
EventOf(c, writable) ==
    IF armed[c] = {} THEN "none"
    ELSE IF peer[c] \in {"rst", "finrst"} THEN "ERR"
    ELSE IF "IN" \in armed[c] /\ (inq[c] \/ peer[c] = "fin") THEN "IN"
    ELSE IF "OUT" \in armed[c] /\ writable THEN "OUT"
    ELSE "none"

=============================================================================
