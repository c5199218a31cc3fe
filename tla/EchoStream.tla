------------------------------ MODULE EchoStream ------------------------------
(***************************************************************************)
(* The bytes of one connection on their way through conn::Connection and   *)
(* the handlers of its EventLoop, which call it from one thread as long as *)
(* the connection does not time out: from the peer into the socket's       *)
(* receive queue, read_buffer_, write_buffer_, the send queue and back.    *)
(*                                                                         *)
(* Bytes are numbered in the order the peer sends them.  A buffer is the   *)
(* sequence of the bytes below its index, together with the size of its    *)
(* vector, which only grows.                                               *)
(***************************************************************************)
EXTENDS Integers, SequencesExt

CONSTANTS
    MaxBytes,       \* the bytes the peer sends at most
    RcvBuf, SndBuf, \* the capacities of the socket's queues
    Headroom,       \* 1024: the room Recv wants in read_buffer_
    Growth,         \* 4096: what it adds at least
    SpuriousWritable    \* may send() fail with EAGAIN on a socket that epoll
                        \* reported writable?

ASSUME EchoAssumption ==
    /\ MaxBytes \in Nat
    /\ RcvBuf \in Nat \ {0} /\ SndBuf \in Nat \ {0}
    /\ Headroom \in Nat \ {0} /\ Growth \in Nat /\ Growth >= Headroom
    /\ SpuriousWritable \in BOOLEAN

VARIABLES
    sent, received,     \* what the peer has sent and what it has got back
    peer,               \* "open", "fin": it sends no more, or "rst"
    inq, outq,          \* the socket's receive and send queues
    read_buffer_, read_size,    \* [0, read_idx_) and the size of the vector
    write_buffer_, write_size,  \* [0, write_idx_) and the size of the vector
    state_,
    armed,              \* the events of the one-shot registration
    pc                  \* where the IO thread is

wire == <<sent, received, peer, inq, outq>>
buffers == <<read_buffer_, read_size, write_buffer_, write_size>>
vars == <<wire, buffers, state_, armed, pc>>

\* Every variable has its type.
TypeOK ==
    /\ sent \in Seq(Nat) /\ received \in Seq(Nat)
    /\ peer \in {"open", "fin", "rst"}
    /\ inq \in Seq(Nat) /\ outq \in Seq(Nat)
    /\ read_buffer_ \in Seq(Nat) /\ write_buffer_ \in Seq(Nat)
    /\ read_size \in Nat /\ write_size \in Nat
    /\ state_ \in {"CONNECTED", "CLOSED"}
    /\ armed \in SUBSET {"IN", "OUT"}
    /\ pc \in {"wait", "recv", "recvcall", "echo", "rsend", "wsend", "mod",
               "done"}

\* reserve() leaves the size of both vectors 0.  HandleAccept registers the
\* descriptor for both events.
Init ==
    /\ sent = <<>> /\ received = <<>> /\ peer = "open"
    /\ inq = <<>> /\ outq = <<>>
    /\ read_buffer_ = <<>> /\ read_size = 0
    /\ write_buffer_ = <<>> /\ write_size = 0
    /\ state_ = "CONNECTED" /\ armed = {"IN", "OUT"} /\ pc = "wait"

Larger(m, n) == IF m >= n THEN m ELSE n
Smaller(m, n) == IF m <= n THEN m ELSE n
First(s, n) == SubSeq(s, 1, n)
Rest(s, n) == SubSeq(s, n + 1, Len(s))

-----------------------------------------------------------------------------
(* The peer and the network. *)

\* The peer sends the next k bytes.
PeerSend(k) ==
    /\ peer = "open" /\ Len(sent) + k <= MaxBytes /\ Len(inq) + k <= RcvBuf
    /\ LET data == [i \in 1 .. k |-> Len(sent) + i] IN
          sent' = sent \o data /\ inq' = inq \o data
    /\ UNCHANGED <<received, peer, outq, buffers, state_, armed, pc>>

PeerRecv ==
    /\ outq # <<>> /\ peer # "rst"
    /\ received' = received \o outq
    /\ outq' = <<>>
    /\ UNCHANGED <<sent, peer, inq, buffers, state_, armed, pc>>

PeerFinish ==
    /\ peer = "open" /\ peer' = "fin"
    /\ UNCHANGED <<sent, received, inq, outq, buffers, state_, armed, pc>>

PeerReset ==
    /\ peer # "rst" /\ peer' = "rst"
    /\ UNCHANGED <<sent, received, inq, outq, buffers, state_, armed, pc>>

Peer == (\E k \in 1 .. RcvBuf : PeerSend(k)) \/ PeerRecv \/ PeerFinish \/ PeerReset

-----------------------------------------------------------------------------
(* EventLoop *)

Readable == inq # <<>> \/ peer # "open"
Writable == Len(outq) < SndBuf

\* epoll_wait and HandleEvents: the registration fires once, and error,
\* readable and writable are tried in this order.
Dispatch ==
    /\ pc = "wait" /\ armed # {}
    /\ \/ peer = "rst" /\ pc' = "done"
       \/ peer # "rst" /\ Readable /\ "IN" \in armed /\ pc' = "recv"
       \/ /\ peer # "rst" /\ ~(Readable /\ "IN" \in armed)
          /\ "OUT" \in armed /\ Writable
          /\ pc' = "wsend"
    /\ armed' = {}
    /\ UNCHANGED <<wire, buffers, state_>>

\* Mutant: the vector grows only once it is full.
CheckAndResizeReadBufferNever ==
    /\ pc = "recv"
    /\ read_size' = Larger(read_size, Growth)
    /\ pc' = "recvcall"
    /\ UNCHANGED <<wire, read_buffer_, write_buffer_, write_size, state_, armed>>

\* Recv: CheckAndResizeReadBuffer
CheckAndResizeReadBuffer ==
    /\ pc = "recv"
    /\ read_size' = IF read_size - Len(read_buffer_) < Headroom
                    THEN Larger(2 * read_size, Len(read_buffer_) + Growth)
                    ELSE read_size
    /\ pc' = "recvcall"
    /\ UNCHANGED <<wire, read_buffer_, write_buffer_, write_size, state_, armed>>

\* Recv: recv(fd_, data() + read_idx_, size() - read_idx_).  HandleRead calls
\* it again until it returns no data.  A return of 0 means that the peer has
\* finished; with a length of 0 it would mean nothing.
RecvCall ==
    LET available == read_size - Len(read_buffer_)
        n == Smaller(available, Len(inq)) IN
    /\ pc = "recvcall"
    /\ \/ /\ n > 0
          /\ read_buffer_' = read_buffer_ \o First(inq, n)
          /\ inq' = Rest(inq, n)
          /\ pc' = "recv"
          /\ UNCHANGED state_
       \/ /\ n <= 0
          /\ IF available > 0 /\ peer = "open"
             THEN pc' = "echo" /\ UNCHANGED state_
             ELSE pc' = "done" /\ state_' = "CLOSED"
          /\ UNCHANGED <<read_buffer_, inq>>
    /\ UNCHANGED <<sent, received, peer, outq, read_size, write_buffer_,
                   write_size, armed>>

\* Mutant: AppendWriteBuffer copies to the start of the buffer.
EchoOverwrites ==
    /\ pc = "echo"
    /\ write_buffer_' = read_buffer_ \o Rest(write_buffer_, Len(read_buffer_))
    /\ read_buffer_' = <<>>
    /\ pc' = IF read_buffer_ = <<>> THEN "mod" ELSE "rsend"
    /\ UNCHANGED <<wire, read_size, write_size, state_, armed>>

\* HandleRead: AppendWriteBuffer(GetReadBuffer(), GetReadBufferSize()) and
\* ConsumeReadBuffer of all of it.
Echo ==
    LET need == Len(write_buffer_) + Len(read_buffer_) IN
    /\ pc = "echo"
    /\ write_buffer_' = write_buffer_ \o read_buffer_
    /\ write_size' = IF write_size < need THEN Larger(2 * write_size, need)
                                          ELSE write_size
    /\ read_buffer_' = <<>>
    /\ pc' = IF read_buffer_ = <<>> THEN "mod" ELSE "rsend"
    /\ UNCHANGED <<wire, read_size, state_, armed>>

\* Mutant: memmove keeps the bytes that were sent.
SentPart(s, n) == First(s, Len(s) - n)

\* memmove of what is left to the start of write_buffer_.
LeftPart(s, n) == Rest(s, n)

\* Send, from HandleRead ("rsend") and from HandleWrite ("wsend"), which
\* returns without re-registering when send reports EAGAIN.  After a reset
\* send fails (or raises SIGPIPE, which ends the process).
Send ==
    /\ pc \in {"rsend", "wsend"}
    /\ \/ /\ write_buffer_ = <<>>
          /\ pc' = "mod"
          /\ UNCHANGED <<write_buffer_, outq, state_>>
       \/ /\ write_buffer_ # <<>> /\ peer = "rst"
          /\ state_' = "CLOSED" /\ pc' = "done"
          /\ UNCHANGED <<write_buffer_, outq>>
       \/ /\ write_buffer_ # <<>> /\ peer # "rst"
          /\ \E n \in 1 .. Smaller(Len(write_buffer_), SndBuf - Len(outq)) :
                /\ outq' = outq \o First(write_buffer_, n)
                /\ write_buffer_' = LeftPart(write_buffer_, n)
          /\ pc' = "mod"
          /\ UNCHANGED state_
       \/ /\ write_buffer_ # <<>> /\ peer # "rst"
          /\ ~Writable \/ SpuriousWritable
          /\ pc' = IF pc = "rsend" THEN "mod" ELSE "wait"
          /\ UNCHANGED <<write_buffer_, outq, state_>>
    /\ UNCHANGED <<sent, received, peer, inq, read_buffer_, read_size,
                   write_size, armed>>

\* Mutant: EPOLLOUT is never asked for again.
RearmReadOnly ==
    /\ pc = "mod" /\ pc' = "wait" /\ armed' = {"IN"}
    /\ UNCHANGED <<wire, buffers, state_>>

\* ModifyFd at the end of HandleRead and HandleWrite.
Rearm ==
    /\ pc = "mod" /\ pc' = "wait"
    /\ armed' = IF write_buffer_ # <<>> THEN {"IN", "OUT"} ELSE {"IN"}
    /\ UNCHANGED <<wire, buffers, state_>>

IoThread ==
    Dispatch \/ CheckAndResizeReadBuffer \/ RecvCall \/ Echo \/ Send \/ Rearm

Next == Peer \/ IoThread

Spec == Init /\ [][Next]_vars

\* The IO thread runs, and the peer goes on reading what it is sent back.
FairSpec == Spec /\ WF_vars(IoThread) /\ WF_vars(PeerRecv)

-----------------------------------------------------------------------------

\* No byte is lost, repeated or reordered between any two buffers while the
\* connection is up.
Conservation ==
    state_ = "CONNECTED" =>
        sent = received \o outq \o write_buffer_ \o read_buffer_ \o inq

\* recv is called with room for a byte, so that its 0 means the end of the
\* stream, and neither index runs past the end of its vector.
BuffersFit ==
    /\ pc = "recvcall" => Len(read_buffer_) < read_size
    /\ Len(read_buffer_) <= read_size
    /\ Len(write_buffer_) <= write_size

\* Echoed bytes that wait for room in the send queue keep EPOLLOUT registered.
PendingIsArmed ==
    pc = "wait" /\ write_buffer_ # <<>> => "OUT" \in armed

\* The connection implements the abstract echo service.
Pipe == INSTANCE EchoPipe
PipeSpec == Pipe!Spec

\* Every byte comes back to a peer that keeps its end open and pauses sooner or
\* later, as one that sends MaxBytes does.
EchoComplete ==
    [](peer = "open") =>
        \A n \in 1 .. MaxBytes : Len(sent) >= n ~> Len(received) >= n

=============================================================================
