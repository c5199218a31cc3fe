------------------------------ MODULE EchoProofs ------------------------------
(***************************************************************************)
(* Proofs about EchoStream, for queues and buffers of any size and any     *)
(* amount of data.  Conservation alone does not survive the end of the     *)
(* connection, when buffered bytes are dropped: DeliveredInv keeps the     *)
(* part of it that says what the peer has got, and may still get, back.    *)
(***************************************************************************)
EXTENDS EchoStream, SequenceTheorems, TLAPS

Bytes == Seq(Nat)

\* What is in the send queue goes on from what was received.
DeliveredInv == \E rest \in Bytes : sent = received \o outq \o rest

\* A handler that finds the connection closed is done with it.
ClosedInv == state_ = "CLOSED" => pc = "done"

Inv == TypeOK /\ Conservation /\ BuffersFit /\ DeliveredInv /\ ClosedInv

-----------------------------------------------------------------------------
(* Facts about cutting and joining sequences of bytes. *)

\* Joining byte sequences gives a byte sequence of the summed length.
LEMMA Join ==
  ASSUME NEW s \in Bytes, NEW t \in Bytes
  PROVE  /\ s \o t \in Bytes /\ Len(s \o t) = Len(s) + Len(t)
         /\ s \o <<>> = s /\ <<>> \o s = s
  BY ConcatProperties, ConcatEmptySeq DEF Bytes

\* Joining is associative, which moves bytes from one buffer to the next.
LEMMA Assoc ==
  ASSUME NEW s \in Bytes, NEW t \in Bytes, NEW u \in Bytes
  PROVE  (s \o t) \o u = s \o (t \o u)
  BY ConcatAssociative, SMTT(30) DEF Bytes

\* A buffer is its first n bytes, as recv or send takes them, and the rest.
LEMMA Cut ==
  ASSUME NEW s \in Bytes, NEW n \in 0 .. Len(s)
  PROVE  /\ First(s, n) \in Bytes /\ Rest(s, n) \in Bytes
         /\ First(s, n) \o Rest(s, n) = s
         /\ Len(First(s, n)) = n /\ Len(Rest(s, n)) = Len(s) - n
<1>1. Len(s) \in Nat /\ \A i \in 1 .. Len(s) : s[i] \in Nat
  BY LenProperties DEF Bytes
<1>2. First(s, n) \in Bytes /\ Len(First(s, n)) = n
  BY <1>1, SubSeqProperties DEF First, Bytes
<1>3. Rest(s, n) \in Bytes /\ Len(Rest(s, n)) = Len(s) - n
  BY <1>1, SubSeqProperties DEF Rest, Bytes
<1>4. First(s, n) \o Rest(s, n) = SubSeq(s, 1, Len(s))
  <2>1. /\ 1 \in 1 .. Len(s) + 1 /\ n \in 1 - 1 .. Len(s)
        /\ Len(s) \in n .. Len(s)
    BY <1>1
  <2> QED
    BY <2>1, ConcatAdjacentSubSeq, ZenonT(60) DEF First, Rest, Bytes
<1> QED
  BY <1>2, <1>3, <1>4, SubSeqFull DEF Bytes

\* The provers find instances of a fact about Cat, which they do not expand.
Cat(s, t) == s \o t

\* Taking n bytes from the front of a buffer to the end of the one before it.
LEMMA Shift ==
  ASSUME NEW x \in Bytes, NEW a \in Bytes, NEW s \in Bytes, NEW n \in 0 .. Len(s)
  PROVE  Cat(Cat(x, Cat(a, First(s, n))), Rest(s, n)) = Cat(Cat(x, a), s)
<1>1. /\ First(s, n) \in Bytes /\ Rest(s, n) \in Bytes
      /\ Cat(First(s, n), Rest(s, n)) = s
  BY Cut DEF Cat
<1>2. ASSUME NEW p \in Bytes, NEW q \in Bytes, NEW r \in Bytes
      PROVE  Cat(p, q) \in Bytes /\ Cat(Cat(p, q), r) = Cat(p, Cat(q, r))
  <2>1. Cat(p, q) \in Bytes
    BY Join DEF Cat
  <2>2. (p \o q) \o r = p \o (q \o r)
    BY Assoc, ZenonT(60)
  <2> QED
    BY <2>1, <2>2, Zenon DEF Cat
<1>3. Cat(x, Cat(a, First(s, n))) = Cat(Cat(x, a), First(s, n))
  BY <1>1, <1>2
<1>4. Cat(x, a) \in Bytes
  BY <1>2
<1>5. Cat(Cat(Cat(x, a), First(s, n)), Rest(s, n))
        = Cat(Cat(x, a), Cat(First(s, n), Rest(s, n)))
  BY <1>1, <1>2, <1>4
<1> QED
  BY <1>1, <1>3, <1>5

\* The front part of a joined sequence is a prefix of it.
LEMMA PrefixOfJoin ==
  ASSUME NEW s \in Bytes, NEW t \in Bytes
  PROVE  IsPrefix(s, s \o t)
<1>1. Len(s) \in Nat /\ Len(t) \in Nat /\ Len(s \o t) = Len(s) + Len(t)
  BY Join, LenProperties DEF Bytes
<1>2. SubSeq(s, 1, Len(s)) = SubSeq(s \o t, 1, Len(s))
  <2>1. CASE Len(s) = 0
    BY <2>1, SubSeqEmpty
  <2>2. CASE Len(s) > 0
    BY <1>1, <2>2, SubSeqOfConcat1 DEF Bytes
  <2> QED
    BY <1>1, <2>1, <2>2
<1> QED
  BY <1>1, <1>2 DEF IsPrefix

-----------------------------------------------------------------------------

\* A new connection, with empty buffers, satisfies the invariant.
LEMMA InitInv == Init => Inv
<1> SUFFICES ASSUME Init PROVE Inv
  OBVIOUS
<1>1. <<>> \in Bytes /\ <<>> \o <<>> = <<>> /\ Len(<<>>) = 0
  BY Join, EmptySeq DEF Bytes
<1>2. TypeOK /\ BuffersFit
  BY <1>1 DEF Init, TypeOK, BuffersFit, Bytes
<1>3. Conservation /\ DeliveredInv /\ ClosedInv
  BY <1>1 DEF Init, Conservation, DeliveredInv, ClosedInv
<1> QED
  BY <1>2, <1>3 DEF Inv

\* What the peer does to the kernel's queues keeps the invariant.
LEMMA PeerInv ==
  ASSUME Inv, Peer PROVE Inv'
<1>0. /\ sent \in Bytes /\ received \in Bytes /\ inq \in Bytes
      /\ outq \in Bytes /\ read_buffer_ \in Bytes /\ write_buffer_ \in Bytes
  BY DEF Inv, TypeOK, Bytes
<1>1. CASE \E k \in 1 .. RcvBuf : PeerSend(k)
  <2>1. PICK k \in 1 .. RcvBuf : PeerSend(k)
    BY <1>1
  <2> DEFINE data == [i \in 1 .. k |-> Len(sent) + i]
  <2>2. k \in Nat /\ data \in Bytes
    BY <1>0, <2>1, EchoAssumption DEF Bytes
  <2>3. /\ sent' = sent \o data /\ inq' = inq \o data
        /\ UNCHANGED <<received, peer, outq, buffers, state_, armed, pc>>
    BY <2>1 DEF PeerSend
  <2> HIDE DEF data
  <2>4. TypeOK' /\ BuffersFit'
    BY <1>0, <2>2, <2>3, Join DEF Inv, TypeOK, BuffersFit, buffers, Bytes
  <2>5. Conservation'
    <3> DEFINE x == received \o outq \o write_buffer_ \o read_buffer_
    <3>1. x \in Bytes
      BY <1>0, Join
    <3>2. state_ = "CONNECTED" => sent = x \o inq
      BY DEF Inv, Conservation
    <3>3. UNCHANGED <<x, state_>>
      BY <2>3 DEF buffers
    <3>4. Conservation' <=> (state_' = "CONNECTED" => sent' = x' \o inq')
      BY DEF Conservation
    <3> HIDE DEF x
    <3>5. (x \o inq) \o data = x \o (inq \o data)
      BY <1>0, <2>2, <3>1, Assoc, ZenonT(60)
    <3> QED
      BY <2>3, <3>2, <3>3, <3>4, <3>5
  <2>6. DeliveredInv'
    <3>1. PICK rest \in Bytes : sent = received \o outq \o rest
      BY DEF Inv, DeliveredInv
    <3>2. received \o outq \in Bytes /\ rest \o data \in Bytes
      BY <1>0, <2>2, Join
    <3>3. sent' = received' \o outq' \o (rest \o data)
      BY <2>2, <2>3, <3>1, <3>2, Assoc
    <3> QED
      BY <3>2, <3>3 DEF DeliveredInv
  <2> QED
    BY <2>3, <2>4, <2>5, <2>6 DEF Inv, ClosedInv
<1>2. CASE PeerRecv
  <2>1. /\ received' = received \o outq /\ outq' = <<>>
        /\ UNCHANGED <<sent, peer, inq, buffers, state_, armed, pc>>
    BY <1>2 DEF PeerRecv
  <2>2. received' \in Bytes /\ outq' \in Bytes
    BY <1>0, <2>1, Join, EmptySeq DEF Bytes
  <2>3. received' \o outq' = received \o outq
    BY <2>1, <2>2, Join
  <2>4. TypeOK' /\ BuffersFit'
    BY <2>1, <2>2 DEF Inv, TypeOK, BuffersFit, buffers, Bytes
  <2>5. Conservation' /\ DeliveredInv'
    BY <2>1, <2>3 DEF Inv, Conservation, DeliveredInv, buffers
  <2> QED
    BY <2>1, <2>4, <2>5 DEF Inv, ClosedInv
<1>3. CASE PeerFinish \/ PeerReset
  BY <1>3
  DEF PeerFinish, PeerReset, Inv, TypeOK, Conservation, BuffersFit,
      DeliveredInv, ClosedInv, buffers
<1> QED
  BY <1>1, <1>2, <1>3 DEF Peer

\* recv moves bytes from the kernel into read_buffer_, or closes.
LEMMA RecvCallInv ==
  ASSUME Inv, RecvCall PROVE Inv'
<1>0. /\ sent \in Bytes /\ received \in Bytes /\ inq \in Bytes
      /\ outq \in Bytes /\ read_buffer_ \in Bytes /\ write_buffer_ \in Bytes
      /\ read_size \in Nat /\ Len(read_buffer_) \in Nat /\ Len(inq) \in Nat
      /\ pc = "recvcall" /\ Len(read_buffer_) < read_size
  BY LenProperties DEF Inv, TypeOK, Bytes, RecvCall, BuffersFit
<1> DEFINE n == Smaller(read_size - Len(read_buffer_), Len(inq))
<1>1. /\ UNCHANGED <<sent, received, peer, outq, read_size, write_buffer_,
                     write_size, armed>>
      /\ \/ /\ n > 0 /\ pc' = "recv" /\ UNCHANGED state_
            /\ read_buffer_' = read_buffer_ \o First(inq, n)
            /\ inq' = Rest(inq, n)
         \/ /\ \/ pc' = "echo" /\ UNCHANGED state_
               \/ pc' = "done" /\ state_' = "CLOSED"
            /\ UNCHANGED <<read_buffer_, inq>>
  BY DEF RecvCall
<1>2. n \in 0 .. Len(inq) /\ n <= read_size - Len(read_buffer_)
  BY <1>0 DEF Smaller
<1> HIDE DEF n
<1>3. DeliveredInv'
  BY <1>1 DEF Inv, DeliveredInv
<1>4. CASE /\ n > 0 /\ pc' = "recv" /\ UNCHANGED state_
           /\ read_buffer_' = read_buffer_ \o First(inq, n)
           /\ inq' = Rest(inq, n)
  <2>1. /\ First(inq, n) \in Bytes /\ Rest(inq, n) \in Bytes
        /\ First(inq, n) \o Rest(inq, n) = inq /\ Len(First(inq, n)) = n
    BY <1>0, <1>2, Cut
  <2>2. read_buffer_' \in Bytes /\ Len(read_buffer_') = Len(read_buffer_) + n
    BY <1>0, <1>4, <2>1, Join
  <2>3. TypeOK'
    BY <1>1, <1>4, <2>1, <2>2 DEF Inv, TypeOK, Bytes
  <2>4. BuffersFit'
    BY <1>0, <1>1, <1>2, <1>4, <2>2 DEF Inv, BuffersFit
  <2>5. Conservation'
    <3> DEFINE x == received \o outq \o write_buffer_
    <3>1. x \in Bytes
      BY <1>0, Join
    <3> HIDE DEF x
    <3>2. (x \o read_buffer_') \o inq' = (x \o read_buffer_) \o inq
      <4>1. (x \o (read_buffer_ \o First(inq, n))) \o Rest(inq, n)
              = (x \o read_buffer_) \o inq
        <5>1. Cat(Cat(x, Cat(read_buffer_, First(inq, n))), Rest(inq, n))
                = Cat(Cat(x, read_buffer_), inq)
          BY <1>0, <1>2, <3>1, Shift
        <5> QED
          BY <5>1, Zenon DEF Cat
      <4> QED
        BY <1>4, <4>1, Zenon
    <3> QED
      BY <1>1, <1>4, <3>2 DEF Inv, Conservation, x
  <2> QED
    BY <1>0, <1>3, <1>4, <2>3, <2>4, <2>5 DEF Inv, ClosedInv
<1>5. CASE /\ \/ pc' = "echo" /\ UNCHANGED state_
              \/ pc' = "done" /\ state_' = "CLOSED"
           /\ UNCHANGED <<read_buffer_, inq>>
  BY <1>0, <1>1, <1>3, <1>5
  DEF Inv, TypeOK, BuffersFit, Conservation, ClosedInv
<1> QED
  BY <1>1, <1>4, <1>5

\* AppendWriteBuffer moves all of read_buffer_ behind write_buffer_.
LEMMA EchoInv ==
  ASSUME Inv, Echo PROVE Inv'
<1>0. /\ sent \in Bytes /\ received \in Bytes /\ inq \in Bytes
      /\ outq \in Bytes /\ read_buffer_ \in Bytes /\ write_buffer_ \in Bytes
      /\ write_size \in Nat /\ Len(read_buffer_) \in Nat
      /\ Len(write_buffer_) \in Nat
  BY LenProperties DEF Inv, TypeOK, Bytes
<1>1. /\ write_buffer_' = write_buffer_ \o read_buffer_ /\ read_buffer_' = <<>>
      /\ UNCHANGED <<wire, read_size, state_, armed>>
      /\ pc' \in {"mod", "rsend"}
  BY DEF Echo
<1>2. /\ write_buffer_' \in Bytes
      /\ Len(write_buffer_') = Len(write_buffer_) + Len(read_buffer_)
      /\ read_buffer_' \in Bytes /\ Len(read_buffer_') = 0
  BY <1>0, <1>1, Join, EmptySeq DEF Bytes
<1>3. write_size' \in Nat /\ Len(write_buffer_') <= write_size'
  BY <1>0, <1>2 DEF Echo, Larger
<1>4. TypeOK' /\ BuffersFit'
  BY <1>1, <1>2, <1>3 DEF Inv, TypeOK, BuffersFit, wire, Bytes
<1>5. Conservation'
  <2> DEFINE y == received \o outq
  <2>1. y \in Bytes /\ y \o write_buffer_' \in Bytes
    BY <1>0, <1>2, Join
  <2> HIDE DEF y
  <2>2. (y \o write_buffer_') \o read_buffer_' = (y \o write_buffer_) \o read_buffer_
    <3>1. (y \o write_buffer_') \o <<>> = y \o write_buffer_'
      BY <2>1, Join, Zenon
    <3>2. y \o (write_buffer_ \o read_buffer_)
            = (y \o write_buffer_) \o read_buffer_
      <4>1. write_buffer_ \in Bytes /\ read_buffer_ \in Bytes
        BY <1>0
      <4> QED
        BY <2>1, <4>1, Assoc, ZenonT(60)
    <3> QED
      BY <1>1, <3>1, <3>2, Zenon
  <2> QED
    BY <1>1, <2>2 DEF Inv, Conservation, wire, y
<1>6. DeliveredInv'
  BY <1>1 DEF Inv, DeliveredInv, wire
<1> QED
  BY <1>1, <1>4, <1>5, <1>6 DEF Inv, ClosedInv, Echo

\* send moves a part of write_buffer_ to the kernel and keeps the rest.
LEMMA SendInv ==
  ASSUME Inv, Send PROVE Inv'
<1>0. /\ sent \in Bytes /\ received \in Bytes /\ inq \in Bytes
      /\ outq \in Bytes /\ read_buffer_ \in Bytes /\ write_buffer_ \in Bytes
      /\ write_size \in Nat /\ Len(write_buffer_) \in Nat /\ Len(outq) \in Nat
  BY LenProperties DEF Inv, TypeOK, Bytes
<1>1. /\ UNCHANGED <<sent, received, peer, inq, read_buffer_, read_size,
                     write_size, armed>>
      /\ pc \in {"rsend", "wsend"} /\ pc' \in {"mod", "wait", "done"}
      /\ state_' = state_ \/ (state_' = "CLOSED" /\ pc' = "done")
      /\ \/ UNCHANGED <<write_buffer_, outq>>
         \/ \E n \in 1 .. Smaller(Len(write_buffer_), SndBuf - Len(outq)) :
               /\ outq' = outq \o First(write_buffer_, n)
               /\ write_buffer_' = Rest(write_buffer_, n)
  <2>1. \/ UNCHANGED <<write_buffer_, outq>>
        \/ \E n \in 1 .. Smaller(Len(write_buffer_), SndBuf - Len(outq)) :
               /\ outq' = outq \o First(write_buffer_, n)
               /\ write_buffer_' = Rest(write_buffer_, n)
    BY Zenon DEF Send, LeftPart
  <2>2. /\ UNCHANGED <<sent, received, peer, inq, read_buffer_, read_size,
                        write_size, armed>>
        /\ pc \in {"rsend", "wsend"} /\ pc' \in {"mod", "wait", "done"}
        /\ state_' = state_ \/ (state_' = "CLOSED" /\ pc' = "done")
    BY DEF Send
  <2> QED
    BY <2>1, <2>2, Zenon
<1>2. CASE UNCHANGED <<write_buffer_, outq>>
  BY <1>1, <1>2
  DEF Inv, TypeOK, BuffersFit, Conservation, DeliveredInv, ClosedInv
<1>3. ASSUME NEW n \in 1 .. Smaller(Len(write_buffer_), SndBuf - Len(outq)),
             outq' = outq \o First(write_buffer_, n),
             write_buffer_' = Rest(write_buffer_, n)
      PROVE  Inv'
  <2> DEFINE f == First(write_buffer_, n)
             r == Rest(write_buffer_, n)
  <2>1. n \in 0 .. Len(write_buffer_)
    BY <1>0, EchoAssumption DEF Smaller
  <2>2. /\ f \in Bytes /\ r \in Bytes /\ f \o r = write_buffer_
        /\ Len(r) = Len(write_buffer_) - n
    BY <1>0, <2>1, Cut
  <2>3. outq' = outq \o f /\ write_buffer_' = r /\ outq \o f \in Bytes
    BY <1>0, <1>3, <2>2, Join
  <2> HIDE DEF f, r
  <2>4. TypeOK'
    BY <1>1, <2>2, <2>3 DEF Inv, TypeOK, Bytes
  <2>5. BuffersFit'
    BY <1>0, <1>1, <2>1, <2>2, <2>3 DEF Inv, BuffersFit
  <2>6. (received \o outq') \o write_buffer_'
          = (received \o outq) \o write_buffer_
    <3>1. Cat(Cat(received, Cat(outq, f)), r)
            = Cat(Cat(received, outq), write_buffer_)
      BY <1>0, <2>1, Shift DEF f, r
    <3> QED
      BY <2>3, <3>1, Zenon DEF Cat
  <2>7. Conservation'
    BY <1>1, <2>6 DEF Inv, Conservation
  <2>8. DeliveredInv'
    <3>1. CASE state_ = "CONNECTED"
      <4> DEFINE x == (received \o outq') \o write_buffer_'
      <4>1. /\ received \o outq' \in Bytes /\ write_buffer_' \in Bytes
            /\ write_buffer_' \o (read_buffer_ \o inq) \in Bytes
            /\ read_buffer_ \o inq \in Bytes
        BY <1>0, <2>2, <2>3, Join
      <4>2. x \in Bytes
        BY <4>1, Join
      <4>3. sent = x \o read_buffer_ \o inq
        BY <2>6, <3>1 DEF Inv, Conservation
      <4> HIDE DEF x
      <4>4. sent = x \o (read_buffer_ \o inq)
        <5>1. read_buffer_ \in Bytes /\ inq \in Bytes
          BY <1>0
        <5>2. (x \o read_buffer_) \o inq = x \o (read_buffer_ \o inq)
          BY <4>2, <5>1, Assoc, ZenonT(60)
        <5> QED
          BY <4>3, <5>2
      <4> USE DEF x
      <4>5. x \o (read_buffer_ \o inq)
              = (received \o outq') \o (write_buffer_' \o (read_buffer_ \o inq))
        BY <4>1, Assoc, ZenonT(60)
      <4>6. sent' = received' \o outq' \o (write_buffer_' \o (read_buffer_ \o inq))
        BY <1>1, <4>4, <4>5, Zenon
      <4> QED
        BY <4>1, <4>6, Zenon DEF DeliveredInv
    <3>2. CASE state_ # "CONNECTED"
      BY <3>2 DEF Inv, TypeOK, ClosedInv, Send
    <3> QED
      BY <3>1, <3>2
  <2> QED
    BY <1>1, <2>4, <2>5, <2>7, <2>8 DEF Inv, ClosedInv
<1> QED
  BY <1>1, <1>2, <1>3

\* The steps that move no byte.
LEMMA ControlInv ==
  ASSUME Inv, Dispatch \/ CheckAndResizeReadBuffer \/ Rearm PROVE Inv'
<1>1. CASE Dispatch
  BY <1>1
  DEF Dispatch, Inv, TypeOK, Conservation, BuffersFit, DeliveredInv, ClosedInv,
      wire, buffers
<1>2. CASE Rearm
  BY <1>2
  DEF Rearm, Inv, TypeOK, Conservation, BuffersFit, DeliveredInv, ClosedInv,
      wire, buffers
<1>3. CASE CheckAndResizeReadBuffer
  <2>1. /\ read_size \in Nat /\ Len(read_buffer_) \in Nat
        /\ Len(read_buffer_) <= read_size
    BY LenProperties DEF Inv, TypeOK, BuffersFit
  <2>2. read_size' \in Nat /\ Len(read_buffer_) < read_size'
    BY <1>3, <2>1, EchoAssumption DEF CheckAndResizeReadBuffer, Larger
  <2>3. TypeOK' /\ BuffersFit'
    BY <1>3, <2>1, <2>2
    DEF CheckAndResizeReadBuffer, Inv, TypeOK, BuffersFit, wire
  <2> QED
    BY <1>3, <2>3
    DEF CheckAndResizeReadBuffer, Inv, Conservation, DeliveredInv, ClosedInv, wire
<1> QED
  BY <1>1, <1>2, <1>3

\* Every step keeps the invariant.
LEMMA NextInv == Inv /\ [Next]_vars => Inv'
<1> SUFFICES ASSUME Inv, [Next]_vars PROVE Inv'
  OBVIOUS
<1>1. CASE UNCHANGED vars
  BY <1>1
  DEF vars, wire, buffers, Inv, TypeOK, Conservation, BuffersFit, DeliveredInv,
      ClosedInv
<1>2. CASE Next
  BY <1>2, PeerInv, RecvCallInv, EchoInv, SendInv, ControlInv DEF Next, IoThread
<1> QED
  BY <1>1, <1>2

-----------------------------------------------------------------------------

\* The inductive invariant holds of every state of a connection.
THEOREM Invariance == Spec => []Inv
  BY InitInv, NextInv, PTL DEF Spec

\* Every variable keeps its type, for queues and data of any size.
THEOREM EchoTypeCorrect == Spec => []TypeOK
  BY Invariance, PTL DEF Inv

\* No byte is lost, repeated or reordered in read_buffer_ and write_buffer_
\* while the connection is up, however Recv and Send split the stream.
THEOREM BytesConserved == Spec => []Conservation
  BY Invariance, PTL DEF Inv

\* recv always has room for a byte and no index runs past its vector, because
\* CheckAndResizeReadBuffer and AppendWriteBuffer grow them in time.
THEOREM BuffersAlwaysFit == Spec => []BuffersFit
  BY Invariance, PTL DEF Inv

\* The connection implements EchoPipe: the peer only ever gets back a prefix of
\* what it has sent.
THEOREM ImplementsPipe == Spec => PipeSpec
<1>1. Init => Pipe!Init
  BY DEF Init, Pipe!Init
<1>2. Inv /\ [Next]_vars => [Pipe!Send \/ Pipe!Deliver]_<<sent, received>>
  <2> SUFFICES ASSUME Inv, [Next]_vars, <<sent, received>>' # <<sent, received>>
               PROVE  Pipe!Send \/ Pipe!Deliver
    OBVIOUS
  <2>0. sent \in Bytes /\ received \in Bytes /\ outq \in Bytes
    BY DEF Inv, TypeOK, Bytes
  <2>1. ASSUME NEW k \in 1 .. RcvBuf, PeerSend(k)
        PROVE  Pipe!Send
    <3> DEFINE data == [i \in 1 .. k |-> Len(sent) + i]
    <3>1. data \in Bytes
      BY <2>0, EchoAssumption DEF Bytes
    <3>2. sent' = sent \o data /\ UNCHANGED received
      BY <2>1 DEF PeerSend
    <3> HIDE DEF data
    <3> QED
      BY <2>0, <3>1, <3>2, PrefixOfJoin
      DEF Pipe!Send, IsPrefix, Pipe!IsPrefix
  <2>2. ASSUME PeerRecv PROVE Pipe!Deliver
    <3>1. PICK rest \in Bytes : sent = received \o outq \o rest
      BY DEF Inv, DeliveredInv
    <3>2. received' = received \o outq /\ received' \in Bytes /\ UNCHANGED sent
      BY <2>0, <2>2, Join DEF PeerRecv
    <3>3. IsPrefix(received, received')
      BY <2>0, <3>2, PrefixOfJoin
    <3>4. IsPrefix(received', sent)
      BY <3>1, <3>2, PrefixOfJoin
    <3> QED
      BY <3>2, <3>3, <3>4 DEF Pipe!Deliver, IsPrefix, Pipe!IsPrefix
  <2>3. PeerFinish \/ PeerReset \/ IoThread \/ UNCHANGED vars
          => UNCHANGED <<sent, received>>
    BY DEF PeerFinish, PeerReset, IoThread, Dispatch, CheckAndResizeReadBuffer,
           RecvCall, Echo, Send, Rearm, wire, vars
  <2> QED
    BY <2>1, <2>2, <2>3 DEF Next, Peer
<1> QED
  BY <1>1, <1>2, Invariance, PTL DEF Spec, PipeSpec, Pipe!Spec

-----------------------------------------------------------------------------
(* EPOLLOUT while output waits.  HandleWrite returns without re-registering *)
(* when send reports EAGAIN; this must not happen to it.                    *)

\* The room that epoll reported to HandleWrite is still there when it sends.
RoomInv == pc = "wsend" => Writable

\* Only send itself fills the send queue, and so the room stays.
LEMMA RoomNext ==
  ASSUME Inv, RoomInv, [Next]_vars PROVE RoomInv'
<1>0. SndBuf \in Nat \ {0}
  BY EchoAssumption
<1> USE DEF RoomInv, Writable
<1>1. CASE PeerRecv
  <2>1. outq' = <<>> /\ Len(<<>>) = 0
    BY <1>1, EmptySeq DEF PeerRecv
  <2> QED
    BY <1>0, <2>1
<1>2. CASE (\E k \in 1 .. RcvBuf : PeerSend(k)) \/ PeerFinish \/ PeerReset
  BY <1>2 DEF PeerSend, PeerFinish, PeerReset
<1>3. CASE Dispatch
  BY <1>3 DEF Dispatch, wire
<1>4. CASE CheckAndResizeReadBuffer \/ RecvCall \/ Echo \/ Send \/ Rearm
  <2>1. pc' # "wsend"
    BY <1>4 DEF CheckAndResizeReadBuffer, RecvCall, Echo, Send, Rearm
  <2> QED
    BY <2>1
<1>5. CASE UNCHANGED vars
  BY <1>5 DEF vars, wire
<1> QED
  BY <1>1, <1>2, <1>3, <1>4, <1>5 DEF Next, Peer, IoThread

\* Every way back to epoll_wait with output left goes through ModifyFd.
LEMMA ArmedNext ==
  ASSUME ~SpuriousWritable, RoomInv, PendingIsArmed, [Next]_vars
  PROVE  PendingIsArmed'
<1> USE DEF PendingIsArmed
<1>1. CASE Peer \/ UNCHANGED vars
  BY <1>1
  DEF Peer, PeerSend, PeerRecv, PeerFinish, PeerReset, buffers, vars
<1>2. CASE Send
  <2>1. pc' # "wait"
    BY <1>2 DEF Send, RoomInv
  <2> QED
    BY <2>1
<1>3. CASE Rearm
  BY <1>3 DEF Rearm, buffers
<1>4. CASE Dispatch \/ CheckAndResizeReadBuffer \/ RecvCall \/ Echo
  <2>1. pc' # "wait"
    BY <1>4 DEF Dispatch, CheckAndResizeReadBuffer, RecvCall, Echo
  <2> QED
    BY <2>1
<1> QED
  BY <1>1, <1>2, <1>3, <1>4 DEF Next, IoThread

\* Output that waits for room in the send queue always has EPOLLOUT registered,
\* so that HandleWrite will be called, if a socket that epoll reports writable
\* takes at least one byte.
THEOREM PendingAlwaysArmed == ~SpuriousWritable => (Spec => []PendingIsArmed)
<1> SUFFICES ASSUME ~SpuriousWritable PROVE Spec => []PendingIsArmed
  OBVIOUS
<1>1. Init => RoomInv /\ PendingIsArmed
  BY DEF Init, RoomInv, PendingIsArmed
<1>2. Inv /\ RoomInv /\ PendingIsArmed /\ [Next]_vars
        => RoomInv' /\ PendingIsArmed'
  BY RoomNext, ArmedNext
<1> QED
  BY Invariance, <1>1, <1>2, PTL DEF Spec

=============================================================================
