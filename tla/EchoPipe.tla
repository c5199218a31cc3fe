------------------------------- MODULE EchoPipe -------------------------------
(***************************************************************************)
(* What the echo service promises a peer: it returns the bytes it was      *)
(* sent, unchanged and in order.                                           *)
(***************************************************************************)
EXTENDS SequencesExt

VARIABLES
    sent,       \* the bytes the peer has sent
    received    \* the bytes the peer has got back

Init == sent = <<>> /\ received = <<>>

Send == IsPrefix(sent, sent') /\ UNCHANGED received

Deliver ==
    /\ IsPrefix(received, received') /\ IsPrefix(received', sent)
    /\ UNCHANGED sent

Spec == Init /\ [][Send \/ Deliver]_<<sent, received>>

=============================================================================
