--------------------------- MODULE BoundedRegistry ---------------------------
(***************************************************************************)
(* What the server promises about connections, whatever its threads do: a  *)
(* client that connects is admitted once, if there are fewer than Limit    *)
(* members, and is turned away only if there are not; a member leaves once *)
(* and does not come back.                                                 *)
(***************************************************************************)
EXTENDS Naturals, FiniteSets

CONSTANTS Client, Limit

VARIABLE status     \* of each client

Member == {c \in Client : status[c] = "member"}

Init == status = [c \in Client |-> "away"]

Become(c, old, new) == status[c] = old /\ status' = [status EXCEPT ![c] = new]

Connect(c) == Become(c, "away", "waiting")
Admit(c) == Become(c, "waiting", "member") /\ Cardinality(Member) < Limit
TurnAway(c) == Become(c, "waiting", "gone") /\ Cardinality(Member) >= Limit
Leave(c) == Become(c, "member", "gone")

Next == \E c \in Client : Connect(c) \/ Admit(c) \/ TurnAway(c) \/ Leave(c)

Spec == Init /\ [][Next]_status

=============================================================================
