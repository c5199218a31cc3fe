------------------------------ MODULE MCReactor ------------------------------
(***************************************************************************)
(* Instances of Reactor for TLC.                                           *)
(***************************************************************************)
EXTENDS Reactor, TLC

\* Clients and descriptors start alike, are never ordered, and accept may
\* take any free descriptor.
Symmetry == Permutations(Client) \cup Permutations(Fd)

=============================================================================
