-------------------------- MODULE MCCollaboration --------------------------
(* Two clients that draw and erase on one board, and one that may delete it.*)
EXTENDS Collaboration

CONSTANTS
    b1, p1, p2

MCHandle(s, k, m) == Client!Handle(k, m)

MCNewClient == Elsewhere

\* Each session its own principal.
MCIdentity == [s \in Sessions |-> s]

\* Nothing distinguishes one object from another.
MCSymmetry == Permutations(ObjectIds)

\* A stroke of two points: begun, appended to, ended.
MCInk == {<<p1, p2>>}

=============================================================================
