---------------------------- MODULE SharedBoard -----------------------------
(***************************************************************************)
(* What a board promises to the people who share it, with no word of how   *)
(* the server keeps it: it is there until it is destroyed, for good; every *)
(* change of what they see is one accepted command, and the revision       *)
(* counts the commands.  BoardRuntime is shown to implement it.            *)
(***************************************************************************)
EXTENDS Naturals

CONSTANTS
    Commands,           \* what clients may ask for
    Blank,              \* the objects of a board just created
    Accepts(_, _),      \* whether objects admit a command
    Apply(_, _)         \* and what it makes of them

VARIABLES
    alive,      \* the board exists for its users
    revision,   \* how many commands led to what they see
    objects     \* what they see

vars == <<alive, revision, objects>>

Init ==
    /\ alive = TRUE
    /\ revision = 0
    /\ objects = Blank

Edit(c) ==
    /\ alive
    /\ Accepts(objects, c)
    /\ objects' = Apply(objects, c)
    /\ revision' = revision + 1
    /\ UNCHANGED alive

Destroy ==
    /\ alive
    /\ alive' = FALSE
    /\ revision' = 0
    /\ objects' = Blank

Next == Destroy \/ \E c \in Commands : Edit(c)

Spec == Init /\ [][Next]_vars

=============================================================================
