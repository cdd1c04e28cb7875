--------------------------- MODULE MCBoardServer ---------------------------
(* BoardServer with two clients and a board.                                *)
EXTENDS BoardServerObserver

CONSTANTS
    b1, s1, red, p1, ann, bob

\* Strokes begun, the one command that an empty board accepts.
MCCommands == [op : {"begin_stroke"}, id : ObjectIds, style : Styles, start : Points]

\* Each session its own principal.
MCIdentity == [s \in Sessions |-> s]

=============================================================================
