--------------------------- MODULE MCBoardRuntime ---------------------------
(* BoardRuntime with a few handlers on a board of one stroke.              *)
EXTENDS BoardRuntime, Sequences

CONSTANTS s1, red, p1

\* A stroke is begun and deleted, the second needing the first; and one is
\* begun with a style that validation refuses.
MCCommands ==
    {[op |-> "begin_stroke", id |-> s1, style |-> Invalid, start |-> p1],
     [op |-> "begin_stroke", id |-> s1, style |-> red, start |-> p1],
     [op |-> "delete_object", id |-> s1]}

\* What is left of a join or of a mutex in a handler that has returned, or that
\* will overwrite it before it looks at it, makes no difference to anything.
Relevant ==
    <<store, runtime, epoch, pc, joined, acked, deletion,
      [h \in Handlers |-> IF pc[h] = "idle" THEN 0 ELSE mutex[h]],
      [h \in Handlers |->
          CASE pc[h] = "join_objects" -> <<read[h].revision>>
            [] pc[h] = "join_install" -> <<read[h]>>
            [] OTHER -> <<>>]>>

=============================================================================
