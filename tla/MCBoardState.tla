---------------------------- MODULE MCBoardState ----------------------------
(* BoardState on two objects and all eleven commands, valid and not. *)
EXTENDS BoardState, FiniteSets

CONSTANT MaxInk             \* bound on the points of a stroke

\* The appends a client sends: at most one point each, none being refused.
MCAppends == [op : {"append_stroke_points"}, id : ObjectIds,
              points : {<<>>} \cup {<<p>> : p \in Points}]

MCCommands == UNION {BeginStroke, MCAppends, EndStroke,
                     CreateShape, UpdateShapeGeometry, UpdateShapeStyle,
                     CreateText, UpdateTextContent, UpdateTextStyle,
                     ResizeObject, DeleteObject}

InkBound ==
    \A i \in ObjectIds :
        boardObjects[i] \in Stroke => Len(boardObjects[i].points) <= MaxInk

MCNext == \E c \in StateCommands : ApplyCommand(c) /\ InkBound'

MCSpec == StateInit /\ [][MCNext]_boardObjects

=============================================================================
