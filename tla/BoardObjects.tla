---------------------------- MODULE BoardObjects ----------------------------
(***************************************************************************)
(* The objects of a whiteboard and the eleven commands that change them,   *)
(* as pure operators.  BoardStateService::apply takes a snapshot by value  *)
(* and answers a changed copy or an error; here Failure(objects, c) is the *)
(* error it would answer and Apply(objects, c) the objects of the copy.    *)
(*                                                                         *)
(* Definitions marked Faulty are mutated copies of the one below them; no   *)
(* specification uses them, they show which mistakes the properties catch.   *)
(*                                                                         *)
(* Data is abstract.  A size stands for the width and height, a style for  *)
(* the colours, widths and fonts of a payload, a text for the content, a   *)
(* position for the upper left corner.  Invalid is the size, style or text *)
(* that validation refuses (a non-positive dimension, an empty string).    *)
(***************************************************************************)
EXTENDS Sequences, Naturals

CONSTANTS
    ObjectIds,      \* identifiers clients give to objects
    Positions,      \* upper left corners
    Sizes,          \* positive sizes
    Styles,         \* well-formed styles
    Texts,          \* non-empty texts
    Points,         \* points of a stroke
    Invalid         \* data that the validation of a payload refuses

ASSUME InvalidAssumption == Invalid \notin Sizes \cup Styles \cup Texts

-----------------------------------------------------------------------------
(* Objects *)

Stroke == [type : {"stroke"}, deleted : BOOLEAN,
           style : Styles, points : Seq(Points), finished : BOOLEAN]

Shape == [type : {"shape"}, deleted : BOOLEAN,
          pos : Positions, size : Sizes, style : Styles]

Text == [type : {"text"}, deleted : BOOLEAN,
         pos : Positions, size : Sizes, style : Styles, text : Texts]

BoardObject == Stroke \cup Shape \cup Text

\* No entry under this identifier in the map of objects.
NoObject == [type |-> "none"]

Objects == [ObjectIds -> BoardObject \cup {NoObject}]

NoObjects == [i \in ObjectIds |-> NoObject]

-----------------------------------------------------------------------------
(* Commands *)

BeginStroke == [op : {"begin_stroke"}, id : ObjectIds,
                style : Styles \cup {Invalid}, start : Points]
AppendStrokePoints == [op : {"append_stroke_points"}, id : ObjectIds,
                       points : Seq(Points)]
EndStroke == [op : {"end_stroke"}, id : ObjectIds]
CreateShape == [op : {"create_shape"}, id : ObjectIds, pos : Positions,
                size : Sizes \cup {Invalid}, style : Styles \cup {Invalid}]
UpdateShapeGeometry == [op : {"update_shape_geometry"}, id : ObjectIds,
                        pos : Positions, size : Sizes \cup {Invalid}]
UpdateShapeStyle == [op : {"update_shape_style"}, id : ObjectIds,
                     style : Styles \cup {Invalid}]
CreateText == [op : {"create_text"}, id : ObjectIds, pos : Positions,
               size : Sizes \cup {Invalid}, style : Styles \cup {Invalid},
               text : Texts \cup {Invalid}]
UpdateTextContent == [op : {"update_text_content"}, id : ObjectIds,
                      text : Texts \cup {Invalid}]
UpdateTextStyle == [op : {"update_text_style"}, id : ObjectIds,
                    style : Styles \cup {Invalid}]
ResizeObject == [op : {"resize_object"}, id : ObjectIds,
                 size : Sizes \cup {Invalid}]
DeleteObject == [op : {"delete_object"}, id : ObjectIds]

Command ==
    BeginStroke \cup AppendStrokePoints \cup EndStroke
      \cup CreateShape \cup UpdateShapeGeometry \cup UpdateShapeStyle
      \cup CreateText \cup UpdateTextContent \cup UpdateTextStyle
      \cup ResizeObject \cup DeleteObject

Creations == {"begin_stroke", "create_shape", "create_text"}

\* The type of object a command is meant for; resize and delete take any.
Target == [begin_stroke |-> "stroke", append_stroke_points |-> "stroke",
           end_stroke |-> "stroke", create_shape |-> "shape",
           update_shape_geometry |-> "shape", update_shape_style |-> "shape",
           create_text |-> "text", update_text_content |-> "text",
           update_text_style |-> "text"]

-----------------------------------------------------------------------------
(* Validation.  Errors are tested in the order of the code. *)

\* has_positive_size, has_positive_rect, has_non_empty_text and the positive
\* thickness and font size; a command without points to append is as bad.
Malformed(c) ==
    \/ "style" \in DOMAIN c /\ c.style = Invalid
    \/ "size" \in DOMAIN c /\ c.size = Invalid
    \/ "text" \in DOMAIN c /\ c.text = Invalid
    \/ "points" \in DOMAIN c /\ c.points = <<>>

\* (Faulty: a lookup that forgets is_deleted.)
ActiveOrDeleted(o) == o # NoObject

\* find_active_object answers null for a deleted object as for an absent one.
Active(o) == o # NoObject /\ ~o.deleted

\* A creation is validated before the identifier is looked up, and an
\* identifier stays taken after its object was deleted.
CreateFailure(o, c) ==
    IF Malformed(c) THEN "invalid_argument"
    ELSE IF o # NoObject THEN "already_exists" ELSE "ok"

\* (Faulty: the size of a resize is not validated.)
ResizeFailureUnchecked(o, c) ==
    IF o.type = "stroke" THEN "invalid_state" ELSE "ok"

ResizeFailure(o, c) ==
    IF Malformed(c) THEN "invalid_argument"
    ELSE IF o.type = "stroke" THEN "invalid_state" ELSE "ok"

\* (Faulty: "already finished" is not tested.)
UpdateFailureUnfinished(o, c) ==
    IF o.type # Target[c.op] THEN "invalid_state"
    ELSE IF Malformed(c) THEN "invalid_argument" ELSE "ok"

\* find_active_payload, then "already finished", then the payload.
UpdateFailure(o, c) ==
    IF o.type # Target[c.op] \/ (o.type = "stroke" /\ o.finished)
      THEN "invalid_state"
      ELSE IF Malformed(c) THEN "invalid_argument" ELSE "ok"

Failure(objects, c) ==
    LET o == objects[c.id] IN
    IF c.op \in Creations THEN CreateFailure(o, c)
    ELSE IF ~Active(o) THEN "not_found"
    ELSE IF c.op = "delete_object" THEN "ok"
    ELSE IF c.op = "resize_object" THEN ResizeFailure(o, c)
    ELSE UpdateFailure(o, c)

Accepts(objects, c) == Failure(objects, c) = "ok"

-----------------------------------------------------------------------------
(* Effect *)

NewStroke(c) ==
    [type |-> "stroke", deleted |-> FALSE, style |-> c.style,
     points |-> <<c.start>>, finished |-> FALSE]

NewShape(c) ==
    [type |-> "shape", deleted |-> FALSE, pos |-> c.pos,
     size |-> c.size, style |-> c.style]

NewText(c) ==
    [type |-> "text", deleted |-> FALSE, pos |-> c.pos,
     size |-> c.size, style |-> c.style, text |-> c.text]

Created(c) ==
    CASE c.op = "begin_stroke" -> NewStroke(c)
      [] c.op = "create_shape" -> NewShape(c)
      [] c.op = "create_text" -> NewText(c)

ChangedInk(o, c) ==
    IF c.op = "append_stroke_points" THEN [o EXCEPT !.points = @ \o c.points]
    ELSE [o EXCEPT !.finished = TRUE]

ChangedShape(o, c) ==
    IF c.op = "update_shape_geometry" THEN [o EXCEPT !.pos = c.pos, !.size = c.size]
    ELSE [o EXCEPT !.style = c.style]

ChangedText(o, c) ==
    IF c.op = "update_text_content" THEN [o EXCEPT !.text = c.text]
    ELSE [o EXCEPT !.style = c.style]

Changed(o, c) ==
    IF c.op = "delete_object" THEN [o EXCEPT !.deleted = TRUE]
    ELSE IF c.op = "resize_object" THEN [o EXCEPT !.size = c.size]
    ELSE CASE Target[c.op] = "stroke" -> ChangedInk(o, c)
           [] Target[c.op] = "shape" -> ChangedShape(o, c)
           [] Target[c.op] = "text" -> ChangedText(o, c)

\* (Faulty: ending a stroke ends every open stroke of the board.)
ApplyEndsAll(objects, c) ==
    [i \in ObjectIds |->
        IF c.op = "end_stroke" /\ objects[i].type = "stroke"
          THEN [objects[i] EXCEPT !.finished = TRUE]
        ELSE IF i # c.id THEN objects[i]
        ELSE IF c.op \in Creations THEN Created(c) ELSE Changed(objects[i], c)]

Apply(objects, c) ==
    [objects EXCEPT ![c.id] =
        IF c.op \in Creations THEN Created(c) ELSE Changed(@, c)]

=============================================================================
