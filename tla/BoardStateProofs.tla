-------------------------- MODULE BoardStateProofs --------------------------
(***************************************************************************)
(* What the commands of BoardObjects do to a map of objects, for every set *)
(* of identifiers and data; the form of induction that proofs about boards *)
(* use; and from these the proofs about BoardState, for any commands.  The *)
(* first part is what the proofs of the modules that use the objects of a  *)
(* board rest on too.                                                      *)
(***************************************************************************)
EXTENDS BoardState, WellFoundedInduction, SequenceTheorems, TLAPS

\* A well-formed creation command makes a board object.
LEMMA CreatedType ==
    ASSUME NEW c \in Command, c.op \in Creations, ~Malformed(c)
    PROVE  Created(c) \in BoardObject /\ ~Created(c).deleted
<1>1. CASE c \in BeginStroke
  <2>1. /\ c.op = "begin_stroke" /\ c.style \in Styles /\ c.start \in Points
    BY <1>1 DEF BeginStroke, Malformed
  <2>2. Created(c) = [type |-> "stroke", deleted |-> FALSE, style |-> c.style,
                      points |-> <<c.start>>, finished |-> FALSE]
    BY <2>1 DEF Created, NewStroke, NewShape, NewText
  <2>3. <<c.start>> \in Seq(Points)
    BY <2>1
  <2> QED BY <2>1, <2>2, <2>3 DEF BoardObject, Stroke
<1>2. CASE c \in CreateShape
  <2>1. /\ c.op = "create_shape" /\ c.style \in Styles /\ c.size \in Sizes
        /\ c.pos \in Positions
    BY <1>2 DEF CreateShape, Malformed
  <2>2. Created(c) = [type |-> "shape", deleted |-> FALSE, pos |-> c.pos,
                      size |-> c.size, style |-> c.style]
    BY <2>1 DEF Created, NewStroke, NewShape, NewText
  <2> QED BY <2>1, <2>2 DEF BoardObject, Shape
<1>3. CASE c \in CreateText
  <2>1. /\ c.op = "create_text" /\ c.style \in Styles /\ c.size \in Sizes
        /\ c.pos \in Positions /\ c.text \in Texts
    BY <1>3 DEF CreateText, Malformed
  <2>2. Created(c) = [type |-> "text", deleted |-> FALSE, pos |-> c.pos,
                      size |-> c.size, style |-> c.style, text |-> c.text]
    BY <2>1 DEF Created, NewStroke, NewShape, NewText
  <2> QED BY <2>1, <2>2 DEF BoardObject, Text
<1> QED
  BY <1>1, <1>2, <1>3 DEF Command, Creations, AppendStrokePoints, EndStroke,
     UpdateShapeGeometry, UpdateShapeStyle, UpdateTextContent,
     UpdateTextStyle, ResizeObject, DeleteObject

\* An update, resize or delete that is accepted keeps an object well formed
\* and of its type.
LEMMA ChangedType ==
    ASSUME NEW o \in BoardObject, NEW c \in Command, c.op \notin Creations,
           Active(o),
           \/ c.op = "delete_object"
           \/ c.op = "resize_object" /\ ResizeFailure(o, c) = "ok"
           \/ /\ c.op \notin {"delete_object", "resize_object"}
              /\ UpdateFailure(o, c) = "ok"
    PROVE  Changed(o, c) \in BoardObject /\ Changed(o, c).type = o.type
<1>1. CASE c \in AppendStrokePoints
  <2>1. c.op = "append_stroke_points" /\ c.points \in Seq(Points)
    BY <1>1 DEF AppendStrokePoints
  <2>2. o.type = "stroke"
    BY <2>1 DEF UpdateFailure, Target
  <2>3. o \in Stroke
    BY <2>2 DEF BoardObject, Stroke, Shape, Text
  <2>4. Changed(o, c) = [o EXCEPT !.points = @ \o c.points]
    BY <2>1 DEF Changed, ChangedInk, ChangedShape, ChangedText, Target
  <2>5. o.points \o c.points \in Seq(Points)
    BY <2>1, <2>3 DEF Stroke
  <2> QED BY <2>3, <2>4, <2>5 DEF BoardObject, Stroke
<1>2. CASE c \in EndStroke
  <2>1. c.op = "end_stroke"
    BY <1>2 DEF EndStroke
  <2>2. o.type = "stroke"
    BY <2>1 DEF UpdateFailure, Target
  <2>3. o \in Stroke
    BY <2>2 DEF BoardObject, Stroke, Shape, Text
  <2>4. Changed(o, c) = [o EXCEPT !.finished = TRUE]
    BY <2>1 DEF Changed, ChangedInk, ChangedShape, ChangedText, Target
  <2> QED BY <2>3, <2>4 DEF BoardObject, Stroke
<1>3. CASE c \in UpdateShapeGeometry
  <2>1. c.op = "update_shape_geometry" /\ c.pos \in Positions
    BY <1>3 DEF UpdateShapeGeometry
  <2>2. o.type = "shape" /\ ~Malformed(c)
    BY <2>1 DEF UpdateFailure, Target
  <2>3. o \in Shape
    BY <2>2 DEF BoardObject, Stroke, Shape, Text
  <2>4. c.size \in Sizes
    BY <1>3, <2>2 DEF UpdateShapeGeometry, Malformed
  <2>5. Changed(o, c) = [o EXCEPT !.pos = c.pos, !.size = c.size]
    BY <2>1 DEF Changed, ChangedInk, ChangedShape, ChangedText, Target
  <2> QED BY <2>1, <2>3, <2>4, <2>5 DEF BoardObject, Shape
<1>4. CASE c \in UpdateShapeStyle
  <2>1. c.op = "update_shape_style"
    BY <1>4 DEF UpdateShapeStyle
  <2>2. o.type = "shape" /\ ~Malformed(c)
    BY <2>1 DEF UpdateFailure, Target
  <2>3. o \in Shape
    BY <2>2 DEF BoardObject, Stroke, Shape, Text
  <2>4. c.style \in Styles
    BY <1>4, <2>2 DEF UpdateShapeStyle, Malformed
  <2>5. Changed(o, c) = [o EXCEPT !.style = c.style]
    BY <2>1 DEF Changed, ChangedInk, ChangedShape, ChangedText, Target
  <2> QED BY <2>3, <2>4, <2>5 DEF BoardObject, Shape
<1>5. CASE c \in UpdateTextContent
  <2>1. c.op = "update_text_content"
    BY <1>5 DEF UpdateTextContent
  <2>2. o.type = "text" /\ ~Malformed(c)
    BY <2>1 DEF UpdateFailure, Target
  <2>3. o \in Text
    BY <2>2 DEF BoardObject, Stroke, Shape, Text
  <2>4. c.text \in Texts
    BY <1>5, <2>2 DEF UpdateTextContent, Malformed
  <2>5. Changed(o, c) = [o EXCEPT !.text = c.text]
    BY <2>1 DEF Changed, ChangedInk, ChangedShape, ChangedText, Target
  <2> QED BY <2>3, <2>4, <2>5 DEF BoardObject, Text
<1>6. CASE c \in UpdateTextStyle
  <2>1. c.op = "update_text_style"
    BY <1>6 DEF UpdateTextStyle
  <2>2. o.type = "text" /\ ~Malformed(c)
    BY <2>1 DEF UpdateFailure, Target
  <2>3. o \in Text
    BY <2>2 DEF BoardObject, Stroke, Shape, Text
  <2>4. c.style \in Styles
    BY <1>6, <2>2 DEF UpdateTextStyle, Malformed
  <2>5. Changed(o, c) = [o EXCEPT !.style = c.style]
    BY <2>1 DEF Changed, ChangedInk, ChangedShape, ChangedText, Target
  <2> QED BY <2>3, <2>4, <2>5 DEF BoardObject, Text
<1>7. CASE c \in ResizeObject
  <2>1. c.op = "resize_object"
    BY <1>7 DEF ResizeObject
  <2>2. o.type # "stroke" /\ ~Malformed(c)
    BY <2>1 DEF ResizeFailure
  <2>3. o \in Shape \/ o \in Text
    BY <2>2 DEF BoardObject, Stroke
  <2>4. c.size \in Sizes
    BY <1>7, <2>2 DEF ResizeObject, Malformed
  <2>5. Changed(o, c) = [o EXCEPT !.size = c.size]
    BY <2>1 DEF Changed, ChangedInk, ChangedShape, ChangedText, Target
  <2> QED BY <2>3, <2>4, <2>5 DEF BoardObject, Shape, Text
<1>8. CASE c \in DeleteObject
  <2>1. c.op = "delete_object"
    BY <1>8 DEF DeleteObject
  <2>2. Changed(o, c) = [o EXCEPT !.deleted = TRUE]
    BY <2>1 DEF Changed, ChangedInk, ChangedShape, ChangedText, Target
  <2>3. o \in Stroke \/ o \in Shape \/ o \in Text
    BY DEF BoardObject
  <2> QED BY <2>2, <2>3 DEF BoardObject, Stroke, Shape, Text
<1> QED
  BY <1>1, <1>2, <1>3, <1>4, <1>5, <1>6, <1>7, <1>8
  DEF Command, Creations, BeginStroke, CreateShape, CreateText

\* An accepted command applied to well-formed objects leaves well-formed
\* objects.
THEOREM ApplyType ==
    ASSUME NEW objects \in Objects, NEW c \in Command, Accepts(objects, c)
    PROVE  Apply(objects, c) \in Objects
<1>1. c.id \in ObjectIds
  BY DEF Command, BeginStroke, AppendStrokePoints, EndStroke, CreateShape,
     UpdateShapeGeometry, UpdateShapeStyle, CreateText, UpdateTextContent,
     UpdateTextStyle, ResizeObject, DeleteObject
<1>2. CASE c.op \in Creations
  <2>1. ~Malformed(c)
    BY <1>2 DEF Accepts, Failure, CreateFailure
  <2>2. Created(c) \in BoardObject
    BY <1>2, <2>1, CreatedType
  <2>3. Apply(objects, c) = [objects EXCEPT ![c.id] = Created(c)]
    BY <1>1, <1>2 DEF Apply, Objects
  <2> QED BY <1>1, <2>2, <2>3 DEF Objects
<1>3. CASE c.op \notin Creations
  <2> DEFINE o == objects[c.id]
  <2>1. Active(o)
    BY <1>3 DEF Accepts, Failure
  <2>2. o \in BoardObject
    BY <1>1, <2>1 DEF Objects, Active
  <2>3. \/ c.op = "delete_object"
        \/ c.op = "resize_object" /\ ResizeFailure(o, c) = "ok"
        \/ /\ c.op \notin {"delete_object", "resize_object"}
           /\ UpdateFailure(o, c) = "ok"
    BY <1>3, <2>1 DEF Accepts, Failure
  <2> HIDE DEF o
  <2>4. Changed(o, c) \in BoardObject
    BY <1>3, <2>1, <2>2, <2>3, ChangedType
  <2>5. Apply(objects, c) = [objects EXCEPT ![c.id] = Changed(o, c)]
    BY <1>1, <1>3 DEF Apply, Objects, o
  <2> QED BY <1>1, <2>4, <2>5 DEF Objects
<1> QED BY <1>2, <1>3

\* A command touches the object it names and no other.
LEMMA ApplyElsewhere ==
    ASSUME NEW objs \in Objects, NEW c \in Command,
           NEW i \in ObjectIds, i # c.id
    PROVE  Apply(objs, c)[i] = objs[i]
BY DEF Apply, Objects

LEMMA ApplyHere ==
    ASSUME NEW objs \in Objects, NEW c \in Command
    PROVE  /\ c.id \in ObjectIds
           /\ Apply(objs, c)[c.id] = IF c.op \in Creations THEN Created(c)
                                     ELSE Changed(objs[c.id], c)
<1>1. c.id \in ObjectIds
  BY DEF Command, BeginStroke, AppendStrokePoints, EndStroke, CreateShape,
     UpdateShapeGeometry, UpdateShapeStyle, CreateText, UpdateTextContent,
     UpdateTextStyle, ResizeObject, DeleteObject
<1> QED BY <1>1 DEF Apply, Objects

\* Whether a command is accepted depends on the object it names alone.
LEMMA FailureLocal ==
    ASSUME NEW objs, NEW others, NEW c, objs[c.id] = others[c.id]
    PROVE  Accepts(objs, c) <=> Accepts(others, c)
BY DEF Accepts, Failure

-----------------------------------------------------------------------------
(* Induction *)

\* A set of numbers that is not empty has a least element: the induction of
\* these proofs, as a fact without operator parameters.
LEMMA Least ==
  ASSUME NEW T, T \subseteq Nat, T # {}
  PROVE \E x \in T : \A y \in T : x <= y
<1> DEFINE R == OpToRel(<, Nat)
<1>1. IsWellFoundedOn(R, Nat)
  BY NatLessThanWellFounded
<1>2. PICK x \in T : \A y \in T : ~ (<<y, x>> \in R)
  BY <1>1, WFMin
<1>3. ASSUME NEW y \in T, y < x PROVE FALSE
  <2>1. <<y, x>> \in R
    BY <1>3 DEF OpToRel
  <2> HIDE DEF R
  <2> QED BY <2>1, <1>2
<1>4. \A y \in T : x <= y
  BY <1>3
<1> QED BY <1>4

-----------------------------------------------------------------------------
(* The life of the objects *)

\* Every object on the board is well formed, whatever commands came.
THEOREM StateTypeCorrect == StateSpec => []StateTypeOK
<1>1. StateInit => StateTypeOK
  BY DEF StateInit, StateTypeOK, Objects, NoObjects
<1>2. StateTypeOK /\ [StateNext]_boardObjects => StateTypeOK'
  BY ApplyType, StateCommandsAssumption DEF StateTypeOK, StateNext, ApplyCommand
<1> QED BY <1>1, <1>2, PTL DEF StateSpec

\* Tombstones are final: no command is accepted for a deleted object, not
\* even a creation under its identifier.
THEOREM DeletedForeverHolds == StateSpec => DeletedForever
<1>1. ASSUME StateTypeOK, [StateNext]_boardObjects
      PROVE  [\A i \in ObjectIds :
                (boardObjects[i] # NoObject /\ boardObjects[i].deleted)
                   => boardObjects'[i] = boardObjects[i]]_boardObjects
  <2>1. CASE UNCHANGED boardObjects
    BY <2>1
  <2>2. ASSUME NEW c \in StateCommands, ApplyCommand(c),
               NEW i \in ObjectIds,
               boardObjects[i] # NoObject, boardObjects[i].deleted
        PROVE  boardObjects'[i] = boardObjects[i]
    <3>1. c \in Command
      BY StateCommandsAssumption
    <3>2. i # c.id
      BY <2>2 DEF ApplyCommand, Accepts, Failure, CreateFailure, Active
    <3> QED
      BY <1>1, <2>2, <3>1, <3>2, ApplyElsewhere DEF ApplyCommand, StateTypeOK
  <2> QED BY <1>1, <2>1, <2>2 DEF StateNext
<1> QED BY <1>1, StateTypeCorrect, PTL DEF StateSpec, DeletedForever

\* Accepted commands on different objects commute, for every pair of them.
THEOREM DistinctObjectsCommuteHolds == StateSpec => []DistinctObjectsCommute
<1>1. ASSUME StateTypeOK PROVE DistinctObjectsCommute
  <2> SUFFICES ASSUME NEW c \in StateCommands, NEW d \in StateCommands, c.id # d.id,
                      Accepts(boardObjects, c), Accepts(boardObjects, d)
               PROVE  /\ Accepts(Apply(boardObjects, c), d)
                      /\ Accepts(Apply(boardObjects, d), c)
                      /\ Apply(Apply(boardObjects, c), d)
                           = Apply(Apply(boardObjects, d), c)
    BY DEF DistinctObjectsCommute
  <2> DEFINE X == Apply(boardObjects, c)
             Y == Apply(boardObjects, d)
  <2>1. c \in Command /\ d \in Command /\ boardObjects \in Objects
    BY <1>1, StateCommandsAssumption DEF StateTypeOK
  <2>2. X \in Objects /\ Y \in Objects
    BY <2>1, ApplyType
  <2>3. /\ c.id \in ObjectIds /\ d.id \in ObjectIds
        /\ X[d.id] = boardObjects[d.id]
        /\ Y[c.id] = boardObjects[c.id]
    BY <2>1, ApplyElsewhere, ApplyHere
  <2>4. Accepts(X, d) /\ Accepts(Y, c)
    BY <2>3, FailureLocal
  <2>5. Apply(X, d) \in Objects /\ Apply(Y, c) \in Objects
    BY <2>1, <2>2, <2>4, ApplyType
  <2>6. ASSUME NEW i \in ObjectIds PROVE Apply(X, d)[i] = Apply(Y, c)[i]
    <3>1. CASE i = d.id
      <4>1. Apply(X, d)[i] = Y[i]
        BY <2>1, <2>2, <2>3, <3>1, ApplyHere
      <4>2. Apply(Y, c)[i] = Y[i]
        BY <2>1, <2>2, <3>1, ApplyElsewhere
      <4> QED BY <4>1, <4>2
    <3>2. CASE i = c.id
      <4>1. Apply(Y, c)[i] = X[i]
        BY <2>1, <2>2, <2>3, <3>2, ApplyHere
      <4>2. Apply(X, d)[i] = X[i]
        BY <2>1, <2>2, <3>2, ApplyElsewhere
      <4> QED BY <4>1, <4>2
    <3>3. CASE i # c.id /\ i # d.id
      BY <2>1, <2>2, <3>3, ApplyElsewhere
    <3> QED BY <3>1, <3>2, <3>3
  <2>7. Apply(X, d) = Apply(Y, c)
    <3> HIDE DEF X, Y
    <3> QED BY <2>5, <2>6 DEF Objects
  <2> QED BY <2>4, <2>7
<1> QED BY <1>1, StateTypeCorrect, PTL

\* Appended points leave the old ones where they are.
LEMMA ConcatExtends ==
    ASSUME NEW s \in Seq(Points), NEW t \in Seq(Points)
    PROVE  IsExtension(s, s \o t)
<1>1. Len(s) \in Nat /\ Len(t) \in Nat
  OBVIOUS
<1>2. Len(s \o t) = Len(s) + Len(t)
  BY ConcatProperties
<1>3. Len(s) <= Len(s \o t)
  BY <1>1, <1>2
<1>4. ASSUME NEW i \in 1 .. Len(s) PROVE (s \o t)[i] = s[i]
  <2>1. i \in 1 .. Len(s) + Len(t) /\ i <= Len(s)
    BY <1>1
  <2> QED BY <2>1, ConcatProperties
<1> QED BY <1>3, <1>4 DEF IsExtension

\* What an accepted command that is not a creation makes of a stroke.
LEMMA ChangedStroke ==
    ASSUME NEW o \in Stroke, NEW c \in Command, c.op \notin Creations,
           \/ c.op = "delete_object"
           \/ c.op = "resize_object" /\ ResizeFailure(o, c) = "ok"
           \/ /\ c.op \notin {"delete_object", "resize_object"}
              /\ UpdateFailure(o, c) = "ok"
    PROVE  LET new == Changed(o, c) IN
           /\ IsExtension(o.points, new.points)
           /\ new.style = o.style
           /\ o.finished => new.finished /\ new.points = o.points
<1> DEFINE new == Changed(o, c)
<1>1. o.type = "stroke" /\ o.points \in Seq(Points) /\ o.finished \in BOOLEAN
  BY DEF Stroke
<1>2. IsExtension(o.points, o.points)
  BY <1>1 DEF IsExtension
<1>3. CASE c \in DeleteObject
  <2>1. new = [o EXCEPT !.deleted = TRUE]
    BY <1>3 DEF DeleteObject, Changed
  <2> QED BY <1>1, <1>2, <2>1 DEF Stroke
<1>4. CASE c \in AppendStrokePoints
  <2>1. c.op = "append_stroke_points" /\ c.points \in Seq(Points)
    BY <1>4 DEF AppendStrokePoints
  <2>2. ~o.finished
    BY <1>1, <2>1 DEF UpdateFailure
  <2>3. new = [o EXCEPT !.points = @ \o c.points]
    BY <2>1 DEF Changed, ChangedInk, ChangedShape, ChangedText, Target
  <2>4. new.points = o.points \o c.points /\ new.style = o.style
    BY <2>3 DEF Stroke
  <2>5. IsExtension(o.points, o.points \o c.points)
    BY <1>1, <2>1, ConcatExtends
  <2> QED BY <2>2, <2>4, <2>5
<1>5. CASE c \in EndStroke
  <2>1. c.op = "end_stroke"
    BY <1>5 DEF EndStroke
  <2>2. ~o.finished
    BY <1>1, <2>1 DEF UpdateFailure
  <2>3. new = [o EXCEPT !.finished = TRUE]
    BY <2>1 DEF Changed, ChangedInk, ChangedShape, ChangedText, Target
  <2> QED BY <1>1, <1>2, <2>2, <2>3 DEF Stroke
<1>6. CASE c.op \in {"update_shape_geometry", "update_shape_style",
                    "update_text_content", "update_text_style"}
  BY <1>1, <1>6 DEF UpdateFailure, Target
<1>7. CASE c \in ResizeObject
  BY <1>1, <1>7 DEF ResizeObject, ResizeFailure
<1> QED
  BY <1>3, <1>4, <1>5, <1>6, <1>7
  DEF Command, Creations, BeginStroke, CreateShape, CreateText,
      UpdateShapeGeometry, UpdateShapeStyle, UpdateTextContent, UpdateTextStyle

\* Ink is append-only, and finished ink is final.
THEOREM InkIsAppendOnlyHolds == StateSpec => InkIsAppendOnly
<1> DEFINE Kept(old, new) ==
             /\ new # NoObject
             /\ new.type = old.type
             /\ old.type = "stroke" =>
                  /\ IsExtension(old.points, new.points)
                  /\ new.style = old.style
                  /\ old.finished => new.finished /\ new.points = old.points
<1>1. ASSUME StateTypeOK, [StateNext]_boardObjects
      PROVE  [\A i \in ObjectIds :
                boardObjects[i] # NoObject => Kept(boardObjects[i], boardObjects'[i])]_boardObjects
  <2>1. CASE UNCHANGED boardObjects
    BY <2>1
  <2>2. ASSUME NEW c \in StateCommands, ApplyCommand(c),
               NEW i \in ObjectIds, boardObjects[i] # NoObject
        PROVE  Kept(boardObjects[i], boardObjects'[i])
    <3> DEFINE o == boardObjects[i]
    <3>1. c \in Command /\ boardObjects \in Objects /\ o \in BoardObject
      BY <1>1, <2>2, StateCommandsAssumption DEF StateTypeOK, Objects
    <3>2. CASE i # c.id
      <4>1. boardObjects'[i] = o
        BY <2>2, <3>1, <3>2, ApplyElsewhere DEF ApplyCommand
      <4>2. o.type = "stroke" => IsExtension(o.points, o.points)
        <5> SUFFICES ASSUME o.type = "stroke"
                     PROVE  IsExtension(o.points, o.points)
          OBVIOUS
        <5>1. o.points \in Seq(Points)
          BY <3>1 DEF BoardObject, Stroke, Shape, Text
        <5> QED BY <5>1 DEF IsExtension
      <4> QED BY <2>2, <4>1, <4>2
    <3>3. CASE i = c.id
      <4>1. /\ c.op \notin Creations
            /\ Active(o)
            /\ \/ c.op = "delete_object"
               \/ c.op = "resize_object" /\ ResizeFailure(o, c) = "ok"
               \/ /\ c.op \notin {"delete_object", "resize_object"}
                  /\ UpdateFailure(o, c) = "ok"
        BY <2>2, <3>3 DEF ApplyCommand, Accepts, Failure, CreateFailure
      <4>2. boardObjects'[i] = Changed(o, c)
        BY <2>2, <3>1, <3>3, <4>1, ApplyHere DEF ApplyCommand
      <4>3. Changed(o, c) \in BoardObject /\ Changed(o, c).type = o.type
        BY <3>1, <4>1, ChangedType
      <4>4. Changed(o, c) # NoObject
        BY <4>3 DEF BoardObject, Stroke, Shape, Text, NoObject
      <4>5. o.type = "stroke" => o \in Stroke
        BY <3>1 DEF BoardObject, Stroke, Shape, Text
      <4> QED BY <3>1, <4>1, <4>2, <4>3, <4>4, <4>5, ChangedStroke
    <3> QED BY <3>2, <3>3
  <2> QED BY <1>1, <2>1, <2>2 DEF StateNext
<1> QED BY <1>1, StateTypeCorrect, PTL DEF StateSpec, InkIsAppendOnly

\* Applied a second time, every command but append_stroke_points is refused
\* or changes nothing: a client that has an operation in the snapshot it
\* joined with, and then gets the operation's broadcast, is misled only by
\* appended ink.
THEOREM RepeatChangesNothing ==
    ASSUME NEW objs \in Objects, NEW c \in Command, Accepts(objs, c),
           c.op # "append_stroke_points",
           Accepts(Apply(objs, c), c)
    PROVE  Apply(Apply(objs, c), c) = Apply(objs, c)
<1> DEFINE once == Apply(objs, c)
           o == objs[c.id]
<1>1. once \in Objects /\ c.id \in ObjectIds
  BY ApplyType, ApplyHere
<1>2. c.op \notin Creations
  <2>1. SUFFICES ASSUME c.op \in Creations PROVE FALSE
    OBVIOUS
  <2>2. once[c.id] = NoObject
    BY <2>1 DEF Accepts, Failure, CreateFailure
  <2>3. once[c.id] \in BoardObject
    BY <2>1, ApplyHere, CreatedType DEF Accepts, Failure, CreateFailure
  <2> QED
    BY <2>2, <2>3 DEF NoObject, BoardObject, Stroke, Shape, Text
<1>3. Active(o) /\ Active(once[c.id])
  BY <1>2 DEF Accepts, Failure
<1>4. once[c.id] = Changed(o, c)
  BY <1>2, ApplyHere
<1>5. o \in BoardObject
  BY <1>1, <1>3 DEF Objects, Active
<1>6. c.op # "delete_object"
  <2>1. SUFFICES ASSUME c.op = "delete_object" PROVE FALSE
    OBVIOUS
  <2>2. Changed(o, c) = [o EXCEPT !.deleted = TRUE]
    BY <2>1 DEF Changed, ChangedInk, ChangedShape, ChangedText, Target
  <2>3. Changed(o, c).deleted
    BY <1>5, <2>2 DEF BoardObject, Stroke, Shape, Text
  <2> QED BY <1>3, <1>4, <2>3 DEF Active
<1>7. Changed(Changed(o, c), c) = Changed(o, c)
  <2>1. CASE c.op = "end_stroke"
    <3>1. \A x : Changed(x, c) = [x EXCEPT !.finished = TRUE]
      BY <2>1 DEF Changed, ChangedInk, ChangedShape, ChangedText, Target
    <3>2. o \in Stroke
      BY <1>3, <1>5, <2>1 DEF Accepts, Failure, UpdateFailure, Creations, Target,
         BoardObject, Shape, Text
    <3>3. /\ Changed(o, c) = [o EXCEPT !.finished = TRUE]
          /\ Changed(Changed(o, c), c) = [Changed(o, c) EXCEPT !.finished = TRUE]
      BY <3>1
    <3>4. [[o EXCEPT !.finished = TRUE] EXCEPT !.finished = TRUE]
             = [o EXCEPT !.finished = TRUE]
      BY <3>2 DEF Stroke
    <3> QED BY <3>3, <3>4
  <2>2. CASE c.op = "update_shape_geometry"
    <3> DEFINE moved == [type |-> o.type, deleted |-> o.deleted, pos |-> c.pos,
                         size |-> c.size, style |-> o.style]
    <3>1. o \in Shape
      BY <1>3, <1>5, <2>2 DEF Accepts, Failure, UpdateFailure, Creations, Target,
         BoardObject, Stroke, Text
    <3>2. \A x : Changed(x, c) = ChangedShape(x, c)
      BY <2>2 DEF Changed, Target
    <3>3. ChangedShape(o, c) = moved
      BY <2>2, <3>1 DEF ChangedShape, Shape
    <3>4. ChangedShape(moved, c) = moved
      BY <2>2 DEF ChangedShape
    <3> QED BY <3>2, <3>3, <3>4
  <2>3. CASE c.op = "resize_object"
    <3>1. \A x : Changed(x, c) = [x EXCEPT !.size = c.size]
      BY <2>3 DEF Changed, ChangedInk, ChangedShape, ChangedText, Target
    <3>2. CASE o \in Stroke
      BY <3>1, <3>2 DEF Stroke
    <3>3. CASE o \in Shape
      BY <3>1, <3>3 DEF Shape
    <3>4. CASE o \in Text
      BY <3>1, <3>4 DEF Text
    <3> QED BY <1>5, <3>2, <3>3, <3>4 DEF BoardObject
  <2>4. CASE c.op = "update_text_content"
    <3>1. \A x : Changed(x, c) = [x EXCEPT !.text = c.text]
      BY <2>4 DEF Changed, ChangedInk, ChangedShape, ChangedText, Target
    <3> QED BY <1>5, <3>1 DEF BoardObject, Stroke, Shape, Text
  <2>5. CASE c.op \in {"update_shape_style", "update_text_style"}
    <3>1. \A x : Changed(x, c) = [x EXCEPT !.style = c.style]
      BY <2>5 DEF Changed, ChangedInk, ChangedShape, ChangedText, Target
    <3> QED BY <1>5, <3>1 DEF BoardObject, Stroke, Shape, Text
  <2> QED
    BY <1>2, <1>6, <2>1, <2>2, <2>3, <2>4, <2>5
    DEF Command, Creations, BeginStroke, AppendStrokePoints, EndStroke,
        CreateShape, UpdateShapeGeometry, UpdateShapeStyle, CreateText,
        UpdateTextContent, UpdateTextStyle, ResizeObject, DeleteObject
<1>8. Apply(once, c) = [once EXCEPT ![c.id] = Changed(once[c.id], c)]
  BY <1>1, <1>2 DEF Apply, Objects
<1>9. Changed(once[c.id], c) = once[c.id]
  BY <1>4, <1>7
<1>10. Apply(once, c) = once
  <2> HIDE DEF once
  <2> QED BY <1>1, <1>8, <1>9 DEF Objects
<1> QED BY <1>10

=============================================================================
