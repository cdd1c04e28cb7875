---------------------------- MODULE MCBoardWire -----------------------------
(***************************************************************************)
(* A small instance of BoardWire: one object of each type can be made under *)
(* either identifier, whole and fractional numbers, an absent fill colour,  *)
(* a user and a guest, and documents with one mistake each, at the top and  *)
(* inside points, sizes and geometries.                                     *)
(***************************************************************************)
EXTENDS BoardWire

CONSTANTS a, b, nul

MCPositions == {[x |-> 0, y |-> 3]}
MCSizes == {[width |-> 2, height |-> 5]}
Characters(s) == [chars |-> s]

MCTexts == {Characters(<<"t">>), Characters(<<"u">>)}
MCInvalid == Characters(<<>>)

Pen == [color |-> "black", thickness |-> 2]
Fills == {[stroke_color |-> "red", fill_color |-> f, stroke_width |-> w] :
            f \in {NoFill, "blue"}, w \in {3, 4}}
Font == [font_family |-> "Segoe UI", font_size |-> 36, color |-> "black"]
MCStyles == {Pen, Font} \cup Fills

MCPrincipals == {[kind |-> "registered_user", user_id |-> "u1"],
                 [kind |-> "guest", guest_id |-> "g1", nickname |-> "Ann"]}

P == CHOOSE p \in MCPositions : TRUE
S == CHOOSE s \in MCSizes : TRUE
Plain == [stroke_color |-> "red", fill_color |-> NoFill, stroke_width |-> 4]
Painted == [stroke_color |-> "red", fill_color |-> "blue", stroke_width |-> 3]

OrdersFor(i) ==
    {[op |-> "create_shape", id |-> i, pos |-> P, size |-> S, style |-> Plain,
      figure |-> 1, z |-> 1],
     [op |-> "create_shape", id |-> i, pos |-> P, size |-> S, style |-> Painted,
      figure |-> 3, z |-> 2],
     [op |-> "update_shape_geometry", id |-> i, pos |-> P, size |-> S],
     [op |-> "update_shape_style", id |-> i, style |-> Plain],
     [op |-> "create_text", id |-> i, pos |-> P, size |-> S, style |-> Font,
      text |-> Characters(<<"t">>), z |-> 1],
     [op |-> "update_text_content", id |-> i, text |-> Characters(<<"u">>)],
     [op |-> "update_text_content", id |-> i, text |-> Characters(<<>>)],
     [op |-> "update_text_style", id |-> i, style |-> Font],
     [op |-> "begin_stroke", id |-> i, style |-> Pen, start |-> P, z |-> 2],
     [op |-> "append_stroke_points", id |-> i, points |-> <<P, P>>],
     [op |-> "end_stroke", id |-> i],
     [op |-> "resize_object", id |-> i, size |-> S],
     [op |-> "delete_object", id |-> i]}

\* The other object is only made and deleted: enough to tell them apart.
MCOrders ==
    OrdersFor(a) \cup {c \in OrdersFor(b) : c.op \in Creations \cup {"delete_object"}}

Shape1 == ServerJson([op |-> "create_shape", id |-> a, pos |-> P, size |-> S,
                      style |-> Plain, figure |-> 2, z |-> 1])
Sized == ServerJson([op |-> "resize_object", id |-> a, size |-> S])
Stroked == ServerJson([op |-> "append_stroke_points", id |-> a, points |-> <<P, P>>])
Begun == ServerJson([op |-> "begin_stroke", id |-> a, style |-> Pen, start |-> P, z |-> 2])
Without(j, m) == <<"object", [n \in DOMAIN j[2] \ {m} |-> j[2][n]]>>
Text1(t) == ServerJson([op |-> "update_text_content", id |-> a, text |-> Characters(t)])

MCForeign ==
    {[Shape1 EXCEPT !.fields.shape_type = String("triangle")],
     [Shape1 EXCEPT !.fields = [f \in DOMAIN @ \ {"fill_color"} |-> @[f]]],
     [Shape1 EXCEPT !.fields.stroke_width = String("wide")],
     [Shape1 EXCEPT !.fields = [f \in DOMAIN @ \ {"z_index"} |-> @[f]]],
     [Shape1 EXCEPT !.type = "rotate"],
     [Shape1 EXCEPT !.fields.geometry = Without(@, "width")],
     [Shape1 EXCEPT !.fields.geometry[2].x = String("0")],
     [Shape1 EXCEPT !.fields.geometry[2].height = <<"int", 0>>],
     [Shape1 EXCEPT !.fields.geometry = <<"object", With(@[2], [depth |-> Null])>>],
     [Sized EXCEPT !.fields.size = <<"array", <<>>>>],
     [Sized EXCEPT !.fields.size = Without(@, "height")],
     [Begun EXCEPT !.fields.start_point[2].y = Null],
     [Stroked EXCEPT !.fields.points[2] = Append(@, Null)],
     [Stroked EXCEPT !.fields.points[2][1] = Without(@, "y")],
     [Stroked EXCEPT !.fields.points[2][1][2].x = <<"int", 0>>],
     Text1(<<"u", nul, "t">>), Text1(<<nul>>)}

MCSettings ==
    {[access_mode |-> 1, guest_policy |-> 1, password_hash |-> NoPassword],
     [access_mode |-> 2, guest_policy |-> 3, password_hash |-> "hash"]}

=============================================================================
