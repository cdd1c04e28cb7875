----------------------------- MODULE BoardWire ------------------------------
(***************************************************************************)
(* The forms that a board takes outside the memory of the server.  A       *)
(* command arrives as JSON, from the Qt client or from another one; the    *)
(* server reads and applies it, keeps the objects and the command in rows  *)
(* of the database, and sends the command on, as JSON, to the clients on   *)
(* the board, which apply it to what they show.  Somebody who joins later  *)
(* reads the objects themselves from JSON, and a server that starts again  *)
(* reads them from the rows.  Each writer and each reader is written by    *)
(* hand, one field after the other, and nothing but their agreement makes  *)
(* all of these the same board.                                            *)
(*                                                                         *)
(* A JSON value is a pair of its kind and its content.  JSON has one kind  *)
(* of number and the libraries two: a number written without a fraction is *)
(* read as an integer.  Boost writes 1.0 as 1E0, which is read as a double *)
(* again; Qt writes 1, and jsonb turns 1E0 into 1.  Numbers are counted in *)
(* halves.  Strings are opaque, except that a text may hold a null         *)
(* character, at which as_string().c_str() cuts it.  An enumeration is a   *)
(* number in memory and a name outside.                                    *)
(*                                                                         *)
(* One action is the whole way of a command: what happens between its      *)
(* steps is the matter of BoardRuntime and BoardServer.                    *)
(***************************************************************************)
EXTENDS BoardObjects, Integers, FiniteSets, SequencesExt

CONSTANTS
    Principals,     \* registered users and guests
    Orders,         \* commands that users mean, each with z and figure
    Foreign,        \* JSON that no client writes
    Settings,       \* access_mode, guest_policy and password_hash of the board
    Nul,            \* the null character
    NoFill,         \* a shape without fill colour
    NoPassword,     \* a board without password
    TicksPerMilli,  \* the clock is finer than what is written of it
    MaxTime,        \* bound: ticks of the clock
    MaxOps          \* bound: operations on the board

ASSUME ClockAssumption == TicksPerMilli \in Nat \ {0}

ASSUME PrincipalsAssumption ==
    \A p \in Principals :
        \/ /\ p.kind = "registered_user"
           /\ p = [kind |-> "registered_user", user_id |-> p.user_id]
        \/ /\ p.kind = "guest"
           /\ p = [kind |-> "guest", guest_id |-> p.guest_id, nickname |-> p.nickname]

VARIABLES
    board,          \* the Board of the runtime
    boardRow,       \* boards
    entries,        \* snapshot_.objects of the runtime, with what surrounds them
    rows,           \* board_objects
    log,            \* board_operations
    follower,       \* the objects of a client that is on the board
    meant,          \* history: the commands as they were meant
    time            \* the clock of the server

vars == <<board, boardRow, entries, rows, log, follower, meant, time>>

NoEntry == [object |-> NoObject]

\* The members of both.
With(r, more) ==
    [k \in DOMAIN r \cup DOMAIN more |-> IF k \in DOMAIN r THEN r[k] ELSE more[k]]

\* The first place of a value in a sequence, 0 if it has none.
Place(seq, v) == SelectInSeq(seq, LAMBDA w : w = v)

-----------------------------------------------------------------------------
(* Names of enumerations. *)

Names ==
    [access_mode |-> <<"private_board", "password_protected">>,
     guest_policy |-> <<"guest_disabled", "guest_view_only", "guest_edit_allowed">>,
     shape_type |-> <<"rectangle", "ellipse", "line">>]

Figures == DOMAIN Names.shape_type

\* to_string
Name(enum, v) == Names[enum][v]

\* 0 is no value of any enumeration: the server and the database refuse a name
\* that they do not know.
Named(enum, s) == Place(Names[enum], s)

\* The client takes it for the first of its values.
ClientNamed(enum, s) == IF Named(enum, s) = 0 THEN 1 ELSE Named(enum, s)

-----------------------------------------------------------------------------
(* JSON values *)

Whole(n) == n % 2 = 0

String(s) == <<"string", s>>
Null == <<"null">>

\* A number as "boost", "qt" or "jsonb" writes it.
Number(writer, n) == <<IF writer # "boost" /\ Whole(n) THEN "int" ELSE "double", n>>

NumberFields == {"thickness", "stroke_width", "font_size"}
StyleFields == NumberFields \cup {"color", "stroke_color", "fill_color", "font_family"}
PlaneFields == {"position", "size", "start_point", "geometry"}

\* The other fields, by the names they have in BoardObjects.
Member == [object_id |-> "id", position |-> "pos", size |-> "size", text |-> "text",
           start_point |-> "start", points |-> "points", finished |-> "finished",
           shape_type |-> "figure", z_index |-> "z"]

\* point_to_json, size_to_json, rect_to_json: an object of numbers.
Numbers(r, writer) == <<"object", [m \in DOMAIN r |-> Number(writer, r[m])]>>

\* The JSON of a value, by the field it is for.
Json(f, v, writer) ==
    CASE f \in NumberFields -> Number(writer, v)
      [] f = "z_index" -> <<"int", v>>
      [] f = "finished" -> <<"bool", v>>
      [] f \in PlaneFields -> Numbers(v, writer)
      [] f = "points" -> <<"array", [i \in DOMAIN v |-> Numbers(v[i], writer)]>>
      [] f = "fill_color" -> IF v = NoFill THEN Null ELSE String(v)
      [] f = "shape_type" -> String(Name(f, v))
      [] OTHER -> String(v)

Value(c, f) ==
    CASE f = "geometry" -> [x |-> c.pos.x, y |-> c.pos.y,
                            width |-> c.size.width, height |-> c.size.height]
      [] f \in StyleFields -> c.style[f]
      [] OTHER -> c[Member[f]]

\* A JSON object with these fields of c.
Document(type, c, fields, writer) ==
    [type |-> type, fields |-> [f \in fields |-> Json(f, Value(c, f), writer)]]

\* std::string(s.as_string().c_str())
CString(s) ==
    LET cut == Place(s.chars, Nul) IN
    IF cut = 0 THEN s ELSE [chars |-> SubSeq(s.chars, 1, cut - 1)]

NumberKinds == {"int", "double"}

\* The numbers in a value of the field; of points, in each of them.
Axes(f) ==
    CASE f = "geometry" -> {"x", "y", "width", "height"}
      [] f = "size" -> {"width", "height"}
      [] OTHER -> {"x", "y"}

HasNumber(j, m) == j[1] = "object" /\ m \in DOMAIN j[2] /\ j[2][m][1] \in NumberKinds

Plane(f, j) == [m \in Axes(f) |-> j[2][m][2]]

\* What is read of a value that is well typed.
Content(f, j) ==
    CASE f \in PlaneFields -> Plane(f, j)
      [] f = "points" -> [i \in DOMAIN j[2] |-> Plane(f, j[2][i])]
      [] f = "fill_color" -> IF j = Null THEN NoFill ELSE j[2]
      [] f = "text" -> CString(j[2])
      [] f = "shape_type" -> Named(f, j[2])
      [] OTHER -> j[2]

\* expect_string, expect_double, ...: the kinds that a field may have.
Kinds(f) ==
    CASE f \in NumberFields -> NumberKinds
      [] f = "z_index" -> {"int"}
      [] f = "finished" -> {"bool"}
      [] f \in PlaneFields -> {"object"}
      [] f = "points" -> {"array"}
      [] f = "fill_color" -> {"string", "null"}
      [] OTHER -> {"string"}

\* ... and point_from_json, size_from_json, rect_from_json, which look inside.
WellTyped(f, j) ==
    /\ j[1] \in Kinds(f)
    /\ f \in PlaneFields => \A m \in Axes(f) : HasNumber(j, m)
    /\ f = "points" => \A i \in DOMAIN j[2], m \in Axes(f) : HasNumber(j[2][i], m)

\* The members that fields fill, and what the values of the fields make them.
Members(fields) ==
    {Member[f] : f \in fields \cap DOMAIN Member}
      \cup {"style" : f \in fields \cap StyleFields}
      \cup UNION {{"pos", "size"} : f \in fields \cap {"geometry"}}

Parts(v) ==
    [k \in Members(DOMAIN v) |->
        CASE k = "style" -> [f \in DOMAIN v \cap StyleFields |-> v[f]]
          [] k = "pos" /\ "geometry" \in DOMAIN v ->
               [x |-> v.geometry.x, y |-> v.geometry.y]
          [] k = "size" /\ "geometry" \in DOMAIN v ->
               [width |-> v.geometry.width, height |-> v.geometry.height]
          [] OTHER -> v[CHOOSE f \in DOMAIN v \cap DOMAIN Member : Member[f] = k]]

\* What a reader of commands returns that throws.
Refused == [op |-> "refused"]

\* A reader that throws at an absent field, a value that is not well typed and
\* an unknown name.
Strict(json, fields, optional) ==
    LET Has(f) == f \in DOMAIN json.fields
        Wrong(f) == IF Has(f) THEN ~WellTyped(f, json.fields[f]) ELSE f \notin optional
        Read(f) == IF Has(f) THEN Content(f, json.fields[f]) ELSE NoFill
    IN  IF \/ \E f \in fields : Wrong(f)
           \/ "shape_type" \in fields /\ Read("shape_type") = 0
          THEN Refused ELSE Parts([f \in fields |-> Read(f)])

Origin(f) == [m \in Axes(f) |-> 0]

\* What Qt gives for an absent field.
Default(f) ==
    CASE f \in NumberFields \cup {"z_index"} -> 0
      [] f = "finished" -> FALSE
      [] f = "points" -> <<>>
      [] f = "text" -> [chars |-> <<>>]
      [] f \in PlaneFields -> Origin(f)
      [] f = "shape_type" -> 1
      [] OTHER -> ""

\* toObject() gives an empty object for what is none, value(m).toDouble() 0.
ClientPlane(f, j) ==
    [m \in Axes(f) |-> IF HasNumber(j, m) THEN j[2][m][2] ELSE 0]

\* (Faulty: the colour of a shape without fill is read as an empty string.)
ClientContentFilled(f, j) ==
    CASE f = "fill_color" /\ j = Null -> ""
      [] f = "shape_type" -> ClientNamed(f, j[2])
      [] f = "text" -> j[2]
      [] OTHER -> Content(f, j)

\* toDouble(), toString(), ... take a default for a value of another kind.
ClientContent(f, j) ==
    CASE j[1] \notin Kinds(f) -> Default(f)
      [] j[1] \in Kinds(f) /\ f = "shape_type" -> ClientNamed(f, j[2])
      [] j[1] \in Kinds(f) /\ f = "text" -> j[2]
      [] j[1] \in Kinds(f) /\ f \in PlaneFields -> ClientPlane(f, j)
      [] j[1] \in Kinds(f) /\ f = "points" ->
           [i \in DOMAIN j[2] |-> ClientPlane(f, j[2][i])]
      [] OTHER -> Content(f, j)

Lenient(json, fields) ==
    Parts([f \in fields |-> IF f \in DOMAIN json.fields
                              THEN ClientContent(f, json.fields[f]) ELSE Default(f)])

-----------------------------------------------------------------------------
(* Commands *)

CommandFields ==
    [create_shape |-> {"object_id", "shape_type", "geometry", "stroke_color",
                       "fill_color", "stroke_width", "z_index"},
     create_text |-> {"object_id", "position", "size", "text", "font_family",
                      "font_size", "color", "z_index"},
     begin_stroke |-> {"object_id", "color", "thickness", "start_point", "z_index"},
     append_stroke_points |-> {"object_id", "points"},
     end_stroke |-> {"object_id"},
     update_shape_geometry |-> {"object_id", "geometry"},
     update_shape_style |-> {"object_id", "stroke_color", "fill_color", "stroke_width"},
     update_text_content |-> {"object_id", "text"},
     update_text_style |-> {"object_id", "font_family", "font_size", "color"},
     resize_object |-> {"object_id", "size"},
     delete_object |-> {"object_id"}]

\* BoardOperationBuilder: the user draws rectangles without fill, texts and
\* strokes, and deletes; the rest of the commands it has no writer for.
Drawable(c) ==
    \/ c.op \in {"create_text", "begin_stroke", "append_stroke_points",
                 "end_stroke", "delete_object"}
    \/ /\ c.op = "create_shape"
       /\ Name("shape_type", c.figure) = "rectangle" /\ c.style.fill_color = NoFill

BuilderJson(c) == Document(c.op, c, CommandFields[c.op], "qt")

\* What the server sends on, and what another client written with Boost sends.
ServerJson(c) == Document(c.op, c, CommandFields[c.op], "boost")

\* (Faulty: the order of drawing is not written.)
PostgresJsonFlat(c) == Document(c.op, c, CommandFields[c.op] \ {"z_index"}, "jsonb")

\* What is in the log after PostgreSQL has normalised the numbers.
PostgresJson(c) == Document(c.op, c, CommandFields[c.op], "jsonb")

StrictCommand(json, optional) ==
    IF json.type \notin DOMAIN CommandFields THEN Refused
    ELSE LET parts == Strict(json, CommandFields[json.type], optional) IN
         IF parts = Refused THEN Refused ELSE With(parts, [op |-> json.type])

\* (Faulty: the server looks at the kind of a field only, and takes what is missing
\* inside it for zero, as the client does.)
ShallowCommand(json) ==
    LET Wrong(f) == IF f \in DOMAIN json.fields THEN json.fields[f][1] \notin Kinds(f)
                    ELSE f # "fill_color"
    IN  IF json.type \notin DOMAIN CommandFields \/ \E f \in CommandFields[json.type] : Wrong(f)
          THEN Refused
          ELSE With(Lenient(json, CommandFields[json.type]), [op |-> json.type])

\* operation_payload_from_json of the server; fill_color may be absent.
ServerCommand(json) == StrictCommand(json, {"fill_color"})

\* ... of the database
PostgresCommand(json) == StrictCommand(json, {})

\* ... of the client, to which every other command is a deletion
ClientCommand(json) ==
    LET op == IF json.type \in DOMAIN CommandFields THEN json.type ELSE "delete_object"
    IN  With(Lenient(json, CommandFields[op]), [op |-> op])

-----------------------------------------------------------------------------
(* Principals and times *)

PrincipalJson(p) ==
    IF p.kind = "registered_user"
      THEN [type |-> "registered_user", user_id |-> p.user_id]
      ELSE [type |-> "guest", guest_id |-> p.guest_id, nickname |-> p.nickname]

ClientPrincipal(json) ==
    IF json.type = "guest"
      THEN [kind |-> "guest", guest_id |-> json.guest_id, nickname |-> json.nickname]
      ELSE [kind |-> "registered_user", user_id |-> json.user_id]

\* (Faulty: no nickname is kept.)
ColumnsNameless(p) ==
    <<p.kind, IF p.kind = "registered_user" THEN p.user_id ELSE p.guest_id, Null>>

\* The columns type, key and nickname; the nickname of a user is NULL.
Columns(p) ==
    IF p.kind = "registered_user" THEN <<p.kind, p.user_id, Null>>
    ELSE <<p.kind, p.guest_id, String(p.nickname)>>

FromColumns(columns) ==
    IF columns[1] = "registered_user"
      THEN [kind |-> "registered_user", user_id |-> columns[2]]
      ELSE [kind |-> "guest", guest_id |-> columns[2],
            nickname |-> IF columns[3] = Null THEN "" ELSE columns[3][2]]

ToMillis(t) == t \div TicksPerMilli
FromMillis(ms) == ms * TicksPerMilli
Truncated(t) == FromMillis(ToMillis(t))

-----------------------------------------------------------------------------
(* Objects *)

PayloadFields ==
    [stroke |-> {"color", "thickness", "points", "finished"},
     shape |-> {"shape_type", "geometry", "stroke_color", "fill_color", "stroke_width"},
     text |-> {"position", "size", "text", "font_family", "font_size", "color"}]

\* What BoardStateService::apply makes of an object and what surrounds it.
ApplyAt(table, c, by, at) ==
    LET object == Apply([i \in ObjectIds |-> table[i].object], c)[c.id] IN
    [table EXCEPT ![c.id] =
        IF c.op \in Creations
          THEN [object |-> object, z |-> c.z, by |-> by, created |-> at, updated |-> at,
                figure |-> IF c.op = "create_shape" THEN c.figure ELSE 0]
          ELSE [@ EXCEPT !.object = object, !.updated = at]]

Payload(e, writer) ==
    Document(e.object.type, With(e.object, [figure |-> e.figure]),
             PayloadFields[e.object.type], writer)

\* (Faulty: what was deleted is not read.)
ObjectRevived(type, deleted, parts) ==
    With([k \in DOMAIN parts \ {"figure"} |-> parts[k]], [type |-> type, deleted |-> FALSE])

Object(type, deleted, parts) ==
    With([k \in DOMAIN parts \ {"figure"} |-> parts[k]],
         [type |-> type, deleted |-> deleted])

Figure(parts) == IF "figure" \in DOMAIN parts THEN parts.figure ELSE 0

\* to_json(BoardObject)
ServerObject(e) ==
    [created_by |-> PrincipalJson(e.by), created_at |-> ToMillis(e.created),
     updated_at |-> ToMillis(e.updated), is_deleted |-> e.object.deleted,
     z_index |-> e.z, payload |-> Payload(e, "boost")]

\* board_object_from_json: a payload of another type is that of a shape.
ClientObject(json) ==
    LET type == IF json.payload.type \in {"stroke", "text"} THEN json.payload.type ELSE "shape"
        parts == Lenient(json.payload, PayloadFields[type])
    IN  [object |-> Object(type, json.is_deleted, parts), figure |-> Figure(parts),
         z |-> json.z_index, by |-> ClientPrincipal(json.created_by),
         created |-> FromMillis(json.created_at), updated |-> FromMillis(json.updated_at)]

Present(table) == {i \in ObjectIds : table[i] # NoEntry}

\* to_json(BoardSnapshot); the order of the array is not kept by who reads it.
ServerSnapshot(table) == [i \in Present(table) |-> ServerObject(table[i])]

\* snapshot_from_json
ClientSnapshot(json) ==
    [i \in ObjectIds |-> IF i \in DOMAIN json THEN ClientObject(json[i]) ELSE NoEntry]

\* board_object_payload_to_json, as jsonb keeps it.
PayloadRow(e) == Payload(e, "jsonb")

ObjectRow(e) ==
    [object_type |-> e.object.type, created_by |-> Columns(e.by),
     created_at_ms |-> ToMillis(e.created), updated_at_ms |-> ToMillis(e.updated),
     is_deleted |-> e.object.deleted, z_index |-> e.z, payload |-> PayloadRow(e)]

\* (Faulty: deleted objects are not worth a row.)
LiveObjectRows(table) ==
    [i \in {k \in Present(table) : ~table[k].object.deleted} |-> ObjectRow(table[i])]

\* Every object, deleted or not, is inserted again with each operation.
ObjectRows(table) == [i \in Present(table) |-> ObjectRow(table[i])]

\* object_entry_from_result
LoadObject(row) ==
    LET parts == Strict(row.payload, PayloadFields[row.object_type], {}) IN
    IF parts = Refused THEN Refused
    ELSE [object |-> Object(row.object_type, row.is_deleted, parts), figure |-> Figure(parts),
          z |-> row.z_index, by |-> FromColumns(row.created_by),
          created |-> FromMillis(row.created_at_ms), updated |-> FromMillis(row.updated_at_ms)]

\* load_by_board
LoadObjects(table) ==
    [i \in ObjectIds |-> IF i \in DOMAIN table THEN LoadObject(table[i]) ELSE NoEntry]

-----------------------------------------------------------------------------
(* Operations *)

\* AppliedOperation
Applied(c, by, revision, at) ==
    [actor |-> by, revision |-> revision, applied_at |-> at, payload |-> c]

OperationRow(o) ==
    [actor |-> Columns(o.actor), revision |-> o.revision,
     applied_at_ms |-> ToMillis(o.applied_at), payload |-> PostgresJson(o.payload)]

\* operation_from_result
LoadOperation(row) ==
    Applied(PostgresCommand(row.payload), FromColumns(row.actor), row.revision,
            FromMillis(row.applied_at_ms))

\* to_json(AppliedOperation)
ServerOperation(o) ==
    [actor |-> PrincipalJson(o.actor), revision |-> o.revision,
     applied_at |-> ToMillis(o.applied_at), payload |-> ServerJson(o.payload)]

\* applied_operation_from_json
ClientOperation(json) ==
    Applied(ClientCommand(json.payload), ClientPrincipal(json.actor), json.revision,
            FromMillis(json.applied_at))

Replayed(table, o) == ApplyAt(table, o.payload, o.actor, o.applied_at)

-----------------------------------------------------------------------------
(* The board *)

BoardRow(b) ==
    [access_mode |-> Name("access_mode", b.access_mode),
     guest_policy |-> Name("guest_policy", b.guest_policy),
     password_hash |-> b.password_hash, last_revision |-> b.last_revision,
     created_at_ms |-> ToMillis(b.created_at), updated_at_ms |-> ToMillis(b.updated_at)]

\* board_from_result
LoadBoard(row) ==
    [access_mode |-> Named("access_mode", row.access_mode),
     guest_policy |-> Named("guest_policy", row.guest_policy),
     password_hash |-> row.password_hash, last_revision |-> row.last_revision,
     created_at |-> FromMillis(row.created_at_ms), updated_at |-> FromMillis(row.updated_at_ms)]

\* to_json(Board) keeps the hash of the password to itself.
ServerBoard(b) ==
    [access_mode |-> IF b.access_mode = 1 THEN "private_board" ELSE "password_protected",
     guest_policy |-> IF b.guest_policy = 1 THEN "guest_disabled"
                      ELSE IF b.guest_policy = 2 THEN "guest_view_only" ELSE "guest_edit_allowed",
     last_revision |-> b.last_revision,
     created_at |-> ToMillis(b.created_at), updated_at |-> ToMillis(b.updated_at)]

\* board_from_json
ClientBoard(json) ==
    [access_mode |-> ClientNamed("access_mode", json.access_mode),
     guest_policy |-> ClientNamed("guest_policy", json.guest_policy),
     password_hash |-> NoPassword, last_revision |-> json.last_revision,
     created_at |-> FromMillis(json.created_at), updated_at |-> FromMillis(json.updated_at)]

-----------------------------------------------------------------------------
(* What is assumed of the data *)

\* The types of the members that the fields fill; other strings are opaque.
Fits(f, v) ==
    CASE f \in NumberFields \cup {"z_index"} -> v \in Int
      [] f = "finished" -> v \in BOOLEAN
      [] f \in {"position", "start_point"} -> v \in [x : Int, y : Int]
      [] f = "size" -> v \in [width : Int, height : Int]
      [] f = "geometry" -> v \in [x : Int, y : Int, width : Int, height : Int]
      [] f = "points" -> v \in Seq([x : Int, y : Int])
      [] f = "text" -> v = [chars |-> v.chars] /\ v.chars \in Seq(Range(v.chars))
      [] OTHER -> TRUE

\* No more than a reader lets through: one of the figures, no null character.
Legible(f, v) ==
    CASE f = "shape_type" -> v \in Figures
      [] f = "text" -> Nul \notin Range(v.chars)
      [] OTHER -> TRUE

\* A command with no other members than its fields fill, each of its type.
Formed(c) ==
    LET fields == CommandFields[c.op] IN
    /\ c = With(Parts([f \in fields |-> Value(c, f)]), [op |-> c.op])
    /\ \A f \in fields : Fits(f, Value(c, f)) /\ Legible(f, Value(c, f))

\* A command without what BoardObjects leaves out.
Bare(c) == [k \in DOMAIN c \ {"z", "figure"} |-> c[k]]

\* What users mean are commands, written without null characters.
ASSUME OrdersAssumption == \A c \in Orders : Bare(c) \in Command /\ Formed(c)

\* A JSON value is a pair of its kind and content of that kind: so the value of
\* a member of an object, an element of an array, a value of a field.
SimpleJson(j) ==
    /\ j[1] \in NumberKinds => j[2] \in Int
    /\ j[1] = "bool" => j[2] \in BOOLEAN

FlatJson(j) ==
    SimpleJson(j) /\ (j[1] = "object" => \A m \in DOMAIN j[2] : SimpleJson(j[2][m]))

FieldJson(f, j) ==
    /\ FlatJson(j)
    /\ j[1] = "array" =>
         j[2] \in Seq(Range(j[2])) /\ \A i \in DOMAIN j[2] : FlatJson(j[2][i])
    /\ j[1] = "string" /\ f = "text" => Fits(f, j[2])

\* ObjectIds, Positions and Points, which nothing validates, hold all that can
\* be read as one.
Nameable(f, v) ==
    /\ f = "object_id" => v \in ObjectIds
    /\ f = "position" => v \in Positions
    /\ f = "geometry" => [x |-> v.x, y |-> v.y] \in Positions
    /\ f = "start_point" => v \in Points
    /\ f = "points" => v \in Seq(Points)

\* Other clients send JSON, of any type, any fields and any kinds of values.
ASSUME ForeignAssumption ==
    \A json \in Foreign :
        json.type \in DOMAIN CommandFields =>
          \A f \in CommandFields[json.type] \cap DOMAIN json.fields :
             LET j == json.fields[f] IN
             FieldJson(f, j) /\ (WellTyped(f, j) => Nameable(f, Content(f, j)))

ASSUME SettingsAssumption ==
    \A s \in Settings :
        /\ s.access_mode \in DOMAIN Names.access_mode
        /\ s.guest_policy \in DOMAIN Names.guest_policy
        /\ s = [access_mode |-> s.access_mode, guest_policy |-> s.guest_policy,
                password_hash |-> s.password_hash]

-----------------------------------------------------------------------------
(* Actions *)

NoEntries == [i \in ObjectIds |-> NoEntry]

\* A board was created, its row is written and a client is on it.
Init ==
    /\ time = 1
    /\ \E s \in Settings :
         board = With(s, [last_revision |-> 0, created_at |-> 1, updated_at |-> 1])
    /\ boardRow = BoardRow(board)
    /\ entries = NoEntries /\ follower = NoEntries
    /\ rows = <<>> /\ log = <<>> /\ meant = <<>>

\* What validation finds: has_positive_size, has_non_empty_text, ... tell the
\* data that is in the sets of BoardObjects from any other.
Judged(c) ==
    LET Good == [size |-> Sizes, style |-> Styles, text |-> Texts] IN
    [k \in DOMAIN c |->
        IF k \in DOMAIN Good THEN IF c[k] \in Good[k] THEN c[k] ELSE Invalid ELSE c[k]]

\* A command is read, applied, persisted and sent on.  intended is what its
\* sender had in mind.
Receive(json, by, intended) ==
    LET c == ServerCommand(json)
        o == Applied(c, by, board.last_revision + 1, time)
        told == ClientOperation(ServerOperation(o))
    IN  /\ Len(log) < MaxOps
        /\ c # Refused
        /\ Accepts([i \in ObjectIds |-> entries[i].object], Judged(c))
        /\ entries' = ApplyAt(entries, c, by, time)
        /\ board' = [board EXCEPT !.last_revision = @ + 1, !.updated_at = time]
        /\ boardRow' = BoardRow(board')
        /\ rows' = ObjectRows(entries')
        /\ log' = Append(log, OperationRow(o))
        /\ follower' = Replayed(follower, told)
        /\ meant' = Append(meant, [o EXCEPT !.payload = intended])
        /\ UNCHANGED time

\* The user of the Qt client draws.
Draw(c, by) == Drawable(c) /\ Receive(BuilderJson(c), by, c)

\* Another client sends any command, its numbers written as by the server.
Send(c, by) == Receive(ServerJson(c), by, c)

\* JSON that nobody means counts for what the server takes it for.
SendForeign(json, by) == Receive(json, by, ServerCommand(json))

Tick ==
    /\ time < MaxTime
    /\ time' = time + 1
    /\ UNCHANGED <<board, boardRow, entries, rows, log, follower, meant>>

\* The server starts again: it reads the rows, and the client the snapshot.
Restart ==
    /\ board' = LoadBoard(boardRow)
    /\ entries' = LoadObjects(rows)
    /\ follower' = ClientSnapshot(ServerSnapshot(entries'))
    /\ UNCHANGED <<boardRow, rows, log, meant, time>>

Next ==
    \/ \E c \in Orders, by \in Principals : Draw(c, by) \/ Send(c, by)
    \/ \E json \in Foreign, by \in Principals : SendForeign(json, by)
    \/ Tick
    \/ Restart

Spec == Init /\ [][Next]_vars

-----------------------------------------------------------------------------
(* Properties *)

\* Whatever was sent, the objects in memory are objects that validation lets
\* through, and every shape is one of the three that there are.
TypeOK ==
    \A i \in Present(entries) :
        LET e == entries[i] IN
        /\ e.object \in BoardObject
        /\ e.by \in Principals
        /\ e.created \in 0..e.updated /\ e.updated \in 0..time
        /\ IF e.object.type = "shape" THEN e.figure \in Figures ELSE e.figure = 0

\* The log in the database, read back, is what users meant, by whom and when,
\* whichever client wrote the command: builder or serializer, parser and
\* postgres_json agree field by field.
LogTellsWhatWasMeant ==
    \A n \in DOMAIN log :
        LoadOperation(log[n]) = [meant[n] EXCEPT !.applied_at = Truncated(@)]

\* What applying the log to the empty board gives.
Rebuilt ==
    LET after[n \in 0 .. Len(log)] ==
          IF n = 0 THEN NoEntries ELSE Replayed(after[n - 1], LoadOperation(log[n]))
    IN  after[Len(log)]

\* Applying the log from the empty board gives the objects in the rows, with
\* their authors, their order and their times: nothing of an object is in only
\* one of the two tables.
LogRebuildsObjects == Rebuilt = LoadObjects(rows)

\* What the server reads, in the words of BoardState.
Understood ==
    {Bare(Judged(c)) :
        c \in Orders \cup ({ServerCommand(json) : json \in Foreign} \ {Refused})}

Life == INSTANCE BoardState WITH
            StateCommands <- Understood,
            boardObjects <- [i \in ObjectIds |-> entries[i].object]

\* Through every conversion and every restart the objects live as in BoardState,
\* one accepted command after the other: what it says of tombstones and of ink
\* is true of a board that was read back from its rows as well.
LivesOn == Life!StateSpec

Rounded(e) ==
    IF e = NoEntry THEN e ELSE [e EXCEPT !.created = Truncated(@), !.updated = Truncated(@)]

\* A restart changes nothing but the fraction of a millisecond in times: not
\* the objects, not the settings and the password of the board.
RestartIsInvisible ==
    /\ LoadObjects(rows) = [i \in ObjectIds |-> Rounded(entries[i])]
    /\ LoadBoard(boardRow) =
         [board EXCEPT !.created_at = Truncated(@), !.updated_at = Truncated(@)]

\* Who was on the board and applied every operation, and who joins now and
\* reads the snapshot, both have the objects of the server, and the board that
\* they see is the server's but for the password.
FollowersAndNewcomersAgree ==
    /\ follower = [i \in ObjectIds |-> Rounded(entries[i])]
    /\ ClientSnapshot(ServerSnapshot(entries)) = follower
    /\ ClientBoard(ServerBoard(board)) =
         [board EXCEPT !.password_hash = NoPassword,
                       !.created_at = Truncated(@), !.updated_at = Truncated(@)]

=============================================================================
