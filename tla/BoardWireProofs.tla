-------------------------- MODULE BoardWireProofs ---------------------------
(***************************************************************************)
(* BoardWire for any commands, principals, settings and JSON, any bound on *)
(* operations and time, and a clock as fine as one likes: the writers and  *)
(* the readers agree.                                                      *)
(*                                                                         *)
(* The first half is about the forms.  A reader gives back what a writer   *)
(* was given, of a field (FieldKept), a command (CommandRead), an object   *)
(* (EntryKept), a table of objects (TableKept), a principal and a board;   *)
(* whatever a reader lets through is a command that can be written         *)
(* (ForeignFormed); and rounding the times commutes with applying a        *)
(* command (ApplyStep).  The second half is the invariant WireInv: memory, *)
(* rows, log, follower and newcomer are the same table, but for fractions  *)
(* of milliseconds.                                                        *)
(***************************************************************************)
EXTENDS BoardWire, BoardStateProofs, SequenceTheorems

-----------------------------------------------------------------------------
(* Names and characters *)

\* The first place of a value in a sequence, or none.
LEMMA PlaceIs ==
    ASSUME NEW S, NEW seq \in Seq(S), NEW x, NEW k, k = Place(seq, x)
    PROVE  /\ k \in 0 .. Len(seq)
           /\ (k = 0) <=> \A i \in 1 .. Len(seq) : seq[i] # x
           /\ k # 0 => seq[k] = x
           /\ \A i \in 1 .. Len(seq) : i < k => seq[i] # x
<1> DEFINE I == {i \in 1 .. Len(seq) : seq[i] = x}
<1>1. k = IF I # {} THEN Min(I) ELSE 0
  BY DEF Place, SelectInSeq
<1>2. Len(seq) \in Nat
  OBVIOUS
<1>3. CASE I = {}
  <2>1. k = 0
    BY <1>1, <1>3
  <2>2. \A i \in 1 .. Len(seq) : seq[i] # x
    BY <1>3
  <2>3. 0 \in 0 .. Len(seq)
    BY <1>2
  <2> QED BY <2>1, <2>2, <2>3
<1>4. CASE I # {}
  <2>1. I \subseteq Nat
    BY <1>2
  <2> HIDE DEF I
  <2>2. PICK m \in I : \A y \in I : m <= y
    BY <1>4, <2>1, Least
  <2>3. Min(I) \in I /\ \A y \in I : Min(I) <= y
    BY <2>2 DEF Min
  <2>4. k \in I /\ \A y \in I : k <= y
    BY <1>1, <1>4, <2>3
  <2>5. k \in 1 .. Len(seq) /\ seq[k] = x
    BY <2>4 DEF I
  <2>6. \A i \in 1 .. Len(seq) : i < k => seq[i] # x
    <3>1. ASSUME NEW i \in 1 .. Len(seq), i < k, seq[i] = x PROVE FALSE
      <4>1. i \in I
        BY <3>1 DEF I
      <4> QED BY <2>4, <2>5, <3>1, <4>1, <1>2
    <3> QED BY <3>1
  <2>7. k \in 0 .. Len(seq) /\ k # 0
    BY <2>5, <1>2
  <2> QED BY <2>5, <2>6, <2>7
<1> QED BY <1>3, <1>4

Enums == {"access_mode", "guest_policy", "shape_type"}

\* A name is read for the value that it was written for.
LEMMA NamedIs ==
    ASSUME NEW enum \in Enums, NEW v \in DOMAIN Names[enum]
    PROVE  Named(enum, Name(enum, v)) = v /\ v # 0
<1>1. PICK seq : seq = Names[enum]
  OBVIOUS
<1>2. /\ \E S : seq \in Seq(S)
      /\ \A i, j \in 1 .. Len(seq) : seq[i] = seq[j] => i = j
  <2>1. CASE enum = "access_mode"
    <3>1. seq = <<"private_board", "password_protected">>
      <4>1. seq = Names["access_mode"]
        BY <1>1, <2>1
      <4> QED BY <4>1, Zenon DEF Names
    <3>2. seq \in Seq({"private_board", "password_protected"}) /\ Len(seq) = 2
      BY <3>1
    <3>3. seq[1] = "private_board" /\ seq[2] = "password_protected"
      BY <3>1
    <3> QED BY <3>2, <3>3
  <2>2. CASE enum = "guest_policy"
    <3>1. seq = <<"guest_disabled", "guest_view_only", "guest_edit_allowed">>
      <4>1. seq = Names["guest_policy"]
        BY <1>1, <2>2
      <4> QED BY <4>1, Zenon DEF Names
    <3>2. seq \in Seq({"guest_disabled", "guest_view_only", "guest_edit_allowed"}) /\ Len(seq) = 3
      BY <3>1
    <3>3. seq[1] = "guest_disabled" /\ seq[2] = "guest_view_only" /\ seq[3] = "guest_edit_allowed"
      BY <3>1
    <3> QED BY <3>2, <3>3
  <2>3. CASE enum = "shape_type"
    <3>1. seq = <<"rectangle", "ellipse", "line">>
      <4>1. seq = Names["shape_type"]
        BY <1>1, <2>3
      <4> QED BY <4>1, Zenon DEF Names
    <3>2. seq \in Seq({"rectangle", "ellipse", "line"}) /\ Len(seq) = 3
      BY <3>1
    <3>3. seq[1] = "rectangle" /\ seq[2] = "ellipse" /\ seq[3] = "line"
      BY <3>1
    <3> QED BY <3>2, <3>3
  <2> QED BY <2>1, <2>2, <2>3 DEF Enums
<1> PICK S : seq \in Seq(S)
  BY <1>2
<1>3. v \in 1 .. Len(seq)
  BY <1>1, <1>2
<1>4. PICK k : k = Place(seq, seq[v])
  OBVIOUS
<1>5. /\ k \in 0 .. Len(seq)
      /\ k = 0 <=> \A i \in 1 .. Len(seq) : seq[i] # seq[v]
      /\ k # 0 => seq[k] = seq[v]
  BY <1>2, <1>4, PlaceIs
<1>6. k = v
  BY <1>2, <1>3, <1>5
<1>7. Named(enum, Name(enum, v)) = k
  BY <1>1, <1>4 DEF Named, Name
<1> QED BY <1>3, <1>6, <1>7

\* A text without null character is not cut; what is cut has none left.
LEMMA CStringIs ==
    ASSUME NEW s, s = [chars |-> s.chars], s.chars \in Seq(Range(s.chars))
    PROVE  /\ Nul \notin Range(s.chars) => CString(s) = s
           /\ Nul \notin Range(CString(s).chars)
           /\ CString(s) = [chars |-> CString(s).chars]
           /\ CString(s).chars \in Seq(Range(CString(s).chars))
<1>1. PICK q : q = s.chars
  OBVIOUS
<1>2. PICK k : k = Place(q, Nul)
  OBVIOUS
<1>3. /\ k \in 0 .. Len(q)
      /\ k = 0 <=> \A i \in 1 .. Len(q) : q[i] # Nul
      /\ \A i \in 1 .. Len(q) : i < k => q[i] # Nul
  BY <1>1, <1>2, PlaceIs
<1>4. CString(s) = IF k = 0 THEN s ELSE [chars |-> SubSeq(q, 1, k - 1)]
  BY <1>1, <1>2 DEF CString
<1>5. q \in Seq(Range(q)) /\ DOMAIN q = 1 .. Len(q) /\ Len(q) \in Nat
  BY <1>1
<1>6. CASE k = 0
  <2>1. CString(s) = s
    BY <1>4, <1>6
  <2>2. Nul \notin Range(q)
    BY <1>3, <1>5, <1>6 DEF Range
  <2> QED BY <1>1, <2>1, <2>2
<1>7. CASE k # 0
  <2>1. PICK r : r = SubSeq(q, 1, k - 1)
    OBVIOUS
  <2>2. /\ r \in Seq(Range(q)) /\ Len(r) = k - 1
        /\ \A i \in 1 .. Len(r) : r[i] = q[i]
    BY <1>3, <1>5, <1>7, <2>1
  <2>3. DOMAIN r = 1 .. Len(r) /\ r = [i \in 1 .. Len(r) |-> r[i]] /\ Len(r) \in Nat
    BY <2>2
  <2>4. Nul \notin Range(r)
    BY <1>3, <1>5, <1>7, <2>2, <2>3 DEF Range
  <2>5. r \in Seq(Range(r))
    <3>1. \A i \in 1 .. Len(r) : r[i] \in Range(r)
      BY <2>3 DEF Range
    <3>2. r \in [1 .. Len(r) -> Range(r)]
      BY <2>3, <3>1
    <3> QED BY <3>2, <2>3
  <2>6. ~ Nul \notin Range(q)
    <3>1. PICK i \in 1 .. Len(q) : q[i] = Nul
      BY <1>3, <1>7
    <3> QED BY <3>1, <1>5 DEF Range
  <2>7. CString(s) = [chars |-> r]
    BY <1>4, <1>7, <2>1
  <2> QED BY <1>1, <2>4, <2>5, <2>6, <2>7
<1> QED BY <1>6, <1>7

-----------------------------------------------------------------------------
(* One field *)

\* A number keeps its value in whichever of the kinds of numbers it is written.
LEMMA NumberIs ==
    ASSUME NEW w, NEW n
    PROVE  Number(w, n)[1] \in {"int", "double"} /\ Number(w, n)[2] = n
BY DEF Number

\* A string is not null, which stands for an absent fill colour.
LEMMA StringIs ==
    ASSUME NEW v
    PROVE  String(v)[1] = "string" /\ String(v)[2] = v /\ String(v) # Null
<1>1. Len(String(v)) = 2 /\ Len(Null) = 1
  BY DEF String, Null
<1> QED BY <1>1 DEF String

\* An object of numbers is well typed and read as it was written, by everybody.
LEMMA PlaneIs ==
    ASSUME NEW f, NEW r, r = [m \in Axes(f) |-> r[m]], NEW w,
           NEW j, j = Numbers(r, w)
    PROVE  /\ j[1] = "object" /\ \A m \in Axes(f) : HasNumber(j, m)
           /\ Plane(f, j) = r
           /\ ClientPlane(f, j) = r
<1>1. PICK o : o = [m \in DOMAIN r |-> Number(w, r[m])]
  OBVIOUS
<1>2. j[1] = "object" /\ j[2] = o
  BY <1>1 DEF Numbers
<1>3. DOMAIN o = Axes(f) /\ \A m \in Axes(f) : o[m] = Number(w, r[m])
  BY <1>1
<1>4. \A m \in Axes(f) : o[m][2] = r[m] /\ o[m][1] \in NumberKinds
  BY <1>3, NumberIs DEF NumberKinds
<1>5. \A m \in Axes(f) : HasNumber(j, m)
  BY <1>2, <1>3, <1>4 DEF HasNumber
<1>6. Plane(f, j) = [m \in Axes(f) |-> r[m]]
  BY <1>2, <1>4 DEF Plane
<1>7. ClientPlane(f, j) = [m \in Axes(f) |-> r[m]]
  BY <1>2, <1>4, <1>5 DEF ClientPlane
<1> QED BY <1>2, <1>5, <1>6, <1>7

\* The values j are v, read by the server and by the client as field f.
ReadAs(f, j, v) ==
    /\ \A i \in DOMAIN j, m \in Axes(f) : HasNumber(j[i], m)
    /\ [i \in DOMAIN j |-> Plane(f, j[i])] = v
    /\ [i \in DOMAIN j |-> ClientPlane(f, j[i])] = v

\* Points are read as they were written, in their order.
LEMMA PointsAre ==
    ASSUME NEW v \in Seq([x : Int, y : Int]), NEW w,
           NEW j, j = [i \in DOMAIN v |-> Numbers(v[i], w)]
    PROVE  ReadAs("points", j, v)
<1>1. \A i \in DOMAIN v : v[i] \in [x : Int, y : Int]
  <2>1. PICK S : S = [x : Int, y : Int]
    OBVIOUS
  <2>2. \A i \in DOMAIN v : v[i] \in S
    BY <2>1, ElementOfSeq, LenProperties
  <2> QED BY <2>1, <2>2
<1>2. ASSUME NEW i \in DOMAIN v
      PROVE  /\ \A m \in Axes("points") : HasNumber(j[i], m)
             /\ Plane("points", j[i]) = v[i]
             /\ ClientPlane("points", j[i]) = v[i]
  <2>1. PICK p : p = v[i]
    OBVIOUS
  <2>2. p = [m \in Axes("points") |-> p[m]]
    BY <1>1, <2>1 DEF Axes
  <2>3. PICK k : k = j[i]
    OBVIOUS
  <2>4. k = Numbers(p, w)
    BY <2>1, <2>3
  <2>5. /\ \A m \in Axes("points") : HasNumber(k, m)
        /\ Plane("points", k) = p
        /\ ClientPlane("points", k) = p
    BY <2>2, <2>4, PlaneIs
  <2> QED BY <2>1, <2>3, <2>5
<1>3. DOMAIN j = DOMAIN v
  OBVIOUS
<1>4. v = [i \in DOMAIN v |-> v[i]]
  <2>1. v = [i \in 1 .. Len(v) |-> v[i]] /\ DOMAIN v = 1 .. Len(v)
    OBVIOUS
  <2> QED BY <2>1
<1>5. [i \in DOMAIN j |-> Plane("points", j[i])] = [i \in DOMAIN v |-> v[i]]
  BY <1>2, <1>3
<1>6. [i \in DOMAIN j |-> ClientPlane("points", j[i])] = [i \in DOMAIN v |-> v[i]]
  BY <1>2, <1>3
<1> QED BY <1>2, <1>3, <1>4, <1>5, <1>6 DEF ReadAs

\* The fields whose values have nothing inside.
Simple(f) == f \notin PlaneFields /\ f # "points"

\* What one side writes of a field the server, the database and the client
\* read as the same value.
LEMMA FieldKept ==
    ASSUME NEW f, NEW v, Fits(f, v), Legible(f, v), NEW w
    PROVE  LET j == Json(f, v, w) IN
           WellTyped(f, j) /\ Content(f, j) = v /\ ClientContent(f, j) = v
<1>0. PICK j : j = Json(f, v, w)
  OBVIOUS
<1> SUFFICES WellTyped(f, j) /\ Content(f, j) = v /\ ClientContent(f, j) = v
  BY <1>0
<1>10. Simple(f) /\ j[1] \in Kinds(f) => WellTyped(f, j)
  BY DEF Simple, WellTyped
<1>1. CASE f \in NumberFields
  <2>1. j = Number(w, v) /\ Kinds(f) = NumberKinds
    <3>1. /\ f # "z_index" /\ f # "finished" /\ f # "points" /\ f # "fill_color"
          /\ f # "shape_type" /\ f \notin PlaneFields
      BY <1>1 DEF NumberFields, PlaneFields
    <3>2. j = Number(w, v)
      BY <1>0, <1>1, <3>1 DEF Json
    <3>3. Kinds(f) = NumberKinds
      BY <1>1, <3>1 DEF Kinds
    <3> QED BY <3>2, <3>3
  <2>2. j[1] \in Kinds(f) /\ j[2] = v
    BY <2>1, NumberIs DEF NumberKinds
  <2>3. f \notin PlaneFields \cup {"points", "fill_color", "text", "shape_type"}
    BY <1>1 DEF NumberFields, PlaneFields
  <2>4. Content(f, j) = j[2]
    BY <2>3, Zenon DEF Content
  <2>5. ClientContent(f, j) = Content(f, j)
    BY <2>2, <2>3, Zenon DEF ClientContent
  <2> QED BY <1>10, <2>2, <2>3, <2>4, <2>5 DEF Simple
<1>2. CASE f = "z_index"
  <2>1. j = <<"int", v>> /\ Kinds(f) = {"int"}
    <3>1. f \notin NumberFields \cup PlaneFields
      BY <1>2 DEF NumberFields, PlaneFields
    <3>2. j = <<"int", v>>
      BY <1>0, <1>2, <3>1 DEF Json
    <3>3. Kinds(f) = {"int"}
      BY <1>2, <3>1 DEF Kinds
    <3> QED BY <3>2, <3>3
  <2>2. Content(f, j) = j[2]
    BY <1>2 DEF Content, PlaneFields
  <2>4. f \notin PlaneFields /\ f \notin {"points", "text", "shape_type"} /\ j[1] \in Kinds(f)
    BY <1>2, <2>1 DEF PlaneFields
  <2>3. ClientContent(f, j) = Content(f, j)
    BY <2>4, Zenon DEF ClientContent
  <2> QED BY <1>2, <1>10, <2>1, <2>2, <2>3 DEF Simple, PlaneFields
<1>3. CASE f = "finished"
  <2>1. j = <<"bool", v>> /\ Kinds(f) = {"bool"}
    <3>1. f \notin NumberFields \cup PlaneFields
      BY <1>3 DEF NumberFields, PlaneFields
    <3>2. j = <<"bool", v>>
      BY <1>0, <1>3, <3>1 DEF Json
    <3>3. Kinds(f) = {"bool"}
      BY <1>3, <3>1 DEF Kinds
    <3> QED BY <3>2, <3>3
  <2>2. Content(f, j) = j[2]
    BY <1>3 DEF Content, PlaneFields
  <2>4. f \notin PlaneFields /\ f \notin {"points", "text", "shape_type"} /\ j[1] \in Kinds(f)
    BY <1>3, <2>1 DEF PlaneFields
  <2>3. ClientContent(f, j) = Content(f, j)
    BY <2>4, Zenon DEF ClientContent
  <2> QED BY <1>3, <1>10, <2>1, <2>2, <2>3 DEF Simple, PlaneFields
<1>4. CASE f \in PlaneFields
  <2>1. j = Numbers(v, w) /\ Kinds(f) = {"object"}
    BY <1>0, <1>4 DEF Json, Kinds, NumberFields, PlaneFields
  <2>2. v = [m \in Axes(f) |-> v[m]]
    <3>1. CASE f \in {"position", "start_point"}
      <4>1. v \in [x : Int, y : Int] /\ Axes(f) = {"x", "y"}
        BY <3>1 DEF Fits, NumberFields, Axes
      <4> QED BY <4>1
    <3>2. CASE f = "size"
      <4>1. v \in [width : Int, height : Int] /\ Axes(f) = {"width", "height"}
        BY <3>2 DEF Fits, NumberFields, Axes
      <4> QED BY <4>1
    <3>3. CASE f = "geometry"
      <4>1. /\ v \in [x : Int, y : Int, width : Int, height : Int]
            /\ Axes(f) = {"x", "y", "width", "height"}
        BY <3>3 DEF Fits, NumberFields, Axes
      <4> QED BY <4>1
    <3> QED BY <1>4, <3>1, <3>2, <3>3 DEF PlaneFields
  <2>3. /\ j[1] = "object" /\ \A m \in Axes(f) : HasNumber(j, m)
        /\ Plane(f, j) = v /\ ClientPlane(f, j) = v
    BY <2>1, <2>2, PlaneIs
  <2>4. f # "points" /\ f # "fill_color" /\ f # "text" /\ f # "shape_type"
    BY <1>4 DEF PlaneFields
  <2>5. Content(f, j) = Plane(f, j)
    BY <1>4, <2>4, Zenon DEF Content
  <2>6. j[1] \in Kinds(f)
    BY <2>1, <2>3
  <2>7. ClientContent(f, j) = ClientPlane(f, j)
    BY <1>4, <2>4, <2>6, Zenon DEF ClientContent
  <2>8. WellTyped(f, j)
    BY <2>3, <2>4, <2>6 DEF WellTyped
  <2> QED BY <2>3, <2>5, <2>7, <2>8
<1>5. CASE f = "points"
  <2>1. j = <<"array", [i \in DOMAIN v |-> Numbers(v[i], w)]>> /\ Kinds(f) = {"array"}
    BY <1>0, <1>5 DEF Json, Kinds, NumberFields, PlaneFields
  <2>2. v \in Seq([x : Int, y : Int])
    BY <1>5 DEF Fits, NumberFields
  <2>3. Content(f, j) = [i \in DOMAIN j[2] |-> Plane(f, j[2][i])]
    BY <1>5 DEF Content, PlaneFields
  <2>4. PICK q : q = [i \in DOMAIN v |-> Numbers(v[i], w)]
    OBVIOUS
  <2>5. /\ \A i \in DOMAIN q, m \in Axes(f) : HasNumber(q[i], m)
        /\ [i \in DOMAIN q |-> Plane(f, q[i])] = v
        /\ [i \in DOMAIN q |-> ClientPlane(f, q[i])] = v
    <3>1. ReadAs("points", q, v)
      BY <2>2, <2>4, PointsAre
    <3>2. ReadAs(f, q, v)
      BY <1>5, <3>1
    <3> QED BY <3>2 DEF ReadAs
  <2>6. j[1] \in Kinds(f) /\ j[2] = q
    BY <2>1, <2>4
  <2>7. ClientContent(f, j) = [i \in DOMAIN j[2] |-> ClientPlane(f, j[2][i])]
    BY <1>5, <2>6 DEF ClientContent, PlaneFields
  <2>8. WellTyped(f, j)
    BY <1>5, <2>5, <2>6 DEF WellTyped, PlaneFields
  <2> QED BY <2>3, <2>5, <2>6, <2>7, <2>8
<1>6. CASE f = "fill_color"
  <2>1. j = (IF v = NoFill THEN Null ELSE String(v)) /\ Kinds(f) = {"string", "null"}
    BY <1>0, <1>6 DEF Json, Kinds, NumberFields, PlaneFields
  <2>2. Content(f, j) = IF j = Null THEN NoFill ELSE j[2]
    BY <1>6 DEF Content, PlaneFields
  <2>3. j[1] \in Kinds(f) /\ Content(f, j) = v
    BY <2>1, <2>2, StringIs DEF Null
  <2>5. ClientContent(f, j) = Content(f, j)
    BY <1>6, <2>3 DEF ClientContent, PlaneFields
  <2> QED BY <1>6, <1>10, <2>3, <2>5 DEF Simple, PlaneFields
<1>7. CASE f = "shape_type"
  <2>1. j = String(Name(f, v)) /\ Kinds(f) = {"string"}
    BY <1>0, <1>7 DEF Json, Kinds, NumberFields, PlaneFields
  <2>2. Content(f, j) = Named(f, j[2])
    BY <1>7 DEF Content, PlaneFields
  <2>3. v \in DOMAIN Names["shape_type"]
    BY <1>7 DEF Legible, Figures
  <2>4. Named(f, Name(f, v)) = v /\ v # 0
    BY <1>7, <2>3, NamedIs DEF Enums
  <2>6. f \notin PlaneFields /\ f # "points" /\ f # "text" /\ j[1] \in Kinds(f)
    BY <1>7, <2>1, StringIs DEF PlaneFields
  <2>5. ClientContent(f, j) = ClientNamed(f, j[2])
    BY <1>7, <2>6, Zenon DEF ClientContent
  <2> QED BY <1>7, <1>10, <2>1, <2>2, <2>4, <2>5, StringIs
             DEF ClientNamed, Simple, PlaneFields
<1>8. CASE f = "text"
  <2>1. j = String(v) /\ Kinds(f) = {"string"}
    BY <1>0, <1>8 DEF Json, Kinds, NumberFields, PlaneFields
  <2>2. Content(f, j) = CString(j[2])
    BY <1>8 DEF Content, PlaneFields
  <2>3. /\ v = [chars |-> v.chars] /\ v.chars \in Seq(Range(v.chars))
        /\ Nul \notin Range(v.chars)
    BY <1>8 DEF Legible, Fits, NumberFields
  <2>4. CString(v) = v
    BY <2>3, CStringIs
  <2>6. f \notin PlaneFields /\ f # "points" /\ f # "shape_type" /\ j[1] \in Kinds(f)
    BY <1>8, <2>1, StringIs DEF PlaneFields
  <2>5. ClientContent(f, j) = j[2]
    BY <1>8, <2>6, Zenon DEF ClientContent
  <2> QED BY <1>8, <1>10, <2>1, <2>2, <2>4, <2>5, StringIs DEF Simple, PlaneFields
<1>9. CASE f \notin NumberFields \cup PlaneFields
                   \cup {"z_index", "finished", "points", "fill_color", "shape_type", "text"}
  <2>1. j = String(v) /\ Kinds(f) = {"string"}
    BY <1>0, <1>9 DEF Json, Kinds
  <2>2. Content(f, j) = j[2] /\ ClientContent(f, j) = j[2]
    BY <1>9, <2>1, StringIs DEF Content, ClientContent
  <2> QED BY <1>9, <1>10, <2>1, <2>2, StringIs DEF Simple
<1> QED BY <1>1, <1>2, <1>3, <1>4, <1>5, <1>6, <1>7, <1>8, <1>9

\* What is read of a well typed value is of the type of the field; a text is
\* cut, its characters are those of the string.
LEMMA ContentFits ==
    ASSUME NEW f, NEW j, FieldJson(f, j), WellTyped(f, j)
    PROVE  f # "text" => Fits(f, Content(f, j))
<1> SUFFICES ASSUME f # "text" PROVE Fits(f, Content(f, j))
  OBVIOUS
<1>0. j[1] \in Kinds(f) /\ FlatJson(j) /\ SimpleJson(j)
  BY DEF WellTyped, FieldJson, FlatJson
<1>1. ASSUME NEW o, FlatJson(o), \A m \in Axes(f) : HasNumber(o, m)
      PROVE  Plane(f, o) \in [Axes(f) -> Int]
  <2>1. ASSUME NEW m \in Axes(f) PROVE o[2][m][2] \in Int
    BY <1>1 DEF HasNumber, FlatJson, SimpleJson
  <2> QED BY <2>1 DEF Plane
<1>2. CASE f \in NumberFields \cup {"z_index"}
  <2>1. f \notin PlaneFields /\ f \notin {"points", "fill_color", "text", "shape_type"}
    BY <1>2 DEF NumberFields, PlaneFields
  <2>2. j[1] \in NumberKinds
    <3>1. CASE f \in NumberFields
      <4>1. f \notin {"z_index", "finished"}
        BY <3>1 DEF NumberFields
      <4>2. Kinds(f) = NumberKinds
        BY <2>1, <3>1, <4>1, Zenon DEF Kinds
      <4> QED BY <1>0, <4>2
    <3>2. CASE f = "z_index"
      <4>1. f \notin NumberFields
        BY <3>2 DEF NumberFields
      <4>2. Kinds(f) = {"int"}
        BY <3>2, <4>1, <2>1 DEF Kinds
      <4> QED BY <1>0, <4>2 DEF NumberKinds
    <3> QED BY <1>2, <3>1, <3>2
  <2>3. j[2] \in Int
    BY <1>0, <2>2 DEF SimpleJson
  <2>4. Content(f, j) = j[2]
    BY <2>1, Zenon DEF Content
  <2>5. f \notin {"finished", "position", "start_point", "size", "geometry", "points", "text"}
    BY <1>2 DEF NumberFields
  <2>6. Fits(f, j[2])
    BY <1>2, <2>3, <2>5, Zenon DEF Fits
  <2> QED BY <2>4, <2>6
<1>3. CASE f = "finished"
  <2>1. f \notin PlaneFields /\ f \notin NumberFields
    BY <1>3 DEF NumberFields, PlaneFields
  <2>2. j[1] = "bool"
    BY <1>0, <1>3, <2>1 DEF Kinds
  <2>3. j[2] \in BOOLEAN
    BY <1>0, <2>2 DEF SimpleJson
  <2>4. Content(f, j) = j[2]
    BY <1>3, <2>1 DEF Content
  <2> QED BY <1>3, <2>1, <2>3, <2>4 DEF Fits
<1>4. CASE f \in PlaneFields
  <2>8. f \notin {"points", "fill_color", "text", "shape_type"}
    BY <1>4 DEF PlaneFields
  <2>1. Content(f, j) = Plane(f, j)
    BY <1>4, <2>8, Zenon DEF Content
  <2>2. Plane(f, j) \in [Axes(f) -> Int]
    BY <1>0, <1>1, <1>4 DEF WellTyped
  <2>3. PICK v : v = Content(f, j)
    OBVIOUS
  <2>4. v \in [Axes(f) -> Int]
    BY <2>1, <2>2, <2>3
  <2>5. CASE f \in {"position", "start_point"}
    <3>1. Axes(f) = {"x", "y"}
      BY <2>5 DEF Axes
    <3>2. v \in [x : Int, y : Int]
      BY <2>4, <3>1
    <3> QED BY <2>3, <2>5, <3>2 DEF Fits, NumberFields
  <2>6. CASE f = "size"
    <3>1. Axes(f) = {"width", "height"}
      BY <2>6 DEF Axes
    <3>2. v \in [width : Int, height : Int]
      BY <2>4, <3>1
    <3> QED BY <2>3, <2>6, <3>2 DEF Fits, NumberFields
  <2>7. CASE f = "geometry"
    <3>1. Axes(f) = {"x", "y", "width", "height"}
      BY <2>7 DEF Axes
    <3>2. v \in [x : Int, y : Int, width : Int, height : Int]
      BY <2>4, <3>1
    <3> QED BY <2>3, <2>7, <3>2 DEF Fits, NumberFields
  <2> QED BY <1>4, <2>5, <2>6, <2>7 DEF PlaneFields
<1>5. CASE f = "points"
  <2>1. j[1] = "array"
    BY <1>0, <1>5 DEF Kinds, NumberFields, PlaneFields
  <2>2. PICK q : q = j[2]
    OBVIOUS
  <2>3. q \in Seq(Range(q)) /\ \A i \in DOMAIN q : FlatJson(q[i])
    BY <2>1, <2>2 DEF FieldJson
  <2>4. \A i \in DOMAIN q : \A m \in Axes(f) : HasNumber(q[i], m)
    BY <1>5, <2>2 DEF WellTyped
  <2>5. Axes(f) = {"x", "y"}
    BY <1>5 DEF Axes
  <2>6. ASSUME NEW i \in DOMAIN q PROVE Plane(f, q[i]) \in [x : Int, y : Int]
    <3>1. PICK r : r = Plane(f, q[i])
      OBVIOUS
    <3>2. r \in [Axes(f) -> Int]
      BY <1>1, <2>3, <2>4, <3>1
    <3>3. r \in [x : Int, y : Int]
      BY <2>5, <3>2
    <3> QED BY <3>1, <3>3
  <2>7. Content(f, j) = [i \in DOMAIN q |-> Plane(f, q[i])]
    BY <1>5, <2>2 DEF Content, PlaneFields
  <2>8. DOMAIN q = 1 .. Len(q) /\ Len(q) \in Nat
    BY <2>3
  <2>9. PICK S : S = [x : Int, y : Int]
    OBVIOUS
  <2>10. Content(f, j) \in Seq(S)
    BY <2>6, <2>7, <2>8, <2>9
  <2> QED BY <1>5, <2>9, <2>10 DEF Fits, NumberFields
<1>6. CASE f \notin NumberFields \cup PlaneFields \cup {"z_index", "finished", "points"}
  BY <1>6 DEF Fits, PlaneFields
<1> QED BY <1>2, <1>3, <1>4, <1>5, <1>6

-----------------------------------------------------------------------------
(* Fields and members *)

AllFields == DOMAIN Member \cup StyleFields \cup {"geometry"}

\* A geometry is a position and a size.
Compatible(F) ==
    F \subseteq AllFields /\ ("geometry" \in F => "position" \notin F /\ "size" \notin F)

\* Which members a record has with more of them, and from where.
LEMMA WithIs ==
    ASSUME NEW r, NEW more
    PROVE  /\ DOMAIN With(r, more) = DOMAIN r \cup DOMAIN more
           /\ \A k \in DOMAIN r : With(r, more)[k] = r[k]
           /\ \A k \in DOMAIN more \ DOMAIN r : With(r, more)[k] = more[k]
BY DEF With

\* No two fields fill the same member, but for those within style.
LEMMA MemberInjective ==
    ASSUME NEW f \in DOMAIN Member, NEW g \in DOMAIN Member, Member[f] = Member[g]
    PROVE  f = g
BY DEF Member

\* The members that fields fill.
LEMMA MemberIs ==
    /\ DOMAIN Member = {"object_id", "position", "size", "text", "start_point", "points",
                        "finished", "shape_type", "z_index"}
    /\ Member["object_id"] = "id" /\ Member["position"] = "pos" /\ Member["size"] = "size"
    /\ Member["text"] = "text" /\ Member["start_point"] = "start"
    /\ Member["points"] = "points" /\ Member["finished"] = "finished"
    /\ Member["shape_type"] = "figure" /\ Member["z_index"] = "z"
BY DEF Member

\* Every field fills a member, and none fills what readers add to the fields.
LEMMA MembersAre ==
    ASSUME NEW F
    PROVE  /\ \A f \in F \cap DOMAIN Member : Member[f] \in Members(F)
           /\ F \cap StyleFields # {} => "style" \in Members(F)
           /\ "geometry" \in F => "pos" \in Members(F) /\ "size" \in Members(F)
           /\ "op" \notin Members(F)
           /\ "type" \notin Members(F)
           /\ "deleted" \notin Members(F)
<1>1. \A f \in F \cap DOMAIN Member : Member[f] \in Members(F)
  BY DEF Members
<1>2. F \cap StyleFields # {} => "style" \in Members(F)
  BY DEF Members
<1>3. "geometry" \in F => "pos" \in Members(F) /\ "size" \in Members(F)
  BY DEF Members
<1>4. \A f \in DOMAIN Member : Member[f] \notin {"op", "type", "deleted", "style"}
  BY DEF Member
<1>5. \A k \in Members(F) :
        k \in {"style", "pos", "size"} \/ \E f \in DOMAIN Member : k = Member[f]
  BY DEF Members
<1> QED BY <1>1, <1>2, <1>3, <1>4, <1>5

\* The value of each field can be had back from the members that it fills.
LEMMA PartsValue ==
    ASSUME NEW F, Compatible(F), NEW v, DOMAIN v = F, NEW more,
           "geometry" \in F => v.geometry \in [x : Int, y : Int, width : Int, height : Int]
    PROVE  \A f \in F : Value(With(Parts(v), more), f) = v[f]
<1>1. PICK p : p = Parts(v)
  OBVIOUS
<1>2. PICK c : c = With(p, more)
  OBVIOUS
<1>3. DOMAIN p = Members(F)
  BY <1>1 DEF Parts
<1>4. \A k \in Members(F) : c[k] = p[k]
  <2>1. \A k \in DOMAIN p : With(p, more)[k] = p[k]
    BY WithIs
  <2> QED BY <1>2, <1>3, <2>1
<1> SUFFICES ASSUME NEW f \in F PROVE Value(c, f) = v[f]
  BY <1>1, <1>2
<1>5. CASE f = "geometry"
  <2>1. "pos" \in Members(F) /\ "size" \in Members(F)
    BY <1>5, MembersAre
  <2>2. p["pos"] = [x |-> v.geometry.x, y |-> v.geometry.y]
    BY <1>1, <1>5, <2>1 DEF Parts
  <2>3. p["size"] = [width |-> v.geometry.width, height |-> v.geometry.height]
    BY <1>1, <1>5, <2>1 DEF Parts
  <2>4. PICK g : g = v.geometry
    OBVIOUS
  <2>5. g = [x |-> g.x, y |-> g.y, width |-> g.width, height |-> g.height]
    BY <1>5, <2>4
  <2>6. c.pos = [x |-> g.x, y |-> g.y] /\ c.size = [width |-> g.width, height |-> g.height]
    BY <1>4, <2>1, <2>2, <2>3, <2>4
  <2>7. Value(c, f) = [x |-> c.pos.x, y |-> c.pos.y,
                       width |-> c.size.width, height |-> c.size.height]
    BY <1>5 DEF Value, StyleFields, NumberFields
  <2>8. Value(c, f) = g
    BY <2>5, <2>6, <2>7
  <2> QED BY <1>5, <2>4, <2>8
<1>6. CASE f \in StyleFields
  <2>1. "style" \in Members(F)
    BY <1>6, MembersAre
  <2>2. p["style"] = [h \in F \cap StyleFields |-> v[h]]
    BY <1>1, <2>1 DEF Parts
  <2>3. f # "geometry"
    BY <1>6 DEF StyleFields, NumberFields
  <2>4. Value(c, f) = c.style[f]
    BY <1>6, <2>3 DEF Value
  <2> QED BY <1>4, <1>6, <2>1, <2>2, <2>4
<1>7. CASE f \in DOMAIN Member
  <2>1. PICK k : k = Member[f]
    OBVIOUS
  <2>2. k \in Members(F) /\ k # "style" /\ f # "geometry" /\ f \notin StyleFields
    <3>1. k \in Members(F)
      BY <1>7, <2>1, MembersAre
    <3>2. k # "style" /\ f # "geometry" /\ f \notin StyleFields
      BY <1>7, <2>1 DEF Member, StyleFields, NumberFields
    <3> QED BY <3>1, <3>2
  <2>3. k \in {"pos", "size"} => "geometry" \notin F
    <3>1. k = "pos" => f = "position"
      BY <1>7, <2>1, MemberIs, MemberInjective
    <3>2. k = "size" => f = "size"
      BY <1>7, <2>1, MemberIs, MemberInjective
    <3> QED BY <3>1, <3>2 DEF Compatible
  <2>4. (CHOOSE g \in F \cap DOMAIN Member : Member[g] = k) = f
    BY <1>7, <2>1, MemberInjective
  <2>5. p[k] = v[CHOOSE g \in F \cap DOMAIN Member : Member[g] = k]
    BY <1>1, <2>2, <2>3 DEF Parts
  <2>6. Value(c, f) = c[k]
    BY <2>1, <2>2 DEF Value
  <2> QED BY <1>4, <2>2, <2>4, <2>5, <2>6
<1> QED BY <1>5, <1>6, <1>7 DEF Compatible, AllFields

\* A document with the fields of a value is read as the members they fill.
LEMMA DocumentRead ==
    ASSUME NEW F, NEW c, \A f \in F : Fits(f, Value(c, f)) /\ Legible(f, Value(c, f)),
           NEW type, NEW w, NEW optional
    PROVE  LET doc == Document(type, c, F, w) IN
           /\ doc.type = type
           /\ Strict(doc, F, optional) = Parts([f \in F |-> Value(c, f)])
           /\ Lenient(doc, F) = Parts([f \in F |-> Value(c, f)])
<1>1. PICK doc : doc = Document(type, c, F, w)
  OBVIOUS
<1>2. PICK j : j = [f \in F |-> Json(f, Value(c, f), w)]
  OBVIOUS
<1>3. doc.type = type /\ doc.fields = j
  BY <1>1, <1>2 DEF Document
<1>4. /\ DOMAIN j = F
      /\ \A f \in F : /\ WellTyped(f, j[f])
                      /\ Content(f, j[f]) = Value(c, f)
                      /\ ClientContent(f, j[f]) = Value(c, f)
  BY <1>2, FieldKept
<1>5. "shape_type" \in F => Content("shape_type", j["shape_type"]) # 0
  <2>1. ASSUME "shape_type" \in F PROVE Value(c, "shape_type") # 0
    <3>1. Value(c, "shape_type") \in Figures
      BY <2>1, Zenon DEF Legible
    <3> QED BY <3>1 DEF Figures, Names
  <2> QED BY <1>4, <2>1
<1>6. [f \in F |-> IF f \in DOMAIN doc.fields THEN Content(f, doc.fields[f]) ELSE NoFill]
        = [f \in F |-> Value(c, f)]
  BY <1>3, <1>4
<1>7. Strict(doc, F, optional) = Parts([f \in F |-> Value(c, f)])
  BY <1>3, <1>4, <1>5, <1>6 DEF Strict
<1>8. [f \in F |-> IF f \in DOMAIN doc.fields THEN ClientContent(f, doc.fields[f]) ELSE Default(f)]
        = [f \in F |-> Value(c, f)]
  BY <1>3, <1>4
<1>9. Lenient(doc, F) = Parts([f \in F |-> Value(c, f)])
  BY <1>8 DEF Lenient
<1> QED BY <1>1, <1>3, <1>7, <1>9

\* What was read of fields is not taken for a refusal.
LEMMA PartsNotRefused ==
    ASSUME NEW v
    PROVE  Parts(v) # Refused
<1>1. DOMAIN Parts(v) = Members(DOMAIN v)
  BY DEF Parts
<1>2. "op" \notin DOMAIN Parts(v)
  BY <1>1, MembersAre
<1>3. "op" \in DOMAIN Refused
  BY DEF Refused
<1> QED BY <1>2, <1>3

-----------------------------------------------------------------------------
(* Commands *)

\* The fields of a command do not fill a member twice.
LEMMA OpsAre ==
    ASSUME NEW op \in DOMAIN CommandFields
    PROVE  Compatible(CommandFields[op]) /\ op # "refused"
<1>1. DOMAIN CommandFields = {"create_shape", "create_text", "begin_stroke",
        "append_stroke_points", "end_stroke", "update_shape_geometry", "update_shape_style",
        "update_text_content", "update_text_style", "resize_object", "delete_object"}
  BY DEF CommandFields
<1>2. op # "refused"
  BY <1>1
<1>3. CommandFields[op] \subseteq AllFields
  BY <1>1, MemberIs DEF CommandFields, AllFields, StyleFields, NumberFields
<1>4. "geometry" \in CommandFields[op]
        => "position" \notin CommandFields[op] /\ "size" \notin CommandFields[op]
  BY <1>1 DEF CommandFields
<1> QED BY <1>2, <1>3, <1>4 DEF Compatible

\* A command is read as it was written, by the server, the database and the
\* client, whoever wrote it.
LEMMA CommandRead ==
    ASSUME NEW c, c.op \in DOMAIN CommandFields, Formed(c), NEW w, NEW optional
    PROVE  LET doc == Document(c.op, c, CommandFields[c.op], w) IN
           /\ StrictCommand(doc, optional) = c
           /\ ClientCommand(doc) = c
           /\ c # Refused
<1>1. PICK F : F = CommandFields[c.op]
  OBVIOUS
<1>2. PICK doc : doc = Document(c.op, c, F, w)
  OBVIOUS
<1>3. PICK p : p = Parts([f \in F |-> Value(c, f)])
  OBVIOUS
<1>4. c = With(p, [op |-> c.op]) /\ \A f \in F : Fits(f, Value(c, f)) /\ Legible(f, Value(c, f))
  BY <1>1, <1>3 DEF Formed
<1>5. doc.type = c.op /\ Strict(doc, F, optional) = p /\ Lenient(doc, F) = p
  BY <1>2, <1>3, <1>4, DocumentRead
<1>6. p # Refused
  BY <1>3, PartsNotRefused
<1>7. StrictCommand(doc, optional) = c
  BY <1>1, <1>4, <1>5, <1>6 DEF StrictCommand
<1>8. ClientCommand(doc) = c
  BY <1>1, <1>4, <1>5 DEF ClientCommand
<1>9. c # Refused
  BY OpsAre DEF Refused
<1> QED BY <1>1, <1>2, <1>7, <1>8, <1>9

\* What the server accepts of any client is a command that can be written and
\* read again.
LEMMA ForeignFormed ==
    ASSUME NEW json \in Foreign, NEW c, c = ServerCommand(json), c # Refused
    PROVE  /\ c.op \in DOMAIN CommandFields /\ Formed(c)
           /\ \A f \in CommandFields[c.op] : Nameable(f, Value(c, f))
<1>1. PICK op : op = json.type
  OBVIOUS
<1>2. op \in DOMAIN CommandFields
  BY <1>1 DEF ServerCommand, StrictCommand
<1>3. PICK F : F = CommandFields[op]
  OBVIOUS
<1>4. PICK parts : parts = Strict(json, F, {"fill_color"})
  OBVIOUS
<1>5. parts # Refused /\ c = With(parts, [op |-> op])
  BY <1>1, <1>2, <1>3, <1>4 DEF ServerCommand, StrictCommand
<1> DEFINE Has(f) == f \in DOMAIN json.fields
           Wrong(f) == IF Has(f) THEN ~WellTyped(f, json.fields[f])
                       ELSE f \notin {"fill_color"}
           Read(f) == IF Has(f) THEN Content(f, json.fields[f]) ELSE NoFill
<1>6. PICK v : v = [f \in F |-> Read(f)]
  OBVIOUS
<1>7. /\ parts = Parts(v)
      /\ \A f \in F : ~Wrong(f)
      /\ "shape_type" \in F => Read("shape_type") # 0
  BY <1>4, <1>5, <1>6 DEF Strict
<1>8. DOMAIN v = F /\ \A f \in F : v[f] = Read(f)
  BY <1>6
<1>9. \A f \in F \cap DOMAIN json.fields :
         /\ WellTyped(f, json.fields[f]) /\ FieldJson(f, json.fields[f])
         /\ Nameable(f, Content(f, json.fields[f]))
  BY <1>1, <1>2, <1>3, <1>7, ForeignAssumption
<1>10. ASSUME NEW f \in F PROVE Fits(f, v[f]) /\ Legible(f, v[f])
  <2>1. CASE ~Has(f)
    <3>1. f = "fill_color"
      BY <1>7, <2>1
    <3> QED BY <3>1 DEF Fits, Legible, NumberFields
  <2>2. CASE Has(f) /\ f = "text"
    <3>1. PICK s : s = json.fields[f][2]
      OBVIOUS
    <3>2. Fits("text", s)
      <4>1. WellTyped("text", json.fields[f]) /\ FieldJson("text", json.fields[f])
        BY <1>9, <2>2
      <4>2. json.fields[f][1] = "string"
        BY <4>1 DEF WellTyped, Kinds, NumberFields, PlaneFields
      <4> QED BY <3>1, <4>1, <4>2 DEF FieldJson
    <3>3. s = [chars |-> s.chars] /\ s.chars \in Seq(Range(s.chars))
      BY <3>2 DEF Fits, NumberFields
    <3>4. PICK r : r = CString(s)
      OBVIOUS
    <3>5. /\ Nul \notin Range(r.chars)
          /\ r = [chars |-> r.chars] /\ r.chars \in Seq(Range(r.chars))
      BY <3>3, <3>4, CStringIs
    <3>6. Content("text", json.fields[f]) = r
      BY <3>1, <3>4 DEF Content, PlaneFields
    <3>7. v[f] = r
      BY <1>8, <2>2, <3>6
    <3>8. Fits("text", r) /\ Legible("text", r)
      BY <3>5 DEF Fits, Legible, NumberFields
    <3> QED BY <2>2, <3>7, <3>8
  <2>3. CASE Has(f) /\ f # "text"
    <3>1. v[f] = Content(f, json.fields[f])
      BY <1>8, <2>3
    <3>2. Fits(f, v[f])
      BY <1>9, <2>3, <3>1, ContentFits
    <3>3. CASE f = "shape_type"
      <4>1. PICK k : k = Place(Names["shape_type"], json.fields[f][2])
        OBVIOUS
      <4>2. v[f] = k
        BY <3>1, <3>3, <4>1 DEF Content, Named, PlaneFields
      <4>3. k # 0
        BY <1>7, <1>8, <3>3, <4>2
      <4>4. Names["shape_type"] \in Seq({"rectangle", "ellipse", "line"})
        <5>1. Names["shape_type"] = <<"rectangle", "ellipse", "line">>
          BY DEF Names
        <5> QED BY <5>1
      <4>5. k \in 1 .. Len(Names["shape_type"])
        <5>1. PICK seq \in Seq({"rectangle", "ellipse", "line"}) : seq = Names["shape_type"]
          BY <4>4
        <5>2. k \in 0 .. Len(seq) /\ Len(seq) \in Nat
          BY <4>1, <5>1, PlaceIs
        <5> QED BY <4>3, <5>1, <5>2
      <4>6. k \in Figures
        BY <4>4, <4>5 DEF Figures
      <4> QED BY <3>2, <3>3, <4>2, <4>6 DEF Legible
    <3>4. CASE f # "shape_type"
      BY <2>3, <3>2, <3>4 DEF Legible
    <3> QED BY <3>3, <3>4
  <2> QED BY <2>1, <2>2, <2>3
<1>11. Compatible(F)
  BY <1>2, <1>3, OpsAre
<1>12. "geometry" \in F => v.geometry \in [x : Int, y : Int, width : Int, height : Int]
  <2>1. ASSUME "geometry" \in F PROVE Fits("geometry", v["geometry"])
    BY <1>10, <2>1
  <2> QED BY <2>1 DEF Fits, NumberFields
<1>13. \A f \in F : Value(c, f) = v[f]
  BY <1>5, <1>7, <1>8, <1>11, <1>12, PartsValue
<1>14. [f \in F |-> Value(c, f)] = v
  BY <1>6, <1>8, <1>13
<1>15. c.op = op
  <2>1. "op" \notin DOMAIN parts
    BY <1>7, <1>8, MembersAre DEF Parts
  <2>2. PICK more : more = [op |-> op]
    OBVIOUS
  <2>3. "op" \in DOMAIN more \ DOMAIN parts
    BY <2>1, <2>2
  <2>4. With(parts, more)["op"] = more["op"]
    BY <2>3 DEF With
  <2> QED BY <1>5, <2>2, <2>4
<1>16. Formed(c)
  BY <1>3, <1>5, <1>7, <1>10, <1>13, <1>14, <1>15 DEF Formed
<1>17. ASSUME NEW f \in F PROVE Nameable(f, v[f])
  <2>1. CASE Has(f)
    BY <1>8, <1>9, <2>1
  <2>2. CASE ~Has(f)
    BY <1>7, <2>2 DEF Nameable
  <2> QED BY <2>1, <2>2
<1> QED BY <1>2, <1>3, <1>13, <1>15, <1>16, <1>17

\* There are fields for every command of BoardObjects.
LEMMA OpIsKnown ==
    ASSUME NEW c \in Command
    PROVE  c.op \in DOMAIN CommandFields
BY DEF Command, CommandFields, BeginStroke, AppendStrokePoints, EndStroke, CreateShape,
   UpdateShapeGeometry, UpdateShapeStyle, CreateText, UpdateTextContent, UpdateTextStyle,
   ResizeObject, DeleteObject

\* The same of what users mean.
LEMMA OrderFormed ==
    ASSUME NEW c \in Orders
    PROVE  c.op \in DOMAIN CommandFields /\ Formed(c) /\ Bare(c) \in Command
<1>1. Bare(c) \in Command /\ Formed(c)
  BY OrdersAssumption
<1>2. PICK p : c = With(p, [op |-> c.op])
  BY <1>1 DEF Formed
<1>3. "op" \in DOMAIN c
  BY <1>2 DEF With
<1>4. Bare(c).op = c.op
  BY <1>3 DEF Bare
<1> QED BY <1>1, <1>4, OpIsKnown

XY == [x : Int, y : Int]
WH == [width : Int, height : Int]

\* A style with these fields.
Ink(s, fields) ==
    s = [f \in fields |-> s[f]] /\ \A f \in fields \cap NumberFields : s[f] \in Int

Readable(t) ==
    t = [chars |-> t.chars] /\ t.chars \in Seq(Range(t.chars)) /\ Nul \notin Range(t.chars)

\* The members of a command, by the fields that fill them.
LEMMA CommandMembers ==
    ASSUME NEW c, c.op \in DOMAIN CommandFields, Formed(c),
           NEW F, F = CommandFields[c.op]
    PROVE  /\ c = [k \in Members(F) \cup {"op"} |-> c[k]]
           /\ F \cap StyleFields # {} => Ink(c.style, F \cap StyleFields)
           /\ "geometry" \in F => c.pos \in XY /\ c.size \in WH
           /\ "position" \in F => c.pos \in XY
           /\ "size" \in F => c.size \in WH
           /\ "start_point" \in F => c.start \in XY
           /\ "points" \in F => c.points \in Seq(XY)
           /\ "text" \in F => Readable(c.text)
           /\ "shape_type" \in F => c.figure \in Figures
<1>1. PICK v : v = [f \in F |-> Value(c, f)]
  OBVIOUS
<1>2. PICK p : p = Parts(v)
  OBVIOUS
<1>3. c = With(p, [op |-> c.op])
  BY <1>1, <1>2 DEF Formed
<1>4. \A f \in F : Fits(f, Value(c, f)) /\ Legible(f, Value(c, f))
  BY DEF Formed
<1>5. DOMAIN p = Members(F)
  BY <1>1, <1>2 DEF Parts
<1>6. c = [k \in Members(F) \cup {"op"} |-> c[k]]
  <2>1. PICK more : more = [op |-> c.op]
    OBVIOUS
  <2>2. DOMAIN more = {"op"}
    BY <2>1
  <2>3. With(p, more) = [k \in DOMAIN p \cup DOMAIN more |-> With(p, more)[k]]
    BY DEF With
  <2> QED BY <1>3, <1>5, <2>1, <2>2, <2>3
<1>7. \A k \in Members(F) : c[k] = p[k]
  <2>1. \A k \in DOMAIN p : With(p, [op |-> c.op])[k] = p[k]
    BY WithIs
  <2> QED BY <1>3, <1>5, <2>1
<1>8. ASSUME F \cap StyleFields # {} PROVE Ink(c.style, F \cap StyleFields)
  <2>1. "style" \in Members(F)
    BY <1>8, MembersAre
  <2>2. c["style"] = [f \in F \cap StyleFields |-> v[f]]
    BY <1>1, <1>2, <1>7, <2>1 DEF Parts
  <2>3. ASSUME NEW f \in F \cap StyleFields \cap NumberFields PROVE c["style"][f] \in Int
    <3>1. Fits(f, v[f])
      BY <1>1, <1>4
    <3>2. f \notin {"finished", "position", "start_point", "size", "geometry", "points", "text"}
      BY DEF NumberFields
    <3>3. v[f] \in Int
      BY <3>1, <3>2 DEF Fits
    <3> QED BY <2>2, <3>3
  <2>4. PICK s : s = c["style"]
    OBVIOUS
  <2>5. Ink(s, F \cap StyleFields)
    BY <2>2, <2>3, <2>4 DEF Ink
  <2> QED BY <2>4, <2>5
<1>9. ASSUME "geometry" \in F PROVE c.pos \in XY /\ c.size \in WH
  <2>1. "pos" \in Members(F) /\ "size" \in Members(F)
    BY <1>9, MembersAre
  <2>2. c["pos"] = [x |-> v.geometry.x, y |-> v.geometry.y]
    BY <1>1, <1>2, <1>7, <1>9, <2>1 DEF Parts
  <2>3. c["size"] = [width |-> v.geometry.width, height |-> v.geometry.height]
    BY <1>1, <1>2, <1>7, <1>9, <2>1 DEF Parts
  <2>4. PICK g : g = v.geometry
    OBVIOUS
  <2>5. g \in [x : Int, y : Int, width : Int, height : Int]
    <3>1. Fits("geometry", Value(c, "geometry"))
      BY <1>4, <1>9
    <3>2. Fits("geometry", g)
      BY <1>1, <1>9, <2>4, <3>1
    <3> QED BY <3>2 DEF Fits, NumberFields
  <2>6. c.pos = [x |-> g.x, y |-> g.y] /\ c.size = [width |-> g.width, height |-> g.height]
    BY <2>2, <2>3, <2>4
  <2> QED BY <2>5, <2>6 DEF XY, WH
<1>10. ASSUME NEW f \in F, f \in DOMAIN Member
       PROVE  Fits(f, c[Member[f]]) /\ Legible(f, c[Member[f]])
  <2>1. f # "geometry" /\ f \notin StyleFields
    BY <1>10, MemberIs DEF StyleFields, NumberFields
  <2>2. Value(c, f) = c[Member[f]]
    BY <2>1 DEF Value
  <2> QED BY <1>4, <1>10, <2>2
<1>11. "position" \in F => c.pos \in XY
  BY <1>10, MemberIs DEF Fits, XY, NumberFields
<1>12. "size" \in F => c.size \in WH
  BY <1>10, MemberIs DEF Fits, WH, NumberFields
<1>13. "start_point" \in F => c.start \in XY
  BY <1>10, MemberIs DEF Fits, XY, NumberFields
<1>14. "points" \in F => c.points \in Seq(XY)
  BY <1>10, MemberIs DEF Fits, XY, NumberFields
<1>15. "text" \in F => Readable(c.text)
  BY <1>10, MemberIs DEF Fits, Legible, Readable, NumberFields
<1>16. "shape_type" \in F => c.figure \in Figures
  BY <1>10, MemberIs DEF Legible
<1> QED BY <1>6, <1>8, <1>9, <1>11, <1>12, <1>13, <1>14, <1>15, <1>16

\* The members of each command.
LEMMA MembersOf ==
    ASSUME NEW op \in DOMAIN CommandFields, NEW M, M = Members(CommandFields[op])
    PROVE  /\ op = "create_shape" => M = {"id", "figure", "pos", "size", "style", "z"}
           /\ op = "create_text" => M = {"id", "pos", "size", "text", "style", "z"}
           /\ op = "begin_stroke" => M = {"id", "style", "start", "z"}
           /\ op = "append_stroke_points" => M = {"id", "points"}
           /\ op = "end_stroke" => M = {"id"}
           /\ op = "update_shape_geometry" => M = {"id", "pos", "size"}
           /\ op = "update_shape_style" => M = {"id", "style"}
           /\ op = "update_text_content" => M = {"id", "text"}
           /\ op = "update_text_style" => M = {"id", "style"}
           /\ op = "resize_object" => M = {"id", "size"}
           /\ op = "delete_object" => M = {"id"}
<1>1. PICK F : F = CommandFields[op]
  OBVIOUS
<1>2. StyleFields = {"thickness", "stroke_width", "font_size", "color", "stroke_color",
                     "fill_color", "font_family"}
  BY DEF StyleFields, NumberFields
<1>3. M = {Member[f] : f \in F \cap DOMAIN Member}
            \cup {"style" : f \in F \cap StyleFields}
            \cup UNION {{"pos", "size"} : f \in F \cap {"geometry"}}
  BY <1>1 DEF Members
<1>4. CASE op = "create_shape"
  <2>1. F \cap DOMAIN Member = {"object_id", "shape_type", "z_index"}
    BY <1>1, <1>4, MemberIs DEF CommandFields
  <2>2. "stroke_color" \in F \cap StyleFields /\ F \cap {"geometry"} = {"geometry"}
    BY <1>1, <1>2, <1>4 DEF CommandFields
  <2> QED BY <1>3, <1>4, <2>1, <2>2, MemberIs
<1>5. CASE op = "create_text"
  <2>1. F \cap DOMAIN Member = {"object_id", "position", "size", "text", "z_index"}
    BY <1>1, <1>5, MemberIs DEF CommandFields
  <2>2. "color" \in F \cap StyleFields /\ F \cap {"geometry"} = {}
    BY <1>1, <1>2, <1>5 DEF CommandFields
  <2> QED BY <1>3, <1>5, <2>1, <2>2, MemberIs
<1>6. CASE op = "begin_stroke"
  <2>1. F \cap DOMAIN Member = {"object_id", "start_point", "z_index"}
    BY <1>1, <1>6, MemberIs DEF CommandFields
  <2>2. "color" \in F \cap StyleFields /\ F \cap {"geometry"} = {}
    BY <1>1, <1>2, <1>6 DEF CommandFields
  <2> QED BY <1>3, <1>6, <2>1, <2>2, MemberIs
<1>7. CASE op = "append_stroke_points"
  <2>1. F \cap DOMAIN Member = {"object_id", "points"}
    BY <1>1, <1>7, MemberIs DEF CommandFields
  <2>2. F \cap StyleFields = {} /\ F \cap {"geometry"} = {}
    BY <1>1, <1>2, <1>7 DEF CommandFields
  <2> QED BY <1>3, <1>7, <2>1, <2>2, MemberIs
<1>8. CASE op \in {"end_stroke", "delete_object"}
  <2>1. F \cap DOMAIN Member = {"object_id"}
    BY <1>1, <1>8, MemberIs DEF CommandFields
  <2>2. F \cap StyleFields = {} /\ F \cap {"geometry"} = {}
    BY <1>1, <1>2, <1>8 DEF CommandFields
  <2> QED BY <1>3, <1>8, <2>1, <2>2, MemberIs
<1>9. CASE op = "update_shape_geometry"
  <2>1. F \cap DOMAIN Member = {"object_id"}
    BY <1>1, <1>9, MemberIs DEF CommandFields
  <2>2. F \cap StyleFields = {} /\ F \cap {"geometry"} = {"geometry"}
    BY <1>1, <1>2, <1>9 DEF CommandFields
  <2> QED BY <1>3, <1>9, <2>1, <2>2, MemberIs
<1>10. CASE op \in {"update_shape_style", "update_text_style"}
  <2>1. F \cap DOMAIN Member = {"object_id"}
    BY <1>1, <1>10, MemberIs DEF CommandFields
  <2>2. F \cap StyleFields # {} /\ F \cap {"geometry"} = {}
    BY <1>1, <1>2, <1>10 DEF CommandFields
  <2> QED BY <1>3, <1>10, <2>1, <2>2, MemberIs
<1>11. CASE op = "update_text_content"
  <2>1. F \cap DOMAIN Member = {"object_id", "text"}
    BY <1>1, <1>11, MemberIs DEF CommandFields
  <2>2. F \cap StyleFields = {} /\ F \cap {"geometry"} = {}
    BY <1>1, <1>2, <1>11 DEF CommandFields
  <2> QED BY <1>3, <1>11, <2>1, <2>2, MemberIs
<1>12. CASE op = "resize_object"
  <2>1. F \cap DOMAIN Member = {"object_id", "size"}
    BY <1>1, <1>12, MemberIs DEF CommandFields
  <2>2. F \cap StyleFields = {} /\ F \cap {"geometry"} = {}
    BY <1>1, <1>2, <1>12 DEF CommandFields
  <2> QED BY <1>3, <1>12, <2>1, <2>2, MemberIs
<1>13. op \in {"create_shape", "create_text", "begin_stroke", "append_stroke_points",
               "end_stroke", "update_shape_geometry", "update_shape_style",
               "update_text_content", "update_text_style", "resize_object", "delete_object"}
  BY DEF CommandFields
<1> QED BY <1>4, <1>5, <1>6, <1>7, <1>8, <1>9, <1>10, <1>11, <1>12, <1>13, Zenon

\* What validation looks at is among the data of BoardObjects, or found invalid.
LEMMA JudgedMembers ==
    ASSUME NEW c, NEW j, j = Judged(c)
    PROVE  /\ DOMAIN j = DOMAIN c
           /\ \A k \in DOMAIN c : k \notin {"size", "style", "text"} => j[k] = c[k]
           /\ "size" \in DOMAIN c => j["size"] \in Sizes \cup {Invalid}
           /\ "style" \in DOMAIN c => j["style"] \in Styles \cup {Invalid}
           /\ "text" \in DOMAIN c => j["text"] \in Texts \cup {Invalid}
<1>1. PICK good : good = [size |-> Sizes, style |-> Styles, text |-> Texts]
  OBVIOUS
<1>2. /\ DOMAIN good = {"size", "style", "text"}
      /\ good["size"] = Sizes /\ good["style"] = Styles /\ good["text"] = Texts
  BY <1>1
<1>3. j = [k \in DOMAIN c |-> IF k \in DOMAIN good
                                THEN IF c[k] \in good[k] THEN c[k] ELSE Invalid ELSE c[k]]
  BY <1>1 DEF Judged
<1> QED BY <1>2, <1>3

\* What a reader let through and validation judged is a command of BoardObjects.
LEMMA JudgedCommand ==
    ASSUME NEW c, c.op \in DOMAIN CommandFields, Formed(c),
           \A f \in CommandFields[c.op] : Nameable(f, Value(c, f))
    PROVE  Bare(Judged(c)) \in Command
<1>1. PICK F : F = CommandFields[c.op]
  OBVIOUS
<1>2. PICK M : M = Members(F)
  OBVIOUS
<1>3. /\ c = [k \in M \cup {"op"} |-> c[k]]
      /\ "geometry" \in F => c.pos \in XY
      /\ "points" \in F => c.points \in Seq(XY)
  BY <1>1, <1>2, CommandMembers
<1>4. PICK b : b = Bare(Judged(c))
  OBVIOUS
<1>5. b = [k \in (M \cup {"op"}) \ {"z", "figure"} |-> Judged(c)[k]]
  BY <1>3, <1>4, JudgedMembers DEF Bare
<1>6. /\ b.op = c.op
      /\ \A k \in M \ {"z", "figure", "size", "style", "text"} : b[k] = c[k]
      /\ "size" \in M => b.size \in Sizes \cup {Invalid}
      /\ "style" \in M => b.style \in Styles \cup {Invalid}
      /\ "text" \in M => b.text \in Texts \cup {Invalid}
  BY <1>3, <1>5, JudgedMembers
<1>7. ASSUME NEW f \in F \cap DOMAIN Member PROVE Nameable(f, c[Member[f]])
  <2>1. f # "geometry" /\ f \notin StyleFields
    BY MemberIs DEF StyleFields, NumberFields
  <2>2. Value(c, f) = c[Member[f]]
    BY <2>1 DEF Value
  <2> QED BY <1>1, <2>2
<1>8. "object_id" \in F => c.id \in ObjectIds
  BY <1>7, MemberIs DEF Nameable
<1>9. "position" \in F => c.pos \in Positions
  BY <1>7, MemberIs DEF Nameable
<1>10. "geometry" \in F => c.pos \in Positions
  <2> SUFFICES ASSUME "geometry" \in F PROVE c.pos \in Positions
    OBVIOUS
  <2>1. PICK g : g = Value(c, "geometry")
    OBVIOUS
  <2>5. "geometry" \notin StyleFields
    BY DEF StyleFields, NumberFields
  <2>6. g = [x |-> c.pos.x, y |-> c.pos.y, width |-> c.size.width, height |-> c.size.height]
    BY <2>1, <2>5 DEF Value
  <2>2. g.x = c.pos.x /\ g.y = c.pos.y
    BY <2>6
  <2>3. [x |-> g.x, y |-> g.y] \in Positions
    BY <1>1, <2>1 DEF Nameable
  <2>4. c.pos = [x |-> c.pos.x, y |-> c.pos.y]
    BY <1>3 DEF XY
  <2> QED BY <2>2, <2>3, <2>4
<1>11. "start_point" \in F => c.start \in Points
  BY <1>7, MemberIs DEF Nameable
<1>12. "points" \in F => c.points \in Seq(Points)
  BY <1>7, MemberIs DEF Nameable
<1>13. CASE c.op = "create_shape"
  <2>1. M = {"id", "figure", "pos", "size", "style", "z"}
    BY <1>1, <1>2, <1>13, MembersOf
  <2>2. "object_id" \in F /\ "geometry" \in F
    BY <1>1, <1>13 DEF CommandFields
  <2>3. b \in CreateShape
    BY <1>5, <1>6, <1>8, <1>10, <1>13, <2>1, <2>2 DEF CreateShape
  <2> QED BY <1>4, <2>3 DEF Command
<1>14. CASE c.op = "create_text"
  <2>1. M = {"id", "pos", "size", "text", "style", "z"}
    BY <1>1, <1>2, <1>14, MembersOf
  <2>2. "object_id" \in F /\ "position" \in F
    BY <1>1, <1>14 DEF CommandFields
  <2>3. b \in CreateText
    BY <1>5, <1>6, <1>8, <1>9, <1>14, <2>1, <2>2 DEF CreateText
  <2> QED BY <1>4, <2>3 DEF Command
<1>15. CASE c.op = "begin_stroke"
  <2>1. M = {"id", "style", "start", "z"}
    BY <1>1, <1>2, <1>15, MembersOf
  <2>2. "object_id" \in F /\ "start_point" \in F
    BY <1>1, <1>15 DEF CommandFields
  <2>3. b \in BeginStroke
    BY <1>5, <1>6, <1>8, <1>11, <1>15, <2>1, <2>2 DEF BeginStroke
  <2> QED BY <1>4, <2>3 DEF Command
<1>16. CASE c.op = "append_stroke_points"
  <2>1. M = {"id", "points"}
    BY <1>1, <1>2, <1>16, MembersOf
  <2>2. "object_id" \in F /\ "points" \in F
    BY <1>1, <1>16 DEF CommandFields
  <2>3. b \in AppendStrokePoints
    BY <1>5, <1>6, <1>8, <1>12, <1>16, <2>1, <2>2 DEF AppendStrokePoints
  <2> QED BY <1>4, <2>3 DEF Command
<1>17. CASE c.op = "end_stroke"
  <2>1. M = {"id"}
    BY <1>1, <1>2, <1>17, MembersOf
  <2>3. "object_id" \in F
    BY <1>1, <1>17 DEF CommandFields
  <2>2. b \in EndStroke
    BY <1>5, <1>6, <1>8, <1>17, <2>1, <2>3 DEF EndStroke
  <2> QED BY <1>4, <2>2 DEF Command
<1>18. CASE c.op = "update_shape_geometry"
  <2>1. M = {"id", "pos", "size"}
    BY <1>1, <1>2, <1>18, MembersOf
  <2>3. "object_id" \in F /\ "geometry" \in F
    BY <1>1, <1>18 DEF CommandFields
  <2>2. b \in UpdateShapeGeometry
    BY <1>5, <1>6, <1>8, <1>10, <1>18, <2>1, <2>3 DEF UpdateShapeGeometry
  <2> QED BY <1>4, <2>2 DEF Command
<1>19. CASE c.op = "update_shape_style"
  <2>1. M = {"id", "style"}
    BY <1>1, <1>2, <1>19, MembersOf
  <2>3. "object_id" \in F
    BY <1>1, <1>19 DEF CommandFields
  <2>2. b \in UpdateShapeStyle
    BY <1>5, <1>6, <1>8, <1>19, <2>1, <2>3 DEF UpdateShapeStyle
  <2> QED BY <1>4, <2>2 DEF Command
<1>20. CASE c.op = "update_text_content"
  <2>1. M = {"id", "text"}
    BY <1>1, <1>2, <1>20, MembersOf
  <2>3. "object_id" \in F
    BY <1>1, <1>20 DEF CommandFields
  <2>2. b \in UpdateTextContent
    BY <1>5, <1>6, <1>8, <1>20, <2>1, <2>3 DEF UpdateTextContent
  <2> QED BY <1>4, <2>2 DEF Command
<1>21. CASE c.op = "update_text_style"
  <2>1. M = {"id", "style"}
    BY <1>1, <1>2, <1>21, MembersOf
  <2>3. "object_id" \in F
    BY <1>1, <1>21 DEF CommandFields
  <2>2. b \in UpdateTextStyle
    BY <1>5, <1>6, <1>8, <1>21, <2>1, <2>3 DEF UpdateTextStyle
  <2> QED BY <1>4, <2>2 DEF Command
<1>22. CASE c.op = "resize_object"
  <2>1. M = {"id", "size"}
    BY <1>1, <1>2, <1>22, MembersOf
  <2>3. "object_id" \in F
    BY <1>1, <1>22 DEF CommandFields
  <2>2. b \in ResizeObject
    BY <1>5, <1>6, <1>8, <1>22, <2>1, <2>3 DEF ResizeObject
  <2> QED BY <1>4, <2>2 DEF Command
<1>23. CASE c.op = "delete_object"
  <2>1. M = {"id"}
    BY <1>1, <1>2, <1>23, MembersOf
  <2>3. "object_id" \in F
    BY <1>1, <1>23 DEF CommandFields
  <2>2. b \in DeleteObject
    BY <1>5, <1>6, <1>8, <1>23, <2>1, <2>3 DEF DeleteObject
  <2> QED BY <1>4, <2>2 DEF Command
<1>24. c.op \in {"create_shape", "create_text", "begin_stroke", "append_stroke_points",
                 "end_stroke", "update_shape_geometry", "update_shape_style",
                 "update_text_content", "update_text_style", "resize_object",
                 "delete_object"}
  BY DEF CommandFields
<1> QED BY <1>13, <1>14, <1>15, <1>16, <1>17, <1>18, <1>19, <1>20, <1>21, <1>22, <1>23,
           <1>24, Zenon

\* A command that validation accepts was not found invalid in any part.
LEMMA JudgedAccepted ==
    ASSUME NEW c, c.op \in DOMAIN CommandFields, Formed(c), NEW objs,
           Accepts(objs, Judged(c))
    PROVE  Judged(c) = c
<1>1. PICK j : j = Judged(c)
  OBVIOUS
<1>2. PICK M : M = Members(CommandFields[c.op])
  OBVIOUS
<1>3. c = [k \in M \cup {"op"} |-> c[k]]
  BY <1>2, CommandMembers
<1>4. j.op = c.op /\ DOMAIN j = M \cup {"op"}
  BY <1>1, <1>3, JudgedMembers
<1>5. \A k \in {"size", "style", "text"} \cap DOMAIN c : j[k] # Invalid => j[k] = c[k]
  <2>1. j = [k \in DOMAIN c |->
               IF k \in DOMAIN [size |-> Sizes, style |-> Styles, text |-> Texts]
                 THEN IF c[k] \in [size |-> Sizes, style |-> Styles, text |-> Texts][k]
                        THEN c[k] ELSE Invalid
                 ELSE c[k]]
    BY <1>1 DEF Judged
  <2> QED BY <2>1
<1>6. \A k \in {"size", "style", "text"} \cap DOMAIN c : j[k] # Invalid
  <2>1. CASE c.op \in {"delete_object", "end_stroke", "append_stroke_points"}
    <3>1. M = {"id"} \/ M = {"id", "points"}
      BY <1>2, <2>1, MembersOf
    <3> QED BY <1>3, <3>1
  <2>2. CASE c.op \notin {"delete_object", "end_stroke", "append_stroke_points"}
    <3>1. ~Malformed(j)
      BY <1>1, <1>4, <2>2
         DEF Accepts, Failure, CreateFailure, ResizeFailure, UpdateFailure
    <3> QED BY <1>3, <1>4, <3>1 DEF Malformed
  <2> QED BY <2>1, <2>2
<1>7. \A k \in DOMAIN c : j[k] = c[k]
  BY <1>1, <1>5, <1>6, JudgedMembers
<1>8. j = [k \in DOMAIN c |-> j[k]]
  BY <1>1 DEF Judged
<1> QED BY <1>1, <1>3, <1>7, <1>8

\* What users mean is never changed by the judgement.
LEMMA JudgedOrder ==
    ASSUME NEW c \in Orders
    PROVE  Judged(c) = c
<1>1. c.op \in DOMAIN CommandFields /\ Formed(c) /\ Bare(c) \in Command
  BY OrderFormed
<1>2. c = [k \in DOMAIN c |-> c[k]]
  BY <1>1, CommandMembers
<1>3. \A k \in DOMAIN Bare(c) : Bare(c)[k] = c[k]
  BY DEF Bare
<1>4. /\ "size" \in DOMAIN c => c["size"] \in Sizes \cup {Invalid}
      /\ "style" \in DOMAIN c => c["style"] \in Styles \cup {Invalid}
      /\ "text" \in DOMAIN c => c["text"] \in Texts \cup {Invalid}
  <2>1. PICK b \in Command : b = Bare(c)
    BY <1>1
  <2>2. \A k \in {"size", "style", "text"} : k \in DOMAIN c => k \in DOMAIN b /\ b[k] = c[k]
    BY <2>1 DEF Bare
  <2>3. /\ "size" \in DOMAIN b => b["size"] \in Sizes \cup {Invalid}
        /\ "style" \in DOMAIN b => b["style"] \in Styles \cup {Invalid}
        /\ "text" \in DOMAIN b => b["text"] \in Texts \cup {Invalid}
    BY <2>1 DEF Command, BeginStroke, AppendStrokePoints, EndStroke, CreateShape,
       UpdateShapeGeometry, UpdateShapeStyle, CreateText, UpdateTextContent,
       UpdateTextStyle, ResizeObject, DeleteObject
  <2> QED BY <2>2, <2>3
<1>5. PICK j : j = Judged(c)
  OBVIOUS
<1>6. PICK good : good = [size |-> Sizes, style |-> Styles, text |-> Texts]
  OBVIOUS
<1>7. /\ DOMAIN good = {"size", "style", "text"}
      /\ good["size"] = Sizes /\ good["style"] = Styles /\ good["text"] = Texts
  BY <1>6
<1>8. j = [k \in DOMAIN c |-> IF k \in DOMAIN good
                                THEN IF c[k] \in good[k] THEN c[k] ELSE Invalid ELSE c[k]]
  BY <1>5, <1>6 DEF Judged
<1>9. \A k \in DOMAIN c : j[k] = c[k]
  BY <1>4, <1>7, <1>8
<1> QED BY <1>2, <1>5, <1>8, <1>9

\* The members that the values of the fields of a thing fill are those of the
\* thing.
LEMMA PartsBack ==
    ASSUME NEW F, Compatible(F), NEW c,
           F \cap StyleFields # {} => Ink(c.style, F \cap StyleFields),
           "geometry" \in F => c.pos \in XY /\ c.size \in WH,
           NEW p, p = Parts([f \in F |-> Value(c, f)])
    PROVE  DOMAIN p = Members(F) /\ \A k \in Members(F) : p[k] = c[k]
<1>1. PICK v : v = [f \in F |-> Value(c, f)]
  OBVIOUS
<1>2. p = Parts(v) /\ DOMAIN v = F
  BY <1>1
<1>3. DOMAIN p = Members(F)
  BY <1>2 DEF Parts
<1> SUFFICES ASSUME NEW k \in Members(F) PROVE p[k] = c[k]
  BY <1>3
<1>4. CASE k = "style"
  <2>1. F \cap StyleFields # {}
    <3>1. \A f \in DOMAIN Member : Member[f] # "style"
      BY MemberIs
    <3> QED BY <1>4, <3>1 DEF Members
  <2>2. p[k] = [f \in F \cap StyleFields |-> v[f]]
    BY <1>2, <1>4 DEF Parts
  <2>3. \A f \in F \cap StyleFields : v[f] = c.style[f]
    <3>1. \A f \in StyleFields : f # "geometry"
      BY DEF StyleFields, NumberFields
    <3>2. \A f \in F \cap StyleFields : Value(c, f) = c.style[f]
      BY <3>1 DEF Value
    <3> QED BY <1>1, <3>2
  <2>4. c.style = [f \in F \cap StyleFields |-> c.style[f]]
    BY <2>1 DEF Ink
  <2>5. p[k] = [f \in F \cap StyleFields |-> c.style[f]]
    BY <2>2, <2>3
  <2> QED BY <1>4, <2>4, <2>5
<1>5. CASE k \in {"pos", "size"} /\ "geometry" \in F
  <2>1. c.pos \in XY /\ c.size \in WH
    BY <1>5
  <2>2. PICK g : g = v.geometry
    OBVIOUS
  <2>3. g = Value(c, "geometry")
    BY <1>1, <1>5, <2>2
  <2>4. g = [x |-> c.pos.x, y |-> c.pos.y, width |-> c.size.width, height |-> c.size.height]
    BY <2>3 DEF Value, StyleFields, NumberFields
  <2>5. /\ k = "pos" => p[k] = [x |-> g.x, y |-> g.y]
        /\ k = "size" => p[k] = [width |-> g.width, height |-> g.height]
    BY <1>2, <1>5, <2>2 DEF Parts
  <2>6. CASE k = "pos"
    <3>1. p[k] = [x |-> c.pos.x, y |-> c.pos.y]
      BY <2>4, <2>5, <2>6
    <3> QED BY <2>1, <2>6, <3>1 DEF XY
  <2>7. CASE k = "size"
    <3>1. p[k] = [width |-> c.size.width, height |-> c.size.height]
      BY <2>4, <2>5, <2>7
    <3> QED BY <2>1, <2>7, <3>1 DEF WH
  <2> QED BY <1>5, <2>6, <2>7
<1>6. CASE k # "style" /\ ~(k \in {"pos", "size"} /\ "geometry" \in F)
  <2>1. PICK f \in F \cap DOMAIN Member : Member[f] = k
    BY <1>6 DEF Members
  <2>2. (CHOOSE g \in F \cap DOMAIN Member : Member[g] = k) = f
    BY <2>1, MemberInjective
  <2>3. p[k] = v[CHOOSE g \in F \cap DOMAIN Member : Member[g] = k]
    <3>1. /\ k # "style" /\ ~(k = "pos" /\ "geometry" \in DOMAIN v)
          /\ ~(k = "size" /\ "geometry" \in DOMAIN v)
      BY <1>2, <1>6
    <3> QED BY <1>2, <3>1, SMTT(40) DEF Parts
  <2>4. f # "geometry" /\ f \notin StyleFields
    BY <2>1, MemberIs DEF StyleFields, NumberFields
  <2>5. Value(c, f) = c[k]
    BY <2>1, <2>4 DEF Value
  <2> QED BY <1>1, <2>1, <2>2, <2>3, <2>5
<1> QED BY <1>4, <1>5, <1>6

-----------------------------------------------------------------------------
(* Objects *)

InkOf == [stroke |-> {"color", "thickness"},
          shape |-> {"stroke_color", "fill_color", "stroke_width"},
          text |-> {"font_family", "font_size", "color"}]

\* An object of which every member is of the type that its field has.
Shaped(o, figure) ==
    /\ Ink(o.style, InkOf[o.type])
    /\ o.type = "stroke" => o.points \in Seq(XY)
    /\ o.type \in {"shape", "text"} => o.pos \in XY /\ o.size \in WH
    /\ o.type = "text" => Readable(o.text)
    /\ IF o.type = "shape" THEN figure \in Figures ELSE figure = 0

\* The members of objects, by type.
LEMMA ObjectIs ==
    ASSUME NEW o \in BoardObject
    PROVE  /\ o.type \in {"stroke", "shape", "text"}
           /\ o.deleted \in BOOLEAN
           /\ o # NoObject
           /\ o.type = "stroke" =>
                o = [type |-> o.type, deleted |-> o.deleted, style |-> o.style,
                     points |-> o.points, finished |-> o.finished] /\ o.finished \in BOOLEAN
           /\ o.type = "shape" =>
                o = [type |-> o.type, deleted |-> o.deleted, pos |-> o.pos,
                     size |-> o.size, style |-> o.style]
           /\ o.type = "text" =>
                o = [type |-> o.type, deleted |-> o.deleted, pos |-> o.pos,
                     size |-> o.size, style |-> o.style, text |-> o.text]
<1>1. CASE o \in Stroke
  BY <1>1 DEF Stroke, NoObject
<1>2. CASE o \in Shape
  BY <1>2 DEF Shape, NoObject
<1>3. CASE o \in Text
  BY <1>3 DEF Text, NoObject
<1> QED BY <1>1, <1>2, <1>3 DEF BoardObject

\* The fields of a payload fill the members that an object of its type has.
LEMMA PayloadMembers ==
    /\ Members(PayloadFields["stroke"]) = {"style", "points", "finished"}
    /\ Members(PayloadFields["shape"]) = {"style", "pos", "size", "figure"}
    /\ Members(PayloadFields["text"]) = {"style", "pos", "size", "text"}
    /\ \A t \in {"stroke", "shape", "text"} :
         Compatible(PayloadFields[t]) /\ PayloadFields[t] \cap StyleFields = InkOf[t]
<1>1. /\ PayloadFields["stroke"] = {"color", "thickness", "points", "finished"}
      /\ PayloadFields["shape"] = {"shape_type", "geometry", "stroke_color", "fill_color",
                                   "stroke_width"}
      /\ PayloadFields["text"] = {"position", "size", "text", "font_family", "font_size",
                                  "color"}
  BY DEF PayloadFields
<1>2. StyleFields = {"thickness", "stroke_width", "font_size", "color", "stroke_color",
                     "fill_color", "font_family"}
  BY DEF StyleFields, NumberFields
<1>3. Members(PayloadFields["stroke"]) = {"style", "points", "finished"}
  <2>1. PayloadFields["stroke"] \cap DOMAIN Member = {"points", "finished"}
    BY <1>1, MemberIs
  <2> QED BY <1>1, <1>2, <2>1, MemberIs DEF Members
<1>4. Members(PayloadFields["shape"]) = {"style", "pos", "size", "figure"}
  <2>1. PayloadFields["shape"] \cap DOMAIN Member = {"shape_type"}
    BY <1>1, MemberIs
  <2> QED BY <1>1, <1>2, <2>1, MemberIs DEF Members
<1>5. Members(PayloadFields["text"]) = {"style", "pos", "size", "text"}
  <2>1. PayloadFields["text"] \cap DOMAIN Member = {"position", "size", "text"}
    BY <1>1, MemberIs
  <2> QED BY <1>1, <1>2, <2>1, MemberIs DEF Members
<1>6. \A t \in {"stroke", "shape", "text"} : Compatible(PayloadFields[t])
  BY <1>1, <1>2, MemberIs DEF Compatible, AllFields
<1>7. \A t \in {"stroke", "shape", "text"} : PayloadFields[t] \cap StyleFields = InkOf[t]
  BY <1>1, <1>2 DEF InkOf
<1> QED BY <1>3, <1>4, <1>5, <1>6, <1>7

\* The payload of an object, written and read, gives the object again.
LEMMA PayloadKept ==
    ASSUME NEW o \in BoardObject, NEW figure, Shaped(o, figure), NEW w, NEW optional,
           NEW F, F = PayloadFields[o.type],
           NEW doc, doc = Document(o.type, With(o, [figure |-> figure]), F, w),
           NEW p, p = Strict(doc, F, optional)
    PROVE  /\ doc.type = o.type
           /\ Lenient(doc, F) = p
           /\ p # Refused
           /\ Object(o.type, o.deleted, p) = o
           /\ Figure(p) = figure
<1>1. o.type \in {"stroke", "shape", "text"}
  BY ObjectIs
<1>2. PICK c : c = With(o, [figure |-> figure])
  OBVIOUS
<1>3. /\ "figure" \notin DOMAIN o
      /\ DOMAIN o = {"type", "deleted"} \cup (Members(F) \ {"figure"})
      /\ o = [k \in DOMAIN o |-> o[k]]
  <2>1. CASE o.type = "stroke"
    <3>1. o = [type |-> o.type, deleted |-> o.deleted, style |-> o.style,
               points |-> o.points, finished |-> o.finished]
      BY <2>1, ObjectIs
    <3>2. DOMAIN o = {"type", "deleted", "style", "points", "finished"}
      BY <3>1
    <3>3. o = [k \in DOMAIN o |-> o[k]]
      BY <3>1
    <3>4. Members(F) = {"style", "points", "finished"}
      BY <2>1, PayloadMembers
    <3> QED BY <3>2, <3>3, <3>4
  <2>2. CASE o.type = "shape"
    <3>1. o = [type |-> o.type, deleted |-> o.deleted, pos |-> o.pos,
               size |-> o.size, style |-> o.style]
      BY <2>2, ObjectIs
    <3>2. DOMAIN o = {"type", "deleted", "pos", "size", "style"}
      BY <3>1
    <3>3. o = [k \in DOMAIN o |-> o[k]]
      BY <3>1
    <3>4. Members(F) = {"style", "pos", "size", "figure"}
      BY <2>2, PayloadMembers
    <3> QED BY <3>2, <3>3, <3>4
  <2>3. CASE o.type = "text"
    <3>1. o = [type |-> o.type, deleted |-> o.deleted, pos |-> o.pos,
               size |-> o.size, style |-> o.style, text |-> o.text]
      BY <2>3, ObjectIs
    <3>2. DOMAIN o = {"type", "deleted", "pos", "size", "style", "text"}
      BY <3>1
    <3>3. o = [k \in DOMAIN o |-> o[k]]
      BY <3>1
    <3>4. Members(F) = {"style", "pos", "size", "text"}
      BY <2>3, PayloadMembers
    <3> QED BY <3>2, <3>3, <3>4
  <2> QED BY <1>1, <2>1, <2>2, <2>3
<1>4. (\A k \in DOMAIN o : c[k] = o[k]) /\ c["figure"] = figure
  <2>1. PICK more : more = [figure |-> figure]
    OBVIOUS
  <2>2. DOMAIN more = {"figure"} /\ more["figure"] = figure
    BY <2>1
  <2>3. \A k \in DOMAIN o : c[k] = o[k]
    BY <1>2, <2>1 DEF With
  <2>4. c["figure"] = more["figure"]
    BY <1>2, <1>3, <2>1, <2>2 DEF With
  <2> QED BY <2>2, <2>3, <2>4
<1>5. Compatible(F) /\ F \cap StyleFields = InkOf[o.type]
  BY <1>1, PayloadMembers
<1>6. "style" \in DOMAIN o /\ Ink(c.style, F \cap StyleFields)
  <2>1. "style" \in DOMAIN o
    BY <1>1, <1>3, PayloadMembers
  <2> QED BY <1>4, <1>5, <2>1 DEF Shaped
<1>7. o.type \in {"shape", "text"} => c.pos \in XY /\ c.size \in WH
  <2>1. o.type \in {"shape", "text"} => "pos" \in DOMAIN o /\ "size" \in DOMAIN o
    BY <1>3, PayloadMembers
  <2> QED BY <1>4, <2>1 DEF Shaped
<1>8. "geometry" \in F => o.type = "shape"
  BY <1>1 DEF PayloadFields
<1>9. \A f \in F : Fits(f, Value(c, f)) /\ Legible(f, Value(c, f))
  <2> SUFFICES ASSUME NEW f \in F
               PROVE  Fits(f, Value(c, f)) /\ Legible(f, Value(c, f))
    OBVIOUS
  <2>1. CASE f \in StyleFields
    <3>1. Value(c, f) = c.style[f]
      <4>1. f # "geometry"
        BY <2>1 DEF StyleFields, NumberFields
      <4> QED BY <2>1, <4>1 DEF Value
    <3>2. f \notin {"z_index", "finished", "position", "start_point", "size", "geometry",
                    "points", "text", "shape_type"}
      BY <2>1 DEF StyleFields, NumberFields
    <3>3. f \in NumberFields => Value(c, f) \in Int
      BY <1>6, <2>1, <3>1 DEF Ink
    <3>4. Fits(f, Value(c, f))
      BY <3>2, <3>3 DEF Fits
    <3>5. Legible(f, Value(c, f))
      BY <3>2 DEF Legible
    <3> QED BY <3>4, <3>5
  <2>2. CASE f = "geometry"
    <3>1. c.pos \in XY /\ c.size \in WH
      BY <1>7, <1>8, <2>2
    <3>2. Value(c, f) = [x |-> c.pos.x, y |-> c.pos.y,
                         width |-> c.size.width, height |-> c.size.height]
      BY <2>2 DEF Value, StyleFields, NumberFields
    <3>3. Value(c, f) \in [x : Int, y : Int, width : Int, height : Int]
      BY <3>1, <3>2 DEF XY, WH
    <3> QED BY <2>2, <3>3 DEF Fits, Legible, NumberFields
  <2>3. CASE f \in DOMAIN Member
    <3>1. Value(c, f) = c[Member[f]]
      <4>1. f # "geometry" /\ f \notin StyleFields
        BY <2>3, MemberIs DEF StyleFields, NumberFields
      <4> QED BY <4>1 DEF Value
    <3>2. CASE o.type = "stroke"
      <4>1. f \in {"points", "finished"}
        BY <2>3, <3>2, MemberIs DEF PayloadFields
      <4>2. o.points \in Seq(XY) /\ o.finished \in BOOLEAN
        BY <3>2, ObjectIs DEF Shaped
      <4>3. c["points"] = o.points /\ c["finished"] = o.finished
        BY <1>3, <1>4, <3>2, PayloadMembers
      <4>4. CASE f = "points"
        BY <3>1, <4>2, <4>3, <4>4, MemberIs DEF Fits, Legible, NumberFields, XY
      <4>5. CASE f = "finished"
        BY <3>1, <4>2, <4>3, <4>5, MemberIs DEF Fits, Legible, NumberFields
      <4> QED BY <4>1, <4>4, <4>5
    <3>3. CASE o.type = "shape"
      <4>1. f = "shape_type"
        BY <2>3, <3>3, MemberIs DEF PayloadFields
      <4>2. c["figure"] \in Figures
        BY <1>4, <3>3 DEF Shaped
      <4> QED BY <3>1, <4>1, <4>2, MemberIs DEF Fits, Legible, NumberFields
    <3>4. CASE o.type = "text"
      <4>1. f \in {"position", "size", "text"}
        BY <2>3, <3>4, MemberIs DEF PayloadFields
      <4>2. c["text"] = o.text /\ Readable(c["text"])
        BY <1>3, <1>4, <3>4, PayloadMembers DEF Shaped
      <4>3. c["pos"] \in XY /\ c["size"] \in WH
        BY <1>7, <3>4
      <4>4. CASE f = "position"
        BY <3>1, <4>3, <4>4, MemberIs DEF Fits, Legible, NumberFields, XY
      <4>5. CASE f = "size"
        BY <3>1, <4>3, <4>5, MemberIs DEF Fits, Legible, NumberFields, WH
      <4>6. CASE f = "text"
        BY <3>1, <4>2, <4>6, MemberIs DEF Fits, Legible, NumberFields, Readable
      <4> QED BY <4>1, <4>4, <4>5, <4>6
    <3> QED BY <1>1, <3>2, <3>3, <3>4
  <2> QED BY <1>5, <2>1, <2>2, <2>3 DEF Compatible, AllFields
<1>10. doc.type = o.type /\ p = Parts([f \in F |-> Value(c, f)]) /\ Lenient(doc, F) = p
  BY <1>2, <1>9, DocumentRead
<1>11. DOMAIN p = Members(F) /\ \A k \in Members(F) : p[k] = c[k]
  BY <1>5, <1>6, <1>7, <1>8, <1>10, PartsBack
<1>12. Object(o.type, o.deleted, p) = o
  <2>1. PICK most : most = [k \in DOMAIN p \ {"figure"} |-> p[k]]
    OBVIOUS
  <2>2. PICK more : more = [type |-> o.type, deleted |-> o.deleted]
    OBVIOUS
  <2>3. DOMAIN most = Members(F) \ {"figure"} /\ \A k \in DOMAIN most : most[k] = o[k]
    BY <1>3, <1>4, <1>11, <2>1
  <2>4. DOMAIN more = {"type", "deleted"} /\ \A k \in DOMAIN more : more[k] = o[k]
    BY <2>2
  <2>5. With(most, more) = [k \in DOMAIN o |-> IF k \in DOMAIN most THEN most[k] ELSE more[k]]
    <3>1. DOMAIN most \cup DOMAIN more = DOMAIN o
      BY <1>3, <2>3, <2>4
    <3> QED BY <3>1 DEF With
  <2>6. With(most, more) = [k \in DOMAIN o |-> o[k]]
    BY <1>3, <2>3, <2>4, <2>5
  <2> QED BY <1>3, <2>1, <2>2, <2>6 DEF Object
<1>13. Figure(p) = figure
  <2>1. CASE o.type = "shape"
    BY <1>4, <1>11, <2>1, PayloadMembers DEF Figure
  <2>2. CASE o.type # "shape"
    <3>1. "figure" \notin Members(F)
      BY <1>1, <2>2, PayloadMembers
    <3> QED BY <1>11, <2>2, <3>1 DEF Figure, Shaped
  <2> QED BY <2>1, <2>2
<1>14. p # Refused
  BY <1>10, PartsNotRefused
<1> QED BY <1>10, <1>12, <1>13, <1>14

-----------------------------------------------------------------------------
(* Principals, times, entries *)

\* An author is read as he was written, from JSON and from columns, with a
\* nickname if he is a guest.
LEMMA PrincipalKept ==
    ASSUME NEW p \in Principals
    PROVE  ClientPrincipal(PrincipalJson(p)) = p /\ FromColumns(Columns(p)) = p
<1>1. CASE p.kind = "registered_user"
  <2>1. p = [kind |-> "registered_user", user_id |-> p.user_id]
    BY <1>1, PrincipalsAssumption
  <2>2. PICK j : j = PrincipalJson(p)
    OBVIOUS
  <2>3. j.type = "registered_user" /\ j.user_id = p.user_id
    BY <1>1, <2>2 DEF PrincipalJson
  <2>4. ClientPrincipal(j) = [kind |-> "registered_user", user_id |-> p.user_id]
    BY <2>3 DEF ClientPrincipal
  <2>5. PICK r : r = Columns(p)
    OBVIOUS
  <2>6. r[1] = "registered_user" /\ r[2] = p.user_id
    BY <1>1, <2>5 DEF Columns
  <2>7. FromColumns(r) = [kind |-> "registered_user", user_id |-> p.user_id]
    BY <2>6 DEF FromColumns
  <2> QED BY <2>1, <2>2, <2>4, <2>5, <2>7
<1>2. CASE p.kind = "guest"
  <2>1. p = [kind |-> "guest", guest_id |-> p.guest_id, nickname |-> p.nickname]
    BY <1>2, PrincipalsAssumption
  <2>2. PICK j : j = PrincipalJson(p)
    OBVIOUS
  <2>3. j.type = "guest" /\ j.guest_id = p.guest_id /\ j.nickname = p.nickname
    BY <1>2, <2>2 DEF PrincipalJson
  <2>4. ClientPrincipal(j) = p
    BY <2>1, <2>3 DEF ClientPrincipal
  <2>5. PICK r : r = Columns(p)
    OBVIOUS
  <2>6. r[1] = "guest" /\ r[2] = p.guest_id /\ r[3] = String(p.nickname)
    BY <1>2, <2>5 DEF Columns
  <2>7. FromColumns(r) = p
    <3>1. r[3] # Null /\ r[3][2] = p.nickname /\ r[1] # "registered_user"
      BY <2>6, StringIs
    <3>2. FromColumns(r)
            = [kind |-> "guest", guest_id |-> p.guest_id, nickname |-> p.nickname]
      BY <2>6, <3>1, Zenon DEF FromColumns
    <3> QED BY <2>1, <3>2
  <2> QED BY <2>2, <2>4, <2>5, <2>7
<1> QED BY <1>1, <1>2, PrincipalsAssumption

\* What rounding down to milliseconds and back does to a number of ticks.
LEMMA Division ==
    ASSUME NEW n \in Nat, NEW d \in Nat \ {0}
    PROVE  /\ n \div d \in Nat
           /\ (n \div d) * d \in Nat
           /\ (n \div d) * d <= n
           /\ n < ((n \div d) + 1) * d
OBVIOUS

\* Reading the milliseconds that were written drops a part of the time, the
\* same part however often it is done, and keeps the order.
LEMMA TruncatedIs ==
    ASSUME NEW t \in Nat
    PROVE  /\ FromMillis(ToMillis(t)) = Truncated(t)
           /\ Truncated(t) \in Nat /\ Truncated(t) <= t
           /\ Truncated(Truncated(t)) = Truncated(t)
           /\ \A u \in Nat : t <= u => Truncated(t) <= Truncated(u)
<1>1. PICK d \in Nat \ {0} : d = TicksPerMilli
  BY ClockAssumption
<1>2. PICK q \in Nat : q = t \div d /\ q * d <= t /\ t < (q + 1) * d
  BY Division
<1>3. ToMillis(t) = q /\ Truncated(t) = q * d
  BY <1>1, <1>2 DEF Truncated, ToMillis, FromMillis
<1>4. q * d \in Nat
  BY <1>2
<1>5. (q * d) \div d = q
  BY <1>1, <1>2
<1>6. Truncated(q * d) = q * d
  BY <1>1, <1>5 DEF Truncated, ToMillis, FromMillis
<1>7. ASSUME NEW u \in Nat, t <= u PROVE Truncated(t) <= Truncated(u)
  <2>1. PICK r \in Nat : r = u \div d /\ r * d <= u /\ u < (r + 1) * d
    BY Division
  <2>2. Truncated(u) = r * d
    BY <1>1, <2>1 DEF Truncated, ToMillis, FromMillis
  <2>3. q * d < (r + 1) * d
    BY <1>2, <1>4, <1>7, <2>1
  <2>4. q < r + 1
    BY <1>2, <2>1, <2>3
  <2>5. q * d <= r * d
    BY <1>2, <2>1, <2>4
  <2> QED BY <1>3, <2>2, <2>5
<1> QED BY <1>2, <1>3, <1>4, <1>6, <1>7 DEF Truncated

EntryOK(e) ==
    /\ e = [object |-> e.object, z |-> e.z, by |-> e.by, created |-> e.created,
            updated |-> e.updated, figure |-> e.figure]
    /\ e.object \in BoardObject
    /\ Shaped(e.object, e.figure)
    /\ e.by \in Principals
    /\ e.created \in Nat /\ e.updated \in Nat

\* Every table of the server and the client.
TableOK(table) ==
    /\ table = [i \in ObjectIds |-> table[i]]
    /\ \A i \in ObjectIds : table[i] = NoEntry \/ EntryOK(table[i])

RoundedTable(table) == [i \in ObjectIds |-> Rounded(table[i])]

\* Rounding the times of an entry leaves an entry that is in order, and rounding
\* them again changes nothing.
LEMMA EntryIs ==
    ASSUME NEW e, EntryOK(e)
    PROVE  /\ e # NoEntry
           /\ Rounded(e) = [object |-> e.object, z |-> e.z, by |-> e.by,
                            created |-> Truncated(e.created), updated |-> Truncated(e.updated),
                            figure |-> e.figure]
           /\ EntryOK(Rounded(e))
           /\ Rounded(Rounded(e)) = Rounded(e)
<1>1. e # NoEntry
  <2>1. e.object # NoObject
    BY ObjectIs DEF EntryOK
  <2> QED BY <2>1 DEF NoEntry
<1>2. PICK r : r = [object |-> e.object, z |-> e.z, by |-> e.by,
                    created |-> Truncated(e.created), updated |-> Truncated(e.updated),
                    figure |-> e.figure]
  OBVIOUS
<1>3. Rounded(e) = r
  <2>1. e = [object |-> e.object, z |-> e.z, by |-> e.by, created |-> e.created,
             updated |-> e.updated, figure |-> e.figure]
    BY DEF EntryOK
  <2>2. Rounded(e) = [e EXCEPT !.created = Truncated(e.created), !.updated = Truncated(e.updated)]
    BY <1>1, Zenon DEF Rounded
  <2> QED BY <1>2, <2>1, <2>2
<1>4. /\ r.object = e.object /\ r.z = e.z /\ r.by = e.by /\ r.figure = e.figure
      /\ r.created = Truncated(e.created) /\ r.updated = Truncated(e.updated)
  BY <1>2
<1>5. e.created \in Nat /\ e.updated \in Nat
  BY DEF EntryOK
<1>6. EntryOK(r)
  BY <1>2, <1>4, <1>5, TruncatedIs DEF EntryOK
<1>7. r # NoEntry
  <2>1. r.object # NoObject
    BY <1>6, ObjectIs DEF EntryOK
  <2> QED BY <2>1 DEF NoEntry
<1>8. Rounded(r) = r
  <2>1. Truncated(r.created) = r.created /\ Truncated(r.updated) = r.updated
    BY <1>4, <1>5, TruncatedIs
  <2>2. Rounded(r) = [r EXCEPT !.created = Truncated(r.created), !.updated = Truncated(r.updated)]
    BY <1>7 DEF Rounded
  <2> QED BY <1>2, <2>1, <2>2
<1> QED BY <1>1, <1>2, <1>3, <1>6, <1>8

\* An entry is the same, but for its times, when it is read from its row and
\* when the client reads it.
LEMMA EntryKept ==
    ASSUME NEW e, EntryOK(e)
    PROVE  LoadObject(ObjectRow(e)) = Rounded(e) /\ ClientObject(ServerObject(e)) = Rounded(e)
<1>1. PICK o \in BoardObject : o = e.object
  BY DEF EntryOK
<1>2. /\ Shaped(o, e.figure) /\ e.by \in Principals
      /\ e.created \in Nat /\ e.updated \in Nat
  BY <1>1 DEF EntryOK
<1>3. PICK F : F = PayloadFields[o.type]
  OBVIOUS
<1>4. /\ FromMillis(ToMillis(e.created)) = Truncated(e.created)
      /\ FromMillis(ToMillis(e.updated)) = Truncated(e.updated)
  BY DEF Truncated
<1>5. LoadObject(ObjectRow(e)) = Rounded(e)
  <2>1. PICK doc : doc = Document(o.type, With(o, [figure |-> e.figure]), F, "jsonb")
    OBVIOUS
  <2>2. PICK p : p = Strict(doc, F, {})
    OBVIOUS
  <2>3. p # Refused /\ Object(o.type, o.deleted, p) = o /\ Figure(p) = e.figure
    BY <1>2, <1>3, <2>1, <2>2, PayloadKept
  <2>4. PICK row : row = ObjectRow(e)
    OBVIOUS
  <2>5. /\ row.object_type = o.type /\ row.created_by = Columns(e.by)
        /\ row.created_at_ms = ToMillis(e.created) /\ row.updated_at_ms = ToMillis(e.updated)
        /\ row.is_deleted = o.deleted /\ row.z_index = e.z
        /\ row.payload = doc
    BY <1>1, <1>3, <2>1, <2>4 DEF ObjectRow, PayloadRow, Payload
  <2>6. LoadObject(row) =
          [object |-> Object(o.type, o.deleted, p), figure |-> Figure(p), z |-> e.z,
           by |-> FromColumns(Columns(e.by)), created |-> FromMillis(ToMillis(e.created)),
           updated |-> FromMillis(ToMillis(e.updated))]
    BY <1>3, <2>2, <2>3, <2>5 DEF LoadObject
  <2>7. FromColumns(Columns(e.by)) = e.by
    BY <1>2, PrincipalKept
  <2> QED BY <1>1, <1>4, <2>3, <2>4, <2>6, <2>7, EntryIs
<1>6. ClientObject(ServerObject(e)) = Rounded(e)
  <2>1. PICK doc : doc = Document(o.type, With(o, [figure |-> e.figure]), F, "boost")
    OBVIOUS
  <2>2. PICK p : p = Strict(doc, F, {})
    OBVIOUS
  <2>3. /\ doc.type = o.type /\ Lenient(doc, F) = p
        /\ Object(o.type, o.deleted, p) = o /\ Figure(p) = e.figure
    BY <1>2, <1>3, <2>1, <2>2, PayloadKept
  <2>4. PICK json : json = ServerObject(e)
    OBVIOUS
  <2>5. /\ json.created_by = PrincipalJson(e.by)
        /\ json.created_at = ToMillis(e.created) /\ json.updated_at = ToMillis(e.updated)
        /\ json.is_deleted = o.deleted /\ json.z_index = e.z
        /\ json.payload = doc
    BY <1>1, <1>3, <2>1, <2>4 DEF ServerObject, Payload
  <2>6. (IF json.payload.type \in {"stroke", "text"} THEN json.payload.type ELSE "shape") = o.type
    BY <2>3, <2>5, ObjectIs
  <2>7. ClientObject(json) =
          [object |-> Object(o.type, o.deleted, p), figure |-> Figure(p), z |-> e.z,
           by |-> ClientPrincipal(PrincipalJson(e.by)),
           created |-> FromMillis(ToMillis(e.created)),
           updated |-> FromMillis(ToMillis(e.updated))]
    BY <1>3, <2>3, <2>5, <2>6 DEF ClientObject
  <2>8. ClientPrincipal(PrincipalJson(e.by)) = e.by
    BY <1>2, PrincipalKept
  <2> QED BY <1>1, <1>4, <2>3, <2>4, <2>7, <2>8, EntryIs
<1> QED BY <1>5, <1>6

\* The rows, read back, and the snapshot, read by the client, are the objects
\* with their times in milliseconds.
LEMMA TableKept ==
    ASSUME NEW table, TableOK(table)
    PROVE  /\ LoadObjects(ObjectRows(table)) = RoundedTable(table)
           /\ ClientSnapshot(ServerSnapshot(table)) = RoundedTable(table)
           /\ TableOK(RoundedTable(table))
           /\ RoundedTable(RoundedTable(table)) = RoundedTable(table)
<1>1. PICK r : r = ObjectRows(table)
  OBVIOUS
<1>2. PICK j : j = ServerSnapshot(table)
  OBVIOUS
<1>3. PICK s : s = RoundedTable(table)
  OBVIOUS
<1>4. /\ DOMAIN r = Present(table) /\ \A i \in Present(table) : r[i] = ObjectRow(table[i])
      /\ DOMAIN j = Present(table) /\ \A i \in Present(table) : j[i] = ServerObject(table[i])
  BY <1>1, <1>2 DEF ObjectRows, ServerSnapshot
<1>5. DOMAIN s = ObjectIds /\ \A i \in ObjectIds : s[i] = Rounded(table[i])
  BY <1>3 DEF RoundedTable
<1>6. ASSUME NEW i \in ObjectIds
      PROVE  /\ (IF i \in DOMAIN r THEN LoadObject(r[i]) ELSE NoEntry) = Rounded(table[i])
             /\ (IF i \in DOMAIN j THEN ClientObject(j[i]) ELSE NoEntry) = Rounded(table[i])
             /\ s[i] = NoEntry \/ EntryOK(s[i])
             /\ Rounded(s[i]) = s[i]
  <2>1. CASE table[i] = NoEntry
    <3>1. i \notin Present(table)
      BY <2>1 DEF Present
    <3>2. Rounded(NoEntry) = NoEntry
      BY DEF Rounded
    <3> QED BY <1>4, <1>5, <2>1, <3>1, <3>2
  <2>2. CASE EntryOK(table[i])
    <3>1. i \in Present(table)
      BY <2>2, EntryIs DEF Present
    <3>2. LoadObject(r[i]) = Rounded(table[i]) /\ ClientObject(j[i]) = Rounded(table[i])
      BY <1>4, <2>2, <3>1, EntryKept
    <3>3. EntryOK(s[i]) /\ Rounded(s[i]) = s[i]
      BY <1>5, <2>2, EntryIs
    <3> QED BY <1>4, <3>1, <3>2, <3>3
  <2> QED BY <2>1, <2>2 DEF TableOK
<1>7. LoadObjects(r) = s
  <2>1. LoadObjects(r) = [i \in ObjectIds |-> Rounded(table[i])]
    BY <1>6 DEF LoadObjects
  <2> QED BY <1>3, <2>1 DEF RoundedTable
<1>8. ClientSnapshot(j) = s
  <2>1. ClientSnapshot(j) = [i \in ObjectIds |-> Rounded(table[i])]
    BY <1>6 DEF ClientSnapshot
  <2> QED BY <1>3, <2>1 DEF RoundedTable
<1>9. s = [i \in ObjectIds |-> s[i]]
  BY <1>3 DEF RoundedTable
<1>10. RoundedTable(s) = s
  BY <1>6, <1>9 DEF RoundedTable
<1>11. TableOK(s)
  <2>1. ASSUME NEW i \in ObjectIds PROVE s[i] = NoEntry \/ EntryOK(s[i])
    BY <1>6, Zenon
  <2> QED BY <1>9, <2>1, Zenon DEF TableOK
<1> QED BY <1>1, <1>2, <1>3, <1>7, <1>8, <1>10, <1>11

-----------------------------------------------------------------------------
(* What a command makes of an object *)

\* The members that the commands of BoardObjects have.
LEMMA CommandDomain ==
    ASSUME NEW b \in Command
    PROVE  /\ "op" \in DOMAIN b /\ "id" \in DOMAIN b /\ b.id \in ObjectIds
           /\ b.op \in {"begin_stroke", "create_shape", "create_text", "update_shape_style",
                        "update_text_style"} => "style" \in DOMAIN b
           /\ b.op \in {"create_shape", "create_text", "update_shape_geometry"}
                => "pos" \in DOMAIN b /\ "size" \in DOMAIN b
           /\ b.op = "resize_object" => "size" \in DOMAIN b
           /\ b.op \in {"create_text", "update_text_content"} => "text" \in DOMAIN b
           /\ b.op = "begin_stroke" => "start" \in DOMAIN b
           /\ b.op = "append_stroke_points" => "points" \in DOMAIN b
<1>1. CASE b \in BeginStroke
  BY <1>1 DEF BeginStroke
<1>2. CASE b \in AppendStrokePoints
  BY <1>2 DEF AppendStrokePoints
<1>3. CASE b \in EndStroke
  BY <1>3 DEF EndStroke
<1>4. CASE b \in CreateShape
  BY <1>4 DEF CreateShape
<1>5. CASE b \in UpdateShapeGeometry
  BY <1>5 DEF UpdateShapeGeometry
<1>6. CASE b \in UpdateShapeStyle
  BY <1>6 DEF UpdateShapeStyle
<1>7. CASE b \in CreateText
  BY <1>7 DEF CreateText
<1>8. CASE b \in UpdateTextContent
  BY <1>8 DEF UpdateTextContent
<1>9. CASE b \in UpdateTextStyle
  BY <1>9 DEF UpdateTextStyle
<1>10. CASE b \in ResizeObject
  BY <1>10 DEF ResizeObject
<1>11. CASE b \in DeleteObject
  BY <1>11 DEF DeleteObject
<1> QED
  BY <1>1, <1>2, <1>3, <1>4, <1>5, <1>6, <1>7, <1>8, <1>9, <1>10, <1>11 DEF Command

\* The names of the commands.
LEMMA CommandOps ==
    ASSUME NEW op \in DOMAIN CommandFields
    PROVE  op \in {"create_shape", "create_text", "begin_stroke", "append_stroke_points",
                   "end_stroke", "update_shape_geometry", "update_shape_style",
                   "update_text_content", "update_text_style", "resize_object",
                   "delete_object"}
BY DEF CommandFields

\* Place and figure of an object have no part in what a command does.
LEMMA BareIs ==
    ASSUME NEW c, NEW b \in Command, b = Bare(c)
    PROVE  /\ b.op = c.op /\ b.id = c.id
           /\ c.op \in DOMAIN CommandFields
           /\ \A objs : Accepts(objs, c) <=> Accepts(objs, b)
           /\ c.op \in Creations => Created(c) = Created(b)
           /\ c.op \notin Creations => \A o : Changed(o, c) = Changed(o, b)
<1>1. \A k \in DOMAIN b : k \in DOMAIN c /\ c[k] = b[k]
  BY DEF Bare
<1>2. \A k \in {"style", "size", "text", "points"} : k \in DOMAIN c => k \in DOMAIN b
  BY DEF Bare
<1>3. b.op = c.op /\ b.id = c.id
  BY <1>1, CommandDomain
<1>4. c.op \in DOMAIN CommandFields
  BY <1>3, OpIsKnown
<1>5. \A objs : Accepts(objs, c) <=> Accepts(objs, b)
  <2>1. Malformed(c) <=> Malformed(b)
    BY <1>1, <1>2 DEF Malformed
  <2> SUFFICES ASSUME NEW objs PROVE Failure(objs, c) = Failure(objs, b)
    BY DEF Accepts
  <2>2. PICK o : o = objs[c.id]
    OBVIOUS
  <2>3. /\ CreateFailure(o, c) = CreateFailure(o, b)
        /\ ResizeFailure(o, c) = ResizeFailure(o, b)
        /\ UpdateFailure(o, c) = UpdateFailure(o, b)
    BY <1>3, <2>1 DEF CreateFailure, ResizeFailure, UpdateFailure
  <2> QED BY <1>3, <2>2, <2>3 DEF Failure
<1>6. ASSUME c.op \in Creations PROVE Created(c) = Created(b)
  <2>1. CASE c.op = "begin_stroke"
    <3>1. NewStroke(c) = NewStroke(b)
      BY <1>1, <1>3, <2>1, CommandDomain DEF NewStroke
    <3> QED BY <1>3, <2>1, <3>1 DEF Created
  <2>2. CASE c.op = "create_shape"
    <3>1. NewShape(c) = NewShape(b)
      BY <1>1, <1>3, <2>2, CommandDomain DEF NewShape
    <3> QED BY <1>3, <2>2, <3>1 DEF Created
  <2>3. CASE c.op = "create_text"
    <3>1. NewText(c) = NewText(b)
      BY <1>1, <1>3, <2>3, CommandDomain DEF NewText
    <3> QED BY <1>3, <2>3, <3>1 DEF Created
  <2> QED BY <1>6, <2>1, <2>2, <2>3 DEF Creations
<1>7. ASSUME c.op \notin Creations, NEW o PROVE Changed(o, c) = Changed(o, b)
  <2>1. CASE c.op \in {"append_stroke_points", "end_stroke"}
    <3>1. ChangedInk(o, c) = ChangedInk(o, b)
      BY <1>1, <1>3, <2>1, CommandDomain DEF ChangedInk
    <3> QED BY <1>3, <2>1, <3>1 DEF Changed, Target
  <2>2. CASE c.op \in {"update_shape_geometry", "update_shape_style"}
    <3>1. ChangedShape(o, c) = ChangedShape(o, b)
      BY <1>1, <1>3, <2>2, CommandDomain DEF ChangedShape
    <3> QED BY <1>3, <2>2, <3>1 DEF Changed, Target
  <2>3. CASE c.op \in {"update_text_content", "update_text_style"}
    <3>1. ChangedText(o, c) = ChangedText(o, b)
      BY <1>1, <1>3, <2>3, CommandDomain DEF ChangedText
    <3> QED BY <1>3, <2>3, <3>1 DEF Changed, Target
  <2>4. CASE c.op = "resize_object"
    BY <1>1, <1>3, <2>4, CommandDomain DEF Changed
  <2>5. CASE c.op = "delete_object"
    BY <1>3, <2>5 DEF Changed
  <2> QED BY <1>4, <1>7, <2>1, <2>2, <2>3, <2>4, <2>5, CommandOps DEF Creations
<1> QED BY <1>3, <1>4, <1>5, <1>6, <1>7

FigureOf(c) == IF c.op = "create_shape" THEN c.figure ELSE 0

\* What is created of a command whose fields are of their types has members of
\* their types,
LEMMA CreatedShaped ==
    ASSUME NEW c, c.op \in Creations, Formed(c)
    PROVE  Shaped(Created(c), FigureOf(c))
<1>1. PICK F : F = CommandFields[c.op]
  OBVIOUS
<1>2. c.op \in DOMAIN CommandFields
  BY DEF Creations, CommandFields
<1>3. StyleFields = {"thickness", "stroke_width", "font_size", "color", "stroke_color",
                     "fill_color", "font_family"}
  BY DEF StyleFields, NumberFields
<1>4. CASE c.op = "begin_stroke"
  <2>1. F = {"object_id", "color", "thickness", "start_point", "z_index"}
    BY <1>1, <1>4 DEF CommandFields
  <2>2. F \cap StyleFields = InkOf["stroke"] /\ F \cap StyleFields # {}
    BY <1>3, <2>1 DEF InkOf
  <2>3. Ink(c.style, InkOf["stroke"])
    <3>1. Ink(c.style, F \cap StyleFields)
      BY <1>1, <1>2, <2>2, CommandMembers
    <3> QED BY <2>2, <3>1
  <2>4. "start_point" \in F
    BY <2>1
  <2>5. c.start \in XY
    BY <1>1, <1>2, <2>4, CommandMembers
  <2>6. PICK o : o = Created(c)
    OBVIOUS
  <2>7. o.type = "stroke" /\ o.style = c.style /\ o.points = <<c.start>>
    BY <1>4, <2>6 DEF Created, NewStroke, NewShape, NewText
  <2>8. <<c.start>> \in Seq(XY)
    BY <2>5
  <2> QED BY <1>4, <2>3, <2>5, <2>6, <2>7, <2>8 DEF Shaped, FigureOf
<1>5. CASE c.op = "create_shape"
  <2>1. F = {"object_id", "shape_type", "geometry", "stroke_color", "fill_color",
             "stroke_width", "z_index"}
    BY <1>1, <1>5 DEF CommandFields
  <2>2. F \cap StyleFields = InkOf["shape"] /\ F \cap StyleFields # {}
    BY <1>3, <2>1 DEF InkOf
  <2>3. Ink(c.style, InkOf["shape"])
    <3>1. Ink(c.style, F \cap StyleFields)
      BY <1>1, <1>2, <2>2, CommandMembers
    <3> QED BY <2>2, <3>1
  <2>4. "geometry" \in F /\ "shape_type" \in F
    BY <2>1
  <2>5. c.pos \in XY /\ c.size \in WH /\ c.figure \in Figures
    BY <1>1, <1>2, <2>4, CommandMembers
  <2>6. PICK o : o = Created(c)
    OBVIOUS
  <2>7. o.type = "shape" /\ o.style = c.style /\ o.pos = c.pos /\ o.size = c.size
    BY <1>5, <2>6 DEF Created, NewStroke, NewShape, NewText
  <2> QED BY <1>5, <2>3, <2>5, <2>6, <2>7 DEF Shaped, FigureOf
<1>6. CASE c.op = "create_text"
  <2>1. F = {"object_id", "position", "size", "text", "font_family", "font_size", "color",
             "z_index"}
    BY <1>1, <1>6 DEF CommandFields
  <2>2. F \cap StyleFields = InkOf["text"] /\ F \cap StyleFields # {}
    BY <1>3, <2>1 DEF InkOf
  <2>3. Ink(c.style, InkOf["text"])
    <3>1. Ink(c.style, F \cap StyleFields)
      BY <1>1, <1>2, <2>2, CommandMembers
    <3> QED BY <2>2, <3>1
  <2>4. "position" \in F /\ "size" \in F /\ "text" \in F
    BY <2>1
  <2>5. c.pos \in XY /\ c.size \in WH /\ Readable(c.text)
    BY <1>1, <1>2, <2>4, CommandMembers
  <2>6. PICK o : o = Created(c)
    OBVIOUS
  <2>7. /\ o.type = "text" /\ o.style = c.style /\ o.pos = c.pos /\ o.size = c.size
        /\ o.text = c.text
    BY <1>6, <2>6 DEF Created, NewStroke, NewShape, NewText
  <2> QED BY <1>6, <2>3, <2>5, <2>6, <2>7 DEF Shaped, FigureOf
<1> QED BY <1>4, <1>5, <1>6 DEF Creations

\* and so has what is changed by one.
LEMMA ChangedShaped ==
    ASSUME NEW o \in BoardObject, NEW figure, Shaped(o, figure),
           NEW c, c.op \in DOMAIN CommandFields, Formed(c), c.op \notin Creations,
           \/ c.op = "delete_object"
           \/ c.op = "resize_object" /\ ResizeFailure(o, c) = "ok"
           \/ /\ c.op \notin {"delete_object", "resize_object"}
              /\ UpdateFailure(o, c) = "ok"
    PROVE  Shaped(Changed(o, c), figure)
<1>1. PICK F : F = CommandFields[c.op]
  OBVIOUS
<1>2. StyleFields = {"thickness", "stroke_width", "font_size", "color", "stroke_color",
                     "fill_color", "font_family"}
  BY DEF StyleFields, NumberFields
<1>3. PICK n : n = Changed(o, c)
  OBVIOUS
<1>4. o.type \in {"stroke", "shape", "text"}
  BY ObjectIs
<1>5. CASE c.op = "append_stroke_points"
  <2>1. o.type = "stroke"
    BY <1>5 DEF UpdateFailure, Target
  <2>2. n = [o EXCEPT !.points = @ \o c.points]
    BY <1>3, <1>5 DEF Changed, ChangedInk, ChangedShape, ChangedText, Target
  <2>3. "points" \in F
    BY <1>1, <1>5 DEF CommandFields
  <2>4. c.points \in Seq(XY) /\ o.points \in Seq(XY)
    BY <1>1, <2>1, <2>3, CommandMembers DEF Shaped
  <2>5. DOMAIN o = {"type", "deleted", "style", "points", "finished"}
    BY <2>1, ObjectIs
  <2>6. n.type = o.type /\ n.style = o.style /\ n.points = o.points \o c.points
    BY <2>2, <2>5
  <2>7. o.points \o c.points \in Seq(XY)
    <3>1. PICK p, q : p = o.points /\ q = c.points
      OBVIOUS
    <3>2. p \in Seq(XY) /\ q \in Seq(XY)
      BY <2>4, <3>1
    <3>3. p \o q \in Seq(XY)
      BY <3>2
    <3> QED BY <3>1, <3>3
  <2> QED BY <1>3, <2>1, <2>6, <2>7 DEF Shaped
<1>6. CASE c.op = "end_stroke"
  <2>1. o.type = "stroke"
    BY <1>6 DEF UpdateFailure, Target
  <2>2. n = [o EXCEPT !.finished = TRUE]
    BY <1>3, <1>6 DEF Changed, ChangedInk, ChangedShape, ChangedText, Target
  <2>3. DOMAIN o = {"type", "deleted", "style", "points", "finished"}
    BY <2>1, ObjectIs
  <2>4. n.type = o.type /\ n.style = o.style /\ n.points = o.points
    BY <2>2, <2>3
  <2> QED BY <1>3, <2>1, <2>4 DEF Shaped
<1>7. CASE c.op = "update_shape_geometry"
  <2>1. o.type = "shape"
    BY <1>7 DEF UpdateFailure, Target
  <2>2. n = [o EXCEPT !.pos = c.pos, !.size = c.size]
    BY <1>3, <1>7 DEF Changed, ChangedInk, ChangedShape, ChangedText, Target
  <2>3. "geometry" \in F
    BY <1>1, <1>7 DEF CommandFields
  <2>4. c.pos \in XY /\ c.size \in WH
    BY <1>1, <2>3, CommandMembers
  <2>5. DOMAIN o = {"type", "deleted", "pos", "size", "style"}
    BY <2>1, ObjectIs
  <2>6. n.type = o.type /\ n.style = o.style /\ n.pos = c.pos /\ n.size = c.size
    BY <2>2, <2>5
  <2> QED BY <1>3, <2>1, <2>4, <2>6 DEF Shaped
<1>8. CASE c.op = "update_shape_style"
  <2>1. o.type = "shape"
    BY <1>8 DEF UpdateFailure, Target
  <2>2. n = [o EXCEPT !.style = c.style]
    BY <1>3, <1>8 DEF Changed, ChangedInk, ChangedShape, ChangedText, Target
  <2>3. F \cap StyleFields = InkOf["shape"] /\ F \cap StyleFields # {}
    BY <1>1, <1>2, <1>8 DEF CommandFields, InkOf
  <2>4. Ink(c.style, InkOf["shape"])
    <3>1. Ink(c.style, F \cap StyleFields)
      BY <1>1, <2>3, CommandMembers
    <3> QED BY <2>3, <3>1
  <2>5. DOMAIN o = {"type", "deleted", "pos", "size", "style"}
    BY <2>1, ObjectIs
  <2>6. n.type = o.type /\ n.style = c.style /\ n.pos = o.pos /\ n.size = o.size
    BY <2>2, <2>5
  <2> QED BY <1>3, <2>1, <2>4, <2>6 DEF Shaped
<1>9. CASE c.op = "update_text_content"
  <2>1. o.type = "text"
    BY <1>9 DEF UpdateFailure, Target
  <2>2. n = [o EXCEPT !.text = c.text]
    BY <1>3, <1>9 DEF Changed, ChangedInk, ChangedShape, ChangedText, Target
  <2>3. "text" \in F
    BY <1>1, <1>9 DEF CommandFields
  <2>4. Readable(c.text)
    BY <1>1, <2>3, CommandMembers
  <2>5. DOMAIN o = {"type", "deleted", "pos", "size", "style", "text"}
    BY <2>1, ObjectIs
  <2>6. /\ n.type = o.type /\ n.style = o.style /\ n.pos = o.pos /\ n.size = o.size
        /\ n.text = c.text
    BY <2>2, <2>5
  <2> QED BY <1>3, <2>1, <2>4, <2>6 DEF Shaped
<1>10. CASE c.op = "update_text_style"
  <2>1. o.type = "text"
    BY <1>10 DEF UpdateFailure, Target
  <2>2. n = [o EXCEPT !.style = c.style]
    BY <1>3, <1>10 DEF Changed, ChangedInk, ChangedShape, ChangedText, Target
  <2>3. F \cap StyleFields = InkOf["text"] /\ F \cap StyleFields # {}
    BY <1>1, <1>2, <1>10 DEF CommandFields, InkOf
  <2>4. Ink(c.style, InkOf["text"])
    <3>1. Ink(c.style, F \cap StyleFields)
      BY <1>1, <2>3, CommandMembers
    <3> QED BY <2>3, <3>1
  <2>5. DOMAIN o = {"type", "deleted", "pos", "size", "style", "text"}
    BY <2>1, ObjectIs
  <2>6. /\ n.type = o.type /\ n.style = c.style /\ n.pos = o.pos /\ n.size = o.size
        /\ n.text = o.text
    BY <2>2, <2>5
  <2> QED BY <1>3, <2>1, <2>4, <2>6 DEF Shaped
<1>11. CASE c.op = "resize_object"
  <2>1. o.type \in {"shape", "text"}
    BY <1>4, <1>11 DEF ResizeFailure
  <2>2. n = [o EXCEPT !.size = c.size]
    BY <1>3, <1>11 DEF Changed
  <2>3. "size" \in F
    BY <1>1, <1>11 DEF CommandFields
  <2>4. c.size \in WH
    BY <1>1, <2>3, CommandMembers
  <2>5. /\ {"type", "deleted", "pos", "size", "style"} \subseteq DOMAIN o
        /\ o.type = "text" => "text" \in DOMAIN o
    <3>1. o.type = "shape" => DOMAIN o = {"type", "deleted", "pos", "size", "style"}
      BY ObjectIs
    <3>2. o.type = "text" => DOMAIN o = {"type", "deleted", "pos", "size", "style", "text"}
      BY ObjectIs
    <3> QED BY <2>1, <3>1, <3>2
  <2>6. /\ n.type = o.type /\ n.style = o.style /\ n.pos = o.pos /\ n.size = c.size
        /\ o.type = "text" => n.text = o.text
    BY <2>2, <2>5
  <2> QED BY <1>3, <2>1, <2>4, <2>6 DEF Shaped
<1>12. CASE c.op = "delete_object"
  <2>1. n = [o EXCEPT !.deleted = TRUE]
    BY <1>3, <1>12 DEF Changed
  <2>2. /\ {"type", "deleted", "style"} \subseteq DOMAIN o
        /\ o.type = "stroke" => "points" \in DOMAIN o
        /\ o.type \in {"shape", "text"} => "pos" \in DOMAIN o /\ "size" \in DOMAIN o
        /\ o.type = "text" => "text" \in DOMAIN o
    <3>1. o.type = "shape" => DOMAIN o = {"type", "deleted", "pos", "size", "style"}
      BY ObjectIs
    <3>2. o.type = "text" => DOMAIN o = {"type", "deleted", "pos", "size", "style", "text"}
      BY ObjectIs
    <3>3. o.type = "stroke" => DOMAIN o = {"type", "deleted", "style", "points", "finished"}
      BY ObjectIs
    <3> QED BY <1>4, <3>1, <3>2, <3>3
  <2>3. /\ n.type = o.type /\ n.style = o.style
        /\ o.type = "stroke" => n.points = o.points
        /\ o.type \in {"shape", "text"} => n.pos = o.pos /\ n.size = o.size
        /\ o.type = "text" => n.text = o.text
    BY <2>1, <2>2
  <2> QED BY <1>3, <2>3 DEF Shaped
<1> QED BY <1>5, <1>6, <1>7, <1>8, <1>9, <1>10, <1>11, <1>12, CommandOps DEF Creations

ObjectsOf(table) == [i \in ObjectIds |-> table[i].object]

Updated(e, o, at) == [e EXCEPT !.object = o, !.updated = at]

\* What a command makes of an entry whose object becomes o.
EntryAfter(e, o, c, by, at) ==
    IF c.op \in Creations
      THEN [object |-> o, z |-> c.z, by |-> by, created |-> at, updated |-> at,
            figure |-> FigureOf(c)]
      ELSE Updated(e, o, at)

\* The objects of a table are objects of BoardObjects; times have no part in them.
LEMMA ObjectsOfIs ==
    ASSUME NEW table, TableOK(table)
    PROVE  ObjectsOf(table) \in Objects /\ ObjectsOf(RoundedTable(table)) = ObjectsOf(table)
<1>1. ASSUME NEW i \in ObjectIds
      PROVE  /\ table[i].object \in BoardObject \cup {NoObject}
             /\ Rounded(table[i]).object = table[i].object
  <2>1. PICK e : e = table[i]
    OBVIOUS
  <2>2. CASE e = NoEntry
    BY <2>1, <2>2 DEF Rounded, NoEntry
  <2>3. CASE EntryOK(e)
    BY <2>1, <2>3, EntryIs DEF EntryOK
  <2> QED BY <2>1, <2>2, <2>3 DEF TableOK
<1>2. ObjectsOf(table) \in Objects
  BY <1>1 DEF ObjectsOf, Objects
<1>3. ObjectsOf(RoundedTable(table)) = [i \in ObjectIds |-> Rounded(table[i]).object]
  BY DEF ObjectsOf, RoundedTable
<1>4. ObjectsOf(RoundedTable(table)) = [i \in ObjectIds |-> table[i].object]
  BY <1>1, <1>3
<1> QED BY <1>2, <1>4 DEF ObjectsOf

\* A creation makes the same entry from the whole time and from milliseconds, but
\* for the fraction,
LEMMA EntryCreated ==
    ASSUME NEW e, NEW o \in BoardObject, NEW c, NEW by \in Principals, NEW at \in Nat,
           c.op \in Creations, Shaped(o, FigureOf(c)),
           NEW n, n = EntryAfter(e, o, c, by, at),
           NEW f, NEW m, m = EntryAfter(f, o, c, by, Truncated(at))
    PROVE  EntryOK(n) /\ n.object = o /\ n.updated = at /\ n.created = at /\ m = Rounded(n)
<1>1. n = [object |-> o, z |-> c.z, by |-> by, created |-> at, updated |-> at,
           figure |-> FigureOf(c)]
  BY DEF EntryAfter
<1>2. EntryOK(n)
  BY <1>1 DEF EntryOK
<1>3. Rounded(n) = [object |-> o, z |-> c.z, by |-> by, created |-> Truncated(at),
                    updated |-> Truncated(at), figure |-> FigureOf(c)]
  BY <1>1, <1>2, EntryIs
<1>4. m = Rounded(n)
  BY <1>3 DEF EntryAfter
<1> QED BY <1>1, <1>2, <1>4

\* and so does a change.
LEMMA EntryChanged ==
    ASSUME NEW e, EntryOK(e), NEW o \in BoardObject, NEW c, NEW by, NEW at \in Nat,
           c.op \notin Creations, Shaped(o, e.figure),
           NEW n, n = EntryAfter(e, o, c, by, at)
    PROVE  /\ EntryOK(n) /\ n.object = o /\ n.updated = at /\ n.created = e.created
           /\ Updated(Rounded(e), o, Truncated(at)) = Rounded(n)
<1>1. e = [object |-> e.object, z |-> e.z, by |-> e.by, created |-> e.created,
           updated |-> e.updated, figure |-> e.figure]
  BY DEF EntryOK
<1>2. n = [e EXCEPT !.object = o, !.updated = at]
  BY DEF EntryAfter, Updated
<1>3. n = [object |-> o, z |-> e.z, by |-> e.by, created |-> e.created,
           updated |-> at, figure |-> e.figure]
  BY <1>1, <1>2
<1>4. EntryOK(n)
  BY <1>3 DEF EntryOK
<1>5. Rounded(n) = [object |-> o, z |-> e.z, by |-> e.by, created |-> Truncated(e.created),
                    updated |-> Truncated(at), figure |-> e.figure]
  BY <1>3, <1>4, EntryIs
<1>6. PICK r : r = Rounded(e)
  OBVIOUS
<1>7. r = [object |-> e.object, z |-> e.z, by |-> e.by, created |-> Truncated(e.created),
           updated |-> Truncated(e.updated), figure |-> e.figure]
  BY <1>6, EntryIs
<1>8. PICK m : m = [r EXCEPT !.object = o, !.updated = Truncated(at)]
  OBVIOUS
<1>9. m = [object |-> o, z |-> e.z, by |-> e.by, created |-> Truncated(e.created),
           updated |-> Truncated(at), figure |-> e.figure]
  BY <1>7, <1>8
<1>10. m = Rounded(n)
  BY <1>5, <1>9
<1>11. n.object = o /\ n.updated = at /\ n.created = e.created
  BY <1>3
<1>12. m = Updated(Rounded(e), o, Truncated(at))
  BY <1>6, <1>8, Zenon DEF Updated
<1> QED BY <1>4, <1>10, <1>11, <1>12

\* A command changes the entry of its object, and makes of the object what
\* BoardObjects says.
LEMMA ApplyAtIs ==
    ASSUME NEW table, ObjectsOf(table) \in Objects, NEW c, NEW b \in Command, b = Bare(c),
           NEW by, NEW at,
           NEW o, o = IF c.op \in Creations THEN Created(c)
                      ELSE Changed(table[c.id].object, c)
    PROVE  ApplyAt(table, c, by, at)
             = [table EXCEPT ![c.id] = EntryAfter(table[c.id], o, c, by, at)]
<1>1. PICK objs \in Objects : objs = ObjectsOf(table)
  OBVIOUS
<1>2. c.id \in ObjectIds
  BY BareIs, CommandDomain
<1>3. objs[c.id] = table[c.id].object
  BY <1>1, <1>2 DEF ObjectsOf
<1>4. Apply(objs, c)[c.id] = o
  BY <1>2, <1>3 DEF Apply, Objects
<1>5. ApplyAt(table, c, by, at) =
        [table EXCEPT ![c.id] =
           IF c.op \in Creations
             THEN [object |-> o, z |-> c.z, by |-> by, created |-> at, updated |-> at,
                   figure |-> IF c.op = "create_shape" THEN c.figure ELSE 0]
             ELSE [table[c.id] EXCEPT !.object = o, !.updated = at]]
  BY <1>1, <1>4, Zenon DEF ApplyAt, ObjectsOf
<1> QED BY <1>5 DEF EntryAfter, FigureOf, Updated

\* A command does the same to the objects with their whole times and to those
\* with their times in milliseconds, and leaves a table that is in order.
LEMMA ApplyStep ==
    ASSUME NEW table, TableOK(table), NEW c, Formed(c), Bare(c) \in Command,
           Accepts(ObjectsOf(table), c), NEW by \in Principals, NEW at \in Nat,
           NEW new, new = ApplyAt(table, c, by, at)
    PROVE  /\ TableOK(new)
           /\ ApplyAt(RoundedTable(table), c, by, Truncated(at)) = RoundedTable(new)
           /\ c.id \in ObjectIds
           /\ \A i \in ObjectIds : i # c.id => new[i] = table[i]
           /\ new[c.id] # NoEntry
           /\ ObjectsOf(new) = Apply(ObjectsOf(table), Bare(c))
           /\ new[c.id].updated = at
           /\ \/ new[c.id].created = at
              \/ table[c.id] # NoEntry /\ new[c.id].created = table[c.id].created
<1>1. PICK b \in Command : b = Bare(c)
  OBVIOUS
<1>2. PICK objs \in Objects : objs = ObjectsOf(table)
  BY ObjectsOfIs
<1>3. PICK e : e = table[c.id]
  OBVIOUS
<1>4. PICK o : o = IF c.op \in Creations THEN Created(c) ELSE Changed(e.object, c)
  OBVIOUS
<1>5. /\ c.op \in DOMAIN CommandFields /\ b.op = c.op /\ b.id = c.id /\ c.id \in ObjectIds
      /\ Accepts(objs, b) /\ Accepts(objs, c)
      /\ c.op \in Creations => Created(c) = Created(b)
      /\ c.op \notin Creations => Changed(e.object, c) = Changed(e.object, b)
  BY <1>1, <1>2, BareIs, CommandDomain
<1>6. objs[c.id] = e.object
  BY <1>2, <1>3, <1>5 DEF ObjectsOf
<1>7. Apply(objs, b) \in Objects
  BY <1>5, ApplyType
<1>8. Apply(objs, b)[b.id] = o
  BY <1>4, <1>5, <1>6, ApplyHere
<1>9. ASSUME c.op \in Creations PROVE o \in BoardObject /\ Shaped(o, FigureOf(c))
  <2>1. ~Malformed(b)
    BY <1>5, <1>9 DEF Accepts, Failure, CreateFailure
  <2>2. o \in BoardObject
    BY <1>4, <1>5, <1>9, <2>1, CreatedType
  <2>3. Shaped(o, FigureOf(c))
    BY <1>4, <1>9, CreatedShaped
  <2> QED BY <2>2, <2>3
<1>10. ASSUME c.op \notin Creations
       PROVE  o \in BoardObject /\ EntryOK(e) /\ Shaped(o, e.figure)
  <2>1. Active(e.object)
    BY <1>5, <1>6, <1>10 DEF Accepts, Failure
  <2>2. EntryOK(e)
    <3>1. e # NoEntry
      BY <2>1 DEF NoEntry, Active
    <3> QED BY <1>3, <1>5, <3>1 DEF TableOK
  <2>3. e.object \in BoardObject /\ Shaped(e.object, e.figure)
    BY <2>2 DEF EntryOK
  <2>4. \/ c.op = "delete_object"
        \/ c.op = "resize_object" /\ ResizeFailure(e.object, c) = "ok"
        \/ /\ c.op \notin {"delete_object", "resize_object"}
           /\ UpdateFailure(e.object, c) = "ok"
    BY <1>5, <1>6, <1>10, <2>1 DEF Accepts, Failure
  <2>5. \/ b.op = "delete_object"
        \/ b.op = "resize_object" /\ ResizeFailure(e.object, b) = "ok"
        \/ /\ b.op \notin {"delete_object", "resize_object"}
           /\ UpdateFailure(e.object, b) = "ok"
    BY <1>5, <1>6, <1>10, <2>1 DEF Accepts, Failure
  <2>6. o \in BoardObject
    BY <1>4, <1>5, <1>10, <2>1, <2>3, <2>5, ChangedType
  <2>7. Shaped(o, e.figure)
    BY <1>4, <1>5, <1>10, <2>3, <2>4, ChangedShaped
  <2> QED BY <2>2, <2>6, <2>7
<1>11. o \in BoardObject
  BY <1>9, <1>10
<1>12. PICK n : n = EntryAfter(e, o, c, by, at)
  OBVIOUS
<1>13. /\ EntryOK(n) /\ n.object = o /\ n.updated = at
       /\ n.created = IF c.op \in Creations THEN at ELSE e.created
       /\ EntryAfter(Rounded(e), o, c, by, Truncated(at)) = Rounded(n)
  <2>1. PICK r : r = Rounded(e)
    OBVIOUS
  <2>2. PICK m : m = EntryAfter(r, o, c, by, Truncated(at))
    OBVIOUS
  <2>3. CASE c.op \in Creations
    BY <1>9, <1>12, <2>1, <2>2, <2>3, EntryCreated
  <2>4. CASE c.op \notin Creations
    <3>1. o \in BoardObject /\ EntryOK(e) /\ Shaped(o, e.figure)
      BY <1>10, <2>4
    <3>2. /\ EntryOK(n) /\ n.object = o /\ n.updated = at /\ n.created = e.created
          /\ Updated(Rounded(e), o, Truncated(at)) = Rounded(n)
      BY <1>12, <2>4, <3>1, EntryChanged
    <3> QED BY <2>4, <3>2 DEF EntryAfter
  <2> QED BY <2>3, <2>4
<1>14. new = [table EXCEPT ![c.id] = n]
  BY <1>1, <1>2, <1>3, <1>4, <1>12, ApplyAtIs
<1>15. PICK r : r = RoundedTable(table)
  OBVIOUS
<1>16. ObjectsOf(r) = objs /\ r = [i \in ObjectIds |-> Rounded(table[i])]
  <2>1. ObjectsOf(r) = objs
    BY <1>2, <1>15, ObjectsOfIs
  <2> QED BY <1>15, <2>1, Zenon DEF RoundedTable
<1>17. r[c.id] = Rounded(e) /\ r[c.id].object = e.object
  <2>1. r[c.id] = Rounded(e)
    BY <1>3, <1>5, <1>16
  <2>2. ObjectsOf(r)[c.id] = r[c.id].object
    BY <1>5, Zenon DEF ObjectsOf
  <2> QED BY <1>6, <1>16, <2>1, <2>2
<1>18. ApplyAt(r, c, by, Truncated(at)) = [r EXCEPT ![c.id] = Rounded(n)]
  <2>1. ApplyAt(r, c, by, Truncated(at))
          = [r EXCEPT ![c.id] = EntryAfter(r[c.id], o, c, by, Truncated(at))]
    <3>1. ObjectsOf(r) \in Objects
      BY <1>16
    <3>2. o = IF c.op \in Creations THEN Created(c) ELSE Changed(r[c.id].object, c)
      BY <1>4, <1>17
    <3> QED BY <1>1, <3>1, <3>2, ApplyAtIs
  <2> QED BY <1>13, <1>17, <2>1
<1>19. table = [i \in ObjectIds |-> table[i]]
  BY DEF TableOK
<1>20. new = [i \in ObjectIds |-> IF i = c.id THEN n ELSE table[i]]
  BY <1>14, <1>19
<1>21. [r EXCEPT ![c.id] = Rounded(n)] = RoundedTable(new)
  <2>1. RoundedTable(new) = [i \in ObjectIds |-> IF i = c.id THEN Rounded(n)
                                                  ELSE Rounded(table[i])]
    BY <1>20 DEF RoundedTable
  <2> QED BY <1>5, <1>16, <2>1
<1>22. TableOK(new)
  <2>1. new = [i \in ObjectIds |-> new[i]]
    BY <1>20
  <2>2. ASSUME NEW i \in ObjectIds PROVE new[i] = NoEntry \/ EntryOK(new[i])
    <3>1. CASE i = c.id
      BY <1>13, <1>20, <3>1
    <3>2. CASE i # c.id
      <4>1. new[i] = table[i]
        BY <1>20, <3>2
      <4> QED BY <4>1 DEF TableOK
    <3> QED BY <3>1, <3>2
  <2> QED BY <2>1, <2>2, Zenon DEF TableOK
<1>23. /\ c.id \in ObjectIds
       /\ \A i \in ObjectIds : i # c.id => new[i] = table[i]
       /\ new[c.id] = n
  BY <1>5, <1>20
<1>24. n # NoEntry
  BY <1>13, EntryIs
<1>25. n.created = at \/ (e # NoEntry /\ n.created = e.created)
  <2>1. EntryOK(e) => e # NoEntry
    BY EntryIs
  <2> QED BY <1>10, <1>13, <2>1
<1>26. ObjectsOf(new) = Apply(objs, b)
  <2>1. ASSUME NEW i \in ObjectIds PROVE new[i].object = Apply(objs, b)[i]
    <3>1. CASE i = c.id
      BY <1>5, <1>8, <1>13, <1>23, <3>1
    <3>2. CASE i # c.id
      <4>1. Apply(objs, b)[i] = objs[i]
        BY <1>5, <3>2, ApplyElsewhere
      <4>2. objs[i] = table[i].object
        BY <1>2 DEF ObjectsOf
      <4> QED BY <1>23, <3>2, <4>1, <4>2
    <3> QED BY <3>1, <3>2
  <2>2. ObjectsOf(new) = [i \in ObjectIds |-> Apply(objs, b)[i]]
    BY <2>1 DEF ObjectsOf
  <2>3. PICK result : result = Apply(objs, b)
    OBVIOUS
  <2>4. result = [i \in ObjectIds |-> result[i]]
    BY <1>7, <2>3 DEF Objects
  <2> QED BY <2>2, <2>3, <2>4, Zenon
<1> QED BY <1>1, <1>2, <1>3, <1>13, <1>15, <1>18, <1>21, <1>22, <1>23, <1>24, <1>25, <1>26

-----------------------------------------------------------------------------
(* The board and the operations *)

BoardOK(b) ==
    /\ b = [access_mode |-> b.access_mode, guest_policy |-> b.guest_policy,
            password_hash |-> b.password_hash, last_revision |-> b.last_revision,
            created_at |-> b.created_at, updated_at |-> b.updated_at]
    /\ b.access_mode \in DOMAIN Names["access_mode"]
    /\ b.guest_policy \in DOMAIN Names["guest_policy"]
    /\ b.created_at \in Nat /\ b.updated_at \in Nat

\* The board with its times in milliseconds, and as the client knows it.
RoundedBoard(b) == [b EXCEPT !.created_at = Truncated(@), !.updated_at = Truncated(@)]
OpenBoard(b) ==
    [b EXCEPT !.password_hash = NoPassword,
              !.created_at = Truncated(@), !.updated_at = Truncated(@)]

\* A board is read from its row, and by the client from JSON, as it was written.
LEMMA BoardKept ==
    ASSUME NEW b, BoardOK(b)
    PROVE  /\ LoadBoard(BoardRow(b)) = RoundedBoard(b)
           /\ ClientBoard(ServerBoard(b)) = OpenBoard(b)
           /\ BoardOK(RoundedBoard(b))
           /\ RoundedBoard(RoundedBoard(b)) = RoundedBoard(b)
<1>1. PICK a, g, h, n, c, d :
        /\ a = b.access_mode /\ g = b.guest_policy
        /\ h = b.password_hash /\ n = b.last_revision
        /\ c = b.created_at /\ d = b.updated_at
  OBVIOUS
<1>2. PICK t, u : t = Truncated(b.created_at) /\ u = Truncated(b.updated_at)
  OBVIOUS
<1>3. /\ Named("access_mode", Name("access_mode", a)) = a /\ a # 0
      /\ Named("guest_policy", Name("guest_policy", g)) = g /\ g # 0
  BY <1>1, NamedIs DEF BoardOK, Enums
<1>4. /\ t = FromMillis(ToMillis(b.created_at)) /\ t \in Nat /\ Truncated(t) = t
      /\ u = FromMillis(ToMillis(b.updated_at)) /\ u \in Nat /\ Truncated(u) = u
  <2>1. b.created_at \in Nat /\ b.updated_at \in Nat
    BY DEF BoardOK
  <2> QED BY <1>2, <2>1, TruncatedIs
<1>5. PICK r : r = [access_mode |-> a, guest_policy |-> g,
                    password_hash |-> h, last_revision |-> n,
                    created_at |-> t, updated_at |-> u]
  OBVIOUS
<1>6. b = [access_mode |-> a, guest_policy |-> g, password_hash |-> h,
           last_revision |-> n, created_at |-> c, updated_at |-> d]
  BY <1>1, Zenon DEF BoardOK
<1>7. RoundedBoard(b) = r
  <2>1. PICK q : q = [b EXCEPT !.created_at = t, !.updated_at = u]
    OBVIOUS
  <2>2. RoundedBoard(b) = q
    BY <1>2, <2>1, Zenon DEF RoundedBoard
  <2>3. q = [access_mode |-> a, guest_policy |-> g, password_hash |-> h,
             last_revision |-> n, created_at |-> t, updated_at |-> u]
    BY <1>6, <2>1
  <2> QED BY <1>5, <2>2, <2>3, Zenon
<1>8. LoadBoard(BoardRow(b)) = r
  <2>1. PICK row : row = BoardRow(b)
    OBVIOUS
  <2>2. /\ row.access_mode = Name("access_mode", a)
        /\ row.guest_policy = Name("guest_policy", g)
        /\ row.password_hash = b.password_hash /\ row.last_revision = b.last_revision
        /\ row.created_at_ms = ToMillis(b.created_at)
        /\ row.updated_at_ms = ToMillis(b.updated_at)
    BY <1>1, <2>1 DEF BoardRow
  <2>3. LoadBoard(row) =
          [access_mode |-> a, guest_policy |-> g, password_hash |-> h,
           last_revision |-> n, created_at |-> t, updated_at |-> u]
    BY <1>1, <1>3, <1>4, <2>2 DEF LoadBoard
  <2> QED BY <1>5, <2>1, <2>3, Zenon
<1>9. ClientBoard(ServerBoard(b)) = OpenBoard(b)
  <2>1. PICK j : j = ServerBoard(b)
    OBVIOUS
  <2>2. /\ j.access_mode = (IF a = 1 THEN "private_board" ELSE "password_protected")
        /\ j.guest_policy = (IF g = 1 THEN "guest_disabled"
                             ELSE IF g = 2 THEN "guest_view_only" ELSE "guest_edit_allowed")
        /\ j.last_revision = b.last_revision
        /\ j.created_at = ToMillis(b.created_at) /\ j.updated_at = ToMillis(b.updated_at)
    BY <1>1, <2>1 DEF ServerBoard
  <2>3. j.access_mode = Name("access_mode", a)
    <3>1. Names["access_mode"] = <<"private_board", "password_protected">>
      BY DEF Names
    <3>2. a \in {1, 2}
      BY <1>1, <3>1 DEF BoardOK
    <3> QED BY <2>2, <3>1, <3>2 DEF Name
  <2>4. j.guest_policy = Name("guest_policy", g)
    <3>1. Names["guest_policy"] = <<"guest_disabled", "guest_view_only", "guest_edit_allowed">>
      BY DEF Names
    <3>2. g \in {1, 2, 3}
      BY <1>1, <3>1 DEF BoardOK
    <3> QED BY <2>2, <3>1, <3>2 DEF Name
  <2>5. /\ ClientNamed("access_mode", j.access_mode) = a
        /\ ClientNamed("guest_policy", j.guest_policy) = g
    BY <1>3, <2>3, <2>4 DEF ClientNamed
  <2>6. ClientBoard(j) =
          [access_mode |-> a, guest_policy |-> g, password_hash |-> NoPassword,
           last_revision |-> n, created_at |-> t, updated_at |-> u]
    BY <1>1, <1>4, <2>2, <2>5 DEF ClientBoard
  <2>7. PICK q : q = [b EXCEPT !.password_hash = NoPassword, !.created_at = t, !.updated_at = u]
    OBVIOUS
  <2>8. OpenBoard(b) = q
    BY <1>2, <2>7, Zenon DEF OpenBoard
  <2>9. q = [access_mode |-> a, guest_policy |-> g, password_hash |-> NoPassword,
             last_revision |-> n, created_at |-> t, updated_at |-> u]
    BY <1>6, <2>7
  <2> QED BY <2>1, <2>6, <2>8, <2>9
<1>10. BoardOK(r)
  BY <1>1, <1>4, <1>5 DEF BoardOK
<1>11. RoundedBoard(r) = r
  <2>1. PICK q : q = [r EXCEPT !.created_at = t, !.updated_at = u]
    OBVIOUS
  <2>2. Truncated(r.created_at) = t /\ Truncated(r.updated_at) = u
    BY <1>4, <1>5
  <2>3. RoundedBoard(r) = q
    BY <2>1, <2>2, Zenon DEF RoundedBoard
  <2>4. q = [access_mode |-> a, guest_policy |-> g, password_hash |-> h,
             last_revision |-> n, created_at |-> t, updated_at |-> u]
    BY <1>5, <2>1
  <2> QED BY <1>5, <2>3, <2>4, Zenon
<1> QED BY <1>7, <1>8, <1>9, <1>10, <1>11

\* The log and the message to the others tell of an operation what it was, but
\* for the fraction of its millisecond.
LEMMA OperationKept ==
    ASSUME NEW c, c.op \in DOMAIN CommandFields, Formed(c), NEW by \in Principals,
           NEW revision, NEW at \in Nat,
           NEW o, o = Applied(c, by, revision, at)
    PROVE  /\ LoadOperation(OperationRow(o)) = Applied(c, by, revision, Truncated(at))
           /\ ClientOperation(ServerOperation(o)) = Applied(c, by, revision, Truncated(at))
<1>1. /\ o.actor = by /\ o.revision = revision /\ o.applied_at = at /\ o.payload = c
  BY DEF Applied
<1>2. FromMillis(ToMillis(at)) = Truncated(at)
  BY DEF Truncated
<1>3. PICK row : row = OperationRow(o)
  OBVIOUS
<1>4. /\ row.actor = Columns(by) /\ row.revision = revision
      /\ row.applied_at_ms = ToMillis(at) /\ row.payload = PostgresJson(c)
  BY <1>1, <1>3 DEF OperationRow
<1>5. PostgresCommand(row.payload) = c
  BY <1>4, CommandRead DEF PostgresCommand, PostgresJson
<1>6. LoadOperation(row) = Applied(c, by, revision, Truncated(at))
  BY <1>2, <1>4, <1>5, PrincipalKept DEF LoadOperation
<1>7. PICK json : json = ServerOperation(o)
  OBVIOUS
<1>8. /\ json.actor = PrincipalJson(by) /\ json.revision = revision
      /\ json.applied_at = ToMillis(at) /\ json.payload = ServerJson(c)
  BY <1>1, <1>7 DEF ServerOperation
<1>9. ClientCommand(json.payload) = c
  BY <1>8, CommandRead DEF ServerJson
<1>10. ClientOperation(json) = Applied(c, by, revision, Truncated(at))
  BY <1>2, <1>8, <1>9, PrincipalKept DEF ClientOperation
<1> QED BY <1>3, <1>6, <1>7, <1>10

-----------------------------------------------------------------------------
(* The log, applied *)

\* What Rebuilt comes to its value by: the objects after each operation.
Rebuilds(after, l, n) ==
    after = [k \in 0 .. n |->
               IF k = 0 THEN NoEntries ELSE Replayed(after[k - 1], LoadOperation(l[k]))]

RebuiltFrom(l) ==
    LET after[n \in 0 .. Len(l)] ==
          IF n = 0 THEN NoEntries ELSE Replayed(after[n - 1], LoadOperation(l[n]))
    IN  after[Len(l)]

SameUpTo(l, more, n) == \A k \in 1 .. n : l[k] = more[k]

\* Logs that begin with the same operations lead to the same objects with them.
LEMMA RebuildsAgree ==
    ASSUME NEW one, NEW other, NEW l, NEW more, NEW n \in Nat, NEW m \in Nat, n <= m,
           Rebuilds(one, l, n), Rebuilds(other, more, m),
           SameUpTo(l, more, n)
    PROVE  one[n] = other[n]
<1> DEFINE T == {k \in 0 .. n : one[k] # other[k]}
<1> SUFFICES ASSUME T # {} PROVE FALSE
  <2>1. n \in 0 .. n
    OBVIOUS
  <2> QED BY <2>1
<1>1. PICK k \in T : \A j \in T : k <= j
  <2>1. T \subseteq Nat
    OBVIOUS
  <2> HIDE DEF T
  <2> QED BY <2>1, Least
<1>2. /\ k \in 0 .. n /\ k \in 0 .. m
      /\ one[k] = IF k = 0 THEN NoEntries ELSE Replayed(one[k - 1], LoadOperation(l[k]))
      /\ other[k] = IF k = 0 THEN NoEntries ELSE Replayed(other[k - 1], LoadOperation(more[k]))
  <2>1. k \in 0 .. n /\ k \in 0 .. m
    BY <1>1
  <2> QED BY <2>1 DEF Rebuilds
<1>3. CASE k = 0
  BY <1>1, <1>2, <1>3
<1>4. CASE k # 0
  <2>1. k - 1 \in 0 .. n /\ ~(k <= k - 1) /\ k \in 1 .. n
    BY <1>2, <1>4
  <2>2. one[k - 1] = other[k - 1]
    BY <1>1, <2>1
  <2>3. l[k] = more[k]
    BY <2>1 DEF SameUpTo
  <2> QED BY <1>1, <1>2, <1>4, <2>2, <2>3
<1> QED BY <1>3, <1>4

\* What replaying a log comes to is there after one operation more, by one
\* operation more,
LEMMA RebuildsOn ==
    ASSUME NEW l, NEW n \in Nat, NEW after, Rebuilds(after, l, n)
    PROVE  \E then : Rebuilds(then, l, n + 1)
<1> DEFINE then == [k \in 0 .. n + 1 |-> IF k <= n THEN after[k]
                                          ELSE Replayed(after[n], LoadOperation(l[n + 1]))]
           again == [k \in 0 .. n + 1 |->
                       IF k = 0 THEN NoEntries
                       ELSE Replayed(then[k - 1], LoadOperation(l[k]))]
<1>1. ASSUME NEW k \in 0 .. n + 1 PROVE then[k] = again[k]
  <2>1. again[k] = IF k = 0 THEN NoEntries ELSE Replayed(then[k - 1], LoadOperation(l[k]))
    OBVIOUS
  <2>2. CASE k = n + 1
    <3>1. then[k] = Replayed(after[n], LoadOperation(l[n + 1]))
      BY <2>2
    <3>2. then[k - 1] = after[n] /\ k # 0
      BY <2>2
    <3> HIDE DEF then, again
    <3> QED BY <2>1, <2>2, <3>1, <3>2
  <2>3. CASE k # n + 1
    <3>1. k \in 0 .. n /\ then[k] = after[k]
      BY <2>3
    <3>2. after[k] = IF k = 0 THEN NoEntries ELSE Replayed(after[k - 1], LoadOperation(l[k]))
      BY <3>1 DEF Rebuilds
    <3>3. k # 0 => then[k - 1] = after[k - 1]
      BY <3>1
    <3> HIDE DEF then, again
    <3> QED BY <2>1, <3>1, <3>2, <3>3
  <2> QED BY <2>2, <2>3
<1>2. then = again
  BY <1>1
<1>3. Rebuilds(then, l, n + 1)
  BY <1>2 DEF Rebuilds
<1> HIDE DEF then
<1> QED BY <1>3

\* hence for every log;
LEMMA RebuildsExists ==
    ASSUME NEW l, NEW n \in Nat
    PROVE  \E after : Rebuilds(after, l, n)
<1> DEFINE T == {k \in Nat : ~ \E after : Rebuilds(after, l, k)}
<1> SUFFICES ASSUME T # {} PROVE FALSE
  OBVIOUS
<1>1. PICK k \in T : \A j \in T : k <= j
  BY Least
<1>2. CASE k = 0
  <2> DEFINE none == [j \in 0 .. 0 |-> NoEntries]
  <2>1. none = [j \in 0 .. 0 |->
                  IF j = 0 THEN NoEntries ELSE Replayed(none[j - 1], LoadOperation(l[j]))]
    OBVIOUS
  <2>2. Rebuilds(none, l, 0)
    BY <2>1 DEF Rebuilds
  <2> HIDE DEF none
  <2> QED BY <1>1, <1>2, <2>2
<1>3. CASE k # 0
  <2>1. k - 1 \in Nat /\ ~(k <= k - 1) /\ (k - 1) + 1 = k
    BY <1>1, <1>3
  <2>2. PICK after : Rebuilds(after, l, k - 1)
    BY <1>1, <2>1
  <2>3. PICK j \in Nat : j = k - 1
    BY <2>1
  <2>4. \E then : Rebuilds(then, l, j + 1)
    BY <2>2, <2>3, RebuildsOn
  <2> QED BY <1>1, <2>1, <2>3, <2>4
<1> QED BY <1>2, <1>3

\* Rebuilt is its last value.
LEMMA RebuiltIs ==
    ASSUME NEW l, NEW n \in Nat, n = Len(l)
    PROVE  \E after : Rebuilds(after, l, n) /\ RebuiltFrom(l) = after[n]
<1>1. PICK after : after = (CHOOSE f : Rebuilds(f, l, n))
  OBVIOUS
<1>2. Rebuilds(after, l, n)
  BY <1>1, RebuildsExists
<1>3. RebuiltFrom(l) = after[n]
  BY <1>1 DEF RebuiltFrom, Rebuilds
<1> QED BY <1>2, <1>3

\* The log, applied, starts from the empty board and goes on with the operation
\* that is appended.
LEMMA RebuiltNone ==
    RebuiltFrom(<<>>) = NoEntries
<1>1. PICK l : l = <<>>
  OBVIOUS
<1>2. Len(l) = 0
  BY <1>1
<1>3. PICK after : Rebuilds(after, l, 0) /\ RebuiltFrom(l) = after[0]
  BY <1>2, RebuiltIs
<1>4. after[0] = NoEntries
  BY <1>3 DEF Rebuilds
<1> QED BY <1>1, <1>3, <1>4

\* An operation that is appended is applied to what the log came to.
LEMMA RebuiltAppend ==
    ASSUME NEW S, NEW l \in Seq(S), NEW row, NEW more, more = Append(l, row)
    PROVE  RebuiltFrom(more) = Replayed(RebuiltFrom(l), LoadOperation(row))
<1>1. PICK n \in Nat : n = Len(l)
  OBVIOUS
<1>2. PICK m \in Nat : m = n + 1
  OBVIOUS
<1>3. Len(more) = m /\ more[m] = row /\ \A k \in 1 .. n : l[k] = more[k]
  BY <1>1, <1>2
<1>4. PICK one : Rebuilds(one, l, n) /\ RebuiltFrom(l) = one[n]
  BY <1>1, RebuiltIs
<1>5. PICK other : Rebuilds(other, more, m) /\ RebuiltFrom(more) = other[m]
  BY <1>3, RebuiltIs
<1>6. n <= m /\ n \in 0 .. n /\ m \in 0 .. m /\ m # 0 /\ m - 1 = n
  BY <1>2
<1>7. one[n] = other[n]
  <2>1. SameUpTo(l, more, n)
    BY <1>3 DEF SameUpTo
  <2> QED BY <1>4, <1>5, <1>6, <2>1, RebuildsAgree
<1>8. other[m] = Replayed(other[n], LoadOperation(more[m]))
  BY <1>5, <1>6 DEF Rebuilds
<1>9. more[m] = row
  BY <1>3
<1> QED BY <1>4, <1>5, <1>7, <1>8, <1>9, Zenon

-----------------------------------------------------------------------------
(* The inductive invariant *)

\* The clock has not been overtaken.
Dated(table, now) ==
    \A i \in ObjectIds :
        table[i] # NoEntry => table[i].created <= table[i].updated /\ table[i].updated <= now

EntriesInv ==
    /\ time \in Nat
    /\ TableOK(entries)
    /\ Dated(entries, time)

\* The rows and the objects of the client are those of the server, but for the
\* fractions of milliseconds.
CopiesInv ==
    /\ LoadObjects(rows) = RoundedTable(entries)
    /\ follower = RoundedTable(entries)

BoardInv ==
    /\ BoardOK(board)
    /\ LoadBoard(boardRow) = RoundedBoard(board)

\* Each operation of the log is one that was meant.
Tells(row, o) == LoadOperation(row) = [o EXCEPT !.applied_at = Truncated(@)]

LogInv ==
    /\ log \in Seq(Range(log)) /\ meant \in Seq(Range(meant))
    /\ Len(meant) = Len(log)
    /\ \A n \in 1 .. Len(log) : Tells(log[n], meant[n])
    /\ RebuiltFrom(log) = RoundedTable(entries)

WireInv == EntriesInv /\ CopiesInv /\ BoardInv /\ LogInv

-----------------------------------------------------------------------------
(* Each step keeps it *)

\* A sequence of its own elements, and one more.
LEMMA OneMore ==
    ASSUME NEW s, s \in Seq(Range(s)), NEW x, NEW t, t = Append(s, x)
    PROVE  /\ t \in Seq(Range(t)) /\ Len(t) = Len(s) + 1 /\ t[Len(s) + 1] = x
           /\ SameUpTo(t, s, Len(s))
<1>1. PICK S : S = Range(s)
  OBVIOUS
<1>2. s \in Seq(S)
  BY <1>1
<1>3. PICK n \in Nat : n = Len(s)
  BY <1>2
<1>4. /\ Len(t) = n + 1 /\ t[n + 1] = x
      /\ \A k \in 1 .. n : t[k] = s[k]
  BY <1>2, <1>3
<1>5. PICK T : T = S \cup {x}
  OBVIOUS
<1>6. t \in Seq(T)
  <2>1. s \in Seq(T) /\ x \in T
    <3>1. \A k \in 1 .. n : s[k] \in T
      BY <1>2, <1>3, <1>5
    <3> QED BY <1>2, <1>3, <1>5, <3>1
  <2> QED BY <2>1
<1>7. t \in Seq(Range(t))
  <2>1. PICK R : R = Range(t)
    OBVIOUS
  <2>2. \A k \in 1 .. Len(t) : t[k] \in R
    BY <1>6, <2>1 DEF Range
  <2>3. t \in Seq(R)
    BY <1>6, <2>2
  <2> QED BY <2>1, <2>3
<1> QED BY <1>3, <1>4, <1>7 DEF SameUpTo

\* The empty board is in its rows, and its times are those of its rows.
LEMMA NoEntriesKept ==
    /\ TableOK(NoEntries)
    /\ RoundedTable(NoEntries) = NoEntries
    /\ \A rws : rws = <<>> => LoadObjects(rws) = NoEntries
<1>1. \A i \in ObjectIds : NoEntries[i] = NoEntry
  BY DEF NoEntries
<1>2. TableOK(NoEntries)
  <2>1. NoEntries = [i \in ObjectIds |-> NoEntries[i]]
    BY DEF NoEntries
  <2> QED BY <1>1, <2>1 DEF TableOK
<1>3. RoundedTable(NoEntries) = NoEntries
  <2>1. \A i \in ObjectIds : Rounded(NoEntries[i]) = NoEntry
    BY <1>1 DEF Rounded
  <2>2. RoundedTable(NoEntries) = [i \in ObjectIds |-> NoEntry]
    BY <2>1 DEF RoundedTable
  <2> QED BY <2>2 DEF NoEntries
<1>4. ASSUME NEW rws, rws = <<>> PROVE LoadObjects(rws) = NoEntries
  <2>1. \A i \in ObjectIds : i \notin DOMAIN rws
    BY <1>4
  <2>2. LoadObjects(rws) = [i \in ObjectIds |-> NoEntry]
    BY <2>1 DEF LoadObjects
  <2> QED BY <2>2 DEF NoEntries
<1> QED BY <1>2, <1>3, <1>4

\* Everything agrees about an empty board.
LEMMA StartsRight ==
    ASSUME Init
    PROVE  WireInv
<1>1. PICK s \in Settings :
        board = With(s, [last_revision |-> 0, created_at |-> 1, updated_at |-> 1])
  BY DEF Init
<1>2. /\ s.access_mode \in DOMAIN Names.access_mode
      /\ s.guest_policy \in DOMAIN Names.guest_policy
      /\ s = [access_mode |-> s.access_mode, guest_policy |-> s.guest_policy,
              password_hash |-> s.password_hash]
  BY SettingsAssumption
<1>3. BoardOK(board)
  <2>1. PICK a, g, h : a = s.access_mode /\ g = s.guest_policy /\ h = s.password_hash
    OBVIOUS
  <2>2. s = [access_mode |-> a, guest_policy |-> g, password_hash |-> h]
    BY <1>2, <2>1, Zenon
  <2>3. PICK more : more = [last_revision |-> 0, created_at |-> 1, updated_at |-> 1]
    OBVIOUS
  <2>4. DOMAIN s = {"access_mode", "guest_policy", "password_hash"}
    BY <2>2
  <2>5. DOMAIN more = {"last_revision", "created_at", "updated_at"}
    BY <2>3
  <2>6. PICK w : w = With(s, more)
    OBVIOUS
  <2>7. w = [access_mode |-> a, guest_policy |-> g, password_hash |-> h,
             last_revision |-> 0, created_at |-> 1, updated_at |-> 1]
    <3>1. w = [k \in {"access_mode", "guest_policy", "password_hash",
                      "last_revision", "created_at", "updated_at"} |->
                 IF k \in DOMAIN s THEN s[k] ELSE more[k]]
      BY <2>4, <2>5, <2>6 DEF With
    <3> QED BY <2>2, <2>3, <2>4, <3>1
  <2>8. BoardOK(w)
    <3>1. a \in DOMAIN Names["access_mode"] /\ g \in DOMAIN Names["guest_policy"]
      BY <1>2, <2>1
    <3> QED BY <2>7, <3>1 DEF BoardOK
  <2> QED BY <1>1, <2>3, <2>6, <2>8
<1>4. BoardInv
  BY <1>3, BoardKept DEF Init, BoardInv
<1>5. EntriesInv
  <2>1. entries = NoEntries /\ time = 1
    BY DEF Init
  <2>2. Dated(NoEntries, 1)
    BY DEF Dated, NoEntries
  <2> QED BY <2>1, <2>2, NoEntriesKept DEF EntriesInv
<1>6. CopiesInv
  BY NoEntriesKept, Zenon DEF Init, CopiesInv
<1>7. LogInv
  <2>1. log = <<>> /\ meant = <<>> /\ entries = NoEntries
    BY DEF Init
  <2>2. \A e : e = <<>> => e \in Seq(Range(e)) /\ Len(e) = 0
    OBVIOUS
  <2>3. RebuiltFrom(log) = RoundedTable(entries)
    BY <2>1, RebuiltNone, NoEntriesKept, Zenon
  <2>4. \A n \in 1 .. 0 : Tells(log[n], meant[n])
    OBVIOUS
  <2> QED BY <2>1, <2>2, <2>3, <2>4 DEF LogInv
<1> QED BY <1>4, <1>5, <1>6, <1>7 DEF WireInv

\* What a command leaves, that was read as it was meant.
LEMMA ReceiveKeeps ==
    ASSUME NEW c, c.op \in DOMAIN CommandFields, Formed(c), Bare(Judged(c)) \in Command,
           NEW by \in Principals, NEW json, ServerCommand(json) = c,
           WireInv, Receive(json, by, c)
    PROVE  WireInv'
<1>1. PICK o : o = Applied(c, by, board.last_revision + 1, time)
  OBVIOUS
<1>2. PICK told : told = ClientOperation(ServerOperation(o))
  OBVIOUS
<1>0. Accepts(ObjectsOf(entries), Judged(c))
  BY Zenon DEF Receive, ObjectsOf
<1>20. Judged(c) = c
  BY <1>0, JudgedAccepted
<1>21. Bare(c) \in Command /\ Accepts(ObjectsOf(entries), c)
  BY <1>0, <1>20
<1>3. /\ entries' = ApplyAt(entries, c, by, time)
      /\ rows' = ObjectRows(entries')
      /\ log' = Append(log, OperationRow(o))
      /\ follower' = Replayed(follower, told)
      /\ meant' = Append(meant, [o EXCEPT !.payload = c])
      /\ time' = time
  BY <1>1, <1>2, Zenon DEF Receive, ObjectsOf
<1>4. /\ board' = [board EXCEPT !.last_revision = @ + 1, !.updated_at = time]
      /\ boardRow' = BoardRow(board')
  BY Zenon DEF Receive
<1>5. time \in Nat /\ TableOK(entries) /\ Dated(entries, time)
  BY DEF WireInv, EntriesInv
<1>6. PICK new : new = entries'
  OBVIOUS
<1>7. /\ TableOK(new)
      /\ ApplyAt(RoundedTable(entries), c, by, Truncated(time)) = RoundedTable(new)
      /\ c.id \in ObjectIds
      /\ \A i \in ObjectIds : i # c.id => new[i] = entries[i]
      /\ new[c.id] # NoEntry
      /\ new[c.id].updated = time
      /\ \/ new[c.id].created = time
         \/ entries[c.id] # NoEntry /\ new[c.id].created = entries[c.id].created
  BY <1>3, <1>5, <1>6, <1>21, ApplyStep
<1>8. EntriesInv'
  <2>1. Dated(new, time)
    <3> SUFFICES ASSUME NEW i \in ObjectIds, new[i] # NoEntry
                 PROVE  new[i].created <= new[i].updated /\ new[i].updated <= time
      BY DEF Dated
    <3>1. CASE i # c.id
      BY <1>5, <1>7, <3>1 DEF Dated
    <3>2. CASE i = c.id
      <4>1. CASE new[i].created = time
        BY <1>5, <1>7, <3>2, <4>1
      <4>2. CASE entries[i] # NoEntry /\ new[i].created = entries[i].created
        <5>1. EntryOK(entries[i])
          BY <1>5, <4>2 DEF TableOK
        <5>2. entries[i].created \in Nat /\ entries[i].updated \in Nat
          BY <5>1 DEF EntryOK
        <5>3. entries[i].created <= entries[i].updated /\ entries[i].updated <= time
          BY <1>5, <4>2 DEF Dated
        <5>4. entries[i].created <= time
          BY <1>5, <5>2, <5>3
        <5> QED BY <1>5, <1>7, <3>2, <4>2, <5>4
      <4> QED BY <1>7, <3>2, <4>1, <4>2
    <3> QED BY <3>1, <3>2
  <2> QED BY <1>3, <1>5, <1>6, <1>7, <2>1 DEF EntriesInv
<1>9. told = Applied(c, by, board.last_revision + 1, Truncated(time))
  BY <1>1, <1>2, <1>5, OperationKept
<1>10. LoadOperation(OperationRow(o)) = Applied(c, by, board.last_revision + 1, Truncated(time))
  BY <1>1, <1>5, OperationKept
<1>11. ASSUME NEW op, op = Applied(c, by, board.last_revision + 1, Truncated(time))
       PROVE  Replayed(RoundedTable(entries), op) = RoundedTable(new)
  <2>1. op.payload = c /\ op.actor = by /\ op.applied_at = Truncated(time)
    BY <1>11 DEF Applied
  <2> QED BY <1>7, <2>1 DEF Replayed
<1>12. CopiesInv'
  <2>1. follower = RoundedTable(entries)
    BY DEF WireInv, CopiesInv
  <2>2. follower' = RoundedTable(new)
    BY <1>3, <1>9, <1>11, <2>1
  <2>3. LoadObjects(rows') = RoundedTable(new)
    BY <1>3, <1>6, <1>7, TableKept
  <2> QED BY <1>6, <2>2, <2>3 DEF CopiesInv
<1>13. BoardInv'
  <2>1. PICK b, t : b = board /\ t = time
    OBVIOUS
  <2>2. PICK after : after = [b EXCEPT !.last_revision = @ + 1, !.updated_at = t]
    OBVIOUS
  <2>3. BoardOK(b) /\ t \in Nat
    BY <1>5, <2>1 DEF WireInv, BoardInv
  <2>4. BoardOK(after)
    <3>1. PICK a, g, h, n, d, u :
            /\ a = b.access_mode /\ g = b.guest_policy
            /\ h = b.password_hash /\ n = b.last_revision
            /\ d = b.created_at /\ u = b.updated_at
      OBVIOUS
    <3>2. b = [access_mode |-> a, guest_policy |-> g, password_hash |-> h,
               last_revision |-> n, created_at |-> d, updated_at |-> u]
      BY <2>3, <3>1, Zenon DEF BoardOK
    <3>3. PICK m : m = n + 1
      OBVIOUS
    <3>4. after = [b EXCEPT !.last_revision = m, !.updated_at = t]
      BY <2>2, <3>1, <3>3, Zenon
    <3>5. after = [access_mode |-> a, guest_policy |-> g, password_hash |-> h,
                   last_revision |-> m, created_at |-> d, updated_at |-> t]
      BY <3>2, <3>4
    <3>6. /\ a \in DOMAIN Names["access_mode"] /\ g \in DOMAIN Names["guest_policy"]
          /\ d \in Nat
      BY <2>3, <3>1 DEF BoardOK
    <3> QED BY <2>3, <3>5, <3>6 DEF BoardOK
  <2>5. board' = after
    BY <1>4, <2>1, <2>2, Zenon
  <2>6. LoadBoard(boardRow') = RoundedBoard(after)
    BY <1>4, <2>4, <2>5, BoardKept
  <2> QED BY <2>4, <2>5, <2>6 DEF BoardInv
<1>14. LogInv'
  <2>1. /\ log \in Seq(Range(log)) /\ meant \in Seq(Range(meant))
        /\ Len(meant) = Len(log)
        /\ \A n \in 1 .. Len(log) : Tells(log[n], meant[n])
        /\ RebuiltFrom(log) = RoundedTable(entries)
    BY DEF WireInv, LogInv
  <2>2. PICK n \in Nat : n = Len(log)
    BY <2>1
  <2>3. PICK row, mine : row = OperationRow(o) /\ mine = [o EXCEPT !.payload = c]
    OBVIOUS
  <2>4. log' = Append(log, row) /\ meant' = Append(meant, mine)
    BY <1>3, <2>3, Zenon
  <2>5. /\ log' \in Seq(Range(log')) /\ Len(log') = n + 1 /\ log'[n + 1] = row
        /\ SameUpTo(log', log, n)
    BY <2>1, <2>2, <2>4, OneMore
  <2>6. /\ meant' \in Seq(Range(meant')) /\ Len(meant') = n + 1 /\ meant'[n + 1] = mine
        /\ SameUpTo(meant', meant, n)
    BY <2>1, <2>2, <2>4, OneMore
  <2>7. Tells(row, mine)
    <3>1. PICK revision, at, cut :
            revision = board.last_revision + 1 /\ at = time /\ cut = Truncated(time)
      OBVIOUS
    <3>2. o = [actor |-> by, revision |-> revision, applied_at |-> at, payload |-> c]
      BY <1>1, <3>1 DEF Applied
    <3>3. mine = [actor |-> by, revision |-> revision, applied_at |-> at, payload |-> c]
      BY <2>3, <3>2
    <3>4. PICK read : read = [mine EXCEPT !.applied_at = cut]
      OBVIOUS
    <3>5. read = [actor |-> by, revision |-> revision, applied_at |-> cut, payload |-> c]
      BY <3>3, <3>4
    <3>6. LoadOperation(row) = Applied(c, by, revision, cut)
      BY <1>10, <2>3, <3>1
    <3>7. LoadOperation(row) = read
      BY <3>5, <3>6 DEF Applied
    <3>8. Truncated(mine.applied_at) = cut
      BY <3>1, <3>3
    <3> QED BY <3>4, <3>7, <3>8, Zenon DEF Tells
  <2>8. ASSUME NEW k \in 1 .. n + 1 PROVE Tells(log'[k], meant'[k])
    <3>1. CASE k = n + 1
      BY <2>5, <2>6, <2>7, <3>1
    <3>2. CASE k # n + 1
      <4>1. k \in 1 .. n
        BY <3>2
      <4>2. log'[k] = log[k] /\ meant'[k] = meant[k]
        BY <2>5, <2>6, <4>1 DEF SameUpTo
      <4> QED BY <2>1, <2>2, <4>1, <4>2
    <3> QED BY <3>1, <3>2
  <2>9. RebuiltFrom(log') = RoundedTable(new)
    <3>1. RebuiltFrom(log') = Replayed(RebuiltFrom(log), LoadOperation(row))
      BY <2>1, <2>4, RebuiltAppend
    <3>2. LoadOperation(row) = Applied(c, by, board.last_revision + 1, Truncated(time))
      BY <1>10, <2>3
    <3> QED BY <1>11, <2>1, <3>1, <3>2
  <2> QED BY <1>6, <2>5, <2>6, <2>8, <2>9 DEF LogInv
<1> QED BY <1>8, <1>12, <1>13, <1>14 DEF WireInv

\* Time passes.
LEMMA TickKeeps ==
    ASSUME WireInv, Tick
    PROVE  WireInv'
<1>1. /\ time' = time + 1
      /\ board' = board /\ boardRow' = boardRow /\ entries' = entries /\ rows' = rows
      /\ log' = log /\ follower' = follower /\ meant' = meant
  BY DEF Tick
<1>2. time \in Nat /\ TableOK(entries) /\ Dated(entries, time)
  BY DEF WireInv, EntriesInv
<1>3. PICK now : now = time + 1
  OBVIOUS
<1>4. Dated(entries, now)
  <2> SUFFICES ASSUME NEW i \in ObjectIds, entries[i] # NoEntry
               PROVE  entries[i].created <= entries[i].updated /\ entries[i].updated <= now
    BY DEF Dated
  <2>1. EntryOK(entries[i])
    BY <1>2 DEF TableOK
  <2>2. entries[i].updated \in Nat
    BY <2>1 DEF EntryOK
  <2>3. entries[i].created <= entries[i].updated /\ entries[i].updated <= time
    BY <1>2 DEF Dated
  <2> QED BY <1>2, <1>3, <2>2, <2>3
<1>5. EntriesInv'
  BY <1>1, <1>2, <1>3, <1>4 DEF EntriesInv
<1>6. CopiesInv'
  BY <1>1 DEF WireInv, CopiesInv
<1>7. BoardInv'
  BY <1>1 DEF WireInv, BoardInv
<1>8. LogInv'
  BY <1>1 DEF WireInv, LogInv
<1> QED BY <1>5, <1>6, <1>7, <1>8 DEF WireInv

\* What was read from the rows is written to the same rows.
LEMMA RestartKeeps ==
    ASSUME WireInv, Restart
    PROVE  WireInv'
<1>1. /\ board' = LoadBoard(boardRow)
      /\ entries' = LoadObjects(rows)
      /\ follower' = ClientSnapshot(ServerSnapshot(entries'))
      /\ boardRow' = boardRow /\ rows' = rows /\ log' = log /\ meant' = meant
      /\ time' = time
  BY DEF Restart
<1>2. time \in Nat /\ TableOK(entries) /\ Dated(entries, time)
  BY DEF WireInv, EntriesInv
<1>3. LoadObjects(rows) = RoundedTable(entries)
  BY DEF WireInv, CopiesInv
<1>4. PICK old, new : old = entries /\ new = RoundedTable(old)
  OBVIOUS
<1>5. TableOK(new) /\ RoundedTable(new) = new
  BY <1>2, <1>4, TableKept
<1>6. entries' = new /\ LoadObjects(rows) = new /\ RoundedTable(entries) = new
  BY <1>1, <1>3, <1>4
<1>7. Dated(new, time)
  <2> SUFFICES ASSUME NEW i \in ObjectIds, new[i] # NoEntry
               PROVE  new[i].created <= new[i].updated /\ new[i].updated <= time
    BY DEF Dated
  <2>1. new[i] = Rounded(old[i])
    BY <1>4 DEF RoundedTable
  <2>2. old[i] # NoEntry
    BY <2>1 DEF Rounded
  <2>3. EntryOK(old[i])
    BY <1>2, <1>4, <2>2 DEF TableOK
  <2>4. old[i].created \in Nat /\ old[i].updated \in Nat
    BY <2>3 DEF EntryOK
  <2>5. old[i].created <= old[i].updated /\ old[i].updated <= time
    BY <1>2, <1>4, <2>2 DEF Dated
  <2>6. new[i].created = Truncated(old[i].created) /\ new[i].updated = Truncated(old[i].updated)
    BY <2>1, <2>3, EntryIs
  <2>7. PICK t, u : t = old[i].created /\ u = old[i].updated
    OBVIOUS
  <2>8. /\ Truncated(t) <= Truncated(u) /\ Truncated(u) <= u
        /\ Truncated(t) \in Nat /\ Truncated(u) \in Nat
    BY <2>4, <2>5, <2>7, TruncatedIs
  <2>9. Truncated(u) <= time
    BY <1>2, <2>4, <2>5, <2>7, <2>8
  <2> QED BY <2>6, <2>7, <2>8, <2>9
<1>8. EntriesInv'
  BY <1>1, <1>2, <1>5, <1>6, <1>7 DEF EntriesInv
<1>9. CopiesInv'
  <2>1. ClientSnapshot(ServerSnapshot(new)) = new
    BY <1>5, TableKept
  <2> QED BY <1>1, <1>5, <1>6, <2>1 DEF CopiesInv
<1>10. BoardInv'
  <2>1. BoardOK(board) /\ LoadBoard(boardRow) = RoundedBoard(board)
    BY DEF WireInv, BoardInv
  <2>2. BoardOK(RoundedBoard(board)) /\ RoundedBoard(RoundedBoard(board)) = RoundedBoard(board)
    BY <2>1, BoardKept
  <2>3. board' = RoundedBoard(board) /\ LoadBoard(boardRow') = RoundedBoard(board)
    BY <1>1, <2>1
  <2> QED BY <2>2, <2>3 DEF BoardInv
<1>11. LogInv'
  BY <1>1, <1>5, <1>6 DEF WireInv, LogInv
<1> QED BY <1>8, <1>9, <1>10, <1>11 DEF WireInv

\* Drawing and sending are receiving what was meant.
LEMMA StepKeeps ==
    ASSUME WireInv, [Next]_vars
    PROVE  WireInv'
<1>1. ASSUME NEW c \in Orders, NEW by \in Principals, Draw(c, by)
      PROVE  WireInv'
  <2>1. c.op \in DOMAIN CommandFields /\ Formed(c) /\ Bare(Judged(c)) \in Command
    BY OrderFormed, JudgedOrder
  <2>2. ServerCommand(BuilderJson(c)) = c
    BY <2>1, CommandRead DEF ServerCommand, BuilderJson
  <2>3. Receive(BuilderJson(c), by, c)
    BY <1>1 DEF Draw
  <2> QED BY <2>1, <2>2, <2>3, ReceiveKeeps
<1>2. ASSUME NEW c \in Orders, NEW by \in Principals, Send(c, by)
      PROVE  WireInv'
  <2>1. c.op \in DOMAIN CommandFields /\ Formed(c) /\ Bare(Judged(c)) \in Command
    BY OrderFormed, JudgedOrder
  <2>2. ServerCommand(ServerJson(c)) = c
    BY <2>1, CommandRead DEF ServerCommand, ServerJson
  <2>3. Receive(ServerJson(c), by, c)
    BY <1>2 DEF Send
  <2> QED BY <2>1, <2>2, <2>3, ReceiveKeeps
<1>3. ASSUME NEW json \in Foreign, NEW by \in Principals, SendForeign(json, by)
      PROVE  WireInv'
  <2>1. PICK c : c = ServerCommand(json)
    OBVIOUS
  <2>2. Receive(json, by, c)
    BY <1>3, <2>1 DEF SendForeign
  <2>3. c # Refused
    BY <2>1, <2>2 DEF Receive
  <2>4. c.op \in DOMAIN CommandFields /\ Formed(c) /\ Bare(Judged(c)) \in Command
    BY <2>1, <2>3, ForeignFormed, JudgedCommand
  <2> QED BY <2>1, <2>2, <2>4, ReceiveKeeps
<1>4. CASE UNCHANGED vars
  <2>1. /\ time' = time
        /\ board' = board /\ boardRow' = boardRow /\ entries' = entries /\ rows' = rows
        /\ log' = log /\ follower' = follower /\ meant' = meant
    BY <1>4 DEF vars
  <2> QED BY <2>1 DEF WireInv, EntriesInv, CopiesInv, BoardInv, LogInv
<1> QED BY <1>1, <1>2, <1>3, <1>4, TickKeeps, RestartKeeps DEF Next

\* The clock has not been overtaken, the copies are copies, and the log is what
\* was meant and leads to the objects.
THEOREM WireInvariant == Spec => []WireInv
<1>1. Init => WireInv
  BY StartsRight
<1>2. WireInv /\ [Next]_vars => WireInv'
  BY StepKeeps
<1> QED BY <1>1, <1>2, PTL DEF Spec

-----------------------------------------------------------------------------
(* What it gives *)

\* Whatever was sent, by a user or in JSON that nobody meant, what is in memory
\* are objects that validation lets through, by one of the principals, with
\* times in their order.
THEOREM EntriesTyped == Spec => []TypeOK
<1>1. WireInv => TypeOK
  <2> SUFFICES ASSUME WireInv, NEW i \in Present(entries)
               PROVE  /\ entries[i].object \in BoardObject
                      /\ entries[i].by \in Principals
                      /\ entries[i].created \in 0 .. entries[i].updated
                      /\ entries[i].updated \in 0 .. time
                      /\ IF entries[i].object.type = "shape" THEN entries[i].figure \in Figures
                         ELSE entries[i].figure = 0
    BY DEF TypeOK
  <2>1. i \in ObjectIds /\ entries[i] # NoEntry
    BY DEF Present
  <2>2. time \in Nat /\ TableOK(entries) /\ Dated(entries, time)
    BY DEF WireInv, EntriesInv
  <2>3. EntryOK(entries[i])
    BY <2>1, <2>2 DEF TableOK
  <2>4. entries[i].created <= entries[i].updated /\ entries[i].updated <= time
    BY <2>1, <2>2 DEF Dated
  <2>5. entries[i].created \in Nat /\ entries[i].updated \in Nat
    BY <2>3 DEF EntryOK
  <2>6. Shaped(entries[i].object, entries[i].figure)
    BY <2>3 DEF EntryOK
  <2>7. IF entries[i].object.type = "shape" THEN entries[i].figure \in Figures
        ELSE entries[i].figure = 0
    BY <2>6 DEF Shaped
  <2>8. entries[i].object \in BoardObject /\ entries[i].by \in Principals
    BY <2>3 DEF EntryOK
  <2>9. entries[i].created \in 0 .. entries[i].updated /\ entries[i].updated \in 0 .. time
    BY <2>2, <2>4, <2>5
  <2> QED BY <2>7, <2>8, <2>9
<1> QED BY <1>1, WireInvariant, PTL

\* Builder, serializer, parser and postgres_json agree, on every command that
\* there is: the log, read back, is what was meant, by whom and when.
THEOREM LogIsMeant == Spec => []LogTellsWhatWasMeant
<1>1. WireInv => LogTellsWhatWasMeant
  <2> SUFFICES ASSUME WireInv, NEW n \in DOMAIN log
               PROVE  LoadOperation(log[n]) = [meant[n] EXCEPT !.applied_at = Truncated(@)]
    BY DEF LogTellsWhatWasMeant
  <2>1. log \in Seq(Range(log)) /\ \A k \in 1 .. Len(log) : Tells(log[k], meant[k])
    BY DEF WireInv, LogInv
  <2>2. n \in 1 .. Len(log)
    BY <2>1
  <2>3. Tells(log[n], meant[n])
    BY <2>1, <2>2
  <2> QED BY <2>3, Zenon DEF Tells
<1> QED BY <1>1, WireInvariant, PTL

\* However long the log is, applying it to the empty board gives the objects
\* that are in the rows.
THEOREM LogIsEnough == Spec => []LogRebuildsObjects
<1>1. WireInv => LogRebuildsObjects
  <2> SUFFICES ASSUME WireInv PROVE Rebuilt = LoadObjects(rows)
    BY DEF LogRebuildsObjects
  <2>1. RebuiltFrom(log) = LoadObjects(rows)
    BY DEF WireInv, LogInv, CopiesInv
  <2>2. Rebuilt = RebuiltFrom(log)
    BY Zenon DEF Rebuilt, RebuiltFrom
  <2> QED BY <2>1, <2>2
<1> QED BY <1>1, WireInvariant, PTL

\* A restart gives back the objects and the board, in whatever way they came to
\* be, but for the fraction of a millisecond.
THEOREM RestartGivesBack == Spec => []RestartIsInvisible
<1>1. WireInv => RestartIsInvisible
  <2> SUFFICES ASSUME WireInv PROVE RestartIsInvisible
    OBVIOUS
  <2>1. LoadObjects(rows) = [i \in ObjectIds |-> Rounded(entries[i])]
    BY Zenon DEF WireInv, CopiesInv, RoundedTable
  <2>2. LoadBoard(boardRow) =
          [board EXCEPT !.created_at = Truncated(@), !.updated_at = Truncated(@)]
    BY Zenon DEF WireInv, BoardInv, RoundedBoard
  <2> QED BY <2>1, <2>2, Zenon DEF RestartIsInvisible
<1> QED BY <1>1, WireInvariant, PTL

\* Who applied every message and who reads the snapshot have the same objects,
\* those of the server, and the board without its password.
THEOREM EverybodySeesTheBoard == Spec => []FollowersAndNewcomersAgree
<1>1. WireInv => FollowersAndNewcomersAgree
  <2> SUFFICES ASSUME WireInv PROVE FollowersAndNewcomersAgree
    OBVIOUS
  <2>1. follower = [i \in ObjectIds |-> Rounded(entries[i])]
    BY Zenon DEF WireInv, CopiesInv, RoundedTable
  <2>2. TableOK(entries) /\ BoardOK(board) /\ follower = RoundedTable(entries)
    BY DEF WireInv, EntriesInv, BoardInv, CopiesInv
  <2>3. ClientSnapshot(ServerSnapshot(entries)) = follower
    BY <2>2, TableKept
  <2>4. ClientBoard(ServerBoard(board)) = OpenBoard(board)
    BY <2>2, BoardKept
  <2>5. ClientBoard(ServerBoard(board)) =
          [board EXCEPT !.password_hash = NoPassword,
                        !.created_at = Truncated(@), !.updated_at = Truncated(@)]
    BY <2>4, Zenon DEF OpenBoard
  <2> QED BY <2>1, <2>3, <2>5, Zenon DEF FollowersAndNewcomersAgree
<1> QED BY <1>1, WireInvariant, PTL

-----------------------------------------------------------------------------
(* The life of the objects *)

\* BoardState applies a command as the server does.
LEMMA LifeApplies ==
    ASSUME NEW objs, NEW c
    PROVE  /\ Life!Accepts(objs, c) <=> Accepts(objs, c)
           /\ Life!Apply(objs, c) = Apply(objs, c)
<1>1. Life!Accepts(objs, c) <=> Accepts(objs, c)
  BY Zenon DEF Life!Accepts, Accepts, Life!Failure, Failure, Life!CreateFailure,
     CreateFailure, Life!ResizeFailure, ResizeFailure, Life!UpdateFailure, UpdateFailure,
     Life!Malformed, Malformed, Life!Active, Active, Life!Creations, Creations,
     Life!Target, Target, Life!NoObject, NoObject
<1>2. Life!Apply(objs, c) = Apply(objs, c)
  BY Zenon DEF Life!Apply, Apply, Life!Changed, Changed, Life!Created, Created,
     Life!NewStroke, NewStroke, Life!NewShape, NewShape, Life!NewText, NewText,
     Life!ChangedInk, ChangedInk, Life!ChangedShape, ChangedShape,
     Life!ChangedText, ChangedText, Life!Creations, Creations, Life!Target, Target
<1> QED BY <1>1, <1>2

\* A command that is received is a step of BoardState.
LEMMA ReceiveLives ==
    ASSUME NEW c, c.op \in DOMAIN CommandFields, Formed(c),
           Bare(Judged(c)) \in Command, Bare(Judged(c)) \in Understood,
           NEW by \in Principals, NEW json, ServerCommand(json) = c,
           NEW intended, WireInv, Receive(json, by, intended)
    PROVE  Life!StateNext
<1>0. Accepts(ObjectsOf(entries), Judged(c)) /\ entries' = ApplyAt(entries, c, by, time)
  BY Zenon DEF Receive, ObjectsOf
<1>8. Judged(c) = c
  BY <1>0, JudgedAccepted
<1>1. Accepts(ObjectsOf(entries), c) /\ entries' = ApplyAt(entries, c, by, time)
  BY <1>0, <1>8
<1>2. TableOK(entries) /\ time \in Nat
  BY DEF WireInv, EntriesInv
<1>3. PICK b \in Command : b = Bare(c) /\ b \in Understood
  BY <1>8
<1>4. ObjectsOf(entries') = Apply(ObjectsOf(entries), b)
  BY <1>1, <1>2, <1>3, ApplyStep
<1>5. Accepts(ObjectsOf(entries), b)
  BY <1>1, <1>3, BareIs
<1>6. /\ Life!Accepts(ObjectsOf(entries), b)
      /\ ObjectsOf(entries') = Life!Apply(ObjectsOf(entries), b)
  BY <1>4, <1>5, LifeApplies
<1>7. Life!ApplyCommand(b)
  BY <1>6, Zenon DEF Life!ApplyCommand, ObjectsOf
<1> QED BY <1>3, <1>7 DEF Life!StateNext

\* The board as it is on the wire and in its rows implements the board that
\* commands are applied to: every step is one accepted command or, as a restart
\* is, none.
THEOREM ObjectsLiveOn == Spec => LivesOn
<1>1. Init => Life!StateInit
  <2> SUFFICES ASSUME Init PROVE Life!StateInit
    OBVIOUS
  <2>1. \A i \in ObjectIds : entries[i].object = NoObject
    BY DEF Init, NoEntries, NoEntry
  <2>2. [i \in ObjectIds |-> entries[i].object] = [i \in ObjectIds |-> NoObject]
    BY <2>1
  <2> QED BY <2>2, Zenon DEF Life!StateInit, Life!NoObjects, Life!NoObject, NoObject
<1>2. ASSUME WireInv, [Next]_vars
      PROVE  [Life!StateNext]_[i \in ObjectIds |-> entries[i].object]
  <2> DEFINE kept == [i \in ObjectIds |-> entries[i].object]' = [i \in ObjectIds |-> entries[i].object]
  <2>1. ASSUME NEW c \in Orders, NEW by \in Principals, Draw(c, by) \/ Send(c, by)
        PROVE  Life!StateNext
    <3>1. c.op \in DOMAIN CommandFields /\ Formed(c) /\ Bare(Judged(c)) \in Command
      BY OrderFormed, JudgedOrder
    <3>2. ServerCommand(BuilderJson(c)) = c /\ ServerCommand(ServerJson(c)) = c
      BY <3>1, CommandRead DEF ServerCommand, BuilderJson, ServerJson
    <3>3. Bare(Judged(c)) \in Understood
      BY DEF Understood
    <3>4. Receive(BuilderJson(c), by, c) \/ Receive(ServerJson(c), by, c)
      BY <2>1 DEF Draw, Send
    <3> QED BY <1>2, <3>1, <3>2, <3>3, <3>4, ReceiveLives
  <2>2. ASSUME NEW json \in Foreign, NEW by \in Principals, SendForeign(json, by)
        PROVE  Life!StateNext
    <3>1. PICK c : c = ServerCommand(json)
      OBVIOUS
    <3>2. Receive(json, by, c)
      BY <2>2, <3>1 DEF SendForeign
    <3>3. c # Refused
      BY <3>1, <3>2 DEF Receive
    <3>4. c.op \in DOMAIN CommandFields /\ Formed(c) /\ Bare(Judged(c)) \in Command
      BY <3>1, <3>3, ForeignFormed, JudgedCommand
    <3>5. Bare(Judged(c)) \in Understood
      BY <3>1, <3>3 DEF Understood
    <3> QED BY <1>2, <3>1, <3>2, <3>4, <3>5, ReceiveLives
  <2>3. CASE Tick
    BY <2>3 DEF Tick
  <2>4. ASSUME Restart PROVE kept
    <3>1. TableOK(entries) /\ LoadObjects(rows) = RoundedTable(entries)
      BY <1>2 DEF WireInv, EntriesInv, CopiesInv
    <3>2. entries' = RoundedTable(entries)
      BY <2>4, <3>1 DEF Restart
    <3>3. ObjectsOf(entries') = ObjectsOf(entries)
      BY <3>1, <3>2, ObjectsOfIs
    <3> QED BY <3>3, Zenon DEF ObjectsOf
  <2>5. CASE UNCHANGED vars
    BY <2>5 DEF vars
  <2> QED BY <1>2, <2>1, <2>2, <2>3, <2>4, <2>5 DEF Next
<1> QED BY <1>1, <1>2, WireInvariant, PTL DEF Spec, LivesOn, Life!StateSpec

=============================================================================
