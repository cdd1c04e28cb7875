----------------------------- MODULE BoardState -----------------------------
(***************************************************************************)
(* The life of the objects of one board under any sequence of commands, as *)
(* BoardStateService sees it: each step applies one accepted command; a    *)
(* refused one changes nothing.                                            *)
(***************************************************************************)
EXTENDS BoardObjects

CONSTANT StateCommands      \* the commands that clients send
ASSUME StateCommandsAssumption == StateCommands \subseteq Command

VARIABLE boardObjects

StateInit == boardObjects = NoObjects

ApplyCommand(c) ==
    /\ Accepts(boardObjects, c)
    /\ boardObjects' = Apply(boardObjects, c)

StateNext == \E c \in StateCommands : ApplyCommand(c)

StateSpec == StateInit /\ [][StateNext]_boardObjects

-----------------------------------------------------------------------------
(* What the commands guarantee. *)

\* Whatever the sequence of commands, every object on the board is well
\* formed: a style, size or text that validation refuses never gets in, not
\* even through an update or a resize of an object that was valid.
StateTypeOK == boardObjects \in Objects

\* A tombstone is final.  Once deleted, an object is never changed, revived,
\* or replaced by a new object under the same identifier.
DeletedForever ==
    [][\A i \in ObjectIds :
         (boardObjects[i] # NoObject /\ boardObjects[i].deleted)
            => boardObjects'[i] = boardObjects[i]]_boardObjects

IsExtension(s, t) ==
    Len(s) <= Len(t) /\ \A i \in 1 .. Len(s) : t[i] = s[i]

\* Ink is append-only: an object never changes its type, a stroke is never
\* shortened, reordered or recoloured, and a finished one gains no points
\* and is never reopened.
InkIsAppendOnly ==
    [][\A i \in ObjectIds : boardObjects[i] # NoObject =>
         LET old == boardObjects[i]
             new == boardObjects'[i]
         IN  /\ new # NoObject
             /\ new.type = old.type
             /\ old.type = "stroke" =>
                  /\ IsExtension(old.points, new.points)
                  /\ new.style = old.style
                  /\ old.finished => new.finished /\ new.points = old.points
      ]_boardObjects

\* Two accepted commands on different objects commute: neither makes the
\* other fail, and the board they leave does not depend on their order.  A
\* client that gets their two broadcasts in the other order still shows the
\* same objects.
DistinctObjectsCommute ==
    \A c, d \in StateCommands :
        (c.id # d.id /\ Accepts(boardObjects, c) /\ Accepts(boardObjects, d))
            => /\ Accepts(Apply(boardObjects, c), d)
               /\ Accepts(Apply(boardObjects, d), c)
               /\ Apply(Apply(boardObjects, c), d) = Apply(Apply(boardObjects, d), c)

=============================================================================
