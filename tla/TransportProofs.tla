-------------------------- MODULE TransportProofs ---------------------------
(***************************************************************************)
(* Proofs about Transport.  A message is, in turn, in the strand, in the   *)
(* queue, on the wire and in the buffer; the inductive invariant says      *)
(* where each one is, by its number.                                       *)
(***************************************************************************)
EXTENDS Transport, SequenceTheorems, TLAPS

Stamps == Nat \X Nat
Halves == {"head", "tail"}
StampedPieces == Stamps \X Halves

Types ==
    /\ server \in {"accepting", "closed", "told"}
    /\ phase \in [Links -> {"none", "waiting", "accepted", "started"}]
    /\ tracked \subseteq Links
    /\ tasks \in [Links -> Seq(Stamps)]
    /\ outgoing \in [Links -> Seq(Stamps)]
    /\ write \in [Links -> {"none", "begun", "half", "whole", "failed"}]
    /\ wire \in [Links -> Seq(StampedPieces)]
    /\ link \in 0 .. MaxLinks
    /\ buffer \in Seq(StampedPieces)
    /\ heard \in [Links -> Seq(Stamps)]
    /\ posted \in [Links -> Seq(Stamps)]

\* Nothing has happened on a connection that is still to come.
Fresh(k) ==
    phase[k] = "none" =>
        /\ link # k /\ k \notin spoiled /\ k \notin tracked
        /\ posted[k] = <<>> /\ heard[k] = <<>>

\* Messages are posted with their numbers.
Numbered(k) == \A i \in 1 .. Len(posted[k]) : posted[k][i] = <<k, i>>

\* The place of task i among the messages of the strand, when the stop, if it
\* is there, is task j.
Place(i, j) == IF 0 < j /\ j < i THEN i - 1 ELSE i

\* The messages of the strand follow n others.
Strand(k, n, j) ==
    /\ j # 0 => server = "told" /\ tasks[k][j] = Stop
    /\ \A i \in 1 .. Len(tasks[k]) : i # j => tasks[k][i] = <<k, n + Place(i, j)>>
    /\ Len(posted[k]) + 1 = n + Place(Len(tasks[k]) + 1, j)

\* w messages have left the queue; those in it follow, then the strand's.
Queued(k, w) ==
    /\ \A i \in 1 .. Len(outgoing[k]) : outgoing[k][i] = <<k, w + i>>
    /\ outgoing[k] = <<>> <=> write[k] = "none"
    /\ \E j \in 0 .. Len(tasks[k]) : Strand(k, w + Len(outgoing[k]), j)

\* The piece after another.
After(k, piece) ==
    IF piece[2] = "head" THEN <<piece[1], "tail">> ELSE <<<<k, piece[1][2] + 1>>, "head">>

\* The piece to be written next.
NextWritten(k, w) ==
    IF write[k] = "half" THEN <<<<k, w + 1>>, "tail">>
    ELSE <<<<k, IF write[k] = "whole" THEN w + 2 ELSE w + 1>>, "head">>

\* The wire has every piece from the one to be read next, which is a half of
\* message m + 1, to the one to be written next.
OnWire(k, w, m, half) ==
    /\ wire[k] # <<>> => wire[k][1] = <<<<k, m + 1>>, half>>
    /\ \A i \in 1 .. Len(wire[k]) : wire[k][i][1] \in {k} \X (1 .. Len(posted[k]))
    /\ \A i \in 1 .. Len(wire[k]) - 1 : wire[k][i + 1] = After(k, wire[k][i])
    /\ write[k] # "failed" =>
          NextWritten(k, w) =
              IF wire[k] = <<>> THEN <<<<k, m + 1>>, half>>
              ELSE After(k, wire[k][Len(wire[k])])

Lost(k) == IF k \in spoiled THEN 1 ELSE 0

\* What was heard of m messages that were read whole.
HeardOf(k, m) == Len(heard[k]) = IF m = 0 THEN 0 ELSE m - Lost(k)

\* The buffer has the half that was read, behind what spoils the first line.
Buffered(k, m, half) ==
    IF k \in spoiled /\ m = 0 THEN Len(buffer) >= IF half = "head" THEN 1 ELSE 2
    ELSE buffer = IF half = "head" THEN <<>> ELSE << <<<<k, m + 1>>, "head">> >>

\* The connection that there is.
Connected(k, w) ==
    IF link = k
    THEN \E m \in 0 .. Len(posted[k]), half \in Halves :
            OnWire(k, w, m, half) /\ HeardOf(k, m) /\ Buffered(k, m, half)
    ELSE wire[k] = <<>>

\* What was heard is what was posted, up to some message.
Heard(k) ==
    /\ \A i \in 1 .. Len(heard[k]) : heard[k][i] = <<k, i + Lost(k)>>
    /\ heard[k] # <<>> => Len(heard[k]) + Lost(k) <= Len(posted[k])

LinkInv(k) ==
    /\ Fresh(k) /\ Numbered(k) /\ Heard(k)
    /\ \E w \in 0 .. Len(posted[k]) : Queued(k, w) /\ Connected(k, w)

IInv == Types /\ \A k \in Links : LinkInv(k)

-----------------------------------------------------------------------------
(* Types *)

\* There is no connection 0.
LEMMA LinksArePositive == Links \subseteq 1 .. MaxLinks /\ Links \subseteq Nat /\ 0 \notin Links
  BY BoundsAssumption DEF Links

\* Whatever travels is made of stamps.
LEMMA StampsAreStamps ==
    /\ Stop \in Stamps
    /\ \A k \in Links, n \in Nat : <<k, n>> \in Stamps
    /\ \A m \in Stamps : Pieces(m)[1] \in StampedPieces /\ Pieces(m)[2] \in StampedPieces
  BY LinksArePositive DEF Stop, Stamps, StampedPieces, Halves, Pieces

LEMMA InitTypes == Init => Types
  BY BoundsAssumption DEF Init, Types

\* A write under way has a message to write.
LEMMA QueueIsBusy ==
    ASSUME IInv, NEW k \in Links, write[k] # "none"
    PROVE  /\ outgoing[k] \in Seq(Stamps) /\ outgoing[k] # <<>>
           /\ Head(outgoing[k]) \in Stamps /\ Tail(outgoing[k]) \in Seq(Stamps)
  <1>1. outgoing[k] \in Seq(Stamps) /\ outgoing[k] # <<>>
    BY DEF IInv, LinkInv, Queued, Types
  <1> QED
    BY <1>1

\* Types are kept by every step.
LEMMA NextTypes == IInv /\ [Next]_vars => Types'
  <1> SUFFICES ASSUME IInv, [Next]_vars PROVE Types'
    OBVIOUS
  <1>0. Types
    BY DEF IInv
  <1> USE <1>0, LinksArePositive, StampsAreStamps, BoundsAssumption
          DEF Types, acceptor, session, client, Cleanup
  <1>1. CASE StopAccepting
    BY <1>1 DEF StopAccepting
  <1>2. CASE Collect
    BY <1>2 DEF Collect
  <1>3. ASSUME NEW k \in Links, Connect(k) PROVE Types'
    BY <1>3 DEF Connect
  <1>4. ASSUME NEW k \in Links, Post(k) PROVE Types'
    <2> DEFINE m == <<k, Len(posted[k]) + 1>>
    <2>1. m \in Stamps
      OBVIOUS
    <2>2. /\ posted' = [posted EXCEPT ![k] = Append(@, m)]
          /\ tasks' = [tasks EXCEPT ![k] = Append(@, m)]
          /\ UNCHANGED <<server, phase, tracked, outgoing, write, wire, link, buffer, heard>>
      BY <1>4 DEF Post
    <2> HIDE DEF m
    <2>3. Append(posted[k], m) \in Seq(Stamps) /\ Append(tasks[k], m) \in Seq(Stamps)
      BY <2>1
    <2> QED
      BY <2>2, <2>3
  <1>5. ASSUME NEW k \in Links, Accept(k) \/ TrackAndStart(k) \/ ReadFailed(k) PROVE Types'
    BY <1>5 DEF Accept, TrackAndStart, ReadFailed
  <1>6. ASSUME NEW k \in Links, RunSend(k) \/ RunStop(k) PROVE Types'
    <2>1. tasks[k] \in Seq(Stamps) /\ tasks[k] # <<>>
      BY <1>6 DEF RunSend, RunStop
    <2>2. Head(tasks[k]) \in Stamps /\ Tail(tasks[k]) \in Seq(Stamps)
      BY <2>1
    <2>3. Append(outgoing[k], Head(tasks[k])) \in Seq(Stamps)
      BY <2>2
    <2> QED
      <3>1. CASE RunSend(k)
        BY <3>1, <2>2, <2>3 DEF RunSend
      <3>2. CASE RunStop(k)
        BY <3>2, <2>2 DEF RunStop
      <3> QED
        BY <1>6, <3>1, <3>2
  <1>7. ASSUME NEW k \in Links, WritePiece(k) PROVE Types'
    <2>1. write[k] # "none"
      BY <1>7 DEF WritePiece
    <2> DEFINE pieces == Pieces(Head(outgoing[k]))
    <2>2. /\ Append(wire[k], pieces[1]) \in Seq(StampedPieces)
          /\ Append(wire[k], pieces[2]) \in Seq(StampedPieces)
      BY <2>1, QueueIsBusy
    <2> QED
      <3>1. /\ wire' = [wire EXCEPT ![k] = Append(@, pieces[1])]
               \/ wire' = [wire EXCEPT ![k] = Append(@, pieces[2])]
            /\ \E v \in {"half", "whole"} : write' = [write EXCEPT ![k] = v]
            /\ UNCHANGED <<server, phase, tracked, tasks, outgoing, link, buffer, heard, posted>>
        BY <1>7 DEF WritePiece
      <3> HIDE DEF pieces
      <3>2. wire' \in [Links -> Seq(StampedPieces)]
        BY <2>2, <3>1
      <3>3. write' \in [Links -> {"none", "begun", "half", "whole", "failed"}]
        BY <3>1
      <3> QED
        BY <3>1, <3>2, <3>3
  <1>8. ASSUME NEW k \in Links, WriteFailed(k) PROVE Types'
    BY <1>8 DEF WriteFailed
  <1>9. ASSUME NEW k \in Links, Written(k) PROVE Types'
    BY <1>9, QueueIsBusy DEF Written
  <1>10. ASSUME NEW k \in Links, Read(k) PROVE Types'
    <2>1. Head(wire[k]) \in StampedPieces /\ Tail(wire[k]) \in Seq(StampedPieces)
      BY <1>10 DEF Read
    <2>2. Head(wire[k])[1] \in Stamps
      BY <2>1 DEF StampedPieces
    <2>3. Append(heard[k], Head(wire[k])[1]) \in Seq(Stamps)
      BY <2>2
    <2>4. /\ wire' = [wire EXCEPT ![k] = Tail(@)]
          /\ buffer' = <<>> \/ buffer' = Append(buffer, Head(wire[k]))
          /\ heard' = heard \/ heard' = [heard EXCEPT ![k] = Append(@, Head(wire[k])[1])]
      BY <1>10 DEF Read
    <2> QED
      <3>1. UNCHANGED <<server, phase, tracked, tasks, outgoing, write, link, posted>>
        BY <1>10 DEF Read
      <3>2. wire' \in [Links -> Seq(StampedPieces)]
        BY <2>1, <2>4
      <3>3. buffer' \in Seq(StampedPieces)
        <4>1. Append(buffer, Head(wire[k])) \in Seq(StampedPieces) /\ <<>> \in Seq(StampedPieces)
          BY <2>1
        <4> QED
          BY <2>4, <4>1
      <3>4. heard' \in [Links -> Seq(Stamps)]
        BY <2>3, <2>4
      <3> QED
        BY <3>1, <3>2, <3>3, <3>4
  <1>11. ASSUME NEW k \in Links, Break(k) \/ Logout(k) PROVE Types'
    <2>1. <<>> \in Seq(StampedPieces)
      OBVIOUS
    <2>2. /\ wire' = [wire EXCEPT ![k] = <<>>] /\ link' = 0
          /\ buffer' = buffer \/ buffer' = <<>>
          /\ UNCHANGED <<server, phase, tracked, tasks, outgoing, write, heard, posted>>
      BY <1>11 DEF Break, Logout
    <2>3. wire' \in [Links -> Seq(StampedPieces)]
      BY <2>1, <2>2
    <2>4. buffer' \in Seq(StampedPieces)
      BY <2>1, <2>2
    <2>5. link' \in 0 .. MaxLinks
      BY <2>2
    <2> QED
      BY <2>2, <2>3, <2>4, <2>5
  <1>12. CASE UNCHANGED vars
    BY <1>12 DEF vars
  <1> QED
    BY <1>1, <1>2, <1>3, <1>4, <1>5, <1>6, <1>7, <1>8, <1>9, <1>10, <1>11, <1>12
    DEF Next, Work

-----------------------------------------------------------------------------
(* Sequences *)

\* A sequence with one more element, and with one less.
LEMMA Appended ==
    ASSUME NEW S, NEW s \in Seq(S), NEW e \in S
    PROVE  /\ Append(s, e) \in Seq(S) /\ Append(s, e) # <<>>
           /\ Len(s) \in Nat /\ Len(Append(s, e)) = Len(s) + 1
           /\ \A i \in 1 .. Len(s) : Append(s, e)[i] = s[i]
           /\ Append(s, e)[Len(s) + 1] = e
  OBVIOUS

LEMMA Shortened ==
    ASSUME NEW S, NEW s \in Seq(S), s # <<>>
    PROVE  /\ Tail(s) \in Seq(S) /\ Head(s) = s[1] /\ Head(s) \in S
           /\ Len(s) \in Nat /\ Len(s) >= 1 /\ Len(Tail(s)) = Len(s) - 1
           /\ \A i \in 1 .. Len(s) - 1 : Tail(s)[i] = s[i + 1]
  OBVIOUS

LEMMA EmptyIffNone == ASSUME NEW S, NEW s \in Seq(S) PROVE s = <<>> <=> Len(s) = 0
  OBVIOUS

\* A line of two pieces.
LEMMA TwoPieces ==
    ASSUME NEW S, NEW a \in S, NEW b \in S
    PROVE  Append(<<a>>, b) = <<a, b>>
  <1> DEFINE s == Append(<<a>>, b)
             t == <<a, b>>
  <1>1. <<a>> \in Seq(S) /\ Len(<<a>>) = 1
    OBVIOUS
  <1>2. s \in Seq(S) /\ Len(s) = 2 /\ s[1] = a /\ s[2] = b
    BY <1>1
  <1>3. t \in Seq(S) /\ Len(t) = 2 /\ t[1] = a /\ t[2] = b
    OBVIOUS
  <1> HIDE DEF s, t
  <1>4. Len(s) = Len(t) /\ \A i \in 1 .. Len(s) : s[i] = t[i]
    BY <1>2, <1>3
  <1>5. s = t
    BY <1>2, <1>3, <1>4, SeqEqual
  <1> QED
    BY <1>5 DEF s, t

\* What becomes of places when a task is posted or run.
LEMMA Places ==
    ASSUME NEW i \in Nat, NEW j \in Nat
    PROVE  /\ Place(i, j) \in Nat
           /\ j = 0 \/ i <= j => Place(i, j) = i
           /\ j < i => Place(i + 1, j) = Place(i, j) + 1
           /\ j > 1 => Place(i + 1, j) = Place(i, j - 1) + 1
           /\ i # 0 => Place(i + 1, 1) = i
  BY DEF Place

-----------------------------------------------------------------------------
(* Other connections *)

\* A step of one connection changes nothing of the others.
LEMMA Untouched ==
    ASSUME NEW k \in Links, LinkInv(k),
           \/ phase'[k] = phase[k] /\ (k \in tracked' <=> k \in tracked)
           \/ phase'[k] # "none",
           tasks'[k] = tasks[k], outgoing'[k] = outgoing[k],
           write'[k] = write[k], wire'[k] = wire[k], heard'[k] = heard[k],
           posted'[k] = posted[k], server = "told" => server' = "told",
           k \in spoiled' <=> k \in spoiled,
           link' = k <=> link = k, link = k => buffer' = buffer
    PROVE  LinkInv(k)'
  <1>1. /\ Fresh(k)' /\ Numbered(k)' /\ Heard(k)'
    BY DEF LinkInv, Fresh, Numbered, Heard, Lost
  <1>2. PICK w \in 0 .. Len(posted[k]) : Queued(k, w) /\ Connected(k, w)
    BY DEF LinkInv
  <1>3. Queued(k, w)'
    BY <1>2 DEF Queued, Strand
  <1>4. Connected(k, w)'
    <2>1. CASE link = k
      <3>1. PICK m \in 0 .. Len(posted[k]), half \in Halves :
               OnWire(k, w, m, half) /\ HeardOf(k, m) /\ Buffered(k, m, half)
        BY <1>2, <2>1 DEF Connected
      <3>2. OnWire(k, w, m, half)'
        BY <3>1 DEF OnWire, NextWritten
      <3>3. HeardOf(k, m)' /\ Buffered(k, m, half)'
        BY <2>1, <3>1 DEF HeardOf, Buffered, Lost
      <3> QED
        BY <2>1, <3>2, <3>3 DEF Connected
    <2>2. CASE link # k
      BY <1>2, <2>2 DEF Connected
    <2> QED
      BY <2>1, <2>2
  <1> QED
    BY <1>1, <1>2, <1>3, <1>4 DEF LinkInv

\* What is known of the sequences of a connection.
LEMMA LinkTypes ==
    ASSUME Types, NEW k \in Links
    PROVE  /\ tasks[k] \in Seq(Stamps) /\ outgoing[k] \in Seq(Stamps)
           /\ posted[k] \in Seq(Stamps) /\ heard[k] \in Seq(Stamps)
           /\ wire[k] \in Seq(StampedPieces) /\ buffer \in Seq(StampedPieces)
           /\ Len(tasks[k]) \in Nat /\ Len(outgoing[k]) \in Nat /\ Len(posted[k]) \in Nat
           /\ Len(heard[k]) \in Nat /\ Len(wire[k]) \in Nat
           /\ write[k] \in {"none", "begun", "half", "whole", "failed"}
           /\ k \in Nat /\ k # 0
  BY LinksArePositive DEF Types

-----------------------------------------------------------------------------
(* The steps of a connection *)

\* What does not touch the wire, the buffer and what was heard leaves the
\* pieces where they are, if the next one to be written is the same.
LEMMA StillConnected ==
    ASSUME NEW k \in Links, NEW w, NEW v, Connected(k, w),
           Len(posted[k]) \in Nat, Len(posted'[k]) \in Nat, Len(posted[k]) <= Len(posted'[k]),
           wire'[k] = wire[k], heard'[k] = heard[k],
           link' = link, buffer' = buffer, spoiled' = spoiled,
           write'[k] # "failed" =>
               write[k] # "failed" /\ NextWritten(k, v)' = NextWritten(k, w)
    PROVE  Connected(k, v)'
  <1>1. CASE link = k
    <2>1. PICK m \in 0 .. Len(posted[k]), half \in Halves :
             OnWire(k, w, m, half) /\ HeardOf(k, m) /\ Buffered(k, m, half)
      BY <1>1 DEF Connected
    <2>2. OnWire(k, v, m, half)'
      <3>1. (1 .. Len(posted[k])) \subseteq 1 .. Len(posted'[k])
        OBVIOUS
      <3>2. \A i \in 1 .. Len(wire[k]) : wire[k][i][1] \in {k} \X (1 .. Len(posted'[k]))
        BY <2>1, <3>1 DEF OnWire
      <3>3. \A piece : After(k, piece)' = After(k, piece)
        BY DEF After
      <3>4. write'[k] # "failed" =>
               NextWritten(k, v)' = IF wire[k] = <<>> THEN <<<<k, m + 1>>, half>>
                                    ELSE After(k, wire[k][Len(wire[k])])
        BY <2>1 DEF OnWire
      <3>5. /\ wire[k] # <<>> => wire[k][1] = <<<<k, m + 1>>, half>>
            /\ \A i \in 1 .. Len(wire[k]) - 1 : wire[k][i + 1] = After(k, wire[k][i])
        BY <2>1 DEF OnWire
      <3> QED
        BY <3>2, <3>3, <3>4, <3>5 DEF OnWire, After
    <2>3. HeardOf(k, m)' /\ Buffered(k, m, half)'
      BY <2>1 DEF HeardOf, Buffered, Lost
    <2>4. m \in 0 .. Len(posted'[k])
      OBVIOUS
    <2> QED
      BY <1>1, <2>2, <2>3, <2>4 DEF Connected
  <1>2. CASE link # k
    BY <1>2 DEF Connected
  <1> QED
    BY <1>1, <1>2

\* A message takes the number after those that were posted.
LEMMA PostStep ==
    ASSUME Types, NEW k \in Links, LinkInv(k), Post(k)
    PROVE  LinkInv(k)'
  <1>0. Types /\ LinkInv(k)
    OBVIOUS
  <1>t. /\ tasks[k] \in Seq(Stamps) /\ posted[k] \in Seq(Stamps)
        /\ Len(tasks[k]) \in Nat /\ Len(outgoing[k]) \in Nat /\ Len(posted[k]) \in Nat
        /\ Len(heard[k]) \in Nat /\ Len(wire[k]) \in Nat
    BY LinkTypes
  <1> DEFINE m == <<k, Len(posted[k]) + 1>>
  <1>1. /\ phase[k] = "started" /\ posted'[k] = Append(posted[k], m)
        /\ tasks'[k] = Append(tasks[k], m)
        /\ UNCHANGED <<server, phase, tracked, outgoing, write, wire, link, buffer,
                       heard, spoiled>>
    BY DEF Post, acceptor, client, Types
  <1>a. m \in Stamps /\ m = <<k, Len(posted[k]) + 1>>
    BY LinkTypes DEF Stamps
  <1> HIDE DEF m
  <1>b. /\ Len(posted'[k]) = Len(posted[k]) + 1
        /\ \A i \in 1 .. Len(posted[k]) : posted'[k][i] = posted[k][i]
        /\ posted'[k][Len(posted[k]) + 1] = m
    BY <1>1, <1>a, LinkTypes, Appended
  <1>c. /\ Len(tasks'[k]) = Len(tasks[k]) + 1
        /\ \A i \in 1 .. Len(tasks[k]) : tasks'[k][i] = tasks[k][i]
        /\ tasks'[k][Len(tasks[k]) + 1] = m
    BY <1>1, <1>a, LinkTypes, Appended
  <1>2. Fresh(k)' /\ Numbered(k)' /\ Heard(k)'
    <2>1. Fresh(k)'
      BY <1>1 DEF Fresh
    <2>2. Numbered(k)'
      <3> SUFFICES ASSUME NEW i \in 1 .. Len(posted'[k]) PROVE posted'[k][i] = <<k, i>>
        BY DEF Numbered
      <3>1. Numbered(k) /\ (i \in 1 .. Len(posted[k]) \/ i = Len(posted[k]) + 1)
        BY <1>b, <1>t DEF LinkInv
      <3> QED
        BY <1>a, <1>b, <3>1 DEF Numbered
    <2>3. Heard(k)'
      <3>1. Heard(k) /\ (heard[k] # <<>> => Len(heard[k]) + Lost(k) <= Len(posted[k]))
        BY DEF LinkInv, Heard
      <3>2. Lost(k) \in {0, 1}
        BY DEF Lost
      <3>3. heard[k] # <<>> => Len(heard[k]) + Lost(k) <= Len(posted'[k])
        BY <1>b, <1>t, <3>1, <3>2
      <3> QED
        BY <1>1, <3>1, <3>3 DEF Heard, Lost
    <2> QED
      BY <2>1, <2>2, <2>3
  <1>3. PICK w \in 0 .. Len(posted[k]) : Queued(k, w) /\ Connected(k, w)
    BY DEF LinkInv
  <1>4. PICK j \in 0 .. Len(tasks[k]) : Strand(k, w + Len(outgoing[k]), j)
    BY <1>3 DEF Queued
  <1>5. Strand(k, w + Len(outgoing[k]), j)'
    <2> DEFINE n == w + Len(outgoing[k])
    <2>1. n \in Nat /\ n' = n
      BY <1>1, <1>t
    <2> HIDE DEF n
    <2>2. /\ j # 0 => server' = "told" /\ tasks'[k][j] = Stop
          /\ Len(posted[k]) + 1 = n + Place(Len(tasks[k]) + 1, j)
      BY <1>1, <1>c, <1>4 DEF Strand, n
    <2>3. Len(posted'[k]) + 1 = n + Place(Len(tasks'[k]) + 1, j)
      <3>0. Len(tasks[k]) + 1 \in Nat /\ j \in Nat /\ j < Len(tasks[k]) + 1
        BY <1>t
      <3>1. Place(Len(tasks[k]) + 1 + 1, j) = Place(Len(tasks[k]) + 1, j) + 1
        BY <3>0, Places
      <3>2. Place(Len(tasks[k]) + 1, j) \in Nat
        BY <3>0, Places
      <3> QED
        BY <1>b, <1>c, <1>t, <2>1, <2>2, <3>1, <3>2
    <2>4. ASSUME NEW i \in 1 .. Len(tasks'[k]), i # j
          PROVE  tasks'[k][i] = <<k, n + Place(i, j)>>
      <3>1. CASE i \in 1 .. Len(tasks[k])
        BY <1>c, <1>4, <2>4, <3>1 DEF Strand, n
      <3>2. CASE i = Len(tasks[k]) + 1
        BY <1>a, <1>c, <2>2, <3>2
      <3> QED
        BY <1>c, <1>t, <3>1, <3>2
    <2> QED
      BY <2>1, <2>2, <2>3, <2>4 DEF Strand, n
  <1>6. w \in 0 .. Len(posted'[k]) /\ j \in 0 .. Len(tasks'[k])
    BY <1>b, <1>c, LinkTypes
  <1>7. Queued(k, w)'
    BY <1>1, <1>3, <1>5, <1>6 DEF Queued
  <1>8. Connected(k, w)'
    <2>1. NextWritten(k, w)' = NextWritten(k, w)
      BY <1>1 DEF NextWritten
    <2>2. Len(posted[k]) \in Nat /\ Len(posted'[k]) \in Nat /\ Len(posted[k]) <= Len(posted'[k])
      BY <1>b, <1>t
    <2> QED
      BY <1>1, <1>3, <2>1, <2>2, StillConnected
  <1> QED
    BY <1>2, <1>6, <1>7, <1>8 DEF LinkInv

\* A message goes from the strand to the queue; the stop goes by.
LEMMA RunStep ==
    ASSUME Types, NEW k \in Links, LinkInv(k), RunSend(k) \/ RunStop(k)
    PROVE  LinkInv(k)'
  <1>t. /\ tasks[k] \in Seq(Stamps) /\ outgoing[k] \in Seq(Stamps)
        /\ Len(tasks[k]) \in Nat /\ Len(outgoing[k]) \in Nat /\ Len(posted[k]) \in Nat
        /\ k \in Nat /\ k # 0
    BY LinkTypes
  <1>1. /\ tasks[k] # <<>> /\ tasks'[k] = Tail(tasks[k])
        /\ UNCHANGED <<server, phase, tracked, wire, link, buffer, heard, spoiled, posted>>
    BY DEF RunSend, RunStop, acceptor, client, Types
  <1>2. Fresh(k)' /\ Numbered(k)' /\ Heard(k)'
    BY <1>1 DEF LinkInv, Fresh, Numbered, Heard, Lost
  <1>3. PICK w \in 0 .. Len(posted[k]) : Queued(k, w) /\ Connected(k, w)
    BY DEF LinkInv
  <1>4. PICK j \in 0 .. Len(tasks[k]) : Strand(k, w + Len(outgoing[k]), j)
    BY <1>3 DEF Queued
  <1>5. /\ Head(tasks[k]) = tasks[k][1] /\ Head(tasks[k]) \in Stamps
        /\ Len(tasks[k]) >= 1 /\ Len(tasks'[k]) = Len(tasks[k]) - 1
        /\ \A i \in 1 .. Len(tasks[k]) - 1 : tasks'[k][i] = tasks[k][i + 1]
    BY <1>t, <1>1, Shortened
  <1>n. PICK n \in Nat : n = w + Len(outgoing[k])
    BY <1>t
  <1>6. CASE RunSend(k)
    <2>1. /\ Head(tasks[k]) # Stop
          /\ outgoing'[k] = Append(outgoing[k], Head(tasks[k]))
          /\ write'[k] = IF outgoing[k] = <<>> THEN "begun" ELSE write[k]
      BY <1>6 DEF RunSend, NeedsWrite, Types
    <2>2. j # 1 /\ (j = 0 \/ j > 1)
      BY <1>4, <1>5, <2>1 DEF Strand
    <2>h. PICK h \in Nat : h = IF j = 0 THEN 0 ELSE j - 1
      BY <2>2
    <2>3. Head(tasks[k]) = <<k, n + 1>>
      <3>1. Place(1, j) = 1
        BY <2>2, Places
      <3> QED
        BY <1>n, <1>4, <1>5, <2>2, <3>1 DEF Strand
    <2>e. Head(tasks[k]) \in Stamps
      BY <1>5
    <2>4. /\ Len(outgoing'[k]) = Len(outgoing[k]) + 1 /\ outgoing'[k] # <<>>
          /\ \A i \in 1 .. Len(outgoing[k]) : outgoing'[k][i] = outgoing[k][i]
          /\ outgoing'[k][Len(outgoing[k]) + 1] = <<k, n + 1>>
      <3>1. /\ Append(outgoing[k], Head(tasks[k])) # <<>>
            /\ Len(Append(outgoing[k], Head(tasks[k]))) = Len(outgoing[k]) + 1
            /\ \A i \in 1 .. Len(outgoing[k]) :
                  Append(outgoing[k], Head(tasks[k]))[i] = outgoing[k][i]
            /\ Append(outgoing[k], Head(tasks[k]))[Len(outgoing[k]) + 1] = Head(tasks[k])
        BY <1>t, <2>e, Appended
      <3> QED
        BY <2>1, <2>3, <3>1
    <2>5. \A i \in 1 .. Len(outgoing'[k]) : outgoing'[k][i] = <<k, w + i>>
      <3> SUFFICES ASSUME NEW i \in 1 .. Len(outgoing'[k]) PROVE outgoing'[k][i] = <<k, w + i>>
        OBVIOUS
      <3>1. CASE i \in 1 .. Len(outgoing[k])
        BY <1>3, <2>4, <3>1 DEF Queued
      <3>2. CASE i = Len(outgoing[k]) + 1
        <4>1. n + 1 = w + i
          BY <1>t, <1>n, <3>2
        <4> QED
          BY <2>4, <3>2, <4>1
      <3> QED
        BY <1>t, <2>4, <3>1, <3>2
    <2>6. write'[k] # "none"
      BY <1>3, <2>1 DEF Queued
    <2>7. h \in 0 .. Len(tasks'[k]) /\ \A i \in Nat : Place(i + 1, j) = Place(i, h) + 1
      <3>1. h \in 0 .. Len(tasks'[k])
        BY <1>t, <1>5, <2>2, <2>h
      <3>2. ASSUME NEW i \in Nat, j = 0 PROVE Place(i + 1, j) = Place(i, h) + 1
        <4>1. h = 0 /\ i + 1 \in Nat
          BY <2>h, <3>2
        <4>2. Place(i, 0) = i /\ Place(i + 1, 0) = i + 1
          BY <4>1, Places
        <4> QED
          BY <3>2, <4>1, <4>2
      <3>3. ASSUME NEW i \in Nat, j > 1 PROVE Place(i + 1, j) = Place(i, h) + 1
        <4>1. j \in Nat /\ h = j - 1
          BY <1>t, <2>h, <3>3
        <4>2. Place(i + 1, j) = Place(i, j - 1) + 1
          BY <3>3, <4>1, Places
        <4> QED
          BY <4>1, <4>2
      <3> QED
        BY <2>2, <3>1, <3>2, <3>3
    <2>8. j # 0 => server = "told" /\ tasks'[k][h] = Stop
      BY <1>4, <1>5, <2>2, <2>h DEF Strand
    <2>9. h # 0 <=> j # 0
      BY <2>2, <2>h
    <2>10. Strand(k, n + 1, h)'
      <3>1. h # 0 => server' = "told" /\ tasks'[k][h] = Stop
        BY <1>1, <2>8, <2>9
      <3>2. ASSUME NEW i \in 1 .. Len(tasks'[k]), i # h
            PROVE  tasks'[k][i] = <<k, n + 1 + Place(i, h)>>
        <4>1. i \in Nat /\ i + 1 \in 1 .. Len(tasks[k]) /\ i + 1 # j
          BY <1>t, <1>5, <2>2, <3>2, <2>h
        <4>2. tasks'[k][i] = <<k, n + Place(i + 1, j)>>
          BY <1>n, <1>4, <1>5, <4>1 DEF Strand
        <4>3. Place(i, h) \in Nat /\ Place(i + 1, j) = Place(i, h) + 1
          BY <2>7, <2>h, <4>1, Places
        <4>4. n + Place(i + 1, j) = n + 1 + Place(i, h)
          BY <4>3
        <4> QED
          BY <4>2, <4>4
      <3>3. Len(posted'[k]) + 1 = n + 1 + Place(Len(tasks'[k]) + 1, h)
        <4>1. Len(posted[k]) + 1 = n + Place(Len(tasks[k]) + 1, j)
          BY <1>n, <1>4 DEF Strand
        <4>2. /\ Len(tasks[k]) = Len(tasks'[k]) + 1
              /\ Len(tasks[k]) \in Nat /\ Place(Len(tasks[k]), h) \in Nat
          <5>1. Len(tasks[k]) = Len(tasks'[k]) + 1 /\ Len(tasks[k]) \in Nat
            BY <1>t, <1>5
          <5> QED
            BY <2>h, <5>1, Places
        <4>3. Place(Len(tasks[k]) + 1, j) = Place(Len(tasks[k]), h) + 1
          BY <2>7, <4>2
        <4>4. Len(tasks'[k]) + 1 = Len(tasks[k]) /\ posted'[k] = posted[k]
          BY <1>t, <1>1, <1>5
        <4>5. Len(posted[k]) + 1 = n + 1 + Place(Len(tasks[k]), h)
          BY <1>t, <4>1, <4>2, <4>3
        <4> QED
          BY <4>4, <4>5
      <3> QED
        BY <1>n, <1>1, <3>1, <3>2, <3>3 DEF Strand
    <2>11. n + 1 = w + Len(outgoing'[k])
      BY <1>t, <1>n, <2>4
    <2>12. Queued(k, w)'
      BY <2>4, <2>5, <2>6, <2>7, <2>10, <2>11 DEF Queued
    <2>13. /\ NextWritten(k, w)' = NextWritten(k, w)
           /\ write'[k] # "failed" => write[k] # "failed"
      BY <1>3, <2>1 DEF Queued, NextWritten
    <2>14. Connected(k, w)'
      BY <1>t, <1>1, <1>3, <2>13, StillConnected
    <2> QED
      BY <1>1, <1>2, <2>12, <2>14 DEF LinkInv
  <1>7. CASE RunStop(k)
    <2>1. Head(tasks[k]) = Stop /\ outgoing'[k] = outgoing[k] /\ write'[k] = write[k]
      BY <1>7 DEF RunStop, Types
    <2>2. j = 1
      BY <1>4, <1>5, <1>t, <2>1 DEF Strand, Stop
    <2>3. Strand(k, n, 0)'
      <3>1. \A i \in 1 .. Len(tasks'[k]) : tasks'[k][i] = <<k, n + Place(i, 0)>>
        <4> SUFFICES ASSUME NEW i \in 1 .. Len(tasks'[k])
                     PROVE  tasks'[k][i] = <<k, n + Place(i, 0)>>
          OBVIOUS
        <4>1. i \in Nat /\ i + 1 \in 1 .. Len(tasks[k]) /\ i + 1 # 1 /\ i # 0
          BY <1>t, <1>5
        <4>2. Place(i + 1, 1) = Place(i, 0)
          BY <4>1, Places
        <4> QED
          BY <1>n, <1>4, <1>5, <2>2, <4>1, <4>2 DEF Strand
      <3>2. Len(posted'[k]) + 1 = n + Place(Len(tasks'[k]) + 1, 0)
        <4>1. Len(tasks[k]) = Len(tasks'[k]) + 1 /\ Len(tasks[k]) \in Nat /\ Len(tasks[k]) # 0
          BY <1>t, <1>5
        <4>2. Place(Len(tasks[k]) + 1, 1) = Place(Len(tasks[k]), 0)
          BY <4>1, Places
        <4> QED
          BY <1>n, <1>1, <1>4, <2>2, <4>1, <4>2 DEF Strand
      <3> QED
        BY <3>1, <3>2 DEF Strand
    <2>4. n = w + Len(outgoing'[k]) /\ 0 \in 0 .. Len(tasks'[k])
      BY <1>t, <1>n, <1>5, <2>1
    <2>5. Queued(k, w)'
      BY <1>3, <2>1, <2>3, <2>4 DEF Queued
    <2>6. Connected(k, w)'
      <3>1. NextWritten(k, w)' = NextWritten(k, w)
        BY <2>1 DEF NextWritten
      <3> QED
        BY <1>t, <1>1, <1>3, <2>1, <3>1, StillConnected
    <2> QED
      BY <1>1, <1>2, <2>5, <2>6 DEF LinkInv
  <1> QED
    BY <1>6, <1>7

\* A connection begins, with whatever is in the buffer.
LEMMA ConnectStep ==
    ASSUME Types, NEW k \in Links, LinkInv(k), Connect(k)
    PROVE  LinkInv(k)'
  <1>t. /\ tasks[k] \in Seq(Stamps) /\ outgoing[k] \in Seq(Stamps)
        /\ Len(tasks[k]) \in Nat /\ Len(outgoing[k]) \in Nat
        /\ buffer \in Seq(StampedPieces) /\ k # 0
    BY LinkTypes
  <1>1. /\ phase[k] = "none" /\ phase'[k] = "waiting" /\ link # k /\ link' = k
        /\ k \in spoiled' <=> buffer # <<>> \/ k \in spoiled
        /\ UNCHANGED <<server, tasks, outgoing, write, wire, buffer, heard, posted>>
    BY <1>t DEF Connect, session, Types
  <1>2. k \notin spoiled /\ posted[k] = <<>> /\ heard[k] = <<>>
    BY <1>1 DEF LinkInv, Fresh
  <1>3. Fresh(k)' /\ Numbered(k)' /\ Heard(k)'
    BY <1>1, <1>2 DEF LinkInv, Fresh, Numbered, Heard
  <1>4. PICK w \in 0 .. Len(posted[k]) : Queued(k, w) /\ Connected(k, w)
    BY DEF LinkInv
  <1>5. w = 0 /\ Len(posted[k]) = 0 /\ Len(heard[k]) = 0
    BY <1>2
  <1>6. write[k] = "none" /\ wire[k] = <<>>
    <2>1. PICK j \in 0 .. Len(tasks[k]) : Strand(k, w + Len(outgoing[k]), j)
      BY <1>4 DEF Queued
    <2>2. Len(tasks[k]) + 1 \in Nat /\ j \in Nat
      BY <1>t
    <2>3. 1 = Len(outgoing[k]) + Place(Len(tasks[k]) + 1, j)
      BY <1>t, <1>5, <2>1 DEF Strand
    <2>4. Place(Len(tasks[k]) + 1, j) >= 1
      BY <1>t, <2>2 DEF Place
    <2>5. Place(Len(tasks[k]) + 1, j) \in Nat
      BY <2>2, Places
    <2>6. Len(outgoing[k]) = 0
      BY <1>t, <2>3, <2>4, <2>5
    <2>7. outgoing[k] = <<>>
      BY <1>t, <2>6, EmptyIffNone
    <2> QED
      BY <1>1, <1>4, <2>7 DEF Queued, Connected
  <1>7. Queued(k, w)'
    BY <1>1, <1>4 DEF Queued, Strand
  <1>8. Connected(k, w)'
    <2>1. OnWire(k, 0, 0, "head")'
      BY <1>1, <1>6 DEF OnWire, NextWritten
    <2>2. HeardOf(k, 0)'
      BY <1>1, <1>5 DEF HeardOf
    <2>3. Buffered(k, 0, "head")'
      <3>1. CASE buffer = <<>>
        BY <1>1, <1>2, <3>1 DEF Buffered
      <3>2. CASE buffer # <<>>
        <4>1. Len(buffer) >= 1
          BY <1>t, <3>2
        <4> QED
          BY <1>1, <3>2, <4>1 DEF Buffered
      <3> QED
        BY <3>1, <3>2
    <2>4. 0 \in 0 .. Len(posted'[k]) /\ "head" \in Halves
      BY <1>1, <1>5 DEF Halves
    <2> QED
      BY <1>1, <1>5, <2>1, <2>2, <2>3, <2>4 DEF Connected
  <1> QED
    BY <1>1, <1>3, <1>4, <1>7, <1>8 DEF LinkInv

\* The stop goes behind the messages that are in the strand.
LEMMA CollectStep ==
    ASSUME Types, NEW k \in Links, LinkInv(k), Collect, k \in tracked
    PROVE  LinkInv(k)'
  <1>t. tasks[k] \in Seq(Stamps) /\ Stop \in Stamps /\ Len(tasks[k]) \in Nat
    BY LinkTypes, StampsAreStamps
  <1>1. /\ server = "closed" /\ server' = "told" /\ tasks'[k] = Append(tasks[k], Stop)
        /\ UNCHANGED <<phase, tracked, outgoing, write, wire, link, buffer, heard, spoiled,
                       posted>>
    BY DEF Collect, client
  <1>2. Fresh(k)' /\ Numbered(k)' /\ Heard(k)'
    BY <1>1 DEF LinkInv, Fresh, Numbered, Heard, Lost
  <1>3. PICK w \in 0 .. Len(posted[k]) : Queued(k, w) /\ Connected(k, w)
    BY DEF LinkInv
  <1>4. Strand(k, w + Len(outgoing[k]), 0)
    BY <1>1, <1>3 DEF Queued, Strand
  <1>5. /\ Len(tasks'[k]) = Len(tasks[k]) + 1
        /\ \A i \in 1 .. Len(tasks[k]) : tasks'[k][i] = tasks[k][i]
        /\ tasks'[k][Len(tasks[k]) + 1] = Stop
    BY <1>t, <1>1, Appended
  <1>6. PICK j \in Nat : j = Len(tasks[k]) + 1
    BY <1>t
  <1>7. /\ \A i \in 1 .. Len(tasks[k]) : Place(i, j) = Place(i, 0)
        /\ Place(Len(tasks'[k]) + 1, j) = Place(Len(tasks[k]) + 1, 0)
    BY <1>t, <1>5, <1>6 DEF Place
  <1>8. Strand(k, w + Len(outgoing[k]), j)'
    <2>1. j # 0 /\ server' = "told" /\ tasks'[k][j] = Stop
      BY <1>t, <1>1, <1>5, <1>6
    <2>2. ASSUME NEW i \in 1 .. Len(tasks'[k]), i # j
          PROVE  tasks'[k][i] = <<k, w + Len(outgoing'[k]) + Place(i, j)>>
      <3>1. i \in 1 .. Len(tasks[k]) /\ i # 0
        BY <1>t, <1>5, <1>6, <2>2
      <3> QED
        BY <1>1, <1>4, <1>5, <1>7, <3>1 DEF Strand
    <2>3. Len(posted'[k]) + 1 = w + Len(outgoing'[k]) + Place(Len(tasks'[k]) + 1, j)
      BY <1>1, <1>4, <1>7 DEF Strand
    <2> QED
      BY <2>1, <2>2, <2>3 DEF Strand
  <1>9. Queued(k, w)'
    <2>1. j \in 0 .. Len(tasks'[k])
      BY <1>t, <1>5, <1>6
    <2> QED
      BY <1>1, <1>3, <1>8, <2>1 DEF Queued
  <1>10. Connected(k, w)'
    <2>1. NextWritten(k, w)' = NextWritten(k, w) /\ Len(posted[k]) \in Nat
      BY <1>1, LinkTypes DEF NextWritten
    <2> QED
      BY <1>1, <1>3, <2>1, StillConnected
  <1> QED
    BY <1>1, <1>2, <1>3, <1>9, <1>10 DEF LinkInv

\* A connection ends, and with it what is on the wire.
LEMMA BreakStep ==
    ASSUME Types, NEW k \in Links, LinkInv(k), Break(k) \/ Logout(k)
    PROVE  LinkInv(k)'
  <1>1. /\ link' # k /\ wire'[k] = <<>>
        /\ UNCHANGED <<server, phase, tracked, tasks, outgoing, write, heard, spoiled, posted>>
    BY LinkTypes DEF Break, Logout, acceptor, session, Types
  <1>2. Fresh(k)' /\ Numbered(k)' /\ Heard(k)'
    BY <1>1 DEF LinkInv, Fresh, Numbered, Heard, Lost
  <1>3. PICK w \in 0 .. Len(posted[k]) : Queued(k, w) /\ Connected(k, w)
    BY DEF LinkInv
  <1>4. Queued(k, w)' /\ Connected(k, w)'
    BY <1>1, <1>3 DEF Queued, Strand, Connected
  <1> QED
    BY <1>1, <1>2, <1>3, <1>4 DEF LinkInv

\* A failed write leaves the queue as it is, and nothing is written any more.
LEMMA WriteFailedStep ==
    ASSUME Types, NEW k \in Links, LinkInv(k), WriteFailed(k)
    PROVE  LinkInv(k)'
  <1>1. /\ write[k] # "none" /\ write'[k] = "failed"
        /\ UNCHANGED <<server, phase, tracked, tasks, outgoing, wire, link, buffer, heard,
                       spoiled, posted>>
    BY DEF WriteFailed, acceptor, client, Types
  <1>2. Fresh(k)' /\ Numbered(k)' /\ Heard(k)'
    BY <1>1 DEF LinkInv, Fresh, Numbered, Heard, Lost
  <1>3. PICK w \in 0 .. Len(posted[k]) : Queued(k, w) /\ Connected(k, w)
    BY DEF LinkInv
  <1>4. Queued(k, w)'
    BY <1>1, <1>3 DEF Queued, Strand
  <1>5. Connected(k, w)'
    BY <1>1, <1>3, LinkTypes, StillConnected
  <1> QED
    BY <1>1, <1>2, <1>3, <1>4, <1>5 DEF LinkInv

\* What is in the queue is posted.
LEMMA QueuedIsPosted ==
    ASSUME Types, NEW k \in Links, NEW w \in Nat, Queued(k, w)
    PROVE  w + Len(outgoing[k]) <= Len(posted[k])
  <1>1. PICK j \in 0 .. Len(tasks[k]) : Strand(k, w + Len(outgoing[k]), j)
    BY DEF Queued
  <1>2. /\ Len(tasks[k]) \in Nat /\ Len(posted[k]) \in Nat /\ Len(outgoing[k]) \in Nat
        /\ Len(tasks[k]) + 1 \in Nat /\ j \in Nat
    BY LinkTypes
  <1>3. Place(Len(tasks[k]) + 1, j) >= 1 /\ Place(Len(tasks[k]) + 1, j) \in Nat
    BY <1>2 DEF Place
  <1>4. Len(posted[k]) + 1 = w + Len(outgoing[k]) + Place(Len(tasks[k]) + 1, j)
    BY <1>1 DEF Strand
  <1> QED
    BY <1>2, <1>3, <1>4

\* A message leaves the queue, and the next one is written.
LEMMA WrittenStep ==
    ASSUME Types, NEW k \in Links, LinkInv(k), Written(k)
    PROVE  LinkInv(k)'
  <1>t. /\ outgoing[k] \in Seq(Stamps) /\ Len(outgoing[k]) \in Nat /\ Len(posted[k]) \in Nat
    BY LinkTypes
  <1>1. /\ write[k] = "whole" /\ outgoing'[k] = Tail(outgoing[k])
        /\ write'[k] = IF Len(outgoing[k]) > 1 THEN "begun" ELSE "none"
        /\ UNCHANGED <<server, phase, tracked, tasks, wire, link, buffer, heard, spoiled,
                       posted>>
    BY DEF Written, acceptor, client, Types
  <1>2. Fresh(k)' /\ Numbered(k)' /\ Heard(k)'
    BY <1>1 DEF LinkInv, Fresh, Numbered, Heard, Lost
  <1>3. PICK w \in 0 .. Len(posted[k]) : Queued(k, w) /\ Connected(k, w)
    BY DEF LinkInv
  <1>4. PICK j \in 0 .. Len(tasks[k]) : Strand(k, w + Len(outgoing[k]), j)
    BY <1>3 DEF Queued
  <1>5. outgoing[k] # <<>>
    BY <1>1, <1>3 DEF Queued
  <1>6. /\ Len(outgoing[k]) >= 1 /\ Len(outgoing'[k]) = Len(outgoing[k]) - 1
        /\ outgoing'[k] \in Seq(Stamps)
        /\ \A i \in 1 .. Len(outgoing[k]) - 1 : outgoing'[k][i] = outgoing[k][i + 1]
    BY <1>t, <1>1, <1>5, Shortened
  <1>o. PICK old \in Nat : old = Len(outgoing[k])
    BY <1>t
  <1>n. PICK new \in Nat : new = Len(outgoing'[k]) /\ new = old - 1 /\ old >= 1 /\ w \in Nat
    BY <1>t, <1>6, <1>o
  <1>7. PICK v \in Nat : v = w + 1
    OBVIOUS
  <1>8. v \in 0 .. Len(posted'[k])
    <2>1. w \in Nat /\ w + Len(outgoing[k]) <= Len(posted[k])
      BY <1>3, QueuedIsPosted
    <2> QED
      BY <1>t, <1>1, <1>6, <1>7, <2>1
  <1>9. Queued(k, v)'
    <2>1. ASSUME NEW i \in 1 .. Len(outgoing'[k]) PROVE outgoing'[k][i] = <<k, v + i>>
      <3>1. i \in 1 .. Len(outgoing[k]) - 1 /\ i + 1 \in 1 .. Len(outgoing[k])
        BY <1>t, <1>6
      <3>2. outgoing'[k][i] = <<k, w + (i + 1)>>
        BY <1>3, <1>6, <3>1 DEF Queued
      <3>3. w + (i + 1) = v + i
        BY <1>7
      <3> QED
        BY <3>2, <3>3
    <2>2. outgoing'[k] = <<>> <=> write'[k] = "none"
      <3>1. outgoing'[k] = <<>> <=> Len(outgoing'[k]) = 0
        BY <1>6, EmptyIffNone
      <3>2. old > 1 <=> new # 0
        BY <1>n
      <3>3. CASE Len(outgoing[k]) > 1
        BY <1>1, <1>o, <1>n, <3>1, <3>2, <3>3
      <3>4. CASE ~ (Len(outgoing[k]) > 1)
        BY <1>1, <1>o, <1>n, <3>1, <3>2, <3>4
      <3> QED
        BY <3>3, <3>4
    <2>3. v + Len(outgoing'[k]) = w + Len(outgoing[k])
      <3>1. v + new = w + old
        BY <1>7, <1>n
      <3> QED
        BY <1>o, <1>n, <3>1
    <2>4. Strand(k, v + Len(outgoing[k]), j)'
      BY <1>1, <1>4, <2>3 DEF Strand
    <2> QED
      BY <1>1, <2>1, <2>2, <2>4 DEF Queued
  <1>10. Connected(k, v)'
    <2>1. NextWritten(k, v)' = NextWritten(k, w)
      <3>1. NextWritten(k, w) = <<<<k, w + 2>>, "head">>
        BY <1>1 DEF NextWritten
      <3>2. NextWritten(k, v)' = <<<<k, v + 1>>, "head">>
        BY <1>1 DEF NextWritten
      <3>3. v + 1 = w + 2
        BY <1>7
      <3> QED
        BY <3>1, <3>2, <3>3
    <2> QED
      BY <1>t, <1>1, <1>3, <2>1, StillConnected
  <1> QED
    BY <1>1, <1>2, <1>8, <1>9, <1>10 DEF LinkInv

\* The next piece goes behind those on the wire.
LEMMA WriteStep ==
    ASSUME Types, NEW k \in Links, LinkInv(k), WritePiece(k)
    PROVE  LinkInv(k)'
  <1>t. /\ outgoing[k] \in Seq(Stamps) /\ Len(outgoing[k]) \in Nat /\ Len(posted[k]) \in Nat
        /\ wire[k] \in Seq(StampedPieces) /\ Len(wire[k]) \in Nat
    BY LinkTypes
  <1>3. PICK w \in 0 .. Len(posted[k]) : Queued(k, w) /\ Connected(k, w)
    BY DEF LinkInv
  <1>4. write[k] \in {"begun", "half"} /\ link = k
    BY DEF WritePiece
  <1>5. /\ outgoing[k] # <<>> /\ Head(outgoing[k]) = <<k, w + 1>>
        /\ <<k, w + 1>> \in Stamps /\ w + 1 \in 1 .. Len(posted[k])
    <2>1. outgoing[k] # <<>>
      BY <1>3, <1>4 DEF Queued
    <2>2. /\ Head(outgoing[k]) = outgoing[k][1] /\ Head(outgoing[k]) \in Stamps
          /\ Len(outgoing[k]) >= 1
      BY <1>t, <2>1, Shortened
    <2>3. outgoing[k][1] = <<k, w + 1>>
      BY <1>t, <1>3, <2>2 DEF Queued
    <2>4. w \in Nat /\ w + Len(outgoing[k]) <= Len(posted[k])
      BY <1>t, <1>3, QueuedIsPosted
    <2> QED
      BY <1>t, <2>1, <2>2, <2>3, <2>4
  <1>6. PICK piece \in StampedPieces :
           /\ piece = NextWritten(k, w) /\ NextWritten(k, w)' = After(k, piece)
           /\ wire'[k] = Append(wire[k], piece) /\ write'[k] \in {"half", "whole"}
           /\ piece[1] = <<k, w + 1>>
    <2>1. CASE write[k] = "begun"
      <3>1. /\ wire'[k] = Append(wire[k], <<<<k, w + 1>>, "head">>) /\ write'[k] = "half"
        BY <1>5, <2>1 DEF WritePiece, Pieces, Types
      <3>2. <<<<k, w + 1>>, "head">> \in StampedPieces
        BY <1>5 DEF StampedPieces, Halves
      <3> QED
        BY <2>1, <3>1, <3>2 DEF NextWritten, After
    <2>2. CASE write[k] = "half"
      <3>1. /\ wire'[k] = Append(wire[k], <<<<k, w + 1>>, "tail">>) /\ write'[k] = "whole"
        BY <1>5, <2>2 DEF WritePiece, Pieces, Types
      <3>2. <<<<k, w + 1>>, "tail">> \in StampedPieces
        BY <1>5 DEF StampedPieces, Halves
      <3>3. w + 2 = w + 1 + 1
        BY <1>t
      <3> QED
        BY <2>2, <3>1, <3>2, <3>3 DEF NextWritten, After
    <2> QED
      BY <1>4, <2>1, <2>2
  <1>7. UNCHANGED <<server, phase, tracked, tasks, outgoing, link, buffer, heard, spoiled,
                    posted>>
    BY DEF WritePiece, acceptor, client
  <1>8. Fresh(k)' /\ Numbered(k)' /\ Heard(k)'
    BY <1>7 DEF LinkInv, Fresh, Numbered, Heard, Lost
  <1>9. Queued(k, w)'
    BY <1>3, <1>4, <1>6, <1>7 DEF Queued, Strand
  <1>10. Connected(k, w)'
    <2>1. PICK m \in 0 .. Len(posted[k]), half \in Halves :
             OnWire(k, w, m, half) /\ HeardOf(k, m) /\ Buffered(k, m, half)
      BY <1>3, <1>4 DEF Connected
    <2>2. /\ wire'[k] # <<>> /\ Len(wire'[k]) = Len(wire[k]) + 1
          /\ \A i \in 1 .. Len(wire[k]) : wire'[k][i] = wire[k][i]
          /\ wire'[k][Len(wire[k]) + 1] = piece
      BY <1>t, <1>6, Appended
    <2>3. piece = IF wire[k] = <<>> THEN <<<<k, m + 1>>, half>>
                  ELSE After(k, wire[k][Len(wire[k])])
      BY <1>4, <1>6, <2>1 DEF OnWire
    <2>4. wire'[k][1] = <<<<k, m + 1>>, half>>
      <3>1. CASE wire[k] = <<>>
        <4>1. Len(wire[k]) = 0
          BY <3>1
        <4> QED
          BY <2>2, <2>3, <3>1, <4>1
      <3>2. CASE wire[k] # <<>>
        <4>1. 1 \in 1 .. Len(wire[k])
          BY <1>t, <3>2
        <4> QED
          BY <2>1, <2>2, <3>2, <4>1 DEF OnWire
      <3> QED
        BY <3>1, <3>2
    <2>5. ASSUME NEW i \in 1 .. Len(wire'[k])
          PROVE  wire'[k][i][1] \in {k} \X (1 .. Len(posted[k]))
      <3>1. CASE i \in 1 .. Len(wire[k])
        BY <2>1, <2>2, <3>1 DEF OnWire
      <3>2. CASE i = Len(wire[k]) + 1
        <4>1. wire'[k][i][1] = <<k, w + 1>>
          BY <1>6, <2>2, <3>2
        <4>2. <<k, w + 1>> \in {k} \X (1 .. Len(posted[k]))
          BY <1>5
        <4> QED
          BY <4>1, <4>2
      <3> QED
        BY <1>t, <2>2, <3>1, <3>2
    <2>6. ASSUME NEW i \in 1 .. Len(wire'[k]) - 1
          PROVE  wire'[k][i + 1] = After(k, wire'[k][i])
      <3>1. i \in 1 .. Len(wire[k]) /\ wire'[k][i] = wire[k][i]
        BY <1>t, <2>2
      <3>2. CASE i \in 1 .. Len(wire[k]) - 1
        <4>1. i + 1 \in 1 .. Len(wire[k])
          BY <1>t, <3>2
        <4> QED
          BY <2>1, <2>2, <3>1, <3>2, <4>1 DEF OnWire
      <3>3. CASE i = Len(wire[k])
        <4>1. wire[k] # <<>>
          BY <1>t, <3>1, EmptyIffNone
        <4> QED
          BY <2>2, <2>3, <3>1, <3>3, <4>1
      <3> QED
        BY <1>t, <3>1, <3>2, <3>3
    <2>7. OnWire(k, w, m, half)'
      <3>1. NextWritten(k, w)' = After(k, wire'[k][Len(wire'[k])])
        BY <1>6, <2>2
      <3>2. \A p : After(k, p)' = After(k, p)
        BY DEF After
      <3> QED
        BY <1>7, <2>2, <2>4, <2>5, <2>6, <3>1, <3>2 DEF OnWire, After
    <2>8. HeardOf(k, m)' /\ Buffered(k, m, half)'
      BY <1>7, <2>1 DEF HeardOf, Buffered, Lost
    <2> QED
      BY <1>4, <1>7, <2>7, <2>8 DEF Connected
  <1> QED
    BY <1>3, <1>7, <1>8, <1>9, <1>10 DEF LinkInv

\* A half is read: the first goes to the buffer, the second completes the line.
LEMMA ReadStep ==
    ASSUME Types, NEW k \in Links, LinkInv(k), Read(k)
    PROVE  LinkInv(k)'
  <1>t. /\ wire[k] \in Seq(StampedPieces) /\ Len(wire[k]) \in Nat
        /\ heard[k] \in Seq(Stamps) /\ Len(heard[k]) \in Nat
        /\ posted[k] \in Seq(Stamps) /\ Len(posted[k]) \in Nat /\ k \in Nat
        /\ buffer \in Seq(StampedPieces) /\ Len(buffer) \in Nat
    BY LinkTypes
  <1>1. /\ link = k /\ wire[k] # <<>> /\ wire'[k] = Tail(wire[k])
        /\ UNCHANGED <<server, phase, tracked, tasks, outgoing, write, link, spoiled, posted>>
    BY DEF Read, acceptor, session, Types
  <1>2. /\ Head(wire[k]) = wire[k][1] /\ Len(wire[k]) >= 1 /\ wire'[k] \in Seq(StampedPieces)
        /\ Len(wire'[k]) = Len(wire[k]) - 1
        /\ \A i \in 1 .. Len(wire[k]) - 1 : wire'[k][i] = wire[k][i + 1]
    BY <1>t, <1>1, Shortened
  <1>3. PICK w \in 0 .. Len(posted[k]) : Queued(k, w) /\ Connected(k, w)
    BY DEF LinkInv
  <1>4. Queued(k, w)'
    BY <1>1, <1>3 DEF Queued, Strand
  <1>5. PICK m \in 0 .. Len(posted[k]), half \in Halves :
             OnWire(k, w, m, half) /\ HeardOf(k, m) /\ Buffered(k, m, half)
    BY <1>1, <1>3 DEF Connected
  <1> DEFINE s == <<k, m + 1>>
             piece == <<s, half>>
             line == Append(buffer, piece)
  <1>6. Head(wire[k]) = piece /\ m + 1 \in 1 .. Len(posted[k])
    <2>1. wire[k][1] = piece
      BY <1>1, <1>5 DEF OnWire
    <2>2. wire[k][1][1] \in {k} \X (1 .. Len(posted[k]))
      BY <1>t, <1>2, <1>5 DEF OnWire
    <2>3. s \in {k} \X (1 .. Len(posted[k]))
      BY <2>1, <2>2
    <2> QED
      BY <1>2, <2>1, <2>3
  <1>7. /\ buffer' = IF half = "tail" THEN <<>> ELSE line
        /\ heard'[k] = IF line = Pieces(s) THEN Append(heard[k], s) ELSE heard[k]
    <2>1. /\ buffer' = IF EndsLine(Head(wire[k])) THEN <<>> ELSE Append(buffer, Head(wire[k]))
          /\ heard' = IF Append(buffer, Head(wire[k])) = Pieces(Head(wire[k])[1])
                        THEN [heard EXCEPT ![k] = Append(@, Head(wire[k])[1])] ELSE heard
      BY DEF Read
    <2>2. EndsLine(piece) <=> half = "tail"
      BY DEF EndsLine
    <2>3. piece[1] = s
      OBVIOUS
    <2>4. buffer' = IF half = "tail" THEN <<>> ELSE line
      BY <1>6, <2>1, <2>2
    <2>5. heard' = IF line = Pieces(s) THEN [heard EXCEPT ![k] = Append(@, s)] ELSE heard
      BY <1>6, <2>1, <2>3
    <2> HIDE DEF s, piece, line
    <2>6. heard \in [Links -> Seq(Stamps)]
      BY DEF Types
    <2> QED
      BY <2>4, <2>5, <2>6
  <1>8. m \in Nat /\ s \in Stamps /\ piece \in StampedPieces
    BY <1>t DEF Stamps, StampedPieces
  <1>9. /\ Len(line) = Len(buffer) + 1 /\ line[Len(buffer) + 1] = piece
        /\ line \in Seq(StampedPieces) /\ \A i \in 1 .. Len(buffer) : line[i] = buffer[i]
    BY <1>t, <1>8, Appended
  <1>10. /\ Len(Pieces(s)) = 2 /\ Pieces(s)[1] = <<s, "head">> /\ Pieces(s)[2] = <<s, "tail">>
    BY DEF Pieces
  <1> HIDE DEF line
  <1>11. Fresh(k)'
    <2>1. ~ (phase[k] = "none")
      BY <1>1 DEF LinkInv, Fresh
    <2> QED
      BY <1>1, <2>1 DEF Fresh
  <1>12. Numbered(k)'
    BY <1>1 DEF LinkInv, Numbered
  <1>13. ASSUME NEW v, NEW b \in Halves, <<v, b>> = After(k, piece)
         PROVE  /\ wire'[k] # <<>> => wire'[k][1] = <<v, b>>
                /\ \A i \in 1 .. Len(wire'[k]) : wire'[k][i][1] \in {k} \X (1 .. Len(posted[k]))
                /\ \A i \in 1 .. Len(wire'[k]) - 1 : wire'[k][i + 1] = After(k, wire'[k][i])
                /\ write'[k] # "failed" =>
                      NextWritten(k, w)' =
                          IF wire'[k] = <<>> THEN <<v, b>>
                          ELSE After(k, wire'[k][Len(wire'[k])])
    <2>0. wire'[k] = <<>> <=> Len(wire[k]) = 1
      <3>0. wire'[k] \in Seq(StampedPieces)
        BY <1>2
      <3>1. Len(wire'[k]) \in Nat /\ (wire'[k] = <<>> <=> Len(wire'[k]) = 0)
        BY <3>0, EmptyIffNone
      <3> QED
        BY <1>t, <1>2, <3>1
    <2>1. ASSUME wire'[k] # <<>> PROVE wire'[k][1] = <<v, b>>
      <3>1. 1 \in 1 .. Len(wire[k]) - 1 /\ 1 + 1 = 2
        BY <1>t, <1>2, <2>0, <2>1
      <3> QED
        BY <1>2, <1>5, <1>6, <1>13, <3>1 DEF OnWire
    <2>2. ASSUME NEW i \in 1 .. Len(wire'[k])
          PROVE  wire'[k][i][1] \in {k} \X (1 .. Len(posted[k]))
      <3>1. i \in 1 .. Len(wire[k]) - 1 /\ i + 1 \in 1 .. Len(wire[k])
        BY <1>t, <1>2
      <3> QED
        BY <1>2, <1>5, <3>1 DEF OnWire
    <2>3. ASSUME NEW i \in 1 .. Len(wire'[k]) - 1
          PROVE  wire'[k][i + 1] = After(k, wire'[k][i])
      <3>1. /\ i \in 1 .. Len(wire[k]) - 1 /\ i + 1 \in 1 .. Len(wire[k]) - 1
        BY <1>t, <1>2
      <3>2. wire'[k][i] = wire[k][i + 1] /\ wire'[k][i + 1] = wire[k][i + 1 + 1]
        BY <1>2, <3>1
      <3> QED
        BY <1>5, <3>1, <3>2 DEF OnWire
    <2>4. ASSUME write'[k] # "failed"
          PROVE  NextWritten(k, w)' = IF wire'[k] = <<>> THEN <<v, b>>
                                      ELSE After(k, wire'[k][Len(wire'[k])])
      <3>1. NextWritten(k, w)' = After(k, wire[k][Len(wire[k])])
        BY <1>1, <1>5, <2>4 DEF OnWire, NextWritten
      <3>2. CASE wire'[k] = <<>>
        BY <1>2, <1>6, <1>13, <2>0, <3>1, <3>2
      <3>3. CASE wire'[k] # <<>>
        <4>1. Len(wire'[k]) \in 1 .. Len(wire[k]) - 1 /\ Len(wire'[k]) + 1 = Len(wire[k])
          BY <1>t, <1>2, <2>0, <3>3
        <4>2. wire'[k][Len(wire'[k])] = wire[k][Len(wire[k])]
          BY <1>2, <4>1
        <4> QED
          BY <3>1, <3>3, <4>2
      <3> QED
        BY <3>2, <3>3
    <2> QED
      BY <2>1, <2>2, <2>3, <2>4
  <1>14. \A p : After(k, p)' = After(k, p)
    BY DEF After
  <1>15. CASE half = "head"
    <2>1. heard'[k] = heard[k] /\ buffer' = line
      <3>1. line # Pieces(s)
        BY <1>t, <1>9, <1>10, <1>15
      <3> QED
        BY <1>7, <1>15, <3>1
    <2>2. Heard(k)' /\ HeardOf(k, m)'
      BY <1>1, <1>5, <2>1 DEF LinkInv, Heard, HeardOf, Lost
    <2>3. OnWire(k, w, m, "tail")'
      <3>1. <<s, "tail">> = After(k, piece) /\ "tail" \in Halves
        BY <1>15 DEF After, Halves
      <3> QED
        BY <1>1, <1>13, <1>14, <3>1 DEF OnWire, After
    <2>4. Buffered(k, m, "tail")'
      <3>1. CASE k \in spoiled /\ m = 0
        BY <1>t, <1>1, <1>5, <1>9, <1>15, <2>1, <3>1 DEF Buffered
      <3>2. CASE ~ (k \in spoiled /\ m = 0)
        <4>1. buffer = <<>>
          BY <1>5, <1>15, <3>2 DEF Buffered
        <4>2. line = << piece >>
          BY <1>8, <4>1 DEF line
        <4> QED
          BY <1>1, <1>15, <2>1, <3>2, <4>2 DEF Buffered
      <3> QED
        BY <3>1, <3>2
    <2>5. Connected(k, w)'
      BY <1>1, <2>2, <2>3, <2>4 DEF Connected, Halves
    <2> QED
      BY <1>1, <1>3, <1>4, <1>11, <1>12, <2>2, <2>5 DEF LinkInv
  <1>16. CASE half = "tail"
    <2>n. PICK n \in Nat : n = m + 1 /\ n \in 0 .. Len(posted[k])
      BY <1>t, <1>6, <1>8
    <2>1. buffer' = <<>>
      BY <1>7, <1>16
    <2>2. Buffered(k, n, "head")'
      BY <1>8, <2>n, <2>1 DEF Buffered
    <2>3. OnWire(k, w, n, "head")'
      <3>1. <<<<k, n + 1>>, "head">> = After(k, piece) /\ "head" \in Halves
        BY <1>16, <2>n DEF After, Halves
      <3> QED
        BY <1>1, <1>13, <1>14, <3>1 DEF OnWire, After
    <2>4. Heard(k)' /\ HeardOf(k, n)'
      <3>1. CASE k \in spoiled /\ m = 0
        <4>1. Len(buffer) >= 2
          BY <1>5, <1>16, <3>1 DEF Buffered
        <4>2. line # Pieces(s)
          BY <1>t, <1>9, <1>10, <4>1
        <4>3. heard'[k] = heard[k] /\ Len(heard[k]) = 0
          BY <1>5, <1>7, <3>1, <4>2 DEF HeardOf
        <4> QED
          BY <1>1, <2>n, <3>1, <4>3 DEF LinkInv, Heard, HeardOf, Lost
      <3>2. CASE ~ (k \in spoiled /\ m = 0)
        <4>1. buffer = << <<s, "head">> >>
          BY <1>5, <1>16, <3>2 DEF Buffered
        <4>2. line = Pieces(s)
          <5>1. Append(<< <<s, "head">> >>, <<s, "tail">>) = << <<s, "head">>, <<s, "tail">> >>
            BY <1>8, <1>16, TwoPieces DEF StampedPieces, Halves
          <5> QED
            BY <1>16, <4>1, <5>1 DEF line, Pieces
        <4>3. heard'[k] = Append(heard[k], s)
          BY <1>7, <4>2
        <4>4. /\ Len(heard'[k]) = Len(heard[k]) + 1 /\ heard'[k][Len(heard[k]) + 1] = s
              /\ \A i \in 1 .. Len(heard[k]) : heard'[k][i] = heard[k][i]
          BY <1>t, <1>8, <4>3, Appended
        <4>5. Len(heard[k]) + Lost(k) = m /\ Lost(k) \in {0, 1}
          BY <1>t, <1>5, <1>8, <3>2 DEF HeardOf, Lost
        <4>6. HeardOf(k, n)'
          <5>1. Len(heard'[k]) = n - Lost(k)
            BY <1>t, <2>n, <4>4, <4>5
          <5>2. n # 0 /\ Lost(k)' = Lost(k)
            BY <1>1, <1>8, <2>n DEF Lost
          <5> QED
            BY <5>1, <5>2 DEF HeardOf
        <4>7. ASSUME NEW i \in 1 .. Len(heard'[k]) PROVE heard'[k][i] = <<k, i + Lost(k)>>
          <5>1. CASE i \in 1 .. Len(heard[k])
            BY <4>4, <5>1 DEF LinkInv, Heard
          <5>2. CASE i = Len(heard[k]) + 1
            <6>1. i + Lost(k) = m + 1
              BY <1>t, <4>5, <5>2
            <6> QED
              BY <4>4, <5>2, <6>1
          <5> QED
            BY <1>t, <4>4, <5>1, <5>2
        <4>8. Len(heard'[k]) + Lost(k) <= Len(posted[k])
          BY <1>t, <2>n, <4>4, <4>5
        <4>9. Lost(k)' = Lost(k)
          BY <1>1 DEF Lost
        <4>10. Heard(k)'
          BY <1>1, <4>7, <4>8, <4>9 DEF Heard
        <4> QED
          BY <4>6, <4>10
      <3> QED
        BY <3>1, <3>2
    <2>5. Connected(k, w)'
      BY <1>1, <2>n, <2>2, <2>3, <2>4 DEF Connected, Halves
    <2> QED
      BY <1>1, <1>3, <1>4, <1>11, <1>12, <2>4, <2>5 DEF LinkInv
  <1> QED
    BY <1>15, <1>16 DEF Halves

-----------------------------------------------------------------------------
(* The invariant *)

LEMMA InitIInv == Init => IInv
  <1> SUFFICES ASSUME Init PROVE IInv
    OBVIOUS
  <1>1. Types
    BY InitTypes
  <1>2. ASSUME NEW k \in Links PROVE LinkInv(k)
    <2>1. Fresh(k) /\ Numbered(k) /\ Heard(k)
      BY LinksArePositive DEF Init, Fresh, Numbered, Heard
    <2>2. posted[k] = <<>> /\ tasks[k] = <<>> /\ outgoing[k] = <<>> /\ write[k] = "none"
      BY DEF Init
    <2>3. Strand(k, 0, 0)
      BY <2>2 DEF Strand, Place
    <2>4. Queued(k, 0)
      BY <2>2, <2>3 DEF Queued
    <2>5. Connected(k, 0)
      BY LinksArePositive DEF Init, Connected
    <2> QED
      BY <2>1, <2>2, <2>4, <2>5 DEF LinkInv
  <1> QED
    BY <1>1, <1>2 DEF IInv

LEMMA NextIInv == IInv /\ [Next]_vars => IInv'
  <1> SUFFICES ASSUME IInv, [Next]_vars PROVE IInv'
    OBVIOUS
  <1>t. Types /\ Types' /\ \A k \in Links : LinkInv(k)
    BY NextTypes DEF IInv
  <1> SUFFICES ASSUME NEW j \in Links PROVE LinkInv(j)'
    BY <1>t DEF IInv
  <1>j. Types /\ LinkInv(j) /\ j # 0
    BY <1>t, LinksArePositive
  <1>1. CASE StopAccepting
    BY <1>1, <1>j, Untouched DEF StopAccepting, session, client
  <1>2. CASE Collect
    <2>1. CASE j \in tracked
      BY <1>2, <1>j, <2>1, CollectStep
    <2>2. CASE j \notin tracked
      BY <1>2, <1>j, <2>2, Untouched DEF Collect, client
    <2> QED
      BY <2>1, <2>2
  <1>3. ASSUME NEW k \in Links, Connect(k) PROVE LinkInv(j)'
    <2>1. CASE j = k
      BY <1>3, <1>j, <2>1, ConnectStep
    <2>2. CASE j # k
      <3>1. link = 0 /\ link' = k /\ phase'[j] = phase[j] /\ (j \in spoiled' <=> j \in spoiled)
        BY <1>3, <1>j, <2>2 DEF Connect, Types
      <3> QED
        BY <1>3, <1>j, <2>2, <3>1, Untouched DEF Connect, session
    <2> QED
      BY <2>1, <2>2
  <1>4. ASSUME NEW k \in Links, Accept(k) \/ TrackAndStart(k) PROVE LinkInv(j)'
    <2>1. /\ \/ phase'[j] = phase[j] /\ (j \in tracked' <=> j \in tracked)
             \/ phase'[j] # "none"
          /\ UNCHANGED <<server, tasks, outgoing, write, wire, heard, posted, spoiled, link,
                         buffer>>
      <3>1. CASE Accept(k)
        BY <1>j, <3>1 DEF Accept, session, client, Types
      <3>2. CASE TrackAndStart(k)
        BY <1>j, <3>2 DEF TrackAndStart, session, client, Types
      <3> QED
        BY <1>4, <3>1, <3>2
    <2> QED
      BY <1>j, <2>1, Untouched
  <1>5. ASSUME NEW k \in Links, Post(k) PROVE LinkInv(j)'
    <2>1. CASE j = k
      BY <1>5, <1>j, <2>1, PostStep
    <2>2. CASE j # k
      <3>1. posted'[j] = posted[j] /\ tasks'[j] = tasks[j]
        BY <1>5, <1>j, <2>2 DEF Post, Types
      <3> QED
        BY <1>5, <1>j, <3>1, Untouched DEF Post, acceptor, client
    <2> QED
      BY <2>1, <2>2
  <1>6. ASSUME NEW k \in Links, RunSend(k) \/ RunStop(k) PROVE LinkInv(j)'
    <2>1. CASE j = k
      BY <1>6, <1>j, <2>1, RunStep
    <2>2. CASE j # k
      <3>1. CASE RunSend(k)
        <4>1. tasks'[j] = tasks[j] /\ outgoing'[j] = outgoing[j] /\ write'[j] = write[j]
          BY <1>j, <2>2, <3>1 DEF RunSend, Types
        <4> QED
          BY <1>j, <3>1, <4>1, Untouched DEF RunSend, acceptor, client
      <3>2. CASE RunStop(k)
        <4>1. tasks'[j] = tasks[j]
          BY <1>j, <2>2, <3>2 DEF RunStop, Types
        <4> QED
          BY <1>j, <3>2, <4>1, Untouched DEF RunStop, acceptor, client
      <3> QED
        BY <1>6, <3>1, <3>2
    <2> QED
      BY <2>1, <2>2
  <1>7. ASSUME NEW k \in Links, WritePiece(k) PROVE LinkInv(j)'
    <2>1. CASE j = k
      BY <1>7, <1>j, <2>1, WriteStep
    <2>2. CASE j # k
      <3>1. wire'[j] = wire[j] /\ write'[j] = write[j]
        BY <1>7, <1>j, <2>2 DEF WritePiece, Types
      <3> QED
        BY <1>7, <1>j, <3>1, Untouched DEF WritePiece, acceptor, client
    <2> QED
      BY <2>1, <2>2
  <1>8. ASSUME NEW k \in Links, WriteFailed(k) PROVE LinkInv(j)'
    <2>1. CASE j = k
      BY <1>8, <1>j, <2>1, WriteFailedStep
    <2>2. CASE j # k
      <3>1. write'[j] = write[j]
        BY <1>8, <1>j, <2>2 DEF WriteFailed, Types
      <3> QED
        BY <1>8, <1>j, <3>1, Untouched DEF WriteFailed, acceptor, client
    <2> QED
      BY <2>1, <2>2
  <1>9. ASSUME NEW k \in Links, Written(k) PROVE LinkInv(j)'
    <2>1. CASE j = k
      BY <1>9, <1>j, <2>1, WrittenStep
    <2>2. CASE j # k
      <3>1. outgoing'[j] = outgoing[j] /\ write'[j] = write[j]
        BY <1>9, <1>j, <2>2 DEF Written, Types
      <3> QED
        BY <1>9, <1>j, <3>1, Untouched DEF Written, acceptor, client
    <2> QED
      BY <2>1, <2>2
  <1>10. ASSUME NEW k \in Links, ReadFailed(k) PROVE LinkInv(j)'
    BY <1>10, <1>j, Untouched DEF ReadFailed, acceptor, client
  <1>11. ASSUME NEW k \in Links, Read(k) PROVE LinkInv(j)'
    <2>1. CASE j = k
      BY <1>11, <1>j, <2>1, ReadStep
    <2>2. CASE j # k
      <3>1. wire'[j] = wire[j] /\ heard'[j] = heard[j] /\ link = k
        BY <1>11, <1>j, <2>2 DEF Read, Types
      <3> QED
        BY <1>11, <1>j, <2>2, <3>1, Untouched DEF Read, acceptor, session
    <2> QED
      BY <2>1, <2>2
  <1>12. ASSUME NEW k \in Links, Break(k) \/ Logout(k) PROVE LinkInv(j)'
    <2>1. CASE j = k
      BY <1>12, <1>j, <2>1, BreakStep
    <2>2. CASE j # k
      <3>1. /\ wire'[j] = wire[j] /\ link = k /\ link' = 0
            /\ UNCHANGED <<acceptor, session, heard, posted, spoiled>>
        BY <1>12, <1>j, <2>2 DEF Break, Logout, Types
      <3> QED
        BY <1>j, <2>2, <3>1, Untouched DEF acceptor, session
    <2> QED
      BY <2>1, <2>2
  <1>13. CASE UNCHANGED vars
    BY <1>13, <1>j, Untouched DEF vars
  <1> QED
    BY <1>1, <1>2, <1>3, <1>4, <1>5, <1>6, <1>7, <1>8, <1>9, <1>10, <1>11, <1>12, <1>13
    DEF Next, Work

\* Where every message is, at every moment.
THEOREM Inductive == Spec => []IInv
  BY InitIInv, NextIInv, PTL DEF Spec

-----------------------------------------------------------------------------
(* The property *)

\* What was heard of a connection is what was posted, or what was posted
\* after the first message, up to some message.
LEMMA HeardIsPosted ==
    ASSUME Types, NEW k \in Links, Numbered(k), Heard(k)
    PROVE  IsPrefix(heard[k],
                    IF k \in spoiled /\ posted[k] # <<>> THEN Tail(posted[k]) ELSE posted[k])
  <1>t. /\ heard[k] \in Seq(Stamps) /\ Len(heard[k]) \in Nat
        /\ posted[k] \in Seq(Stamps) /\ Len(posted[k]) \in Nat
    BY LinkTypes
  <1> DEFINE p == IF k \in spoiled /\ posted[k] # <<>> THEN Tail(posted[k]) ELSE posted[k]
  <1>1. CASE heard[k] = <<>>
    <2>1. p \in Seq(Stamps)
      BY <1>t, Shortened
    <2> HIDE DEF p
    <2>2. IsPrefix(<<>>, p)
      BY <2>1 DEF IsPrefix
    <2> QED
      BY <1>1, <2>2 DEF p
  <1>2. CASE heard[k] # <<>>
    <2>1. Len(heard[k]) >= 1 /\ Len(heard[k]) + Lost(k) <= Len(posted[k])
      BY <1>t, <1>2, EmptyIffNone DEF Heard
    <2>2. p \in Seq(Stamps) /\ Len(p) \in Nat /\ Len(p) + Lost(k) = Len(posted[k])
          /\ \A i \in 1 .. Len(p) : p[i] = posted[k][i + Lost(k)]
      <3>1. CASE k \in spoiled
        <4>1. posted[k] # <<>> /\ Lost(k) = 1
          BY <1>t, <2>1, <3>1, EmptyIffNone DEF Lost
        <4>2. p = Tail(posted[k])
          BY <3>1, <4>1
        <4> HIDE DEF p
        <4> QED
          BY <1>t, <4>1, <4>2, Shortened
      <3>2. CASE k \notin spoiled
        <4>1. p = posted[k] /\ Lost(k) = 0
          BY <3>2 DEF Lost
        <4> HIDE DEF p
        <4> QED
          BY <1>t, <4>1
      <3> QED
        BY <3>1, <3>2
    <2> HIDE DEF p
    <2>3. Lost(k) \in Nat
      BY DEF Lost
    <2>4. Len(heard[k]) <= Len(p)
      BY <1>t, <2>1, <2>2, <2>3
    <2>5. ASSUME NEW i \in 1 .. Len(heard[k]) PROVE heard[k][i] = p[i]
      <3>1. i \in 1 .. Len(p) /\ i + Lost(k) \in 1 .. Len(posted[k])
        BY <1>t, <2>1, <2>2, <2>3, <2>4
      <3> QED
        BY <2>2, <3>1 DEF Numbered, Heard
    <2>6. heard[k] = SubSeq(p, 1, Len(heard[k]))
      BY <1>t, <2>2, <2>4, <2>5
    <2> QED
      BY <2>4, <2>6 DEF IsPrefix, p
  <1> QED
    BY <1>1, <1>2

\* Whatever breaks, and whenever the server stops, a client hears of each
\* connection what was posted to it, whole and in order, up to some message;
\* a used buffer costs the first message and no other.
THEOREM MessagesAreWholeAndInOrder == Spec => []WholeAndInOrder
  <1>1. IInv => WholeAndInOrder
    BY HeardIsPosted DEF IInv, LinkInv, WholeAndInOrder
  <1> QED
    BY <1>1, Inductive, PTL

=============================================================================
