--------------------------- MODULE MjpegImages_proofs ---------------------------
(* Proofs about MjpegStream: if the images of a stream can be told apart at all *)
(* (CamerasAssumption), the listener is given them whole and in their order.    *)
(*                                                                              *)
(* The parser holds what was received since the last image that was given ended *)
(* (Base), and its two searches have left nothing out of that: no start of an   *)
(* image before one is found (FirstStart), no end of one afterwards             *)
(* (ImageFound).  So the next one cut out is the next of the stream             *)
(* (NextImage).  Each step of ReceivePiece has a lemma that it keeps this:      *)
(* AppendedHolds, CheckBoundaryHolds, FindStartHolds, SearchOnHolds,            *)
(* GiveImageHolds.                                                              *)
EXTENDS MjpegStream_proofs

(* What the stream consists of: images from From(k) to To(k), and whether the   *)
(* camera announces what is between them.                                       *)
Sent    == stream.sent
Known   == stream.announced # <<>>
Count   == Len(stream.images)
From(k) == stream.images[k][1]
To(k)   == stream.images[k][2]

Sound == ~failed /\ ~garbled

\* How much of what was received is behind the last image that was given.
Base == IF given = <<>> THEN 0 ELSE given[Len(given)][2]

\* What was given are images with none left out; the first of the stream if they can be told.
GivenInv ==
  /\ given \in Seq(Nat \X Nat)
  /\ \A k \in 1..Len(given) :
       /\ given[k][1] \in ImageStarts /\ given[k][2] \in ImageEnds
       /\ ImageStarts \cap ((IF k = 1 THEN 1 ELSE given[k - 1][2] + 1)..(given[k][1] - 1)) = {}
  /\ Known => Len(given) <= Count /\ \A k \in 1..Len(given) : given[k] = stream.images[k]

\* The places from a base to what was received.
Rest(base, total) == [i \in 1..(total - base) |-> base + i]

\* A parser that has got so much of the stream holds what is behind the last image.
HoldsTheRest(p, total) == Base <= total /\ p.buffer = Rest(Base, total)

\* It knows the boundary, or what is announced unless that has come.
KnowsBoundary(p) ==
  /\ ~Known => p.boundary = <<>>
  /\ Known /\ p.checked => p.boundary = stream.boundary
  /\ Known /\ ~p.checked => p.boundary = stream.announced /\ given = <<>>

\* Its search has left nothing out: no start of an image, and no boundary behind one.
Searched(p) ==
  /\ p.imageStart < 0 => \A x \in (Base + 1)..(Base + p.search) : ~Begins(Magic, Sent, x)
  /\ p.imageStart >= 0 =>
       /\ Base + p.imageStart + 1 \in ImageStarts
       /\ ImageStarts \cap ((Base + 1)..(Base + p.imageStart)) = {}
       /\ Known => /\ p.checked
                   /\ \A x \in (Base + p.imageStart + Len(Magic) + 1)..(Base + p.search) :
                        ~Begins(stream.boundary, Sent, x)

ParserInv(p, total) == HoldsTheRest(p, total) /\ KnowsBoundary(p) /\ Searched(p)

ImagesInv ==
  /\ Sound => GivenInv
  /\ Sound /\ pc = "connected" /\ typed => ParserInv(parser, received)

-----------------------------------------------------------------------------
(* Streams.                                                                *)

\* What Framed says of the stream.
LEMMA StreamFacts ==
  ASSUME stream \in Streams
  PROVE  /\ Len(Sent) \in Nat /\ Count \in Nat /\ DOMAIN stream.images = 1..Count
         /\ \A k \in 1..Count :
              /\ From(k) \in 1..Len(Sent) /\ To(k) \in 1..Len(Sent)
              /\ stream.images[k] = <<From(k), To(k)>>
              /\ Begins(Magic, Sent, From(k)) /\ From(k) + Len(Magic) - 1 <= To(k)
         /\ \A k, l \in 1..Count : k < l => To(k) < From(l)
         /\ \A x \in 1..Len(Sent) : Begins(Magic, Sent, x) =>
              \E k \in 1..Count : From(k) <= x /\ x <= To(k) /\ (Known \/ x = From(k))
         /\ Known => Announced(stream)
         /\ Known => \A k \in 1..Count : \A x \in (From(k) + Len(Magic))..Len(Sent) :
              Begins(stream.boundary, Sent, x) =>
                x > To(k) /\ Begins(stream.boundary, Sent, To(k) + 1)
         /\ ~Known => \A k \in 1..Count : k + 1 \in 1..Count => From(k + 1) = To(k) + 1
<1>1. Framed(stream) /\ IsSequence(stream.images) /\ Len(Sent) \in Nat
  BY StreamAssumption, CamerasAssumption, CameraLengths DEF StreamAssumption, Sent
<1>2. Count \in Nat /\ DOMAIN stream.images = 1..Count
  BY <1>1, SequenceLength DEF Count
<1>3. \A k \in 1..Count :
        /\ From(k) \in 1..Len(Sent) /\ To(k) \in 1..Len(Sent)
        /\ stream.images[k] = <<From(k), To(k)>>
        /\ Begins(Magic, Sent, From(k)) /\ From(k) + Len(Magic) - 1 <= To(k)
  BY <1>1, <1>2 DEF Framed, Sent, From, To
<1>4. \A k, l \in 1..Count : k < l => To(k) < From(l)
  BY <1>1, <1>2 DEF Framed, Sent, From, To
<1>5. ASSUME NEW x \in 1..Len(Sent), Begins(Magic, Sent, x)
      PROVE  \E k \in 1..Count : From(k) <= x /\ x <= To(k) /\ (Known \/ x = From(k))
  <2>1. PICK k \in 1..Count : x \in From(k)..(IF Known THEN To(k) ELSE From(k))
    BY <1>1, <1>2, <1>5 DEF Framed, Sent, From, To, Known
  <2> QED
    BY <1>3, <2>1, MagicLength
<1>6. Known => Announced(stream)
  BY <1>1 DEF Framed, Known
<1>7. Known => \A k \in 1..Count : \A x \in (From(k) + Len(Magic))..Len(Sent) :
        Begins(stream.boundary, Sent, x) =>
          x > To(k) /\ Begins(stream.boundary, Sent, To(k) + 1)
  BY <1>1, <1>2 DEF Framed, Sent, From, To, Known
<1>8. ~Known => \A k \in 1..Count : k + 1 \in 1..Count => From(k + 1) = To(k) + 1
  BY <1>1, <1>2 DEF Framed, Sent, From, To, Known
<1> QED
  BY <1>1, <1>2, <1>3, <1>4, <1>5, <1>6, <1>7, <1>8

LEMMA StartsAndEnds ==
  ASSUME stream \in Streams
  PROVE  /\ ImageStarts = {From(k) : k \in 1..Count}
         /\ ImageEnds = {To(k) : k \in 1..Count}
BY StreamFacts DEF ImageStarts, ImageEnds, From, To

\* What MemFind finds in a buffer, told as places of the stream.
LEMMA FoundBegins ==
  ASSUME NEW base \in Nat, NEW total \in Nat, base <= total, total <= Len(Sent),
         Len(Sent) \in Nat, NEW what, Len(what) \in Nat, NEW from \in Nat, NEW i
  PROVE  i \in Found(Rest(base, total), from, what) <=>
           /\ i \in Nat /\ from <= i /\ base + i + Len(what) <= total
           /\ Begins(what, Sent, base + i + 1)
<1> DEFINE buffer == Rest(base, total)
<1>1. Len(buffer) = total - base /\ buffer = [j \in 1..(total - base) |-> base + j]
  BY DEF Rest
<1> HIDE DEF buffer
<1>2. ASSUME i \in Nat, from <= i, base + i + Len(what) <= total, NEW j \in 1..Len(what)
      PROVE  Symbol(buffer[i + j]) = Sent[base + i + 1 + j - 1]
  <2>1. i + j \in 1..(total - base)
    BY <1>2
  <2>2. buffer[i + j] = base + (i + j) /\ base + (i + j) # 0
    BY <1>1, <1>2, <2>1
  <2>3. base + (i + j) = base + i + 1 + j - 1
    BY <1>2
  <2> QED
    BY <2>2, <2>3 DEF Symbol, Sent
<1>3. i \in from..(Len(buffer) - Len(what)) <=>
        i \in Nat /\ from <= i /\ base + i + Len(what) <= total
  BY <1>1
<1>4. ASSUME i \in Nat, from <= i, base + i + Len(what) <= total
      PROVE  Begins(what, Sent, base + i + 1) <=>
               \A j \in 1..Len(what) : Symbol(buffer[i + j]) = what[j]
  <2>1. base + i + 1 + Len(what) - 1 <= Len(Sent)
    BY <1>4
  <2> QED
    BY <1>2, <1>4, <2>1 DEF Begins
<1>5. i \in Found(buffer, from, what) <=>
        /\ i \in from..(Len(buffer) - Len(what))
        /\ \A j \in 1..Len(what) : Symbol(buffer[i + j]) = what[j]
  BY DEF Found
<1> QED
  BY <1>3, <1>4, <1>5 DEF buffer

\* The search begins where an image has ended, or with the stream.
LEMMA BaseIsEnd ==
  ASSUME GivenInv
  PROVE  /\ given = <<>> => Base = 0
         /\ given # <<>> => /\ Len(given) \in 1..Len(given) /\ Base = given[Len(given)][2]
                            /\ Base \in ImageEnds
<1>1. /\ given \in Seq(Nat \X Nat) /\ Len(given) \in Nat
      /\ given # <<>> => Len(given) \in 1..Len(given)
  BY EmptySeq, LenProperties DEF GivenInv
<1> QED
  BY <1>1 DEF GivenInv, Base

LEMMA BaseIsNat ==
  ASSUME stream \in Streams, GivenInv
  PROVE  Base \in Nat
<1>1. CASE Base = 0
  BY <1>1
<1>2. CASE \E j \in 1..Count : Base = To(j)
  <2> PICK j \in 1..Count : Base = To(j)
    BY <1>2
  <2>1. To(j) \in 1..Len(Sent) /\ Len(Sent) \in Nat
    BY StreamFacts
  <2> QED
    BY <2>1
<1> QED
  BY <1>1, <1>2, BaseIsEnd, StartsAndEnds

\* The first thing that begins like an image behind an image is the next image.
LEMMA FirstStart ==
  ASSUME stream \in Streams, GivenInv, NEW x \in 1..Len(Sent), Base < x,
         Begins(Magic, Sent, x), \A y \in (Base + 1)..(x - 1) : ~Begins(Magic, Sent, y)
  PROVE  x \in ImageStarts /\ ImageStarts \cap ((Base + 1)..(x - 1)) = {}
<1>1. Base = 0 \/ \E j \in 1..Count : Base = To(j)
  BY BaseIsEnd, StartsAndEnds
<1>2. ImageStarts \cap ((Base + 1)..(x - 1)) = {}
  BY StreamFacts, StartsAndEnds
<1>3. PICK k \in 1..Count : From(k) <= x /\ x <= To(k) /\ (Known \/ x = From(k))
  BY StreamFacts
<1>4. From(k) \in 1..Len(Sent) /\ To(k) \in 1..Len(Sent) /\ Begins(Magic, Sent, From(k))
  BY StreamFacts
<1>5. x = From(k)
  <2>1. CASE Base < From(k)
    <3>1. Base \in Nat
      BY BaseIsNat
    <3> QED
      BY <1>3, <1>4, <2>1, <3>1
  <2>2. CASE ~(Base < From(k))
    <3>1. PICK j \in 1..Count : Base = To(j)
      BY <1>1, <1>4, <2>2
    <3>2. To(j) \in 1..Len(Sent) /\ From(j) \in 1..Len(Sent) /\ From(j) <= To(j)
      BY StreamFacts, MagicLength
    <3>3. j # k
      BY <1>3, <1>4, <3>1, <3>2
    <3>4. ~(j < k)
      BY <1>4, <2>2, <3>1, <3>2, StreamFacts
    <3>5. ~(k < j)
      BY <1>3, <1>4, <3>1, <3>2, StreamFacts
    <3>6. j \in Nat /\ k \in Nat
      BY StreamFacts
    <3> QED
      BY <3>3, <3>4, <3>5, <3>6
  <2> QED
    BY <2>1, <2>2
<1> QED
  BY <1>2, <1>5, StartsAndEnds

-----------------------------------------------------------------------------
(* The parts of the parser.                                                *)

LEMMA AppendedHolds ==
  ASSUME NEW n \in Nat, received \in Nat, Base \in Nat, IsParser(parser),
         ParserInv(parser, received)
  PROVE  ParserInv(Appended(n), received + n)
<1> DEFINE piece == [i \in 1..n |-> received + i]
           buffer == Rest(Base, received + n)
<1>1. piece \in Seq(Nat) /\ Len(piece) = n
  <2>1. piece \in [1..n -> Nat]
    OBVIOUS
  <2> QED
    BY <2>1, SeqDef, LenProperties
<1>2. Base <= received /\ parser.buffer = [i \in 1..(received - Base) |-> Base + i]
  BY DEF ParserInv, HoldsTheRest, Rest
<1>3. parser.buffer \in Seq(Nat) /\ Len(parser.buffer) = received - Base
  BY <1>2 DEF IsParser
<1>4. parser.buffer \o piece = buffer
  <2>1. /\ parser.buffer \o piece \in Seq(Nat)
        /\ Len(parser.buffer \o piece) = received + n - Base
        /\ \A i \in 1..(received + n - Base) :
             (parser.buffer \o piece)[i] =
               IF i <= received - Base THEN parser.buffer[i] ELSE piece[i - (received - Base)]
    <3>1. Len(parser.buffer) + Len(piece) = received + n - Base
      BY <1>1, <1>2, <1>3
    <3> HIDE DEF piece
    <3>2. /\ parser.buffer \o piece \in Seq(Nat)
          /\ Len(parser.buffer \o piece) = Len(parser.buffer) + Len(piece)
          /\ \A i \in 1..Len(parser.buffer) + Len(piece) :
               (parser.buffer \o piece)[i] =
                 IF i <= Len(parser.buffer) THEN parser.buffer[i] ELSE piece[i - Len(parser.buffer)]
      BY <1>1, <1>3, ConcatProperties
    <3> QED
      BY <1>3, <3>1, <3>2
  <2>2. ASSUME NEW i \in 1..(received + n - Base)
        PROVE  (IF i <= received - Base THEN parser.buffer[i] ELSE piece[i - (received - Base)])
                 = Base + i
    BY <1>2
  <2>3. received + n - Base \in Nat
    BY <1>2
  <2> HIDE DEF piece
  <2>4. DOMAIN (parser.buffer \o piece) = 1..(received + n - Base)
    BY <2>1, <2>3, LenProperties
  <2>5. \A i \in 1..(received + n - Base) : (parser.buffer \o piece)[i] = Base + i
    BY <2>1, <2>2
  <2>6. parser.buffer \o piece = [i \in 1..(received + n - Base) |-> (parser.buffer \o piece)[i]]
    BY <2>1, <2>4
  <2> QED
    BY <2>5, <2>6 DEF Rest
<1> HIDE DEF piece, buffer
<1>5. Appended(n) = [parser EXCEPT !.buffer = buffer]
  BY <1>4 DEF Appended, piece, IsParser
<1>6. /\ Appended(n).buffer = buffer /\ Appended(n).boundary = parser.boundary
      /\ Appended(n).checked = parser.checked /\ Appended(n).search = parser.search
      /\ Appended(n).imageStart = parser.imageStart
  BY <1>5 DEF IsParser
<1>7. Base <= received + n
  BY <1>2
<1> QED
  BY <1>6, <1>7 DEF ParserInv, HoldsTheRest, KnowsBoundary, Searched, buffer

\* What is announced has not come yet, if it has not been looked at.
NotYetAnnounced(p, total) ==
  Known /\ ~p.checked =>
    \A x \in 1..Len(Sent) : x + Len(stream.announced) - 1 <= total =>
      ~Begins(stream.announced, Sent, x)

\* What ParserInv says, part by part, of a buffer.
LEMMA BufferFacts ==
  ASSUME Base \in Nat, NEW total \in Nat, NEW p, IsParser(p), ParserInv(p, total)
  PROVE  /\ Base <= total /\ p.buffer = Rest(Base, total)
         /\ Len(p.buffer) = total - Base /\ p.search \in Nat /\ Base + p.search <= total
<1>1. Base <= total /\ p.buffer = Rest(Base, total)
  BY DEF ParserInv, HoldsTheRest
<1>2. Len(p.buffer) = total - Base
  BY <1>1 DEF Rest
<1> QED
  BY <1>1, <1>2 DEF IsParser

LEMMA FindStartHolds ==
  ASSUME stream \in Streams, GivenInv, NEW total \in 0..Len(Sent), NEW p, IsParser(p),
         ParserInv(p, total), NotYetAnnounced(p, total), NEW q \in FindStart(p)
  PROVE  ParserInv(q, total)
<1>1. Base \in Nat /\ total \in Nat /\ Len(Sent) \in Nat /\ total <= Len(Sent)
  BY BaseIsNat, StreamFacts
<1>2. /\ Base <= total /\ p.buffer = Rest(Base, total)
      /\ Len(p.buffer) = total - Base /\ p.search \in Nat
  BY <1>1, BufferFacts
<1>3. Len(Magic) \in Nat /\ Len(Magic) >= 1
  BY MagicLength
<1>4. ASSUME NEW i
      PROVE  i \in Found(p.buffer, p.search, Magic) <=>
               /\ i \in Nat /\ p.search <= i /\ Base + i + Len(Magic) <= total
               /\ Begins(Magic, Sent, Base + i + 1)
  BY <1>1, <1>2, <1>3, FoundBegins
<1>5. CASE q = p
  BY <1>5
<1>6. CASE /\ Len(p.buffer) - p.search >= Len(Magic)
           /\ p.imageStart < 0 /\ Found(p.buffer, p.search, Magic) = {}
           /\ q = [p EXCEPT !.search = Len(p.buffer) - Len(Magic) + 1]
  <2>1. /\ q.buffer = p.buffer /\ q.boundary = p.boundary /\ q.checked = p.checked
        /\ q.imageStart = p.imageStart /\ q.search = total - Base - Len(Magic) + 1
    BY <1>2, <1>6 DEF IsParser
  <2>2. ASSUME NEW x \in (Base + 1)..(Base + q.search) PROVE ~Begins(Magic, Sent, x)
    <3>1. CASE x <= Base + p.search
      <4>1. x \in (Base + 1)..(Base + p.search)
        BY <1>1, <1>2, <2>1, <3>1
      <4> QED
        BY <1>6, <4>1 DEF ParserInv, Searched
    <3>2. CASE x > Base + p.search
      <4>1. x - Base - 1 \in Nat /\ p.search <= x - Base - 1
            /\ Base + (x - Base - 1) + Len(Magic) <= total /\ Base + (x - Base - 1) + 1 = x
        BY <1>1, <1>2, <1>3, <2>1, <3>2
      <4> QED
        BY <1>4, <1>6, <4>1
    <3> QED
      BY <1>1, <1>2, <2>1, <3>1, <3>2
  <2>3. HoldsTheRest(q, total) /\ KnowsBoundary(q)
    BY <2>1 DEF ParserInv, HoldsTheRest, KnowsBoundary
  <2>4. q.imageStart < 0 /\ ~(q.imageStart >= 0)
    BY <1>6, <2>1 DEF IsParser
  <2>5. Searched(q)
    BY <2>2, <2>4 DEF Searched
  <2> QED
    BY <2>3, <2>5 DEF ParserInv
<1>7. CASE /\ p.imageStart < 0
           /\ \E i \in First(Found(p.buffer, p.search, Magic)) :
                q = [p EXCEPT !.imageStart = i, !.search = i + Len(Magic)]
  <2> PICK i \in First(Found(p.buffer, p.search, Magic)) :
         q = [p EXCEPT !.imageStart = i, !.search = i + Len(Magic)]
    BY <1>7
  <2> DEFINE x == Base + i + 1
  <2>1. /\ q.buffer = p.buffer /\ q.boundary = p.boundary /\ q.checked = p.checked
        /\ q.imageStart = i /\ q.search = i + Len(Magic)
    BY DEF IsParser
  <2>2. /\ i \in Nat /\ p.search <= i /\ Base + i + Len(Magic) <= total
        /\ Begins(Magic, Sent, x)
    BY <1>4 DEF First
  <2>3. ASSUME NEW y \in (Base + 1)..(x - 1) PROVE ~Begins(Magic, Sent, y)
    <3>1. CASE y <= Base + p.search
      <4>1. y \in (Base + 1)..(Base + p.search)
        BY <1>1, <1>2, <2>2, <3>1
      <4> QED
        BY <1>7, <4>1 DEF ParserInv, Searched
    <3>2. CASE y > Base + p.search
      <4>0. y \in Int /\ y <= Base + i
        BY <1>1, <2>2
      <4>1. y - Base - 1 \in Nat /\ p.search <= y - Base - 1 /\ ~(i <= y - Base - 1)
        BY <1>1, <1>2, <2>2, <3>2, <4>0
      <4>2. Base + (y - Base - 1) + Len(Magic) <= total /\ Base + (y - Base - 1) + 1 = y
        BY <1>1, <1>3, <2>2, <4>0
      <4> QED
        BY <1>4, <4>1, <4>2 DEF First
    <3> QED
      BY <1>1, <1>2, <2>2, <3>1, <3>2
  <2>4. x \in 1..Len(Sent) /\ Base < x
    BY <1>1, <1>3, <2>2
  <2> HIDE DEF x
  <2>5. x \in ImageStarts /\ ImageStarts \cap ((Base + 1)..(x - 1)) = {}
    BY <2>2, <2>3, <2>4, FirstStart
  <2>6. x - 1 = Base + i /\ x = Base + q.imageStart + 1
    BY <1>1, <2>1, <2>2 DEF x
  <2>7. ASSUME Known PROVE p.checked
    <3>1. PICK k \in 1..Count : x = From(k)
      BY <2>5, StartsAndEnds
    <3>2. PICK at \in 1..Len(Sent), from \in 0..Len(Sent) :
            /\ Begins(stream.announced, Sent, at)
            /\ \A l \in DOMAIN stream.images :
                 at + Len(stream.announced) <= stream.images[l][1] + Len(Magic)
      BY <2>7, StreamFacts DEF Announced, Sent
    <3>3. at + Len(stream.announced) <= x + Len(Magic)
      BY <3>1, <3>2, StreamFacts DEF From
    <3>4. Len(stream.announced) \in Nat
      BY CameraLengths, SequenceLength
    <3>5. at + Len(stream.announced) - 1 <= total
      BY <1>1, <1>3, <2>2, <2>6, <3>3, <3>4
    <3> QED
      BY <2>7, <3>2, <3>5 DEF NotYetAnnounced
  <2>8. \A y : y \notin (Base + q.imageStart + Len(Magic) + 1)..(Base + q.search)
    BY <1>1, <1>3, <2>1, <2>2
  <2>9. q.imageStart >= 0 /\ ~(q.imageStart < 0)
    BY <2>1, <2>2
  <2>10. HoldsTheRest(q, total) /\ KnowsBoundary(q)
    BY <2>1 DEF ParserInv, HoldsTheRest, KnowsBoundary
  <2>11. Searched(q)
    <3>1. ImageStarts \cap ((Base + 1)..(Base + q.imageStart)) = {}
      BY <2>1, <2>5, <2>6
    <3> QED
      BY <2>1, <2>5, <2>6, <2>7, <2>8, <2>9, <3>1 DEF Searched
  <2> QED
    BY <2>10, <2>11 DEF ParserInv
<1>8. CASE p.imageStart >= 0 \/ Len(p.buffer) - p.search < Len(Magic)
  BY <1>5, <1>8 DEF FindStart
<1>9. CASE ~(p.imageStart >= 0 \/ Len(p.buffer) - p.search < Len(Magic))
  <2>1. p.imageStart < 0 /\ Len(p.buffer) - p.search >= Len(Magic)
    BY <1>1, <1>2, <1>3, <1>9 DEF IsParser
  <2> DEFINE at == Found(p.buffer, p.search, Magic)
  <2>2. CASE at = {}
    BY <1>6, <1>9, <2>1, <2>2 DEF FindStart
  <2>3. CASE at # {}
    BY <1>7, <1>9, <2>1, <2>3 DEF FindStart
  <2> QED
    BY <2>2, <2>3
<1> QED
  BY <1>8, <1>9

\* What is at the places a part of the buffer holds.
Named(part) == [i \in DOMAIN part |-> Symbol(part[i])]

\* What is named by places in a buffer is a part of the stream.
LEMMA PartOfStream ==
  ASSUME stream \in Streams, NEW total \in 0..Len(Sent), NEW from \in Nat, NEW to \in Nat,
         from <= to, to <= total
  PROVE  Named(Between(Rest(0, total), from, to)) = SubSeq(Sent, from + 1, to)
<1> DEFINE buffer == Rest(0, total)
           part == Between(buffer, from, to)
           S == {Sent[i] : i \in DOMAIN Sent}
           whole == SubSeq(Sent, from + 1, to)
<1>0. buffer = [i \in 1..total |-> i]
  <2>1. total - 0 = total /\ \A i \in 1..total : 0 + i = i
    BY StreamFacts
  <2> QED
    BY <2>1 DEF Rest
<1>1. Sent \in Seq(S) /\ Len(Sent) \in Nat /\ DOMAIN Sent = 1..Len(Sent)
  <2>1. IsSequence(Sent)
    BY StreamAssumption DEF StreamAssumption, Sent
  <2> QED
    BY <2>1, SequenceLength DEF IsSequence
<1>2. buffer \in Seq(Nat) /\ Len(buffer) = total /\ total \in Nat
  <2>1. total \in Nat /\ buffer \in [1..total -> Nat]
    BY <1>0, <1>1
  <2> QED
    BY <2>1, SeqDef, LenProperties
<1>3. DOMAIN part = 1..(to - from)
  BY <1>2, BetweenIsPart
<1>4. \A i \in 1..(to - from) : from + i \in 1..total /\ from + i \in 1..Len(Sent)
  BY <1>1
<1>5. ASSUME NEW i \in 1..(to - from) PROVE part[i] = from + i
  <2>1. \A j \in (from + 1)..to : buffer[j] \in Nat
    BY <1>2
  <2>2. from + 1 \in Int /\ to \in Int /\ to - (from + 1) + 1 = to - from
    OBVIOUS
  <2>3. \A j \in 1..(to - (from + 1) + 1) :
          SubSeq(buffer, from + 1, to)[j] = buffer[from + 1 + j - 1]
    BY <2>1, <2>2, SubSeqProperties
  <2>4. part[i] = buffer[from + 1 + i - 1]
    BY <2>2, <2>3 DEF Between
  <2>5. from + 1 + i - 1 = from + i
    OBVIOUS
  <2> QED
    BY <1>0, <1>4, <2>4, <2>5
<1>6. /\ whole \in Seq(S) /\ Len(whole) = to - from
      /\ \A i \in 1..(to - from) : whole[i] = Sent[from + i]
  <2>1. \A j \in (from + 1)..to : Sent[j] \in S
    BY <1>1
  <2>2. from + 1 \in Int /\ to \in Int /\ to - (from + 1) + 1 = to - from
    OBVIOUS
  <2> HIDE DEF S
  <2>3. /\ SubSeq(Sent, from + 1, to) \in Seq(S)
        /\ Len(SubSeq(Sent, from + 1, to)) = IF from + 1 <= to THEN to - (from + 1) + 1 ELSE 0
        /\ \A j \in 1..(to - (from + 1) + 1) :
             SubSeq(Sent, from + 1, to)[j] = Sent[from + 1 + j - 1]
    BY <2>1, <2>2, SubSeqProperties
  <2>4. Len(whole) = to - from
    BY <2>3
  <2>5. \A j \in 1..(to - from) : from + 1 + j - 1 = from + j
    OBVIOUS
  <2> QED
    BY <2>2, <2>3, <2>4, <2>5
<1>7. \A i \in 1..(to - from) : Named(part)[i] = Sent[from + i]
  BY <1>3, <1>4, <1>5 DEF Named, Symbol, Sent
<1>8. DOMAIN whole = 1..(to - from) /\ whole = [i \in 1..(to - from) |-> whole[i]]
  <2> HIDE DEF S, whole
  <2>1. DOMAIN whole = 1..Len(whole)
    BY <1>6, LenProperties
  <2> QED
    BY <1>6, <2>1
<1>9. Named(part) = [i \in 1..(to - from) |-> Named(part)[i]]
  BY <1>3 DEF Named
<1> HIDE DEF S, whole
<1>10. Named(part) = whole
  BY <1>6, <1>7, <1>8, <1>9
<1> QED
  BY <1>10 DEF whole

\* The boundary is taken from where it is announced, and from nowhere else.
LEMMA BoundaryIsReal ==
  ASSUME stream \in Streams, NEW total \in 0..Len(Sent), Known,
         NEW buffer, buffer = Rest(0, total),
         NEW end \in First(Found(buffer, 0, stream.announced)),
         NEW from \in First({f \in 0..end :
                               \A i \in (f + 1)..end : Symbol(buffer[i]) \notin Space}),
         NEW part, part = Between(buffer, from, end + Len(stream.announced))
  PROVE  Named(part) = stream.boundary
<1> DEFINE n == Len(stream.announced)
<1>1. total \in Nat /\ Len(Sent) \in Nat /\ total <= Len(Sent) /\ n \in Nat
  BY StreamFacts, CameraLengths, SequenceLength
<1>2. PICK x \in 1..Len(Sent), start \in 0..Len(Sent) :
        /\ Begins(stream.announced, Sent, x)
        /\ \A y \in 1..(x - 1) : ~Begins(stream.announced, Sent, y)
        /\ start < x /\ \A i \in (start + 1)..(x - 1) : Sent[i] \notin Space
        /\ start = 0 \/ Sent[start] \in Space
        /\ stream.boundary = SubSeq(Sent, start + 1, x + n - 1)
  BY StreamFacts DEF Announced, Sent
<1>3. ASSUME NEW i
      PROVE  i \in Found(buffer, 0, stream.announced) <=>
               /\ i \in Nat /\ 0 <= i /\ 0 + i + n <= total
               /\ Begins(stream.announced, Sent, 0 + i + 1)
  <2>1. 0 \in Nat /\ 0 <= total
    BY <1>1
  <2> QED
    BY <1>1, <2>1, FoundBegins
<1>4. end \in Nat /\ end + n <= total /\ Begins(stream.announced, Sent, end + 1)
  BY <1>3 DEF First
<1> HIDE DEF n
<1>5. end = x - 1
  <2>1. x <= end + 1
    BY <1>1, <1>2, <1>4
  <2>2. x - 1 \in Nat /\ 0 + (x - 1) + n <= total /\ 0 + (x - 1) + 1 = x
    BY <1>1, <1>4, <2>1
  <2>3. x - 1 \in Found(buffer, 0, stream.announced)
    BY <1>2, <1>3, <2>2
  <2>4. end <= x - 1
    BY <2>3 DEF First
  <2> QED
    BY <1>1, <1>4, <2>1, <2>4
<1>6. \A i \in 1..end : Symbol(buffer[i]) = Sent[i]
  BY <1>1, <1>4 DEF Rest, Symbol, Sent
<1>7. from \in 0..end /\ \A i \in (from + 1)..end : Sent[i] \notin Space
  <2>1. from \in 0..end /\ \A i \in (from + 1)..end : Symbol(buffer[i]) \notin Space
    BY DEF First
  <2>2. \A i \in (from + 1)..end : i \in 1..end
    BY <1>4, <2>1
  <2> QED
    BY <1>6, <2>1, <2>2
<1>8. start \in 0..end /\ \A i \in (start + 1)..end : Sent[i] \notin Space
  BY <1>2, <1>4, <1>5
<1>9. from <= start
  <2>1. \A i \in (start + 1)..end : Symbol(buffer[i]) \notin Space
    <3>1. \A i \in (start + 1)..end : i \in 1..end
      BY <1>4, <1>8
    <3> QED
      BY <1>6, <1>8, <3>1
  <2> QED
    BY <1>8, <2>1 DEF First
<1>10. from = start
  <2>1. CASE from < start
    <3>1. start \in (from + 1)..end /\ start # 0
      BY <1>4, <1>7, <1>8, <2>1
    <3> QED
      BY <1>2, <1>7, <3>1
  <2> QED
    BY <1>4, <1>7, <1>8, <1>9, <2>1
<1>11. from \in Nat /\ end + n \in Nat /\ from <= end + n /\ x + n - 1 = end + n
  BY <1>1, <1>4, <1>5, <1>7
<1>12. Named(part) = SubSeq(Sent, from + 1, end + n)
  <2>1. part = Between(Rest(0, total), from, end + n)
    BY DEF n
  <2>2. Named(Between(Rest(0, total), from, end + n)) = SubSeq(Sent, from + 1, end + n)
    BY <1>4, <1>11, PartOfStream
  <2> QED
    BY <2>1, <2>2
<1> QED
  BY <1>2, <1>10, <1>11, <1>12

LEMMA CheckBoundaryHolds ==
  ASSUME stream \in Streams, GivenInv, NEW total \in 0..Len(Sent), NEW p, IsParser(p),
         ParserInv(p, total), NEW q \in CheckBoundary(p)
  PROVE  ParserInv(q, total) /\ NotYetAnnounced(q, total)
<1> DEFINE at == Found(p.buffer, 0, p.boundary)
           Begin(end) == First({from \in 0..end :
                                  \A i \in (from + 1)..end : Symbol(p.buffer[i]) \notin Space})
           Real(from, end) == Between(p.buffer, from, end + Len(p.boundary))
           Checked(real) == [p EXCEPT !.checked = TRUE,
                                      !.boundary = [i \in DOMAIN real |-> Symbol(real[i])]]
<1>1. total \in Nat /\ Len(Sent) \in Nat /\ total <= Len(Sent)
  BY StreamFacts
<1>2. Known /\ ~p.checked => p.boundary = stream.announced /\ given = <<>>
  BY DEF ParserInv, KnowsBoundary
<1>3. Known /\ ~p.checked => p.buffer = Rest(0, total)
  <2>1. ASSUME Known, ~p.checked PROVE p.buffer = Rest(0, total)
    <3>1. Base = 0
      BY <1>2, <2>1 DEF Base
    <3>2. p.buffer = Rest(Base, total)
      BY DEF ParserInv, HoldsTheRest
    <3> QED
      BY <3>1, <3>2
  <2> QED
    BY <2>1
<1>4. CASE q = p /\ (p.boundary = <<>> \/ p.checked)
  BY <1>2, <1>4 DEF NotYetAnnounced, Known
<1>5. CASE q = p /\ at = {}
  <2>1. ASSUME Known, ~p.checked, NEW x \in 1..Len(Sent), x + Len(stream.announced) - 1 <= total
        PROVE  ~Begins(stream.announced, Sent, x)
    <3>1. Len(stream.announced) \in Nat
      BY CameraLengths, SequenceLength
    <3>2. p.buffer = Rest(0, total) /\ 0 \in Nat /\ 0 <= total
      BY <1>1, <1>3, <2>1
    <3>3. x - 1 \in Nat /\ 0 <= x - 1 /\ 0 + (x - 1) + Len(stream.announced) <= total
          /\ 0 + (x - 1) + 1 = x
      BY <1>1, <2>1, <3>1
    <3>4. x - 1 \notin Found(p.buffer, 0, stream.announced)
      BY <1>2, <1>5, <2>1
    <3>5. ASSUME NEW i
          PROVE  i \in Found(p.buffer, 0, stream.announced) <=>
                   /\ i \in Nat /\ 0 <= i /\ 0 + i + Len(stream.announced) <= total
                   /\ Begins(stream.announced, Sent, 0 + i + 1)
      BY <1>1, <3>1, <3>2, FoundBegins
    <3> QED
      BY <3>3, <3>4, <3>5
  <2> QED
    BY <1>5, <2>1 DEF NotYetAnnounced
<1>6. CASE /\ p.boundary # <<>> /\ ~p.checked
           /\ \E end \in First(at) : \E from \in Begin(end) : q = Checked(Real(from, end))
  <2>1. Known /\ p.boundary = stream.announced /\ p.buffer = Rest(0, total)
    BY <1>2, <1>3, <1>6 DEF ParserInv, KnowsBoundary
  <2> PICK end \in First(at) : \E from \in Begin(end) : q = Checked(Real(from, end))
    BY <1>6
  <2> PICK from \in Begin(end) : q = Checked(Real(from, end))
    OBVIOUS
  <2> DEFINE found == Between(p.buffer, from, end + Len(stream.announced))
  <2>2. q = [p EXCEPT !.checked = TRUE, !.boundary = Named(found)]
    BY <2>1 DEF Named
  <2>3. Named(found) = stream.boundary
    <3>1. /\ end \in First(Found(p.buffer, 0, stream.announced))
          /\ from \in First({f \in 0..end :
                            \A i \in (f + 1)..end : Symbol(p.buffer[i]) \notin Space})
      BY <2>1
    <3>2. found = Between(p.buffer, from, end + Len(stream.announced))
      OBVIOUS
    <3> HIDE DEF at, Begin, Real, Checked, found
    <3> QED
      BY <2>1, <3>1, <3>2, BoundaryIsReal
  <2> HIDE DEF at, Begin, Real, Checked, found
  <2>4. /\ q.buffer = p.buffer /\ q.imageStart = p.imageStart /\ q.search = p.search
        /\ q.checked = TRUE /\ q.boundary = stream.boundary
    BY <2>2, <2>3 DEF IsParser
  <2>5. HoldsTheRest(q, total) /\ KnowsBoundary(q)
    BY <2>1, <2>4 DEF ParserInv, HoldsTheRest, KnowsBoundary
  <2>6. Searched(q)
    BY <1>6, <2>1, <2>4 DEF ParserInv, Searched
  <2> QED
    BY <2>4, <2>5, <2>6 DEF ParserInv, NotYetAnnounced
<1>7. CASE p.boundary = <<>> \/ p.checked \/ at = {}
  <2>1. q = p
    BY <1>7 DEF CheckBoundary
  <2> QED
    BY <1>4, <1>5, <1>7, <2>1
<1>8. CASE ~(p.boundary = <<>> \/ p.checked \/ at = {})
  <2>1. \E end \in First(at) : \E from \in Begin(end) : q = Checked(Real(from, end))
    BY <1>8 DEF CheckBoundary
  <2> QED
    BY <1>6, <1>8, <2>1
<1> QED
  BY <1>7, <1>8

LEMMA BoundaryLength ==
  ASSUME stream \in Streams, Known
  PROVE  Len(stream.boundary) \in Nat /\ Len(stream.boundary) >= 1 /\ stream.boundary # <<>>
<1> DEFINE S == {Sent[i] : i \in DOMAIN Sent}
           n == Len(stream.announced)
<1>1. Sent \in Seq(S) /\ Len(Sent) \in Nat /\ DOMAIN Sent = 1..Len(Sent)
  <2>1. IsSequence(Sent)
    BY StreamAssumption DEF StreamAssumption, Sent
  <2> QED
    BY <2>1, SequenceLength DEF IsSequence
<1>2. n \in Nat /\ n >= 1
  BY CameraLengths, SequenceLength DEF Known
<1>3. PICK x \in 1..Len(Sent), start \in 0..Len(Sent) :
        /\ Begins(stream.announced, Sent, x) /\ start < x
        /\ stream.boundary = SubSeq(Sent, start + 1, x + n - 1)
  BY StreamFacts DEF Announced, Sent
<1>4. x + n - 1 <= Len(Sent)
  BY <1>3 DEF Begins
<1> HIDE DEF n
<1>5. start + 1 \in Int /\ x + n - 1 \in Int /\ start + 1 <= x + n - 1
      /\ x + n - 1 - (start + 1) + 1 >= 1
  BY <1>1, <1>2, <1>3
<1>6. \A i \in (start + 1)..(x + n - 1) : Sent[i] \in S
  BY <1>1, <1>2, <1>3, <1>4
<1> HIDE DEF S
<1>7. stream.boundary \in Seq(S) /\ Len(stream.boundary) >= 1
  <2> DEFINE from == start + 1
             to == x + n - 1
  <2>1. from \in Int /\ to \in Int /\ from <= to /\ \A i \in from..to : Sent[i] \in S
    BY <1>5, <1>6
  <2>3. stream.boundary = SubSeq(Sent, from, to) /\ to - from + 1 >= 1
    BY <1>3, <1>5
  <2> HIDE DEF from, to
  <2>2. SubSeq(Sent, from, to) \in Seq(S) /\ Len(SubSeq(Sent, from, to)) = to - from + 1
    BY <2>1, SubSeqProperties
  <2> QED
    BY <2>2, <2>3
<1> QED
  BY <1>7, EmptySeq, LenProperties

\* What ends the image that is looked at.
Ending == IF Known THEN stream.boundary ELSE Magic

LEMMA EndFacts ==
  ASSUME stream \in Streams, GivenInv, NEW total \in 0..Len(Sent), NEW p, IsParser(p),
         ParserInv(p, total), p.imageStart >= 0
  PROVE  /\ Len(Ending) \in Nat /\ Len(Ending) >= 1
         /\ Known => p.checked /\ p.boundary = stream.boundary /\ p.boundary # <<>>
         /\ ~Known => p.boundary = <<>>
         /\ \A i : i \in Ends(p) <=>
              /\ i \in Nat /\ p.search <= i /\ Base + i + Len(Ending) <= total
              /\ Begins(Ending, Sent, Base + i + 1)
<1>1. Base \in Nat /\ total \in Nat /\ Len(Sent) \in Nat /\ total <= Len(Sent)
  BY BaseIsNat, StreamFacts
<1>2. /\ Base <= total /\ p.buffer = Rest(Base, total)
      /\ p.search \in Nat
  BY <1>1, BufferFacts
<1>3. Len(Ending) \in Nat /\ Len(Ending) >= 1
  BY MagicLength, BoundaryLength DEF Ending
<1>4. Known => p.checked /\ p.boundary = stream.boundary /\ p.boundary # <<>>
  BY BoundaryLength DEF ParserInv, KnowsBoundary, Searched
<1>5. ~Known => p.boundary = <<>>
  BY DEF ParserInv, KnowsBoundary
<1>6. Ends(p) = Found(p.buffer, p.search, Ending)
  BY <1>4, <1>5 DEF Ends, Ending
<1>7. ASSUME NEW i
      PROVE  i \in Found(p.buffer, p.search, Ending) <=>
               /\ i \in Nat /\ p.search <= i /\ Base + i + Len(Ending) <= total
               /\ Begins(Ending, Sent, Base + i + 1)
  BY <1>1, <1>2, <1>3, FoundBegins
<1> QED
  BY <1>3, <1>4, <1>5, <1>6, <1>7

LEMMA SearchOnHolds ==
  ASSUME stream \in Streams, GivenInv, NEW total \in 0..Len(Sent), NEW p, IsParser(p),
         ParserInv(p, total), LooksForEnd(p), Ends(p) = {}
  PROVE  ParserInv(SearchOn(p), total)
<1> DEFINE q == SearchOn(p)
<1>0. p.imageStart >= 0
  BY DEF LooksForEnd
<1>1. Base \in Nat /\ total \in Nat
  BY BaseIsNat, StreamFacts
<1>2. Base <= total /\ Len(p.buffer) = total - Base /\ p.search \in Nat
  BY <1>1, BufferFacts
<1>3. /\ q.buffer = p.buffer /\ q.boundary = p.boundary /\ q.checked = p.checked
      /\ q.imageStart = p.imageStart
      /\ p.boundary # <<>> => q.search = Len(p.buffer) - (Len(p.boundary) - 1)
  BY DEF SearchOn, IsParser
<1> HIDE DEF q
<1>4. ASSUME Known, NEW x \in (Base + p.imageStart + Len(Magic) + 1)..(Base + q.search)
      PROVE  ~Begins(stream.boundary, Sent, x)
  <2>1. /\ Len(stream.boundary) \in Nat /\ p.boundary = stream.boundary
        /\ p.boundary # <<>> /\ Ending = stream.boundary
    BY <1>0, <1>4, EndFacts, BoundaryLength DEF Ending
  <2>2. q.search = total - Base - Len(stream.boundary) + 1
    <3>1. q.search = Len(p.buffer) - (Len(stream.boundary) - 1)
      BY <1>3, <2>1
    <3> DEFINE b == Len(stream.boundary)
               l == Len(p.buffer)
    <3>2. q.search = l - (b - 1) /\ l = total - Base /\ b \in Nat
      BY <1>2, <2>1, <3>1
    <3> HIDE DEF b, l
    <3>3. q.search = total - Base - b + 1
      BY <1>1, <3>2
    <3> QED
      BY <3>3 DEF b
  <2>3. p.imageStart \in Nat /\ Len(Magic) \in Nat
    BY <1>0, MagicLength DEF IsParser
  <2>4. x \in Int /\ Base + p.imageStart + Len(Magic) + 1 <= x /\ x <= Base + q.search
    BY <1>1, <1>2, <2>1, <2>2, <2>3
  <2>5. CASE x <= Base + p.search
    <3>1. x \in (Base + p.imageStart + Len(Magic) + 1)..(Base + p.search)
      BY <1>1, <1>2, <2>3, <2>4, <2>5
    <3> QED
      BY <1>0, <1>4, <3>1 DEF ParserInv, Searched
  <2>6. CASE x > Base + p.search
    <3>0. Base + (x - Base - 1) + 1 = x
      BY <1>1, <2>4
    <3>1. x - Base - 1 \in Nat /\ p.search <= x - Base - 1
      BY <1>1, <1>2, <2>4, <2>6
    <3> DEFINE b == Len(stream.boundary)
    <3>2. b \in Nat /\ x <= Base + (total - Base - b + 1)
      BY <2>1, <2>2, <2>4
    <3> HIDE DEF b
    <3>3. Base + (x - Base - 1) + b <= total
      BY <1>1, <2>4, <3>2
    <3>4. Base + (x - Base - 1) + Len(stream.boundary) <= total
      BY <3>3 DEF b
    <3>5. x - Base - 1 \notin Ends(p)
      OBVIOUS
    <3> QED
      BY <1>0, <2>1, <3>0, <3>1, <3>4, <3>5, EndFacts
  <2> QED
    BY <1>1, <1>2, <2>4, <2>5, <2>6
<1>5. HoldsTheRest(q, total) /\ KnowsBoundary(q)
  BY <1>3 DEF ParserInv, HoldsTheRest, KnowsBoundary
<1>6. Searched(q)
  <2>1. q.imageStart >= 0 /\ ~(q.imageStart < 0)
    BY <1>0, <1>3 DEF IsParser
  <2> QED
    BY <1>0, <1>3, <1>4, <2>1 DEF ParserInv, Searched
<1> QED
  BY <1>5, <1>6 DEF ParserInv, q

\* The images of the stream, one behind the other.
LEMMA ImageOrder ==
  ASSUME stream \in Streams, NEW k \in 1..Count, NEW l \in 1..Count
  PROVE  /\ k \in Nat /\ l \in Nat /\ From(k) \in Nat /\ To(k) \in Nat /\ From(k) <= To(k)
         /\ From(k) >= 1
         /\ k < l => To(k) < From(l)
         /\ From(l) > From(k) => k < l
         /\ From(l) > To(k) => k < l
<1>1. /\ Count \in Nat /\ Len(Sent) \in Nat
      /\ From(k) \in 1..Len(Sent) /\ To(k) \in 1..Len(Sent) /\ From(k) + Len(Magic) - 1 <= To(k)
      /\ From(l) \in 1..Len(Sent) /\ To(l) \in 1..Len(Sent) /\ From(l) + Len(Magic) - 1 <= To(l)
  BY StreamFacts
<1>2. (k < l => To(k) < From(l)) /\ (l < k => To(l) < From(k))
  BY StreamFacts
<1>3. From(k) <= To(k) /\ From(l) <= To(l)
  BY <1>1, MagicLength
<1>4. k < l \/ k = l \/ l < k
  BY <1>1
<1> QED
  BY <1>1, <1>2, <1>3, <1>4

LEMMA BehindStart ==
  ASSUME NEW base \in Nat, NEW start \in Nat, NEW m \in Nat, NEW to \in Nat,
         base + start + 1 + m - 1 <= to
  PROVE  /\ base + start + m <= to /\ base + start + m + 1 <= to + 1
         /\ \A search \in Nat : to + 1 <= base + search =>
              to + 1 \in (base + start + m + 1)..(base + search)
         /\ \A search, end \in Nat : start + m <= search /\ search <= end =>
              base + start + 1 + m <= base + end + 1
OBVIOUS

\* What is cut out of the buffer is an image, and the first that is still in it.
LEMMA ImageFound ==
  ASSUME stream \in Streams, GivenInv, NEW total \in 0..Len(Sent), NEW p, IsParser(p),
         ParserInv(p, total), LooksForEnd(p), NEW end \in First(Ends(p))
  PROVE  /\ end \in Nat /\ p.imageStart \in Nat /\ p.imageStart + 1 <= end
         /\ Base + end <= total
         /\ p.buffer[p.imageStart + 1] = Base + p.imageStart + 1 /\ p.buffer[end] = Base + end
         /\ Base + end \in ImageEnds
         /\ \E k \in 1..Count :
              /\ Base + p.imageStart + 1 = From(k)
              /\ Known => Base + end = To(k)
<1>0. p.imageStart >= 0
  BY DEF LooksForEnd
<1>1. Base \in Nat /\ total \in Nat /\ Len(Sent) \in Nat /\ total <= Len(Sent)
  BY BaseIsNat, StreamFacts
<1>2. /\ Base <= total /\ p.buffer = Rest(Base, total)
      /\ Len(p.buffer) = total - Base /\ p.search \in Nat /\ Base + p.search <= total
  BY <1>1, BufferFacts
<1>3. /\ p.imageStart \in Nat /\ Len(Magic) \in Nat /\ Len(Magic) >= 1
      /\ p.imageStart + Len(Magic) <= p.search
  BY <1>0, MagicLength DEF IsParser
<1>4. /\ Len(Ending) \in Nat /\ Len(Ending) >= 1
      /\ end \in Nat /\ p.search <= end /\ Base + end + Len(Ending) <= total
      /\ Begins(Ending, Sent, Base + end + 1)
  BY <1>0, EndFacts DEF First
<1>5. Base + end <= total /\ p.imageStart + 1 <= end /\ Base + end + 1 \in 1..Len(Sent)
  <2>1. p.imageStart + 1 <= end
    BY <1>2, <1>3, <1>4
  <2>2. Base + end + 1 <= total
    BY <1>1, <1>4
  <2> QED
    BY <1>1, <1>4, <2>1, <2>2
<1>6. p.buffer[p.imageStart + 1] = Base + p.imageStart + 1 /\ p.buffer[end] = Base + end
  <2>1. p.imageStart + 1 \in 1..(total - Base) /\ end \in 1..(total - Base)
    BY <1>1, <1>3, <1>5, <1>4
  <2> QED
    BY <1>1, <1>2, <1>3, <2>1 DEF Rest
<1>7. PICK k \in 1..Count : Base + p.imageStart + 1 = From(k)
  BY <1>0, StartsAndEnds DEF ParserInv, Searched
<1>8. From(k) \in Nat /\ To(k) \in Nat /\ From(k) + Len(Magic) - 1 <= To(k) /\ To(k) <= Len(Sent)
  <2>1. From(k) \in 1..Len(Sent) /\ To(k) \in 1..Len(Sent) /\ From(k) + Len(Magic) - 1 <= To(k)
    BY StreamFacts
  <2> QED
    BY <1>1, <2>1
<1>9. ASSUME Known PROVE Base + end = To(k)
  <2>1. Ending = stream.boundary
    BY <1>9 DEF Ending
  <2>2. Base + end + 1 \in (From(k) + Len(Magic))..Len(Sent)
    <3>1. Base + p.imageStart + 1 + Len(Magic) - 1 <= To(k)
      BY <1>7, <1>8
    <3>2. From(k) + Len(Magic) <= Base + end + 1
      BY <1>1, <1>2, <1>3, <1>4, <1>7, <1>8, <3>1, BehindStart
    <3> QED
      BY <1>3, <1>5, <1>8, <3>2
  <2>3. Base + end + 1 > To(k) /\ Begins(stream.boundary, Sent, To(k) + 1)
    BY <1>4, <1>9, <2>1, <2>2, StreamFacts
  <2>4. ASSUME Base + end > To(k) PROVE FALSE
    <3> DEFINE i == To(k) - Base
    <3>0. Base <= To(k)
      <4>1. Base < From(k)
        BY <1>1, <1>3, <1>7
      <4> QED
        BY <1>1, <1>3, <1>8, <4>1
    <3>1. i \in Nat /\ Base + i + 1 = To(k) + 1 /\ i < end
      BY <1>1, <1>4, <1>8, <2>4, <3>0
    <3>2. Base + i + Len(Ending) <= total
      BY <1>1, <1>4, <3>1
    <3> HIDE DEF i
    <3>3. CASE p.search <= i
      <4>1. i \in Ends(p)
        BY <1>0, <2>1, <2>3, <3>1, <3>2, <3>3, EndFacts
      <4>2. end <= i
        BY <4>1 DEF First
      <4> QED
        BY <1>4, <3>1, <4>2
    <3>4. CASE i < p.search
      <4>1. To(k) + 1 \in (Base + p.imageStart + Len(Magic) + 1)..(Base + p.search)
        <5>1. To(k) + 1 <= Base + p.search
          BY <1>1, <1>2, <1>8, <3>1, <3>4
        <5>2. Base + p.imageStart + 1 + Len(Magic) - 1 <= To(k)
          BY <1>7, <1>8
        <5> QED
          BY <1>1, <1>2, <1>3, <1>8, <5>1, <5>2, BehindStart
      <4> QED
        BY <1>0, <1>9, <2>3, <4>1 DEF ParserInv, Searched
    <3> QED
      BY <1>2, <3>1, <3>3, <3>4
  <2> QED
    BY <1>1, <1>4, <1>8, <2>3, <2>4
<1>10. ASSUME ~Known PROVE Base + end \in ImageEnds
  <2>1. PICK l \in 1..Count : Base + end + 1 = From(l)
    BY <1>4, <1>5, <1>10, StreamFacts DEF Ending
  <2>2. k < l /\ k \in Nat /\ l \in Nat /\ Count \in Nat
    <3>1. From(l) > From(k)
      BY <1>1, <1>4, <1>5, <1>3, <1>7, <2>1
    <3> QED
      BY <3>1, ImageOrder, StreamFacts
  <2>3. l - 1 \in 1..Count /\ (l - 1) + 1 = l
    BY <2>2
  <2>4. From(l) = To(l - 1) + 1 /\ To(l - 1) \in Nat
    BY <1>10, <2>3, StreamFacts, ImageOrder
  <2>5. Base + end = To(l - 1)
    BY <1>1, <1>4, <2>1, <2>4
  <2> QED
    BY <2>3, <2>5, StartsAndEnds
<1>11. Base + end \in ImageEnds
  BY <1>9, <1>10, StartsAndEnds
<1> QED
  BY <1>3, <1>4, <1>5, <1>6, <1>7, <1>9, <1>11

\* The first image behind those that were given is the next, if it is known which they are.
LEMMA NextImage ==
  ASSUME stream \in Streams, GivenInv, Known, NEW k \in 1..Count, Base < From(k),
         ImageStarts \cap ((Base + 1)..(From(k) - 1)) = {}
  PROVE  k = Len(given) + 1
<1> DEFINE m == Len(given)
<1>1. /\ m \in Nat /\ Count \in Nat /\ m <= Count /\ k \in Nat /\ 1 <= k /\ k <= Count
      /\ Base \in Nat /\ From(k) \in Nat
  <2>1. m \in Nat /\ m <= Count
    BY LenProperties DEF GivenInv
  <2>2. Count \in Nat /\ From(k) \in Nat
    BY StreamFacts, ImageOrder
  <2> QED
    BY <2>1, <2>2, BaseIsNat
<1>2. m < k
  <2>1. CASE m = 0
    BY <1>1, <2>1
  <2>2. CASE m # 0
    <3>1. m \in 1..Count /\ given # <<>> /\ m \in 1..Len(given)
      BY <1>1, <2>2
    <3>2. Base = To(m)
      BY <3>1 DEF Base, GivenInv, To
    <3> HIDE DEF m
    <3> QED
      BY <3>1, <3>2, ImageOrder
  <2> QED
    BY <2>1, <2>2
<1>3. ASSUME m + 1 < k PROVE FALSE
  <2> DEFINE n == m + 1
  <2>1. n \in 1..Count /\ n < k
    BY <1>1, <1>3
  <2>2. Base < From(n)
    <3>1. CASE m = 0
      <4>1. Base = 0
        BY <3>1, EmptySeq, BaseIsEnd DEF GivenInv
      <4> HIDE DEF n
      <4> QED
        BY <2>1, <4>1, ImageOrder
    <3>2. CASE m # 0
      <4>1. m \in 1..Count /\ given # <<>> /\ m \in 1..Len(given) /\ m < n
        BY <1>1, <3>2
      <4>2. Base = To(m)
        BY <4>1 DEF Base, GivenInv, To
      <4> HIDE DEF m, n
      <4> QED
        BY <2>1, <4>1, <4>2, ImageOrder
    <3> QED
      BY <3>1, <3>2
  <2> HIDE DEF n
  <2>3. From(n) < From(k) /\ From(n) \in Nat
    BY <2>1, ImageOrder
  <2>4. From(n) \in (Base + 1)..(From(k) - 1)
    BY <1>1, <2>2, <2>3
  <2>5. From(n) \in ImageStarts
    BY <2>1, StartsAndEnds
  <2> QED
    BY <2>4, <2>5
<1> QED
  BY <1>1, <1>2, <1>3

\* Another image is given.
LEMMA GivenAppended ==
  ASSUME stream \in Streams, stream' = stream, GivenInv,
         NEW s \in Nat, NEW e \in Nat, given' = Append(given, <<s, e>>),
         s \in ImageStarts, e \in ImageEnds, ImageStarts \cap ((Base + 1)..(s - 1)) = {},
         Known => Len(given) + 1 <= Count /\ <<s, e>> = stream.images[Len(given) + 1]
  PROVE  GivenInv' /\ Base' = e /\ given' # <<>>
<1> DEFINE m == Len(given)
<1>1. m \in Nat /\ given \in Seq(Nat \X Nat)
  BY LenProperties DEF GivenInv
<1>2. /\ given' \in Seq(Nat \X Nat) /\ given' # <<>> /\ Len(given') = m + 1
      /\ \A i \in 1..m : given'[i] = given[i]
      /\ given'[m + 1] = <<s, e>>
  BY <1>1, AppendProperties
<1>3. ImageStarts' = ImageStarts /\ ImageEnds' = ImageEnds /\ (Known' <=> Known) /\ Count' = Count
  BY DEF ImageStarts, ImageEnds, Known, Count
<1>4. Base' = e
  BY <1>1, <1>2 DEF Base
<1>5. (m = 0 => Base = 0) /\ (m # 0 => Base = given'[m][2])
  <2>1. CASE m = 0
    BY <1>1, <2>1, EmptySeq, BaseIsEnd
  <2>2. CASE m # 0
    <3>1. given # <<>> /\ m \in 1..m
      BY <1>1, <2>2
    <3>2. Base = given[m][2]
      BY <3>1, BaseIsEnd
    <3> QED
      BY <1>2, <3>1, <3>2
  <2> QED
    BY <2>1, <2>2
<1> HIDE DEF m
<1>6. ASSUME NEW k \in 1..(m + 1)
      PROVE  /\ given'[k][1] \in ImageStarts /\ given'[k][2] \in ImageEnds
             /\ ImageStarts \cap
                  ((IF k = 1 THEN 1 ELSE given'[k - 1][2] + 1)..(given'[k][1] - 1)) = {}
  <2>1. CASE k = m + 1
    <3>1. given'[k] = <<s, e>>
      BY <1>2, <2>1
    <3>2. (IF k = 1 THEN 1 ELSE given'[k - 1][2] + 1) = Base + 1
      <4>1. CASE k = 1
        BY <1>1, <1>5, <2>1, <4>1
      <4>2. CASE k # 1
        <5>1. k - 1 = m /\ m # 0
          BY <1>1, <2>1, <4>2
        <5> QED
          BY <1>5, <4>2, <5>1
      <4> QED
        BY <4>1, <4>2
    <3>3. given'[k][1] = s /\ given'[k][2] = e
      <4>1. <<s, e>>[1] = s /\ <<s, e>>[2] = e
        OBVIOUS
      <4> QED
        BY <3>1, <4>1, Zenon
    <3> QED
      BY <3>2, <3>3
  <2>2. CASE k # m + 1
    <3>1. k \in 1..m /\ (k # 1 => k - 1 \in 1..m)
      BY <1>1, <2>2
    <3>2. given'[k] = given[k] /\ (k # 1 => given'[k - 1] = given[k - 1])
      BY <1>2, <3>1
    <3> QED
      BY <3>1, <3>2 DEF GivenInv, m
  <2> QED
    BY <2>1, <2>2
<1>7. ASSUME Known
      PROVE  Len(given') <= Count /\ \A k \in 1..(m + 1) : given'[k] = stream.images[k]
  <2>1. m + 1 <= Count /\ given'[m + 1] = stream.images[m + 1]
    BY <1>2, <1>7 DEF m
  <2>2. \A k \in 1..m : given'[k] = stream.images[k]
    BY <1>2, <1>7 DEF GivenInv, m
  <2>3. \A k \in 1..(m + 1) : k \in 1..m \/ k = m + 1
    BY <1>1
  <2> QED
    BY <1>2, <2>1, <2>2, <2>3
<1> QED
  BY <1>2, <1>3, <1>4, <1>6, <1>7 DEF GivenInv

LEMMA RestIsLeft ==
  ASSUME NEW base \in Nat, NEW total \in Nat, NEW end \in Nat, base + end <= total
  PROVE  Between(Rest(base, total), end, total - base) = Rest(base + end, total)
<1> DEFINE buffer == Rest(base, total)
           n == total - base
           rest == Between(buffer, end, n)
<1>1. n \in Nat /\ end <= n /\ total - (base + end) = n - end /\ n - end \in Nat
  OBVIOUS
<1>2. buffer \in [1..n -> Nat] /\ \A i \in 1..n : buffer[i] = base + i
  BY DEF Rest
<1> HIDE DEF buffer, n
<1>3. buffer \in Seq(Nat) /\ Len(buffer) = n
  BY <1>1, <1>2, SeqDef, LenProperties
<1>4. DOMAIN rest = 1..(n - end)
  BY <1>1, <1>3, BetweenIsPart
<1>5. ASSUME NEW i \in 1..(n - end) PROVE rest[i] = base + end + i
  <2>1. \A j \in (end + 1)..n : buffer[j] \in Nat
    BY <1>1, <1>2
  <2>2. end + 1 \in Int /\ n \in Int /\ n - (end + 1) + 1 = n - end
    BY <1>1
  <2>3. \A j \in 1..(n - (end + 1) + 1) : SubSeq(buffer, end + 1, n)[j] = buffer[end + 1 + j - 1]
    BY <2>1, <2>2, SubSeqProperties
  <2>4. rest[i] = buffer[end + 1 + i - 1]
    BY <2>2, <2>3 DEF Between
  <2>5. end + 1 + i - 1 = end + i /\ end + i \in 1..n /\ base + (end + i) = base + end + i
    BY <1>1
  <2> QED
    BY <1>2, <2>4, <2>5
<1>6. rest = [i \in 1..(n - end) |-> rest[i]]
  <2>1. rest \in Seq(Nat)
    BY <1>1, <1>3, BetweenIsPart
  <2> HIDE DEF rest
  <2> QED
    BY <1>4, <2>1
<1> HIDE DEF rest
<1>7. rest = [i \in 1..(total - (base + end)) |-> base + end + i]
  BY <1>1, <1>5, <1>6
<1> QED
  BY <1>7 DEF Rest, rest, buffer, n

\* After an image was given with no error and no damage, the parser begins anew behind it.
LEMMA GiveImageHolds ==
  ASSUME stream \in Streams, stream' = stream, GivenInv, NEW total \in 0..Len(Sent), NEW p,
         IsParser(p), ParserInv(p, total), LooksForEnd(p), GiveImage(p), ~failed', ~garbled'
  PROVE  /\ GivenInv' /\ given' # <<>>
         /\ Base' \in Nat /\ Base' <= total /\ parser'.buffer = Rest(Base', total)
         /\ parser'.imageStart = -1 /\ parser'.search = 0
         /\ ~Known => parser'.boundary = <<>>
         /\ Known => parser'.checked /\ parser'.boundary = stream.boundary
<1>1. Base \in Nat /\ total \in Nat
  BY BaseIsNat, StreamFacts
<1>2. /\ Base <= total /\ p.buffer = Rest(Base, total) /\ Len(p.buffer) = total - Base
  BY <1>1, BufferFacts
<1>3. PICK end \in First(Ends(p)) :
        /\ \E buffer \in Moved(Between(p.buffer, end, Len(p.buffer)), end) :
             /\ parser' = AfterImage(p, buffer)
             /\ garbled' = (garbled \/ buffer # Between(p.buffer, end, Len(p.buffer)))
        /\ given' = Append(given, <<p.buffer[p.imageStart + 1], p.buffer[end]>>)
  BY DEF GiveImage, NotifyError
<1>4. /\ end \in Nat /\ p.imageStart \in Nat /\ p.imageStart + 1 <= end
      /\ Base + end <= total
      /\ p.buffer[p.imageStart + 1] = Base + p.imageStart + 1 /\ p.buffer[end] = Base + end
      /\ Base + end \in ImageEnds
  BY ImageFound
<1> DEFINE s == Base + p.imageStart + 1
           e == Base + end
<1>5. PICK k \in 1..Count : s = From(k) /\ (Known => e = To(k))
  BY ImageFound
<1>6. s \in Nat /\ e \in Nat /\ s - 1 = Base + p.imageStart /\ Base < s
  BY <1>1, <1>4
<1>7. s \in ImageStarts /\ ImageStarts \cap ((Base + 1)..(s - 1)) = {}
  <2>1. p.imageStart >= 0
    BY DEF LooksForEnd
  <2>2. ImageStarts \cap ((Base + 1)..(Base + p.imageStart)) = {}
    BY <2>1 DEF ParserInv, Searched
  <2> QED
    BY <1>5, <1>6, <2>2, StartsAndEnds
<1>8. given' = Append(given, <<s, e>>)
  BY <1>3, <1>4
<1>9. parser' = AfterImage(p, Rest(e, total))
  <2>1. parser' = AfterImage(p, Between(p.buffer, end, Len(p.buffer)))
    BY <1>3
  <2>2. Between(Rest(Base, total), end, total - Base) = Rest(e, total)
    BY <1>1, <1>4, RestIsLeft
  <2> QED
    BY <1>2, <2>1, <2>2
<1>10. e \in ImageEnds /\ e <= total
  BY <1>4
<1> HIDE DEF s, e
<1>11. Known => Len(given) + 1 <= Count /\ <<s, e>> = stream.images[Len(given) + 1]
  <2>1. ASSUME Known PROVE Len(given) + 1 <= Count /\ <<s, e>> = stream.images[Len(given) + 1]
    <3>1. k = Len(given) + 1
      BY <1>5, <1>6, <1>7, <2>1, NextImage
    <3>2. stream.images[k] = <<From(k), To(k)>> /\ k <= Count
      BY StreamFacts
    <3> QED
      BY <1>5, <2>1, <3>1, <3>2
  <2> QED
    BY <2>1
<1>12. GivenInv' /\ Base' = e /\ given' # <<>>
  BY <1>6, <1>7, <1>8, <1>10, <1>11, GivenAppended
<1>13. /\ parser'.buffer = Rest(e, total) /\ parser'.imageStart = -1 /\ parser'.search = 0
       /\ parser'.boundary = p.boundary /\ parser'.checked = p.checked
  BY <1>9 DEF AfterImage, IsParser
<1>14. /\ ~Known => p.boundary = <<>>
       /\ Known => p.checked /\ p.boundary = stream.boundary
  BY EndFacts DEF LooksForEnd
<1> QED
  BY <1>6, <1>10, <1>12, <1>13, <1>14

-----------------------------------------------------------------------------
(* The thread.                                                             *)

LEMMA NothingGiven ==
  ASSUME stream \in Streams, given = <<>>
  PROVE  GivenInv /\ Base = 0
BY EmptySeq, StreamFacts DEF GivenInv, Base

LEMMA SameGiven ==
  ASSUME stream' = stream, given' = given
  PROVE  /\ GivenInv => GivenInv'
         /\ parser' = parser /\ received' = received =>
              (ParserInv(parser, received) => ParserInv(parser, received)')
         /\ ParserInv(parser', received') => ParserInv(parser, received)'
<1>1. Base' = Base /\ Sent' = Sent /\ (Known' <=> Known) /\ ImageStarts' = ImageStarts
      /\ ImageEnds' = ImageEnds /\ Count' = Count
  BY DEF Base, Sent, Known, ImageStarts, ImageEnds, Count
<1>2. GivenInv => GivenInv'
  BY <1>1 DEF GivenInv
<1>3. ASSUME ParserInv(parser', received') PROVE ParserInv(parser, received)'
  <2>1. HoldsTheRest(parser, received)'
    BY <1>1, <1>3 DEF ParserInv, HoldsTheRest
  <2>2. KnowsBoundary(parser)'
    BY <1>1, <1>3 DEF ParserInv, KnowsBoundary
  <2>3. Searched(parser)'
    BY <1>1, <1>3 DEF ParserInv, Searched
  <2> QED
    BY <2>1, <2>2, <2>3 DEF ParserInv
<1> QED
  BY <1>2, <1>3

LEMMA ReceiveHolds ==
  ASSUME StreamInv, ImagesInv, Receive
  PROVE  ImagesInv'
<1> SUFFICES ASSUME Sound' PROVE GivenInv' /\ ParserInv(parser, received)'
  BY DEF ImagesInv
<1> PICK n \in 1..(Len(stream.sent) - received) : ReceivePiece(n)
  BY DEF Receive
<1>1. /\ stream \in Streams /\ Len(Sent) \in Nat /\ received \in Nat /\ n \in Nat
      /\ stream' = stream /\ received' = received + n /\ IsParser(parser) /\ pc = "connected"
  BY CameraLengths DEF ReceivePiece, StreamInv, StreamTypeOK, Sent, Receive
<1> DEFINE total == received + n
<1>2. total \in 0..Len(Sent)
  BY <1>1 DEF Sent
<1>3. typed /\ Len(parser.buffer) + n <= MaxBuffer
  <2>1. Len(parser.buffer) \in Nat /\ MaxBuffer \in Nat
    BY <1>1, CameraLengths, LenProperties DEF IsParser
  <2>2. ~(~typed \/ Len(parser.buffer) + n > MaxBuffer)
    BY DEF ReceivePiece, NotifyError, Sound
  <2> QED
    BY <1>1, <2>1, <2>2
<1>4. \E checked \in CheckBoundary(Appended(n)) : \E p \in FindStart(checked) : Parse(p)
  BY <1>1, <1>3, CameraLengths, LenProperties DEF ReceivePiece, NotifyError, Sound
<1> PICK checked \in CheckBoundary(Appended(n)) : \E p \in FindStart(checked) : Parse(p)
  BY <1>4
<1> PICK p \in FindStart(checked) : Parse(p)
  OBVIOUS
<1>5. Sound
  <2>1. CASE GiveImage(p)
    <3>1. failed' \/ failed' = failed
      BY <2>1 DEF GiveImage, NotifyError
    <3>2. garbled => garbled'
      BY <2>1 DEF GiveImage
    <3> QED
      BY <3>1, <3>2 DEF Sound
  <2>2. CASE failed' = failed /\ garbled' = garbled
    BY <2>2 DEF Sound
  <2> QED
    BY <2>1, <2>2 DEF Parse
<1>6. GivenInv /\ ParserInv(parser, received) /\ Base \in Nat
  BY <1>1, <1>3, <1>5, BaseIsNat DEF ImagesInv
<1>7. IsParser(Appended(n)) /\ ParserInv(Appended(n), total)
  BY <1>1, <1>3, <1>6, AppendedIsParser, AppendedHolds
<1> HIDE DEF total
<1>8. IsParser(checked) /\ ParserInv(checked, total) /\ NotYetAnnounced(checked, total)
  BY <1>1, <1>2, <1>6, <1>7, CheckBoundaryKeeps, CheckBoundaryHolds
<1>9. IsParser(p) /\ ParserInv(p, total)
  BY <1>1, <1>2, <1>6, <1>8, FindStartKeeps, FindStartHolds
<1>10. received' = total
  BY <1>1 DEF total
<1>11. CASE LooksForEnd(p) /\ Ends(p) # {}
  <2>1. GiveImage(p) /\ ~failed' /\ ~garbled'
    BY <1>11 DEF Parse, Sound
  <2>2. /\ GivenInv' /\ given' # <<>>
        /\ Base' \in Nat /\ Base' <= total /\ parser'.buffer = Rest(Base', total)
        /\ parser'.imageStart = -1 /\ parser'.search = 0
        /\ ~Known => parser'.boundary = <<>>
        /\ Known => parser'.checked /\ parser'.boundary = stream.boundary
    BY <1>1, <1>2, <1>6, <1>9, <1>11, <2>1, GiveImageHolds
  <2>3. Known' <=> Known
    BY <1>1 DEF Known
  <2>4. HoldsTheRest(parser, received)'
    BY <1>10, <2>2 DEF HoldsTheRest
  <2>5. KnowsBoundary(parser)'
    BY <1>1, <2>2, <2>3 DEF KnowsBoundary
  <2>6. Searched(parser)'
    <3>1. parser'.imageStart < 0 /\ ~(parser'.imageStart >= 0)
      BY <2>2
    <3>2. \A x : x \notin (Base' + 1)..(Base' + parser'.search)
      BY <2>2
    <3> QED
      BY <3>1, <3>2 DEF Searched
  <2> QED
    BY <2>2, <2>4, <2>5, <2>6 DEF ParserInv
<1>12. CASE ~(LooksForEnd(p) /\ Ends(p) # {})
  <2>1. /\ parser' = IF LooksForEnd(p) THEN SearchOn(p) ELSE p
        /\ given' = given
    BY <1>12 DEF Parse
  <2>2. ParserInv(parser', total)
    <3>1. CASE LooksForEnd(p)
      BY <1>1, <1>2, <1>6, <1>9, <1>12, <2>1, <3>1, SearchOnHolds
    <3>2. CASE ~LooksForEnd(p)
      BY <1>9, <2>1, <3>2
    <3> QED
      BY <3>1, <3>2
  <2> QED
    BY <1>1, <1>6, <1>10, <2>1, <2>2, SameGiven
<1> QED
  BY <1>11, <1>12

LEMMA ImagesInvInit == StreamInit => ImagesInv
BY NothingGiven DEF StreamInit, ImagesInv

LEMMA ConnectHolds ==
  ASSUME StreamInv, Connect
  PROVE  ImagesInv'
<1> PICK camera \in Streams : stream' = camera /\ ReceiveHeaders(camera)
  BY DEF Connect
<1>1. stream' \in Streams /\ given' = <<>> /\ received' = 0
  BY DEF Connect
<1>2. GivenInv' /\ Base' = 0
  <2>1. Len(given') = 0 /\ given' \in Seq(Nat \X Nat)
    BY <1>1, EmptySeq
  <2>2. Known' => Count' \in Nat
    <3>1. IsSequence(stream'.images)
      BY <1>1, StreamAssumption DEF StreamAssumption
    <3> QED
      BY <3>1, SequenceLength DEF Count
  <2> QED
    BY <1>1, <2>1, <2>2 DEF GivenInv, Base
<1>3. ASSUME typed' PROVE ParserInv(parser, received)'
  <2>1. parser' = NewParser(stream'.announced)
    BY <1>3 DEF ReceiveHeaders
  <2>2. /\ parser'.buffer = <<>> /\ parser'.boundary = stream'.announced
        /\ parser'.checked = FALSE /\ parser'.imageStart = -1 /\ parser'.search = 0
    BY <2>1 DEF NewParser
  <2>3. HoldsTheRest(parser, received)'
    BY <1>1, <1>2, <2>2 DEF HoldsTheRest, Rest
  <2>4. KnowsBoundary(parser)' /\ Searched(parser)'
    BY <1>1, <1>2, <2>2 DEF KnowsBoundary, Searched, Known
  <2> QED
    BY <2>3, <2>4 DEF ParserInv
<1> QED
  BY <1>2, <1>3 DEF ImagesInv

LEMMA ImagesInvNext == ASSUME StreamInv, ImagesInv, [StreamNext]_streamVars PROVE ImagesInv'
<1>1. CASE /\ UNCHANGED <<connection, data>> /\ (failed' = failed \/ failed')
           /\ (pc' = "connected" => pc = "connected")
  <2>1. /\ stream' = stream /\ given' = given /\ parser' = parser /\ received' = received
        /\ typed' = typed /\ garbled' = garbled /\ (Sound' => Sound)
    BY <1>1 DEF connection, data, Sound
  <2>2. /\ GivenInv => GivenInv'
        /\ ParserInv(parser, received) => ParserInv(parser, received)'
    BY <2>1, SameGiven
  <2> QED
    BY <1>1, <2>1, <2>2 DEF ImagesInv
<1>2. CASE Start
  BY <1>1, <1>2 DEF Start
<1>3. CASE SignalToStop \/ WakeUpToExit
  BY <1>1, <1>3 DEF SignalToStop, WakeUpToExit
<1>4. CASE RequestFails
  BY <1>1, <1>4 DEF RequestFails, NotifyError
<1>5. CASE LeaveWhenDone \/ NoResponse \/ FirstTryStalls
  BY <1>1, <1>5 DEF LeaveWhenDone, NoResponse, FirstTryStalls, Leave
<1>6. CASE Connect
  BY <1>6, ConnectHolds
<1>7. CASE Receive
  BY <1>7, ReceiveHolds
<1>8. CASE UNCHANGED streamVars
  BY <1>1, <1>8 DEF streamVars, thread
<1> QED
  BY <1>2, <1>3, <1>4, <1>5, <1>6, <1>7, <1>8 DEF StreamNext

LEMMA WholeIfInv == StreamInv /\ ImagesInv => GivenAreWhole
<1> SUFFICES ASSUME StreamInv, ImagesInv, Sound PROVE
      /\ \A k \in DOMAIN given :
           /\ given[k][1] \in ImageStarts /\ given[k][2] \in ImageEnds
           /\ ImageStarts \cap ((IF k = 1 THEN 1 ELSE given[k - 1][2] + 1)..(given[k][1] - 1)) = {}
      /\ Known => given = SubSeq(stream.images, 1, Len(given))
  BY DEF GivenAreWhole, Sound, Known
<1>1. GivenInv /\ stream \in Streams
  BY DEF ImagesInv, StreamInv, StreamTypeOK
<1>2. /\ given \in Seq(Nat \X Nat) /\ Len(given) \in Nat /\ DOMAIN given = 1..Len(given)
  BY <1>1, LenProperties DEF GivenInv
<1>3. ASSUME Known PROVE given = SubSeq(stream.images, 1, Len(given))
  <2> DEFINE m == Len(given)
             S == {stream.images[i] : i \in DOMAIN stream.images}
             first == SubSeq(stream.images, 1, m)
  <2>1. /\ m <= Count /\ \A k \in 1..m : given[k] = stream.images[k]
        /\ DOMAIN stream.images = 1..Count /\ Count \in Nat
    BY <1>1, <1>3, StreamFacts DEF GivenInv
  <2>2. \A i \in 1..m : stream.images[i] \in S
    <3>1. \A i \in 1..m : i \in DOMAIN stream.images
      BY <1>2, <2>1
    <3> HIDE DEF m
    <3> QED
      BY <3>1
  <2> HIDE DEF S
  <2>3. 1 \in Int /\ m \in Int /\ m \in Nat /\ m - 1 + 1 = m
    BY <1>2
  <2> HIDE DEF m
  <2>4. /\ SubSeq(stream.images, 1, m) \in Seq(S)
        /\ Len(SubSeq(stream.images, 1, m)) = IF 1 <= m THEN m - 1 + 1 ELSE 0
        /\ \A i \in 1..(m - 1 + 1) : SubSeq(stream.images, 1, m)[i] = stream.images[1 + i - 1]
    BY <2>2, <2>3, SubSeqProperties
  <2>5. Len(first) = m /\ first \in Seq(S)
    BY <2>3, <2>4
  <2>6. \A i \in 1..m : 1 + i - 1 = i
    OBVIOUS
  <2>7. \A i \in 1..m : first[i] = stream.images[i]
    BY <2>3, <2>4, <2>6
  <2> HIDE DEF first
  <2>8. first = [i \in 1..m |-> first[i]]
    BY <2>5
  <2>9. given = [i \in 1..m |-> given[i]]
    BY <1>2 DEF m
  <2>10. given = first
    BY <2>1, <2>7, <2>8, <2>9
  <2> QED
    BY <2>10 DEF first, m
<1> QED
  BY <1>1, <1>2, <1>3 DEF GivenInv

\* In whatever pieces a stream comes whose images can be told apart, the listener is given whole
\* images, none left out, and, if there is a boundary, none two in one: GivenAreWhole, for any
\* cameras, start of an image and buffer.
THEOREM ImagesAreWhole == StreamSpec => []GivenAreWhole
<1>1. StreamInit => StreamInv /\ ImagesInv
  BY StreamInvInit, ImagesInvInit DEF StreamInit
<1>2. StreamInv /\ ImagesInv /\ [StreamNext]_streamVars => (StreamInv /\ ImagesInv)'
  BY StreamInvNext, ImagesInvNext
<1> QED
  BY <1>1, <1>2, WholeIfInv, PTL DEF StreamSpec

=============================================================================
