--------------------------- MODULE MjpegStream_proofs ---------------------------
(* Proofs about MjpegStream: the indices of the parser stay inside its buffer, *)
(* whatever a camera sends in whatever pieces.                                 *)
EXTENDS MjpegStream, SequenceTheorems, TLAPS

\* A parser whose indices are inside its buffer: the search goes on behind the start of the
\* image that was found.
IsParser(p) ==
  /\ DOMAIN p = {"buffer", "boundary", "checked", "imageStart", "search"}
  /\ p.buffer \in Seq(Nat) /\ IsSequence(p.boundary)
  /\ p.imageStart \in Int /\ p.search \in Nat
  /\ Len(p.buffer) <= MaxBuffer
  /\ p.search <= Len(p.buffer)
  /\ p.imageStart >= 0 => p.imageStart + Len(Magic) <= p.search

StreamInv ==
  /\ StreamTypeOK
  /\ IsParser(parser)

-----------------------------------------------------------------------------
(* Sequences.                                                              *)

LEMMA SequenceLength ==
  ASSUME NEW s, IsSequence(s)
  PROVE  Len(s) \in Nat /\ DOMAIN s = 1..Len(s) /\ (s = <<>> <=> Len(s) = 0)
BY EmptySeq, LenProperties DEF IsSequence

LEMMA FunctionIsSequence ==
  ASSUME NEW n \in Nat, NEW f, DOMAIN f = 1..n, f = [i \in 1..n |-> f[i]]
  PROVE  IsSequence(f)
<1> DEFINE S == {f[i] : i \in 1..n}
<1>1. f \in [1..n -> S] /\ S = {f[i] : i \in DOMAIN f}
  OBVIOUS
<1> HIDE DEF S
<1> QED
  BY <1>1 DEF IsSequence

LEMMA EmptyIsSequence == IsSequence(<<>>)
BY DEF IsSequence

LEMMA MagicLength == Len(Magic) \in Nat \ {0}
BY StreamAssumption, SequenceLength DEF StreamAssumption

LEMMA CameraLengths ==
  /\ MaxBuffer \in Nat
  /\ \A camera \in Streams : Len(camera.sent) \in Nat /\ IsSequence(camera.announced)
BY StreamAssumption, SequenceLength DEF StreamAssumption

LEMMA FoundAreInside ==
  ASSUME NEW buffer, NEW from, NEW what
  PROVE  Found(buffer, from, what) \subseteq from..(Len(buffer) - Len(what))
BY DEF Found

LEMMA BetweenIsPart ==
  ASSUME NEW s \in Seq(Nat), NEW from \in Nat, NEW to \in Nat, from <= to, to <= Len(s)
  PROVE  /\ Between(s, from, to) \in Seq(Nat) /\ Len(Between(s, from, to)) = to - from
         /\ DOMAIN Between(s, from, to) = 1..(to - from)
<1>1. SubSeq(s, from + 1, to) \in Seq(Nat)
  BY SubSeqProperties
<1>2. Len(SubSeq(s, from + 1, to)) = to - from
  BY SubSeqProperties
<1> QED
  BY <1>1, <1>2, LenProperties DEF Between

-----------------------------------------------------------------------------
(* The parts of the parser.                                                *)

LEMMA NewParserIsParser ==
  ASSUME NEW boundary, IsSequence(boundary)
  PROVE  IsParser(NewParser(boundary))
BY CameraLengths, EmptySeq DEF IsParser, NewParser

LEMMA RealBoundaryKeeps ==
  ASSUME NEW p, IsParser(p), NEW end \in 0..(Len(p.buffer) - Len(p.boundary)),
         NEW from \in 0..end, NEW real, real = Between(p.buffer, from, end + Len(p.boundary))
  PROVE  IsParser([p EXCEPT !.checked = TRUE,
                            !.boundary = [i \in DOMAIN real |-> Symbol(real[i])]])
<1> DEFINE to == end + Len(p.boundary)
           boundary == [i \in DOMAIN real |-> Symbol(real[i])]
<1>1. Len(p.buffer) \in Nat /\ Len(p.boundary) \in Nat /\ p.buffer \in Seq(Nat)
  BY SequenceLength, LenProperties DEF IsParser
<1>2. to \in Nat /\ from \in Nat /\ from <= to /\ to <= Len(p.buffer) /\ to - from \in Nat
  BY <1>1
<1> HIDE DEF to
<1>3. DOMAIN real = 1..(to - from)
  <2>1. real = Between(p.buffer, from, to)
    BY DEF to
  <2> QED
    BY <1>1, <1>2, <2>1, BetweenIsPart
<1>4. IsSequence(boundary)
  <2> DEFINE n == to - from
  <2>1. DOMAIN boundary = 1..n /\ boundary = [i \in 1..n |-> boundary[i]]
    BY <1>3
  <2> HIDE DEF boundary, n
  <2>2. n \in Nat
    BY <1>2 DEF n
  <2> QED
    BY <2>1, <2>2, FunctionIsSequence
<1> HIDE DEF boundary
<1>5. IsParser([p EXCEPT !.checked = TRUE, !.boundary = boundary])
  BY <1>1, <1>4 DEF IsParser
<1> QED
  BY <1>5 DEF boundary

LEMMA CheckBoundaryKeeps ==
  ASSUME NEW p, IsParser(p), NEW q \in CheckBoundary(p)
  PROVE  IsParser(q)
<1> DEFINE at == Found(p.buffer, 0, p.boundary)
           Begin(end) == First({from \in 0..end :
                                  \A i \in (from + 1)..end : Symbol(p.buffer[i]) \notin Space})
           Real(from, end) == Between(p.buffer, from, end + Len(p.boundary))
           Checked(real) == [p EXCEPT !.checked = TRUE,
                                      !.boundary = [i \in DOMAIN real |-> Symbol(real[i])]]
<1>1. CASE q = p
  BY <1>1
<1>2. CASE \E end \in First(at) : \E from \in Begin(end) : q = Checked(Real(from, end))
  <2> PICK end \in First(at) : \E from \in Begin(end) : q = Checked(Real(from, end))
    BY <1>2
  <2> PICK from \in Begin(end) : q = Checked(Real(from, end))
    OBVIOUS
  <2>1. end \in 0..(Len(p.buffer) - Len(p.boundary))
    BY FoundAreInside DEF First
  <2>2. from \in 0..end
    BY DEF First
  <2> DEFINE found == Between(p.buffer, from, end + Len(p.boundary))
  <2>3. q = [p EXCEPT !.checked = TRUE,
                      !.boundary = [i \in DOMAIN found |-> Symbol(found[i])]]
    OBVIOUS
  <2>4. found = Between(p.buffer, from, end + Len(p.boundary))
    OBVIOUS
  <2> HIDE DEF at, Begin, Real, Checked, found
  <2>5. IsParser([p EXCEPT !.checked = TRUE,
                           !.boundary = [i \in DOMAIN found |-> Symbol(found[i])]])
    BY <2>1, <2>2, <2>4, RealBoundaryKeeps
  <2> QED
    BY <2>3, <2>5
<1> QED
  BY <1>1, <1>2 DEF CheckBoundary

LEMMA FindStartKeeps ==
  ASSUME NEW p, IsParser(p), NEW q \in FindStart(p)
  PROVE  IsParser(q)
<1>0. Len(p.buffer) \in Nat
  BY LenProperties DEF IsParser
<1>1. CASE q = p
  BY <1>1
<1>2. CASE /\ Len(p.buffer) - p.search >= Len(Magic)
           /\ ~(p.imageStart >= 0)
           /\ q = [p EXCEPT !.search = Len(p.buffer) - Len(Magic) + 1]
  BY <1>0, <1>2, MagicLength DEF IsParser
<1>3. CASE \E i \in First(Found(p.buffer, p.search, Magic)) :
             q = [p EXCEPT !.imageStart = i, !.search = i + Len(Magic)]
  <2> PICK i \in First(Found(p.buffer, p.search, Magic)) :
             q = [p EXCEPT !.imageStart = i, !.search = i + Len(Magic)]
    BY <1>3
  <2>1. i \in p.search..(Len(p.buffer) - Len(Magic))
    BY FoundAreInside DEF First
  <2> QED
    BY <1>0, <2>1, MagicLength DEF IsParser
<1> DEFINE at == Found(p.buffer, p.search, Magic)
<1>4. CASE p.imageStart >= 0 \/ Len(p.buffer) - p.search < Len(Magic)
  BY <1>1, <1>4 DEF FindStart
<1>5. CASE ~(p.imageStart >= 0 \/ Len(p.buffer) - p.search < Len(Magic))
  <2>1. CASE at = {}
    <3>1. q = [p EXCEPT !.search = Len(p.buffer) - Len(Magic) + 1]
      BY <1>5, <2>1 DEF FindStart
    <3>2. Len(p.buffer) - p.search >= Len(Magic)
      BY <1>0, <1>5, MagicLength DEF IsParser
    <3> QED
      BY <1>2, <1>5, <3>1, <3>2
  <2>2. CASE at # {}
    BY <1>3, <1>5, <2>2 DEF FindStart
  <2> QED
    BY <2>1, <2>2
<1> QED
  BY <1>4, <1>5

LEMMA SearchOnKeeps ==
  ASSUME NEW p, IsParser(p), LooksForEnd(p)
  PROVE  IsParser(SearchOn(p))
<1>1. /\ Len(p.buffer) \in Nat /\ Len(p.boundary) \in Nat
      /\ (p.boundary = <<>> <=> Len(p.boundary) = 0)
  BY SequenceLength, LenProperties DEF IsParser
<1> QED
  BY <1>1, MagicLength DEF IsParser, LooksForEnd, SearchOn

LEMMA GiveImageKeeps ==
  ASSUME NEW p, IsParser(p), LooksForEnd(p), GiveImage(p)
  PROVE  IsParser(parser') /\ (failed \in BOOLEAN => failed' \in BOOLEAN)
                           /\ (pause \in BOOLEAN => pause' \in BOOLEAN)
<1> PICK end \in First(Ends(p)) :
         \E buffer \in Moved(Between(p.buffer, end, Len(p.buffer)), end) :
           parser' = AfterImage(p, buffer)
  BY DEF GiveImage
<1> PICK buffer \in Moved(Between(p.buffer, end, Len(p.buffer)), end) :
         parser' = AfterImage(p, buffer)
  OBVIOUS
<1> DEFINE rest == Between(p.buffer, end, Len(p.buffer))
<1>1. /\ p.buffer \in Seq(Nat) /\ Len(p.buffer) \in Nat /\ Len(p.boundary) \in Nat
      /\ p.search \in Nat
  BY SequenceLength, LenProperties DEF IsParser
<1>2. end \in 0..Len(p.buffer)
  BY <1>1, MagicLength, FoundAreInside DEF First, Ends
<1>3. /\ rest \in Seq(Nat) /\ Len(rest) = Len(p.buffer) - end
      /\ DOMAIN rest = 1..(Len(p.buffer) - end)
  <2>1. end \in Nat /\ end <= Len(p.buffer) /\ Len(p.buffer) <= Len(p.buffer)
    BY <1>1, <1>2
  <2> QED
    BY <1>1, <2>1, BetweenIsPart
<1>4. buffer \in Seq(Nat) /\ Len(buffer) = Len(rest)
  <2> HIDE DEF rest
  <2>1. CASE buffer = rest
    BY <1>3, <2>1
  <2>2. CASE buffer = [i \in DOMAIN rest |-> 0]
    <3>1. buffer \in [1..(Len(p.buffer) - end) -> Nat]
      BY <1>3, <2>2
    <3> QED
      <4>1. Len(p.buffer) - end \in Nat
        BY <1>1, <1>2
      <4> QED
        BY <1>3, <3>1, <4>1
  <2> QED
    BY <2>1, <2>2 DEF Moved, rest
<1>5. IsParser(parser')
  <2>1. Len(buffer) \in Nat /\ Len(buffer) <= Len(p.buffer)
    <3> HIDE DEF rest
    <3> QED
      BY <1>1, <1>2, <1>3, <1>4
  <2> HIDE DEF rest
  <2>2. parser' = [p EXCEPT !.buffer = buffer, !.imageStart = -1, !.search = 0]
    BY DEF AfterImage
  <2> QED
    <3>1. 0 <= Len(buffer) /\ Len(buffer) <= MaxBuffer
      BY <1>1, <2>1, CameraLengths DEF IsParser
    <3>2. DOMAIN parser' = DOMAIN p /\ parser'.boundary = p.boundary /\ parser'.search = 0
          /\ parser'.buffer = buffer /\ parser'.imageStart = -1
      BY <2>2 DEF IsParser
    <3> QED
      BY <1>4, <3>1, <3>2 DEF IsParser
<1> QED
  BY <1>5 DEF GiveImage, NotifyError

LEMMA AppendedIsParser ==
  ASSUME IsParser(parser), received \in Nat, NEW n \in Nat, Len(parser.buffer) + n <= MaxBuffer
  PROVE  IsParser(Appended(n))
<1> DEFINE piece == [i \in 1..n |-> received + i]
<1>1. piece \in Seq(Nat) /\ Len(piece) = n
  <2>1. piece \in [1..n -> Nat]
    OBVIOUS
  <2> QED
    BY <2>1, SeqDef, LenProperties
<1>2. parser.buffer \in Seq(Nat) /\ Len(parser.buffer) \in Nat
  BY LenProperties DEF IsParser
<1>3. /\ parser.buffer \o piece \in Seq(Nat)
      /\ Len(parser.buffer \o piece) = Len(parser.buffer) + n
  <2> HIDE DEF piece
  <2> QED
    BY <1>1, <1>2, ConcatProperties
<1> HIDE DEF piece
<1>4. Appended(n) = [parser EXCEPT !.buffer = parser.buffer \o piece]
  BY DEF Appended, piece, IsParser
<1> QED
  BY <1>2, <1>3, <1>4 DEF IsParser

LEMMA ParseKeeps ==
  ASSUME NEW p, IsParser(p), Parse(p)
  PROVE  IsParser(parser') /\ (failed \in BOOLEAN => failed' \in BOOLEAN)
                           /\ (pause \in BOOLEAN => pause' \in BOOLEAN)
<1>1. CASE LooksForEnd(p) /\ Ends(p) # {}
  BY <1>1, GiveImageKeeps DEF Parse
<1>2. CASE ~(LooksForEnd(p) /\ Ends(p) # {})
  BY <1>2, SearchOnKeeps DEF Parse
<1> QED
  BY <1>1, <1>2

-----------------------------------------------------------------------------
(* The thread.                                                             *)

LEMMA ParserIsTyped ==
  ASSUME NEW p, IsParser(p)
  PROVE  /\ Len(p.buffer) <= MaxBuffer
         /\ 0 <= p.search /\ p.search <= Len(p.buffer)
         /\ p.imageStart >= 0 => p.imageStart + Len(Magic) <= p.search
BY DEF IsParser

LEMMA StreamInvInit == StreamInit => StreamInv
<1> SUFFICES ASSUME StreamInit PROVE StreamInv
  OBVIOUS
<1>1. IsParser(parser)
  BY EmptyIsSequence, NewParserIsParser DEF StreamInit
<1>2. Len(stream.sent) \in Nat /\ received \in 0..Len(stream.sent)
  BY CameraLengths DEF StreamInit
<1> QED
  BY <1>1, <1>2, ParserIsTyped DEF StreamInit, StreamInv, StreamTypeOK

LEMMA ReceiveKeeps == ASSUME StreamInv, Receive PROVE StreamInv'
<1> PICK n \in 1..(Len(stream.sent) - received) : ReceivePiece(n)
  BY DEF Receive
<1>1. Len(stream.sent) \in Nat /\ received \in Nat
  BY CameraLengths DEF StreamInv, StreamTypeOK
<1>2. /\ IsParser(parser')
      /\ failed' \in BOOLEAN /\ pause' \in BOOLEAN
  <2>1. CASE ~typed \/ Len(parser.buffer) + n > MaxBuffer
    BY <2>1 DEF ReceivePiece, NotifyError, StreamInv, StreamTypeOK, data
  <2>2. CASE ~(~typed \/ Len(parser.buffer) + n > MaxBuffer)
    <3>0. PICK checked \in CheckBoundary(Appended(n)) : \E p \in FindStart(checked) : Parse(p)
      BY <2>2 DEF ReceivePiece
    <3>1. PICK p \in FindStart(checked) : Parse(p)
      BY <3>0
    <3>2. Len(parser.buffer) + n <= MaxBuffer
      <4>1. Len(parser.buffer) \in Nat /\ MaxBuffer \in Nat
        BY CameraLengths, LenProperties DEF StreamInv, IsParser
      <4> QED
        BY <1>1, <2>2, <4>1
    <3>3. IsParser(Appended(n))
      BY <1>1, <3>2, AppendedIsParser DEF StreamInv
    <3>4. IsParser(p)
      BY <3>1, <3>3, CheckBoundaryKeeps, FindStartKeeps
    <3> QED
      BY <3>1, <3>4, ParseKeeps DEF StreamInv, StreamTypeOK
  <2> QED
    BY <2>1, <2>2
<1>3. received' \in 0..Len(stream'.sent)
  BY <1>1 DEF ReceivePiece
<1> QED
  BY <1>2, <1>3 DEF ReceivePiece, StreamInv, StreamTypeOK, IsParser

LEMMA StreamInvNext == ASSUME StreamInv, [StreamNext]_streamVars PROVE StreamInv'
<1> USE DEF StreamInv, StreamTypeOK, thread, connection, data
<1>1. CASE Start
  BY <1>1 DEF Start
<1>2. CASE SignalToStop
  BY <1>2 DEF SignalToStop
<1>3. CASE WakeUpToExit
  BY <1>3 DEF WakeUpToExit
<1>4. CASE Connect
  <2> PICK camera \in Streams : stream' = camera /\ ReceiveHeaders(camera)
    BY <1>4 DEF Connect
  <2>1. IsParser(parser') /\ typed' \in BOOLEAN
    BY CameraLengths, EmptyIsSequence, NewParserIsParser DEF ReceiveHeaders
  <2>2. stream' \in Streams /\ received' \in 0..Len(stream'.sent)
    BY <1>4, CameraLengths DEF Connect
  <2> QED
    BY <1>4, <2>1, <2>2, ParserIsTyped DEF Connect
<1>5. CASE RequestFails
  BY <1>5 DEF RequestFails, NotifyError
<1>6. CASE LeaveWhenDone \/ NoResponse \/ FirstTryStalls
  BY <1>6 DEF LeaveWhenDone, NoResponse, FirstTryStalls, Leave
<1>7. CASE Receive
  BY <1>7, ReceiveKeeps
<1>8. CASE UNCHANGED streamVars
  BY <1>8 DEF streamVars
<1> QED
  BY <1>1, <1>2, <1>3, <1>4, <1>5, <1>6, <1>7, <1>8 DEF StreamNext

\* In whatever pieces whatever comes, the parser's indices are inside its buffer, which never
\* holds more than it may: StreamTypeOK, for any cameras, start of an image and buffer.
THEOREM ParserStaysInside == StreamSpec => []StreamTypeOK
<1>1. StreamInv => StreamTypeOK
  BY DEF StreamInv
<1> QED
  BY <1>1, StreamInvInit, StreamInvNext, PTL DEF StreamSpec

=============================================================================
