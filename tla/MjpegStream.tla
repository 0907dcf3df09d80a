------------------------------ MODULE MjpegStream ------------------------------
(* XMjpegHttpStream: its thread connects to a camera again and again until it   *)
(* is told to exit, and cuts the images out of what libcurl hands over, in      *)
(* pieces of any length.                                                        *)
(*                                                                              *)
(* What a camera sends is a sequence of symbols; the buffer holds the positions *)
(* in it, so that what was given to the listener can be compared with what was  *)
(* sent.  libcurl calls back from curl_multi_perform only.  Memory suffices up  *)
(* to MaxBuffer, the listener is there all the time, and its calls return.      *)
EXTENDS Integers, Sequences, FiniteSets

CONSTANTS
  Streams,              (* what cameras send: .sent, its .images as intervals *)
                        (* of it, what is between them (.boundary), and what  *)
                        (* the camera says is (.announced), <<>> for nothing  *)
  Magic,                (* JpegMagic, the start of an image                   *)
  Space,                (* the symbols isspace accepts                        *)
  MaxBuffer             (* MaxBufferSize                                      *)

\* What is sent and looked for are sequences of symbols, and an image starts with one at least.
IsSequence(s) == s \in Seq({s[i] : i \in DOMAIN s})

ASSUME StreamAssumption ==
  /\ \A camera \in Streams : /\ IsSequence(camera.sent) /\ IsSequence(camera.images)
                              /\ IsSequence(camera.announced)
  /\ IsSequence(Magic) /\ Magic # <<>>
  /\ MaxBuffer \in Nat

\* Something begins at a position of a sequence.
Begins(what, s, x) ==
  x + Len(what) - 1 <= Len(s) /\ \A j \in 1..Len(what) : s[x + j - 1] = what[j]

\* What is announced is, where it first comes, the end of what is between the images, back to a
\* space or the start; and that is before the first image.
Announced(camera) ==
  \E x \in 1..Len(camera.sent), from \in 0..Len(camera.sent) :
    /\ Begins(camera.announced, camera.sent, x)
    /\ \A y \in 1..(x - 1) : ~Begins(camera.announced, camera.sent, y)
    /\ from < x /\ \A i \in (from + 1)..(x - 1) : camera.sent[i] \notin Space
    /\ from = 0 \/ camera.sent[from] \in Space
    /\ camera.boundary = SubSeq(camera.sent, from + 1, x + Len(camera.announced) - 1)
    /\ \A k \in DOMAIN camera.images :
         x + Len(camera.announced) <= camera.images[k][1] + Len(Magic)

\* The images follow each other, each begins like one, and nothing outside them does.  With a
\* boundary there is none in an image and one behind it, if one follows at all; without, images
\* touch and nothing in them begins like one.
Framed(camera) ==
  LET s        == camera.sent
      images   == camera.images
      numbers  == DOMAIN images
      known    == camera.announced # <<>>
  IN  /\ \A k \in numbers :
           /\ images[k] \in (1..Len(s)) \X (1..Len(s)) /\ Begins(Magic, s, images[k][1])
           /\ images[k][1] + Len(Magic) - 1 <= images[k][2]
      /\ \A k, l \in numbers : k < l => images[k][2] < images[l][1]
      /\ \A x \in 1..Len(s) : Begins(Magic, s, x) =>
           \E k \in numbers : x \in images[k][1]..(IF known THEN images[k][2] ELSE images[k][1])
      /\ known => Announced(camera)
      /\ known => \A k \in numbers : \A x \in (images[k][1] + Len(Magic))..Len(s) :
                    Begins(camera.boundary, s, x) =>
                      x > images[k][2] /\ Begins(camera.boundary, s, images[k][2] + 1)
      /\ ~known => \A k \in numbers : k + 1 \in numbers => images[k + 1][1] = images[k][2] + 1

\* Cameras send images that can be told apart.
ASSUME CamerasAssumption == \A camera \in Streams : Framed(camera)

VARIABLES
  running, exitEvent,   (* the thread and ExitEvent                           *)
  pc,                   (* what the thread is at                              *)
  pause,                (* is TimeToSleepBeforeNextTry not zero?              *)
  firstTry,             (* has no connection stalled yet?                     *)
  failed,               (* FailureDetected                                    *)
  stream, received,     (* what this camera sends, and how much of it came    *)
  typed,                (* IsContentTypeChecked                               *)
  parser,               (* CommunicationBuffer, JpegBoundary, IsBoundaryChecked,
                           JpegImageStart and SearchStartIndex                *)
  garbled,              (* was the buffer copied onto itself, with damage?    *)
  given                 (* the images given since the connection was made     *)

thread     == <<running, exitEvent, pc, pause, firstTry>>
connection == <<stream, received, typed>>
data       == <<parser, garbled, given>>
streamVars == <<thread, failed, connection, data>>

NewParser(boundary) ==
  [buffer |-> <<>>, boundary |-> boundary, checked |-> FALSE, imageStart |-> -1, search |-> 0]

StreamInit ==
  /\ running = FALSE /\ exitEvent = FALSE /\ pc = "over" /\ pause = FALSE /\ failed = FALSE
  /\ firstTry = TRUE
  /\ stream \in Streams /\ received = 0 /\ typed = FALSE
  /\ parser = NewParser(<<>>) /\ garbled = FALSE /\ given = <<>>

-----------------------------------------------------------------------------
(* Calls of the owner.                                                     *)

\* The event is reset before it turns out that the thread runs still.
Start ==
  /\ exitEvent' = FALSE
  /\ running' = TRUE
  /\ IF running THEN UNCHANGED <<pc, pause, firstTry>>
                ELSE pc' = "sleep" /\ pause' = FALSE /\ firstTry' = TRUE
  /\ UNCHANGED <<failed, connection, data>>

\* SignalToStop, and WaitForStop that joins the thread afterwards.
SignalToStop ==
  /\ running /\ exitEvent' = TRUE
  /\ UNCHANGED <<running, pc, pause, firstTry, failed, connection, data>>

-----------------------------------------------------------------------------
(* The loop that connects.                                                 *)

\* An error is reported once per connection, and makes the thread pause before the next.
NotifyError == failed' = TRUE /\ pause' = TRUE

WakeUpToExit ==
  /\ pc = "sleep" /\ exitEvent
  /\ pc' = "over" /\ running' = FALSE
  /\ UNCHANGED <<exitEvent, pause, firstTry, failed, connection, data>>

\* A camera tells its boundary with the type of what it sends, or nothing of either.
ReceiveHeaders(camera) ==
  \/ typed' = TRUE  /\ parser' = NewParser(camera.announced)
  \/ typed' = FALSE /\ parser' = NewParser(<<>>)

\* The connection's state is reset and the request made.
Connect ==
  /\ pc = "sleep" /\ ~exitEvent
  /\ failed' = FALSE /\ received' = 0 /\ garbled' = FALSE /\ given' = <<>>
  /\ \E camera \in Streams : stream' = camera /\ ReceiveHeaders(camera)
  /\ pc' = "connected"
  /\ UNCHANGED <<running, exitEvent, pause, firstTry>>

\* libcurl reports an error, or that nothing came for ConnectionTimeoutMs, or that the
\* request is over with a response code.
RequestFails ==
  /\ pc = "connected" /\ NotifyError
  /\ UNCHANGED <<running, exitEvent, pc, firstTry, connection, data>>

Leave ==
  /\ pc = "connected" /\ pc' = "sleep"
  /\ pause' = (failed /\ pause)
  /\ UNCHANGED <<running, exitEvent, failed, connection, data>>

\* Faulty: the inner loop does not look at the event.
LeaveWhenDone_Unstopped == failed /\ Leave /\ UNCHANGED firstTry

LeaveWhenDone == (exitEvent \/ failed) /\ Leave /\ UNCHANGED firstTry

\* Neither a request that was not responded to nor a first one that stalls for a second is
\* taken for an error: the next is made without a pause.
NoResponse     == received = 0 /\ Leave /\ UNCHANGED firstTry
FirstTryStalls == firstTry /\ firstTry' = FALSE /\ Leave

-----------------------------------------------------------------------------
(* CurlWriteMemoryCallback.                                                *)

\* What is at a position of the camera's stream, if it has not been damaged.
Symbol(position) == IF position = 0 THEN "damaged" ELSE stream.sent[position]

\* MemFind from an index of the buffer on: the indices at which something begins, and the first
\* of them, if any.
Found(buffer, from, what) ==
  {i \in from..(Len(buffer) - Len(what)) :
     \A j \in 1..Len(what) : Symbol(buffer[i + j]) = what[j]}

First(indices) == {i \in indices : \A j \in indices : i <= j}

Between(s, from, to) == SubSeq(s, from + 1, to)

\* Some cameras announce a boundary that is only the end of the real one: it is taken to begin
\* after the space before it, once, where it is first found.
CheckBoundary(p) ==
  LET at == Found(p.buffer, 0, p.boundary)
      Begin(end) == First({from \in 0..end :
                             \A i \in (from + 1)..end : Symbol(p.buffer[i]) \notin Space})
      Real(from, end) == Between(p.buffer, from, end + Len(p.boundary))
      Checked(real) == [p EXCEPT !.checked = TRUE,
                                 !.boundary = [i \in DOMAIN real |-> Symbol(real[i])]]
  IN  IF p.boundary = <<>> \/ p.checked \/ at = {} THEN {p}
      ELSE UNION {{Checked(Real(from, end)) : from \in Begin(end)} : end \in First(at)}

FindStart(p) ==
  LET at == Found(p.buffer, p.search, Magic)
  IN  IF p.imageStart >= 0 \/ Len(p.buffer) - p.search < Len(Magic) THEN {p}
      ELSE IF at = {} THEN {[p EXCEPT !.search = Len(p.buffer) - Len(Magic) + 1]}
      ELSE {[p EXCEPT !.imageStart = i, !.search = i + Len(Magic)] : i \in First(at)}

LooksForEnd(p) == p.imageStart >= 0 /\ Len(p.buffer) - p.search >= Len(p.boundary)

\* The image ends where the boundary begins, or the next image when there is none.
Ends(p) == Found(p.buffer, p.search, IF p.boundary = <<>> THEN Magic ELSE p.boundary)

\* Faulty: what may be the first half of a boundary is not looked at again.
SearchOn_Past(p) == [p EXCEPT !.search = Len(p.buffer)]

SearchOn(p) ==
  [p EXCEPT !.search = IF p.boundary = <<>> THEN Len(p.buffer)
                       ELSE Len(p.buffer) - (Len(p.boundary) - 1)]

\* What is behind the image is moved to the start of the buffer with memcpy, which is not
\* defined, and may do damage, when there is more of it than of the image.
Moved(rest, end) == {rest} \cup IF Len(rest) > end THEN {[i \in DOMAIN rest |-> 0]} ELSE {}

\* Faulty: the search is not taken back to the start of the buffer.
AfterImage_Search(p, buffer) == [p EXCEPT !.buffer = buffer, !.imageStart = -1]

AfterImage(p, buffer) == [p EXCEPT !.buffer = buffer, !.imageStart = -1, !.search = 0]

\* One image at most is cut out per call.  One that cannot be decoded, or is there when the
\* thread has been told to exit, is reported as an error.
GiveImage(p) ==
  \E end \in First(Ends(p)) :
    LET rest == Between(p.buffer, end, Len(p.buffer))
    IN  /\ \E buffer \in Moved(rest, end) :
             parser' = AfterImage(p, buffer) /\ garbled' = (garbled \/ buffer # rest)
        /\ \/ /\ ~exitEvent
              /\ given' = Append(given, <<p.buffer[p.imageStart + 1], p.buffer[end]>>)
              /\ UNCHANGED <<failed, pause>>
           \/ NotifyError /\ UNCHANGED given

Parse(p) ==
  IF LooksForEnd(p) /\ Ends(p) # {}
  THEN GiveImage(p)
  ELSE /\ parser' = IF LooksForEnd(p) THEN SearchOn(p) ELSE p
       /\ UNCHANGED <<failed, pause, garbled, given>>

\* A piece that comes before the content type or does not fit is dropped; libcurl may call
\* again all the same before the loop sees the error.
Appended(n) == [parser EXCEPT !.buffer = @ \o [i \in 1..n |-> received + i]]

ReceivePiece(n) ==
  /\ received' = received + n
  /\ IF ~typed \/ Len(parser.buffer) + n > MaxBuffer
     THEN NotifyError /\ UNCHANGED data
     ELSE \E checked \in CheckBoundary(Appended(n)) : \E p \in FindStart(checked) : Parse(p)
  /\ UNCHANGED <<running, exitEvent, pc, firstTry, stream, typed>>

Receive ==
  /\ pc = "connected"
  /\ \E n \in 1..(Len(stream.sent) - received) : ReceivePiece(n)

StreamNext ==
  \/ Start \/ SignalToStop \/ WakeUpToExit \/ Connect \/ RequestFails \/ LeaveWhenDone
  \/ NoResponse \/ FirstTryStalls \/ Receive

StreamSpec == StreamInit /\ [][StreamNext]_streamVars

\* The thread keeps running: waits for a camera, too, return within two seconds.  Nothing is
\* expected of cameras.
FairStream ==
  /\ StreamSpec
  /\ WF_streamVars(WakeUpToExit) /\ WF_streamVars(Connect) /\ WF_streamVars(LeaveWhenDone)

-----------------------------------------------------------------------------
(* Properties.                                                             *)

\* The types, and the indices of the parser are inside the buffer: lengths are computed from
\* them without a sign.
StreamTypeOK ==
  /\ running \in BOOLEAN /\ exitEvent \in BOOLEAN /\ pause \in BOOLEAN /\ failed \in BOOLEAN
  /\ pc \in {"over", "sleep", "connected"} /\ firstTry \in BOOLEAN /\ (running <=> pc # "over")
  /\ stream \in Streams /\ received \in 0..Len(stream.sent) /\ typed \in BOOLEAN
  /\ Len(parser.buffer) <= MaxBuffer
  /\ 0 <= parser.search /\ parser.search <= Len(parser.buffer)
  /\ parser.imageStart >= 0 => parser.imageStart + Len(Magic) <= parser.search

ImageStarts == {stream.images[k][1] : k \in DOMAIN stream.images}
ImageEnds   == {stream.images[k][2] : k \in DOMAIN stream.images}

\* In whatever pieces a stream comes, the listener is given its images: none begins or ends in
\* the middle of one, none between two is left out, and, the boundary being known, none is two
\* in one.  That is as long as no error was reported and no copy did damage.
GivenAreWhole ==
  ~failed /\ ~garbled =>
    /\ \A k \in DOMAIN given :
         /\ given[k][1] \in ImageStarts /\ given[k][2] \in ImageEnds
         /\ ImageStarts \cap ((IF k = 1 THEN 1 ELSE given[k - 1][2] + 1)..(given[k][1] - 1)) = {}
    /\ stream.announced # <<>> => given = SubSeq(stream.images, 1, Len(given))

\* The thread ends when told to, whatever the camera does, unless it is started again; and
\* after an error the camera is tried again, unless the thread is told to end.
StopTakesPlace ==
  /\ exitEvent ~> ~running \/ ~exitEvent
  /\ failed /\ running ~> ~failed \/ ~running \/ exitEvent

=============================================================================
