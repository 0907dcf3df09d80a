------------------------ MODULE ProcessingGraph_proofs ------------------------
(***************************************************************************)
(* For a graph of any number of steps and histories of any length: no      *)
(* configuration is lost, the listeners are given the frame that came      *)
(* last, processed by the steps they are told of, and the averages are     *)
(* those of the latest times.                                              *)
(***************************************************************************)
EXTENDS ProcessingGraph, SequenceTheorems, TLAPS

USE GraphAssumption DEF GraphAssumption, Steps, Kinds, steps, run, images, updates, monitor,
                        history

\* What a step that is run leaves alone, whether it succeeds or not.
LEMMA OutcomeOfStep ==
  ASSUME Succeeds \/ Fails
  PROVE  /\ pc' = pc /\ again' = again /\ fresh' = fresh
         /\ UNCHANGED <<steps, updates, monitor>> /\ Record(step)
         /\ step' = step + 1
         /\ \/ done' = done + 1 /\ failed' = failed
            \/ done' = done /\ failed' = TRUE
BY DEF Succeeds, Fails

-----------------------------------------------------------------------------
(* Configurations.                                                         *)

\* Until the plug-ins are made each step counts as one that gets one.
UpdatesInv ==
  /\ \A s \in Steps : pc = "prepare" \/ plugin[s] => "latest" \in {applied[s], pending[s]}
  /\ pending \in [Steps -> {"none", "latest"}]
  /\ applied \in [Steps -> {"latest", "older"}]

LEMMA UpdatesInvIsInvariant == GraphSpec => []UpdatesInv
<1>1. GraphInit => UpdatesInv
  BY DEF GraphInit, UpdatesInv
<1>2. UpdatesInv /\ [GraphNext]_graphVars => UpdatesInv'
  <2> SUFFICES ASSUME UpdatesInv, [GraphNext]_graphVars PROVE UpdatesInv'
    OBVIOUS
  <2>1. CASE PreparePlugins
    BY <2>1 DEF PreparePlugins, UpdatesInv
  <2>2. CASE NewFrame
    BY <2>2 DEF NewFrame, OnNewImage, UpdatesInv
  <2>3. CASE Begin
    BY <2>3 DEF Begin, UpdatesInv
  <2>4. CASE Step
    <3>1. pc = "run" /\ pc' = pc /\ UNCHANGED <<plugin, updates>>
      BY <2>4, OutcomeOfStep
      DEF Step, StepIsMissing, InPlace, Buffered, BufferedRefused, Script, IsRun, InLoop
    <3> QED
      BY <3>1 DEF UpdatesInv
  <2>5. CASE FinishGraph
    BY <2>5 DEF FinishGraph, GraphIsOver, ApplyUpdates, UpdatesInv
  <2>6. CASE Notify
    BY <2>6 DEF Notify, UpdatesInv
  <2>7. CASE EnableMonitor
    BY <2>7 DEF EnableMonitor, UpdatesInv
  <2>8. CASE \E s \in Steps : SetConfiguration(s)
    BY <2>8 DEF SetConfiguration, UpdatesInv
  <2>9. CASE UNCHANGED graphVars
    BY <2>9 DEF graphVars, UpdatesInv
  <2> QED
    BY <2>1, <2>2, <2>3, <2>4, <2>5, <2>6, <2>7, <2>8, <2>9 DEF GraphNext
<1> QED
  BY <1>1, <1>2, PTL DEF GraphSpec

\* Of the configurations a step is given, the latest is never lost.
THEOREM ConfigurationsAreKept == GraphSpec => []UpdatesAreKept
<1>1. UpdatesInv => UpdatesAreKept
  BY DEF UpdatesInv, UpdatesAreKept
<1> QED
  BY <1>1, UpdatesInvIsInvariant, PTL

-----------------------------------------------------------------------------
(* Histories.                                                              *)

\* From the index on, and from the start on to it, the times grow younger.
Ordered(times, i) ==
  /\ times \in Seq(0..HistoryLength) /\ Len(times) <= HistoryLength
  /\ i \in 0..(HistoryLength - 1) /\ (Len(times) < HistoryLength => i = 0)
  /\ \A j \in 1..Len(times) : /\ j <= i => times[j] = i - j
                              /\ j > i => times[j] = Len(times) + i - j

LEMMA OlderTimes ==
  ASSUME NEW times, NEW i, Ordered(times, i)
  PROVE  /\ Older(times) \in Seq(0..HistoryLength) /\ Len(Older(times)) = Len(times)
         /\ \A j \in 1..Len(times) : Older(times)[j] = times[j] + 1
<1>1. Len(times) \in Nat /\ DOMAIN times = 1..Len(times) /\ times \in [1..Len(times) -> Int]
  BY LenProperties DEF Ordered
<1>2. ASSUME NEW j \in 1..Len(times) PROVE times[j] \in 0..(HistoryLength - 1)
  <2>1. /\ i \in 0..(HistoryLength - 1) /\ Len(times) <= HistoryLength
        /\ (j <= i => times[j] = i - j) /\ (j > i => times[j] = Len(times) + i - j)
    BY DEF Ordered
  <2>2. CASE j <= i
    BY <1>1, <2>1, <2>2
  <2>3. CASE j > i
    BY <1>1, <2>1, <2>3
  <2> QED
    BY <1>1, <2>1, <2>2, <2>3
<1>3. Older(times) \in [1..Len(times) -> 0..HistoryLength]
  BY <1>1, <1>2 DEF Older
<1>4. Older(times) \in Seq(0..HistoryLength) /\ Len(Older(times)) = Len(times)
  BY <1>1, <1>3, SeqDef
<1> QED
  BY <1>1, <1>2, <1>4 DEF Older

\* Storing a time keeps the order, in a ring that is filling and in one that is full.
LEMMA RecordKeepsOrder ==
  ASSUME NEW times, NEW i, Ordered(times, i)
  PROVE  Ordered(Recorded(times, i), Following(times, i))
<1> DEFINE older == Older(times)
<1>1. /\ older \in Seq(0..HistoryLength) /\ Len(older) = Len(times) /\ Len(times) \in Nat
      /\ \A j \in 1..Len(times) : older[j] = times[j] + 1
  BY OlderTimes, LenProperties DEF Ordered
<1>2. /\ i \in 0..(HistoryLength - 1) /\ (Len(times) < HistoryLength => i = 0)
      /\ Len(times) <= HistoryLength
      /\ \A j \in 1..Len(times) : /\ j <= i => times[j] = i - j
                                  /\ j > i => times[j] = Len(times) + i - j
  BY DEF Ordered
<1> HIDE DEF older
<1>3. CASE Len(times) < HistoryLength
  <2>1. /\ Append(older, 0) \in Seq(0..HistoryLength)
        /\ Len(Append(older, 0)) = Len(times) + 1
        /\ \A j \in 1..Len(times) : Append(older, 0)[j] = older[j]
        /\ Append(older, 0)[Len(times) + 1] = 0
    BY <1>1, AppendProperties
  <2>2. Recorded(times, i) = Append(older, 0) /\ Following(times, i) = i /\ i = 0
    BY <1>2, <1>3 DEF Recorded, Following, older
  <2> QED
    BY <1>1, <1>2, <1>3, <2>1, <2>2 DEF Ordered
<1>4. CASE Len(times) = HistoryLength
  <2> DEFINE new == [older EXCEPT ![i + 1] = 0]
  <2>1. /\ new \in Seq(0..HistoryLength) /\ Len(new) = Len(times)
        /\ \A j \in 1..Len(times) : new[j] = IF j = i + 1 THEN 0 ELSE older[j]
    BY <1>1, <1>2, <1>4, ExceptSeq
  <2>2. Recorded(times, i) = new
    BY <1>4 DEF Recorded, older
  <2>3. Following(times, i) = IF i + 1 < HistoryLength THEN i + 1 ELSE 0
    BY <1>4 DEF Following
  <2> HIDE DEF new
  <2>4. CASE i + 1 < HistoryLength
    <3>1. ASSUME NEW j \in 1..Len(new)
          PROVE  /\ j <= i + 1 => new[j] = (i + 1) - j
                 /\ j > i + 1 => new[j] = Len(new) + (i + 1) - j
      <4>1. j \in 1..Len(times)
        BY <2>1
      <4>2. CASE j = i + 1
        BY <1>2, <2>1, <4>1, <4>2
      <4>3. CASE j < i + 1
        <5>1. new[j] = times[j] + 1 /\ times[j] = i - j
          BY <1>1, <1>2, <2>1, <4>1, <4>3
        <5> QED
          BY <1>2, <4>1, <4>3, <5>1
      <4>4. CASE j > i + 1
        <5>1. new[j] = times[j] + 1 /\ times[j] = Len(times) + i - j
          BY <1>1, <1>2, <2>1, <4>1, <4>4
        <5> QED
          BY <1>1, <1>2, <2>1, <4>1, <4>4, <5>1
      <4> QED
        BY <1>2, <4>1, <4>2, <4>3, <4>4
    <3>2. Len(new) = HistoryLength /\ i + 1 \in 0..(HistoryLength - 1)
      BY <1>2, <1>4, <2>1, <2>4
    <3>3. Ordered(new, i + 1)
      BY <2>1, <3>1, <3>2 DEF Ordered
    <3> QED
      BY <2>2, <2>3, <2>4, <3>3
  <2>5. CASE i + 1 = HistoryLength
    <3>1. ASSUME NEW j \in 1..Len(new) PROVE new[j] = Len(new) - j
      <4>1. CASE j = i + 1
        BY <1>4, <2>1, <2>5, <4>1
      <4>2. CASE j # i + 1
        <5>1. j \in 1..Len(times) /\ j <= i
          BY <1>2, <1>4, <2>1, <2>5, <4>2
        <5>2. times[j] = i - j /\ new[j] = times[j] + 1
          BY <1>1, <1>2, <2>1, <4>2, <5>1
        <5> QED
          BY <1>2, <1>4, <2>1, <2>5, <5>1, <5>2
      <4> QED
        BY <4>1, <4>2
    <3>2. Ordered(new, 0)
      BY <1>4, <2>1, <3>1 DEF Ordered
    <3> QED
      BY <2>2, <2>3, <2>5, <3>2
  <2> QED
    BY <1>2, <2>4, <2>5
<1> QED
  BY <1>1, <1>2, <1>3, <1>4

HistoryInv ==
  /\ ring \in [0..N -> Seq(0..HistoryLength)] /\ next \in [0..N -> 0..(HistoryLength - 1)]
  /\ \A k \in 0..N : Ordered(ring[k], next[k])

LEMMA EmptyIsOrdered ==
  /\ EmptyHistory \in [0..N -> Seq(0..HistoryLength)]
  /\ FirstIndices \in [0..N -> 0..(HistoryLength - 1)]
  /\ \A k \in 0..N : Ordered(EmptyHistory[k], FirstIndices[k])
BY EmptySeq DEF EmptyHistory, FirstIndices, Ordered

LEMMA RecordKeepsHistory ==
  ASSUME HistoryInv, NEW k \in 0..N, Record(k)
  PROVE  HistoryInv'
<1>1. Ordered(Recorded(ring[k], next[k]), Following(ring[k], next[k]))
  BY RecordKeepsOrder DEF HistoryInv
<1>2. /\ Recorded(ring[k], next[k]) \in Seq(0..HistoryLength)
      /\ Following(ring[k], next[k]) \in 0..(HistoryLength - 1)
  BY <1>1 DEF Ordered
<1>3. CASE running
  BY <1>1, <1>2, <1>3 DEF Record, HistoryInv
<1>4. CASE ~running
  BY <1>4 DEF Record, HistoryInv
<1> QED
  BY <1>3, <1>4

LEMMA HistoryInvIsInvariant == GraphSpec => []HistoryInv
<1>1. GraphInit => HistoryInv
  BY EmptyIsOrdered DEF GraphInit, HistoryInv
<1>2. HistoryInv /\ [GraphNext]_graphVars => HistoryInv'
  <2> SUFFICES ASSUME HistoryInv, [GraphNext]_graphVars PROVE HistoryInv'
    OBVIOUS
  <2>1. CASE UNCHANGED history
    BY <2>1 DEF HistoryInv
  <2>2. CASE InLoop /\ Record(step)
    BY <2>2, RecordKeepsHistory DEF InLoop
  <2>3. CASE UpdateMonitor
    <3>1. CASE need /\ ~running
      <4>1. ring' = EmptyHistory /\ next' = FirstIndices
        BY <2>3, <3>1 DEF UpdateMonitor
      <4> QED
        BY <4>1, EmptyIsOrdered DEF HistoryInv
    <3>2. CASE ~(need /\ ~running)
      BY <2>3, <3>2, RecordKeepsHistory DEF UpdateMonitor
    <3> QED
      BY <3>1, <3>2
  <2>4. CASE Step
    BY <2>1, <2>2, <2>4, OutcomeOfStep
       DEF Step, StepIsMissing, InPlace, Buffered, BufferedRefused, Script, IsRun
  <2>5. CASE PreparePlugins \/ NewFrame \/ Begin \/ Notify \/ EnableMonitor
             \/ \E s \in Steps : SetConfiguration(s)
    BY <2>1, <2>5
       DEF PreparePlugins, NewFrame, OnNewImage, Begin, Notify, EnableMonitor, SetConfiguration
  <2>6. CASE FinishGraph
    BY <2>3, <2>6 DEF FinishGraph
  <2>7. CASE UNCHANGED graphVars
    BY <2>1, <2>7 DEF graphVars
  <2> QED
    BY <2>4, <2>5, <2>6, <2>7 DEF GraphNext
<1> QED
  BY <1>1, <1>2, PTL DEF GraphSpec

\* The averages are taken over the latest times, however often the monitor is turned on.
THEOREM HistoriesAreRecent == GraphSpec => []HistoryIsRecent
<1>1. HistoryInv => HistoryIsRecent
  <2> SUFFICES ASSUME HistoryInv, NEW k \in 0..N
               PROVE  Range(ring[k]) = 0..(Len(ring[k]) - 1)
    BY DEF HistoryIsRecent
  <2> DEFINE n == Len(ring[k])
  <2>1. /\ n \in Nat /\ DOMAIN ring[k] = 1..n /\ next[k] \in Nat
        /\ n <= HistoryLength /\ next[k] < HistoryLength /\ (n < HistoryLength => next[k] = 0)
        /\ \A j \in 1..n : /\ j <= next[k] => ring[k][j] = next[k] - j
                           /\ j > next[k] => ring[k][j] = n + next[k] - j
    BY LenProperties DEF HistoryInv, Ordered
  <2> HIDE DEF n
  <2>2. ASSUME NEW a \in 0..(n - 1) PROVE \E j \in 1..n : ring[k][j] = a
    <3>1. CASE a < next[k]
      <4>1. next[k] - a \in 1..n /\ next[k] - a <= next[k]
        BY <2>1, <3>1
      <4>2. ring[k][next[k] - a] = a
        BY <2>1, <4>1
      <4> QED
        BY <4>1, <4>2
    <3>2. CASE next[k] <= a
      <4>1. n + next[k] - a \in 1..n /\ n + next[k] - a > next[k]
        BY <2>1, <3>2
      <4>2. ring[k][n + next[k] - a] = a
        BY <2>1, <4>1
      <4> QED
        BY <4>1, <4>2
    <3>3. a < next[k] \/ next[k] <= a
      BY <2>1
    <3> QED
      BY <3>1, <3>2, <3>3
  <2>3. ASSUME NEW j \in 1..n PROVE ring[k][j] \in 0..(n - 1)
    <3>1. CASE j <= next[k]
      BY <2>1, <3>1
    <3>2. CASE j > next[k]
      BY <2>1, <3>2
    <3> QED
      BY <2>1, <3>1, <3>2
  <2>4. Range(ring[k]) = {ring[k][j] : j \in 1..n}
    BY <2>1 DEF Range
  <2> QED
    BY <2>2, <2>3, <2>4 DEF n
<1> QED
  BY <1>1, HistoryInvIsInvariant, PTL

-----------------------------------------------------------------------------
(* Frames.                                                                 *)

FrameTypes ==
  /\ pc \in {"prepare", "idle", "run", "notify"}
  /\ step \in 1..(N + 1) /\ index \in Nat /\ done \in 0..N
  /\ failed \in BOOLEAN /\ again \in BOOLEAN /\ fresh \in BOOLEAN
  /\ buffer \in Seq(Images) /\ last \in Images \cup {NoImage}
  /\ content \in [Images -> Stale..N]

\* The buffer holds each image once, has the first as soon as there is a frame, and no gap
\* before the image of the index.
BufferInv ==
  /\ \A i, j \in 1..Len(buffer) : buffer[i] = buffer[j] => i = j
  /\ last = NoImage => buffer = <<>> /\ index = 0 /\ pc \in {"prepare", "idle"}
  /\ last # NoImage => Len(buffer) >= 1 /\ index <= Len(buffer)
  /\ last # NoImage /\ ~failed => index + 1 <= Len(buffer)

\* A new frame is in the first image.  During a run LastImage has been through the steps done,
\* and the images of the steps to come are others.
RunInv ==
  /\ fresh => pc = "idle" /\ last # NoImage /\ content[last] = 0 /\ last = buffer[1]
  /\ pc = "run" /\ ~failed => step = done + 1 /\ content[last] \in {Stale, done}
  /\ pc \in {"run", "notify"} /\ ~again =>
       content[last] \in IF failed THEN {done, done + 1} ELSE {done}
  /\ pc = "run" /\ ~again /\ ~failed => \A i \in (index + 2)..Len(buffer) : buffer[i] # last

FrameInv == FrameTypes /\ BufferInv /\ RunInv

\* Where a frame may be copied to.
LEMMA FrameKeepsInv ==
  ASSUME FrameInv, NEW image \in Images, OnNewImage(image),
         image \in Unused \/ (buffer # <<>> /\ image = buffer[1])
  PROVE  FrameInv'
<1>1. /\ Len(buffer) \in Nat /\ DOMAIN buffer = 1..Len(buffer)
      /\ Range(buffer) = {buffer[i] : i \in 1..Len(buffer)}
  BY LenProperties DEF FrameInv, FrameTypes, Range
<1>2. /\ buffer' \in Seq(Images) /\ Len(buffer') >= 1 /\ Len(buffer') >= Len(buffer)
      /\ buffer'[1] = image /\ (Len(buffer) = 0 => Len(buffer') = 1)
      /\ \A i, j \in 1..Len(buffer') : buffer'[i] = buffer'[j] => i = j
  <2>1. CASE buffer = <<>>
    BY <2>1, EmptySeq DEF OnNewImage
  <2>2. CASE buffer # <<>>
    <3>1. Len(buffer) >= 1
      BY <2>2, EmptySeq DEF FrameInv, FrameTypes
    <3>2. buffer' = [buffer EXCEPT ![1] = image]
      BY <2>2 DEF OnNewImage
    <3>3. /\ buffer' \in Seq(Images) /\ Len(buffer') = Len(buffer)
          /\ \A i \in 1..Len(buffer) : buffer'[i] = IF i = 1 THEN image ELSE buffer[i]
      BY <1>1, <3>1, <3>2, ExceptSeq DEF FrameInv, FrameTypes
    <3>4. \A i \in 2..Len(buffer) : buffer[i] # image
      BY <1>1, <3>1 DEF Unused, FrameInv, BufferInv
    <3> QED
      BY <1>1, <3>1, <3>3, <3>4 DEF FrameInv, BufferInv
  <2> QED
    BY <2>1, <2>2
<1>3. FrameTypes'
  BY <1>2 DEF OnNewImage, FrameInv, FrameTypes, Stale
<1>4. BufferInv'
  BY <1>1, <1>2 DEF OnNewImage, FrameInv, FrameTypes, BufferInv
<1>5. RunInv'
  BY <1>2 DEF OnNewImage, FrameInv, FrameTypes, RunInv
<1> QED
  BY <1>3, <1>4, <1>5 DEF FrameInv

LEMMA StaleContent == Stale \in Stale..N /\ [i \in Images |-> Stale] \in [Images -> Stale..N]
BY DEF Stale

LEMMA InitFrameInv == GraphInit => FrameInv
<1> SUFFICES ASSUME GraphInit PROVE FrameInv
  OBVIOUS
<1>1. FrameTypes
  <2>1. failed \in BOOLEAN /\ again \in BOOLEAN /\ fresh \in BOOLEAN
    BY DEF GraphInit
  <2>2. content \in [Images -> Stale..N]
    BY StaleContent DEF GraphInit
  <2>3. step \in 1..(N + 1) /\ index \in Nat /\ done \in 0..N
    BY DEF GraphInit
  <2> QED
    BY <2>1, <2>2, <2>3, EmptySeq DEF GraphInit, FrameTypes
<1>2. BufferInv /\ RunInv
  BY EmptySeq DEF GraphInit, BufferInv, RunInv
<1> QED
  BY <1>1, <1>2 DEF FrameInv

LEMMA BeginKeepsInv ==
  ASSUME FrameInv, Begin
  PROVE  FrameInv'
<1>1. FrameTypes'
  <2>1. failed' \in BOOLEAN /\ again' \in BOOLEAN /\ fresh' \in BOOLEAN
    BY DEF Begin
  <2>2. content' \in [Images -> Stale..N]
    BY StaleContent DEF Begin, FrameInv, FrameTypes
  <2> QED
    BY <2>1, <2>2 DEF Begin, FrameInv, FrameTypes
<1>2. BufferInv'
  BY LenProperties DEF Begin, FrameInv, FrameTypes, BufferInv
<1>3. RunInv'
  <2>1. fresh => \A i \in 2..Len(buffer) : buffer[i] # last
    BY LenProperties DEF Begin, FrameInv, FrameTypes, BufferInv, RunInv
  <2>2. CASE fresh
    BY <2>1, <2>2 DEF Begin, FrameInv, FrameTypes, RunInv
  <2>3. CASE ~fresh
    <3>1. again' = TRUE /\ fresh' = FALSE /\ content'[last'] = Stale
      BY <2>3 DEF Begin, FrameInv, FrameTypes
    <3> QED
      BY <3>1 DEF Begin, RunInv
  <2> QED
    BY <2>2, <2>3
<1> QED
  BY <1>1, <1>2, <1>3 DEF FrameInv

\* What is known of LastImage when a step is about to run.
LEMMA BeforeStep ==
  ASSUME FrameInv, InLoop
  PROVE  /\ pc = "run" /\ ~failed /\ step = done + 1 /\ done \in 0..(N - 1) /\ ~fresh
         /\ last \in Images /\ content[last] \in {Stale, done} /\ (~again => content[last] = done)
         /\ Processed(last) \in {Stale, done + 1} /\ (~again => Processed(last) = done + 1)
         /\ Len(buffer) \in Nat /\ index + 1 <= Len(buffer)
         /\ ~again => \A i \in (index + 2)..Len(buffer) : buffer[i] # last
BY LenProperties DEF InLoop, FrameInv, FrameTypes, BufferInv, RunInv, Processed, Stale

LEMMA StepIsMissingKeepsInv ==
  ASSUME FrameInv, StepIsMissing
  PROVE  FrameInv'
BY BeforeStep DEF StepIsMissing, InLoop, FrameInv, FrameTypes, BufferInv, RunInv

LEMMA InPlaceKeepsInv ==
  ASSUME FrameInv, InPlace
  PROVE  FrameInv'
<1>1. InLoop /\ UNCHANGED <<index, buffer, last>>
  BY DEF InPlace, IsRun
<1>2. /\ content' \in {content, [content EXCEPT ![last] = Processed(last)]}
      /\ pc' = pc /\ again' = again /\ fresh' = fresh /\ step' = step + 1
      /\ \/ /\ done' = done + 1 /\ failed' = failed
            /\ content' = [content EXCEPT ![last] = Processed(last)]
         \/ done' = done /\ failed' = TRUE
  BY OutcomeOfStep DEF InPlace, Succeeds, Fails
<1>3. FrameTypes'
  <2>1. failed' \in BOOLEAN /\ again' \in BOOLEAN /\ fresh' \in BOOLEAN
    BY <1>2 DEF FrameInv, FrameTypes
  <2>2. content' \in [Images -> Stale..N]
    BY <1>1, <1>2, BeforeStep DEF FrameInv, FrameTypes, Stale
  <2> QED
    BY <1>1, <1>2, <2>1, <2>2, BeforeStep DEF FrameInv, FrameTypes
<1>4. BufferInv'
  BY <1>1, <1>2, BeforeStep DEF FrameInv, FrameTypes, BufferInv
<1>5. RunInv'
  BY <1>1, <1>2, BeforeStep DEF FrameInv, FrameTypes, RunInv, Stale
<1> QED
  BY <1>3, <1>4, <1>5 DEF FrameInv

\* The image a script sets is LastImage or one outside the buffer.
LEMMA ScriptKeepsInv ==
  ASSUME FrameInv, Script
  PROVE  FrameInv'
<1>1. InLoop /\ UNCHANGED <<index, buffer>>
  BY DEF Script, IsRun
<1>2. PICK image \in Unused \cup {last} :
        /\ last' = image
        /\ \/ Succeeds /\ content' = [content EXCEPT ![image] = Processed(last)]
           \/ Fails    /\ content' \in {[content EXCEPT ![image] = Processed(last)],
                                        [content EXCEPT ![image] = content[last]]}
  BY DEF Script, ScriptImages
<1>3. /\ pc' = pc /\ again' = again /\ fresh' = fresh /\ step' = step + 1
      /\ \/ /\ done' = done + 1 /\ failed' = failed
            /\ content' = [content EXCEPT ![image] = Processed(last)]
         \/ /\ done' = done /\ failed' = TRUE
            /\ content' \in {[content EXCEPT ![image] = Processed(last)],
                             [content EXCEPT ![image] = content[last]]}
  BY <1>2 DEF Succeeds, Fails
<1>4. image \in Images /\ (image = last \/ \A i \in 1..Len(buffer) : buffer[i] # image)
  BY <1>1, <1>2, BeforeStep, LenProperties DEF Unused, Range, FrameInv, FrameTypes
<1> HIDE DEF Unused
<1>5. FrameTypes'
  <2>1. failed' \in BOOLEAN /\ again' \in BOOLEAN /\ fresh' \in BOOLEAN
    BY <1>3 DEF FrameInv, FrameTypes
  <2>2. content' \in [Images -> Stale..N]
    BY <1>1, <1>3, BeforeStep DEF FrameInv, FrameTypes, Stale
  <2> QED
    BY <1>1, <1>2, <1>3, <1>4, <2>1, <2>2, BeforeStep DEF FrameInv, FrameTypes
<1>6. BufferInv'
  BY <1>1, <1>2, <1>3, <1>4, BeforeStep DEF FrameInv, FrameTypes, BufferInv
<1>7. RunInv'
  BY <1>1, <1>2, <1>3, <1>4, BeforeStep DEF FrameInv, FrameTypes, RunInv, Stale
<1> QED
  BY <1>5, <1>6, <1>7 DEF FrameInv

\* The next image of the buffer is not LastImage, and a new one joins its end.
LEMMA BufferedKeepsInv ==
  ASSUME FrameInv, Buffered
  PROVE  FrameInv'
<1>1. InLoop /\ index' = index + 1
  BY DEF Buffered, IsRun
<1>2. /\ Len(buffer) \in Nat /\ DOMAIN buffer = 1..Len(buffer)
      /\ buffer \in [1..Len(buffer) -> Images]
  BY LenProperties DEF FrameInv, FrameTypes
<1> DEFINE old == IF Reused THEN {buffer[index + 2]} ELSE {}
           new == IF Reused THEN {buffer[index + 2]} ELSE Unused
<1>3. ASSUME Fails, content' \in {content} \cup {[content EXCEPT ![i] = Stale] : i \in old},
             UNCHANGED <<buffer, last>>
      PROVE  FrameInv'
  <2>1. /\ pc' = pc /\ again' = again /\ fresh' = fresh /\ step' = step + 1
        /\ done' = done /\ failed' = TRUE
    BY <1>3 DEF Fails
  <2>2. \A i \in old : i \in Images /\ (~again => i # last)
    BY <1>1, <1>2, BeforeStep DEF Reused, FrameInv, FrameTypes
  <2> HIDE DEF old
  <2>3. content' \in [Images -> Stale..N] /\ content'[last] \in {Stale, content[last]}
    BY <1>1, <1>3, <2>2, BeforeStep, StaleContent DEF FrameInv, FrameTypes
  <2>4. ~again => content'[last] = content[last]
    BY <1>1, <1>3, <2>2, BeforeStep DEF FrameInv, FrameTypes
  <2>5. failed' \in BOOLEAN /\ again' \in BOOLEAN /\ fresh' \in BOOLEAN
    BY <2>1 DEF FrameInv, FrameTypes
  <2>6. FrameTypes'
    BY <1>1, <1>3, <2>1, <2>3, <2>5, BeforeStep DEF FrameInv, FrameTypes
  <2>7. BufferInv'
    BY <1>1, <1>3, <2>1, BeforeStep DEF FrameInv, FrameTypes, BufferInv
  <2>8. RunInv'
    BY <1>1, <1>3, <2>1, <2>4, BeforeStep DEF FrameInv, FrameTypes, RunInv
  <2> QED
    BY <2>6, <2>7, <2>8 DEF FrameInv
<1>4. ASSUME Succeeds, NEW image \in new, BufferedInto(image), buffer' = Stored(image)
      PROVE  FrameInv'
  <2>1. /\ pc' = pc /\ again' = again /\ fresh' = fresh /\ step' = step + 1
        /\ done' = done + 1 /\ failed' = failed /\ last' = image
    BY <1>4 DEF Succeeds, BufferedInto
  <2>0. index \in Nat /\ buffer \in Seq(Images) /\ content \in [Images -> Stale..N]
    BY DEF FrameInv, FrameTypes
  <2>2. image \in Images /\ (~again => image # last)
    <3>1. CASE Reused
      <4>1. index + 2 \in 1..Len(buffer) /\ image = buffer[index + 2]
        BY <1>2, <2>0, <3>1 DEF Reused
      <4> QED
        BY <1>1, <1>2, <4>1, BeforeStep
    <3>2. CASE ~Reused
      BY <3>2 DEF Unused
    <3> QED
      BY <3>1, <3>2
  <2>3. content' \in [Images -> Stale..N] /\ content'[image] \in {Stale, done + 1}
    <3>1. (IF image = last THEN Stale ELSE Processed(last)) \in {Stale, done + 1}
      BY <1>1, BeforeStep
    <3>2. {Stale, done + 1} \subseteq Stale..N
      BY <1>1, BeforeStep DEF Stale
    <3> QED
      BY <1>4, <2>0, <2>2, <3>1, <3>2 DEF BufferedInto
  <2>4. ~again => content'[image] = done + 1
    BY <1>1, <1>4, <2>2, BeforeStep DEF BufferedInto, FrameInv, FrameTypes
  <2>5. /\ buffer' \in Seq(Images) /\ Len(buffer') \in Nat /\ index + 2 <= Len(buffer')
        /\ Len(buffer') >= Len(buffer) /\ buffer'[index + 2] = image
        /\ \A i, j \in 1..Len(buffer') : buffer'[i] = buffer'[j] => i = j
    <3>1. CASE Reused
      <4>1. index + 2 \in 1..Len(buffer) /\ image = buffer[index + 2]
        BY <1>2, <2>0, <3>1 DEF Reused
      <4>2. buffer' = [buffer EXCEPT ![index + 2] = image]
        BY <1>4, <3>1 DEF Stored
      <4>3. buffer' = buffer
        BY <1>2, <4>1, <4>2
      <4> QED
        BY <1>2, <2>0, <4>1, <4>3 DEF FrameInv, BufferInv
    <3>2. CASE ~Reused
      <4>1. buffer' = Append(buffer, image) /\ index + 2 = Len(buffer) + 1
        BY <1>1, <1>2, <1>4, <3>2, BeforeStep DEF Stored, Reused, FrameInv, FrameTypes
      <4>2. \A i \in 1..Len(buffer) : buffer[i] # image
        BY <1>2, <3>2 DEF Unused, Range
      <4>3. /\ buffer' \in Seq(Images) /\ Len(buffer') = Len(buffer) + 1
            /\ \A i \in 1..Len(buffer) : buffer'[i] = buffer[i]
            /\ buffer'[Len(buffer) + 1] = image
        BY <2>2, <4>1, AppendProperties DEF FrameInv, FrameTypes
      <4> QED
        BY <1>2, <4>1, <4>2, <4>3 DEF FrameInv, BufferInv
    <3> QED
      BY <3>1, <3>2
  <2>6. /\ step' \in 1..(N + 1) /\ done' \in 0..N /\ index' \in Nat
        /\ index' + 1 <= Len(buffer') /\ index' <= Len(buffer') /\ Len(buffer') >= 1
        /\ pc' = "run" /\ last' \in Images /\ last' # NoImage
    <3>1. pc = "run" /\ step = done + 1 /\ done \in 0..(N - 1)
      BY <1>1, BeforeStep
    <3>2. step' \in 1..(N + 1) /\ done' \in 0..N
      BY <2>1, <3>1
    <3>3. index' \in Nat /\ index' + 1 <= Len(buffer') /\ index' <= Len(buffer')
          /\ Len(buffer') >= 1
      BY <1>1, <2>0, <2>5
    <3> QED
      BY <2>1, <2>2, <3>1, <3>2, <3>3
  <2>7. FrameTypes'
    <3>1. failed' \in BOOLEAN /\ again' \in BOOLEAN /\ fresh' \in BOOLEAN
      BY <2>1 DEF FrameInv, FrameTypes
    <3> QED
      BY <2>1, <2>2, <2>3, <2>5, <2>6, <3>1 DEF FrameInv, FrameTypes
  <2>8. BufferInv'
    BY <2>1, <2>2, <2>5, <2>6 DEF BufferInv
  <2>9. RunInv'
    <3>1. ASSUME NEW i \in (index + 3)..Len(buffer') PROVE buffer'[i] # image
      <4>0. index \in Nat /\ Len(buffer') \in Nat /\ index + 2 <= Len(buffer')
        BY <2>0, <2>5
      <4>1. i \in 1..Len(buffer') /\ index + 2 \in 1..Len(buffer') /\ i # index + 2
        BY <4>0
      <4> QED
        BY <2>5, <4>1
    <3> QED
      BY <1>1, <2>1, <2>2, <2>3, <2>4, <3>1, BeforeStep DEF FrameInv, FrameTypes, RunInv
  <2> QED
    BY <2>7, <2>8, <2>9 DEF FrameInv
<1> QED
  BY <1>3, <1>4 DEF Buffered

\* A step that refuses the format leaves the images alone.
LEMMA RefusedKeepsInv ==
  ASSUME FrameInv, BufferedRefused
  PROVE  FrameInv'
<1>1. /\ InLoop /\ UNCHANGED <<pc, done, again, fresh, index, buffer, last, content>>
      /\ failed' = TRUE /\ step' = step + 1
  BY DEF BufferedRefused, IsRun, Fails
<1>2. FrameTypes'
  BY <1>1, BeforeStep DEF FrameInv, FrameTypes
<1>3. BufferInv'
  BY <1>1, BeforeStep DEF FrameInv, FrameTypes, BufferInv
<1>4. RunInv'
  BY <1>1, BeforeStep DEF FrameInv, FrameTypes, RunInv
<1> QED
  BY <1>2, <1>3, <1>4 DEF FrameInv

LEMMA FrameInvIsInvariant == GraphSpec => []FrameInv
<1>1. FrameInv /\ [GraphNext]_graphVars => FrameInv'
  <2> SUFFICES ASSUME FrameInv, [GraphNext]_graphVars PROVE FrameInv'
    OBVIOUS
  <2>1. CASE PreparePlugins
    BY <2>1 DEF PreparePlugins, FrameInv, FrameTypes, BufferInv, RunInv
  <2>2. CASE NewFrame
    <3>1. PICK image \in Unused \cup (IF buffer = <<>> THEN {} ELSE {buffer[1]}) :
            OnNewImage(image)
      BY <2>2 DEF NewFrame
    <3>2. image \in Unused \/ (buffer # <<>> /\ image = buffer[1])
      BY <3>1
    <3>3. image \in Images
      BY <3>2, EmptySeq, ElementOfSeq DEF Unused, FrameInv, FrameTypes
    <3> QED
      BY <3>1, <3>2, <3>3, FrameKeepsInv
  <2>3. CASE Begin
    BY <2>3, BeginKeepsInv
  <2>4. CASE Step
    BY <2>4, StepIsMissingKeepsInv, InPlaceKeepsInv, BufferedKeepsInv, RefusedKeepsInv,
       ScriptKeepsInv DEF Step
  <2>5. CASE FinishGraph
    BY <2>5 DEF FinishGraph, GraphIsOver, FrameInv, FrameTypes, BufferInv, RunInv
  <2>6. CASE Notify
    BY <2>6 DEF Notify, FrameInv, FrameTypes, BufferInv, RunInv
  <2>7. CASE EnableMonitor
    BY <2>7 DEF EnableMonitor, FrameInv, FrameTypes, BufferInv, RunInv
  <2>8. CASE \E s \in Steps : SetConfiguration(s)
    BY <2>8 DEF SetConfiguration, FrameInv, FrameTypes, BufferInv, RunInv
  <2>9. CASE UNCHANGED graphVars
    BY <2>9 DEF graphVars, FrameInv, FrameTypes, BufferInv, RunInv
  <2> QED
    BY <2>1, <2>2, <2>3, <2>4, <2>5, <2>6, <2>7, <2>8, <2>9 DEF GraphNext
<1> QED
  BY InitFrameInv, <1>1, PTL DEF GraphSpec

\* The listeners are given the frame that came last, processed by the steps they are told of.
THEOREM ListenersGetTheFrame == GraphSpec => []NotifiedIsProcessed
<1>1. FrameInv => NotifiedIsProcessed
  BY DEF FrameInv, RunInv, NotifiedIsProcessed
<1> QED
  BY <1>1, FrameInvIsInvariant, PTL

StepTypes ==
  /\ graph \in Graphs /\ plugin \in [Steps -> BOOLEAN] /\ stepFailed \in 0..N
  /\ need \in BOOLEAN /\ running \in BOOLEAN

LEMMA StepTypesIsInvariant == GraphSpec => []StepTypes
<1>1. GraphInit => StepTypes
  <2> SUFFICES ASSUME GraphInit PROVE StepTypes
    OBVIOUS
  <2>1. need \in BOOLEAN /\ running \in BOOLEAN
    BY DEF GraphInit
  <2> QED
    BY <2>1 DEF GraphInit, StepTypes
<1>2. StepTypes /\ [GraphNext]_graphVars => StepTypes'
  <2> SUFFICES ASSUME StepTypes, [GraphNext]_graphVars PROVE StepTypes'
    OBVIOUS
  <2>1. CASE PreparePlugins
    <3>1. PICK broken \in SUBSET {s \in Steps : plugin'[s] /\ graph[s] = "script"} :
            \/ broken = {} /\ stepFailed' = 0
            \/ stepFailed' \in broken /\ \A s \in broken : s <= stepFailed'
      BY <2>1 DEF PreparePlugins
    <3>2. stepFailed' \in 0..N
      <4>1. CASE stepFailed' = 0
        BY <4>1
      <4>2. CASE stepFailed' \in broken
        BY <3>1, <4>2
      <4> QED
        BY <3>1, <4>1, <4>2
    <3>3. plugin' \in [Steps -> BOOLEAN] /\ UNCHANGED <<graph, monitor>>
      BY <2>1 DEF PreparePlugins
    <3> QED
      BY <3>2, <3>3 DEF StepTypes
  <2>2. CASE UNCHANGED <<steps, monitor>>
    BY <2>2 DEF StepTypes
  <2>3. CASE FinishGraph
    BY <2>3 DEF FinishGraph, UpdateMonitor, StepTypes
  <2>4. CASE EnableMonitor
    BY <2>4 DEF EnableMonitor, StepTypes
  <2>5. CASE NewFrame \/ Begin \/ Notify \/ \E s \in Steps : SetConfiguration(s)
    BY <2>2, <2>5 DEF NewFrame, OnNewImage, Begin, Notify, SetConfiguration
  <2>6. CASE Step
    BY <2>2, <2>6, OutcomeOfStep
       DEF Step, StepIsMissing, InPlace, Buffered, BufferedRefused, Script
  <2>7. CASE UNCHANGED graphVars
    BY <2>2, <2>7 DEF graphVars
  <2> QED
    BY <2>1, <2>3, <2>4, <2>5, <2>6, <2>7 DEF GraphNext
<1> QED
  BY <1>1, <1>2, PTL DEF GraphSpec

\* The variables keep their types, and the index never skips an image of the buffer.
THEOREM GraphTypes == GraphSpec => []GraphTypeOK
<1>1. StepTypes /\ FrameInv /\ UpdatesInv /\ HistoryInv => GraphTypeOK
  <2> SUFFICES ASSUME StepTypes, FrameInv, UpdatesInv, HistoryInv PROVE GraphTypeOK
    OBVIOUS
  <2>1. last # NoImage => index + (IF failed THEN 0 ELSE 1) <= Len(buffer)
    BY LenProperties DEF FrameInv, FrameTypes, BufferInv
  <2>2. pending \in [Steps -> {"none", "latest", "older"}]
    BY DEF UpdatesInv
  <2> QED
    BY <2>1, <2>2
       DEF GraphTypeOK, StepTypes, FrameInv, FrameTypes, UpdatesInv, HistoryInv
<1> QED
  BY <1>1, StepTypesIsInvariant, FrameInvIsInvariant, UpdatesInvIsInvariant,
     HistoryInvIsInvariant, PTL

=============================================================================
