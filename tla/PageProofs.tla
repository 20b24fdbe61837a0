----------------------------- MODULE PageProofs -----------------------------
(***************************************************************************)
(* Theorems about what the pages show: the log of an instance, from        *)
(* LogStream, its progress, from InstanceProgress, and the inventory of    *)
(* the project, from FanOut and ResourceScan; for any number of items,     *)
(* sources, workers, attempts, scans and instances.                        *)
(*                                                                         *)
(* Of FanOut: an answer is whole.  The invariant says of each map that an  *)
(* item which was taken is busy or done unless the map is rejected, and    *)
(* that no worker rests while an item is left.                             *)
(*                                                                         *)
(* Of ResourceScan: a scan accounts for everything, and shows nothing      *)
(* under an id that is too short.  The invariant says of each source that  *)
(* a worker is done with that what existed during all of the scan was      *)
(* found in it, or the source is named.                                    *)
(***************************************************************************)
EXTENDS LogStream, InstanceProgress, FanOut, ResourceScan, SequenceFacts

-----------------------------------------------------------------------------
(* The log.                                                                *)

Frames == [chunk : Seq(Int), status : PageStatuses \cup {NoAnswer}]

StreamTypes ==
    /\ logFile \in Nat
    /\ recorded \in PageStatuses \cup {Gone}
    /\ stream \in [open : BOOLEAN, offset : Nat, frames : Seq(Frames), writing : BOOLEAN]
    /\ shownLog \in Seq(Int)
    /\ cleared \in Int
    /\ breaks \in Nat

Chunks(frames) == [k \in DOMAIN frames |-> frames[k].chunk]

\* The last lines of s are those of the file after from, up to to.
EndsWith(s, from, to) ==
    /\ to - from <= Len(s)
    /\ \A k \in 1..(to - from) : s[Len(s) - (to - from) + k] = from + k

\* The lines of the file after from, up to to.
LinesBetween(s, from, to) == Len(s) = to - from /\ \A k \in 1..Len(s) : s[k] = from + k

\* Of the lines that came to the page and are still to come, the lines since
\* the page was emptied are the last; those still to come are the last that
\* were read, so that emptying the page now leaves the rest whole.
StreamInv ==
    /\ StreamTypes
    /\ stream.offset <= logFile
    /\ stream.open =>
          /\ cleared <= stream.offset
          /\ EndsWith(shownLog \o OnItsWay, cleared, stream.offset)
          /\ EndsWith(OnItsWay, stream.offset - Len(OnItsWay), stream.offset)
    /\ breaks = 0 => stream.open /\ Len(shownLog \o OnItsWay) = stream.offset - cleared

\* EndsWith is the suffix that StreamIsWhole is about.
LEMMA EndsWithIs ==
    ASSUME NEW s \in Seq(Int), NEW from \in Int, NEW to \in Int, from <= to, EndsWith(s, from, to)
    PROVE  IsSuffix(Lines(from, to), s) /\ (Len(s) = to - from => s = Lines(from, to))
<1>1. Lines(from, to) \in Seq(Int) /\ Len(Lines(from, to)) = to - from
  BY DEF Lines
<1>2. \A k \in 1..(to - from) : Lines(from, to)[k] = from + k
  BY DEF Lines
<1>3. IsSuffix(Lines(from, to), s)
  BY <1>1, <1>2, SuffixIs DEF EndsWith
<1>4. ASSUME Len(s) = to - from PROVE s = Lines(from, to)
  BY <1>1, <1>2, <1>4, SeqEqual DEF EndsWith
<1> QED
  BY <1>3, <1>4

\* The lines of frames, of one more frame and of one less.
LEMMA WayType == \A frames \in Seq(Frames) : Chunks(frames) \in Seq(Seq(Int)) /\ FlattenSeq(Chunks(frames)) \in Seq(Int)
<1>1. ASSUME NEW frames \in Seq(Frames) PROVE Chunks(frames) \in Seq(Seq(Int))
  <2>1. Len(frames) \in Nat /\ Chunks(frames) = [k \in 1..Len(frames) |-> frames[k].chunk]
    BY LenProperties DEF Chunks
  <2>2. \A k \in 1..Len(frames) : frames[k] \in Frames
    BY ElementOfSeq
  <2>3. \A f \in Frames : f.chunk \in Seq(Int)
    BY DEF Frames
  <2> QED
    BY <2>1, <2>2, <2>3
<1> QED
  BY <1>1, FlattenType

LEMMA WayAppend ==
    ASSUME NEW frames \in Seq(Frames), NEW f \in Frames
    PROVE  FlattenSeq(Chunks(Append(frames, f))) = FlattenSeq(Chunks(frames)) \o f.chunk
<1>1. Chunks(Append(frames, f)) = Append(Chunks(frames), f.chunk)
  BY DEF Chunks
<1>2. Chunks(frames) \in Seq(Seq(Int)) /\ f.chunk \in Seq(Int)
  BY WayType DEF Frames
<1> QED
  BY <1>1, <1>2, FlattenAppend

LEMMA WayHeadTail ==
    ASSUME NEW frames \in Seq(Frames), frames # <<>>
    PROVE  FlattenSeq(Chunks(frames)) = Head(frames).chunk \o FlattenSeq(Chunks(Tail(frames)))
<1>1. Chunks(Tail(frames)) = Tail(Chunks(frames)) /\ Head(Chunks(frames)) = Head(frames).chunk
  BY DEF Chunks
<1>2. Chunks(frames) \in Seq(Seq(Int)) /\ Chunks(frames) # <<>>
  BY WayType DEF Chunks
<1> QED
  BY <1>1, <1>2, FlattenHeadTail

LEMMA WayEmpty == FlattenSeq(Chunks(<<>>)) = <<>>
<1>1. Chunks(<<>>) = [k \in {} |-> <<>>[k].chunk] /\ <<>> = [k \in {} |-> <<>>[k].chunk]
  BY DEF Chunks
<1> QED
  BY <1>1, FlattenEmpty

-----------------------------------------------------------------------------
(* Steps of the stream.                                                    *)

\* A frame with the lines up to the end of the file, or with none.
LEMMA LinesAdded ==
    ASSUME NEW shown \in Seq(Int), NEW way \in Seq(Int), NEW chunk \in Seq(Int),
           NEW from \in Int, NEW to \in Int, NEW end \in Int,
           from <= to, to <= end,
           EndsWith(shown \o way, from, to), EndsWith(way, to - Len(way), to),
           LinesBetween(chunk, to, end)
    PROVE  /\ EndsWith(shown \o (way \o chunk), from, end)
           /\ EndsWith(way \o chunk, end - Len(way \o chunk), end)
           /\ Len(shown \o (way \o chunk)) = Len(shown \o way) + (end - to)
<1>1. /\ way \o chunk \in Seq(Int)
      /\ Len(way \o chunk) = Len(way) + Len(chunk)
      /\ \A k \in 1..(Len(way) + Len(chunk)) :
            (way \o chunk)[k] = IF k <= Len(way) THEN way[k] ELSE chunk[k - Len(way)]
  BY ConcatProperties
<1> DEFINE w == way \o chunk
           all == shown \o way
           a == shown \o w
<1>2. /\ Len(a) = Len(shown) + Len(w)
      /\ \A k \in 1..(Len(shown) + Len(w)) : a[k] = IF k <= Len(shown) THEN shown[k] ELSE w[k - Len(shown)]
  <2>1. w \in Seq(Int)
    BY <1>1
  <2> HIDE DEF w
  <2> QED
    BY <2>1, ConcatProperties
<1>3. /\ Len(all) = Len(shown) + Len(way)
      /\ \A k \in 1..(Len(shown) + Len(way)) : all[k] = IF k <= Len(shown) THEN shown[k] ELSE way[k - Len(shown)]
  BY ConcatProperties
<1>4. /\ EndsWith(all, from, to) /\ EndsWith(way, to - Len(way), to)
      /\ Len(chunk) = end - to /\ \A k \in 1..Len(chunk) : chunk[k] = to + k
  BY DEF LinesBetween
<1>5. Len(shown) \in Nat /\ Len(way) \in Nat /\ Len(chunk) \in Nat /\ Len(chunk) = end - to
  BY <1>4
<1> HIDE DEF a, all, w
<1>6. \A k \in 1..Len(all) : a[k] = all[k]
  <2> SUFFICES ASSUME NEW k \in 1..Len(all) PROVE a[k] = all[k]
    OBVIOUS
  <2> k \in Int
    BY <1>3, <1>5
  <2>1. CASE k <= Len(shown)
    <3>1. k \in 1..(Len(shown) + Len(w)) /\ k \in 1..(Len(shown) + Len(way))
      BY <1>1, <1>3, <1>5 DEF w
    <3> QED
      BY <2>1, <3>1, <1>2, <1>3
  <2>2. CASE k > Len(shown)
    <3>1. k - Len(shown) \in 1..Len(way) /\ k - Len(shown) \in 1..(Len(way) + Len(chunk))
          /\ k \in 1..(Len(shown) + Len(w)) /\ k \in 1..(Len(shown) + Len(way))
      BY <2>2, <1>1, <1>3, <1>5 DEF w
    <3>2. w[k - Len(shown)] = way[k - Len(shown)]
      BY <3>1, <1>1 DEF w
    <3> QED
      BY <2>2, <3>1, <3>2, <1>2, <1>3, <1>5
  <2> QED
    BY <2>1, <2>2, <1>5
<1>7. Len(a) = Len(all) + Len(chunk)
  BY <1>1, <1>2, <1>3, <1>5 DEF w
<1>8. \A k \in 1..Len(chunk) : a[Len(all) + k] = chunk[k]
  <2> SUFFICES ASSUME NEW k \in 1..Len(chunk) PROVE a[Len(all) + k] = chunk[k]
    OBVIOUS
  <2>1. Len(way) + k \in 1..(Len(way) + Len(chunk)) /\ (Len(way) + k) - Len(way) = k /\ ~(Len(way) + k <= Len(way))
    BY <1>5
  <2>2. w[Len(way) + k] = chunk[k]
    BY <2>1, <1>1 DEF w
  <2>3. /\ Len(all) + k \in 1..(Len(shown) + Len(w)) /\ ~(Len(all) + k <= Len(shown))
        /\ (Len(all) + k) - Len(shown) = Len(way) + k
    BY <1>1, <1>3, <1>5 DEF w
  <2> QED
    BY <1>2, <2>2, <2>3
<1>9. EndsWith(a, from, end)
  <2>1. end - from <= Len(a) /\ Len(all) \in Nat
    BY <1>3, <1>4, <1>5, <1>7 DEF EndsWith
  <2>2. ASSUME NEW k \in 1..(end - from) PROVE a[Len(a) - (end - from) + k] = from + k
    <3>1. Len(a) - (end - from) = Len(all) - (to - from)
      BY <1>7, <2>1, <1>5
    <3>2. CASE k <= to - from
      <4>1. k \in 1..(to - from) /\ Len(all) - (to - from) + k \in 1..Len(all)
        BY <3>2, <2>1, <1>4 DEF EndsWith
      <4> QED
        BY <4>1, <3>1, <1>6, <1>4 DEF EndsWith
    <3>3. CASE k > to - from
      <4>1. k - (to - from) \in 1..Len(chunk) /\ Len(all) - (to - from) + k = Len(all) + (k - (to - from))
        BY <3>3, <2>1, <1>5
      <4>2. a[Len(all) + (k - (to - from))] = to + (k - (to - from))
        BY <4>1, <1>4, <1>8
      <4>3. to + (k - (to - from)) = from + k
        OBVIOUS
      <4> QED
        BY <4>1, <4>2, <4>3, <3>1
    <3> QED
      BY <3>2, <3>3
  <2> QED
    BY <2>1, <2>2 DEF EndsWith
<1>10. EndsWith(w, end - Len(w), end)
  <2>1. Len(w) = Len(way) + Len(chunk) /\ end - Len(w) = to - Len(way) /\ end - (end - Len(w)) = Len(w)
    BY <1>1, <1>5 DEF w
  <2>2. ASSUME NEW k \in 1..Len(w) PROVE w[k] = (to - Len(way)) + k
    <3>1. CASE k <= Len(way)
      <4>1. k \in 1..Len(way) /\ k \in 1..(Len(way) + Len(chunk)) /\ to - (to - Len(way)) = Len(way) /\ Len(way) - Len(way) + k = k
        BY <3>1, <1>5
      <4> QED
        BY <4>1, <1>1, <1>4 DEF EndsWith, w
    <3>2. CASE k > Len(way)
      <4>1. k - Len(way) \in 1..Len(chunk) /\ k \in 1..(Len(way) + Len(chunk)) /\ ~(k <= Len(way))
        BY <3>2, <2>1, <1>5
      <4> QED
        BY <4>1, <1>1, <1>4, <1>5 DEF w
    <3> QED
      BY <3>1, <3>2, <1>5
  <2> QED
    BY <2>1, <2>2, <1>5 DEF EndsWith
<1>11. Len(a) = Len(all) + (end - to)
  BY <1>5, <1>7
<1> QED
  BY <1>9, <1>10, <1>11 DEF a, all, w

\* A frame of the stream comes to the page.
LEMMA LinesMoved ==
    ASSUME NEW shown \in Seq(Int), NEW chunk \in Seq(Int), NEW way \in Seq(Int),
           NEW to \in Int, EndsWith(chunk \o way, to - Len(chunk \o way), to)
    PROVE  /\ (shown \o chunk) \o way = shown \o (chunk \o way)
           /\ EndsWith(way, to - Len(way), to)
<1>1. (shown \o chunk) \o way = shown \o (chunk \o way)
  BY ConcatAssociative
<1>2. Len(chunk) \in Nat /\ Len(way) \in Nat
  OBVIOUS
<1>3. /\ Len(chunk \o way) = Len(chunk) + Len(way)
      /\ \A k \in 1..(Len(chunk) + Len(way)) :
            (chunk \o way)[k] = IF k <= Len(chunk) THEN chunk[k] ELSE way[k - Len(chunk)]
  BY ConcatProperties
<1>4. \A k \in 1..(Len(chunk) + Len(way)) : (chunk \o way)[k] = to - (Len(chunk) + Len(way)) + k
  <2> DEFINE all == chunk \o way
             n == Len(chunk) + Len(way)
  <2>1. EndsWith(all, to - n, to) /\ Len(all) = n /\ n \in Nat
    BY <1>2, <1>3
  <2> HIDE DEF all, n
  <2>2. to - (to - n) = n /\ n - n = 0
    BY <2>1
  <2>3. \A k \in 1..n : all[k] = to - n + k
    BY <2>1, <2>2 DEF EndsWith
  <2> QED
    BY <2>3 DEF all, n
<1>5. ASSUME NEW k \in 1..Len(way) PROVE way[k] = (to - Len(way)) + k
  <2>1. Len(chunk) + k \in 1..(Len(chunk) + Len(way)) /\ ~(Len(chunk) + k <= Len(chunk))
        /\ (Len(chunk) + k) - Len(chunk) = k
    BY <1>2
  <2>2. way[k] = to - (Len(chunk) + Len(way)) + (Len(chunk) + k)
    BY <1>3, <1>4, <2>1
  <2> QED
    BY <1>2, <2>2
<1> QED
  BY <1>1, <1>2, <1>5 DEF EndsWith

\* What the invariant says without the frames' own sequence.
LEMMA StreamWay ==
    ASSUME StreamTypes
    PROVE  /\ OnItsWay = FlattenSeq(Chunks(stream.frames)) /\ OnItsWay \in Seq(Int)
           /\ shownLog \o OnItsWay \in Seq(Int)
           /\ stream.frames \in Seq(Frames) /\ stream.offset \in Nat
<1>1. OnItsWay = FlattenSeq(Chunks(stream.frames)) /\ stream.frames \in Seq(Frames) /\ stream.offset \in Nat
  BY DEF OnItsWay, Chunks, StreamTypes
<1> QED
  BY <1>1, WayType DEF StreamTypes

LEMMA SendChunkInv == StreamInv /\ SendChunk => StreamInv'
<1> SUFFICES ASSUME StreamInv, SendChunk PROVE StreamInv'
  OBVIOUS
<1> DEFINE frame == ChunkFrame(stream.offset, logFile)
<1>1. StreamTypes /\ stream.open
  BY DEF StreamInv, SendChunk
<1>2. /\ OnItsWay \in Seq(Int) /\ OnItsWay = FlattenSeq(Chunks(stream.frames)) /\ shownLog \in Seq(Int)
      /\ stream.frames \in Seq(Frames) /\ stream.offset \in Nat /\ logFile \in Nat /\ stream.offset <= logFile
  BY <1>1, StreamWay DEF StreamInv, StreamTypes
<1>3. frame \in Frames /\ LinesBetween(frame.chunk, stream.offset, logFile)
  <2>1. ASSUME NEW from \in Nat, NEW to \in Nat, from <= to
        PROVE  ChunkFrame(from, to) \in Frames /\ LinesBetween(ChunkFrame(from, to).chunk, from, to)
    <3> DEFINE c == [k \in 1..(to - from) |-> from + k]
    <3>1. c \in Seq(Int) /\ Len(c) = to - from /\ \A k \in 1..(to - from) : c[k] = from + k
      BY <2>1
    <3>2. ChunkFrame(from, to) = [chunk |-> c, status |-> NoAnswer]
      BY DEF ChunkFrame
    <3> HIDE DEF c
    <3> QED
      BY <3>1, <3>2 DEF Frames, LinesBetween
  <2> QED
    BY <1>2, <2>1
<1>4. /\ stream'.open /\ stream'.offset = logFile /\ stream' \in [open : BOOLEAN, offset : Nat, frames : Seq(Frames), writing : BOOLEAN]
      /\ stream'.frames = IF logFile > stream.offset THEN Append(stream.frames, frame) ELSE stream.frames
  <2> DEFINE sent == IF logFile > stream.offset THEN Append(stream.frames, frame) ELSE stream.frames
  <2> HIDE DEF frame
  <2>1. sent \in Seq(Frames)
    BY <1>2, <1>3
  <2>2. stream' = [stream EXCEPT !.writing = TRUE, !.offset = logFile, !.frames = sent]
    BY DEF SendChunk, frame
  <2>3. stream \in [open : BOOLEAN, offset : Nat, frames : Seq(Frames), writing : BOOLEAN]
    BY <1>1 DEF StreamTypes
  <2> HIDE DEF sent
  <2>4. stream' \in [open : BOOLEAN, offset : Nat, frames : Seq(Frames), writing : BOOLEAN]
        /\ stream'.open = stream.open /\ stream'.offset = logFile /\ stream'.frames = sent
    BY <1>2, <2>1, <2>2, <2>3
  <2> QED
    BY <1>1, <2>4 DEF sent
<1> HIDE DEF frame
<1>5. StreamTypes'
  BY <1>1, <1>4 DEF SendChunk, StreamTypes
<1>6. OnItsWay' = FlattenSeq(Chunks(stream'.frames))
  BY DEF OnItsWay, Chunks
<1>7. OnItsWay' = IF logFile > stream.offset THEN OnItsWay \o frame.chunk ELSE OnItsWay
  BY <1>2, <1>3, <1>4, <1>6, WayAppend
<1>8. /\ EndsWith((shownLog \o OnItsWay)', cleared, logFile)
      /\ EndsWith(OnItsWay', logFile - Len(OnItsWay'), logFile)
      /\ Len((shownLog \o OnItsWay)') = Len(shownLog \o OnItsWay) + (logFile - stream.offset)
  <2>1. /\ EndsWith(shownLog \o OnItsWay, cleared, stream.offset) /\ cleared <= stream.offset /\ cleared \in Int
        /\ EndsWith(OnItsWay, stream.offset - Len(OnItsWay), stream.offset)
    BY <1>1 DEF StreamInv, StreamTypes
  <2>2. shownLog' = shownLog
    BY DEF SendChunk
  <2>3. CASE logFile > stream.offset
    <3>1. frame.chunk \in Seq(Int)
      BY <1>3 DEF Frames
    <3>2. OnItsWay' = OnItsWay \o frame.chunk
      BY <1>7, <2>3
    <3>3. /\ EndsWith(shownLog \o (OnItsWay \o frame.chunk), cleared, logFile)
          /\ EndsWith(OnItsWay \o frame.chunk, logFile - Len(OnItsWay \o frame.chunk), logFile)
          /\ Len(shownLog \o (OnItsWay \o frame.chunk)) = Len(shownLog \o OnItsWay) + (logFile - stream.offset)
      <4> DEFINE to == stream.offset
                 end == logFile
                 from == cleared
                 chunk == frame.chunk
                 way == OnItsWay
                 shown == shownLog
      <4>1. /\ shown \in Seq(Int) /\ way \in Seq(Int) /\ chunk \in Seq(Int)
            /\ to \in Int /\ end \in Int /\ from \in Int
        BY <1>2, <2>1, <3>1
      <4>2. from <= to /\ to <= end
        BY <1>2, <2>1
      <4>3. EndsWith(shown \o way, from, to) /\ EndsWith(way, to - Len(way), to)
        BY <2>1
      <4>4. LinesBetween(chunk, to, end)
        BY <1>3
      <4> HIDE DEF to, end, from, chunk, way, shown
      <4>5. /\ EndsWith(shown \o (way \o chunk), from, end)
            /\ EndsWith(way \o chunk, end - Len(way \o chunk), end)
            /\ Len(shown \o (way \o chunk)) = Len(shown \o way) + (end - to)
        BY <4>1, <4>2, <4>3, <4>4, LinesAdded
      <4> QED
        BY <4>5 DEF to, end, from, chunk, way, shown
    <3> QED
      BY <2>2, <3>2, <3>3
  <2>4. CASE ~(logFile > stream.offset)
    <3>1. OnItsWay' = OnItsWay /\ logFile = stream.offset
      BY <1>2, <1>7, <2>4
    <3>2. Len(shownLog \o OnItsWay) \in Nat
      BY <1>1, StreamWay, LenProperties
    <3> QED
      BY <1>2, <2>1, <2>2, <3>1, <3>2
  <2> QED
    BY <2>3, <2>4
<1>9. cleared' = cleared /\ breaks' = breaks /\ logFile' = logFile
  BY DEF SendChunk
<1>10. Len(shownLog \o OnItsWay) \in Nat /\ cleared \in Int /\ cleared <= stream.offset
  BY <1>1, StreamWay, LenProperties DEF StreamInv, StreamTypes
<1> QED
  BY <1>1, <1>2, <1>4, <1>5, <1>8, <1>9, <1>10 DEF StreamInv

\* A frame with a status has no lines.
LEMMA SendStatusInv == StreamInv /\ SendStatus => StreamInv'
<1> SUFFICES ASSUME StreamInv, SendStatus PROVE StreamInv'
  OBVIOUS
<1> DEFINE frame == StatusFrame(IF recorded = Gone THEN NoAnswer ELSE recorded)
<1>1. StreamTypes /\ stream.frames \in Seq(Frames) /\ OnItsWay \in Seq(Int)
      /\ OnItsWay = FlattenSeq(Chunks(stream.frames))
  BY StreamWay DEF StreamInv
<1>2. frame \in Frames /\ frame.chunk = <<>>
  <2>1. (IF recorded = Gone THEN NoAnswer ELSE recorded) \in PageStatuses \cup {NoAnswer}
    BY <1>1 DEF StreamTypes
  <2>2. <<>> \in Seq(Int)
    BY EmptySeq
  <2> QED
    BY <2>1, <2>2 DEF StatusFrame, Frames
<1>3. stream' = [stream EXCEPT !.writing = FALSE, !.frames = Append(stream.frames, frame)]
  BY DEF SendStatus
<1> HIDE DEF frame
<1>4. /\ stream' \in [open : BOOLEAN, offset : Nat, frames : Seq(Frames), writing : BOOLEAN]
      /\ stream'.open = stream.open /\ stream'.offset = stream.offset
      /\ stream'.frames = Append(stream.frames, frame)
  <2> DEFINE sent == Append(stream.frames, frame)
  <2>1. sent \in Seq(Frames)
    BY <1>1, <1>2
  <2> HIDE DEF sent
  <2>2. stream \in [open : BOOLEAN, offset : Nat, frames : Seq(Frames), writing : BOOLEAN]
        /\ stream' = [stream EXCEPT !.writing = FALSE, !.frames = sent]
    BY <1>1, <1>3 DEF StreamTypes, sent
  <2>3. /\ stream' \in [open : BOOLEAN, offset : Nat, frames : Seq(Frames), writing : BOOLEAN]
        /\ stream'.open = stream.open /\ stream'.offset = stream.offset /\ stream'.frames = sent
    BY <2>1, <2>2
  <2> QED
    BY <2>3 DEF sent
<1>5. OnItsWay' = OnItsWay
  <2>1. OnItsWay' = FlattenSeq(Chunks(stream'.frames))
    BY DEF OnItsWay, Chunks
  <2>2. OnItsWay' = OnItsWay \o <<>>
    BY <1>1, <1>2, <1>4, <2>1, WayAppend
  <2> QED
    BY <1>1, <2>2, ConcatEmptySeq
<1>6. StreamTypes'
  BY <1>1, <1>4 DEF SendStatus, StreamTypes
<1> QED
  BY <1>4, <1>5, <1>6 DEF SendStatus, StreamInv

LEMMA ReceiveInv == StreamInv /\ Receive => StreamInv'
<1> SUFFICES ASSUME StreamInv, Receive PROVE StreamInv'
  OBVIOUS
<1> DEFINE chunk == Head(stream.frames).chunk
           rest == Tail(stream.frames)
<1>1. /\ StreamTypes /\ stream.frames \in Seq(Frames) /\ OnItsWay \in Seq(Int) /\ stream.frames # <<>>
      /\ OnItsWay = FlattenSeq(Chunks(stream.frames))
  BY StreamWay DEF StreamInv, Receive
<1>2. chunk \in Seq(Int) /\ rest \in Seq(Frames)
  <2>1. Head(stream.frames) \in Frames /\ rest \in Seq(Frames)
    BY <1>1, HeadTailProperties
  <2> QED
    BY <2>1 DEF Frames
<1>3. stream' = [stream EXCEPT !.frames = rest] /\ shownLog' = shownLog \o chunk
  BY DEF Receive
<1>4. OnItsWay = chunk \o FlattenSeq(Chunks(rest)) /\ FlattenSeq(Chunks(rest)) \in Seq(Int)
  BY <1>1, <1>2, WayHeadTail, WayType
<1> HIDE DEF chunk, rest
<1>5. /\ stream' \in [open : BOOLEAN, offset : Nat, frames : Seq(Frames), writing : BOOLEAN]
      /\ stream'.open = stream.open /\ stream'.offset = stream.offset /\ stream'.frames = rest
  <2>1. stream \in [open : BOOLEAN, offset : Nat, frames : Seq(Frames), writing : BOOLEAN]
    BY <1>1 DEF StreamTypes
  <2> QED
    BY <1>2, <1>3, <2>1
<1>6. OnItsWay' = FlattenSeq(Chunks(rest)) /\ OnItsWay' \in Seq(Int) /\ OnItsWay = chunk \o OnItsWay'
  BY <1>4, <1>5 DEF OnItsWay, Chunks
<1>7. (shownLog \o chunk) \o OnItsWay' = shownLog \o OnItsWay
  <2>1. ASSUME NEW way \in Seq(Int) PROVE (shownLog \o chunk) \o way = shownLog \o (chunk \o way)
    <3>1. shownLog \in Seq(Int)
      BY <1>1 DEF StreamTypes
    <3> QED
      BY <1>2, <3>1, ConcatAssociative
  <2> QED
    BY <1>6, <2>1
<1>8. StreamTypes'
  <2>1. shownLog' \in Seq(Int)
    BY <1>1, <1>2, <1>3 DEF StreamTypes
  <2> QED
    BY <1>1, <1>5, <2>1 DEF Receive, StreamTypes
<1>9. stream.open => EndsWith(OnItsWay', stream.offset - Len(OnItsWay'), stream.offset)
  <2> SUFFICES ASSUME stream.open PROVE EndsWith(OnItsWay', stream.offset - Len(OnItsWay'), stream.offset)
    OBVIOUS
  <2> DEFINE way == OnItsWay'
             to == stream.offset
             shown == shownLog
  <2>1. EndsWith(chunk \o way, to - Len(chunk \o way), to)
    BY <1>6 DEF StreamInv
  <2>2. way \in Seq(Int) /\ to \in Int /\ shown \in Seq(Int)
    BY <1>1, <1>6 DEF StreamTypes
  <2> HIDE DEF way, to, shown
  <2>3. EndsWith(way, to - Len(way), to)
    BY <1>2, <2>1, <2>2, LinesMoved
  <2> QED
    BY <2>3 DEF way, to
<1> QED
  BY <1>3, <1>5, <1>7, <1>8, <1>9 DEF Receive, StreamInv

LEMMA StreamBreaksInv == StreamInv /\ StreamBreaks => StreamInv'
<1> SUFFICES ASSUME StreamInv, StreamBreaks PROVE StreamInv'
  OBVIOUS
<1>1. stream' = [stream EXCEPT !.open = FALSE, !.frames = <<>>, !.writing = FALSE] /\ breaks' = breaks + 1
  BY DEF StreamBreaks
<1>2. StreamTypes /\ <<>> \in Seq(Frames)
  BY EmptySeq DEF StreamInv
<1>3. /\ stream' \in [open : BOOLEAN, offset : Nat, frames : Seq(Frames), writing : BOOLEAN]
      /\ ~stream'.open /\ stream'.offset = stream.offset
  BY <1>1, <1>2 DEF StreamTypes
<1>4. StreamTypes' /\ breaks' # 0
  BY <1>1, <1>2, <1>3 DEF StreamBreaks, StreamTypes
<1> QED
  BY <1>3, <1>4 DEF StreamBreaks, StreamInv

\* A stream that has just been opened has read nothing.
LEMMA NothingRead ==
    /\ Opened \in [open : BOOLEAN, offset : Nat, frames : Seq(Frames), writing : BOOLEAN]
    /\ Opened.open /\ Opened.offset = 0 /\ FlattenSeq(Chunks(Opened.frames)) = <<>>
    /\ \A shown \in Seq(Int) :
          EndsWith(shown \o <<>>, 0, 0) /\ EndsWith(<<>>, 0 - Len(<<>>), 0) /\ shown \o <<>> = shown
<1>1. <<>> \in Seq(Frames) /\ <<>> \in Seq(Int) /\ Len(<<>>) = 0
  BY EmptySeq
<1>2. /\ Opened \in [open : BOOLEAN, offset : Nat, frames : Seq(Frames), writing : BOOLEAN]
      /\ Opened.open /\ Opened.offset = 0 /\ FlattenSeq(Chunks(Opened.frames)) = <<>>
  BY <1>1, WayEmpty DEF Opened
<1>3. ASSUME NEW shown \in Seq(Int) PROVE EndsWith(shown, 0, 0) /\ shown \o <<>> = shown
  BY LenProperties, ConcatEmptySeq DEF EndsWith
<1>4. 0 - Len(<<>>) = 0
  <2> DEFINE n == Len(<<>>)
  <2>1. n = 0
    BY <1>1
  <2> HIDE DEF n
  <2>2. 0 - n = 0
    BY <2>1
  <2> QED
    BY <2>2 DEF n
<1> QED
  BY <1>1, <1>2, <1>3, <1>4

LEMMA StreamReopensInv == StreamInv /\ StreamReopens => StreamInv'
<1> SUFFICES ASSUME StreamInv, StreamReopens PROVE StreamInv'
  OBVIOUS
<1>1. /\ StreamTypes /\ shownLog' = shownLog /\ stream' = Opened /\ cleared' = 0 /\ breaks' = breaks /\ breaks # 0
      /\ logFile' = logFile
  BY DEF StreamInv, StreamReopens
<1>2. shownLog' \in Seq(Int) /\ logFile \in Nat
  BY <1>1 DEF StreamTypes
<1>3. OnItsWay' = <<>>
  BY <1>1, NothingRead DEF OnItsWay, Chunks
<1>4. StreamTypes'
  BY <1>1, NothingRead DEF StreamReopens, StreamTypes
<1>5. /\ stream'.open /\ stream'.offset = 0
      /\ EndsWith(shownLog' \o OnItsWay', 0, 0) /\ EndsWith(OnItsWay', 0 - Len(OnItsWay'), 0)
  BY <1>1, <1>2, <1>3, NothingRead
<1> QED
  BY <1>1, <1>2, <1>4, <1>5 DEF StreamInv

\* What is on its way is what will be on the page.
LEMMA ClearLogInv == StreamInv /\ ClearLog => StreamInv'
<1> SUFFICES ASSUME StreamInv, ClearLog PROVE StreamInv'
  OBVIOUS
<1>1. /\ StreamTypes /\ OnItsWay \in Seq(Int) /\ Len(OnItsWay) \in Nat
      /\ shownLog' = <<>> /\ cleared' = stream.offset - Len(OnItsWay)
      /\ UNCHANGED <<logFile, recorded, stream, breaks>>
  BY StreamWay, LenProperties DEF StreamInv, ClearLog
<1>2. OnItsWay' = OnItsWay
  BY <1>1 DEF OnItsWay
<1>3. shownLog' \o OnItsWay' = OnItsWay /\ <<>> \in Seq(Int)
  BY <1>1, <1>2, ConcatEmptySeq, EmptySeq
<1>4. StreamTypes' /\ stream.offset \in Nat
  BY <1>1, <1>3 DEF StreamTypes
<1>5. cleared' <= stream.offset /\ stream.offset - cleared' = Len(OnItsWay)
  BY <1>1, <1>4
<1> QED
  BY <1>1, <1>2, <1>3, <1>4, <1>5 DEF StreamInv

LEMMA StreamStutterInv ==
    ASSUME StreamInv, UNCHANGED <<stream, shownLog, cleared, breaks>>,
           logFile' \in Nat, logFile <= logFile', recorded' \in PageStatuses \cup {Gone}
    PROVE  StreamInv'
<1>1. OnItsWay' = OnItsWay
  BY DEF OnItsWay
<1>2. StreamTypes'
  BY DEF StreamInv, StreamTypes
<1>3. stream.offset \in Nat /\ logFile \in Nat
  BY DEF StreamInv, StreamTypes
<1> QED
  BY <1>1, <1>2, <1>3 DEF StreamInv

\* What came to the page and is still on its way stays whole, for a log of
\* any length, any number of frames and any number of breaks: neither lines
\* lost nor lines twice, although the page empties its log in the middle.
THEOREM StreamInvariant == StreamSpec => []StreamInv
<1>1. StreamInit => StreamInv
  <2> SUFFICES ASSUME StreamInit PROVE StreamInv
    OBVIOUS
  <2>1. stream = Opened /\ shownLog = <<>> /\ <<>> \in Seq(Int) /\ Len(<<>>) = 0
    BY EmptySeq DEF StreamInit
  <2>2. OnItsWay = <<>>
    BY <2>1, NothingRead DEF OnItsWay, Chunks
  <2>3. StreamTypes
    BY <2>1, NothingRead DEF StreamInit, StreamTypes
  <2>4. /\ shownLog \o OnItsWay = <<>> /\ stream.open /\ stream.offset = 0
        /\ EndsWith(shownLog \o OnItsWay, 0, 0) /\ EndsWith(OnItsWay, 0 - Len(OnItsWay), 0)
    BY <2>1, <2>2, NothingRead
  <2> QED
    BY <2>1, <2>3, <2>4 DEF StreamInit, StreamInv
<1>2. StreamInv /\ [StreamNext]_streamVars => StreamInv'
  <2> SUFFICES ASSUME StreamInv, [StreamNext]_streamVars PROVE StreamInv'
    OBVIOUS
  <2>1. logFile \in Nat /\ recorded \in PageStatuses \cup {Gone}
    BY DEF StreamInv, StreamTypes
  <2>2. CASE LogGrows
    BY <2>1, <2>2, StreamStutterInv DEF LogGrows
  <2>3. ASSUME NEW s \in PageStatuses \cup {Gone}, RecordChanges(s) PROVE StreamInv'
    BY <2>1, <2>3, StreamStutterInv DEF RecordChanges
  <2>4. CASE PollReads \/ PollAnswers
    BY <2>1, <2>4, StreamStutterInv DEF PollReads, PollAnswers
  <2>5. CASE UNCHANGED streamVars
    BY <2>1, <2>5, StreamStutterInv DEF streamVars
  <2> QED
    BY <2>2, <2>3, <2>4, <2>5, SendChunkInv, SendStatusInv, ReceiveInv, StreamBreaksInv, StreamReopensInv,
       ClearLogInv DEF StreamNext
<1> QED
  BY <1>1, <1>2, PTL DEF StreamSpec

\* The end of the log on the page, with what is on its way, is what this
\* connection has read of the file since the page was emptied.
THEOREM StreamStaysWhole == StreamSpec => []StreamIsWhole
<1>1. StreamInv => StreamIsWhole
  <2> SUFFICES ASSUME StreamInv, stream.open
               PROVE  /\ IsSuffix(Lines(cleared, stream.offset), shownLog \o OnItsWay)
                      /\ breaks = 0 => shownLog \o OnItsWay = Lines(cleared, stream.offset)
    BY DEF StreamIsWhole
  <2> DEFINE all == shownLog \o OnItsWay
             from == cleared
             to == stream.offset
  <2>1. all \in Seq(Int) /\ from \in Int /\ to \in Int /\ from <= to /\ EndsWith(all, from, to)
        /\ (breaks = 0 => Len(all) = to - from)
    BY StreamWay DEF StreamInv, StreamTypes
  <2> HIDE DEF all, from, to
  <2>2. IsSuffix(Lines(from, to), all) /\ (Len(all) = to - from => all = Lines(from, to))
    BY <2>1, EndsWithIs
  <2> QED
    BY <2>1, <2>2 DEF all, from, to
<1> QED
  BY <1>1, StreamInvariant, PTL

-----------------------------------------------------------------------------
(* The progress: its types, and what an action does to the log.            *)

Operations ==
    [kind : {"apply", "destroy"}, marks : SUBSET Marks, done : Nat, licensed : Nat, made : Nat, dbFailed : BOOLEAN]

\* The watcher of the bootstrap and a reconcile, and where they can be.
ProgressActors == {"watcher", "reconcile"}

ActorPlaces ==
    {"none", "sleeping", "probing", "licenses", "licensing", "licensed", "creating", "provisioned", "complete"}

ProgressTypes ==
    /\ plan \in Plans
    /\ oplog \in Seq(Operations)
    /\ standing \in {"pending", "applying", "bootstrapping", "degraded", "ready", "failed", "destroying", "destroyed"}
    /\ lastHealth \in {"none", "forming", "ready"}
    /\ doing \in {"idle", "applyQueued", "destroyQueued", "apply", "destroy"}
    /\ at \in [ProgressActors -> ActorPlaces]
    /\ asked \subseteq [kind : {"health", "recreate", "create"}, health : {"none", "forming", "ready"}]
    /\ requests \in Nat
    /\ disturbed \in BOOLEAN

\* The operation whose text the page reads.
Latest == Last(oplog)

\* The marks that terraform leaves, and not the watcher.
TerraformMarks == {"init", "plan", "creating", "operator", "rec", "applied"}

\* A plan as the proofs use it.
LEMMA PlanType ==
    ASSUME plan \in Plans
    PROVE  /\ plan.gke \in BOOLEAN /\ plan.redis \in BOOLEAN /\ plan.licenses \in Nat /\ plan.databases \in Nat
           /\ plan.resources \in Nat \ {0}
           /\ plan.licenses > 0 \/ plan.databases > 0 => plan.redis
BY ProgressAssumption

\* The last operation of a log is one of its operations.
LEMMA LastOf ==
    ASSUME NEW S, NEW s \in Seq(S), s # <<>>
    PROVE  Last(s) \in S /\ Len(s) \in Nat \ {0}
BY EmptySeq, ElementOfSeq DEF Last

\* A log whose last operation is replaced is as long.
LEMMA LastReplaced ==
    ASSUME NEW S, NEW s \in Seq(S), s # <<>>, NEW e \in S
    PROVE  /\ Last(s) \in S /\ Len(s) \in Nat \ {0}
           /\ Front(s) \o <<e>> \in Seq(S)
           /\ Len(Front(s) \o <<e>>) = Len(s)
           /\ Last(Front(s) \o <<e>>) = e
<1>1. Len(s) \in Nat \ {0}
  BY EmptySeq
<1>2. Last(s) \in S
  BY LastOf
<1>3. Front(s) \in Seq(S) /\ Len(Front(s)) = Len(s) - 1
  <2> DEFINE n == Len(s) - 1
  <2>1. n \in Nat /\ 1 \in Int /\ \A i \in 1..n : s[i] \in S
    BY <1>1, ElementOfSeq
  <2> HIDE DEF n
  <2>2. (IF 1 <= n THEN n - 1 + 1 ELSE 0) = n
    BY <2>1
  <2>3. SubSeq(s, 1, n) \in Seq(S) /\ Len(SubSeq(s, 1, n)) = IF 1 <= n THEN n - 1 + 1 ELSE 0
    BY <2>1, SubSeqProperties
  <2> QED
    BY <2>2, <2>3 DEF Front, n
<1> DEFINE f == Front(s)
           g == <<e>>
<1>4. g \in Seq(S) /\ Len(g) = 1 /\ g[1] = e
  BY SingletonSeq
<1>5. f \in Seq(S) /\ Len(f) = Len(s) - 1
  BY <1>3
<1> HIDE DEF f, g
<1>6. /\ f \o g \in Seq(S) /\ Len(f \o g) = Len(f) + Len(g)
      /\ \A i \in 1..(Len(f) + Len(g)) : (f \o g)[i] = IF i <= Len(f) THEN f[i] ELSE g[i - Len(f)]
  BY <1>4, <1>5, ConcatProperties
<1>7. Len(f \o g) = Len(s) /\ (f \o g)[Len(s)] = e
  <2>1. Len(s) \in 1..(Len(f) + Len(g)) /\ ~(Len(s) <= Len(f)) /\ Len(s) - Len(f) = 1 /\ Len(f) + Len(g) = Len(s)
    BY <1>1, <1>4, <1>5
  <2> QED
    BY <1>4, <1>6, <2>1
<1> QED
  BY <1>1, <1>2, <1>6, <1>7 DEF Last, f, g

\* Appending an operation makes it the last.
LEMMA LastAppended ==
    ASSUME NEW S, NEW s \in Seq(S), NEW e \in S
    PROVE  Append(s, e) \in Seq(S) /\ Len(Append(s, e)) = Len(s) + 1 /\ Last(Append(s, e)) = e
BY DEF Last

\* What stays of an operation when the page reads one more mark in it.
LEMMA MarkIs ==
    ASSUME ProgressTypes, oplog # <<>>, NEW m \in Marks, Mark(m)
    PROVE  /\ oplog' \in Seq(Operations) /\ Len(oplog') = Len(oplog) /\ Latest \in Operations /\ Latest' \in Operations
           /\ Latest' = [Latest EXCEPT !.marks = Latest.marks \cup {m}]
<1> DEFINE e == [Latest EXCEPT !.marks = Latest.marks \cup {m}]
<1>1. oplog' = Front(oplog) \o <<e>>
  BY DEF Mark, Text, Latest
<1>2. Latest \in Operations
  BY LastOf DEF ProgressTypes, Latest
<1>3. e \in Operations
  BY <1>2 DEF Operations
<1> HIDE DEF e
<1>4. oplog \in Seq(Operations)
  BY DEF ProgressTypes
<1>5. oplog' \in Seq(Operations) /\ Len(oplog') = Len(oplog) /\ Last(oplog') = e
  BY <1>1, <1>3, <1>4, LastReplaced
<1> QED
  BY <1>2, <1>3, <1>5 DEF Latest, e

-----------------------------------------------------------------------------
(* The rules of a phase.                                                   *)

\* No rule before the k-th applies.
NoneBefore(rules, k) == \A j \in 1..(k - 1) : ~rules[j][1]

\* The phase is that of the first rule that applies; NoneBefore goes from one
\* rule to the next.
LEMMA FirstPhaseIs ==
    ASSUME NEW rules, NEW n \in Nat, DOMAIN rules = 1..n
    PROVE  /\ NoneBefore(rules, 1)
           /\ \A k \in Nat : NoneBefore(rules, k) /\ ~rules[k][1] => NoneBefore(rules, k + 1)
           /\ \A k \in 1..n : NoneBefore(rules, k) /\ rules[k][1] => FirstPhase(rules) = rules[k][2]
<1> DEFINE Applies(i) == rules[i][1] /\ \A j \in 1..(i - 1) : ~rules[j][1]
           first == CHOOSE i \in DOMAIN rules : Applies(i)
<1>1. NoneBefore(rules, 1) /\ \A k \in Nat : NoneBefore(rules, k) /\ ~rules[k][1] => NoneBefore(rules, k + 1)
  BY DEF NoneBefore
<1>2. ASSUME NEW k \in 1..n, NoneBefore(rules, k), rules[k][1] PROVE FirstPhase(rules) = rules[k][2]
  <2>1. first \in 1..n /\ Applies(first)
    <3>1. \E i \in DOMAIN rules : Applies(i)
      BY <1>2 DEF NoneBefore
    <3> QED
      BY <3>1
  <2>2. first = k
    <3>1. CASE first < k
      BY <1>2, <2>1, <3>1 DEF NoneBefore
    <3>2. CASE k < first
      BY <1>2, <2>1, <3>2
    <3> QED
      BY <2>1, <3>1, <3>2
  <2> QED
    BY <2>2 DEF FirstPhase
<1> QED
  BY <1>1, <1>2

LEMMA DestroyPhaseIs ==
    ASSUME NEW op, NEW st
    PROVE  DestroyPhase(op, st) = IF "summary" \in op.marks \/ st = "destroyed" THEN "destroyed"
                                  ELSE IF "destroying" \in op.marks THEN "destroy"
                                  ELSE IF "plan" \in op.marks THEN "plan" ELSE "init"
<1> DEFINE rules == <<
      <<"summary" \in op.marks \/ st = "destroyed", "destroyed">>,
      <<"destroying" \in op.marks, "destroy">>,
      <<"plan" \in op.marks, "plan">>,
      <<TRUE, "init">> >>
<1>1. DestroyPhase(op, st) = FirstPhase(rules) /\ DOMAIN rules = 1..4
  BY DEF DestroyPhase
<1>2. /\ rules[1][1] <=> ("summary" \in op.marks \/ st = "destroyed")
      /\ rules[2][1] <=> "destroying" \in op.marks
      /\ rules[3][1] <=> "plan" \in op.marks
      /\ rules[4][1]
  OBVIOUS
<1>3. rules[1][2] = "destroyed" /\ rules[2][2] = "destroy" /\ rules[3][2] = "plan" /\ rules[4][2] = "init"
  OBVIOUS
<1> HIDE DEF rules
<1>4. /\ NoneBefore(rules, 1)
      /\ \A k \in Nat : NoneBefore(rules, k) /\ ~rules[k][1] => NoneBefore(rules, k + 1)
      /\ \A k \in 1..4 : NoneBefore(rules, k) /\ rules[k][1] => FirstPhase(rules) = rules[k][2]
  BY <1>1, FirstPhaseIs
<1>5. /\ ~rules[1][1] => NoneBefore(rules, 2)
      /\ ~rules[2][1] /\ NoneBefore(rules, 2) => NoneBefore(rules, 3)
      /\ ~rules[3][1] /\ NoneBefore(rules, 3) => NoneBefore(rules, 4)
  BY <1>4
<1>6. /\ rules[1][1] => FirstPhase(rules) = "destroyed"
      /\ ~rules[1][1] /\ rules[2][1] => FirstPhase(rules) = "destroy"
      /\ ~rules[1][1] /\ ~rules[2][1] /\ rules[3][1] => FirstPhase(rules) = "plan"
      /\ ~rules[1][1] /\ ~rules[2][1] /\ ~rules[3][1] => FirstPhase(rules) = "init"
  BY <1>2, <1>3, <1>4, <1>5
<1> QED
  BY <1>1, <1>2, <1>6

\* The cluster answers, and its licenses are being applied.
ClusterUp(op, hl) == "clusterReady" \in op.marks \/ hl = "ready"
LicensesNow(p, op, hl) ==
    p.licenses > 0 /\ ("licensing" \in op.marks \/ (ClusterUp(op, hl) /\ "creatingDatabases" \notin op.marks))

\* The phase of an apply, as a chain of its rules.
LEMMA ApplyPhaseIs ==
    ASSUME NEW p, NEW op, NEW st, NEW hl
    PROVE  ApplyPhase(p, op, st, hl) =
              IF st = "ready" \/ "resourcesComplete" \in op.marks THEN "ready"
              ELSE IF p.databases > 0 /\ "creatingDatabases" \in op.marks THEN "databases"
              ELSE IF LicensesNow(p, op, hl) THEN "licenses"
              ELSE IF p.databases > 0 /\ ClusterUp(op, hl) THEN "databases"
              ELSE IF Settling(op, st) THEN SettleStep(p)
              ELSE IF "rec" \in op.marks THEN "rec"
              ELSE IF "operator" \in op.marks THEN "operator"
              ELSE IF op.done > 0 \/ "creating" \in op.marks THEN "create"
              ELSE IF "plan" \in op.marks THEN "plan"
              ELSE IF "init" \in op.marks THEN "init" ELSE "queued"
<1> DEFINE rules == <<
          <<st = "ready" \/ "resourcesComplete" \in op.marks, "ready">>,
          <<p.databases > 0 /\ "creatingDatabases" \in op.marks, "databases">>,
          <<p.licenses > 0 /\ ("licensing" \in op.marks
                \/ (("clusterReady" \in op.marks \/ hl = "ready") /\ ~("creatingDatabases" \in op.marks))), "licenses">>,
          <<p.databases > 0 /\ ("clusterReady" \in op.marks \/ hl = "ready"), "databases">>,
          <<Settling(op, st), SettleStep(p)>>,
          <<"rec" \in op.marks, "rec">>,
          <<"operator" \in op.marks, "operator">>,
          <<op.done > 0 \/ "creating" \in op.marks, "create">>,
          <<"plan" \in op.marks, "plan">>,
          <<"init" \in op.marks, "init">>,
          <<TRUE, "queued">> >>
<1>1. ApplyPhase(p, op, st, hl) = FirstPhase(rules) /\ DOMAIN rules = 1..11
  BY DEF ApplyPhase
<1>2. /\ rules[1][1] <=> (st = "ready" \/ "resourcesComplete" \in op.marks)
      /\ rules[2][1] <=> (p.databases > 0 /\ "creatingDatabases" \in op.marks)
      /\ rules[3][1] <=> LicensesNow(p, op, hl)
      /\ rules[4][1] <=> (p.databases > 0 /\ ClusterUp(op, hl))
      /\ rules[5][1] <=> Settling(op, st)
      /\ rules[6][1] <=> "rec" \in op.marks
      /\ rules[7][1] <=> "operator" \in op.marks
      /\ rules[8][1] <=> (op.done > 0 \/ "creating" \in op.marks)
      /\ rules[9][1] <=> "plan" \in op.marks
      /\ rules[10][1] <=> "init" \in op.marks
      /\ rules[11][1]
  BY DEF LicensesNow, ClusterUp
<1>3. /\ rules[1][2] = "ready" /\ rules[2][2] = "databases" /\ rules[3][2] = "licenses" /\ rules[4][2] = "databases"
      /\ rules[5][2] = SettleStep(p) /\ rules[6][2] = "rec" /\ rules[7][2] = "operator" /\ rules[8][2] = "create"
      /\ rules[9][2] = "plan" /\ rules[10][2] = "init" /\ rules[11][2] = "queued"
  OBVIOUS
<1> HIDE DEF rules
<1>4. /\ NoneBefore(rules, 1)
      /\ \A k \in Nat : NoneBefore(rules, k) /\ ~rules[k][1] => NoneBefore(rules, k + 1)
      /\ \A k \in 1..11 : NoneBefore(rules, k) /\ rules[k][1] => FirstPhase(rules) = rules[k][2]
  BY <1>1, FirstPhaseIs
<1>5. /\ ~rules[1][1] => NoneBefore(rules, 2)
      /\ ~rules[2][1] /\ NoneBefore(rules, 2) => NoneBefore(rules, 3)
      /\ ~rules[3][1] /\ NoneBefore(rules, 3) => NoneBefore(rules, 4)
      /\ ~rules[4][1] /\ NoneBefore(rules, 4) => NoneBefore(rules, 5)
      /\ ~rules[5][1] /\ NoneBefore(rules, 5) => NoneBefore(rules, 6)
      /\ ~rules[6][1] /\ NoneBefore(rules, 6) => NoneBefore(rules, 7)
      /\ ~rules[7][1] /\ NoneBefore(rules, 7) => NoneBefore(rules, 8)
      /\ ~rules[8][1] /\ NoneBefore(rules, 8) => NoneBefore(rules, 9)
      /\ ~rules[9][1] /\ NoneBefore(rules, 9) => NoneBefore(rules, 10)
      /\ ~rules[10][1] /\ NoneBefore(rules, 10) => NoneBefore(rules, 11)
  BY <1>4
<1>6. /\ rules[1][1] => FirstPhase(rules) = "ready"
      /\ NoneBefore(rules, 2) /\ rules[2][1] => FirstPhase(rules) = "databases"
      /\ NoneBefore(rules, 3) /\ rules[3][1] => FirstPhase(rules) = "licenses"
      /\ NoneBefore(rules, 4) /\ rules[4][1] => FirstPhase(rules) = "databases"
      /\ NoneBefore(rules, 5) /\ rules[5][1] => FirstPhase(rules) = SettleStep(p)
      /\ NoneBefore(rules, 6) /\ rules[6][1] => FirstPhase(rules) = "rec"
      /\ NoneBefore(rules, 7) /\ rules[7][1] => FirstPhase(rules) = "operator"
      /\ NoneBefore(rules, 8) /\ rules[8][1] => FirstPhase(rules) = "create"
      /\ NoneBefore(rules, 9) /\ rules[9][1] => FirstPhase(rules) = "plan"
      /\ NoneBefore(rules, 10) /\ rules[10][1] => FirstPhase(rules) = "init"
      /\ NoneBefore(rules, 11) => FirstPhase(rules) = "queued"
  BY <1>2, <1>3, <1>4
<1> QED
  BY <1>1, <1>2, <1>5, <1>6

\* The section of the databases, likewise.
LEMMA DatabaseSectionIs ==
    ASSUME NEW p, NEW op, NEW failed, NEW complete,
           p.databases # 0, op.made >= p.databases, op.dbFailed
    PROVE  DatabaseSection(p, op, failed, complete) = "failed"
<1> DEFINE started == "creatingDatabases" \in op.marks \/ op.made > 0
           all == op.made >= p.databases
           rules == <<
          <<p.databases = 0, "none">>,
          <<(failed /\ started) \/ (all /\ op.dbFailed), "failed">>,
          <<all \/ complete, "done">>,
          <<started, "active">>,
          <<TRUE, "pending">> >>
<1>1. DatabaseSection(p, op, failed, complete) = FirstPhase(rules) /\ DOMAIN rules = 1..5
  BY DEF DatabaseSection
<1>2. ~rules[1][1] /\ rules[2][1] /\ rules[2][2] = "failed"
  OBVIOUS
<1> HIDE DEF rules
<1>3. /\ NoneBefore(rules, 1)
      /\ \A k \in Nat : NoneBefore(rules, k) /\ ~rules[k][1] => NoneBefore(rules, k + 1)
      /\ \A k \in 1..5 : NoneBefore(rules, k) /\ rules[k][1] => FirstPhase(rules) = rules[k][2]
  BY <1>1, FirstPhaseIs
<1>4. NoneBefore(rules, 2)
  BY <1>2, <1>3
<1> QED
  BY <1>1, <1>2, <1>3, <1>4

-----------------------------------------------------------------------------
(* The percentage.                                                         *)

LEMMA DivisionBound ==
    ASSUME NEW n \in Nat, NEW m \in Nat \ {0}, NEW w \in Nat, n <= m * w
    PROVE  n \div m \in Nat /\ n \div m <= w
<1> DEFINE q == n \div m
<1>1. q \in Int /\ m * q <= n
  OBVIOUS
<1>2. q \in Nat
  OBVIOUS
<1> HIDE DEF q
<1>3. CASE q > w
  <2>1. q >= w + 1
    BY <1>2, <1>3
  <2>2. m * q >= m * (w + 1)
    BY <1>2, <2>1
  <2>3. m * (w + 1) = m * w + m
    OBVIOUS
  <2> QED
    BY <1>1, <1>2, <2>2, <2>3
<1> QED
  BY <1>2, <1>3 DEF q

\* The share of a phase stays within its width, however much is done.
LEMMA ShareBound ==
    ASSUME NEW base \in Nat, NEW width \in Nat, NEW part \in Nat, NEW whole \in Nat \ {0}
    PROVE  /\ Share(base, width, part, whole) \in Nat
           /\ \A top \in Nat : base + width <= top => Share(base, width, part, whole) <= top
<1> DEFINE a == AtMost(part, whole)
           n == a * width
<1>1. a \in Nat /\ a <= whole
  BY DEF AtMost
<1> HIDE DEF a
<1>2. n \in Nat /\ n <= whole * width
  BY <1>1
<1> HIDE DEF n
<1>3. n \div whole \in Nat /\ n \div whole <= width
  BY <1>2, DivisionBound
<1> DEFINE q == n \div whole
<1>4. Share(base, width, part, whole) = base + q /\ q \in Nat /\ q <= width
  BY <1>3 DEF Share, a, n
<1> HIDE DEF q
<1> QED
  BY <1>4

\* Before an apply is ready it is not at 100 percent.
LEMMA ApplyNotFull ==
    ASSUME NEW p \in Plans, NEW op \in Operations, NEW phase,
           phase = "databases" => p.databases > 0, phase = "licenses" => p.licenses > 0, phase # "ready"
    PROVE  ApplyPercent(p, op, phase) \in Nat /\ ApplyPercent(p, op, phase) <= 96
<1>1. /\ p.gke \in BOOLEAN /\ p.redis \in BOOLEAN /\ p.licenses \in Nat /\ p.databases \in Nat
      /\ p.resources \in Nat \ {0}
  BY ProgressAssumption
<1>2. op.done \in Nat /\ op.licensed \in Nat /\ op.made \in Nat
  BY DEF Operations
<1>3. /\ p.databases > 0 => Share(86, 10, op.made, p.databases) \in Nat /\ Share(86, 10, op.made, p.databases) <= 96
      /\ p.licenses > 0 => Share(78, 6, op.licensed, p.licenses) \in Nat /\ Share(78, 6, op.licensed, p.licenses) <= 84
  <2>1. ASSUME p.databases > 0 PROVE Share(86, 10, op.made, p.databases) \in Nat /\ Share(86, 10, op.made, p.databases) <= 96
    <3>1. p.databases \in Nat \ {0}
      BY <1>1, <2>1
    <3>2. 86 \in Nat /\ 10 \in Nat /\ 96 \in Nat /\ 86 + 10 <= 96
      OBVIOUS
    <3> QED
      BY <1>2, <3>1, <3>2, ShareBound
  <2>2. ASSUME p.licenses > 0 PROVE Share(78, 6, op.licensed, p.licenses) \in Nat /\ Share(78, 6, op.licensed, p.licenses) <= 84
    <3>1. p.licenses \in Nat \ {0}
      BY <1>1, <2>2
    <3>2. 78 \in Nat /\ 6 \in Nat /\ 84 \in Nat /\ 78 + 6 <= 84
      OBVIOUS
    <3> QED
      BY <1>2, <3>1, <3>2, ShareBound
  <2> QED
    BY <2>1, <2>2
<1>4. \A w \in {28, 40, 65} : Share(25, w, op.done, p.resources) \in Nat /\ Share(25, w, op.done, p.resources) <= 90
  <2>1. \A w \in {28, 40, 65} : w \in Nat /\ 25 + w <= 90
    OBVIOUS
  <2>2. \A w \in Nat : /\ Share(25, w, op.done, p.resources) \in Nat
                       /\ 25 + w <= 90 => Share(25, w, op.done, p.resources) <= 90
    BY <1>1, <1>2, ShareBound
  <2> QED
    BY <2>1, <2>2
<1> QED
  BY <1>1, <1>3, <1>4 DEF ApplyPercent

\* Nor is a destroy before its last phase.
LEMMA DestroyNotFull ==
    ASSUME NEW p \in Plans, NEW op \in Operations, NEW phase, phase # "destroyed"
    PROVE  DestroyPercent(p, op, phase) \in Nat /\ DestroyPercent(p, op, phase) <= 95
<1>1. p.resources \in Nat \ {0} /\ op.done \in Nat
  BY ProgressAssumption DEF Operations
<1>2. Share(20, 75, op.done, p.resources) \in Nat /\ Share(20, 75, op.done, p.resources) <= 95
  <2>1. 20 \in Nat /\ 75 \in Nat /\ 95 \in Nat /\ 20 + 75 <= 95
    OBVIOUS
  <2> QED
    BY <1>1, <2>1, ShareBound
<1> QED
  BY <1>2 DEF DestroyPercent

-----------------------------------------------------------------------------
(* The invariant.                                                          *)

\* A job that nothing else has written over has its status and its own text.
AtWorkOK ==
    /\ standing = "applying" => doing = "apply"
    /\ Running => oplog # <<>> /\ Latest.kind = doing
    /\ Running /\ ~disturbed =>
          /\ standing = IF doing = "apply" THEN "applying" ELSE "destroying"
          /\ doing = "apply" => "init" \in Latest.marks /\ Latest.marks \subseteq TerraformMarks

\* So has a failure.
FailedOK ==
    standing = "failed" /\ ~disturbed =>
        /\ oplog # <<>>
        /\ Latest.kind = "apply" => "init" \in Latest.marks /\ Latest.marks \subseteq TerraformMarks
        /\ Latest.kind = "destroy" => "summary" \notin Latest.marks

\* Before the first START marker nothing has come up that could be written about.
StartedOK ==
    /\ oplog = <<>> => standing \in {"pending", "ready"} /\ (plan.redis => standing = "pending")
    /\ at["watcher"] # "none" => oplog # <<>>
    /\ plan.redis /\ at["reconcile"] # "none" => oplog # <<>>
    /\ \A r \in asked : r.kind # "health" => oplog # <<>>

\* Licenses and databases are asked for where the plan has them.
AskedForOK ==
    \A a \in ProgressActors : /\ at[a] = "licensing" => plan.licenses > 0
                              /\ at[a] = "creating" => plan.databases > 0

\* What the text says agrees with the plan.
TextOK ==
    oplog # <<>> =>
        /\ {"operator", "rec"} \cap Latest.marks # {} => plan.gke
        /\ "creatingDatabases" \in Latest.marks => plan.databases > 0
        /\ Latest.dbFailed => plan.databases > 0 /\ Latest.made = plan.databases

ProgressInv == ProgressTypes /\ AtWorkOK /\ FailedOK /\ StartedOK /\ AskedForOK /\ TextOK

\* The types of the last operation and of the length of the log.
LEMMA LatestType ==
    ASSUME ProgressTypes
    PROVE  /\ Len(oplog) \in Nat /\ (oplog = <<>> <=> Len(oplog) = 0)
           /\ oplog # <<>> => Latest \in Operations /\ Latest.marks \subseteq Marks
<1>1. Len(oplog) \in Nat /\ (oplog = <<>> <=> Len(oplog) = 0)
  BY EmptySeq DEF ProgressTypes
<1>2. ASSUME oplog # <<>> PROVE Latest \in Operations
  BY <1>2, LastOf DEF ProgressTypes, Latest
<1> QED
  BY <1>1, <1>2 DEF Operations

\* Replacing the last operation.
LEMMA TextReplaced ==
    ASSUME ProgressTypes, oplog # <<>>, NEW e \in Operations, oplog' = Front(oplog) \o <<e>>
    PROVE  /\ oplog' \in Seq(Operations) /\ Len(oplog') = Len(oplog) /\ oplog' # <<>> /\ Latest \in Operations
           /\ Latest' = e
<1>1. /\ oplog' \in Seq(Operations) /\ Len(oplog') = Len(oplog) /\ Last(oplog') = e /\ Last(oplog) \in Operations
      /\ Len(oplog) \in Nat \ {0}
  BY LastReplaced DEF ProgressTypes
<1> QED
  BY <1>1, EmptySeq DEF Latest

\* A mark more, in the words of the invariant.
LEMMA MarkAdds ==
    ASSUME ProgressTypes, oplog # <<>>, NEW m \in Marks, Mark(m)
    PROVE  /\ oplog' \in Seq(Operations) /\ Len(oplog') = Len(oplog) /\ oplog' # <<>> /\ Latest \in Operations
           /\ Latest'.kind = Latest.kind /\ Latest'.marks = Latest.marks \cup {m} /\ Latest'.done = Latest.done
           /\ Latest'.made = Latest.made /\ Latest'.dbFailed = Latest.dbFailed
<1> DEFINE op == Latest
           new == Latest'
<1>1. /\ oplog' \in Seq(Operations) /\ Len(oplog') = Len(oplog) /\ op \in Operations
      /\ new = [op EXCEPT !.marks = op.marks \cup {m}]
  BY MarkIs
<1>2. oplog' # <<>>
  BY <1>1, EmptySeq DEF ProgressTypes
<1> HIDE DEF op, new
<1>3. /\ new.kind = op.kind /\ new.marks = op.marks \cup {m} /\ new.done = op.done
      /\ new.made = op.made /\ new.dbFailed = op.dbFailed
  BY <1>1 DEF Operations
<1> QED
  BY <1>1, <1>2, <1>3 DEF op, new

\* What a cluster can answer, and when.
LEMMA AnswersAre ==
    /\ Answers \subseteq {"forming", "ready"}
    /\ "forming" \in Answers => plan.redis
    /\ "ready" \in Answers /\ plan.redis => oplog # <<>>
<1>1. oplog = <<>> => DOMAIN oplog = {}
  BY EmptySeq
<1> QED
  BY <1>1 DEF Answers

\* The requests and the jobs leave the text; the status is theirs.
LEMMA RequestsInv ==
    ASSUME ProgressInv,
           \/ \E kind \in {"apply", "destroy"} : JobStarts(kind)
           \/ \E kind \in {"health", "recreate", "create"} : RequestBegins(kind)
           \/ \E answer \in Answers : HealthAnswered(answer)
           \/ \E r \in asked : RecordWritten(r)
           \/ ReconcileBegins \/ ServerRestarts
    PROVE  ProgressInv'
<1>1. ProgressTypes /\ Len(oplog) \in Nat /\ (oplog = <<>> <=> Len(oplog) = 0)
  BY LatestType DEF ProgressInv
<1>2. /\ oplog' = oplog /\ Latest' = Latest /\ plan' = plan
      /\ requests' \in Nat
  BY <1>1, ProgressAssumption
     DEF JobStarts, RequestBegins, HealthAnswered, RecordWritten, ReconcileBegins, ServerRestarts, Asked, Latest, ProgressTypes
<1>3. ASSUME NEW kind \in {"apply", "destroy"}, JobStarts(kind) PROVE ProgressInv'
  BY <1>1, <1>2, <1>3
     DEF JobStarts, Running, ProgressInv, ProgressTypes, AtWorkOK, FailedOK, StartedOK, AskedForOK, TextOK
<1>4. ASSUME NEW kind \in {"health", "recreate", "create"}, RequestBegins(kind) PROVE ProgressInv'
  <2> DEFINE r == Request(kind, IF kind = "recreate" THEN lastHealth ELSE "none")
  <2>1. r.kind = kind /\ r \in [kind : {"health", "recreate", "create"}, health : {"none", "forming", "ready"}]
    BY <1>1 DEF Request, ProgressTypes
  <2>2. asked' = asked \cup {r} /\ (kind # "health" => standing = "destroyed")
        /\ UNCHANGED <<plan, oplog, standing, lastHealth, doing, at, disturbed>>
    BY <1>4 DEF RequestBegins
  <2> HIDE DEF r
  <2> QED
    BY <1>1, <1>2, <2>1, <2>2
       DEF Running, ProgressInv, ProgressTypes, AtWorkOK, FailedOK, StartedOK, AskedForOK, TextOK
<1>5. ASSUME NEW answer \in Answers, HealthAnswered(answer) PROVE ProgressInv'
  <2>1. /\ answer \in {"forming", "ready"}
        /\ answer = "forming" => plan.redis
        /\ answer = "ready" /\ plan.redis => oplog # <<>>
    BY AnswersAre
  <2>2. /\ lastHealth' = answer /\ asked' \subseteq asked /\ UNCHANGED <<plan, oplog, doing, requests>>
        /\ standing' = IF answer = "ready" THEN "ready" ELSE IF standing \in {"ready", "degraded"} THEN "bootstrapping" ELSE standing
        /\ at' = IF standing' = "bootstrapping" /\ at["watcher"] = "none" THEN [at EXCEPT !["watcher"] = "sleeping"] ELSE at
        /\ disturbed' = (disturbed \/ (Running /\ answer = "ready"))
    BY <1>5 DEF HealthAnswered, RequestAnswered, StatusProbed
  <2>3. ProgressTypes'
    BY <1>1, <1>2, <2>1, <2>2 DEF ProgressTypes, ProgressActors, ActorPlaces
  <2>4. /\ \A a \in ProgressActors : at'[a] = at[a] \/ (a = "watcher" /\ at'[a] = "sleeping" /\ standing' = "bootstrapping")
        /\ standing' = "bootstrapping" => oplog # <<>>
    <3>1. standing' = "bootstrapping" => oplog # <<>>
      BY <2>1, <2>2 DEF ProgressInv, StartedOK
    <3> QED
      BY <1>1, <2>2, <3>1 DEF ProgressTypes, ProgressActors
  <2>5. AtWorkOK' /\ FailedOK' /\ TextOK'
    BY <1>1, <1>2, <2>1, <2>2 DEF Running, ProgressInv, ProgressTypes, AtWorkOK, FailedOK, TextOK
  <2>6. StartedOK' /\ AskedForOK'
    BY <1>1, <1>2, <2>1, <2>2, <2>4 DEF ProgressInv, ProgressTypes, StartedOK, AskedForOK, ProgressActors
  <2> QED
    BY <2>3, <2>5, <2>6 DEF ProgressInv
<1>6. ASSUME NEW r \in asked, RecordWritten(r) PROVE ProgressInv'
  <2>1. oplog # <<>> /\ r.health \in {"none", "forming", "ready"}
    BY <1>1, <1>6 DEF RecordWritten, ProgressInv, StartedOK, ProgressTypes
  <2> QED
    BY <1>1, <1>2, <1>6, <2>1
       DEF RecordWritten, RequestAnswered, Aside, Running, ProgressInv, ProgressTypes, AtWorkOK, FailedOK, StartedOK, AskedForOK, TextOK
<1>7. CASE ReconcileBegins
  <2>1. \A a \in ProgressActors : at'[a] = IF a = "reconcile" THEN "licenses" ELSE at[a]
    BY <1>1, <1>7 DEF ReconcileBegins, ProgressTypes, ProgressActors
  <2>2. at' \in [ProgressActors -> ActorPlaces] /\ (plan.redis => oplog # <<>>)
        /\ UNCHANGED <<plan, oplog, standing, lastHealth, doing, asked, disturbed>>
    BY <1>1, <1>7 DEF ReconcileBegins, ProgressTypes, ProgressActors, ActorPlaces, ProgressInv, StartedOK
  <2> QED
    BY <1>1, <1>2, <2>1, <2>2
       DEF Running, ProgressInv, ProgressTypes, AtWorkOK, FailedOK, StartedOK, AskedForOK, TextOK, ProgressActors
<1>8. CASE ServerRestarts
  <2>1. /\ at' \in [ProgressActors -> ActorPlaces]
        /\ \A a \in ProgressActors : at'[a] # "none" => at'[a] = "sleeping" /\ a = "watcher" /\ standing = "bootstrapping"
    BY <1>8 DEF ServerRestarts, ProgressActors, ActorPlaces
  <2>2. /\ doing' = IF standing = "destroying" THEN "destroyQueued" ELSE "idle"
        /\ standing' = IF standing = "applying" THEN "failed" ELSE standing
        /\ asked' = {} /\ UNCHANGED <<plan, oplog, lastHealth, disturbed>>
    BY <1>8 DEF ServerRestarts
  <2>3. standing = "applying" => doing = "apply"
    BY DEF ProgressInv, AtWorkOK
  <2>4. ProgressTypes' /\ TextOK' /\ StartedOK' /\ AskedForOK'
    BY <1>1, <1>2, <2>1, <2>2, <2>3
       DEF Running, ProgressInv, ProgressTypes, AtWorkOK, StartedOK, AskedForOK, TextOK, ProgressActors
  <2>5. AtWorkOK' /\ FailedOK'
    BY <1>1, <1>2, <2>2, <2>3 DEF Running, ProgressInv, ProgressTypes, AtWorkOK, FailedOK
  <2> QED
    BY <2>4, <2>5 DEF ProgressInv
<1> QED
  BY <1>3, <1>4, <1>5, <1>6, <1>7, <1>8

\* So do the ends of the jobs and what the watcher does but for its marks.
LEMMA QuietSteps ==
    ASSUME ProgressInv,
           \/ ApplySettles \/ JobFailsInLog \/ DestroyEnds
           \/ WatcherLooks \/ WatcherGivesUp \/ WatcherEnds \/ UNCHANGED progressVars
    PROVE  ProgressInv'
<1>1. ProgressTypes /\ Len(oplog) \in Nat /\ (oplog = <<>> <=> Len(oplog) = 0)
  BY LatestType DEF ProgressInv
<1>2. /\ oplog' = oplog /\ Latest' = Latest /\ plan' = plan
  BY DEF ApplySettles, JobFailsInLog, DestroyEnds, WatcherLooks, WatcherGivesUp, WatcherEnds, progressVars, Latest
<1>3. CASE ApplySettles
  <2>1. oplog # <<>> /\ Running
    BY <1>3 DEF ApplySettles, Running, ProgressInv, AtWorkOK
  <2>2. /\ standing' = IF plan.redis THEN "bootstrapping" ELSE "ready"
        /\ lastHealth' \in {"none", "forming", "ready"} /\ doing' = "idle"
        /\ at' = IF plan.redis /\ at["watcher"] = "none" THEN [at EXCEPT !["watcher"] = "sleeping"] ELSE at
        /\ UNCHANGED <<asked, disturbed, requests>>
    BY <1>1, <1>3 DEF ApplySettles, ProgressTypes
  <2>3. at' \in [ProgressActors -> ActorPlaces] /\ \A a \in ProgressActors : at'[a] = at[a] \/ at'[a] = "sleeping"
    BY <1>1, <2>2 DEF ProgressTypes, ProgressActors, ActorPlaces
  <2> QED
    BY <1>1, <1>2, <2>1, <2>2, <2>3
       DEF Running, ProgressInv, ProgressTypes, AtWorkOK, FailedOK, StartedOK, AskedForOK, TextOK
<1>4. CASE JobFailsInLog
  BY <1>1, <1>2, <1>4
     DEF JobFailsInLog, Marked, Latest, Running, ProgressInv, ProgressTypes, AtWorkOK, FailedOK, StartedOK, AskedForOK, TextOK
<1>5. CASE DestroyEnds
  BY <1>1, <1>2, <1>5
     DEF DestroyEnds, Running, ProgressInv, ProgressTypes, AtWorkOK, FailedOK, StartedOK, AskedForOK, TextOK
<1>6. CASE WatcherLooks \/ WatcherGivesUp \/ WatcherEnds
  <2>1. /\ oplog # <<>> /\ at' \in [ProgressActors -> ActorPlaces]
        /\ \A a \in ProgressActors : at'[a] = at[a] \/ at'[a] \in {"none", "probing"}
        /\ at'["reconcile"] = at["reconcile"]
    BY <1>1, <1>6
       DEF WatcherLooks, WatcherGivesUp, WatcherEnds, ProgressInv, StartedOK, ProgressTypes, ProgressActors, ActorPlaces
  <2>2. /\ UNCHANGED <<lastHealth, doing, asked, requests>>
        /\ \/ standing' = standing /\ disturbed' = disturbed
           \/ standing' \in {"ready", "degraded", "destroying", "destroyed", "failed"} /\ (standing' = "failed" => standing = "failed") /\ Aside
    BY <1>6 DEF WatcherLooks, WatcherGivesUp, WatcherEnds, ProgressInv, ProgressTypes
  <2>3. ProgressTypes'
    BY <1>1, <1>2, <2>1, <2>2 DEF ProgressTypes, Aside
  <2>4. AtWorkOK' /\ FailedOK'
    BY <1>1, <1>2, <2>2 DEF Aside, Running, ProgressInv, ProgressTypes, AtWorkOK, FailedOK
  <2>5. StartedOK' /\ AskedForOK' /\ TextOK'
    BY <1>1, <1>2, <2>1, <2>2 DEF ProgressInv, ProgressTypes, StartedOK, AskedForOK, TextOK
  <2> QED
    BY <2>3, <2>4, <2>5 DEF ProgressInv
<1>7. CASE UNCHANGED progressVars
  BY <1>1, <1>2, <1>7
     DEF progressVars, Running, ProgressInv, ProgressTypes, AtWorkOK, FailedOK, StartedOK, AskedForOK, TextOK
<1> QED
  BY <1>3, <1>4, <1>5, <1>6, <1>7

\* A job begins with a text of its own.
LEMMA JobBeginsInv == ProgressInv /\ JobBegins => ProgressInv'
<1> SUFFICES ASSUME ProgressInv, JobBegins PROVE ProgressInv'
  OBVIOUS
<1> DEFINE first == IF doing' = "apply" THEN {"init"} ELSE {}
           op == [NewOperation(doing') EXCEPT !.marks = first]
<1>1. ProgressTypes /\ Len(oplog) \in Nat /\ (oplog = <<>> <=> Len(oplog) = 0)
  BY LatestType DEF ProgressInv
<1>2. doing' \in {"apply", "destroy"}
  BY DEF JobBegins
<1>3. op \in Operations /\ op.kind = doing' /\ op.marks = first /\ op.dbFailed = FALSE
  BY <1>2 DEF NewOperation, Operations, Marks
<1>4. oplog' = Append(oplog, op)
  BY DEF JobBegins
<1>5. first = IF doing' = "apply" THEN {"init"} ELSE {}
  OBVIOUS
<1> HIDE DEF op, first
<1>6. oplog' \in Seq(Operations) /\ Len(oplog') = Len(oplog) + 1 /\ Latest' = op /\ oplog' # <<>>
  BY <1>1, <1>3, <1>4, LastAppended DEF Latest, ProgressTypes
<1>7. /\ doing \in {"applyQueued", "destroyQueued"}
      /\ doing' = IF doing = "applyQueued" THEN "apply" ELSE "destroy"
      /\ standing' = IF doing = "applyQueued" THEN "applying" ELSE "destroying"
      /\ disturbed' = FALSE
      /\ UNCHANGED <<plan, lastHealth, at, asked, requests>>
  BY DEF JobBegins
<1>8. ProgressTypes'
  BY <1>1, <1>6, <1>7 DEF ProgressTypes
<1>9. AtWorkOK' /\ FailedOK' /\ TextOK'
  BY <1>1, <1>3, <1>5, <1>6, <1>7 DEF AtWorkOK, FailedOK, TextOK, Running, TerraformMarks
<1>10. StartedOK' /\ AskedForOK'
  BY <1>1, <1>6, <1>7 DEF StartedOK, AskedForOK, ProgressInv
<1> QED
  BY <1>8, <1>9, <1>10 DEF ProgressInv

\* What terraform writes.
LEMMA TerraformWritesInv ==
    ASSUME ProgressInv, NEW m \in Marks, TerraformSays(m) \/ DestroySays(m)
    PROVE  ProgressInv'
<1>1. ProgressTypes /\ Len(oplog) \in Nat /\ (oplog = <<>> <=> Len(oplog) = 0) /\ oplog # <<>> /\ Running
  BY LatestType DEF ProgressInv, AtWorkOK, TerraformSays, DestroySays, Running
<1>2. Mark(m) /\ UNCHANGED <<plan, standing, lastHealth, doing, at, asked, disturbed, requests>>
  BY DEF TerraformSays, DestroySays
<1>3. /\ oplog' \in Seq(Operations) /\ Len(oplog') = Len(oplog) /\ oplog' # <<>> /\ Latest \in Operations
      /\ Latest'.kind = Latest.kind /\ Latest'.marks = Latest.marks \cup {m} /\ Latest'.done = Latest.done
      /\ Latest'.made = Latest.made /\ Latest'.dbFailed = Latest.dbFailed
  BY <1>1, <1>2, MarkAdds
<1>4. /\ doing = "apply" => m \in TerraformMarks
      /\ m \in {"operator", "rec"} => plan.gke
      /\ m # "creatingDatabases"
  BY <1>1 DEF TerraformSays, DestroySays, TerraformMarks
<1>5. ProgressTypes' /\ StartedOK' /\ AskedForOK' /\ TextOK'
  BY <1>1, <1>2, <1>3, <1>4 DEF ProgressInv, ProgressTypes, StartedOK, AskedForOK, TextOK
<1>6. AtWorkOK' /\ FailedOK'
  BY <1>1, <1>2, <1>3, <1>4 DEF Running, ProgressInv, AtWorkOK, FailedOK
<1> QED
  BY <1>5, <1>6 DEF ProgressInv

LEMMA ResourceDoneInv == ProgressInv /\ ResourceDone => ProgressInv'
<1> SUFFICES ASSUME ProgressInv, ResourceDone PROVE ProgressInv'
  OBVIOUS
<1> DEFINE op == Latest
           new == [op EXCEPT !.done = op.done + 1]
<1>1. /\ ProgressTypes /\ Len(oplog) \in Nat /\ (oplog = <<>> <=> Len(oplog) = 0) /\ oplog # <<>>
      /\ op \in Operations /\ Running
  BY LatestType DEF ProgressInv, AtWorkOK, ResourceDone, Running
<1>2. oplog' = Front(oplog) \o <<new>> /\ UNCHANGED <<plan, standing, lastHealth, doing, at, asked, disturbed, requests>>
  BY DEF ResourceDone, Text, Latest
<1> HIDE DEF op
<1>3. /\ new \in Operations /\ new.kind = op.kind /\ new.marks = op.marks /\ new.made = op.made
      /\ new.dbFailed = op.dbFailed
  BY <1>1 DEF Operations
<1> HIDE DEF new
<1>4. oplog' \in Seq(Operations) /\ Len(oplog') = Len(oplog) /\ oplog' # <<>> /\ Latest' = new
  BY <1>1, <1>2, <1>3, TextReplaced
<1>5. Latest'.kind = Latest.kind /\ Latest'.marks = Latest.marks /\ Latest'.made = Latest.made
      /\ Latest'.dbFailed = Latest.dbFailed
  BY <1>3, <1>4 DEF op
<1>6. ProgressTypes' /\ StartedOK' /\ AskedForOK' /\ TextOK'
  BY <1>1, <1>2, <1>4, <1>5 DEF ProgressInv, ProgressTypes, StartedOK, AskedForOK, TextOK
<1>7. AtWorkOK' /\ FailedOK'
  BY <1>1, <1>2, <1>4, <1>5 DEF Running, ProgressInv, AtWorkOK, FailedOK
<1> QED
  BY <1>6, <1>7 DEF ProgressInv

\* The watcher or a reconcile goes on, and may write a mark.
LEMMA ActorMarksInv ==
    ASSUME ProgressInv,
           NEW a \in ProgressActors, at[a] \notin {"none", "sleeping"},
           NEW place \in ActorPlaces, at' = [at EXCEPT ![a] = place],
           place = "licensing" => plan.licenses > 0, place = "creating" => plan.databases > 0,
           \/ UNCHANGED oplog /\ (UNCHANGED disturbed \/ Aside)
           \/ (a = "watcher" \/ plan.redis) /\ Aside
                /\ \E m \in Marks : Mark(m) /\ m \notin {"operator", "rec"} /\ (m = "creatingDatabases" => plan.databases > 0),
           \/ standing' = standing
           \/ a = "watcher" /\ standing' \in {"ready", "bootstrapping"} /\ Aside,
           lastHealth' \in {"none", "forming", "ready"}, UNCHANGED <<plan, doing, asked, requests>>
    PROVE  ProgressInv'
<1>1. ProgressTypes /\ Len(oplog) \in Nat /\ (oplog = <<>> <=> Len(oplog) = 0)
      /\ (a = "watcher" \/ plan.redis => oplog # <<>>)
  BY LatestType DEF ProgressInv, StartedOK, ProgressActors
<1>2. /\ at' \in [ProgressActors -> ActorPlaces]
      /\ \A b \in ProgressActors : at'[b] = IF b = a THEN place ELSE at[b]
  BY <1>1 DEF ProgressTypes
<1>3. \/ oplog' = oplog /\ Latest' = Latest
      \/ /\ oplog # <<>> /\ oplog' \in Seq(Operations) /\ oplog' # <<>> /\ Aside
         /\ \E m \in Marks : /\ Latest'.marks = Latest.marks \cup {m} /\ m \notin {"operator", "rec"}
                             /\ m = "creatingDatabases" => plan.databases > 0
         /\ Latest'.kind = Latest.kind /\ Latest'.dbFailed = Latest.dbFailed /\ Latest'.made = Latest.made
  <2>1. CASE oplog' = oplog
    BY <2>1 DEF Latest
  <2>2. CASE oplog' # oplog
    <3>1. oplog # <<>> /\ Aside
      BY <1>1, <2>2
    <3>2. PICK m \in Marks : Mark(m) /\ m \notin {"operator", "rec"} /\ (m = "creatingDatabases" => plan.databases > 0)
      BY <2>2
    <3> QED
      BY <1>1, <3>1, <3>2, MarkAdds
  <2> QED
    BY <2>1, <2>2
<1>4. disturbed' \in BOOLEAN /\ (disturbed => disturbed')
  BY <1>1 DEF Aside, ProgressTypes
<1>5. ProgressTypes'
  BY <1>1, <1>2, <1>3, <1>4 DEF ProgressTypes
<1>6. AtWorkOK' /\ FailedOK'
  BY <1>1, <1>3, <1>4 DEF Aside, Running, ProgressInv, AtWorkOK, FailedOK
<1>7. StartedOK'
  BY <1>1, <1>2, <1>3 DEF ProgressInv, StartedOK, ProgressActors
<1>8. AskedForOK' /\ TextOK'
  BY <1>1, <1>2, <1>3 DEF ProgressInv, AskedForOK, TextOK
<1> QED
  BY <1>5, <1>6, <1>7, <1>8 DEF ProgressInv

\* The steps of the watcher, and of a reconcile, that write marks.
LEMMA MarksInv ==
    ASSUME ProgressInv,
           \/ \E answer \in Answers : WatcherAnswered(answer)
           \/ \E a \in ProgressActors : LicensesBegin(a) \/ DatabasesBegin(a)
           \/ ResourcesCompleteMark
    PROVE  ProgressInv'
<1>1. ProgressTypes /\ plan.licenses \in Nat /\ plan.databases \in Nat /\ lastHealth \in {"none", "forming", "ready"}
      /\ (plan.licenses > 0 \/ plan.databases > 0 => plan.redis)
  BY PlanType DEF ProgressInv, ProgressTypes
<1>2. /\ {"clusterReady", "licensing", "creatingDatabases", "resourcesComplete"} \subseteq Marks
      /\ {"sleeping", "none", "licenses", "licensing", "licensed", "creating", "provisioned", "complete"} \subseteq ActorPlaces
      /\ "watcher" \in ProgressActors
  BY DEF Marks, ActorPlaces, ProgressActors
<1>3. ASSUME NEW answer \in Answers, WatcherAnswered(answer) PROVE ProgressInv'
  <2> DEFINE place == IF answer # "ready" THEN "sleeping" ELSE IF standing = "ready" THEN "none" ELSE "licenses"
  <2>1. at' = [at EXCEPT !["watcher"] = place] /\ at["watcher"] = "probing"
        /\ (standing' = standing \/ standing' \in {"ready", "bootstrapping"})
        /\ (UNCHANGED oplog \/ Mark("clusterReady")) /\ Aside /\ UNCHANGED <<plan, doing, asked, requests>>
        /\ lastHealth' = answer
    BY <1>3 DEF WatcherAnswered
  <2>2. place \in ActorPlaces /\ place \notin {"licensing", "creating"} /\ answer \in {"forming", "ready"}
    BY <1>2, AnswersAre
  <2> HIDE DEF place
  <2> QED
    BY <1>1, <1>2, <2>1, <2>2, ActorMarksInv
<1>4. ASSUME NEW a \in ProgressActors, LicensesBegin(a) PROVE ProgressInv'
  <2>1. CASE plan.licenses > 0
    <3>1. /\ at[a] = "licenses" /\ at' = [at EXCEPT ![a] = "licensing"] /\ Mark("licensing") /\ Aside /\ plan.redis
          /\ UNCHANGED <<plan, standing, lastHealth, doing, asked, requests>>
      BY <1>1, <1>4, <2>1 DEF LicensesBegin
    <3> QED
      BY <1>1, <1>2, <2>1, <3>1, ActorMarksInv
  <2>2. CASE ~(plan.licenses > 0)
    <3>1. /\ at[a] = "licenses" /\ at' = [at EXCEPT ![a] = "licensed"]
          /\ UNCHANGED <<plan, oplog, disturbed, standing, lastHealth, doing, asked, requests>>
      BY <1>4, <2>2 DEF LicensesBegin
    <3> QED
      BY <1>1, <1>2, <3>1, ActorMarksInv
  <2> QED
    BY <2>1, <2>2
<1>5. ASSUME NEW a \in ProgressActors, DatabasesBegin(a) PROVE ProgressInv'
  <2>1. CASE plan.databases > 0
    <3>1. /\ at[a] = "licensed" /\ at' = [at EXCEPT ![a] = "creating"] /\ Mark("creatingDatabases") /\ Aside /\ plan.redis
          /\ UNCHANGED <<plan, standing, lastHealth, doing, asked, requests>>
      BY <1>1, <1>5, <2>1 DEF DatabasesBegin
    <3> QED
      BY <1>1, <1>2, <2>1, <3>1, ActorMarksInv
  <2>2. CASE ~(plan.databases > 0)
    <3> DEFINE place == Provisioned(a)
    <3>1. /\ at[a] = "licensed" /\ at' = [at EXCEPT ![a] = place]
          /\ UNCHANGED <<plan, oplog, disturbed, standing, lastHealth, doing, asked, requests>>
      BY <1>5, <2>2 DEF DatabasesBegin
    <3>2. place \in ActorPlaces /\ place \notin {"licensing", "creating"}
      BY <1>2 DEF Provisioned
    <3> HIDE DEF place
    <3> QED
      BY <1>1, <3>1, <3>2, ActorMarksInv
  <2> QED
    BY <2>1, <2>2
<1>6. CASE ResourcesCompleteMark
  <2>1. /\ at["watcher"] = "provisioned" /\ at' = [at EXCEPT !["watcher"] = "complete"] /\ Mark("resourcesComplete") /\ Aside
        /\ UNCHANGED <<plan, standing, lastHealth, doing, asked, requests>>
    BY <1>6 DEF ResourcesCompleteMark
  <2> QED
    BY <1>1, <1>2, <2>1, ActorMarksInv
<1> QED
  BY <1>3, <1>4, <1>5, <1>6

\* An answer of the cluster is written: the numbers change, and no mark.
LEMMA NumbersInv ==
    ASSUME ProgressInv,
           NEW a \in ProgressActors, at[a] \in {"licensing", "creating"},
           NEW place \in {"licensed", "provisioned", "none"}, at' = [at EXCEPT ![a] = place],
           NEW e \in Operations, oplog' = Front(oplog) \o <<e>>, e.kind = Latest.kind, e.marks = Latest.marks,
           e.dbFailed => plan.databases > 0 /\ e.made = plan.databases,
           Aside, UNCHANGED <<plan, standing, lastHealth, doing, asked, requests>>
    PROVE  ProgressInv'
<1>1. /\ ProgressTypes /\ Len(oplog) \in Nat /\ (oplog = <<>> <=> Len(oplog) = 0) /\ oplog # <<>>
  <2>1. plan.redis
    BY PlanType DEF ProgressInv, ProgressTypes, AskedForOK
  <2> QED
    BY <2>1, LatestType DEF ProgressInv, StartedOK, ProgressActors
<1>2. oplog' \in Seq(Operations) /\ Len(oplog') = Len(oplog) /\ oplog' # <<>> /\ Latest' = e
  BY <1>1, TextReplaced
<1>3. /\ at' \in [ProgressActors -> ActorPlaces] /\ disturbed' \in BOOLEAN /\ (disturbed => disturbed')
      /\ \A b \in ProgressActors : at'[b] = IF b = a THEN place ELSE at[b]
  BY <1>1 DEF ProgressTypes, ActorPlaces, Aside
<1>4. ProgressTypes'
  BY <1>1, <1>2, <1>3 DEF ProgressTypes
<1>5. AtWorkOK' /\ FailedOK'
  BY <1>1, <1>2, <1>3 DEF Aside, Running, ProgressInv, AtWorkOK, FailedOK
<1>6. StartedOK' /\ AskedForOK' /\ TextOK'
  BY <1>1, <1>2, <1>3 DEF ProgressInv, StartedOK, AskedForOK, TextOK, ProgressActors
<1> QED
  BY <1>4, <1>5, <1>6 DEF ProgressInv

LEMMA AnsweredInv ==
    ASSUME ProgressInv, NEW a \in ProgressActors,
           \/ \E n \in {0, plan.licenses} : LicensesAnswered(a, n)
           \/ \E n \in {0, plan.databases}, failed \in BOOLEAN : DatabasesAnswered(a, n, failed)
    PROVE  ProgressInv'
<1> DEFINE op == Latest
<1>1. /\ ProgressTypes /\ op \in Operations /\ plan.databases \in Nat /\ plan.licenses \in Nat
      /\ op.dbFailed => plan.databases > 0 /\ op.made = plan.databases
  <2>1. plan.redis /\ plan.databases \in Nat /\ plan.licenses \in Nat
    BY PlanType DEF ProgressInv, ProgressTypes, AskedForOK, LicensesAnswered, DatabasesAnswered
  <2>2. oplog # <<>>
    BY <2>1 DEF ProgressInv, StartedOK, ProgressActors, LicensesAnswered, DatabasesAnswered
  <2> QED
    BY <2>1, <2>2, LatestType DEF ProgressInv, TextOK
<1>2. ASSUME NEW n \in {0, plan.licenses}, LicensesAnswered(a, n) PROVE ProgressInv'
  <2> DEFINE new == [op EXCEPT !.licensed = AtMost(op.licensed + n, plan.licenses)]
  <2>1. /\ at[a] = "licensing" /\ at' = [at EXCEPT ![a] = "licensed"] /\ oplog' = Front(oplog) \o <<new>> /\ Aside
        /\ UNCHANGED <<plan, standing, lastHealth, doing, asked, requests>>
    BY <1>2 DEF LicensesAnswered, Text, Latest
  <2> HIDE DEF op
  <2>2. /\ new \in Operations /\ new.kind = op.kind /\ new.marks = op.marks /\ new.made = op.made
        /\ new.dbFailed = op.dbFailed
    BY <1>1 DEF Operations, AtMost
  <2> HIDE DEF new
  <2>3. new.kind = Latest.kind /\ new.marks = Latest.marks /\ (new.dbFailed => plan.databases > 0 /\ new.made = plan.databases)
    BY <1>1, <2>2 DEF op
  <2> QED
    BY <2>1, <2>2, <2>3, NumbersInv
<1>3. ASSUME NEW n \in {0, plan.databases}, NEW failed \in BOOLEAN, DatabasesAnswered(a, n, failed) PROVE ProgressInv'
  <2> DEFINE count == AtMost(op.made + n, plan.databases)
             bad == op.dbFailed \/ failed
             made == [op EXCEPT !.made = count]
             new == [op EXCEPT !.made = count, !.dbFailed = bad]
  <2>1. /\ at[a] = "creating" /\ at' = [at EXCEPT ![a] = Provisioned(a)] /\ oplog' = Front(oplog) \o <<new>> /\ Aside
        /\ UNCHANGED <<plan, standing, lastHealth, doing, asked, requests>>
        /\ (n = 0 => ~failed)
    BY <1>3 DEF DatabasesAnswered, Text, Latest
  <2>2. plan.databases > 0
    BY <2>1 DEF ProgressInv, AskedForOK
  <2> HIDE DEF op
  <2>3. op.made \in Nat /\ op.dbFailed \in BOOLEAN
    BY <1>1 DEF Operations
  <2>4. count \in Nat /\ bad \in BOOLEAN /\ (bad => count = plan.databases)
    BY <1>1, <2>1, <2>2, <2>3 DEF AtMost
  <2> HIDE DEF count, bad
  <2>5. made \in Operations /\ made.kind = op.kind /\ made.marks = op.marks /\ made.made = count
    BY <1>1, <2>4 DEF Operations
  <2>6. new = [made EXCEPT !.dbFailed = bad]
    OBVIOUS
  <2> HIDE DEF made, new
  <2>7. new \in Operations /\ new.kind = op.kind /\ new.marks = op.marks /\ new.made = count /\ new.dbFailed = bad
    <3>1. new \in Operations /\ new.kind = made.kind /\ new.marks = made.marks /\ new.made = made.made
      BY <2>4, <2>5, <2>6 DEF Operations
    <3>2. new.dbFailed = bad
      BY <2>5, <2>6 DEF Operations
    <3> QED
      BY <2>5, <3>1, <3>2
  <2>8. /\ new.kind = Latest.kind /\ new.marks = Latest.marks
        /\ new.dbFailed => plan.databases > 0 /\ new.made = plan.databases
    BY <2>2, <2>4, <2>7 DEF op
  <2> DEFINE place == Provisioned(a)
  <2>9. place \in {"licensed", "provisioned", "none"} /\ at' = [at EXCEPT ![a] = place]
    BY <2>1 DEF Provisioned
  <2> HIDE DEF place
  <2> QED
    BY <2>1, <2>7, <2>8, <2>9, NumbersInv
<1> QED
  BY <1>2, <1>3

LEMMA ProgressStep == ProgressInv /\ [ProgressNext]_progressVars => ProgressInv'
BY RequestsInv, QuietSteps, JobBeginsInv, TerraformWritesInv, ResourceDoneInv, MarksInv, AnsweredInv
   DEF ProgressNext, ProgressActors

\* The text, the status, the health, the job, the watcher and the requests
\* agree, for any plan and any number of operations.
THEOREM ProgressInvariant == ProgressSpec => []ProgressInv
<1>1. ProgressInit => ProgressInv
  <2> SUFFICES ASSUME ProgressInit PROVE ProgressInv
    OBVIOUS
  <2>1. oplog = <<>> /\ oplog \in Seq(Operations) /\ Len(oplog) = 0
    BY EmptySeq DEF ProgressInit
  <2>2. plan \in Plans /\ standing = "pending" /\ lastHealth = "none" /\ doing = "idle" /\ disturbed = FALSE /\ asked = {}
        /\ requests = 0 /\ at \in [ProgressActors -> ActorPlaces] /\ \A a \in ProgressActors : at[a] = "none"
    BY DEF ProgressInit, ProgressActors, ActorPlaces
  <2> QED
    BY <2>1, <2>2
       DEF Running, ProgressInv, ProgressTypes, AtWorkOK, FailedOK, StartedOK, AskedForOK, TextOK, ProgressActors
<1> QED
  BY <1>1, ProgressStep, PTL DEF ProgressSpec

-----------------------------------------------------------------------------
(* The steps.                                                              *)

\* How far a phase is, the same for every plan.
Place(phase) ==
    CASE phase = "init" -> 1
      [] phase = "plan" -> 2
      [] phase \in {"create", "destroy"} -> 3
      [] phase = "operator" -> 4
      [] phase \in {"rec", "bootstrap"} -> 5
      [] phase = "licenses" -> 6
      [] phase = "databases" -> 7
      [] phase \in {"ready", "destroyed"} -> 8
      [] OTHER -> 0

StepNames ==
    {"init", "plan", "create", "destroy", "operator", "rec", "bootstrap", "licenses", "databases", "ready", "destroyed"}

LEMMA PlaceType == \A phase : Place(phase) \in Nat
BY DEF Place

LEMMA PlaceIs ==
    /\ Place("init") = 1 /\ Place("plan") = 2 /\ Place("create") = 3 /\ Place("destroy") = 3
    /\ Place("operator") = 4 /\ Place("rec") = 5 /\ Place("bootstrap") = 5 /\ Place("licenses") = 6
    /\ Place("databases") = 7 /\ Place("ready") = 8 /\ Place("destroyed") = 8 /\ Place("queued") = 0
BY DEF Place

\* The steps of a sequence come in the order of their places.
Ascends(s) == \A a, b \in DOMAIN s : a < b => Place(s[a]) < Place(s[b])

LEMMA AscendsShort ==
    ASSUME NEW S
    PROVE  /\ <<>> \in Seq(S) /\ Ascends(<<>>) /\ Range(<<>>) = {}
           /\ \A e \in S : <<e>> \in Seq(S) /\ Ascends(<<e>>) /\ Range(<<e>>) = {e}
<1>1. <<>> \in Seq(S) /\ DOMAIN <<>> = {}
  BY EmptySeq
<1>2. Ascends(<<>>) /\ Range(<<>>) = {}
  BY <1>1 DEF Ascends, Range
<1>3. ASSUME NEW e \in S PROVE <<e>> \in Seq(S) /\ Ascends(<<e>>) /\ Range(<<e>>) = {e}
  <2> DEFINE s == <<e>>
  <2>1. s \in Seq(S) /\ Len(s) = 1 /\ s[1] = e
    BY SingletonSeq
  <2> HIDE DEF s
  <2>2. DOMAIN s = {1}
    BY <2>1, LenProperties
  <2>3. Ascends(s) /\ Range(s) = {e}
    BY <2>1, <2>2 DEF Ascends, Range
  <2> QED
    BY <2>1, <2>3 DEF s
<1> QED
  BY <1>1, <1>2, <1>3

\* The steps before the first that depends on the plan, and of a destroy.
LEMMA AscendsFour ==
    ASSUME NEW S, NEW a \in S, NEW b \in S, NEW c \in S, NEW d \in S,
           Place(a) < Place(b), Place(b) < Place(c), Place(c) < Place(d)
    PROVE  /\ <<a, b, c, d>> \in Seq(S) /\ Ascends(<<a, b, c, d>>)
           /\ Range(<<a, b, c, d>>) = {a, b, c, d}
<1> DEFINE s == <<a, b, c, d>>
<1>1. s \in Seq(S)
  OBVIOUS
<1>2. DOMAIN s = 1..4 /\ s[1] = a /\ s[2] = b /\ s[3] = c /\ s[4] = d
  OBVIOUS
<1> HIDE DEF s
<1>3. DOMAIN s = {1, 2, 3, 4}
  BY <1>2
<1>4. Range(s) = {a, b, c, d}
  BY <1>2, <1>3 DEF Range
<1>5. Place(a) \in Nat /\ Place(b) \in Nat /\ Place(c) \in Nat /\ Place(d) \in Nat
  BY PlaceType
<1>6. ASSUME NEW i \in {1, 2, 3, 4}, NEW j \in {1, 2, 3, 4}, i < j PROVE Place(s[i]) < Place(s[j])
  BY <1>2, <1>5, <1>6
<1>7. Ascends(s)
  BY <1>3, <1>6 DEF Ascends
<1> QED
  BY <1>1, <1>4, <1>7 DEF s

LEMMA AscendsConcat ==
    ASSUME NEW s \in Seq(StepNames), NEW t \in Seq(StepNames), Ascends(s), Ascends(t),
           \A x \in Range(s), y \in Range(t) : Place(x) < Place(y)
    PROVE  /\ s \o t \in Seq(StepNames) /\ Ascends(s \o t) /\ Range(s \o t) = Range(s) \cup Range(t)
<1> DEFINE u == s \o t
<1>1. /\ u \in Seq(StepNames) /\ Len(u) = Len(s) + Len(t)
      /\ \A i \in 1..(Len(s) + Len(t)) : u[i] = IF i <= Len(s) THEN s[i] ELSE t[i - Len(s)]
  BY ConcatProperties
<1>2. /\ Len(s) \in Nat /\ Len(t) \in Nat /\ DOMAIN s = 1..Len(s) /\ DOMAIN t = 1..Len(t)
      /\ DOMAIN u = 1..(Len(s) + Len(t))
  BY <1>1, LenProperties
<1> HIDE DEF u
<1>3. \A i \in DOMAIN u : \/ i \in DOMAIN s /\ u[i] = s[i]
                          \/ i - Len(s) \in DOMAIN t /\ i > Len(s) /\ u[i] = t[i - Len(s)]
  BY <1>1, <1>2
<1>4. ASSUME NEW a \in DOMAIN u, NEW b \in DOMAIN u, a < b PROVE Place(u[a]) < Place(u[b])
  <2>1. a \in Int /\ b \in Int
    BY <1>2
  <2>2. CASE b \in DOMAIN s
    BY <1>2, <1>3, <1>4, <2>1, <2>2 DEF Ascends
  <2>3. CASE a \in DOMAIN s /\ ~(b \in DOMAIN s)
    <3>1. u[a] = s[a] /\ b - Len(s) \in DOMAIN t /\ u[b] = t[b - Len(s)]
      BY <1>2, <1>3, <2>1, <2>3
    <3> QED
      BY <2>3, <3>1 DEF Range
  <2>4. CASE ~(a \in DOMAIN s) /\ ~(b \in DOMAIN s)
    <3>1. /\ a - Len(s) \in DOMAIN t /\ u[a] = t[a - Len(s)] /\ b - Len(s) \in DOMAIN t /\ u[b] = t[b - Len(s)]
          /\ a - Len(s) < b - Len(s)
      BY <1>2, <1>3, <1>4, <2>1, <2>4
    <3> QED
      BY <3>1 DEF Ascends
  <2> QED
    BY <1>2, <1>4, <2>1, <2>2, <2>3, <2>4
<1>5. Range(u) = Range(s) \cup Range(t)
  <2>1. \A i \in DOMAIN s : i \in DOMAIN u /\ u[i] = s[i]
    BY <1>1, <1>2
  <2>2. \A i \in DOMAIN t : i + Len(s) \in DOMAIN u /\ u[i + Len(s)] = t[i]
    <3> SUFFICES ASSUME NEW i \in DOMAIN t PROVE i + Len(s) \in DOMAIN u /\ u[i + Len(s)] = t[i]
      OBVIOUS
    <3>1. i + Len(s) \in 1..(Len(s) + Len(t)) /\ ~(i + Len(s) <= Len(s)) /\ (i + Len(s)) - Len(s) = i
      BY <1>2
    <3> QED
      BY <1>1, <1>2, <3>1
  <2> QED
    BY <1>3, <2>1, <2>2 DEF Range
<1> QED
  BY <1>1, <1>4, <1>5 DEF Ascends, u

\* The steps of an apply, in their order.
LEMMA ApplyOrderIs ==
    ASSUME NEW p \in Plans
    PROVE  /\ ApplyOrder(p) \in Seq(StepNames) /\ Ascends(ApplyOrder(p))
           /\ {"init", "plan", "create", "ready"} \subseteq Range(ApplyOrder(p))
           /\ p.gke => {"operator", "rec"} \subseteq Range(ApplyOrder(p))
           /\ p.redis /\ ~p.gke => "bootstrap" \in Range(ApplyOrder(p))
           /\ p.licenses > 0 => "licenses" \in Range(ApplyOrder(p))
           /\ p.databases > 0 => "databases" \in Range(ApplyOrder(p))
<1>1. /\ p.gke \in BOOLEAN /\ p.redis \in BOOLEAN /\ p.licenses \in Nat /\ p.databases \in Nat
      /\ (p.licenses > 0 \/ p.databases > 0) => p.redis
  BY ProgressAssumption
<1> DEFINE base == IF p.gke THEN <<"init", "plan", "create", "operator", "rec">> ELSE <<"init", "plan", "create", "bootstrap">>
           licenses == IF p.licenses > 0 THEN <<"licenses">> ELSE <<>>
           databases == IF p.databases > 0 THEN <<"databases">> ELSE <<>>
           ready == <<"ready">>
           short == <<"init", "plan", "create", "ready">>
<1>2. ApplyOrder(p) = IF ~p.redis /\ ~p.gke THEN short ELSE ((base \o licenses) \o databases) \o ready
  BY DEF ApplyOrder
<1>3. /\ short \in Seq(StepNames) /\ Ascends(short) /\ Range(short) = {"init", "plan", "create", "ready"}
      /\ base \in Seq(StepNames) /\ Ascends(base)
      /\ Range(base) = IF p.gke THEN {"init", "plan", "create", "operator", "rec"} ELSE {"init", "plan", "create", "bootstrap"}
  <2>1. short \in Seq(StepNames) /\ Ascends(short) /\ Range(short) = {"init", "plan", "create", "ready"}
    <3>1. "init" \in StepNames /\ "plan" \in StepNames /\ "create" \in StepNames /\ "ready" \in StepNames
      BY DEF StepNames
    <3> QED
      BY <3>1, AscendsFour, PlaceIs
  <2>2. CASE ~p.gke
    <3> DEFINE s == <<"init", "plan", "create", "bootstrap">>
    <3>1. "init" \in StepNames /\ "plan" \in StepNames /\ "create" \in StepNames /\ "bootstrap" \in StepNames
      BY DEF StepNames
    <3>2. s \in Seq(StepNames) /\ Ascends(s) /\ Range(s) = {"init", "plan", "create", "bootstrap"}
      BY <3>1, AscendsFour, PlaceIs
    <3> HIDE DEF s
    <3>3. base = s
      BY <2>2 DEF s
    <3> QED
      BY <2>1, <2>2, <3>2, <3>3
  <2>3. CASE p.gke
    <3> DEFINE s == <<"init", "plan", "create", "operator", "rec">>
    <3>1. /\ s \in Seq(StepNames) /\ DOMAIN s = 1..5
          /\ s[1] = "init" /\ s[2] = "plan" /\ s[3] = "create" /\ s[4] = "operator" /\ s[5] = "rec"
      BY DEF StepNames
    <3>2. base = s
      BY <2>3
    <3> HIDE DEF s, base
    <3>3. DOMAIN s = {1, 2, 3, 4, 5}
      BY <3>1
    <3>4. Ascends(s)
      BY <3>1, <3>3, PlaceIs DEF Ascends
    <3>5. Range(s) = {"init", "plan", "create", "operator", "rec"}
      BY <3>1, <3>3 DEF Range
    <3> QED
      BY <2>1, <2>3, <3>1, <3>2, <3>4, <3>5
  <2> QED
    BY <1>1, <2>1, <2>2, <2>3
<1>4. /\ licenses \in Seq(StepNames) /\ Ascends(licenses) /\ Range(licenses) = IF p.licenses > 0 THEN {"licenses"} ELSE {}
      /\ databases \in Seq(StepNames) /\ Ascends(databases) /\ Range(databases) = IF p.databases > 0 THEN {"databases"} ELSE {}
      /\ ready \in Seq(StepNames) /\ Ascends(ready) /\ Range(ready) = {"ready"}
  <2>1. "licenses" \in StepNames /\ "databases" \in StepNames /\ "ready" \in StepNames
    BY DEF StepNames
  <2> QED
    BY <2>1, AscendsShort
<1> HIDE DEF base, licenses, databases, ready, short
<1>5. /\ base \o licenses \in Seq(StepNames) /\ Ascends(base \o licenses)
      /\ Range(base \o licenses) = Range(base) \cup Range(licenses)
  <2>1. \A x \in Range(base), y \in Range(licenses) : Place(x) < Place(y)
    BY <1>3, <1>4, PlaceIs
  <2> QED
    BY <1>3, <1>4, <2>1, AscendsConcat
<1> DEFINE two == base \o licenses
<1>6. two \in Seq(StepNames) /\ Ascends(two) /\ Range(two) = Range(base) \cup Range(licenses)
  BY <1>5
<1> HIDE DEF two
<1>7. two \o databases \in Seq(StepNames) /\ Ascends(two \o databases) /\ Range(two \o databases) = Range(two) \cup Range(databases)
  <2>1. \A x \in Range(two), y \in Range(databases) : Place(x) < Place(y)
    BY <1>3, <1>4, <1>6, PlaceIs
  <2> QED
    BY <1>4, <1>6, <2>1, AscendsConcat
<1> DEFINE three == two \o databases
<1>8. three \in Seq(StepNames) /\ Ascends(three) /\ Range(three) = Range(two) \cup Range(databases)
  BY <1>7
<1> HIDE DEF three
<1>9. three \o ready \in Seq(StepNames) /\ Ascends(three \o ready) /\ Range(three \o ready) = Range(three) \cup Range(ready)
  <2>1. \A x \in Range(three), y \in Range(ready) : Place(x) < Place(y)
    BY <1>3, <1>4, <1>6, <1>8, PlaceIs
  <2> QED
    BY <1>4, <1>8, <2>1, AscendsConcat
<1>10. CASE ~p.redis /\ ~p.gke
  BY <1>1, <1>2, <1>3, <1>10
<1>11. CASE p.redis \/ p.gke
  <2>1. ApplyOrder(p) = three \o ready
    BY <1>1, <1>2, <1>11 DEF two, three
  <2>2. Range(ApplyOrder(p)) = Range(base) \cup Range(licenses) \cup Range(databases) \cup {"ready"}
    BY <1>4, <1>6, <1>8, <1>9, <2>1
  <2> QED
    BY <1>1, <1>3, <1>4, <1>9, <2>1, <2>2
<1> QED
  BY <1>1, <1>10, <1>11

\* The steps of a destroy, in their order.
LEMMA DestroyOrderIs ==
    /\ DestroyOrder \in Seq(StepNames) /\ Ascends(DestroyOrder)
    /\ Range(DestroyOrder) = {"init", "plan", "destroy", "destroyed"}
<1>1. "init" \in StepNames /\ "plan" \in StepNames /\ "destroy" \in StepNames /\ "destroyed" \in StepNames
  BY DEF StepNames
<1> QED
  BY <1>1, AscendsFour, PlaceIs DEF DestroyOrder

\* A step before that of the phase is done.
LEMMA DoneBefore ==
    ASSUME NEW s, NEW phase, NEW halted, NEW k, NEW a \in DOMAIN s, s[a] = phase, k < a, s[k] # phase
    PROVE  StepState(s, phase, halted, k) = "done"
<1> DEFINE later == \E b \in DOMAIN s : s[b] = phase /\ k < b
<1>1. later
  OBVIOUS
<1>2. StepState(s, phase, halted, k) =
        CASE phase \in {"ready", "destroyed"} \/ later -> "done"
          [] phase \notin {"ready", "destroyed"} /\ s[k] = phase -> IF halted THEN "failed" ELSE "active"
          [] OTHER -> "pending"
  BY DEF StepState
<1> HIDE DEF later
<1>3. phase \in {"ready", "destroyed"} \/ later
  BY <1>1
<1> QED
  BY <1>2, <1>3

\* The step of the phase fails, and those before it are done.
LEMMA FailedStep ==
    ASSUME NEW s \in Seq(StepNames), Ascends(s), NEW phase \in Range(s), phase \notin {"ready", "destroyed"}
    PROVE  \E k \in DOMAIN s : /\ StepState(s, phase, TRUE, k) = "failed"
                               /\ \A j \in DOMAIN s : j < k => StepState(s, phase, TRUE, j) = "done"
<1>1. PICK k \in DOMAIN s : s[k] = phase
  BY DEF Range
<1>2. DOMAIN s = 1..Len(s) /\ Len(s) \in Nat
  BY LenProperties
<1>3. ASSUME NEW a \in DOMAIN s, s[a] = phase, k < a PROVE FALSE
  BY <1>1, <1>3, PlaceType DEF Ascends
<1>4. StepState(s, phase, TRUE, k) = "failed"
  BY <1>1, <1>3 DEF StepState
<1>5. ASSUME NEW j \in DOMAIN s, j < k PROVE StepState(s, phase, TRUE, j) = "done"
  <2>1. s[j] # phase
    BY <1>1, <1>5, PlaceType DEF Ascends
  <2> QED
    BY <1>1, <1>5, <2>1, DoneBefore
<1> QED
  BY <1>4, <1>5

\* A step that is done stays done when the phase goes on.
LEMMA DoneStays ==
    ASSUME NEW s \in Seq(StepNames), Ascends(s), NEW phase, NEW next,
           next \in Range(s), Place(phase) <= Place(next),
           NEW halted, NEW halts, NEW k \in DOMAIN s, StepState(s, phase, halted, k) = "done"
    PROVE  StepState(s, next, halts, k) = "done"
<1>1. DOMAIN s = 1..Len(s) /\ Len(s) \in Nat
  BY LenProperties
<1>2. PICK b \in DOMAIN s : s[b] = next
  BY DEF Range
<1>3. Place(phase) \in Nat /\ Place(next) \in Nat
  BY PlaceType
<1>4. CASE phase \in {"ready", "destroyed"}
  <2>1. next \in {"ready", "destroyed"}
    BY <1>3, <1>4 DEF Place
  <2> QED
    BY <2>1 DEF StepState
<1>5. CASE phase \notin {"ready", "destroyed"}
  <2>1. PICK a \in DOMAIN s : s[a] = phase /\ k < a
    BY <1>5 DEF StepState
  <2>2. ~(b < a)
    BY <1>2, <1>3, <2>1 DEF Ascends
  <2>3. k < b
    BY <1>1, <2>1, <2>2
  <2> QED
    <3>1. s[k] # next
      BY <1>2, <1>3, <2>3 DEF Ascends
    <3> QED
      BY <1>2, <2>3, <3>1, DoneBefore
<1> QED
  BY <1>4, <1>5

-----------------------------------------------------------------------------
(* What is shown.                                                          *)

OpNow == LastOperation(oplog)
KindNow == IF standing \in {"destroying", "destroyed"} THEN "destroy" ELSE OpNow.kind
OrderNow == IF KindNow = "destroy" THEN DestroyOrder ELSE ApplyOrder(plan)
PhaseNow == IF KindNow = "destroy" THEN DestroyPhase(OpNow, standing) ELSE ApplyPhase(plan, OpNow, standing, lastHealth)
PercentNow == IF KindNow = "destroy" THEN DestroyPercent(plan, OpNow, PhaseNow) ELSE ApplyPercent(plan, OpNow, PhaseNow)
HaltedNow == standing = "failed" \/ (KindNow = "apply" /\ standing = "degraded")

LEMMA ShownIs ==
    /\ Shown.operation = KindNow
    /\ Shown.percent = IF standing = "failed" THEN AtMost(PercentNow, 95) ELSE PercentNow
    /\ Shown.databases = DatabaseSection(plan, OpNow, standing = "failed", PercentNow = 100)
    /\ Shown.steps = [k \in DOMAIN OrderNow |-> StepState(OrderNow, PhaseNow, HaltedNow, k)]
BY DEF Shown, ComputeProgress, KindNow, OrderNow, PhaseNow, PercentNow, HaltedNow, OpNow

\* The steps that are shown, which the last theorem needs of the next state too.
StepsShown == Shown.steps = [k \in DOMAIN OrderNow |-> StepState(OrderNow, PhaseNow, HaltedNow, k)]

LEMMA StepsShownIs == StepsShown
BY ShownIs DEF StepsShown

LEMMA OpIsLatest == oplog # <<>> => OpNow = Latest
BY DEF OpNow, LastOperation, Latest

\* The phase of an apply is one that the plan has, apart from the bootstrap
\* of applications alone.
LEMMA ApplyPhaseInPlan ==
    ASSUME NEW p \in Plans, NEW op \in Operations, NEW st, NEW hl
    PROVE  LET phase == ApplyPhase(p, op, st, hl)
           IN  /\ phase = "databases" => p.databases > 0
               /\ phase = "licenses" => p.licenses > 0
               /\ phase = "ready" => st = "ready" \/ "resourcesComplete" \in op.marks
<1> DEFINE phase == ApplyPhase(p, op, st, hl)
<1>1. SettleStep(p) \in {"rec", "bootstrap"}
  BY DEF SettleStep
<1>2. LicensesNow(p, op, hl) => p.licenses > 0
  BY DEF LicensesNow
<1> QED
  BY <1>1, <1>2, ApplyPhaseIs

\* The percentage is a number, and 100 only when the operation has ended.
LEMMA PercentIs ==
    ASSUME ProgressInv, oplog # <<>>
    PROVE  /\ PercentNow \in Nat
           /\ PercentNow = 100 => IF KindNow = "destroy" THEN "summary" \in Latest.marks \/ standing = "destroyed"
                                                         ELSE "resourcesComplete" \in Latest.marks \/ standing = "ready"
           /\ PercentNow <= 100
<1>1. OpNow = Latest /\ Latest \in Operations /\ plan \in Plans
  BY OpIsLatest, LatestType DEF ProgressInv, ProgressTypes
<1>2. CASE KindNow = "destroy"
  <2>1. PhaseNow = DestroyPhase(Latest, standing) /\ PercentNow = DestroyPercent(plan, Latest, PhaseNow)
    BY <1>1, <1>2 DEF PhaseNow, PercentNow
  <2>2. CASE PhaseNow = "destroyed"
    <3>1. "summary" \in Latest.marks \/ standing = "destroyed"
      BY <2>1, <2>2, DestroyPhaseIs
    <3> QED
      BY <1>2, <2>1, <2>2, <3>1 DEF DestroyPercent
  <2>3. CASE PhaseNow # "destroyed"
    <3>1. PercentNow \in Nat /\ PercentNow <= 95
      BY <1>1, <2>1, <2>3, DestroyNotFull
    <3> QED
      BY <3>1
  <2> QED
    BY <2>2, <2>3
<1>3. CASE KindNow # "destroy"
  <2>1. PhaseNow = ApplyPhase(plan, Latest, standing, lastHealth) /\ PercentNow = ApplyPercent(plan, Latest, PhaseNow)
    BY <1>1, <1>3 DEF PhaseNow, PercentNow
  <2>2. /\ PhaseNow = "databases" => plan.databases > 0
        /\ PhaseNow = "licenses" => plan.licenses > 0
        /\ PhaseNow = "ready" => standing = "ready" \/ "resourcesComplete" \in Latest.marks
    BY <1>1, <2>1, ApplyPhaseInPlan
  <2>3. CASE PhaseNow = "ready"
    BY <1>3, <2>1, <2>2, <2>3 DEF ApplyPercent
  <2>4. CASE PhaseNow # "ready"
    <3>1. PercentNow \in Nat /\ PercentNow <= 96
      BY <1>1, <2>1, <2>2, <2>4, ApplyNotFull
    <3> QED
      BY <3>1
  <2> QED
    BY <2>3, <2>4
<1> QED
  BY <1>2, <1>3

\* A job that has written its START marker is at 100 percent only when it has
\* ended, for every plan and however many operations the log holds, while
\* health calls, reconciles and restarts come at any time, unless something
\* else has written over the job.
THEOREM RunningIsNotFullCorrect == ProgressSpec => []RunningIsNotFull
<1>1. ProgressInv => RunningIsNotFull
  <2> SUFFICES ASSUME ProgressInv, Running, ~disturbed
               PROVE  /\ Shown.operation = doing
                      /\ Shown.percent = 100 => doing = "destroy" /\ Marked("summary")
    BY DEF RunningIsNotFull
  <2>1. oplog # <<>> /\ Latest.kind = doing /\ doing \in {"apply", "destroy"}
    BY DEF ProgressInv, AtWorkOK, Running
  <2>2. CASE doing = "destroy"
    <3>1. standing = "destroying" /\ KindNow = "destroy"
      BY <2>2 DEF ProgressInv, AtWorkOK, KindNow
    <3>2. Shown.operation = "destroy" /\ Shown.percent = PercentNow
      BY <3>1, ShownIs
    <3>3. PercentNow = 100 => "summary" \in Latest.marks
      BY <2>1, <3>1, PercentIs
    <3> QED
      BY <2>2, <3>2, <3>3 DEF Latest, Marked
  <2>3. CASE doing = "apply"
    <3>1. standing = "applying" /\ Latest.marks \subseteq TerraformMarks
      BY <2>3 DEF ProgressInv, AtWorkOK
    <3>2. KindNow = "apply"
      BY <2>1, <2>3, <3>1, OpIsLatest DEF KindNow
    <3>3. PercentNow \in Nat /\ PercentNow # 100 /\ PercentNow <= 100
      BY <2>1, <3>1, <3>2, PercentIs DEF TerraformMarks
    <3> QED
      BY <2>3, <3>1, <3>2, <3>3, ShownIs
  <2> QED
    BY <2>1, <2>2, <2>3
<1> QED
  BY <1>1, ProgressInvariant, PTL

\* The phase of an apply that has failed is one of its steps.
LEMMA FailedPhase ==
    ASSUME NEW p \in Plans, NEW op \in Operations, NEW hl,
           "init" \in op.marks, op.marks \subseteq TerraformMarks,
           {"operator", "rec"} \cap op.marks # {} => p.gke,
           p.redis \/ "applied" \notin op.marks
    PROVE  ApplyPhase(p, op, "failed", hl) \in Range(ApplyOrder(p)) \ {"ready", "destroyed"}
<1>1. /\ p.gke \in BOOLEAN /\ p.redis \in BOOLEAN /\ p.licenses \in Nat /\ p.databases \in Nat
      /\ (p.licenses > 0 \/ p.databases > 0) => p.redis
  BY ProgressAssumption
<1>2. "resourcesComplete" \notin op.marks /\ "creatingDatabases" \notin op.marks
  BY DEF TerraformMarks
<1>3. LicensesNow(p, op, hl) => p.licenses > 0
  BY DEF LicensesNow
<1>4. Settling(op, "failed") <=> "applied" \in op.marks
  BY DEF Settling
<1>5. "applied" \in op.marks => SettleStep(p) \in Range(ApplyOrder(p)) \ {"ready", "destroyed"}
  BY <1>1, ApplyOrderIs DEF SettleStep
<1>6. /\ {"init", "plan", "create"} \subseteq Range(ApplyOrder(p))
      /\ p.gke => {"operator", "rec"} \subseteq Range(ApplyOrder(p))
      /\ p.licenses > 0 => "licenses" \in Range(ApplyOrder(p))
      /\ p.databases > 0 => "databases" \in Range(ApplyOrder(p))
  BY ApplyOrderIs
<1>7. ApplyPhase(p, op, "failed", hl) =
              IF LicensesNow(p, op, hl) THEN "licenses"
              ELSE IF p.databases > 0 /\ ClusterUp(op, hl) THEN "databases"
              ELSE IF "applied" \in op.marks THEN SettleStep(p)
              ELSE IF "rec" \in op.marks THEN "rec"
              ELSE IF "operator" \in op.marks THEN "operator"
              ELSE IF op.done > 0 \/ "creating" \in op.marks THEN "create"
              ELSE IF "plan" \in op.marks THEN "plan" ELSE "init"
  BY <1>2, <1>4, ApplyPhaseIs
<1> QED
  BY <1>3, <1>5, <1>6, <1>7

\* An instance that has failed shows on one step where it stopped, and never a
\* full bar, whatever health calls answer; a full bar does not hide a database
\* that failed.
THEOREM FailuresStayShownCorrect == ProgressSpec => []FailuresStayShown
<1>1. ProgressInv => FailuresStayShown
  <2> SUFFICES ASSUME ProgressInv PROVE FailuresStayShown
    OBVIOUS
  <2>1. ASSUME standing = "failed", ~disturbed, plan.redis \/ "applied" \notin Last(oplog).marks
        PROVE  /\ Shown.percent <= 95
               /\ \E k \in DOMAIN Shown.steps :
                     /\ Shown.steps[k] = "failed"
                     /\ \A j \in DOMAIN Shown.steps : j < k => Shown.steps[j] = "done"
    <3>1. oplog # <<>> /\ OpNow = Latest /\ Latest \in Operations /\ plan \in Plans
      BY <2>1, OpIsLatest, LatestType DEF ProgressInv, FailedOK, ProgressTypes
    <3>2. Shown.percent <= 95
      <4>1. PercentNow \in Nat /\ Shown.percent = AtMost(PercentNow, 95)
        BY <2>1, <3>1, PercentIs, ShownIs
      <4> QED
        BY <4>1 DEF AtMost
    <3>3. PhaseNow \in Range(OrderNow) /\ PhaseNow \notin {"ready", "destroyed"}
      <4>1. KindNow = Latest.kind /\ Latest.kind \in {"apply", "destroy"}
        BY <2>1, <3>1 DEF KindNow, Operations
      <4>2. CASE Latest.kind = "destroy"
        <5>1. "summary" \notin Latest.marks
          BY <2>1, <4>2 DEF ProgressInv, FailedOK
        <5>2. PhaseNow = DestroyPhase(Latest, standing) /\ OrderNow = DestroyOrder
          BY <3>1, <4>1, <4>2 DEF PhaseNow, OrderNow
        <5> QED
          BY <2>1, <5>1, <5>2, DestroyPhaseIs, DestroyOrderIs
      <4>3. CASE Latest.kind = "apply"
        <5>1. /\ "init" \in Latest.marks /\ Latest.marks \subseteq TerraformMarks
              /\ {"operator", "rec"} \cap Latest.marks # {} => plan.gke
              /\ plan.redis \/ "applied" \notin Latest.marks
          BY <2>1, <3>1, <4>3 DEF ProgressInv, FailedOK, TextOK, Latest
        <5>2. PhaseNow = ApplyPhase(plan, Latest, "failed", lastHealth) /\ OrderNow = ApplyOrder(plan)
          BY <2>1, <3>1, <4>1, <4>3 DEF PhaseNow, OrderNow
        <5>3. \A op \in Operations : op = Latest => ApplyPhase(plan, op, "failed", lastHealth) \in Range(ApplyOrder(plan)) \ {"ready", "destroyed"}
          BY <3>1, <5>1, FailedPhase
        <5> QED
          BY <3>1, <5>2, <5>3
      <4> QED
        BY <4>1, <4>2, <4>3
    <3>4. OrderNow \in Seq(StepNames) /\ Ascends(OrderNow)
      BY <3>1, ApplyOrderIs, DestroyOrderIs DEF OrderNow
    <3>5. HaltedNow = TRUE
      BY <2>1 DEF HaltedNow
    <3> DEFINE s == OrderNow
               phase == PhaseNow
    <3>6. s \in Seq(StepNames) /\ Ascends(s) /\ phase \in Range(s) /\ phase \notin {"ready", "destroyed"}
      BY <3>3, <3>4
    <3>7. DOMAIN Shown.steps = DOMAIN s /\ \A k \in DOMAIN s : Shown.steps[k] = StepState(s, phase, TRUE, k)
      BY <3>5, ShownIs
    <3> HIDE DEF s, phase
    <3>8. \E k \in DOMAIN s : /\ StepState(s, phase, TRUE, k) = "failed"
                              /\ \A j \in DOMAIN s : j < k => StepState(s, phase, TRUE, j) = "done"
      BY <3>6, FailedStep
    <3> QED
      BY <3>2, <3>7, <3>8
  <2>2. ASSUME oplog # <<>>, Last(oplog).dbFailed PROVE Shown.databases = "failed"
    <3>1. /\ OpNow = Latest /\ plan.databases > 0 /\ Latest.made = plan.databases /\ Latest.dbFailed
      BY <2>2, OpIsLatest DEF ProgressInv, TextOK, Latest
    <3>2. plan.databases \in Nat
      BY PlanType DEF ProgressInv, ProgressTypes
    <3>3. plan.databases # 0 /\ Latest.made >= plan.databases
      BY <3>1, <3>2
    <3> QED
      BY <3>1, <3>3, ShownIs, DatabaseSectionIs
  <2> QED
    BY <2>1, <2>2 DEF FailuresStayShown
<1> QED
  BY <1>1, ProgressInvariant, PTL

-----------------------------------------------------------------------------
(* The steps that are done.                                                *)

\* Within an operation the text only grows, to what the plan has.
TextGoesOn(p, op, new) ==
    /\ op.marks \subseteq new.marks
    /\ op.done > 0 => new.done > 0
    /\ "creatingDatabases" \in new.marks => p.databases > 0
    /\ {"operator", "rec"} \cap new.marks # {} => p.gke

TextGrows == Latest.marks \subseteq Latest'.marks /\ (Latest.done > 0 => Latest'.done > 0)

LEMMA TextOnlyGrows ==
    ASSUME ProgressInv, ProgressInv', [ProgressNext]_progressVars, Len(oplog') = Len(oplog)
    PROVE  plan' = plan /\ TextGoesOn(plan, OpNow, OpNow')
<1> DEFINE op == Latest
<1>1. /\ ProgressTypes /\ Len(oplog) \in Nat /\ (oplog = <<>> <=> Len(oplog) = 0) /\ (oplog # <<>> => op \in Operations)
      /\ plan.licenses \in Nat /\ plan.databases \in Nat
      /\ (plan.licenses > 0 \/ plan.databases > 0 => plan.redis)
  BY LatestType, PlanType DEF ProgressInv, ProgressTypes
<1>2. oplog' = <<>> <=> Len(oplog') = 0
  BY LatestType DEF ProgressInv
<1>3. ASSUME oplog' = oplog PROVE TextGrows
  BY <1>3 DEF Latest, TextGrows
<1>4. ASSUME oplog # <<>>, NEW m \in Marks, Mark(m) PROVE TextGrows
  BY <1>1, <1>4, MarkAdds DEF TextGrows
<1>5. ASSUME oplog # <<>>, NEW e \in Operations, oplog' = Front(oplog) \o <<e>>, op.marks \subseteq e.marks, e.done >= op.done
      PROVE  TextGrows
  <2>1. Latest' = e
    BY <1>1, <1>5, TextReplaced
  <2>2. e.done \in Nat /\ op.done \in Nat
    BY <1>1, <1>5 DEF Operations
  <2> QED
    BY <1>5, <2>1, <2>2 DEF TextGrows
<1>6. ASSUME \/ \E kind \in {"apply", "destroy"} : JobStarts(kind)
             \/ \E kind \in {"health", "recreate", "create"} : RequestBegins(kind)
             \/ \E answer \in Answers : HealthAnswered(answer)
             \/ \E r \in asked : RecordWritten(r)
             \/ ReconcileBegins \/ ServerRestarts
             \/ ApplySettles \/ JobFailsInLog \/ DestroyEnds
             \/ WatcherLooks \/ WatcherGivesUp \/ WatcherEnds \/ UNCHANGED progressVars
      PROVE  TextGrows /\ plan' = plan
  <2>1. oplog' = oplog /\ plan' = plan
    BY <1>6
       DEF JobStarts, RequestBegins, HealthAnswered, RecordWritten, ReconcileBegins, ServerRestarts, ApplySettles,
           JobFailsInLog, DestroyEnds, WatcherLooks, WatcherGivesUp, WatcherEnds, progressVars
  <2> QED
    BY <1>3, <2>1
<1>7. ~JobBegins
  <2> SUFFICES ASSUME JobBegins PROVE FALSE
    OBVIOUS
  <2> DEFINE new == [NewOperation(doing') EXCEPT !.marks = IF doing' = "apply" THEN {"init"} ELSE {}]
  <2>1. oplog' = Append(oplog, new)
    BY DEF JobBegins
  <2> HIDE DEF new
  <2>2. Len(oplog') = Len(oplog) + 1
    BY <1>1, <2>1 DEF ProgressTypes
  <2> QED
    BY <1>1, <2>2
<1>8. ASSUME NEW m \in Marks, TerraformSays(m) \/ DestroySays(m) PROVE TextGrows /\ plan' = plan
  <2>1. oplog # <<>> /\ Mark(m) /\ plan' = plan
    BY <1>8 DEF TerraformSays, DestroySays, ProgressInv, AtWorkOK, Running
  <2> QED
    BY <1>4, <2>1
<1>9. ASSUME ResourceDone PROVE TextGrows /\ plan' = plan
  <2> DEFINE e == [op EXCEPT !.done = op.done + 1]
  <2>1. oplog # <<>> /\ oplog' = Front(oplog) \o <<e>> /\ plan' = plan
    BY <1>9 DEF ResourceDone, Text, Latest, ProgressInv, AtWorkOK, Running
  <2>0. op \in Operations /\ op.done \in Nat
    BY <1>1, <2>1 DEF Operations
  <2> HIDE DEF op
  <2>2. e \in Operations /\ op.marks \subseteq e.marks /\ e.done >= op.done
    BY <2>0 DEF Operations
  <2> HIDE DEF e
  <2> QED
    BY <1>5, <2>1, <2>2 DEF op
<1>10. ASSUME NEW a \in ProgressActors, at[a] # "none", a = "watcher" \/ plan.redis PROVE oplog # <<>>
  BY <1>10 DEF ProgressInv, StartedOK, ProgressActors
<1>11. ASSUME NEW a \in ProgressActors, NEW n \in {0, plan.licenses}, LicensesAnswered(a, n) PROVE TextGrows /\ plan' = plan
  <2> DEFINE e == [op EXCEPT !.licensed = AtMost(op.licensed + n, plan.licenses)]
  <2>1. oplog # <<>> /\ oplog' = Front(oplog) \o <<e>> /\ plan' = plan
    BY <1>1, <1>10, <1>11 DEF LicensesAnswered, Text, Latest, ProgressInv, AskedForOK
  <2>0. op \in Operations /\ op.done \in Nat
    BY <1>1, <2>1 DEF Operations
  <2> HIDE DEF op
  <2>2. e \in Operations /\ op.marks \subseteq e.marks /\ e.done >= op.done
    BY <1>1, <2>0 DEF Operations, AtMost
  <2> HIDE DEF e
  <2> QED
    BY <1>5, <2>1, <2>2 DEF op
<1>12. ASSUME NEW a \in ProgressActors, NEW n \in {0, plan.databases}, NEW failed \in BOOLEAN, DatabasesAnswered(a, n, failed)
       PROVE  TextGrows /\ plan' = plan
  <2> DEFINE count == AtMost(op.made + n, plan.databases)
             bad == op.dbFailed \/ failed
             made == [op EXCEPT !.made = count]
             e == [op EXCEPT !.made = count, !.dbFailed = bad]
  <2>1. oplog # <<>> /\ oplog' = Front(oplog) \o <<e>> /\ plan' = plan
    BY <1>1, <1>10, <1>12 DEF DatabasesAnswered, Text, Latest, ProgressInv, AskedForOK
  <2>0. op \in Operations /\ op.done \in Nat
    BY <1>1, <2>1 DEF Operations
  <2> HIDE DEF op
  <2>2. count \in Nat /\ bad \in BOOLEAN
    <3>1. op.made \in Nat /\ op.dbFailed \in BOOLEAN
      BY <1>1, <2>1 DEF Operations
    <3> QED
      BY <1>1, <3>1 DEF AtMost
  <2> HIDE DEF count, bad
  <2>3. made \in Operations /\ made.marks = op.marks /\ made.done = op.done
    BY <1>1, <2>1, <2>2 DEF Operations
  <2>4. e = [made EXCEPT !.dbFailed = bad]
    OBVIOUS
  <2> HIDE DEF made, e
  <2>5. e \in Operations /\ e.marks = op.marks /\ e.done = op.done
    BY <2>2, <2>3, <2>4 DEF Operations
  <2>6. e.done >= op.done
    BY <2>5 DEF Operations
  <2> QED
    BY <1>5, <2>1, <2>5, <2>6 DEF op
<1>13. ASSUME NEW answer \in Answers, WatcherAnswered(answer) PROVE TextGrows /\ plan' = plan
  <2>1. oplog # <<>> /\ plan' = plan /\ (Mark("clusterReady") \/ oplog' = oplog)
    BY <1>13 DEF WatcherAnswered, ProgressInv, StartedOK
  <2> QED
    BY <1>3, <1>4, <2>1 DEF Marks
<1>14. ASSUME NEW a \in ProgressActors, LicensesBegin(a) \/ DatabasesBegin(a) PROVE TextGrows /\ plan' = plan
  <2>1. plan' = plan /\ (oplog' = oplog \/ (plan.redis /\ at[a] # "none" /\ \E m \in Marks : Mark(m)))
    BY <1>1, <1>14 DEF LicensesBegin, DatabasesBegin, Marks
  <2> QED
    BY <1>3, <1>4, <1>10, <2>1
<1>15. ASSUME ResourcesCompleteMark PROVE TextGrows /\ plan' = plan
  <2>1. oplog # <<>> /\ plan' = plan /\ Mark("resourcesComplete")
    BY <1>15 DEF ResourcesCompleteMark, ProgressInv, StartedOK
  <2> QED
    BY <1>4, <2>1 DEF Marks
<1>16. TextGrows /\ plan' = plan
  <2>1. CASE \E a \in {"watcher", "reconcile"} :
                \/ LicensesBegin(a) \/ \E n \in {0, plan.licenses} : LicensesAnswered(a, n)
                \/ DatabasesBegin(a) \/ \E n \in {0, plan.databases}, failed \in BOOLEAN : DatabasesAnswered(a, n, failed)
    BY <1>11, <1>12, <1>14, <2>1 DEF ProgressActors
  <2>2. CASE \E m \in Marks : TerraformSays(m) \/ DestroySays(m)
    BY <1>8, <2>2
  <2>3. CASE \E answer \in Answers : WatcherAnswered(answer)
    BY <1>13, <2>3
  <2>4. CASE ResourceDone \/ ResourcesCompleteMark
    BY <1>9, <1>15, <2>4
  <2> QED
    BY <1>6, <1>7, <2>1, <2>2, <2>3, <2>4 DEF ProgressNext
<1>17. CASE oplog = <<>>
  <2>1. OpNow = NewOperation("apply") /\ OpNow' = NewOperation("apply")
    BY <1>1, <1>2, <1>17 DEF OpNow, LastOperation
  <2> QED
    BY <1>16, <2>1 DEF TextGoesOn, NewOperation, TextGrows
<1>18. CASE oplog # <<>>
  <2>1. OpNow = Latest /\ OpNow' = Latest' /\ TextOK' /\ oplog' # <<>>
    BY <1>1, <1>2, <1>18 DEF OpNow, LastOperation, Latest, ProgressInv
  <2> QED
    BY <1>16, <2>1 DEF TextGoesOn, TextOK, TextGrows
<1> QED
  BY <1>16, <1>17, <1>18

\* While nothing else writes over a job, a status that says that terraform is
\* done is only taken back by a health call.
LEMMA StatusGoesOn ==
    ASSUME ProgressInv, [ProgressNext]_progressVars, Len(oplog') = Len(oplog), ~disturbed', ~TakenBack, ~TakenUpAgain,
           standing' \notin {"destroying", "destroyed"}
    PROVE  /\ standing = "ready" => standing' = "ready"
           /\ standing \in {"bootstrapping", "degraded"} => standing' \in {"bootstrapping", "degraded", "ready"}
<1>1. /\ ProgressTypes /\ Len(oplog) \in Nat
  BY LatestType DEF ProgressInv
<1>2. CASE \/ \E kind \in {"apply", "destroy"} : JobStarts(kind)
           \/ \E kind \in {"health", "recreate", "create"} : RequestBegins(kind)
           \/ ReconcileBegins \/ WatcherLooks \/ UNCHANGED progressVars
           \/ \E m \in Marks : TerraformSays(m) \/ DestroySays(m)
           \/ ResourceDone \/ ResourcesCompleteMark
           \/ \E a \in ProgressActors :
                 \/ LicensesBegin(a) \/ \E n \in {0, plan.licenses} : LicensesAnswered(a, n)
                 \/ DatabasesBegin(a) \/ \E n \in {0, plan.databases}, failed \in BOOLEAN : DatabasesAnswered(a, n, failed)
  <2>1. standing' = standing
    BY <1>2
       DEF JobStarts, RequestBegins, ReconcileBegins, WatcherLooks, progressVars, TerraformSays, DestroySays, ResourceDone,
           ResourcesCompleteMark, LicensesBegin, LicensesAnswered, DatabasesBegin, DatabasesAnswered
  <2> QED
    BY <2>1
<1>3. ASSUME NEW answer \in Answers, HealthAnswered(answer) \/ WatcherAnswered(answer)
      PROVE  \/ standing = "ready" /\ standing' = "ready"
             \/ standing # "ready" /\ standing' \in {standing, "ready", "bootstrapping"}
  BY <1>3 DEF HealthAnswered, WatcherAnswered, StatusProbed, TakenBack
<1>4. ASSUME NEW r \in asked, RecordWritten(r) PROVE standing = "pending"
  BY <1>4 DEF RecordWritten, TakenUpAgain, Aside, ProgressInv, ProgressTypes
<1>5. ~JobBegins
  <2> SUFFICES ASSUME JobBegins PROVE FALSE
    OBVIOUS
  <2> DEFINE new == [NewOperation(doing') EXCEPT !.marks = IF doing' = "apply" THEN {"init"} ELSE {}]
  <2>1. oplog' = Append(oplog, new)
    BY DEF JobBegins
  <2> HIDE DEF new
  <2>2. Len(oplog') = Len(oplog) + 1
    BY <1>1, <2>1 DEF ProgressTypes
  <2> QED
    BY <1>1, <2>2
<1>6. CASE ApplySettles \/ JobFailsInLog \/ DestroyEnds
  <2>1. standing \in {"applying", "destroying"}
    BY <1>6 DEF ApplySettles, JobFailsInLog, DestroyEnds, ProgressInv, AtWorkOK, Running
  <2> QED
    BY <2>1
<1>7. CASE WatcherGivesUp \/ WatcherEnds \/ ServerRestarts
  BY <1>7 DEF WatcherGivesUp, WatcherEnds, ServerRestarts
<1> QED
  BY <1>2, <1>3, <1>4, <1>5, <1>6, <1>7 DEF ProgressNext, ProgressActors

\* A text that goes on, and a status and a health that are not taken back, give
\* a later phase, which is a step of the plan.
LEMMA ApplyAdvances ==
    ASSUME NEW p \in Plans, p.redis, NEW op, NEW new, TextGoesOn(p, op, new),
           NEW st, NEW st2, NEW hl, NEW hl2,
           hl = "ready" => hl2 = "ready",
           st = "ready" => st2 = "ready",
           st \in {"bootstrapping", "degraded"} => st2 \in {"bootstrapping", "degraded", "ready"}
    PROVE  /\ Place(ApplyPhase(p, op, st, hl)) <= Place(ApplyPhase(p, new, st2, hl2))
           /\ \/ ApplyPhase(p, new, st2, hl2) \in Range(ApplyOrder(p))
              \/ ApplyPhase(p, new, st2, hl2) = ApplyPhase(p, op, st, hl)
<1>1. p.licenses \in Nat /\ p.databases \in Nat /\ p.gke \in BOOLEAN
  BY ProgressAssumption
<1>2. SettleStep(p) \in {"rec", "bootstrap"} /\ SettleStep(p) \in Range(ApplyOrder(p)) /\ Place(SettleStep(p)) = 5
  BY <1>1, ApplyOrderIs, PlaceIs DEF SettleStep
<1>3. /\ {"init", "plan", "create", "ready"} \subseteq Range(ApplyOrder(p))
      /\ p.gke => {"operator", "rec"} \subseteq Range(ApplyOrder(p))
      /\ p.licenses > 0 => "licenses" \in Range(ApplyOrder(p))
      /\ p.databases > 0 => "databases" \in Range(ApplyOrder(p))
  BY ApplyOrderIs
<1>4. /\ ClusterUp(op, hl) => ClusterUp(new, hl2)
      /\ Settling(op, st) => Settling(new, st2) \/ st2 = "ready"
      /\ LicensesNow(p, op, hl) => LicensesNow(p, new, hl2) \/ (p.databases > 0 /\ "creatingDatabases" \in new.marks)
      /\ LicensesNow(p, new, hl2) => p.licenses > 0
  BY DEF ClusterUp, Settling, LicensesNow, TextGoesOn
<1> DEFINE phase == ApplyPhase(p, op, st, hl)
           next == ApplyPhase(p, new, st2, hl2)
<1>5. next \in Range(ApplyOrder(p)) \/ next = "queued"
  BY <1>2, <1>3, <1>4, ApplyPhaseIs DEF TextGoesOn
<1>6. next = "queued" => phase = "queued"
  BY <1>2, <1>4, ApplyPhaseIs DEF TextGoesOn
<1>7. Place(phase) <= Place(next)
  <2> DEFINE Ready == st2 = "ready" \/ "resourcesComplete" \in new.marks
             Post == LicensesNow(p, new, hl2) \/ (p.databases > 0 /\ ("creatingDatabases" \in new.marks \/ ClusterUp(new, hl2)))
  <2>1. CASE Ready
    <3>1. next = "ready"
      BY <2>1, ApplyPhaseIs
    <3> QED
      BY <3>1 DEF Place
  <2>2. CASE ~Ready /\ Post
    <3>1. Place(next) = IF p.databases > 0 /\ "creatingDatabases" \in new.marks THEN 7 ELSE IF LicensesNow(p, new, hl2) THEN 6 ELSE 7
      BY <2>2, ApplyPhaseIs, PlaceIs
    <3>2. st # "ready" /\ "resourcesComplete" \notin op.marks
          /\ (p.databases > 0 /\ "creatingDatabases" \in op.marks => p.databases > 0 /\ "creatingDatabases" \in new.marks)
      BY <2>2 DEF TextGoesOn
    <3>3. LicensesNow(p, op, hl) \/ ~(p.databases > 0 /\ ClusterUp(op, hl))
          \/ ~LicensesNow(p, new, hl2)
          \/ (p.databases > 0 /\ "creatingDatabases" \in new.marks)
      BY DEF LicensesNow, ClusterUp, TextGoesOn
    <3>4. phase \in {"databases", "licenses", "rec", "bootstrap", "operator", "create", "plan", "init", "queued"}
      BY <1>2, <3>2, ApplyPhaseIs
    <3>5. phase = "databases" => Place(next) = 7
      BY <1>2, <3>1, <3>2, <3>3, ApplyPhaseIs
    <3> QED
      BY <3>1, <3>4, <3>5, PlaceIs
  <2>3. CASE ~Ready /\ ~Post
    <3> DEFINE Lower(o, s) == IF Settling(o, s) THEN SettleStep(p)
                              ELSE IF "rec" \in o.marks THEN "rec"
                              ELSE IF "operator" \in o.marks THEN "operator"
                              ELSE IF o.done > 0 \/ "creating" \in o.marks THEN "create"
                              ELSE IF "plan" \in o.marks THEN "plan"
                              ELSE IF "init" \in o.marks THEN "init" ELSE "queued"
    <3>1. next = Lower(new, st2)
      BY <2>3, ApplyPhaseIs
    <3>2. phase = Lower(op, st)
      <4>1. ~(st = "ready" \/ "resourcesComplete" \in op.marks) /\ ~(p.databases > 0 /\ "creatingDatabases" \in op.marks)
            /\ ~LicensesNow(p, op, hl) /\ ~(p.databases > 0 /\ ClusterUp(op, hl))
        BY <1>4, <2>3 DEF TextGoesOn
      <4> QED
        BY <4>1, ApplyPhaseIs
    <3>3. Settling(op, st) => Settling(new, st2)
      BY <1>4, <2>3
    <3> HIDE DEF phase, next
    <3> QED
      BY <1>2, <3>1, <3>2, <3>3, PlaceIs DEF TextGoesOn
  <2> QED
    BY <2>1, <2>2, <2>3
<1> QED
  BY <1>5, <1>6, <1>7

LEMMA DestroyAdvances ==
    ASSUME NEW p, NEW op, NEW new, TextGoesOn(p, op, new), NEW st, NEW st2, st = "destroyed" => st2 = "destroyed"
    PROVE  /\ Place(DestroyPhase(op, st)) <= Place(DestroyPhase(new, st2))
           /\ DestroyPhase(new, st2) \in Range(DestroyOrder)
BY DestroyPhaseIs, DestroyOrderIs, PlaceIs DEF TextGoesOn

\* A step that is done stays done while its operation goes on, for every plan
\* with a cluster and any number of operations, unless something else has
\* written over the job, a probe takes back that the cluster is ready, or the
\* record is taken up again.
THEOREM StepsStayDoneCorrect == ProgressSpec => StepsStayDone
<1>1. StepsShown'
  BY StepsShownIs, PTL
<1>2. ASSUME ProgressInv, ProgressInv', [ProgressNext]_progressVars
      PROVE  [/\ plan.redis
              /\ Len(oplog') = Len(oplog)
              /\ ShownAfter.operation = Shown.operation
              /\ ~disturbed' /\ ~TakenBack /\ ~TakenUpAgain
              => LET before == Shown.steps  after == ShownAfter.steps
                 IN  \A k \in DOMAIN before : before[k] = "done" => after[k] = "done"]_progressVars
  <2> SUFFICES ASSUME plan.redis, Len(oplog') = Len(oplog), ShownAfter.operation = Shown.operation,
                      ~disturbed', ~TakenBack, ~TakenUpAgain,
                      NEW k \in DOMAIN Shown.steps, Shown.steps[k] = "done"
               PROVE  ShownAfter.steps[k] = "done"
    OBVIOUS
  <2>1. ShownAfter = Shown'
    BY DEF ShownAfter, Shown
  <2>2. plan \in Plans /\ plan' = plan /\ TextGoesOn(plan, OpNow, OpNow')
    BY <1>2, TextOnlyGrows DEF ProgressInv, ProgressTypes
  <2>3. KindNow' = KindNow
    BY DEF Shown, ShownAfter, ComputeProgress, KindNow, OpNow
  <2>4. OrderNow' = OrderNow
    BY <2>2, <2>3 DEF OrderNow, ApplyOrder, DestroyOrder
  <2>5. Place(PhaseNow) <= Place(PhaseNow') /\ (PhaseNow' \in Range(OrderNow) \/ PhaseNow' = PhaseNow)
    <3> DEFINE p == plan
               op == OpNow
               new == OpNow'
               st == standing
               st2 == standing'
               hl == lastHealth
               hl2 == lastHealth'
    <3>1. p \in Plans /\ p.redis /\ TextGoesOn(p, op, new)
      BY <2>2
    <3>2. CASE KindNow = "destroy"
      <4>1. /\ PhaseNow = DestroyPhase(op, st) /\ PhaseNow' = DestroyPhase(new, st2)
            /\ OrderNow = DestroyOrder
            /\ st = "destroyed" => st2 = "destroyed"
        BY <2>3, <3>2 DEF PhaseNow, OrderNow, TakenUpAgain
      <4> HIDE DEF p, op, new, st, st2
      <4> QED
        BY <3>1, <4>1, DestroyAdvances
    <3>3. CASE KindNow # "destroy"
      <4>1. standing' \notin {"destroying", "destroyed"}
        BY <2>3, <3>3 DEF KindNow
      <4>2. /\ PhaseNow = ApplyPhase(p, op, st, hl) /\ PhaseNow' = ApplyPhase(p, new, st2, hl2)
            /\ OrderNow = ApplyOrder(p)
        BY <2>2, <2>3, <3>3 DEF PhaseNow, OrderNow
      <4>3. /\ hl = "ready" => hl2 = "ready"
            /\ st = "ready" => st2 = "ready"
            /\ st \in {"bootstrapping", "degraded"} => st2 \in {"bootstrapping", "degraded", "ready"}
        BY <1>2, <4>1, StatusGoesOn DEF TakenBack
      <4> HIDE DEF p, op, new, st, st2, hl, hl2
      <4> QED
        BY <3>1, <4>2, <4>3, ApplyAdvances
    <3> QED
      BY <3>2, <3>3
  <2>6. OrderNow \in Seq(StepNames) /\ Ascends(OrderNow)
    BY <2>2, ApplyOrderIs, DestroyOrderIs DEF OrderNow
  <2> DEFINE s == OrderNow
             phase == PhaseNow
             next == PhaseNow'
             halted == HaltedNow
             halts == HaltedNow'
  <2>7. k \in DOMAIN s /\ StepState(s, phase, halted, k) = "done"
    BY ShownIs
  <2>8. ShownAfter.steps[k] = StepState(s, next, halts, k)
    <3>1. Shown'.steps = [j \in DOMAIN s |-> StepState(s, next, halts, j)]
      BY <1>1, <2>4 DEF StepsShown
    <3> QED
      BY <2>1, <2>7, <3>1
  <2> HIDE DEF s, phase, next, halted, halts
  <2>9. StepState(s, next, halts, k) = "done"
    <3>1. s \in Seq(StepNames) /\ Ascends(s) /\ Place(phase) <= Place(next) /\ (next \in Range(s) \/ next = phase)
      BY <2>5, <2>6 DEF s, phase, next
    <3>2. CASE next \in Range(s)
      BY <2>7, <3>1, <3>2, DoneStays
    <3>3. CASE next = phase
      BY <2>7, <3>3 DEF StepState
    <3> QED
      BY <3>1, <3>2, <3>3
  <2> QED
    BY <2>8, <2>9
<1> QED
  BY <1>2, ProgressInvariant, PTL DEF StepsStayDone, ProgressSpec

-----------------------------------------------------------------------------
(* Calls that fan out.                                                     *)

PoolType == [next : Nat, busy : SUBSET Items, results : SUBSET Items, rejected : BOOLEAN]

FanOutTypes ==
    /\ attempt \in Tries
    /\ outcome \in {"running", "sleeping", "ok", "failed"}
    /\ pool \in [Tries -> PoolType]

\* What holds of a map that has started, waited for or not.
PoolOK(p) ==
    /\ IsFiniteSet(p.busy) /\ Cardinality(p.busy) <= PoolLimit
    /\ p.next <= NumItems /\ p.busy \subseteq 1..p.next
    /\ ~p.rejected => p.busy \cup p.results = 1..p.next
    /\ ~p.rejected /\ p.busy = {} => p.next = NumItems

\* Those of later attempts have not.
MapsOK ==
    \A a \in Tries : IF a <= attempt THEN PoolOK(pool[a]) ELSE pool[a] = NoPool

OutcomeOK ==
    /\ outcome = "running" => ~pool[attempt].rejected
    /\ outcome = "ok" => pool[attempt].busy = {} /\ pool[attempt].results = Items

FanOutInv == FanOutTypes /\ MapsOK /\ OutcomeOK

-----------------------------------------------------------------------------

\* A map starts with no more items than it has workers.
LEMMA StartedPoolOK == StartedPool \in PoolType /\ PoolOK(StartedPool) /\ ~StartedPool.rejected
<1> DEFINE taken == IF PoolLimit < NumItems THEN PoolLimit ELSE NumItems
<1>1. taken \in Nat /\ taken <= PoolLimit /\ taken <= NumItems /\ (taken = 0 => NumItems = 0)
  BY FanOutAssumption
<1>2. IsFiniteSet(1..taken) /\ Cardinality(1..taken) = taken
  BY <1>1, FS_Interval
<1>3. 1..taken \subseteq Items /\ (1..taken = {} => taken = 0)
  BY <1>1, FanOutAssumption DEF Items
<1>4. StartedPool = [next |-> taken, busy |-> 1..taken, results |-> {}, rejected |-> FALSE]
  BY DEF StartedPool
<1> HIDE DEF taken
<1> QED
  BY <1>1, <1>2, <1>3, <1>4 DEF PoolType, PoolOK

\* A map that has not started is a map.
LEMMA NoPoolType == NoPool \in PoolType
BY DEF NoPool, PoolType

\* A worker that is done with an item, and takes another if one is left.
LEMMA TakeNextOK ==
    ASSUME NEW p \in PoolType, PoolOK(p), NEW i \in p.busy
    PROVE  LET q == TakeNext([p EXCEPT !.busy = @ \ {i}, !.results = @ \cup {i}])
           IN  q \in PoolType /\ PoolOK(q) /\ q.rejected = p.rejected
<1> DEFINE r == [p EXCEPT !.busy = @ \ {i}, !.results = @ \cup {i}]
           q == TakeNext(r)
<1> SUFFICES q \in PoolType /\ PoolOK(q) /\ q.rejected = p.rejected
  OBVIOUS
<1>1. /\ i \in Items /\ p.next \in Nat /\ NumItems \in Nat /\ PoolLimit \in Nat
      /\ p.busy \subseteq Items /\ p.results \subseteq Items /\ p.rejected \in BOOLEAN
  BY FanOutAssumption DEF PoolType
<1>2. r = [next |-> p.next, busy |-> p.busy \ {i}, results |-> p.results \cup {i}, rejected |-> p.rejected]
  <2>1. /\ r \in PoolType /\ r.next = p.next /\ r.rejected = p.rejected
        /\ r.busy = p.busy \ {i} /\ r.results = p.results \cup {i}
    BY <1>1 DEF PoolType
  <2> HIDE DEF r
  <2> QED
    BY <2>1 DEF PoolType
<1>3. IsFiniteSet(p.busy \ {i}) /\ Cardinality(p.busy \ {i}) = Cardinality(p.busy) - 1 /\ Cardinality(p.busy) \in Nat
  BY FS_RemoveElement, FS_CardinalityType DEF PoolOK
<1>4. /\ p.busy \ {i} \subseteq 1..p.next
      /\ ~p.rejected => (p.busy \ {i}) \cup (p.results \cup {i}) = 1..p.next
  BY DEF PoolOK
<1> HIDE DEF r
<1>5. CASE p.next < NumItems
  <2> DEFINE busy == (p.busy \ {i}) \cup {p.next + 1}
  <2>1. q = [next |-> p.next + 1, busy |-> busy, results |-> p.results \cup {i}, rejected |-> p.rejected]
    BY <1>2, <1>5 DEF TakeNext
  <2>2. p.next + 1 \in Items /\ p.next + 1 \notin p.busy \ {i}
    BY <1>1, <1>4, <1>5 DEF Items
  <2>3. IsFiniteSet(busy) /\ Cardinality(busy) = Cardinality(p.busy)
    <3>1. /\ IsFiniteSet((p.busy \ {i}) \cup {p.next + 1})
          /\ Cardinality((p.busy \ {i}) \cup {p.next + 1}) = Cardinality(p.busy \ {i}) + 1
      BY <1>3, <2>2, FS_AddElement
    <3> QED
      BY <1>3, <3>1
  <2>4. /\ busy \subseteq 1..(p.next + 1) /\ busy # {}
        /\ ~p.rejected => busy \cup (p.results \cup {i}) = 1..(p.next + 1)
    <3>1. 1..(p.next + 1) = (1..p.next) \cup {p.next + 1}
      BY <1>1
    <3> QED
      BY <1>4, <3>1
  <2>5. busy \subseteq Items
    BY <1>1, <2>2
  <2> HIDE DEF busy, q
  <2>6. q \in PoolType
    BY <1>1, <2>1, <2>5 DEF PoolType
  <2> QED
    BY <1>1, <1>5, <2>1, <2>3, <2>4, <2>6 DEF PoolOK
<1>6. CASE ~(p.next < NumItems)
  <2>1. q = r /\ p.next = NumItems
    BY <1>1, <1>2, <1>6 DEF TakeNext, PoolOK
  <2> HIDE DEF q
  <2>2. q \in PoolType
    BY <1>1, <1>2, <2>1 DEF PoolType
  <2> QED
    BY <1>1, <1>2, <1>3, <1>4, <2>1, <2>2 DEF PoolOK
<1> HIDE DEF q
<1> QED
  BY <1>5, <1>6

\* A worker that ends with its item.
LEMMA RejectedOK ==
    ASSUME NEW p \in PoolType, PoolOK(p), NEW i \in p.busy
    PROVE  LET q == [p EXCEPT !.busy = @ \ {i}, !.rejected = TRUE]
           IN  q \in PoolType /\ PoolOK(q)
<1> DEFINE q == [p EXCEPT !.busy = @ \ {i}, !.rejected = TRUE]
<1>1. /\ q \in PoolType /\ q.rejected = TRUE /\ q.next = p.next /\ q.busy = p.busy \ {i}
  BY DEF PoolType
<1>2. IsFiniteSet(q.busy) /\ Cardinality(q.busy) = Cardinality(p.busy) - 1 /\ Cardinality(p.busy) \in Nat
  BY <1>1, FS_RemoveElement, FS_CardinalityType DEF PoolOK
<1> HIDE DEF q
<1>3. PoolOK(q)
  BY <1>1, <1>2, FanOutAssumption DEF PoolOK
<1> QED
  BY <1>1, <1>3 DEF q

\* When an answered map was not rejected every item has its result.
LEMMA AnsweredIsWhole ==
    ASSUME NEW p \in PoolType, PoolOK(p), ~p.rejected, Answered(p)
    PROVE  p.busy = {} /\ p.results = Items
BY DEF PoolOK, Answered, Items, PoolType

-----------------------------------------------------------------------------

\* The invariant holds when withRetry has made its first attempt.
LEMMA FanOutInvInit == FanOutInit => FanOutInv
<1> SUFFICES ASSUME FanOutInit PROVE FanOutInv
  OBVIOUS
<1>1. 1 \in Tries
  BY FanOutAssumption DEF Tries
<1>2. FanOutTypes
  BY <1>1, StartedPoolOK, NoPoolType DEF FanOutInit, FanOutTypes
<1>3. MapsOK
  BY <1>1, StartedPoolOK, FanOutAssumption DEF FanOutInit, MapsOK, Tries
<1>4. pool[attempt] = StartedPool
  BY <1>1 DEF FanOutInit
<1>5. Answered(StartedPool) => StartedPool.busy = {} /\ StartedPool.results = Items
  BY StartedPoolOK, AnsweredIsWhole
<1>6. OutcomeOK
  BY <1>4, <1>5, StartedPoolOK DEF FanOutInit, OutcomeOK
<1> QED
  BY <1>2, <1>3, <1>6 DEF FanOutInv

\* A map that has an item under way has started.
LEMMA BusyHasStarted ==
    ASSUME FanOutInv, NEW a \in Tries, NEW i \in pool[a].busy
    PROVE  a <= attempt /\ PoolOK(pool[a]) /\ pool[a] \in PoolType
BY DEF FanOutInv, FanOutTypes, MapsOK, NoPool

\* It is kept by every answer, awaited or not, and by every retry.
LEMMA FanOutInvNext == FanOutInv /\ [FanOutNext]_fanOutVars => FanOutInv'
<1> SUFFICES ASSUME FanOutInv, [FanOutNext]_fanOutVars PROVE FanOutInv'
  OBVIOUS
<1> USE FanOutAssumption
<1>1. ASSUME NEW a \in Tries, NEW i \in Items, ItemDone(a, i) PROVE FanOutInv'
  <2> DEFINE p == TakeNext([pool[a] EXCEPT !.busy = @ \ {i}, !.results = @ \cup {i}])
  <2>1. i \in pool[a].busy /\ pool' = [pool EXCEPT ![a] = p] /\ attempt' = attempt
        /\ outcome' = IF a = attempt /\ outcome = "running" /\ Answered(p) THEN "ok" ELSE outcome
    BY <1>1 DEF ItemDone
  <2>2. a <= attempt /\ PoolOK(pool[a]) /\ pool[a] \in PoolType
    BY <2>1, BusyHasStarted
  <2>3. p \in PoolType /\ PoolOK(p) /\ p.rejected = pool[a].rejected
    BY <2>1, <2>2, TakeNextOK
  <2> HIDE DEF p
  <2>4. FanOutTypes'
    BY <2>1, <2>3 DEF FanOutInv, FanOutTypes
  <2>5. MapsOK'
    BY <2>1, <2>2, <2>3 DEF FanOutInv, FanOutTypes, MapsOK
  <2>6. OutcomeOK'
    <3>1. CASE a = attempt
      <4>1. pool'[attempt'] = p /\ outcome # "ok"
        BY <2>1, <3>1 DEF FanOutInv, FanOutTypes, OutcomeOK
      <4>2. outcome = "running" => ~p.rejected
        BY <2>3, <3>1 DEF FanOutInv, OutcomeOK
      <4>3. outcome = "running" /\ Answered(p) => p.busy = {} /\ p.results = Items
        BY <2>3, <4>2, AnsweredIsWhole
      <4> QED
        BY <2>1, <3>1, <4>1, <4>2, <4>3 DEF OutcomeOK
    <3>2. CASE a # attempt
      BY <2>1, <3>2 DEF FanOutInv, FanOutTypes, OutcomeOK
    <3> QED
      BY <3>1, <3>2
  <2> QED
    BY <2>4, <2>5, <2>6 DEF FanOutInv
<1>2. ASSUME NEW a \in Tries, NEW i \in Items, NEW retryable \in BOOLEAN, ItemFails(a, i, retryable)
      PROVE  FanOutInv'
  <2> DEFINE p == [pool[a] EXCEPT !.busy = @ \ {i}, !.rejected = TRUE]
  <2>1. i \in pool[a].busy
    BY <1>2 DEF ItemFails
  <2>2. a <= attempt /\ PoolOK(pool[a]) /\ pool[a] \in PoolType
    BY <2>1, BusyHasStarted
  <2>3. p \in PoolType /\ PoolOK(p)
    BY <2>1, <2>2, RejectedOK
  <2>4. pool' = [pool EXCEPT ![a] = p] /\ attempt' = attempt
        /\ outcome' = IF a = attempt /\ outcome = "running"
                      THEN IF retryable /\ attempt < Attempts THEN "sleeping" ELSE "failed"
                      ELSE outcome
    BY <1>2, <2>2 DEF ItemFails, FanOutInv, FanOutTypes
  <2> HIDE DEF p
  <2>5. FanOutTypes'
    BY <2>3, <2>4 DEF FanOutInv, FanOutTypes
  <2>6. MapsOK'
    BY <2>2, <2>3, <2>4 DEF FanOutInv, FanOutTypes, MapsOK
  <2>7. OutcomeOK'
    <3>1. CASE a = attempt
      BY <2>1, <2>4, <3>1 DEF FanOutInv, FanOutTypes, OutcomeOK
    <3>2. CASE a # attempt
      BY <2>4, <3>2 DEF FanOutInv, FanOutTypes, OutcomeOK
    <3> QED
      BY <3>1, <3>2
  <2> QED
    BY <2>5, <2>6, <2>7 DEF FanOutInv
<1>3. CASE NextAttempt
  <2>1. attempt' = attempt + 1 /\ attempt' \in Tries
    BY <1>3 DEF NextAttempt, FanOutInv, FanOutTypes, Tries
  <2>2. pool' = [pool EXCEPT ![attempt'] = StartedPool] /\ pool'[attempt'] = StartedPool
    BY <1>3, <2>1 DEF NextAttempt, FanOutInv, FanOutTypes
  <2>3. outcome' = IF Answered(StartedPool) THEN "ok" ELSE "running"
    BY <1>3 DEF NextAttempt
  <2>4. FanOutTypes'
    BY <2>1, <2>2, <2>3, StartedPoolOK DEF FanOutInv, FanOutTypes
  <2>5. MapsOK'
    BY <2>1, <2>2, StartedPoolOK DEF FanOutInv, FanOutTypes, MapsOK, Tries
  <2>6. Answered(StartedPool) => StartedPool.busy = {} /\ StartedPool.results = Items
    BY StartedPoolOK, AnsweredIsWhole
  <2>7. OutcomeOK'
    BY <2>2, <2>3, <2>6, StartedPoolOK DEF OutcomeOK
  <2> QED
    BY <2>4, <2>5, <2>7 DEF FanOutInv
<1>4. CASE UNCHANGED fanOutVars
  BY <1>4 DEF fanOutVars, FanOutInv, FanOutTypes, MapsOK, OutcomeOK
<1> QED
  BY <1>1, <1>2, <1>3, <1>4 DEF FanOutNext, Answer

\* The answer of mapWithConcurrency, retried or not, has every item, and no
\* map has more calls in flight than its limit, for every number of items,
\* workers and attempts.
THEOREM AnswersAreWhole == FanOutSpec => []AnswerIsWhole
<1>1. FanOutInv => AnswerIsWhole
  <2> SUFFICES ASSUME FanOutInv PROVE AnswerIsWhole
    OBVIOUS
  <2>1. \A a \in Tries : Cardinality(pool[a].busy) <= PoolLimit
    <3> SUFFICES ASSUME NEW a \in Tries PROVE Cardinality(pool[a].busy) <= PoolLimit
      OBVIOUS
    <3>1. CASE a <= attempt
      BY <3>1 DEF FanOutInv, MapsOK, PoolOK
    <3>2. CASE ~(a <= attempt)
      <4>1. pool[a].busy = {}
        BY <3>2 DEF FanOutInv, MapsOK, NoPool
      <4> QED
        BY <4>1, FS_EmptySet, FanOutAssumption
    <3> QED
      BY <3>1, <3>2
  <2> QED
    BY <2>1 DEF FanOutInv, OutcomeOK, AnswerIsWhole
<1>2. FanOutInit => FanOutInv
  BY FanOutInvInit
<1>3. FanOutInv /\ [FanOutNext]_fanOutVars => FanOutInv'
  BY FanOutInvNext
<1> QED
  BY <1>1, <1>2, <1>3, PTL DEF FanOutSpec

-----------------------------------------------------------------------------
(* ResourceScan.                                                           *)

SourceNames == Range(SourceList)

RequestType ==
    [pc : {"idle", "listing", "pricing"}, next : Nat, busy : SUBSET ScanSources,
     found : SUBSET GcpResources, missing : SUBSET SourceNames, warned : SUBSET SourceNames,
     always : SUBSET GcpResources, ever : SUBSET GcpResources]

Groupings == UNION {[ids \cup {Unowned} -> SUBSET GcpResources] : ids \in SUBSET Ids}

AnswerType ==
    [fresh : BOOLEAN, groups : Groupings, ids : SUBSET Ids,
     missing : SUBSET SourceNames, warned : SUBSET (SourceNames \cup {"pricing", "billing"}),
     always : SUBSET GcpResources, ever : SUBSET GcpResources]

ScanTypes ==
    /\ live \in SUBSET GcpResources
    /\ known \in SUBSET Ids
    /\ scan \in [ScanRequests -> RequestType]
    /\ cached # NoScan => cached \in AnswerType

\* What a source holds was found, or the source is named.
Accounted(q, s) ==
    \A x \in q.always : x.source = SourceList[s] => x \in q.found \/ x.source \in q.missing \cup q.warned

RequestOK(q) ==
    /\ q.next <= Len(SourceList) /\ q.busy \subseteq 1..q.next
    /\ q.pc = "listing" => q.always \subseteq live /\ live \subseteq q.ever
    /\ q.found \subseteq q.ever
    /\ \A s \in (1..q.next) \ q.busy : Accounted(q, s)
    /\ q.pc = "pricing" => q.busy = {} /\ q.next = Len(SourceList)

ScanInv == ScanTypes /\ (\A r \in ScanRequests : RequestOK(scan[r])) /\ ScanAccounts /\ OwnerOrLonger

-----------------------------------------------------------------------------
(* Attribution.                                                            *)

\* A name is at least as long as an id that it matches.
LEMMA MatchLength ==
    ASSUME NEW name \in Seq(STRING), NEW id \in Seq(STRING), NameMatchesInstance(name, id)
    PROVE  Len(id) <= Len(name)
<1>1. CASE IsPrefix(id, name)
  BY <1>1 DEF IsPrefix
<1>2. CASE IsNodeOf(name, id)
  <2>0. PICK part \in GkeParts : IsPrefix(<<"gke">> \o id \o <<part>>, name)
    BY <1>2 DEF IsNodeOf
  <2> DEFINE S == STRING \cup {"gke", part}
             g == <<"gke">>
             h == <<part>>
  <2>1. g \in Seq(S) /\ Len(g) = 1 /\ h \in Seq(S) /\ Len(h) = 1 /\ id \in Seq(S)
    BY SingletonSeq, SeqMonotonic
  <2>2. Len(g \o id \o h) <= Len(name)
    BY <2>0 DEF IsPrefix
  <2> HIDE DEF S, g, h
  <2>3. g \o id \in Seq(S) /\ Len(g \o id) = 1 + Len(id)
    <3>1. g \in Seq(S) /\ id \in Seq(S)
      BY <2>1
    <3>2. g \o id \in Seq(S) /\ Len(g \o id) = Len(g) + Len(id)
      BY <3>1, ConcatProperties
    <3> QED
      BY <2>1, <3>2
  <2>4. Len(g \o id \o h) = 1 + Len(id) + 1
    BY <2>1, <2>3, ConcatProperties
  <2> QED
    BY <2>2, <2>4, LenProperties
<1> QED
  BY <1>1, <1>2 DEF NameMatchesInstance

\* Of the ids that match a name one is the longest.
LEMMA LongestMatch ==
    ASSUME NEW x \in GcpResources, NEW matches, matches \subseteq Ids, matches # {},
           \A id \in matches : NameMatchesInstance(x.name, id)
    PROVE  \E id \in matches : \A other \in matches : Len(other) <= Len(id)
<1> DEFINE T == {Len(x.name) - Len(id) : id \in matches}
<1>1. \A id \in matches : Len(id) \in Nat /\ Len(x.name) \in Nat /\ Len(id) <= Len(x.name)
  BY ScanAssumption, MatchLength, LenProperties
<1>2. T \subseteq Nat /\ T # {}
  BY <1>1
<1>3. PICK n \in T : \A m \in T : n <= m
  BY <1>2, LeastNumber
<1>4. PICK id \in matches : n = Len(x.name) - Len(id)
  BY <1>3
<1>5. \A other \in matches : Len(x.name) - Len(id) <= Len(x.name) - Len(other)
  BY <1>3, <1>4
<1> QED
  BY <1>1, <1>5

\* What is attributed to an id matches it, and what matches it is attributed
\* to no shorter one.
LEMMA AttributionIs ==
    ASSUME NEW x \in GcpResources, NEW ids \in SUBSET Ids
    PROVE  /\ AttributeOne(x, ids) \in ids \cup {Unowned}
           /\ \A id \in ids : NameMatchesInstance(x.name, id) =>
                 AttributeOne(x, ids) # Unowned /\ Len(id) <= Len(AttributeOne(x, ids))
<1> DEFINE matches == {id \in ids : NameMatchesInstance(x.name, id)}
<1>1. AttributeOne(x, ids) = IF matches = {} THEN Unowned
                             ELSE CHOOSE id \in matches : \A other \in matches : Len(other) <= Len(id)
  BY DEF AttributeOne
<1>2. CASE matches = {}
  BY <1>1, <1>2
<1>3. CASE matches # {}
  <2>1. \E id \in matches : \A other \in matches : Len(other) <= Len(id)
    BY <1>3, LongestMatch
  <2>2. AttributeOne(x, ids) \in matches /\ \A other \in matches : Len(other) <= Len(AttributeOne(x, ids))
    BY <1>1, <1>3, <2>1
  <2>3. Unowned \notin ids
    BY ScanAssumption
  <2> QED
    BY <2>2, <2>3
<1> QED
  BY <1>2, <1>3

\* The groups hold what was found, all of it and nothing else.
LEMMA GroupsHoldAll ==
    ASSUME NEW found \in SUBSET GcpResources, NEW ids \in SUBSET Ids
    PROVE  /\ AttributeResources(found, ids) \in Groupings
           /\ UNION Range(AttributeResources(found, ids)) = found
           /\ DOMAIN AttributeResources(found, ids) = ids \cup {Unowned}
           /\ \A key \in ids \cup {Unowned} : \A x \in AttributeResources(found, ids)[key] :
                 x \in found /\ AttributeOne(x, ids) = key
<1> DEFINE groups == AttributeResources(found, ids)
<1>1. groups = [key \in ids \cup {Unowned} |-> {x \in found : AttributeOne(x, ids) = key}]
  BY DEF AttributeResources
<1> HIDE DEF groups
<1>2. groups \in [ids \cup {Unowned} -> SUBSET GcpResources]
  BY <1>1
<1>3. \A x \in found : x \in groups[AttributeOne(x, ids)] /\ AttributeOne(x, ids) \in DOMAIN groups
  BY <1>1, AttributionIs
<1>4. UNION Range(groups) = found
  BY <1>1, <1>3 DEF Range
<1> QED
  BY <1>1, <1>2, <1>4 DEF Groupings, groups

-----------------------------------------------------------------------------
(* Requests.                                                               *)

\* A request that has not begun is in order.
LEMMA IdleOK == IdleScan \in RequestType /\ RequestOK(IdleScan)
<1>1. Len(SourceList) \in Nat
  BY ScanAssumption, LenProperties
<1> QED
  BY <1>1 DEF IdleScan, RequestType, RequestOK

\* A worker takes the next source, or the enumeration ends when none is left.
LEMMA SourceTakenOK ==
    ASSUME ScanTypes, NEW q \in RequestType, RequestOK(q), q.pc = "listing"
    PROVE  SourceTaken(q) \in RequestType /\ RequestOK(SourceTaken(q))
<1> DEFINE t == SourceTaken(q)
           more == q.next < Len(SourceList)
           busy == IF more THEN q.busy \cup {q.next + 1} ELSE q.busy
           next == IF more THEN q.next + 1 ELSE q.next
<1>0. Len(SourceList) \in Nat /\ q.next \in Nat /\ q.busy \subseteq ScanSources
  BY ScanAssumption, LenProperties DEF RequestType
<1>1. /\ t \in RequestType
      /\ t.next = next /\ t.busy = busy /\ t.pc = IF busy = {} THEN "pricing" ELSE "listing"
      /\ t.found = q.found /\ t.missing = q.missing /\ t.warned = q.warned
      /\ t.always = q.always /\ t.ever = q.ever
  <2>1. busy \subseteq ScanSources /\ next \in Nat
    BY <1>0 DEF ScanSources
  <2>2. t = [q EXCEPT !.next = next, !.busy = busy, !.pc = IF busy = {} THEN "pricing" ELSE @]
    BY DEF SourceTaken
  <2> HIDE DEF t, next, busy
  <2> QED
    BY <2>1, <2>2 DEF RequestType
<1>2. (1..next) \ busy \subseteq (1..q.next) \ q.busy
  BY <1>0
<1>3. next <= Len(SourceList) /\ busy \subseteq 1..next /\ (busy = {} => next = Len(SourceList))
  BY <1>0 DEF RequestOK
<1> HIDE DEF t, next, busy, more
<1>4. \A s \in (1..next) \ busy : Accounted(t, s)
  BY <1>1, <1>2 DEF RequestOK, Accounted
<1>5. RequestOK(t)
  BY <1>1, <1>3, <1>4 DEF RequestOK
<1> QED
  BY <1>1, <1>5 DEF t

\* A worker that is done with a source: it was listed, or it is named.
LEMMA SourceDoneOK ==
    ASSUME NEW p \in RequestType, NEW q \in RequestType, NEW s \in p.busy,
           ScanTypes, RequestOK(p), p.pc = "listing",
           q.next = p.next, q.busy = p.busy \ {s}, q.pc = p.pc, q.always = p.always, q.ever = p.ever,
           p.found \subseteq q.found, q.found \subseteq p.found \cup ListedBy(s),
           p.missing \subseteq q.missing, p.warned \subseteq q.warned,
           ListedBy(s) \subseteq q.found \/ SourceList[s] \in q.missing \cup q.warned
    PROVE  RequestOK(q)
<1>1. ListedBy(s) \subseteq live /\ live \subseteq GcpResources
  BY DEF ListedBy, ScanTypes
<1>3. Accounted(q, s)
  <2> SUFFICES ASSUME NEW x \in p.always, x.source = SourceList[s]
               PROVE  x \in q.found \/ x.source \in q.missing \cup q.warned
    BY DEF Accounted
  <2>1. x \in ListedBy(s)
    BY DEF ListedBy, RequestOK
  <2> QED
    BY <2>1
<1>4. \A z \in (1..p.next) \ p.busy : Accounted(q, z)
  BY DEF RequestOK, Accounted
<1> QED
  BY <1>1, <1>3, <1>4 DEF RequestOK

\* The scan begins with everything that exists, and nothing found.
LEMMA ScanStartedOK == ScanTypes => ScanStarted \in RequestType /\ RequestOK(ScanStarted)
<1> SUFFICES ASSUME ScanTypes PROVE ScanStarted \in RequestType /\ RequestOK(ScanStarted)
  OBVIOUS
<1> DEFINE taken == Min({ScanPool, Len(SourceList)})
<1>1. Len(SourceList) \in Nat /\ ScanPool \in Nat
  BY ScanAssumption, LenProperties
<1>2. taken \in Nat /\ taken <= Len(SourceList)
  <2>1. taken \in {ScanPool, Len(SourceList)} /\ \A y \in {ScanPool, Len(SourceList)} : taken <= y
    <3>1. \E x \in {ScanPool, Len(SourceList)} : \A y \in {ScanPool, Len(SourceList)} : x <= y
      BY <1>1
    <3> QED
      BY <3>1 DEF Min
  <2> QED
    BY <1>1, <2>1
<1>3. ScanStarted = [IdleScan EXCEPT !.pc = "listing", !.next = taken, !.busy = 1..taken,
                                     !.always = live, !.ever = live]
  BY DEF ScanStarted
<1> HIDE DEF taken
<1>4. ScanStarted = [pc |-> "listing", next |-> taken, busy |-> 1..taken, found |-> {}, missing |-> {},
                     warned |-> {}, always |-> live, ever |-> live]
  BY <1>3 DEF IdleScan
<1>5. 1..taken \subseteq ScanSources
  BY <1>1, <1>2 DEF ScanSources
<1> QED
  BY <1>2, <1>4, <1>5 DEF RequestType, RequestOK, ScanTypes

-----------------------------------------------------------------------------
(* Steps.                                                                  *)

\* A request that changes alone and stays in order keeps the invariant.
LEMMA OneRequest ==
    ASSUME ScanInv, NEW r \in ScanRequests, NEW q \in RequestType, RequestOK(q),
           scan' = [scan EXCEPT ![r] = q], UNCHANGED <<live, known, cached>>
    PROVE  ScanInv'
<1>1. ScanTypes'
  BY DEF ScanInv, ScanTypes
<1>2. \A o \in ScanRequests : RequestOK(scan[o])'
  BY DEF ScanInv, ScanTypes, RequestOK, Accounted
<1>3. ScanAccounts' /\ OwnerOrLonger'
  BY DEF ScanInv, ScanAccounts, OwnerOrLonger
<1> QED
  BY <1>1, <1>2, <1>3 DEF ScanInv

\* A scan begins.
LEMMA ScanBeginInv ==
    ASSUME ScanInv, NEW r \in ScanRequests, NEW refresh \in BOOLEAN, ScanBegin(r, refresh)
    PROVE  ScanInv'
<1>1. ScanTypes
  BY DEF ScanInv
<1> QED
  BY <1>1, ScanStartedOK, OneRequest DEF ScanBegin

\* A source answers, well or not.
LEMMA SourceAnswersInv ==
    ASSUME ScanInv, NEW r \in ScanRequests, NEW s \in ScanSources,
           NEW answer \in {"listed", "denied", "failed"}, SourceAnswers(r, s, answer)
    PROVE  ScanInv'
<1> DEFINE p == scan[r]
           found == IF answer = "listed" THEN ListedBy(s) ELSE {}
           missing == IF answer = "denied" THEN {SourceList[s]} ELSE {}
           warned == IF answer = "failed" THEN {SourceList[s]} ELSE {}
           q == [p EXCEPT !.busy = @ \ {s}, !.found = @ \cup found,
                          !.missing = @ \cup missing, !.warned = @ \cup warned]
<1>1. ScanTypes /\ p \in RequestType /\ RequestOK(p) /\ p.pc = "listing" /\ s \in p.busy
  BY DEF ScanInv, ScanTypes, SourceAnswers
<1>2. SourceList[s] \in SourceNames
  BY ScanAssumption, LenProperties DEF ScanSources, SourceNames, Range
<1>3. found \subseteq GcpResources /\ missing \subseteq SourceNames /\ warned \subseteq SourceNames
  BY <1>1, <1>2 DEF ListedBy, ScanTypes
<1>4. scan' = [scan EXCEPT ![r] = SourceTaken(q)] /\ UNCHANGED <<live, known, cached>>
  <2> DEFINE b == [p EXCEPT !.busy = @ \ {s}]
  <2>1. b \in RequestType /\ p \in RequestType
    BY <1>1 DEF RequestType
  <2>2. answer = "listed" => q = [b EXCEPT !.found = @ \cup ListedBy(s)]
    BY <1>1 DEF RequestType
  <2>3. answer = "denied" => q = [b EXCEPT !.missing = @ \cup {SourceList[s]}]
    BY <1>1 DEF RequestType
  <2>4. answer = "failed" => q = [b EXCEPT !.warned = @ \cup {SourceList[s]}]
    BY <1>1 DEF RequestType
  <2> HIDE DEF q
  <2> QED
    BY <2>2, <2>3, <2>4 DEF SourceAnswers
<1>5. /\ q \in RequestType /\ q.next = p.next /\ q.busy = p.busy \ {s} /\ q.pc = p.pc
      /\ q.found = p.found \cup found /\ q.missing = p.missing \cup missing /\ q.warned = p.warned \cup warned
      /\ q.always = p.always /\ q.ever = p.ever
  <2> HIDE DEF p, found, missing, warned
  <2> QED
    BY <1>1, <1>3 DEF RequestType
<1>6. /\ p.found \subseteq q.found /\ q.found \subseteq p.found \cup ListedBy(s)
      /\ p.missing \subseteq q.missing /\ p.warned \subseteq q.warned
      /\ ListedBy(s) \subseteq q.found \/ SourceList[s] \in q.missing \cup q.warned
  <2> HIDE DEF p, q
  <2> QED
    BY <1>5
<1> HIDE DEF p, found, missing, warned, q
<1>7. RequestOK(q)
  BY <1>1, <1>5, <1>6, SourceDoneOK
<1>8. SourceTaken(q) \in RequestType /\ RequestOK(SourceTaken(q))
  BY <1>1, <1>5, <1>7, SourceTakenOK
<1> QED
  BY <1>4, <1>8, OneRequest

\* An answer is put together: every source has been dealt with, and what was
\* found is in the groups.
LEMMA ScanAnsweredInv ==
    ASSUME ScanInv, NEW r \in ScanRequests, NEW priced \in BOOLEAN, NEW billed \in BOOLEAN,
           ScanAnswered(r, priced, billed)
    PROVE  ScanInv'
<1> DEFINE q == scan[r]
           groups == AttributeResources(q.found, known)
           failures == (IF priced THEN {} ELSE {"pricing"}) \cup (IF billed THEN {} ELSE {"billing"})
<1>1. ScanTypes /\ q \in RequestType /\ RequestOK(q) /\ q.pc = "pricing" /\ known \in SUBSET Ids
  BY DEF ScanInv, ScanTypes, ScanAnswered
<1>2. /\ cached' = [fresh |-> TRUE, groups |-> groups, ids |-> known, missing |-> q.missing,
                    warned |-> q.warned \cup failures, always |-> q.always, ever |-> q.ever]
      /\ scan' = [scan EXCEPT ![r] = IdleScan] /\ UNCHANGED <<live, known>>
  BY DEF ScanAnswered
<1>3. failures \subseteq {"pricing", "billing"}
  OBVIOUS
<1>4. q.found \in SUBSET GcpResources
  BY <1>1 DEF RequestType
<1>5. /\ groups \in Groupings /\ UNION Range(groups) = q.found /\ DOMAIN groups = known \cup {Unowned}
      /\ \A key \in known \cup {Unowned} : \A x \in groups[key] : x \in q.found /\ AttributeOne(x, known) = key
  BY <1>1, <1>4, GroupsHoldAll
<1> HIDE DEF q, groups, failures
<1>6. cached' \in AnswerType
  BY <1>1, <1>2, <1>3, <1>5 DEF AnswerType, RequestType
<1>7. ScanTypes' /\ \A o \in ScanRequests : RequestOK(scan[o])'
  BY <1>2, <1>6, IdleOK DEF ScanInv, ScanTypes, RequestOK, Accounted
<1>8. ScanAccounts'
  <2>1. ASSUME NEW x \in q.always PROVE x \in q.found \/ x.source \in q.missing \cup q.warned
    <3>1. x \in GcpResources
      BY <1>1, <2>1 DEF RequestType
    <3>2. PICK s \in DOMAIN SourceList : x.source = SourceList[s]
      BY <3>1, ScanAssumption DEF Range
    <3>3. s \in (1..q.next) \ q.busy
      BY <1>1, <3>2, ScanAssumption, LenProperties DEF RequestOK
    <3> QED
      BY <1>1, <2>1, <3>2, <3>3 DEF RequestOK, Accounted
  <2>2. q.found \subseteq q.ever
    BY <1>1 DEF RequestOK
  <2> QED
    BY <1>2, <1>5, <2>1, <2>2 DEF ScanAccounts
<1>9. OwnerOrLonger'
  <2> SUFFICES ASSUME NEW key \in known \cup {Unowned}, NEW x \in groups[key], x.by \in known,
                      NameMatchesInstance(x.name, x.by)
               PROVE  key # Unowned /\ Len(key) >= Len(x.by)
    BY <1>2, <1>5 DEF OwnerOrLonger
  <2>1. x \in GcpResources /\ AttributeOne(x, known) = key
    BY <1>4, <1>5
  <2>2. key # Unowned /\ Len(x.by) <= Len(key)
    BY <1>1, <2>1, AttributionIs
  <2>3. Len(key) \in Nat /\ Len(x.by) \in Nat
    BY <1>1, <2>2, ScanAssumption, LenProperties
  <2> QED
    BY <2>2, <2>3
<1> QED
  BY <1>7, <1>8, <1>9 DEF ScanInv

\* A resource that is made was not there during all of a scan, but it was
\* there at some time of it.
LEMMA ResourceMadeInv ==
    ASSUME ScanInv, NEW x \in GcpResources, ResourceMade(x)
    PROVE  ScanInv'
<1>1. ASSUME NEW r \in ScanRequests
      PROVE  scan'[r] \in RequestType /\ RequestOK(scan[r])'
  <2>1. scan[r] \in RequestType /\ RequestOK(scan[r])
    BY DEF ScanInv, ScanTypes
  <2>2. CASE scan[r].pc = "listing"
    <3>1. scan'[r] = [scan[r] EXCEPT !.ever = @ \cup {x}]
      BY <2>2 DEF ResourceMade
    <3>2. /\ scan'[r] \in RequestType
          /\ scan'[r].ever = scan[r].ever \cup {x} /\ scan'[r].pc = scan[r].pc /\ scan'[r].next = scan[r].next
          /\ scan'[r].busy = scan[r].busy /\ scan'[r].found = scan[r].found /\ scan'[r].missing = scan[r].missing
          /\ scan'[r].warned = scan[r].warned /\ scan'[r].always = scan[r].always
      BY <2>1, <3>1 DEF RequestType
    <3> QED
      BY <2>1, <2>2, <3>2 DEF RequestOK, Accounted, ResourceMade
  <2>3. CASE scan[r].pc # "listing"
    <3>1. scan'[r] = scan[r]
      BY <2>3 DEF ResourceMade
    <3> QED
      BY <2>1, <2>3, <3>1 DEF RequestOK, Accounted
  <2> QED
    BY <2>2, <2>3
<1>2. ScanTypes'
  BY <1>1 DEF ScanInv, ScanTypes, ResourceMade
<1>3. ScanAccounts' /\ OwnerOrLonger'
  BY DEF ScanInv, ScanAccounts, OwnerOrLonger, ResourceMade
<1> QED
  BY <1>1, <1>2, <1>3 DEF ScanInv

\* A resource that goes was not there during all of a scan.
LEMMA ResourceGoneInv ==
    ASSUME ScanInv, NEW x \in GcpResources, ResourceGone(x)
    PROVE  ScanInv'
<1>1. ASSUME NEW r \in ScanRequests
      PROVE  scan'[r] \in RequestType /\ RequestOK(scan[r])'
  <2>1. scan[r] \in RequestType /\ RequestOK(scan[r])
    BY DEF ScanInv, ScanTypes
  <2>2. CASE scan[r].pc = "listing"
    <3>1. scan'[r] = [scan[r] EXCEPT !.always = @ \ {x}]
      BY <2>2 DEF ResourceGone
    <3>2. /\ scan'[r] \in RequestType
          /\ scan'[r].always = scan[r].always \ {x} /\ scan'[r].pc = scan[r].pc /\ scan'[r].next = scan[r].next
          /\ scan'[r].busy = scan[r].busy /\ scan'[r].found = scan[r].found /\ scan'[r].missing = scan[r].missing
          /\ scan'[r].warned = scan[r].warned /\ scan'[r].ever = scan[r].ever
      BY <2>1, <3>1 DEF RequestType
    <3> QED
      BY <2>1, <2>2, <3>2 DEF RequestOK, Accounted, ResourceGone
  <2>3. CASE scan[r].pc # "listing"
    <3>1. scan'[r] = scan[r]
      BY <2>3 DEF ResourceGone
    <3> QED
      BY <2>1, <2>3, <3>1 DEF RequestOK, Accounted
  <2> QED
    BY <2>2, <2>3
<1>2. ScanTypes'
  BY <1>1 DEF ScanInv, ScanTypes, ResourceGone
<1>3. ScanAccounts' /\ OwnerOrLonger'
  BY DEF ScanInv, ScanAccounts, OwnerOrLonger, ResourceGone
<1> QED
  BY <1>1, <1>2, <1>3 DEF ScanInv

\* The registry changes beside the scans.
LEMMA IdsInv ==
    ASSUME ScanInv, NEW id \in Ids, IdRegistered(id) \/ IdForgotten(id)
    PROVE  ScanInv'
BY DEF ScanInv, ScanTypes, RequestOK, Accounted, ScanAccounts, OwnerOrLonger, IdRegistered, IdForgotten

\* An answer that grows old says what it said.
LEMMA CacheAgesInv ==
    ASSUME ScanInv, CacheAges
    PROVE  ScanInv'
<1>1. cached # NoScan /\ cached \in AnswerType
  BY DEF ScanInv, ScanTypes, CacheAges, CacheFresh
<1>2. /\ cached' \in AnswerType
      /\ cached'.groups = cached.groups /\ cached'.ids = cached.ids /\ cached'.missing = cached.missing
      /\ cached'.warned = cached.warned /\ cached'.always = cached.always /\ cached'.ever = cached.ever
  BY <1>1 DEF CacheAges, AnswerType
<1>3. ScanTypes' /\ \A r \in ScanRequests : RequestOK(scan[r])'
  BY <1>2 DEF ScanInv, ScanTypes, RequestOK, Accounted, CacheAges
<1> QED
  BY <1>1, <1>2, <1>3 DEF ScanInv, ScanAccounts, OwnerOrLonger

\* The invariant of the scans.
THEOREM ScanInvariant == ScanSpec => []ScanInv
<1>1. ScanInit => ScanInv
  BY IdleOK DEF ScanInit, ScanInv, ScanTypes, ScanAccounts, OwnerOrLonger
<1>2. ScanInv /\ [ScanNext]_scanVars => ScanInv'
  <2> SUFFICES ASSUME ScanInv, [ScanNext]_scanVars PROVE ScanInv'
    OBVIOUS
  <2>1. ASSUME NEW r \in ScanRequests, NEW refresh \in BOOLEAN, ScanBegin(r, refresh) PROVE ScanInv'
    BY <2>1, ScanBeginInv
  <2>2. ASSUME NEW r \in ScanRequests, NEW s \in ScanSources, NEW answer \in {"listed", "denied", "failed"},
               SourceAnswers(r, s, answer) PROVE ScanInv'
    BY <2>2, SourceAnswersInv
  <2>3. ASSUME NEW r \in ScanRequests, NEW priced \in BOOLEAN, NEW billed \in BOOLEAN,
               ScanAnswered(r, priced, billed) PROVE ScanInv'
    BY <2>3, ScanAnsweredInv
  <2>4. ASSUME NEW x \in GcpResources, ResourceMade(x) \/ ResourceGone(x) PROVE ScanInv'
    BY <2>4, ResourceMadeInv, ResourceGoneInv
  <2>5. ASSUME NEW id \in Ids, IdRegistered(id) \/ IdForgotten(id) PROVE ScanInv'
    BY <2>5, IdsInv
  <2>6. CASE CacheAges
    BY <2>6, CacheAgesInv
  <2>7. CASE UNCHANGED scanVars
    BY <2>7 DEF ScanInv, ScanTypes, RequestOK, Accounted, ScanAccounts, OwnerOrLonger, scanVars
  <2> QED
    BY <2>1, <2>2, <2>3, <2>4, <2>5, <2>6, <2>7 DEF ScanNext
<1> QED
  BY <1>1, <1>2, PTL DEF ScanSpec

\* Whatever existed during all of a scan is shown or its source is named, and
\* nothing else is shown than what existed at some time of it: for any table
\* of sources, pool of workers and number of scans at the same time.
THEOREM ScanAccountsForEverything == ScanSpec => []ScanAccounts
<1>1. ScanInv => ScanAccounts
  BY DEF ScanInv
<1> QED
  BY <1>1, ScanInvariant, PTL

\* What an instance in the registry has made and named after itself is never
\* shown under an id that is shorter, nor as unowned.
THEOREM AttributionIsNotShorter == ScanSpec => []OwnerOrLonger
<1>1. ScanInv => OwnerOrLonger
  BY DEF ScanInv
<1> QED
  BY <1>1, ScanInvariant, PTL

=============================================================================
