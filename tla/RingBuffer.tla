----------------------------- MODULE RingBuffer -----------------------------
(***************************************************************************)
(* The bookkeeping of the RingBuffer class template                        *)
(* (circular_buffer/ring_buffer.cpp), the ring both queues of the firmware *)
(* are built on: HID reports on their way to the host, with trimming, and  *)
(* UART text on its way to the debug port, without.                        *)
(*                                                                         *)
(* The buffer is divided into one segment per RingState.  Going round the  *)
(* ring, Sending is followed by Queued, Queued by ClearToWrite, and        *)
(* ClearToWrite by Sending.  A transfer moves elements from the front of   *)
(* one segment to the back of the next one.  With trimming the usable size *)
(* can shrink below MaxBufferSize for a while, so that a block that does   *)
(* not fit before the end of the buffer is placed at its beginning.        *)
(*                                                                         *)
(* The operators are pure: each takes a ring and returns the ring the      *)
(* method leaves behind.  Indexes are uint16_t in the code; they never     *)
(* exceed twice the buffer size (512 for UART, 64 for HID), so their width *)
(* plays no role and they are plain naturals here.                         *)
(***************************************************************************)
EXTENDS Integers

CONSTANT MaxBufferSize        \* max_buffer_size, the template argument

ASSUME MaxBufferSizeAssumption == MaxBufferSize \in Nat \ {0}

RingState == {"ClearToWrite", "Queued", "Sending"}

\* The null pointer get_transfer_buffer returns when no block fits.
NullPtr == -1

Rings == [size  : 1 .. MaxBufferSize,
          start : [RingState -> 0 .. MaxBufferSize],
          num   : [RingState -> 0 .. MaxBufferSize]]

-----------------------------------------------------------------------------
\* The constructor: the whole buffer is clear to write.
EmptyRing ==
    [size  |-> MaxBufferSize,
     start |-> [s \in RingState |-> 0],
     num   |-> [s \in RingState |-> IF s = "ClearToWrite" THEN MaxBufferSize
                                                          ELSE 0]]

\* The index just past segment s, before it is wrapped.
EndOf(ring, s) == ring.start[s] + ring.num[s]

\* The roll-over boundary falls within segment s, or at its end.
TouchesEnd(ring, s) == EndOf(ring, s) >= ring.size

\* Mutants of InflateToFullSize: the elements that were cut off belong to
\* nobody; the buffer is never given its full size back.
InflateForgetsSegment(ring, s) ==
    IF TouchesEnd(ring, s) THEN [ring EXCEPT !.size = MaxBufferSize] ELSE ring

NeverInflate(ring, s) == ring

\* Give a trimmed buffer its full size back: possible only while the segment
\* that touches the end can absorb the elements that were cut off.
InflateToFullSize(ring, s) ==
    IF TouchesEnd(ring, s)
      THEN [size  |-> MaxBufferSize,
            start |-> ring.start,
            num   |-> [ring.num EXCEPT ![s] = @ + (MaxBufferSize - ring.size)]]
      ELSE ring

\* Mutant of TrimToStartAtBufferZero: only s is moved to index 0, without the
\* loop over the other segments.
TrimMovesOnlySegment(ring, s) ==
    IF TouchesEnd(ring, s)
      THEN [size  |-> ring.start[s],
            start |-> [ring.start EXCEPT ![s] = 0],
            num   |-> [ring.num EXCEPT ![s] = @ - (ring.size - ring.start[s])]]
      ELSE ring

\* Cut the buffer off where segment s starts, so that s starts at index 0.
TrimToStartAtBufferZero(ring, s) ==
    IF TouchesEnd(ring, s)
      THEN [size  |-> ring.start[s],
            start |-> [t \in RingState |-> ring.start[t] % ring.start[s]],
            num   |-> [ring.num EXCEPT ![s] = @ - (ring.size - ring.start[s])]]
      ELSE ring

\* How much of segment s lies before the roll-over boundary, and how much
\* after it.
ContinuousSegmentSizes(ring, s) ==
    IF EndOf(ring, s) <= ring.size
      THEN <<ring.num[s], 0>>
      ELSE <<ring.size - ring.start[s], EndOf(ring, s) - ring.size>>

\* Move num elements from the front of one segment to the back of another;
\* nothing moves when there are fewer.
MarkTransferred(ring, from, to, num) ==
    IF num <= ring.num[from]
      THEN [size  |-> ring.size,
            start |-> [ring.start EXCEPT ![from] = (@ + num) % ring.size],
            num   |-> [ring.num EXCEPT ![from] = @ - num, ![to] = @ + num]]
      ELSE ring

\* Move a block of num elements that is contiguous in memory; the result is
\* the ring and the index the block starts at.
GetTransferBuffer(ring, from, to, num, trim_enabled) ==
    LET full  == IF trim_enabled THEN InflateToFullSize(ring, from) ELSE ring
        lobes == ContinuousSegmentSizes(full, from)
    IN  CASE num <= lobes[1] ->
               [ring |-> MarkTransferred(full, from, to, num),
                at   |-> full.start[from]]
          [] num > lobes[1] /\ trim_enabled /\ num <= lobes[2] ->
               [ring |-> MarkTransferred(TrimToStartAtBufferZero(full, from),
                                         from, to, num),
                at   |-> 0]
          [] OTHER -> [ring |-> full, at |-> NullPtr]

\* Move as many elements as are contiguous in memory from the front of a
\* segment; the result is the ring, the index they start at and their number.
GetNextContinuousTransferBuffer(ring, from, to) ==
    LET before == ring.size - ring.start[from]
        num    == IF ring.num[from] <= before THEN ring.num[from] ELSE before
    IN  [ring |-> MarkTransferred(ring, from, to, num),
         at   |-> ring.start[from],
         num  |-> num]

\* Mutant of CopyInWithRollover: what does not fit is written all the same.
CopyInUnchecked(ring, from, to, num) ==
    [size  |-> ring.size,
     start |-> [ring.start EXCEPT ![from] = (@ + num) % ring.size],
     num   |-> [ring.num EXCEPT ![from] = IF num <= @ THEN @ - num ELSE 0,
                                ![to]   = @ + num]]

\* Write num elements, around the end of the buffer if need be; nothing is
\* written when they do not fit.
CopyInWithRollover(ring, from, to, num) ==
    MarkTransferred(ring, from, to, num)

-----------------------------------------------------------------------------
(***************************************************************************)
(* What the segments of a ring have to satisfy between two calls.          *)
(***************************************************************************)

\* A segment that ends at index end is followed by one that starts at start.
Follows(size, end, start) == start = end \/ start = end - size

WellFormed(ring) ==
    /\ ring \in Rings
    /\ \A s \in RingState : ring.start[s] < ring.size
    /\ ring.num["ClearToWrite"] + ring.num["Queued"] + ring.num["Sending"]
         = ring.size
    /\ Follows(ring.size, EndOf(ring, "Sending"), ring.start["Queued"])
    /\ Follows(ring.size, EndOf(ring, "Queued"), ring.start["ClearToWrite"])
    /\ Follows(ring.size, EndOf(ring, "ClearToWrite"), ring.start["Sending"])
=============================================================================
