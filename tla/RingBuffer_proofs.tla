------------------------- MODULE RingBuffer_proofs --------------------------
(***************************************************************************)
(* The methods of RingBuffer preserve what its segments have to satisfy,   *)
(* for every size of the buffer.                                           *)
(***************************************************************************)
EXTENDS RingBuffer, TLAPS

\* The segment that takes what the front of each segment gives up: the one
\* before it, going round the ring.
Receiver == [ClearToWrite |-> "Queued", Queued |-> "Sending",
             Sending |-> "ClearToWrite"]

-----------------------------------------------------------------------------
(***************************************************************************)
(* Arithmetic.                                                             *)
(***************************************************************************)

\* An index that goes round the buffer at most once.
LEMMA ModAtMostOneLap ==
    ASSUME NEW a \in Nat, NEW b \in Nat \ {0}, a < 2 * b
    PROVE  a % b = IF a < b THEN a ELSE a - b
  <1>1. CASE a < b
    BY <1>1, Z3
  <1>2. CASE a >= b
    BY <1>2, Z3
  <1> QED
    BY <1>1, <1>2

\* The segments from the one that starts at s1 with n1 elements round to the
\* one that starts at s3: moving k elements from the front of the second to the
\* back of the first keeps them adjacent.
LEMMA BoundaryMoves ==
    ASSUME NEW size \in Nat \ {0},
           NEW s1 \in Nat, NEW n1 \in Nat, NEW s2 \in Nat, NEW n2 \in Nat,
           NEW s3 \in Nat, NEW k \in Nat,
           s1 < size, s2 < size, s3 < size,
           n1 + n2 <= size, k <= n2,
           Follows(size, s1 + n1, s2), Follows(size, s2 + n2, s3)
    PROVE  /\ (s2 + k) % size \in 0 .. size - 1
           /\ Follows(size, s1 + (n1 + k), (s2 + k) % size)
           /\ Follows(size, ((s2 + k) % size) + (n2 - k), s3)
  <1> DEFINE at == s2 + k
             wrapped == at % size
  <1>1. at \in Nat /\ at < 2 * size
    OBVIOUS
  <1>2. wrapped = IF at < size THEN at ELSE at - size
    <2> HIDE DEF at
    <2> QED
      BY <1>1, ModAtMostOneLap
  <1> HIDE DEF wrapped
  <1>3. CASE at < size
    BY <1>2, <1>3 DEF Follows
  <1>4. CASE at >= size
    <2>1. wrapped = s2 + k - size
      BY <1>1, <1>2, <1>4
    <2>2. s2 + n2 - size = s3 /\ s2 = s1 + n1
      BY <1>4 DEF Follows
    <2> QED
      BY <2>1, <2>2, <1>4, <1>1 DEF Follows
  <1> QED
    BY <1>1, <1>3, <1>4 DEF wrapped

-----------------------------------------------------------------------------
(***************************************************************************)
(* The tiling of the buffer, as a relation between numbers: three segments *)
(* that start at s1, s2 and s3 and follow one another in this order.       *)
(***************************************************************************)
Tiled(size, s1, n1, s2, n2, s3, n3) ==
    /\ s1 \in 0 .. size - 1 /\ s2 \in 0 .. size - 1 /\ s3 \in 0 .. size - 1
    /\ n1 \in Nat /\ n2 \in Nat /\ n3 \in Nat
    /\ n1 + n2 + n3 = size
    /\ Follows(size, s1 + n1, s2)
    /\ Follows(size, s2 + n2, s3)
    /\ Follows(size, s3 + n3, s1)

\* It does not matter with which segment one starts.
LEMMA TiledRotates ==
    ASSUME NEW size \in Nat \ {0},
           NEW s1, NEW n1, NEW s2, NEW n2, NEW s3, NEW n3,
           Tiled(size, s1, n1, s2, n2, s3, n3)
    PROVE  Tiled(size, s2, n2, s3, n3, s1, n1)
  BY DEF Tiled

\* Elements that change segments leave a tiling behind.
LEMMA TiledMoves ==
    ASSUME NEW size \in Nat \ {0},
           NEW s1, NEW n1, NEW s2, NEW n2, NEW s3, NEW n3,
           Tiled(size, s1, n1, s2, n2, s3, n3),
           NEW k \in Nat, k <= n2
    PROVE  Tiled(size, s1, n1 + k, (s2 + k) % size, n2 - k, s3, n3)
  <1>1. /\ s1 \in Nat /\ s1 < size /\ s2 \in Nat /\ s2 < size
        /\ s3 \in Nat /\ s3 < size
        /\ n1 \in Nat /\ n2 \in Nat /\ n3 \in Nat /\ n1 + n2 <= size
        /\ Follows(size, s1 + n1, s2) /\ Follows(size, s2 + n2, s3)
    BY DEF Tiled
  <1>2. /\ (s2 + k) % size \in 0 .. size - 1
        /\ Follows(size, s1 + (n1 + k), (s2 + k) % size)
        /\ Follows(size, ((s2 + k) % size) + (n2 - k), s3)
    BY <1>1, BoundaryMoves
  <1>3. /\ n1 + k \in Nat /\ n2 - k \in Nat
        /\ (n1 + k) + (n2 - k) + n3 = size
    BY <1>1 DEF Tiled
  <1> QED
    BY <1>2, <1>3 DEF Tiled

\* A segment that touches the end can take in all that lies beyond it: the
\* others lie in front of it, in one piece.
LEMMA TiledInflates ==
    ASSUME NEW size \in Nat \ {0}, NEW max \in Nat, size <= max,
           NEW s1, NEW n1, NEW s2, NEW n2, NEW s3, NEW n3,
           Tiled(size, s1, n1, s2, n2, s3, n3),
           s1 + n1 >= size
    PROVE  Tiled(max, s1, n1 + (max - size), s2, n2, s3, n3)
  BY DEF Tiled, Follows

\* A buffer can be cut off where the segment that touches the end starts.
LEMMA TiledTrims ==
    ASSUME NEW size \in Nat \ {0},
           NEW s1, NEW n1, NEW s2, NEW n2, NEW s3, NEW n3,
           Tiled(size, s1, n1, s2, n2, s3, n3),
           s1 + n1 >= size, s1 >= 1
    PROVE  Tiled(s1, 0, n1 - (size - s1), s2 % s1, n2, s3 % s1, n3)
  <1>1. /\ s1 \in Nat \ {0} /\ s2 \in Nat /\ s3 \in Nat
        /\ n1 \in Nat /\ n2 \in Nat /\ n3 \in Nat
        /\ n1 - (size - s1) = s2 /\ s2 <= s1
        /\ s3 = s2 + n2 /\ s3 + n3 = s1
    BY DEF Tiled, Follows
  <1>2. s2 % s1 = IF s2 < s1 THEN s2 ELSE 0
    BY <1>1, ModAtMostOneLap
  <1>3. s3 % s1 = IF s3 < s1 THEN s3 ELSE 0
    BY <1>1, ModAtMostOneLap
  <1> QED
    BY <1>1, <1>2, <1>3 DEF Tiled, Follows

\* WellFormed says that the segments tile the buffer.
LEMMA WellFormedIsTiled ==
    ASSUME NEW ring,
           ring = [size |-> ring.size, start |-> ring.start, num |-> ring.num],
           ring.start = [s \in RingState |-> ring.start[s]],
           ring.num = [s \in RingState |-> ring.num[s]],
           ring.size \in 1 .. MaxBufferSize
    PROVE  WellFormed(ring) <=>
             Tiled(ring.size, ring.start["Sending"], ring.num["Sending"],
                   ring.start["Queued"], ring.num["Queued"],
                   ring.start["ClearToWrite"], ring.num["ClearToWrite"])
  <1>1. ASSUME WellFormed(ring)
        PROVE  Tiled(ring.size, ring.start["Sending"], ring.num["Sending"],
                     ring.start["Queued"], ring.num["Queued"],
                     ring.start["ClearToWrite"], ring.num["ClearToWrite"])
    BY <1>1, MaxBufferSizeAssumption DEF WellFormed, Tiled, Rings, RingState, EndOf
  <1>2. ASSUME Tiled(ring.size, ring.start["Sending"], ring.num["Sending"],
                     ring.start["Queued"], ring.num["Queued"],
                     ring.start["ClearToWrite"], ring.num["ClearToWrite"])
        PROVE  WellFormed(ring)
    <2>1. \A s \in RingState : /\ ring.start[s] \in 0 .. MaxBufferSize
                               /\ ring.start[s] < ring.size
                               /\ ring.num[s] \in 0 .. MaxBufferSize
      BY <1>2, MaxBufferSizeAssumption DEF Tiled, RingState
    <2>2. ring.start \in [RingState -> 0 .. MaxBufferSize]
      BY <2>1
    <2>3. ring.num \in [RingState -> 0 .. MaxBufferSize]
      BY <2>1
    <2>4. ring \in Rings
      BY <2>2, <2>3 DEF Rings
    <2> QED
      BY <2>1, <2>4, <1>2 DEF WellFormed, Tiled, EndOf
  <1> QED
    BY <1>1, <1>2

\* What WellFormed says of the parts of a ring.
LEMMA WellFormedParts ==
    ASSUME NEW ring, WellFormed(ring)
    PROVE  /\ ring = [size |-> ring.size, start |-> ring.start, num |-> ring.num]
           /\ ring.start = [s \in RingState |-> ring.start[s]]
           /\ ring.num = [s \in RingState |-> ring.num[s]]
           /\ ring.size \in 1 .. MaxBufferSize
           /\ ring.size \in Nat \ {0}
           /\ ring.start \in [RingState -> Nat]
           /\ ring.num \in [RingState -> Nat]
           /\ Tiled(ring.size, ring.start["Sending"], ring.num["Sending"],
                    ring.start["Queued"], ring.num["Queued"],
                    ring.start["ClearToWrite"], ring.num["ClearToWrite"])
  <1>1. ring \in Rings
    BY DEF WellFormed
  <1>2. /\ ring = [size |-> ring.size, start |-> ring.start, num |-> ring.num]
        /\ ring.start = [s \in RingState |-> ring.start[s]]
        /\ ring.num = [s \in RingState |-> ring.num[s]]
        /\ ring.size \in 1 .. MaxBufferSize
        /\ ring.size \in Nat \ {0}
        /\ ring.start \in [RingState -> Nat]
        /\ ring.num \in [RingState -> Nat]
    BY <1>1, MaxBufferSizeAssumption DEF Rings
  <1> QED
    BY <1>2, WellFormedIsTiled

-----------------------------------------------------------------------------
(***************************************************************************)
(* The methods.                                                            *)
(***************************************************************************)

\* The constructor makes a well-formed ring.
LEMMA EmptyRingWellFormed == WellFormed(EmptyRing)
  BY MaxBufferSizeAssumption, SMT
  DEF WellFormed, EmptyRing, Rings, RingState, Follows, EndOf

\* Moving elements from the front of a segment to its receiver keeps the
\* segments a tiling of the buffer (mark_transferred).
LEMMA MarkTransferredWellFormed ==
    ASSUME NEW ring, WellFormed(ring), NEW from \in RingState, NEW num \in Nat
    PROVE  WellFormed(MarkTransferred(ring, from, Receiver[from], num))
  <1> SUFFICES ASSUME num <= ring.num[from]
               PROVE  WellFormed(MarkTransferred(ring, from, Receiver[from], num))
    BY DEF MarkTransferred
  <1> DEFINE to    == Receiver[from]
             at    == (ring.start[from] + num) % ring.size
             start == [ring.start EXCEPT ![from] = at]
             nums  == [ring.num EXCEPT ![from] = @ - num, ![to] = @ + num]
             new   == [size |-> ring.size, start |-> start, num |-> nums]
  <1>1. MarkTransferred(ring, from, to, num) = new
    BY DEF MarkTransferred
  <1>2. /\ start = [s \in RingState |-> start[s]]
        /\ nums = [s \in RingState |-> nums[s]]
    BY WellFormedParts
  <1>3. Tiled(ring.size, start["Sending"], nums["Sending"],
              start["Queued"], nums["Queued"],
              start["ClearToWrite"], nums["ClearToWrite"])
    <2>1. CASE from = "Queued"
      <3>1. Tiled(ring.size, ring.start["Sending"], ring.num["Sending"] + num,
                  at, ring.num["Queued"] - num,
                  ring.start["ClearToWrite"], ring.num["ClearToWrite"])
        BY <2>1, WellFormedParts, TiledMoves
      <3> QED
        BY <2>1, <3>1, WellFormedParts DEF Receiver, RingState
    <2>2. CASE from = "ClearToWrite"
      <3>1. Tiled(ring.size, ring.start["Queued"], ring.num["Queued"] + num,
                  at, ring.num["ClearToWrite"] - num,
                  ring.start["Sending"], ring.num["Sending"])
        BY <2>2, WellFormedParts, TiledRotates, TiledMoves
      <3> QED
        BY <2>2, <3>1, WellFormedParts, TiledRotates DEF Receiver, RingState
    <2>3. CASE from = "Sending"
      <3>1. Tiled(ring.size, ring.start["ClearToWrite"], ring.num["ClearToWrite"] + num,
                  at, ring.num["Sending"] - num,
                  ring.start["Queued"], ring.num["Queued"])
        BY <2>3, WellFormedParts, TiledRotates, TiledMoves
      <3> QED
        BY <2>3, <3>1, WellFormedParts, TiledRotates DEF Receiver, RingState
    <2> QED
      BY <2>1, <2>2, <2>3 DEF RingState
  <1> HIDE DEF start, nums
  <1>4. WellFormed(new)
    BY <1>2, <1>3, WellFormedParts, WellFormedIsTiled
  <1> QED
    BY <1>1, <1>4

\* Giving a trimmed buffer its full size back keeps the tiling
\* (inflate_to_full_size).
LEMMA InflateWellFormed ==
    ASSUME NEW ring, WellFormed(ring), NEW s \in RingState
    PROVE  WellFormed(InflateToFullSize(ring, s))
  <1> SUFFICES ASSUME TouchesEnd(ring, s)
               PROVE  WellFormed(InflateToFullSize(ring, s))
    BY DEF InflateToFullSize
  <1> DEFINE more == MaxBufferSize - ring.size
             nums == [ring.num EXCEPT ![s] = @ + more]
             new  == [size |-> MaxBufferSize, start |-> ring.start, num |-> nums]
  <1>1. InflateToFullSize(ring, s) = new
    BY DEF InflateToFullSize
  <1>2. nums = [t \in RingState |-> nums[t]]
    BY WellFormedParts
  <1>3. ring.start[s] + ring.num[s] >= ring.size
    BY DEF TouchesEnd, EndOf
  <1>4. /\ MaxBufferSize \in Nat /\ ring.size <= MaxBufferSize
        /\ MaxBufferSize \in 1 .. MaxBufferSize
    <2>1. ring.size \in 1 .. MaxBufferSize
      BY WellFormedParts
    <2> QED
      BY <2>1, MaxBufferSizeAssumption
  <1>5. Tiled(MaxBufferSize, ring.start["Sending"], nums["Sending"],
              ring.start["Queued"], nums["Queued"],
              ring.start["ClearToWrite"], nums["ClearToWrite"])
    <2>1. CASE s = "Sending"
      BY <2>1, <1>3, <1>4, WellFormedParts, TiledInflates DEF RingState
    <2>2. CASE s = "Queued"
      <3>1. Tiled(MaxBufferSize, ring.start["Queued"], nums["Queued"],
                  ring.start["ClearToWrite"], nums["ClearToWrite"],
                  ring.start["Sending"], nums["Sending"])
        BY <2>2, <1>3, <1>4, WellFormedParts, TiledRotates, TiledInflates DEF RingState
      <3> QED
        BY <3>1, MaxBufferSizeAssumption, TiledRotates
    <2>3. CASE s = "ClearToWrite"
      <3>1. Tiled(MaxBufferSize, ring.start["ClearToWrite"], nums["ClearToWrite"],
                  ring.start["Sending"], nums["Sending"],
                  ring.start["Queued"], nums["Queued"])
        BY <2>3, <1>3, <1>4, WellFormedParts, TiledRotates, TiledInflates DEF RingState
      <3> QED
        BY <3>1, MaxBufferSizeAssumption, TiledRotates
    <2> QED
      BY <2>1, <2>2, <2>3 DEF RingState
  <1> HIDE DEF nums
  <1>6. WellFormed(new)
    BY <1>2, <1>4, <1>5, WellFormedParts, WellFormedIsTiled
  <1> QED
    BY <1>1, <1>6

\* Cutting the buffer off where a segment that touches the end starts keeps the
\* tiling, unless that is index 0 (trim_to_start_at_buffer_zero).
LEMMA TrimWellFormed ==
    ASSUME NEW ring, WellFormed(ring), NEW s \in RingState, ring.start[s] >= 1
    PROVE  WellFormed(TrimToStartAtBufferZero(ring, s))
  <1> SUFFICES ASSUME TouchesEnd(ring, s)
               PROVE  WellFormed(TrimToStartAtBufferZero(ring, s))
    BY DEF TrimToStartAtBufferZero
  <1> DEFINE size  == ring.start[s]
             start == [t \in RingState |-> ring.start[t] % size]
             nums  == [ring.num EXCEPT ![s] = @ - (ring.size - size)]
             new   == [size |-> size, start |-> start, num |-> nums]
  <1>1. TrimToStartAtBufferZero(ring, s) = new
    BY DEF TrimToStartAtBufferZero
  <1>2. /\ nums = [t \in RingState |-> nums[t]]
        /\ start = [t \in RingState |-> start[t]]
    BY WellFormedParts
  <1>3. ring.start[s] + ring.num[s] >= ring.size
    BY DEF TouchesEnd, EndOf
  <1>4. size \in Nat \ {0} /\ size \in 1 .. MaxBufferSize
    BY MaxBufferSizeAssumption DEF WellFormed, Rings
  <1>5. size % size = 0
    BY <1>4, ModAtMostOneLap
  <1>6. Tiled(size, start["Sending"], nums["Sending"],
              start["Queued"], nums["Queued"],
              start["ClearToWrite"], nums["ClearToWrite"])
    <2>1. CASE s = "Sending"
      <3>1. Tiled(size, 0, ring.num["Sending"] - (ring.size - size),
                  ring.start["Queued"] % size, ring.num["Queued"],
                  ring.start["ClearToWrite"] % size, ring.num["ClearToWrite"])
        BY <2>1, <1>3, WellFormedParts, TiledTrims
      <3> QED
        BY <2>1, <3>1, <1>5, WellFormedParts DEF RingState
    <2>2. CASE s = "Queued"
      <3>1. Tiled(ring.size, ring.start["Queued"], ring.num["Queued"],
                  ring.start["ClearToWrite"], ring.num["ClearToWrite"],
                  ring.start["Sending"], ring.num["Sending"])
        BY WellFormedParts, TiledRotates
      <3>2. Tiled(size, 0, ring.num["Queued"] - (ring.size - size),
                  ring.start["ClearToWrite"] % size, ring.num["ClearToWrite"],
                  ring.start["Sending"] % size, ring.num["Sending"])
        BY <2>2, <3>1, <1>3, WellFormedParts, TiledTrims
      <3>3. Tiled(size, start["Queued"], nums["Queued"],
                  start["ClearToWrite"], nums["ClearToWrite"],
                  start["Sending"], nums["Sending"])
        BY <2>2, <3>2, <1>5, WellFormedParts DEF RingState
      <3> QED
        BY <3>3, <1>4, TiledRotates
    <2>3. CASE s = "ClearToWrite"
      <3>1. Tiled(ring.size, ring.start["ClearToWrite"], ring.num["ClearToWrite"],
                  ring.start["Sending"], ring.num["Sending"],
                  ring.start["Queued"], ring.num["Queued"])
        BY WellFormedParts, TiledRotates
      <3>2. Tiled(size, 0, ring.num["ClearToWrite"] - (ring.size - size),
                  ring.start["Sending"] % size, ring.num["Sending"],
                  ring.start["Queued"] % size, ring.num["Queued"])
        BY <2>3, <3>1, <1>3, WellFormedParts, TiledTrims
      <3>3. Tiled(size, start["ClearToWrite"], nums["ClearToWrite"],
                  start["Sending"], nums["Sending"],
                  start["Queued"], nums["Queued"])
        BY <2>3, <3>2, <1>5, WellFormedParts DEF RingState
      <3> QED
        BY <3>3, <1>4, TiledRotates
    <2> QED
      BY <2>1, <2>2, <2>3 DEF RingState
  <1> HIDE DEF size, start, nums
  <1>7. WellFormed(new)
    BY <1>2, <1>4, <1>6, WellFormedIsTiled
  <1> QED
    BY <1>1, <1>7

\* Taking a contiguous block from a segment keeps the tiling, whether the
\* buffer is inflated, trimmed, both or neither on the way
\* (get_transfer_buffer).
LEMMA GetTransferBufferWellFormed ==
    ASSUME NEW ring, WellFormed(ring), NEW from \in RingState,
           NEW num \in Nat, NEW trim_enabled \in BOOLEAN
    PROVE  WellFormed(GetTransferBuffer(ring, from, Receiver[from], num,
                                        trim_enabled).ring)
  <1> DEFINE to    == Receiver[from]
             full  == IF trim_enabled THEN InflateToFullSize(ring, from) ELSE ring
             lobes == ContinuousSegmentSizes(full, from)
             got   == GetTransferBuffer(ring, from, to, num, trim_enabled)
  <1>1. WellFormed(full)
    BY InflateWellFormed
  <1>2. \/ num <= lobes[1] /\ got.ring = MarkTransferred(full, from, to, num)
        \/ /\ num > lobes[1] /\ num <= lobes[2]
           /\ got.ring = MarkTransferred(TrimToStartAtBufferZero(full, from),
                                         from, to, num)
        \/ got.ring = full
    BY DEF GetTransferBuffer
  <1> HIDE DEF full, got
  <1>3. CASE num > lobes[1] /\ num <= lobes[2] /\
             got.ring = MarkTransferred(TrimToStartAtBufferZero(full, from),
                                        from, to, num)
    <2>1. /\ full.size \in Nat \ {0} /\ full.num[from] \in 0 .. full.size
          /\ full.start[from] \in Nat
      BY <1>1 DEF WellFormed, Rings, RingState
    <2>2. full.start[from] >= 1
      BY <1>3, <2>1 DEF ContinuousSegmentSizes, EndOf
    <2>3. WellFormed(TrimToStartAtBufferZero(full, from))
      BY <1>1, <2>2, TrimWellFormed
    <2> QED
      BY <1>3, <2>3, MarkTransferredWellFormed DEF got
  <1> QED
    BY <1>1, <1>2, <1>3, MarkTransferredWellFormed DEF got

\* Taking what is contiguous from the front of a segment keeps the tiling
\* (get_next_continuous_transfer_buffer).
LEMMA GetNextContinuousWellFormed ==
    ASSUME NEW ring, WellFormed(ring), NEW from \in RingState
    PROVE  WellFormed(GetNextContinuousTransferBuffer(ring, from, Receiver[from]).ring)
  <1> DEFINE before == ring.size - ring.start[from]
             num == IF ring.num[from] <= before THEN ring.num[from] ELSE before
  <1>1. num \in Nat
    <2>1. /\ ring.start[from] \in Nat /\ ring.num[from] \in Nat
          /\ ring.size \in Nat /\ ring.start[from] < ring.size
      BY WellFormedParts DEF WellFormed
    <2> QED
      BY <2>1
  <1>2. GetNextContinuousTransferBuffer(ring, from, Receiver[from]).ring
          = MarkTransferred(ring, from, Receiver[from], num)
    BY DEF GetNextContinuousTransferBuffer
  <1> HIDE DEF num
  <1> QED
    BY <1>1, <1>2, MarkTransferredWellFormed
=============================================================================
