----------------------- MODULE HIDReportQueue_proofs ------------------------
(***************************************************************************)
(* Theorems about hid_report_buf, for every size of the buffer and every   *)
(* set of reports: its segments always tile the buffer, a report is        *)
(* refused only when the buffer is nearly full, and the buffer implements  *)
(* a first-in first-out queue of whole reports.                            *)
(***************************************************************************)
EXTENDS HIDReportQueue, HIDReportBuffer_proofs

\* The bytes of the two segments are whole reports, and those of Sending are
\* the reports that were handed out.
HoldsReports(buf) ==
    \E q, sent : Contents(buf.mem, buf.ring, buf.handed, q, sent)

\* The inductive invariant: the bookkeeping and what is in the bytes.  Neither
\* says enough on its own: the reader follows the lengths in the headers, and
\* the ring moves by what the reader found.
IInv == Good(hid_report_buf) /\ HoldsReports(hid_report_buf)

-----------------------------------------------------------------------------
(***************************************************************************)
(* Each method does to the reports what an operation of ReportFifo does.   *)
(***************************************************************************)

\* The queue and the reports handed out, before and after a step.
FifoMoves(q, sent, q2, sent2) ==
    \/ \E r \in Reports : q2 = Append(q, r) /\ sent2 = sent
    \/ q # <<>> /\ q2 = Tail(q) /\ sent2 = Append(sent, Head(q))
    \/ sent # <<>> /\ sent2 = Tail(sent) /\ q2 = q
    \/ sent2 = <<>> /\ q2 = q
    \/ q2 = q /\ sent2 = sent

\* A step that takes a buffer that holds q and sent to buf2.
Implements(buf2, q, sent) ==
    \E q2, sent2 : /\ Contents(buf2.mem, buf2.ring, buf2.handed, q2, sent2)
                   /\ FifoMoves(q, sent, q2, sent2)

\* Every step of the buffer preserves its bookkeeping and moves the reports it
\* holds as a queue does.
LEMMA StepMoves ==
    ASSUME Good(hid_report_buf), NEW q, NEW sent,
           Contents(hid_report_buf.mem, hid_report_buf.ring,
                    hid_report_buf.handed, q, sent),
           Next
    PROVE  Good(hid_report_buf') /\ Implements(hid_report_buf', q, sent)
  <1> DEFINE buf == hid_report_buf
  <1>1. /\ WellFormed(buf.ring)
        /\ buf = [ring |-> buf.ring, mem |-> buf.mem, handed |-> buf.handed]
        /\ buf.handed \in Seq(Blocks)
    BY DEF Good, IsBuffer
  <1>2. ASSUME NEW r \in Reports, Allocate(r)
        PROVE  Good(buf') /\ Implements(buf', q, sent)
    <2> DEFINE out == AllocateSpaceForReport(buf, r)
               q2 == IF out.ok THEN Append(q, r) ELSE q
    <2>1. Contents(out.buf.mem, out.buf.ring, out.buf.handed, q2, sent)
      <3> HIDE DEF buf
      <3> QED
        BY <1>1, AllocateContents DEF buf
    <2>2. buf' = out.buf
      BY <1>2 DEF Allocate
    <2>3. FifoMoves(q, sent, q2, sent)
      BY DEF FifoMoves
    <2>4. Good(buf')
      BY <2>2, AllocateGood
    <2> HIDE DEF buf, out, q2
    <2> QED
      BY <2>1, <2>2, <2>3, <2>4 DEF Implements
  <1>3. CASE TransferOut
    <2> DEFINE out == TransferOutNextReport(buf)
    <2>1. buf' = out.buf
      BY <1>3 DEF TransferOut
    <2>2. Good(buf')
      BY <2>1, TransferOutGood
    <2>3. CASE q = <<>>
      <3>1. out.buf = buf
        BY <1>1, <2>3, TransferOutNothing
      <3>2. buf' = buf /\ FifoMoves(q, sent, q, sent)
        BY <2>1, <3>1 DEF FifoMoves
      <3> QED
        BY <2>2, <3>2 DEF Implements
    <2>4. CASE q # <<>>
      <3>1. /\ out.buf.mem = buf.mem
            /\ Contents(buf.mem, out.buf.ring, out.buf.handed,
                        Tail(q), Append(sent, Head(q)))
        <4> HIDE DEF buf
        <4> QED
          BY <1>1, <2>4, TransferOutContents DEF buf
      <3>2. FifoMoves(q, sent, Tail(q), Append(sent, Head(q)))
        BY <2>4 DEF FifoMoves
      <3> HIDE DEF out
      <3> QED
        BY <2>1, <2>2, <3>1, <3>2 DEF Implements
    <2> QED
      BY <2>3, <2>4
  <1>4. CASE ReleaseOldest
    <2> DEFINE new == MarkReportTransferred(buf, buf.handed[1].len)
    <2>1. buf' = new /\ buf.handed # <<>>
      BY <1>4 DEF ReleaseOldest
    <2>2. sent # <<>> /\ Contents(new.mem, new.ring, new.handed, q, Tail(sent))
      <3> HIDE DEF buf
      <3> QED
        BY <1>1, <2>1, ReleaseOldestContents DEF buf
    <2>3. Good(buf')
      <3>1. /\ buf.handed[1] \in Blocks
            /\ Tail(buf.handed) \in Seq(Blocks)
        BY <1>1, <2>1
      <3>2. buf.handed[1].len + HeaderSize \in Nat
        BY <3>1 DEF Blocks, HeaderSize
      <3> QED
        BY <2>1, <3>1, <3>2, ReleaseGood DEF MarkReportTransferred
    <2>4. FifoMoves(q, sent, q, Tail(sent))
      BY <2>2 DEF FifoMoves
    <2> HIDE DEF new
    <2> QED
      BY <2>1, <2>2, <2>3, <2>4 DEF Implements
  <1>5. CASE ReleaseAll
    <2> DEFINE new == LastSendComplete(buf)
    <2>1. buf' = new
      BY <1>5 DEF ReleaseAll
    <2>2. Contents(new.mem, new.ring, new.handed, q, <<>>)
      BY <1>1, ReleaseAllContents
    <2>3. Good(buf')
      <3>1. buf.ring.num["Sending"] \in Nat
        BY <1>1, RingNumbers DEF RingState
      <3>2. <<>> \in Seq(Blocks)
        OBVIOUS
      <3> QED
        BY <2>1, <3>1, <3>2, ReleaseGood DEF LastSendComplete
    <2>4. FifoMoves(q, sent, q, <<>>)
      BY DEF FifoMoves
    <2> HIDE DEF new
    <2> QED
      BY <2>1, <2>2, <2>3, <2>4 DEF Implements
  <1> QED
    BY <1>2, <1>3, <1>4, <1>5 DEF Next

\* The contents are what is read.
LEMMA ContentsReadAs ==
    ASSUME NEW buf, Good(buf), NEW q, NEW sent,
           Contents(buf.mem, buf.ring, buf.handed, q, sent)
    PROVE  ReadAs(buf, q, sent)
  <1>1. WellFormed(buf.ring) /\ AllReports(buf.mem)
    BY DEF Good, IsBuffer, AllReports
  <1> QED
    BY <1>1, ContentsRead

\* A new buffer satisfies it.
LEMMA InitInv == Init => IInv
  BY EmptyGood, EmptyContents DEF Init, IInv, HoldsReports

\* Every step preserves it.
LEMMA NextInv == IInv /\ [Next]_vars => IInv'
  <1> SUFFICES ASSUME IInv, Next PROVE IInv'
    BY DEF vars, IInv
  <1>1. PICK q, sent : Contents(hid_report_buf.mem, hid_report_buf.ring,
                                hid_report_buf.handed, q, sent)
    BY DEF IInv, HoldsReports
  <1>2. Good(hid_report_buf') /\ Implements(hid_report_buf', q, sent)
    BY <1>1, StepMoves DEF IInv
  <1> QED
    BY <1>2 DEF IInv, Implements, HoldsReports

-----------------------------------------------------------------------------
(***************************************************************************)
(* The theorems.                                                           *)
(***************************************************************************)

\* In every behaviour of the buffer, for every size and every set of reports,
\* the segments tile the usable part of the buffer.
THEOREM SegmentsTileTheBuffer == Spec => []RingInv
  <1>1. IInv => RingInv
    BY DEF IInv, Good, RingInv
  <1> QED
    BY <1>1, InitInv, NextInv, PTL DEF Spec

\* In every behaviour, what a reader finds in Sending is what the endpoint reads
\* through the pointers it was handed: releasing the one releases the other.
THEOREM SendingWasHandedOut == Spec => []SendingIsHandedOut
  <1>1. IInv => SendingIsHandedOut
    <2> SUFFICES ASSUME IInv PROVE SendingIsHandedOut
      OBVIOUS
    <2>1. PICK q, sent : Contents(hid_report_buf.mem, hid_report_buf.ring,
                                  hid_report_buf.handed, q, sent)
      BY DEF IInv, HoldsReports
    <2>2. ReadAs(hid_report_buf, q, sent)
      BY <2>1, ContentsReadAs DEF IInv
    <2> QED
      BY <2>2 DEF ReadAs, SendingIsHandedOut
  <1> QED
    BY <1>1, InitInv, NextInv, PTL DEF Spec

\* A new buffer is an empty queue.
LEMMA FifoInit == Init => Fifo!Init
  <1> SUFFICES ASSUME Init PROVE Fifo!Init
    OBVIOUS
  <1>1. Good(hid_report_buf)
    BY InitInv DEF IInv
  <1>2. Contents(hid_report_buf.mem, hid_report_buf.ring, hid_report_buf.handed,
                 <<>>, <<>>)
    BY EmptyContents DEF Init
  <1>3. ReadAs(hid_report_buf, <<>>, <<>>)
    BY <1>1, <1>2, ContentsReadAs
  <1> QED
    BY <1>3 DEF Fifo!Init, ReadAs

\* Every step of the buffer is a step of the queue, or leaves it alone.
LEMMA FifoNext == IInv /\ [Next]_vars => [Fifo!Next]_(Fifo!vars)
  <1> SUFFICES ASSUME IInv, [Next]_vars PROVE [Fifo!Next]_(Fifo!vars)
    OBVIOUS
  <1>1. CASE UNCHANGED vars
    BY <1>1 DEF vars, Fifo!vars
  <1>2. CASE Next
    <2>1. PICK q, sent : Contents(hid_report_buf.mem, hid_report_buf.ring,
                                  hid_report_buf.handed, q, sent)
      BY DEF IInv, HoldsReports
    <2>2. Good(hid_report_buf') /\ Implements(hid_report_buf', q, sent)
      BY <1>2, <2>1, StepMoves DEF IInv
    <2>3. PICK q2, sent2 :
             /\ Contents(hid_report_buf'.mem, hid_report_buf'.ring,
                         hid_report_buf'.handed, q2, sent2)
             /\ FifoMoves(q, sent, q2, sent2)
      BY <2>2 DEF Implements
    <2>4. ReadAs(hid_report_buf, q, sent)
      BY <2>1, ContentsReadAs DEF IInv
    <2>5. ReadAs(hid_report_buf', q2, sent2)
      BY <2>2, <2>3, ContentsReadAs
    <2> DEFINE queue == ReportsIn(hid_report_buf, "Queued")
               sending == [i \in DOMAIN hid_report_buf.handed |->
                              Payload(hid_report_buf.mem, hid_report_buf.handed[i])]
    <2>6. queue = q /\ sending = sent /\ queue' = q2 /\ sending' = sent2
      BY <2>4, <2>5 DEF ReadAs
    <2>7. FifoMoves(queue, sending, queue', sending')
      BY <2>3, <2>6
    <2> HIDE DEF queue, sending
    <2>8. \/ \E r \in Reports : queue' = Append(queue, r) /\ sending' = sending
          \/ queue # <<>> /\ queue' = Tail(queue) /\ sending' = Append(sending, Head(queue))
          \/ sending # <<>> /\ sending' = Tail(sending) /\ queue' = queue
          \/ sending' = <<>> /\ queue' = queue
          \/ queue' = queue /\ sending' = sending
      BY <2>7 DEF FifoMoves
    <2> QED
      BY <2>8 DEF Fifo!Next, Fifo!vars, Fifo!Accept, Fifo!HandOut,
                  Fifo!CompleteOldest, Fifo!CompleteAll, queue, sending
  <1> QED
    BY <1>1, <1>2

\* The bytes and the bookkeeping together implement a first-in first-out queue
\* of whole reports, for every size of the buffer and every set of reports: none
\* is lost, split, duplicated, reordered, or overwritten while it waits or while
\* the endpoint reads it.
THEOREM BufferIsFifo == Spec => FifoSpec
  <1>1. Init => Fifo!Init
    BY FifoInit
  <1>2. IInv /\ [Next]_vars => [Fifo!Next]_(Fifo!vars)
    BY FifoNext
  <1> QED
    BY <1>1, <1>2, InitInv, NextInv, PTL DEF Spec, FifoSpec, Fifo!Spec

\* A refusal means that neither of the two pieces of the free space holds the
\* block; the rest of the buffer is in use, but for what a trim cut off.
LEMMA RefusedWhenNearlyFull == IInv => RefusedOnlyWhenNearlyFull
  <1> DEFINE ring == hid_report_buf.ring
             clear == ring.num["ClearToWrite"]
             full == InflateToFullSize(ring, "ClearToWrite")
             lobes == ContinuousSegmentSizes(full, "ClearToWrite")
  <1> SUFFICES ASSUME IInv, NEW r \in Reports,
                      ~AllocateSpaceForReport(hid_report_buf, r).ok
               PROVE  \E big \in Reports :
                         BytesUsed(ring) + (BlockSize(r) - 1) + (BlockSize(big) - 1)
                           >= MaxBufferSize
    BY DEF RefusedOnlyWhenNearlyFull
  <1>1. /\ ring.size \in Nat /\ ring.size <= MaxBufferSize
        /\ ring.start["ClearToWrite"] \in Nat /\ clear \in Nat
        /\ ring.num["Queued"] \in Nat /\ ring.num["Sending"] \in Nat
        /\ BytesUsed(ring) = ring.size - clear
        /\ TrimmedLittle(ring)
        /\ ring.num = [s \in RingState |-> ring.num[s]]
    <2>1. WellFormed(ring) /\ TrimmedLittle(ring)
      BY DEF IInv, Good
    <2> HIDE DEF ring
    <2>2. /\ ring.size \in 1 .. MaxBufferSize
          /\ ring.start \in [RingState -> Nat] /\ ring.num \in [RingState -> Nat]
          /\ ring.num = [s \in RingState |-> ring.num[s]]
      BY <2>1, WellFormedParts
    <2>3. clear + ring.num["Queued"] + ring.num["Sending"] = ring.size
      BY <2>1 DEF WellFormed
    <2> QED
      BY <2>1, <2>2, <2>3, MaxBufferSizeAssumption DEF RingState, BytesUsed
  <1>2. BlockSize(r) \in Nat
    BY BlockSizeNat
  <1>3. /\ full.start["ClearToWrite"] \in Nat
        /\ full.start["ClearToWrite"] = ring.start["ClearToWrite"]
        /\ full.size \in Int /\ full.num["ClearToWrite"] \in Int
    BY <1>1, MaxBufferSizeAssumption DEF InflateToFullSize, RingState
  <1> HIDE DEF ring
  <1>4. ~(BlockSize(r) <= lobes[1]) /\ ~(BlockSize(r) <= lobes[2])
    <2> DEFINE got == GetTransferBuffer(ring, "ClearToWrite", "Queued", BlockSize(r), TRUE)
    <2>1. got.at = NullPtr
      <3> HIDE DEF got
      <3>1. AllocateSpaceForReport(hid_report_buf, r).ok = (got.at # NullPtr)
        BY DEF AllocateSpaceForReport, got, ring
      <3> QED
        BY <3>1
    <2>2. /\ BlockSize(r) <= lobes[1] => got.at = full.start["ClearToWrite"]
          /\ ~(BlockSize(r) <= lobes[1]) /\ BlockSize(r) <= lobes[2] => got.at = 0
      <3>1. lobes[1] \in Int
        BY <1>3 DEF ContinuousSegmentSizes, EndOf
      <3>2. BlockSize(r) > lobes[1] <=> ~(BlockSize(r) <= lobes[1])
        BY <1>2, <3>1
      <3>3. got.at = CASE BlockSize(r) <= lobes[1] -> full.start["ClearToWrite"]
                       [] BlockSize(r) > lobes[1] /\ BlockSize(r) <= lobes[2] -> 0
                       [] OTHER -> NullPtr
        <4> HIDE DEF full, lobes
        <4> QED
          BY <3>2 DEF GetTransferBuffer, full, lobes
      <3> QED
        BY <3>2, <3>3
    <2> HIDE DEF got, lobes, full
    <2> QED
      BY <2>1, <2>2, <1>3 DEF NullPtr
  <1>5. CASE TouchesEnd(ring, "ClearToWrite")
    <2>1. /\ full.size = MaxBufferSize
          /\ full.num["ClearToWrite"] = clear + (MaxBufferSize - ring.size)
      BY <1>1, <1>5 DEF InflateToFullSize, RingState
    <2>2. ring.start["ClearToWrite"] + clear >= ring.size
      BY <1>5 DEF TouchesEnd, EndOf
    <2> HIDE DEF full
    <2>3. \/ lobes[1] = full.num["ClearToWrite"] /\ lobes[2] = 0
          \/ /\ lobes[1] = MaxBufferSize - full.start["ClearToWrite"]
             /\ lobes[2] = full.start["ClearToWrite"] + full.num["ClearToWrite"] - MaxBufferSize
      BY <1>3, <2>1, MaxBufferSizeAssumption DEF ContinuousSegmentSizes, EndOf
    <2> HIDE DEF lobes
    <2>4. BytesUsed(ring) + (BlockSize(r) - 1) + (BlockSize(r) - 1) >= MaxBufferSize
      BY <1>1, <1>2, <1>3, <1>4, <2>1, <2>3, MaxBufferSizeAssumption
    <2> QED
      BY <2>4
  <1>6. CASE ~TouchesEnd(ring, "ClearToWrite")
    <2>1. lobes[1] = clear
      BY <1>1, <1>6 DEF InflateToFullSize, ContinuousSegmentSizes, TouchesEnd, EndOf
    <2> HIDE DEF lobes
    <2>2. BytesUsed(ring) + (BlockSize(r) - 1) >= ring.size
      BY <1>1, <1>2, <1>4, <2>1
    <2>3. PICK big \in Reports : MaxBufferSize - ring.size <= BlockSize(big) - 1
      <3>1. CASE ring.size = MaxBufferSize
        BY <3>1, <1>1, <1>2, BlockSizeNat
      <3> QED
        BY <3>1, <1>1 DEF TrimmedLittle
    <2>4. BlockSize(big) \in Nat
      BY BlockSizeNat
    <2> QED
      BY <1>1, <1>2, <2>2, <2>3, <2>4, MaxBufferSizeAssumption
  <1> QED
    BY <1>5, <1>6

\* In every behaviour, a report is refused only when the reports in the buffer
\* leave less than two blocks of it free.
THEOREM RefusalsAreBounded == Spec => []RefusedOnlyWhenNearlyFull
  BY RefusedWhenNearlyFull, InitInv, NextInv, PTL DEF Spec
=============================================================================
