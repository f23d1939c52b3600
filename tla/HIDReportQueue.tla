--------------------------- MODULE HIDReportQueue ---------------------------
(***************************************************************************)
(* The one HIDContinuousBlockCircularBuffer of the firmware,               *)
(* hid_report_buf, on its own: the queue between the code that builds HID  *)
(* reports and the USB IN endpoint, with its methods called in any order.  *)
(***************************************************************************)
EXTENDS HIDReportBuffer

VARIABLE hid_report_buf   \* the ring, its memory and the blocks handed out

(***************************************************************************)
(* The actions.  A caller of mark_transferred passes the length of the     *)
(* oldest report it was handed, as test_ring_buffer.cpp does.              *)
(***************************************************************************)
Init == hid_report_buf = EmptyBuffer

Allocate(r) == hid_report_buf' = AllocateSpaceForReport(hid_report_buf, r).buf

TransferOut == hid_report_buf' = TransferOutNextReport(hid_report_buf).buf

ReleaseOldest ==
    /\ hid_report_buf.handed # <<>>
    /\ hid_report_buf' = MarkReportTransferred(hid_report_buf,
                                               hid_report_buf.handed[1].len)

ReleaseAll == hid_report_buf' = LastSendComplete(hid_report_buf)

Next == \/ \E r \in Reports : Allocate(r)
        \/ TransferOut
        \/ ReleaseOldest
        \/ ReleaseAll

vars == hid_report_buf

Spec == Init /\ [][Next]_vars

-----------------------------------------------------------------------------
(***************************************************************************)
(* Properties.                                                             *)
(***************************************************************************)

\* Between two calls the three segments tile the usable part of the buffer in
\* the order Sending, Queued, ClearToWrite, whatever was trimmed and inflated
\* on the way (the "Loop invariants" of circular_buffer/cbuffer_readme.md).
RingInv == WellFormed(hid_report_buf.ring)

\* The bytes of the buffer that hold reports.
BytesUsed(ring) == ring.num["Queued"] + ring.num["Sending"]

\* Trimming and fragmentation waste less than one block each: a report is
\* refused only when the reports in the buffer take up all of it but two
\* blocks.  (The report is dropped by the caller, so this bounds when the
\* firmware may lose one.)
RefusedOnlyWhenNearlyFull ==
    \A r \in Reports :
        \/ AllocateSpaceForReport(hid_report_buf, r).ok
        \/ \E big \in Reports :
              BytesUsed(hid_report_buf.ring) + (BlockSize(r) - 1)
                + (BlockSize(big) - 1) >= MaxBufferSize

Fifo == INSTANCE ReportFifo WITH
            queue   <- ReportsIn(hid_report_buf, "Queued"),
            sending <- [i \in DOMAIN hid_report_buf.handed |->
                           Payload(hid_report_buf.mem, hid_report_buf.handed[i])]

\* The bytes and the bookkeeping together implement a first-in first-out queue
\* of whole reports: none is lost, split, duplicated, reordered or overwritten
\* while it waits or while the endpoint reads it ("This stores each report in
\* a contiguous section of the queue", circular_buffers.hpp).
FifoSpec == Fifo!Spec

\* The blocks the endpoint still reads from and the Sending segment are the
\* same reports, so releasing the segment releases exactly those.
SendingIsHandedOut ==
    ReportsIn(hid_report_buf, "Sending")
      = [i \in DOMAIN hid_report_buf.handed |->
            Payload(hid_report_buf.mem, hid_report_buf.handed[i])]
=============================================================================
