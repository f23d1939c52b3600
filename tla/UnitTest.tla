------------------------------ MODULE UnitTest ------------------------------
(***************************************************************************)
(* test3 of circular_buffer/test_ring_buffer.cpp, replayed: after each     *)
(* call, the segment sizes its comments give.  The buffer has 16 bytes, as *)
(* under TESTING in circular_buffer/circular_buffers.hpp.                  *)
(***************************************************************************)
EXTENDS Naturals, Sequences

Test == "Test"
String == "String"
Rock == "Rock"
TestedLen(r) == Len(r)

B == INSTANCE HIDReportBuffer WITH
        MaxBufferSize <- 16, Reports <- {Test, String, Rock}, ReportLen <- TestedLen

Wrote(b, r)    == B!AllocateSpaceForReport(b, r).buf
TookOut(b)     == B!TransferOutNextReport(b).buf
Released(b, n) == B!MarkReportTransferred(b, n)

Is(b, clear, queued, sending, size) ==
    /\ b.ring.num = [s \in B!RingState |-> CASE s = "ClearToWrite" -> clear
                                           [] s = "Queued" -> queued
                                           [] s = "Sending" -> sending]
    /\ b.ring.size = size

UnitTest3 ==
    LET b0 == B!EmptyBuffer
        b1 == Wrote(b0, Test)        \* Queued("4,Test" , 6), Empty(10)
        b2 == Wrote(b1, String)      \* Queued("4,Test,6,String", 14), Empty(2)
        b3 == TookOut(b2)            \* Sending 6, Queued 8, Empty 2
        b4 == Released(b3, 4)        \* Empty(6), Queued("6,String", 8), Empty(2)
        b5 == Wrote(b4, Rock)        \* Queued 6, Queued 8: Trimmed to 14
        b6 == TookOut(b5)            \* Queued("4,Rock", 6), Sending("6,String", 8)
        b7 == Wrote(b6, Test)        \* Should not work, as there is no empty space
        b8 == Released(b7, 6)        \* Queued("4,Rock",6), Empty(8)
        b9 == Wrote(b8, Test)        \* Queued 12, Empty(4)  : Untrimmed to 16
    IN  /\ Is(b1, 10, 6, 0, 16)
        /\ Is(b2, 2, 14, 0, 16)
        /\ Is(b3, 2, 8, 6, 16)
        /\ Is(b4, 8, 8, 0, 16)
        /\ Is(b5, 0, 14, 0, 14)
        /\ Is(b6, 0, 6, 8, 14)
        /\ b7 = b6
        /\ Is(b8, 8, 6, 0, 14)
        /\ Is(b9, 4, 12, 0, 16)

ASSUME UnitTest == UnitTest3
=============================================================================
