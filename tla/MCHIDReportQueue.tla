------------------------- MODULE MCHIDReportQueue ---------------------------
(***************************************************************************)
(* HIDReportQueue with the 16 byte buffer of the unit test (TESTING in     *)
(* circular_buffer/circular_buffers.hpp) and three lengths of report.      *)
(***************************************************************************)
EXTENDS HIDReportQueue

CONSTANTS Test, String, Rock, Blip

\* Test, String and Rock are the reports of test_ring_buffer.cpp; Blip is
\* shorter than their lengths, so that the free space breaks up differently.
MCReportLen(r) == CASE r \in {Test, Rock} -> 4
                    [] r = String -> 6
                    [] r = Blip -> 1

=============================================================================
