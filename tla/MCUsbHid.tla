------------------------------ MODULE MCUsbHid ------------------------------
(***************************************************************************)
(* UsbHid with the lengths of the mouse report (8) and of the keyboard     *)
(* report (5), and a buffer of 24 bytes instead of 64, which has room for  *)
(* two mouse reports, or three keyboard reports.  The runs also replay the *)
(* unit test of the repository on the report buffer they are built on.     *)
(***************************************************************************)
EXTENDS UsbHid, UnitTest

CONSTANTS Move, Press, Lift

MCReports == {Move, Press, Lift}

MCReportLen(r) == IF r = Move THEN 8 ELSE 5

\* What one poll interval builds: nothing, a mouse report, or the two reports
\* of a key that is pressed and released.
MCBatches == {<<>>, <<Move>>, <<Press, Lift>>}
=============================================================================
