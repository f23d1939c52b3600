----------------------------- MODULE ReportFifo -----------------------------
(***************************************************************************)
(* What the HID report buffer promises: a first-in first-out queue of      *)
(* whole reports.  A report that is accepted waits in the queue, is handed *)
(* out exactly once, in order, and whoever it was handed to can read it    *)
(* unchanged until it says that it is done.  The queue may refuse a report *)
(* (that is a stuttering step).                                            *)
(***************************************************************************)
EXTENDS Sequences

CONSTANT Reports

VARIABLES queue,         \* the reports accepted and not handed out yet
          sending        \* the reports handed out and not completed yet

vars == <<queue, sending>>

Init == queue = <<>> /\ sending = <<>>

Accept(r) == /\ queue' = Append(queue, r)
             /\ UNCHANGED sending

HandOut == /\ queue # <<>>
           /\ sending' = Append(sending, Head(queue))
           /\ queue' = Tail(queue)

CompleteOldest == /\ sending # <<>>
                  /\ sending' = Tail(sending)
                  /\ UNCHANGED queue

CompleteAll == /\ sending' = <<>>
               /\ UNCHANGED queue

Next == \/ \E r \in Reports : Accept(r)
        \/ HandOut
        \/ CompleteOldest
        \/ CompleteAll

Spec == Init /\ [][Next]_vars
=============================================================================
