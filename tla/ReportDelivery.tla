--------------------------- MODULE ReportDelivery ---------------------------
(***************************************************************************)
(* What the firmware promises about HID reports between the code that      *)
(* builds them and the host.  Reports wait in a queue.  While the host has *)
(* the device configured, one report at a time is on the wire; the host    *)
(* acknowledges it, then the device completes it and may put the next one  *)
(* on the wire.  A report leaves the queue only for the wire, and leaves   *)
(* the wire without an acknowledgement only when the host takes the        *)
(* configuration away.                                                     *)
(***************************************************************************)
EXTENDS SequencesExt

CONSTANTS Reports,
          MaxBatch       \* how many reports one poll interval can add

VARIABLES queue,         \* the reports that wait
          wire,          \* the report being transmitted: <<r>>, or <<>>
          acked,         \* the host has acknowledged it
          up             \* the host has the device configured

vars == <<queue, wire, acked, up>>

Init == queue = <<>> /\ wire = <<>> /\ acked = FALSE /\ up = FALSE

\* The waiting reports and the one on the wire become q and, when the wire is
\* free, the first of q may be put on it.
Feed(q, busy) ==
    \/ queue' = q /\ wire' = busy
    \/ /\ up /\ busy = <<>> /\ q # <<>>
       /\ wire' = <<Head(q)>>
       /\ queue' = Tail(q)

Poll == /\ \E n \in 0 .. MaxBatch : \E new \in TupleOf(Reports, n) :
              Feed(queue \o new, wire)
        /\ UNCHANGED <<acked, up>>

HostAck == /\ up /\ wire # <<>> /\ ~acked
           /\ acked' = TRUE
           /\ UNCHANGED <<queue, wire, up>>

Complete == /\ acked
            /\ acked' = FALSE
            /\ Feed(queue, <<>>)
            /\ UNCHANGED up

Configure == /\ ~up
             /\ up' = TRUE
             /\ UNCHANGED <<queue, wire, acked>>

Deconfigure == /\ up
               /\ up' = FALSE
               /\ wire' = <<>>
               /\ acked' = FALSE
               /\ UNCHANGED queue

Next == Poll \/ HostAck \/ Complete \/ Configure \/ Deconfigure

Spec == Init /\ [][Next]_vars
=============================================================================
