------------------------------- MODULE UsbHid -------------------------------
(***************************************************************************)
(* The way of a HID report from hid_report_buf to the host: the class      *)
(* driver (Class/HID/Src/usbd_hid.cpp) on top of the device core           *)
(* (Core/Src/usbd_core.c, usbd_ctlreq.c), the poll interval timer that     *)
(* feeds it (mouse_event_handler.cpp), and the bus.                        *)
(*                                                                         *)
(* Every action is one interrupt handler, or the part of                   *)
(* HAL_PCD_IRQHandler that serves one interrupt.  All interrupts have the  *)
(* same priority, so that none of them preempts another one and each       *)
(* handler is atomic with respect to all the state here.                   *)
(***************************************************************************)
EXTENDS HIDReportBuffer

CONSTANTS Batches,    \* the sequences of reports one poll interval builds
          MaxBatch    \* how many reports it builds at most

ASSUME BatchesAssumption ==
    /\ MaxBatch \in Nat
    /\ \A batch \in Batches : batch \in Seq(Reports) /\ Len(batch) <= MaxBatch

VARIABLES dev_state,        \* pdev->dev_state
          dev_old_state,    \* pdev->dev_old_state, saved by a suspend
          hid_state,        \* "NULL" while pClassData is, else its state
          hid_report_buf,   \* the queue of reports (HIDReportBuffer)
          ep_in,            \* the IN endpoint 1 and its transmit FIFO
          bus_suspended,    \* the host has suspended the bus
          tim9_count        \* interrupts of the poll interval timer, modulo 2

vars == <<dev_state, dev_old_state, hid_state, hid_report_buf, ep_in,
          bus_suspended, tim9_count>>

DevStates == {"DEFAULT", "ADDRESSED", "CONFIGURED", "SUSPENDED"}

\* The endpoint.  Armed: a transmission is requested and the FIFO is empty, the
\* report is still to be read from block.  Loaded: the FIFO holds report, the
\* host has not fetched it.  Sent: the host has, and the transfer complete
\* interrupt is pending.
EpIdle          == [phase |-> "Idle"]
EpArmed(block)  == [phase |-> "Armed", block |-> block]
EpLoaded(r)     == [phase |-> "Loaded", report |-> r]
EpSent(r)       == [phase |-> "Sent", report |-> r]

Init == /\ dev_state = "DEFAULT"
        /\ dev_old_state = "none"
        /\ hid_state = "NULL"
        /\ hid_report_buf = EmptyBuffer
        /\ ep_in = EpIdle
        /\ bus_suspended = FALSE
        /\ tim9_count = 0

-----------------------------------------------------------------------------
(***************************************************************************)
(* The class driver.                                                       *)
(***************************************************************************)

\* Mutant of MaySend: the state of the previous transmission is not looked at.
MaySendIfConfigured(state) == dev_state = "CONFIGURED" /\ state # "NULL"

\* The test at the start of USB_HID_Send_Next_Report.
MaySend(state) == dev_state = "CONFIGURED" /\ state = "HID_IDLE"

\* USB_HID_Send_Next_Report, called with the buffer, the class state and the
\* endpoint its caller has left.
SendNextReport(buf, state, ep) ==
    IF MaySend(state)
      THEN LET out == TransferOutNextReport(buf)
           IN  /\ hid_report_buf' = out.buf
               /\ IF out.block.len > 0
                    THEN hid_state' = "HID_BUSY" /\ ep_in' = EpArmed(out.block)
                    ELSE hid_state' = state /\ ep_in' = ep
      ELSE hid_report_buf' = buf /\ hid_state' = state /\ ep_in' = ep

\* The reports that the poll interval timer callback builds, as far as there is
\* room for them: a report that is refused is dropped, the next one is tried.
AllocateAll(buf, batch) ==
    LET after[n \in 0 .. Len(batch)] ==
          IF n = 0 THEN buf
                   ELSE AllocateSpaceForReport(after[n - 1], batch[n]).buf
    IN  after[Len(batch)]

\* timer9_period_elapsed: the event handler builds reports, then the next
\* report is sent.
PollIntervalTimer(batch) ==
    /\ tim9_count' = (tim9_count + 1) % 2
    /\ SendNextReport(AllocateAll(hid_report_buf, batch), hid_state, ep_in)
    /\ UNCHANGED <<dev_state, dev_old_state, bus_suspended>>

\* The transmit FIFO empty interrupt (PCD_WriteEmptyTxFifo): the report is read
\* from memory only now.
WriteEmptyTxFifo ==
    /\ ep_in.phase = "Armed"
    /\ ep_in' = EpLoaded(Payload(hid_report_buf.mem, ep_in.block))
    /\ UNCHANGED <<dev_state, dev_old_state, hid_state, hid_report_buf,
                   bus_suspended, tim9_count>>

\* Mutant of ReleaseSent: nothing is released.
ReleaseNothing(buf) == buf

\* What DataIn releases once the host has the report.
ReleaseSent(buf) == LastSendComplete(buf)

\* The transfer complete interrupt of the endpoint: USBD_LL_DataInStage, and
\* USBD_HID_DataIn when the device is configured.
DataIn ==
    /\ ep_in.phase = "Sent"
    /\ IF dev_state = "CONFIGURED"
         THEN SendNextReport(ReleaseSent(hid_report_buf), "HID_IDLE", EpIdle)
         ELSE ep_in' = EpIdle /\ UNCHANGED <<hid_state, hid_report_buf>>
    /\ UNCHANGED <<dev_state, dev_old_state, bus_suspended, tim9_count>>

-----------------------------------------------------------------------------
(***************************************************************************)
(* The device core.  HAL_PCD_IRQHandler serves the IN endpoints before     *)
(* suspend and reset, so that a report the host has acknowledged is        *)
(* completed first: ep_in is not Sent in those handlers.  Closing the      *)
(* endpoint drops what it was transmitting.                                *)
(***************************************************************************)

\* Mutant of ClassDeInit: the class data is kept.
ClassStays == ep_in' = EpIdle /\ UNCHANGED hid_state

\* USBD_HID_DeInit
ClassDeInit == ep_in' = EpIdle /\ hid_state' = "NULL"

\* Mutant of ClassInit: the state is left as the previous configuration left it
\* in the static class data.
ClassInitKeepsBusy == hid_state' \in {"HID_IDLE", "HID_BUSY"}

\* USBD_HID_Init
ClassInit == hid_state' = "HID_IDLE"

\* USBD_LL_Reset
Reset ==
    /\ ep_in.phase # "Sent"
    /\ dev_state' = "DEFAULT"
    /\ bus_suspended' = FALSE
    /\ IF hid_state # "NULL" THEN ClassDeInit ELSE UNCHANGED <<hid_state, ep_in>>
    /\ UNCHANGED <<dev_old_state, hid_report_buf, tim9_count>>

\* USBD_LL_Suspend
Suspend ==
    /\ ~bus_suspended /\ ep_in.phase # "Sent"
    /\ bus_suspended' = TRUE
    /\ dev_old_state' = dev_state
    /\ dev_state' = "SUSPENDED"
    /\ UNCHANGED <<hid_state, hid_report_buf, ep_in, tim9_count>>

\* Mutant of RestoredState: a wake-up restores nothing.
StillSuspended == dev_state

RestoredState == dev_old_state

\* USBD_LL_Resume
Resume ==
    /\ bus_suspended
    /\ bus_suspended' = FALSE
    /\ dev_state' = RestoredState
    /\ UNCHANGED <<dev_old_state, hid_state, hid_report_buf, ep_in, tim9_count>>

\* USBD_SetAddress: address 0 takes the device back to DEFAULT.
SetAddress ==
    /\ ~bus_suspended
    /\ dev_state # "CONFIGURED"
    /\ dev_state' \in {"ADDRESSED", "DEFAULT"}
    /\ UNCHANGED <<dev_old_state, hid_state, hid_report_buf, ep_in,
                   bus_suspended, tim9_count>>

\* USBD_SetConfig with configuration 1: USBD_HID_Init when it is a change.
SetConfig ==
    /\ ~bus_suspended
    /\ dev_state = "ADDRESSED"
    /\ dev_state' = "CONFIGURED"
    /\ ClassInit
    /\ UNCHANGED <<dev_old_state, hid_report_buf, ep_in, bus_suspended,
                   tim9_count>>

\* USBD_SetConfig with configuration 0.
ClearConfig ==
    /\ ~bus_suspended
    /\ dev_state = "CONFIGURED"
    /\ dev_state' = "ADDRESSED"
    /\ ClassDeInit
    /\ UNCHANGED <<dev_old_state, hid_report_buf, bus_suspended, tim9_count>>

-----------------------------------------------------------------------------
\* The host fetches the report and acknowledges it.
HostPoll ==
    /\ ~bus_suspended /\ dev_state = "CONFIGURED"
    /\ ep_in.phase = "Loaded"
    /\ ep_in' = EpSent(ep_in.report)
    /\ UNCHANGED <<dev_state, dev_old_state, hid_state, hid_report_buf,
                   bus_suspended, tim9_count>>

AnyPollIntervalTimer == \E batch \in Batches : PollIntervalTimer(batch)

Next == \/ AnyPollIntervalTimer
        \/ WriteEmptyTxFifo
        \/ HostPoll
        \/ DataIn
        \/ Reset
        \/ Suspend
        \/ Resume
        \/ SetAddress
        \/ SetConfig
        \/ ClearConfig

\* The timer never stops, a pending interrupt is served, and a host that has
\* configured the device polls its interrupt endpoint.
Fairness == /\ []<><<AnyPollIntervalTimer>>_vars
            /\ WF_vars(WriteEmptyTxFifo)
            /\ WF_vars(HostPoll)
            /\ WF_vars(DataIn)

Spec == Init /\ [][Next]_vars /\ Fairness

-----------------------------------------------------------------------------
(***************************************************************************)
(* Properties.                                                             *)
(***************************************************************************)

\* The host has the device configured, a suspended bus included.
Up == \/ dev_state = "CONFIGURED"
      \/ dev_state = "SUSPENDED" /\ dev_old_state = "CONFIGURED"

TypeOK ==
    /\ dev_state \in DevStates
    /\ dev_old_state \in (DevStates \ {"SUSPENDED"}) \cup {"none"}
    /\ hid_state \in {"NULL", "HID_IDLE", "HID_BUSY"}
    /\ ep_in.phase \in {"Idle", "Armed", "Loaded", "Sent"}
    /\ bus_suspended \in BOOLEAN
    /\ tim9_count \in 0 .. 1

\* The class data exists exactly while the device is configured, through any
\* order of resets, suspends, wake-ups and configurations: no handler that
\* looks at hhid->state follows a null pointer, and none keeps a stale one.
ClassDataWhileConfigured == hid_state # "NULL" <=> Up

\* The class is busy exactly while the endpoint has a report.  A class that is
\* busy with nothing would never send again; one that is idle too early would
\* start a transmission over the one that is going on.
BusyIsOngoing == hid_state = "HID_BUSY" <=> ep_in.phase # "Idle"

\* The report on the wire: before it is loaded, it is what the endpoint would
\* read from the buffer's memory now.
Wire == CASE ep_in.phase = "Idle"  -> <<>>
          [] ep_in.phase = "Armed" ->
               <<Payload(hid_report_buf.mem, ep_in.block)>>
          [] OTHER -> <<ep_in.report>>

Delivery == INSTANCE ReportDelivery WITH
                queue    <- ReportsIn(hid_report_buf, "Queued"),
                wire     <- Wire,
                acked    <- ep_in.phase = "Sent",
                up       <- Up

\* Every report that was queued is transmitted unchanged, once and in order,
\* unless the host takes the configuration away while it is on the wire.
DeliverySpec == Delivery!Spec

\* A report that waits goes to the host while the device stays configured.
QueueMoves == ReportsIn(hid_report_buf, "Queued") # <<>>
                ~> (ep_in.phase = "Sent" \/ dev_state # "CONFIGURED")

Refused(r) == ~AllocateSpaceForReport(hid_report_buf, r).ok

\* The reports of transmissions that a reset cut short have taken so much of
\* the buffer that r does not fit, nothing waits, and nothing is under way that
\* would release them.
Wedged(r) == /\ Refused(r)
             /\ hid_report_buf.ring.num["Queued"] = 0
             /\ ep_in.phase = "Idle"

\* While a longest report fits, every report does.
Longest == CHOOSE r \in Reports : \A s \in Reports : ReportLen(s) <= ReportLen(r)

\* A full buffer empties: while the device stays configured, a report is
\* refused only for a while, unless the buffer is wedged.  One transmission that
\* completes is enough, because it releases all that was cut short before it.
RefusalEnds ==
    Refused(Longest) /\ ~Wedged(Longest)
        ~> (~Refused(Longest) \/ dev_state # "CONFIGURED")

\* What circular_buffer/cbuffer_readme.md:12 says of the Sending segment: "s:
\* start of tx'ing, data is being sent out in the ongoing tx request".
SendingIsOngoing ==
    hid_report_buf.ring.num["Sending"] > 0 => ep_in.phase # "Idle"
=============================================================================
