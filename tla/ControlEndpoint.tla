-------------------------- MODULE ControlEndpoint --------------------------
(***************************************************************************)
(* Control transfers on endpoint 0, from the interrupt of the controller   *)
(* to the remote procedure calls: HAL_PCD_IRQHandler (stm32f4xx_hal_pcd.c) *)
(* with the registers it works on (stm32f4xx_ll_usb.c), the device core    *)
(* (usbd_core.c, usbd_ctlreq.c, usbd_ioreq.c), the class requests          *)
(* (usbd_hid.cpp) and the dispatch of a call (main.cpp, rpc).              *)
(*                                                                         *)
(* The C functions work on the device's record d, and each is an operator  *)
(* that gives the record it leaves; a call is a composition.  The host and *)
(* the controller run beside the interrupt handler, which looks at the     *)
(* interrupts in a fixed order and does not look back in the same pass.    *)
(***************************************************************************)
EXTENDS Integers, Sequences

CONSTANTS MaxPacket,   \* the packet size of endpoint 0 (64 in the code)
          Requests,    \* what the host may ask: records kind, wValue, wLength
          DataLen,     \* for the kinds that read: how many bytes there are
          MaxRxFifo    \* bound: packets in the receive FIFO when a SETUP comes

VARIABLES dev,       \* the device: software, and endpoint 0 of the controller
          rx_fifo,   \* packets the interrupt handler has not read yet
          pass,      \* how far HAL_PCD_IRQHandler has come in this pass
          host,      \* the host's transfer and what it knows of the device
          ran        \* how often the call the host sent last was executed

Reads         == DOMAIN DataLen
ChangesState  == {"SET_ADDRESS", "SET_CONFIGURATION"}
ClassRequests == {"GET_IDLE", "SET_IDLE", "SET_REPORT"}

\* UNKNOWN_CONFIGURATION is a SET_CONFIGURATION for one that there is not,
\* SET_FEATURE is for a feature the device does not know.  UNSUPPORTED stands for
\* the other requests that end in USBD_CtlError.
OtherKinds == {"SET_ADDRESS", "SET_CONFIGURATION", "UNKNOWN_CONFIGURATION",
               "SET_IDLE", "SET_REPORT", "SET_FEATURE", "UNSUPPORTED", "none"}
Kinds == Reads \cup OtherKinds

RequestRecords == [kind : Kinds, wValue : Nat, wLength : Nat]

\* A read asks for something, and there is something to read: it has a data
\* stage.
ASSUME ControlAssumption ==
    /\ MaxPacket \in Nat \ {0} /\ MaxRxFifo \in Nat
    /\ Requests \subseteq RequestRecords /\ \A req \in Requests : req.kind # "none"
    /\ DataLen \in [DOMAIN DataLen -> Nat \ {0}]
    /\ \A req \in Requests : req.kind \in Reads => req.wLength > 0
    /\ Reads \cap OtherKinds = {}

vars == <<dev, rx_fifo, pass, host, ran>>

MinOf(m, n) == IF m < n THEN m ELSE n

NoRequest == [kind |-> "none", wValue |-> 0, wLength |-> 0]
NoData    == [of |-> "none", off |-> 0, len |-> 0]
NoCall    == "none"    \* calls: "none", "last" for the host's last one, "old"

SetupPacket(req) == [type |-> "SETUP", req |-> req, call |-> NoCall]
OutPacket(call)  == [type |-> "OUT", req |-> NoRequest, call |-> call]

Packets == [type : {"SETUP", "OUT"}, req : RequestRecords,
            call : {NoCall, "last", "old"}]
Data    == [of : Kinds, off : Nat, len : 0..MaxPacket]
Stages  == [state : {"IDLE", "SETUP", "DATA_IN", "DATA_OUT",
                     "STATUS_IN", "STATUS_OUT"},
            asked : Nat, total : Nat, rem : Nat]

Devices == [dev_state : {"DEFAULT", "ADDRESSED", "CONFIGURED"}, address : Nat,
            ep0 : Stages, IsReportAvailable : BOOLEAN,
            Report_buf : {NoCall, "last", "old"},
            xfer : Data, out_buff : {"NULL", "Report_buf", "End"},
            Setup : RequestRecords,
            in_armed : BOOLEAN, in_stall : BOOLEAN, in_fifo : Seq(Data),
            in_txfe : BOOLEAN, in_xfrc : BOOLEAN,
            out_armed : BOOLEAN, out_stall : BOOLEAN, out_xfrc : BOOLEAN,
            usbrst : BOOLEAN, enumdne : BOOLEAN]

Ongoing == {"DataIn", "DataOut", "StatusIn", "StatusOut"}
Hosts   == [stage : Ongoing \cup {"Detached", "Reset", "Idle", "Done",
                                 "Stalled"},
            req : RequestRecords, got : Nat, bad : BOOLEAN, early : BOOLEAN,
            rushed : BOOLEAN, address : Nat,
            state : {"DEFAULT", "ADDRESSED", "CONFIGURED"},
            sure : BOOLEAN, overtaken : BOOLEAN]

\* The stage of a transfer, pdev->ep0_state, with the lengths it works on.
Ep0(state) == [state |-> state, asked |-> 0, total |-> 0, rem |-> 0]

\* The device after start-up: pdev, the class data, hpcd with the transfer of
\* IN_ep[0] and the buffer of OUT_ep[0], and the registers of endpoint 0.
\* Setup is hpcd->Setup while the interrupt that reports it is pending.  A
\* field that is not read before it is written again is reset, to keep the
\* states few.
Boot == [dev_state |-> "DEFAULT", address |-> 0, ep0 |-> Ep0("IDLE"),
         IsReportAvailable |-> FALSE, Report_buf |-> NoCall,
         xfer |-> NoData, out_buff |-> "NULL", Setup |-> NoRequest,
         in_armed |-> FALSE, in_stall |-> FALSE, in_fifo |-> <<>>,
         in_txfe |-> FALSE, in_xfrc |-> FALSE,
         out_armed |-> FALSE, out_stall |-> FALSE, out_xfrc |-> FALSE,
         usbrst |-> FALSE, enumdne |-> FALSE]

\* The host: the stage of its transfer, the request, the bytes it has read,
\* whether they were others than it asked for, whether it ended the transfer
\* early, and whether it began it while the device was still busy with an older
\* one.  Then what it knows of the device: address and state, whether it is
\* sure of them, and whether the last reset overtook a request.
HostAtBoot == [stage |-> "Detached", req |-> NoRequest, got |-> 0,
               bad |-> FALSE, early |-> FALSE, rushed |-> FALSE, address |-> 0,
               state |-> "DEFAULT", sure |-> TRUE, overtaken |-> FALSE]

Init == /\ dev = Boot
        /\ rx_fifo = <<>>
        /\ pass = "start"
        /\ host = HostAtBoot
        /\ ran = 0

-----------------------------------------------------------------------------
(***************************************************************************)
(* The low level driver.                                                   *)
(***************************************************************************)

\* Mutant of Transmit: the data is not cut into packets.
TransmitAll(d, data) ==
    [d EXCEPT !.xfer = data, !.in_armed = TRUE,
              !.in_txfe = d.in_txfe \/ data.len > 0]

\* HAL_PCD_EP_Transmit and USB_EP0StartXfer for IN: one packet at most.
Transmit(d, data) ==
    [d EXCEPT !.xfer = [data EXCEPT !.len = MinOf(data.len, MaxPacket)],
              !.in_armed = TRUE,
              !.in_txfe = d.in_txfe \/ data.len > 0]

\* HAL_PCD_EP_Receive and USB_EP0StartXfer for OUT.
PrepareReceive(d, buf) == [d EXCEPT !.out_buff = buf, !.out_armed = TRUE]

\* HAL_PCD_EP_SetStall for the two directions.
StallIn(d)  == [d EXCEPT !.in_stall = TRUE]
StallOut(d) == [d EXCEPT !.out_stall = TRUE]

\* Mutant of WriteEmptyTxFifo: the next packet repeats this one.
WriteKeepsPlace(d) ==
    [d EXCEPT !.in_fifo = IF d.xfer.len > 0 THEN <<d.xfer>> ELSE d.in_fifo,
              !.xfer = [d.xfer EXCEPT !.len = 0],
              !.in_txfe = FALSE]

\* PCD_WriteEmptyTxFifo: there is room for a packet.
WriteEmptyTxFifo(d) ==
    [d EXCEPT !.in_fifo = IF d.xfer.len > 0 THEN <<d.xfer>> ELSE d.in_fifo,
              !.xfer = [of |-> d.xfer.of, off |-> d.xfer.off + d.xfer.len,
                        len |-> 0],
              !.in_txfe = FALSE]

-----------------------------------------------------------------------------
(***************************************************************************)
(* The stages of a control transfer (usbd_ioreq.c).                        *)
(***************************************************************************)

CtlSendData(d, of, len) ==
    Transmit([d EXCEPT !.ep0 = [state |-> "DATA_IN", asked |-> d.ep0.asked,
                                total |-> len, rem |-> len]],
             [of |-> of, off |-> 0, len |-> len])

CtlSendStatus(d) == Transmit([d EXCEPT !.ep0 = Ep0("STATUS_IN")], NoData)

\* Mutant of CtlPrepareRx: the data goes where the last OUT packet went.
PrepareRxInPlace(d, len) ==
    [d EXCEPT !.ep0 = [Ep0("DATA_OUT") EXCEPT !.rem = len], !.out_armed = TRUE]

CtlPrepareRx(d, len) ==
    PrepareReceive([d EXCEPT !.ep0 = [Ep0("DATA_OUT") EXCEPT !.rem = len]],
                   "Report_buf")

\* Mutant of CtlReceiveStatus: the endpoint is not armed for the status.
StatusNotReceived(d) ==
    [d EXCEPT !.ep0 = Ep0("STATUS_OUT"), !.out_buff = "NULL"]

CtlReceiveStatus(d) ==
    PrepareReceive([d EXCEPT !.ep0 = Ep0("STATUS_OUT")], "NULL")

CtlError(d) == StallOut(StallIn(d))

-----------------------------------------------------------------------------
(***************************************************************************)
(* The requests (usbd_ctlreq.c, and USBD_HID_Setup for the class).         *)
(***************************************************************************)

\* USBD_GetDescriptor, and the other reads: no more than the host asks for.
AnswerRead(d, req) ==
    CtlSendData(d, req.kind, MinOf(DataLen[req.kind], req.wLength))

\* Mutant of SetAddress: the device stays in its state.
SetAddressOnly(d, req) ==
    IF d.dev_state = "CONFIGURED"
      THEN CtlError(d)
      ELSE CtlSendStatus([d EXCEPT !.address = req.wValue])

\* USBD_SetAddress.  The controller puts the address into effect at once; the
\* host uses it from the next request on.
SetAddress(d, req) ==
    IF d.dev_state = "CONFIGURED"
      THEN CtlError(d)
      ELSE CtlSendStatus([d EXCEPT !.address = req.wValue,
                                   !.dev_state = IF req.wValue # 0
                                                   THEN "ADDRESSED"
                                                   ELSE "DEFAULT"])

\* Mutant of SetConfig: the request is acknowledged and the class not opened.
SetConfigStatusOnly(d, req) ==
    IF d.dev_state = "DEFAULT" THEN CtlError(d) ELSE CtlSendStatus(d)

\* USBD_SetConfig, with USBD_HID_Init or USBD_HID_DeInit as the state changes.
SetConfig(d, req) ==
    IF req.kind = "UNKNOWN_CONFIGURATION"    \* cfgidx > USBD_MAX_NUM_CONFIGURATION
      THEN CtlError(d)
      ELSE CASE d.dev_state = "ADDRESSED" /\ req.wValue # 0 ->
                  CtlSendStatus([d EXCEPT !.dev_state = "CONFIGURED"])
             [] d.dev_state = "CONFIGURED" /\ req.wValue = 0 ->
                  CtlSendStatus([d EXCEPT !.dev_state = "ADDRESSED"])
             [] d.dev_state = "DEFAULT" -> CtlError(d)
             [] OTHER -> CtlSendStatus(d)

\* Mutant of SetReport: the report to come is not announced.
SetReportOnly(d, req) == CtlPrepareRx(d, req.wLength)

\* SET_REPORT in USBD_HID_Setup: the data stage brings the call.
SetReport(d, req) ==
    CtlPrepareRx([d EXCEPT !.IsReportAvailable = TRUE], req.wLength)

\* USBD_LL_SetupStage, with what USBD_StdDevReq and USBD_StdItfReq make of it:
\* a class request without data is acknowledged by the latter.  USBD_SetFeature
\* passes over a feature the device does not know.
SetupStage(d) ==
    LET req == d.Setup
        e == [d EXCEPT !.Setup = NoRequest,
                       !.ep0 = [Ep0("SETUP") EXCEPT !.asked = req.wLength]]
    IN  CASE req.kind \in Reads             -> AnswerRead(e, req)
          [] req.kind = "SET_REPORT"        -> SetReport(e, req)
          [] req.kind = "SET_IDLE"          -> CtlSendStatus(e)
          [] req.kind = "SET_ADDRESS"       -> SetAddress(e, req)
          [] req.kind \in {"SET_CONFIGURATION", "UNKNOWN_CONFIGURATION"} ->
                 SetConfig(e, req)
          [] req.kind = "SET_FEATURE"       -> e
          [] OTHER                          -> CtlError(e)

\* Mutant of NeedsEmptyPacket: a transfer that fills its packets just ends.
NeverEmptyPacket(ep0) == FALSE

\* The data filled its last packet and is shorter than what the host asked for.
NeedsEmptyPacket(ep0) == /\ ep0.total % MaxPacket = 0
                         /\ ep0.total >= MaxPacket
                         /\ ep0.total < ep0.asked

\* USBD_LL_DataInStage for endpoint 0.  While there is more to send the
\* endpoint also takes a status packet, should the host end the transfer early.
DataInStage(d) ==
    CASE d.ep0.state = "DATA_IN" /\ d.ep0.rem > MaxPacket ->
           LET rem == d.ep0.rem - MaxPacket
               e   == [d EXCEPT !.ep0 = [d.ep0 EXCEPT !.rem = rem]]
           IN  PrepareReceive(Transmit(e, [d.xfer EXCEPT !.len = rem]), "NULL")
      [] d.ep0.state = "DATA_IN" /\ d.ep0.rem <= MaxPacket ->
           IF NeedsEmptyPacket(d.ep0)
             THEN LET e == [d EXCEPT !.ep0 = [d.ep0 EXCEPT !.asked = 0]]
                  IN  PrepareReceive(Transmit(e, NoData), "NULL")
             ELSE CtlReceiveStatus(StallIn(d))
      [] d.ep0.state \in {"STATUS_IN", "IDLE"} -> StallIn(d)
      [] OTHER -> d

\* USBD_HID_EP0_RxReady takes the report.
RxReady(d) == [d EXCEPT !.IsReportAvailable = FALSE, !.Report_buf = NoCall]

\* USBD_LL_DataOutStage for endpoint 0, but for the call itself.
DataOutStage(d) ==
    CASE d.ep0.state = "DATA_OUT" /\ d.ep0.rem > MaxPacket ->
           LET rem == d.ep0.rem - MaxPacket
           IN  PrepareReceive([d EXCEPT !.ep0 = [d.ep0 EXCEPT !.rem = rem]],
                              d.out_buff)
      [] d.ep0.state = "DATA_OUT" /\ d.ep0.rem <= MaxPacket ->
           CtlSendStatus(IF d.dev_state = "CONFIGURED" THEN RxReady(d) ELSE d)
      [] d.ep0.state = "STATUS_OUT" -> StallOut([d EXCEPT !.ep0 = Ep0("IDLE")])
      [] OTHER -> d

\* USBD_HID_EP0_RxReady is called and finds a report: HandleHIDOutputMsg and
\* RPC::Handle_RPC run the call.
RunsCall(d) == /\ d.ep0.state = "DATA_OUT" /\ d.ep0.rem <= MaxPacket
               /\ d.dev_state = "CONFIGURED" /\ d.IsReportAvailable

-----------------------------------------------------------------------------
(***************************************************************************)
(* HAL_PCD_IRQHandler, endpoint 0: the OUT endpoint, then the IN endpoint, *)
(* then the bus and one packet of the receive FIFO.                        *)
(***************************************************************************)

OutPending == dev.out_xfrc \/ dev.Setup # NoRequest
InPending  == dev.in_xfrc \/ (dev.in_txfe /\ dev.in_fifo = <<>>)
BusPending == dev.usbrst \/ dev.enumdne
IrqPending == OutPending \/ InPending \/ BusPending \/ rx_fifo # <<>>

\* The device is still to handle something, or to fill the transmit FIFO.
Unserved == IrqPending \/ dev.in_txfe

\* RESET_SYSTEM: the whole device starts again, and the host loses it.
SystemReset == /\ dev' = Boot
               /\ rx_fifo' = <<>>
               /\ host' = HostAtBoot

\* Transfer complete or SETUP received on the OUT endpoint.  A call that is run
\* returns, or is RESET_SYSTEM.
IrqOut ==
    /\ pass = "start" /\ OutPending
    /\ LET d     == [dev EXCEPT !.out_xfrc = FALSE]
           calls == dev.out_xfrc /\ RunsCall(d)
       IN  /\ ran' = IF calls /\ dev.Report_buf = "last" THEN ran + 1 ELSE ran
           /\ \/ /\ dev' = IF dev.out_xfrc THEN DataOutStage(d)
                                          ELSE SetupStage(d)
                 /\ UNCHANGED <<rx_fifo, host>>
              \/ calls /\ SystemReset
    /\ UNCHANGED pass

\* Transfer complete on the IN endpoint, or its FIFO is empty and may be
\* filled.  Other endpoints are served after this, which takes its time.
IrqIn ==
    /\ pass = "start" /\ ~OutPending /\ IrqPending
    /\ dev' = CASE dev.in_xfrc -> DataInStage([dev EXCEPT !.in_xfrc = FALSE,
                                                         !.in_txfe = FALSE])
                [] InPending /\ ~dev.in_xfrc -> WriteEmptyTxFifo(dev)
                [] OTHER -> dev
    /\ pass' = "polled"
    /\ UNCHANGED <<rx_fifo, host, ran>>

\* The reset interrupt: the transmit FIFO is flushed, the interrupts and the
\* stalls of the endpoint are cleared.  The receive FIFO is left alone.
BusReset(d) == [d EXCEPT !.usbrst = FALSE, !.in_fifo = <<>>, !.in_xfrc = FALSE,
                         !.out_xfrc = FALSE, !.Setup = NoRequest,
                         !.in_stall = FALSE, !.out_stall = FALSE,
                         !.address = 0]

\* The enumeration done interrupt: USBD_LL_Reset.
EnumerationDone(d) == [d EXCEPT !.enumdne = FALSE, !.dev_state = "DEFAULT",
                                !.ep0 = Ep0("IDLE")]

\* The receive FIFO interrupt: a SETUP packet goes to hpcd->Setup, data to the
\* buffer of the OUT endpoint, whose end it reaches: Report_buf is one packet.
ReadPacket(d, p) ==
    IF p.type = "SETUP"
      THEN [d EXCEPT !.Setup = p.req]
      ELSE IF p.call # NoCall /\ d.out_buff = "Report_buf"
        THEN [d EXCEPT !.out_xfrc = TRUE, !.out_buff = "End",
                       !.Report_buf = p.call]
        ELSE [d EXCEPT !.out_xfrc = TRUE]

IrqRest ==
    /\ pass = "polled"
    /\ LET d == IF dev.usbrst THEN BusReset(dev) ELSE dev
           e == IF d.enumdne THEN EnumerationDone(d) ELSE d
       IN  IF rx_fifo # <<>>
             THEN /\ dev' = ReadPacket(e, Head(rx_fifo))
                  /\ rx_fifo' = Tail(rx_fifo)
             ELSE dev' = e /\ UNCHANGED rx_fifo
    /\ pass' = "start"
    /\ UNCHANGED <<host, ran>>

-----------------------------------------------------------------------------
(***************************************************************************)
(* The host and the controller.  A SETUP packet is always taken; it        *)
(* disarms the endpoint, clears its stalls and discards what it held.      *)
(* Anything else is answered with a stall, when the endpoint has one, or   *)
(* when it is armed; until then the host asks again.                       *)
(***************************************************************************)

FirstStage(kind) == CASE kind \in Reads       -> "DataIn"
                      [] kind = "SET_REPORT"  -> "DataOut"
                      [] OTHER                -> "StatusIn"

\* The host is about to give up a request that changes the device's state.
GivesUpChange == host.stage \in Ongoing /\ host.req.kind \in ChangesState

\* The order of a host: an address first, then a configuration, and requests of
\* the class only in the configuration it knows of.
Legal(req) ==
    CASE req.kind = "SET_ADDRESS" -> host.state = "DEFAULT"
      [] req.kind = "SET_CONFIGURATION" -> host.state # "DEFAULT"
      [] req.kind \in ClassRequests -> /\ host.state = "CONFIGURED"
                                        /\ host.sure /\ ~GivesUpChange
      [] OTHER -> TRUE

\* The call that was the last one, once the host makes another.
Aged(call, req) ==
    IF call = "last" /\ req.kind = "SET_REPORT" THEN "old" ELSE call

\* A new request, also in the middle of another one the host gives up; only a
\* SET_ADDRESS is not given up, but for a reset.
HostSetup(req) ==
    /\ host.stage \notin {"Detached", "Reset"} /\ Legal(req)
    /\ ~(host.stage \in Ongoing /\ host.req.kind = "SET_ADDRESS")
    /\ host.address = dev.address
    /\ Len(rx_fifo) < MaxRxFifo
    /\ LET fifo == [i \in DOMAIN rx_fifo |->
                      [rx_fifo[i] EXCEPT !.call = Aged(rx_fifo[i].call, req)]]
       IN  rx_fifo' = Append(fifo, SetupPacket(req))
    /\ host' = [host EXCEPT !.stage = FirstStage(req.kind), !.req = req,
                            !.got = 0, !.bad = FALSE, !.early = FALSE,
                            !.rushed = Unserved,
                            !.sure = host.sure /\ ~GivesUpChange]
    /\ ran' = IF req.kind = "SET_REPORT" THEN 0 ELSE ran
    /\ dev' = [dev EXCEPT !.in_armed = FALSE, !.out_armed = FALSE,
                          !.in_stall = FALSE, !.out_stall = FALSE,
                          !.in_fifo = <<>>,
                          !.Report_buf = Aged(dev.Report_buf, req)]
    /\ UNCHANGED pass

\* What a host knows once it has the status of a request.
Acknowledged(h) ==
    CASE h.req.kind = "SET_ADDRESS" ->
           [h EXCEPT !.address = h.req.wValue,
                     !.state = IF h.req.wValue = 0 THEN "DEFAULT"
                                                   ELSE "ADDRESSED"]
      [] h.req.kind = "SET_CONFIGURATION" ->
           [h EXCEPT !.sure = TRUE,
                     !.state = IF h.req.wValue = 0 THEN "ADDRESSED"
                                                   ELSE "CONFIGURED"]
      [] OTHER -> h

\* The transfer is over.
Over(h, stage) == [h EXCEPT !.stage = stage, !.req = NoRequest, !.got = 0,
                            !.bad = FALSE, !.early = FALSE, !.rushed = FALSE]

HostStalled ==
    /\ host' = [Over(host, "Stalled") EXCEPT
                   !.sure = host.sure /\ host.req.kind \notin ChangesState]
    /\ UNCHANGED <<dev, rx_fifo>>

\* What endpoint 0 sends: the packet in the FIFO, or an empty one.
InPacket == IF dev.in_fifo # <<>> THEN Head(dev.in_fifo) ELSE NoData

\* The host with one more packet of data: the last one is short, or fills what
\* was asked for.
WithData(h, p) ==
    LET got  == h.got + p.len
        bad  == p.len > 0 /\ (p.of # h.req.kind \/ p.off # h.got)
        last == p.len < MaxPacket \/ got >= h.req.wLength
    IN  [h EXCEPT !.got = got, !.bad = h.bad \/ bad,
                  !.stage = IF last THEN "StatusOut" ELSE h.stage]

\* A packet of data, or the status of a request.
HostIn ==
    /\ host.stage \in {"DataIn", "StatusIn"}
    /\ \/ dev.in_stall /\ HostStalled
       \/ /\ ~dev.in_stall /\ dev.in_armed
          /\ dev.in_fifo # <<>> \/ dev.xfer = NoData
          /\ host' = IF host.stage = "StatusIn"
                       THEN Over(Acknowledged(host), "Done")
                       ELSE WithData(host, InPacket)
          /\ dev' = [dev EXCEPT !.in_armed = FALSE, !.in_fifo = <<>>,
                                !.in_xfrc = TRUE]
          /\ UNCHANGED rx_fifo
    /\ UNCHANGED <<pass, ran>>

\* The data of a call, or the status of a read.
HostOut ==
    /\ host.stage \in {"DataOut", "StatusOut"}
    /\ \/ dev.out_stall /\ HostStalled
       \/ /\ ~dev.out_stall /\ dev.out_armed
          /\ Len(rx_fifo) <= MaxRxFifo
          /\ rx_fifo' = Append(rx_fifo, OutPacket(IF host.stage = "DataOut"
                                                    THEN "last" ELSE NoCall))
          /\ host' = IF host.stage = "DataOut"
                       THEN [host EXCEPT !.stage = "StatusIn"]
                       ELSE Over(host, "Done")
          /\ dev' = [dev EXCEPT !.out_armed = FALSE]
    /\ UNCHANGED <<pass, ran>>

\* The host has read enough and goes on to the status stage.
HostEndsEarly ==
    /\ host.stage = "DataIn" /\ host.got > 0
    /\ host' = [host EXCEPT !.stage = "StatusOut", !.early = TRUE]
    /\ UNCHANGED <<dev, rx_fifo, pass, ran>>

\* The host resets the bus, also when the device has just been plugged in; it
\* ends the reset after some time.
HostReset ==
    /\ host.stage # "Reset"
    /\ host' = [HostAtBoot EXCEPT
                   !.stage = "Reset",
                   !.overtaken = \/ dev.Setup # NoRequest
                                 \/ \E i \in DOMAIN rx_fifo :
                                      rx_fifo[i].type = "SETUP"]
    /\ dev' = [dev EXCEPT !.usbrst = TRUE]
    /\ UNCHANGED <<rx_fifo, pass, ran>>

HostResetEnds ==
    /\ host.stage = "Reset"
    /\ host' = [host EXCEPT !.stage = "Idle"]
    /\ dev' = [dev EXCEPT !.enumdne = TRUE]
    /\ UNCHANGED <<rx_fifo, pass, ran>>

AnyHostSetup == \E req \in Requests : HostSetup(req)

Next == \/ IrqOut \/ IrqIn \/ IrqRest
        \/ AnyHostSetup
        \/ HostIn \/ HostOut \/ HostEndsEarly
        \/ HostReset \/ HostResetEnds

\* The interrupt is served, and the host goes on with a transfer.
Fairness == /\ WF_vars(IrqOut) /\ WF_vars(IrqIn) /\ WF_vars(IrqRest)
            /\ WF_vars(HostIn) /\ WF_vars(HostOut)

Spec == Init /\ [][Next]_vars /\ Fairness

-----------------------------------------------------------------------------
(***************************************************************************)
(* Properties.                                                             *)
(***************************************************************************)

\* The fields hold what the protocol allows: no length wraps, and no packet is
\* longer than the endpoint's.
TypeOK ==
    /\ dev \in Devices
    /\ rx_fifo \in Seq(Packets)
    /\ pass \in {"start", "polled"}
    /\ host \in Hosts
    /\ ran \in Nat

\* The data of a call is never read through a null pointer or past the end of
\* Report_buf: when the interrupt handler is about to read an OUT packet that
\* carries a call, hpcd's buffer of the endpoint is the start of Report_buf,
\* whatever was given up, reset or still pending.
DataHasBuffer ==
    (/\ pass = "polled" /\ rx_fifo # <<>>
     /\ Head(rx_fifo).type = "OUT" /\ Head(rx_fifo).call # NoCall)
       => dev.out_buff = "Report_buf"

\* What a read brings is what was asked for, packet after packet and to the
\* last byte, when the host goes on to the status: USBD_LL_DataInStage cuts the
\* data, keeps its place and closes it with an empty packet where it must.
ReadIsExact ==
    host.stage = "StatusOut" /\ ~host.rushed
       => /\ ~host.bad
          /\ \/ host.early
             \/ host.got = MinOf(DataLen[host.req.kind], host.req.wLength)

\* With nothing left to handle the device is at the address and in the state
\* the host was told, whatever requests were given up half way.
ViewAgrees ==
    (/\ ~IrqPending /\ pass = "start" /\ host.stage \in {"Idle", "Done"}
     /\ host.sure /\ ~host.overtaken)
       => dev.dev_state = host.state /\ dev.address = host.address

\* USBD_HID_Setup finds its class data, which only a configured device has;
\* USBD_LL_SetupStage calls it without a look at pClassData.
ClassDataPresent ==
    dev.Setup.kind \in ClassRequests
        => dev.dev_state = "CONFIGURED" \/ host.overtaken

\* A call whose request was acknowledged was executed, and once: the status is
\* sent by the same handler that runs the call, after it returned.
AcknowledgedCallHasRun ==
    [][(/\ host.req.kind = "SET_REPORT" /\ ~host.rushed
        /\ host.stage = "StatusIn" /\ host'.stage = "Done")
           => ran = 1]_vars

\* The device stalls nothing it supports, though it stalls the endpoint at the
\* end of every transfer and leaves it to the next SETUP to clear that.
RefusedOnlyIfUnsupported ==
    [][(/\ host.stage \in Ongoing /\ ~host.rushed
        /\ host'.stage = "Stalled")
           => host.req.kind \in {"UNSUPPORTED", "UNKNOWN_CONFIGURATION"}]_vars

\* A transfer does not hang: it is acknowledged or refused, unless the host
\* gives it up.  The exception is a feature request the device ignores without
\* an answer (USBD_SetFeature).
TransferEnds ==
    <>[](/\ host.stage \in Ongoing /\ ~host.rushed
         /\ host.req.kind # "SET_FEATURE")
        => []<><<AnyHostSetup>>_vars
=============================================================================
