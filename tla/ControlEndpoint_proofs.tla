----------------------- MODULE ControlEndpoint_proofs -----------------------
(***************************************************************************)
(* Theorems about ControlEndpoint, for every packet size, every set of     *)
(* requests and every depth of the receive FIFO.                           *)
(***************************************************************************)
EXTENDS ControlEndpoint, SequenceTheorems, WellFoundedInduction, TLAPS

\* What a caller of Transmit wants sent; Transmit cuts it.
ToSend == [of : Kinds, off : Nat, len : Nat]

LEMMA MinOfType == ASSUME NEW m \in Nat, NEW n \in Nat
                   PROVE  MinOf(m, n) \in Nat /\ MinOf(m, n) <= n
BY DEF MinOf

LEMMA Constants == /\ NoRequest \in RequestRecords
                   /\ NoData \in Data /\ NoData \in ToSend
                   /\ \A s \in {"IDLE", "SETUP", "DATA_IN", "DATA_OUT",
                                "STATUS_IN", "STATUS_OUT"} : Ep0(s) \in Stages
<1>1. NoRequest \in RequestRecords
  BY DEF NoRequest, RequestRecords, Kinds, OtherKinds
<1>2. NoData \in ToSend
  BY DEF NoData, ToSend, Kinds, OtherKinds
<1>3. NoData \in Data
  <2>1. 0 \in 0..MaxPacket
    BY ControlAssumption
  <2> QED
    BY <2>1 DEF NoData, Data, Kinds, OtherKinds
<1>4. ASSUME NEW s \in {"IDLE", "SETUP", "DATA_IN", "DATA_OUT",
                        "STATUS_IN", "STATUS_OUT"}
      PROVE  Ep0(s) \in Stages
  BY DEF Ep0, Stages
<1>5. QED
  BY <1>1, <1>2, <1>3, <1>4

-----------------------------------------------------------------------------
(***************************************************************************)
(* The device's operators keep its type.                                   *)
(***************************************************************************)
LEMMA TransmitType ==
    ASSUME NEW d \in Devices, NEW data \in ToSend
    PROVE  Transmit(d, data) \in Devices
<1> DEFINE cut == [data EXCEPT !.len = MinOf(data.len, MaxPacket)]
<1>1. cut \in Data
  <2>1. MinOf(data.len, MaxPacket) \in 0..MaxPacket
    BY MinOfType, ControlAssumption DEF ToSend
  <2> QED
    BY <2>1 DEF ToSend, Data
<1>2. (d.in_txfe \/ data.len > 0) \in BOOLEAN
  OBVIOUS
<1> HIDE DEF cut
<1>3. QED
  BY <1>1, <1>2 DEF Transmit, Devices, cut

LEMMA ReceiveType ==
    ASSUME NEW d \in Devices, NEW buf \in {"NULL", "Report_buf", "End"}
    PROVE  PrepareReceive(d, buf) \in Devices
BY DEF PrepareReceive, Devices

LEMMA StallType ==
    ASSUME NEW d \in Devices
    PROVE  /\ StallIn(d) \in Devices
           /\ StallOut(d) \in Devices
           /\ CtlError(d) \in Devices
<1>1. \A e \in Devices : StallIn(e) \in Devices
  BY DEF StallIn, Devices
<1>2. \A e \in Devices : StallOut(e) \in Devices
  BY DEF StallOut, Devices
<1>3. QED
  BY <1>1, <1>2 DEF CtlError

LEMMA FillType ==
    ASSUME NEW d \in Devices
    PROVE  WriteEmptyTxFifo(d) \in Devices
<1> DEFINE fifo == IF d.xfer.len > 0 THEN <<d.xfer>> ELSE d.in_fifo
           rest == [of |-> d.xfer.of, off |-> d.xfer.off + d.xfer.len, len |-> 0]
<1>1. d.xfer \in Data /\ d.in_fifo \in Seq(Data)
  BY DEF Devices
<1>2. fifo \in Seq(Data)
  BY <1>1
<1>3. rest \in Data
  BY <1>1, ControlAssumption DEF Data
<1> HIDE DEF fifo, rest
<1>4. QED
  BY <1>2, <1>3 DEF WriteEmptyTxFifo, Devices, fifo, rest

LEMMA StageType ==
    ASSUME NEW d \in Devices, NEW n \in Nat
    PROVE  /\ \A of \in Kinds : CtlSendData(d, of, n) \in Devices
           /\ CtlSendStatus(d) \in Devices
           /\ CtlPrepareRx(d, n) \in Devices
           /\ CtlReceiveStatus(d) \in Devices
<1>1. \A stage \in Stages : [d EXCEPT !.ep0 = stage] \in Devices
  BY DEF Devices
<1>2. ASSUME NEW of \in Kinds
      PROVE  CtlSendData(d, of, n) \in Devices
  <2> DEFINE stage == [state |-> "DATA_IN", asked |-> d.ep0.asked,
                       total |-> n, rem |-> n]
             data  == [of |-> of, off |-> 0, len |-> n]
  <2>1. stage \in Stages
    BY DEF Stages, Devices
  <2>2. data \in ToSend
    BY DEF ToSend
  <2> HIDE DEF data
  <2>3. Transmit([d EXCEPT !.ep0 = stage], data) \in Devices
    BY <1>1, <2>1, <2>2, TransmitType
  <2> QED
    BY <2>3 DEF CtlSendData, data
<1>3. CtlSendStatus(d) \in Devices
  BY <1>1, Constants, TransmitType DEF CtlSendStatus
<1>4. CtlPrepareRx(d, n) \in Devices
  <2>1. [Ep0("DATA_OUT") EXCEPT !.rem = n] \in Stages
    BY DEF Ep0, Stages
  <2> QED
    BY <1>1, <2>1, ReceiveType DEF CtlPrepareRx
<1>5. CtlReceiveStatus(d) \in Devices
  BY <1>1, Constants, ReceiveType DEF CtlReceiveStatus
<1>6. QED
  BY <1>2, <1>3, <1>4, <1>5

LEMMA RequestType ==
    ASSUME NEW d \in Devices, NEW req \in RequestRecords
    PROVE  /\ req.kind \in Reads => AnswerRead(d, req) \in Devices
           /\ SetAddress(d, req) \in Devices
           /\ SetConfig(d, req) \in Devices
           /\ SetReport(d, req) \in Devices
<1>1. /\ req.kind \in Kinds /\ req.wValue \in Nat /\ req.wLength \in Nat
  BY DEF RequestRecords
<1>2. ASSUME req.kind \in Reads
      PROVE  AnswerRead(d, req) \in Devices
  <2>1. DataLen[req.kind] \in Nat
    BY <1>2, ControlAssumption DEF Reads
  <2>2. MinOf(DataLen[req.kind], req.wLength) \in Nat
    BY <1>1, <2>1, MinOfType
  <2> QED
    BY <1>1, <2>2, StageType DEF AnswerRead
<1>3. SetAddress(d, req) \in Devices
  <2> DEFINE s == IF req.wValue # 0 THEN "ADDRESSED" ELSE "DEFAULT"
             e == [d EXCEPT !.address = req.wValue, !.dev_state = s]
  <2>1. e \in Devices
    BY <1>1 DEF Devices
  <2> HIDE DEF e
  <2>2. CtlSendStatus(e) \in Devices /\ CtlError(d) \in Devices
    BY <2>1, StageType, StallType
  <2> QED
    BY <2>2 DEF SetAddress, e
<1>4. SetConfig(d, req) \in Devices
  <2>1. ASSUME NEW s \in {"ADDRESSED", "CONFIGURED"}
        PROVE  CtlSendStatus([d EXCEPT !.dev_state = s]) \in Devices
    <3>1. [d EXCEPT !.dev_state = s] \in Devices
      BY DEF Devices
    <3> QED
      BY <3>1, StageType
  <2>2. CtlSendStatus(d) \in Devices /\ CtlError(d) \in Devices
    BY StageType, StallType
  <2> QED
    BY <2>1, <2>2 DEF SetConfig
<1>5. SetReport(d, req) \in Devices
  <2>1. [d EXCEPT !.IsReportAvailable = TRUE] \in Devices
    BY DEF Devices
  <2> QED
    BY <1>1, <2>1, StageType DEF SetReport
<1>6. QED
  BY <1>2, <1>3, <1>4, <1>5

LEMMA SetupType ==
    ASSUME NEW d \in Devices
    PROVE  SetupStage(d) \in Devices
<1> DEFINE req   == d.Setup
           stage == [Ep0("SETUP") EXCEPT !.asked = req.wLength]
           e     == [d EXCEPT !.Setup = NoRequest, !.ep0 = stage]
<1>1. req \in RequestRecords
  BY DEF Devices
<1>2. e \in Devices
  <2>1. stage \in Stages
    BY <1>1 DEF Ep0, Stages, RequestRecords
  <2> HIDE DEF stage
  <2> QED
    BY <2>1, Constants DEF Devices
<1> HIDE DEF req, e
<1>3. /\ req.kind \in Reads => AnswerRead(e, req) \in Devices
      /\ SetAddress(e, req) \in Devices /\ SetConfig(e, req) \in Devices
      /\ SetReport(e, req) \in Devices
      /\ CtlSendStatus(e) \in Devices /\ CtlError(e) \in Devices
  BY <1>1, <1>2, RequestType, StageType, StallType
<1>4. QED
  BY <1>2, <1>3 DEF SetupStage, req, e

LEMMA DataInType ==
    ASSUME NEW d \in Devices
    PROVE  DataInStage(d) \in Devices
<1>1. /\ d.ep0 \in Stages /\ d.xfer \in Data
      /\ d.ep0.rem \in Nat /\ MaxPacket \in Nat
  BY ControlAssumption DEF Devices, Stages
<1>2. CASE d.ep0.state = "DATA_IN" /\ d.ep0.rem > MaxPacket
  <2> DEFINE rem   == d.ep0.rem - MaxPacket
             stage == [d.ep0 EXCEPT !.rem = rem]
             e     == [d EXCEPT !.ep0 = stage]
             data  == [d.xfer EXCEPT !.len = rem]
  <2>1. rem \in Nat
    BY <1>1, <1>2
  <2> HIDE DEF rem
  <2>2. stage \in Stages
    BY <1>1, <2>1 DEF Stages
  <2>3. data \in ToSend
    BY <1>1, <2>1 DEF Data, ToSend
  <2> HIDE DEF stage, data
  <2>4. e \in Devices
    BY <2>2 DEF Devices
  <2> HIDE DEF e
  <2>5. PrepareReceive(Transmit(e, data), "NULL") \in Devices
    BY <2>3, <2>4, TransmitType, ReceiveType
  <2>6. ~(d.ep0.rem <= MaxPacket)
    BY <1>1, <1>2
  <2> QED
    BY <1>2, <2>5, <2>6 DEF DataInStage, rem, stage, e, data
<1>3. CASE d.ep0.state = "DATA_IN" /\ d.ep0.rem <= MaxPacket
  <2> DEFINE e == [d EXCEPT !.ep0 = [d.ep0 EXCEPT !.asked = 0]]
  <2>1. [d.ep0 EXCEPT !.asked = 0] \in Stages
    BY <1>1 DEF Stages
  <2>2. e \in Devices
    BY <2>1 DEF Devices
  <2> HIDE DEF e
  <2>3. PrepareReceive(Transmit(e, NoData), "NULL") \in Devices
    BY <2>2, Constants, TransmitType, ReceiveType
  <2>4. CtlReceiveStatus(StallIn(d)) \in Devices
    BY StallType, StageType
  <2>5. ~(d.ep0.rem > MaxPacket)
    BY <1>1, <1>3
  <2> QED
    BY <1>3, <2>3, <2>4, <2>5 DEF DataInStage, e
<1>4. CASE d.ep0.state # "DATA_IN"
  BY <1>4, StallType DEF DataInStage
<1>5. QED
  BY <1>1, <1>2, <1>3, <1>4

LEMMA DataOutType ==
    ASSUME NEW d \in Devices
    PROVE  DataOutStage(d) \in Devices
<1>1. /\ d.ep0 \in Stages /\ d.out_buff \in {"NULL", "Report_buf", "End"}
      /\ d.ep0.rem \in Nat /\ MaxPacket \in Nat
  BY ControlAssumption DEF Devices, Stages
<1>2. CASE d.ep0.state = "DATA_OUT" /\ d.ep0.rem > MaxPacket
  <2> DEFINE rem   == d.ep0.rem - MaxPacket
             stage == [d.ep0 EXCEPT !.rem = rem]
             e     == [d EXCEPT !.ep0 = stage]
  <2>1. rem \in Nat
    BY <1>1, <1>2
  <2> HIDE DEF rem
  <2>2. stage \in Stages
    BY <1>1, <2>1 DEF Stages
  <2> HIDE DEF stage
  <2>3. e \in Devices
    BY <2>2 DEF Devices
  <2> HIDE DEF e
  <2>4. PrepareReceive(e, d.out_buff) \in Devices
    BY <1>1, <2>3, ReceiveType
  <2>5. ~(d.ep0.rem <= MaxPacket)
    BY <1>1, <1>2
  <2> QED
    BY <1>2, <2>4, <2>5 DEF DataOutStage, rem, stage, e
<1>3. CASE d.ep0.state = "DATA_OUT" /\ d.ep0.rem <= MaxPacket
  <2>1. RxReady(d) \in Devices
    BY DEF RxReady, Devices, NoCall
  <2>2. CtlSendStatus(IF d.dev_state = "CONFIGURED" THEN RxReady(d) ELSE d)
          \in Devices
    BY <2>1, StageType
  <2>3. ~(d.ep0.rem > MaxPacket)
    BY <1>1, <1>3
  <2> QED
    BY <1>3, <2>2, <2>3 DEF DataOutStage
<1>4. CASE d.ep0.state # "DATA_OUT"
  <2>1. [d EXCEPT !.ep0 = Ep0("IDLE")] \in Devices
    BY Constants DEF Devices
  <2>2. StallOut([d EXCEPT !.ep0 = Ep0("IDLE")]) \in Devices
    BY <2>1, StallType
  <2> QED
    BY <1>4, <2>2 DEF DataOutStage
<1>5. QED
  BY <1>1, <1>2, <1>3, <1>4

LEMMA BusType ==
    ASSUME NEW d \in Devices
    PROVE  /\ BusReset(d) \in Devices
           /\ EnumerationDone(d) \in Devices
           /\ \A p \in Packets : ReadPacket(d, p) \in Devices
<1>1. BusReset(d) \in Devices
  <2>1. <<>> \in Seq(Data)
    OBVIOUS
  <2> QED
    BY <2>1, Constants DEF BusReset, Devices
<1>2. EnumerationDone(d) \in Devices
  BY Constants DEF EnumerationDone, Devices
<1>3. ASSUME NEW p \in Packets
      PROVE  ReadPacket(d, p) \in Devices
  <2>1. p.req \in RequestRecords /\ p.call \in {NoCall, "last", "old"}
    BY DEF Packets
  <2> QED
    BY <2>1 DEF ReadPacket, Devices
<1>4. QED
  BY <1>1, <1>2, <1>3

-----------------------------------------------------------------------------
(***************************************************************************)
(* Type correctness, one lemma per action.                                 *)
(***************************************************************************)
LEMMA BootType == Boot \in Devices /\ HostAtBoot \in Hosts /\ <<>> \in Seq(Packets)
<1>1. Boot \in Devices
  <2>1. <<>> \in Seq(Data)
    OBVIOUS
  <2>2. /\ Ep0("IDLE") \in Stages /\ NoData \in Data
        /\ NoRequest \in RequestRecords
    BY Constants
  <2> QED
    BY <2>1, <2>2 DEF Boot, Devices, NoCall
<1>2. HostAtBoot \in Hosts
  BY Constants DEF HostAtBoot, Hosts
<1>3. QED
  BY <1>1, <1>2

LEMMA OverType ==
    ASSUME NEW h \in Hosts, NEW stage \in {"Done", "Stalled"}
    PROVE  Over(h, stage) \in Hosts /\ Over(Acknowledged(h), stage) \in Hosts
<1>1. ASSUME NEW g \in Hosts
      PROVE  Over(g, stage) \in Hosts
  BY Constants DEF Over, Hosts
<1>2. Acknowledged(h) \in Hosts
  BY DEF Acknowledged, Hosts, RequestRecords
<1>3. QED
  BY <1>1, <1>2

LEMMA IrqOutType == TypeOK /\ IrqOut => TypeOK'
<1> SUFFICES ASSUME TypeOK, IrqOut
             PROVE  TypeOK'
  OBVIOUS
<1> DEFINE d == [dev EXCEPT !.out_xfrc = FALSE]
<1>1. d \in Devices
  BY DEF TypeOK, Devices
<1> HIDE DEF d
<1>2. SetupStage(d) \in Devices /\ DataOutStage(d) \in Devices
  BY <1>1, SetupType, DataOutType
<1>3. ran' \in Nat /\ pass' = pass
  BY DEF IrqOut, TypeOK
<1>4. \/ dev' \in Devices /\ UNCHANGED <<rx_fifo, host>>
      \/ SystemReset
  BY <1>2 DEF IrqOut, d
<1>5. QED
  BY <1>3, <1>4, BootType DEF TypeOK, SystemReset

LEMMA IrqInType == TypeOK /\ IrqIn => TypeOK'
<1> SUFFICES ASSUME TypeOK, IrqIn
             PROVE  TypeOK'
  OBVIOUS
<1> DEFINE d == [dev EXCEPT !.in_xfrc = FALSE, !.in_txfe = FALSE]
<1>1. d \in Devices
  BY DEF TypeOK, Devices
<1> HIDE DEF d
<1>2. DataInStage(d) \in Devices /\ WriteEmptyTxFifo(dev) \in Devices
  BY <1>1, DataInType, FillType DEF TypeOK
<1>3. dev' \in Devices
  BY <1>2 DEF IrqIn, TypeOK, d
<1>4. QED
  BY <1>3 DEF IrqIn, TypeOK

LEMMA IrqRestType == TypeOK /\ IrqRest => TypeOK'
<1> SUFFICES ASSUME TypeOK, IrqRest
             PROVE  TypeOK'
  OBVIOUS
<1> DEFINE d == IF dev.usbrst THEN BusReset(dev) ELSE dev
           e == IF d.enumdne THEN EnumerationDone(d) ELSE d
<1>1. d \in Devices
  BY BusType DEF TypeOK
<1> HIDE DEF d
<1>2. e \in Devices
  BY <1>1, BusType
<1> HIDE DEF e
<1>3. CASE rx_fifo # <<>>
  <2>1. Head(rx_fifo) \in Packets /\ Tail(rx_fifo) \in Seq(Packets)
    BY <1>3 DEF TypeOK
  <2>2. ReadPacket(e, Head(rx_fifo)) \in Devices
    BY <1>2, <2>1, BusType
  <2> QED
    BY <1>3, <2>1, <2>2 DEF IrqRest, TypeOK, d, e
<1>4. CASE rx_fifo = <<>>
  BY <1>2, <1>4 DEF IrqRest, TypeOK, d, e
<1>5. QED
  BY <1>3, <1>4

\* Where the calls in the receive FIFO grow old nothing else changes.
LEMMA AgedFifo ==
    ASSUME NEW fifo \in Seq(Packets), NEW req
    PROVE  LET aged == [i \in DOMAIN fifo |->
                          [fifo[i] EXCEPT !.call = Aged(fifo[i].call, req)]]
           IN  /\ aged \in Seq(Packets) /\ Len(aged) = Len(fifo)
               /\ \A i \in 1..Len(fifo) :
                     /\ aged[i].type = fifo[i].type /\ aged[i].req = fifo[i].req
                     /\ aged[i].call = NoCall <=> fifo[i].call = NoCall
<1> DEFINE aged == [i \in DOMAIN fifo |->
                      [fifo[i] EXCEPT !.call = Aged(fifo[i].call, req)]]
<1>1. DOMAIN fifo = 1..Len(fifo) /\ Len(fifo) \in Nat
  OBVIOUS
<1>2. ASSUME NEW i \in 1..Len(fifo)
      PROVE  /\ aged[i] \in Packets
             /\ aged[i].type = fifo[i].type /\ aged[i].req = fifo[i].req
             /\ aged[i].call = NoCall <=> fifo[i].call = NoCall
  <2>1. fifo[i] \in Packets
    OBVIOUS
  <2>2. Aged(fifo[i].call, req) \in {NoCall, "last", "old"}
    BY <2>1 DEF Aged, Packets
  <2>3. Aged(fifo[i].call, req) = NoCall <=> fifo[i].call = NoCall
    BY DEF Aged, NoCall
  <2>4. aged[i] = [fifo[i] EXCEPT !.call = Aged(fifo[i].call, req)]
    BY <1>1
  <2> QED
    BY <2>1, <2>2, <2>3, <2>4 DEF Packets
<1>3. aged \in Seq(Packets) /\ Len(aged) = Len(fifo)
  <2>1. aged \in [1..Len(fifo) -> Packets]
    <3> HIDE DEF aged
    <3>1. aged = [i \in 1..Len(fifo) |-> aged[i]]
      BY <1>1 DEF aged
    <3> QED
      BY <1>2, <3>1
  <2> HIDE DEF aged
  <2> QED
    BY <1>1, <2>1
<1>4. QED
  BY <1>2, <1>3

LEMMA HostSetupType == TypeOK /\ AnyHostSetup => TypeOK'
<1> SUFFICES ASSUME TypeOK, NEW req \in Requests, HostSetup(req)
             PROVE  TypeOK'
  BY DEF AnyHostSetup
<1>1. req \in RequestRecords
  BY ControlAssumption
<1>2. rx_fifo' \in Seq(Packets)
  <2> DEFINE fifo == [i \in DOMAIN rx_fifo |->
                        [rx_fifo[i] EXCEPT !.call = Aged(rx_fifo[i].call, req)]]
  <2>1. fifo \in Seq(Packets)
    BY AgedFifo DEF TypeOK
  <2>2. SetupPacket(req) \in Packets
    BY <1>1 DEF SetupPacket, Packets, NoCall
  <2>3. rx_fifo' = Append(fifo, SetupPacket(req))
    BY DEF HostSetup
  <2> HIDE DEF fifo
  <2> QED
    BY <2>1, <2>2, <2>3
<1>3. host' \in Hosts
  <2>1. Unserved \in BOOLEAN /\ (host.sure /\ ~GivesUpChange) \in BOOLEAN
    BY DEF Unserved, IrqPending, OutPending, InPending, BusPending, TypeOK,
           Devices
  <2>2. FirstStage(req.kind) \in Ongoing
    BY DEF FirstStage, Ongoing
  <2> QED
    BY <1>1, <2>1, <2>2 DEF HostSetup, TypeOK, Hosts
<1>4. dev' \in Devices
  <2>1. Aged(dev.Report_buf, req) \in {NoCall, "last", "old"}
    BY DEF Aged, TypeOK, Devices
  <2>2. <<>> \in Seq(Data)
    OBVIOUS
  <2> QED
    BY <2>1, <2>2 DEF HostSetup, TypeOK, Devices
<1>5. QED
  BY <1>2, <1>3, <1>4 DEF HostSetup, TypeOK

LEMMA HostStalledType == TypeOK /\ HostStalled => host' \in Hosts
<1> SUFFICES ASSUME TypeOK, HostStalled
             PROVE  host' \in Hosts
  OBVIOUS
<1>1. Over(host, "Stalled") \in Hosts
  BY OverType DEF TypeOK
<1>2. (host.sure /\ host.req.kind \notin ChangesState) \in BOOLEAN
  OBVIOUS
<1>3. QED
  BY <1>1, <1>2 DEF HostStalled, Hosts, TypeOK

LEMMA HostInType == TypeOK /\ HostIn => TypeOK'
<1> SUFFICES ASSUME TypeOK, HostIn
             PROVE  TypeOK'
  OBVIOUS
<1>1. CASE dev.in_stall /\ HostStalled
  BY <1>1, HostStalledType DEF HostIn, HostStalled, TypeOK
<1>2. CASE ~(dev.in_stall /\ HostStalled)
  <2>1. InPacket \in Data
    BY Constants DEF InPacket, TypeOK, Devices
  <2>2. WithData(host, InPacket) \in Hosts
    <3>1. InPacket.len \in Nat /\ host.got \in Nat
      BY <2>1, ControlAssumption DEF Data, TypeOK, Hosts
    <3>2. ASSUME NEW n \in Nat, NEW b \in BOOLEAN
          PROVE  /\ [host EXCEPT !.got = n, !.bad = b,
                                 !.stage = "StatusOut"] \in Hosts
                 /\ [host EXCEPT !.got = n, !.bad = b,
                                 !.stage = host.stage] \in Hosts
      BY DEF TypeOK, Hosts, Ongoing
    <3> DEFINE got == host.got + InPacket.len
               bad == host.bad \/ /\ InPacket.len > 0
                                  /\ \/ InPacket.of # host.req.kind
                                     \/ InPacket.off # host.got
    <3>3. got \in Nat /\ bad \in BOOLEAN
      BY <3>1
    <3> HIDE DEF got, bad
    <3>4. \/ WithData(host, InPacket)
              = [host EXCEPT !.got = got, !.bad = bad, !.stage = "StatusOut"]
          \/ WithData(host, InPacket)
              = [host EXCEPT !.got = got, !.bad = bad, !.stage = host.stage]
      BY DEF WithData, got, bad
    <3> QED
      BY <3>2, <3>3, <3>4
  <2>6. host' \in Hosts
    BY <1>2, <2>2, OverType DEF HostIn, TypeOK
  <2>7. dev' \in Devices
    <3>1. <<>> \in Seq(Data)
      OBVIOUS
    <3>2. dev' = [dev EXCEPT !.in_armed = FALSE, !.in_fifo = <<>>,
                             !.in_xfrc = TRUE]
      BY <1>2 DEF HostIn
    <3> QED
      BY <3>1, <3>2 DEF TypeOK, Devices
  <2> QED
    BY <1>2, <2>6, <2>7 DEF HostIn, TypeOK
<1>3. QED
  BY <1>1, <1>2 DEF HostIn

LEMMA HostOutType == TypeOK /\ HostOut => TypeOK'
<1> SUFFICES ASSUME TypeOK, HostOut
             PROVE  TypeOK'
  OBVIOUS
<1>1. CASE dev.out_stall /\ HostStalled
  BY <1>1, HostStalledType DEF HostOut, HostStalled, TypeOK
<1>2. CASE ~dev.out_stall
  <2>1. rx_fifo' \in Seq(Packets)
    <3>1. \A call \in {NoCall, "last"} : OutPacket(call) \in Packets
      BY Constants DEF OutPacket, Packets
    <3> QED
      BY <1>2, <3>1 DEF HostOut, TypeOK
  <2>2. host' \in Hosts
    <3>1. Over(host, "Done") \in Hosts
      BY OverType DEF TypeOK
    <3>2. [host EXCEPT !.stage = "StatusIn"] \in Hosts
      BY DEF TypeOK, Hosts, Ongoing
    <3> QED
      BY <1>2, <3>1, <3>2 DEF HostOut
  <2>3. dev' \in Devices
    <3>1. dev' = [dev EXCEPT !.out_armed = FALSE]
      BY <1>2 DEF HostOut
    <3>2. dev \in Devices
      BY DEF TypeOK
    <3> QED
      BY <3>1, <3>2 DEF Devices
  <2> QED
    BY <1>2, <2>1, <2>2, <2>3 DEF HostOut, TypeOK
<1>3. QED
  BY <1>1, <1>2 DEF HostOut

LEMMA HostRestType ==
    TypeOK /\ (HostEndsEarly \/ HostReset \/ HostResetEnds) => TypeOK'
<1> SUFFICES ASSUME TypeOK, HostEndsEarly \/ HostReset \/ HostResetEnds
             PROVE  TypeOK'
  OBVIOUS
<1>1. CASE HostEndsEarly
  BY <1>1 DEF HostEndsEarly, TypeOK, Hosts, Ongoing
<1>2. CASE HostReset
  <2> DEFINE late == \/ dev.Setup # NoRequest
                     \/ \E i \in DOMAIN rx_fifo : rx_fifo[i].type = "SETUP"
  <2>1. late \in BOOLEAN
    OBVIOUS
  <2> HIDE DEF late
  <2>2. host' \in Hosts
    BY <1>2, <2>1, BootType DEF HostReset, Hosts, late
  <2>3. dev' \in Devices
    BY <1>2 DEF HostReset, TypeOK, Devices
  <2> QED
    BY <1>2, <2>2, <2>3 DEF HostReset, TypeOK
<1>3. CASE HostResetEnds
  <2>1. dev' \in Devices /\ host' \in Hosts
    BY <1>3 DEF HostResetEnds, TypeOK, Devices, Hosts
  <2> QED
    BY <1>3, <2>1 DEF HostResetEnds, TypeOK
<1>4. QED
  BY <1>1, <1>2, <1>3

LEMMA TypeStep == TypeOK /\ [Next]_vars => TypeOK'
<1> SUFFICES ASSUME TypeOK, [Next]_vars
             PROVE  TypeOK'
  OBVIOUS
<1>1. CASE UNCHANGED vars
  BY <1>1 DEF vars, TypeOK
<1>2. QED
  BY <1>1, IrqOutType, IrqInType, IrqRestType, HostSetupType, HostInType,
     HostOutType, HostRestType DEF Next

LEMMA TypeInit == Init => TypeOK
BY BootType DEF Init, TypeOK

\* TypeOK: the state of endpoint 0, the FIFO and the host keep their types; no
\* length of a stage becomes negative, no packet is longer than the endpoint's.
THEOREM TypeCorrect == Spec => []TypeOK
BY TypeInit, TypeStep, PTL DEF Spec

-----------------------------------------------------------------------------
(***************************************************************************)
(* The data of a call has its buffer.                                      *)
(***************************************************************************)

\* A packet with the data of a call, and the SETUP packet that announces one.
IsCall(p)     == p.type = "OUT" /\ p.call # NoCall
Announces(p)  == p.type = "SETUP" /\ p.req.kind = "SET_REPORT"

\* The device is ready for a call, or will be once it has looked at Setup.  In
\* the data stage of a read, a completion could give the buffer away.
ReadyFor(d) == \/ d.Setup.kind = "SET_REPORT"
               \/ /\ d.Setup = NoRequest
                  /\ d.out_buff = "Report_buf"
                  /\ d.ep0.state # "DATA_IN"

\* A call comes right behind the SETUP packet that announces it, in the FIFO or
\* out of it already.
CallsAnnounced ==
    \A i \in 1..Len(rx_fifo) :
        IsCall(rx_fifo[i]) => IF i = 1 THEN ReadyFor(dev)
                                       ELSE Announces(rx_fifo[i - 1])

\* So it will for the call the host is about to send.
HostAnnounced ==
    host.stage = "DataOut" => IF rx_fifo = <<>>
                                THEN ReadyFor(dev)
                                ELSE Announces(rx_fifo[Len(rx_fifo)])

\* A SETUP packet is handled before the next packet is read.
SetupHandled == pass = "polled" => dev.Setup = NoRequest

CallInv == CallsAnnounced /\ HostAnnounced /\ SetupHandled

LEMMA CallInvImplies == TypeOK /\ CallInv => DataHasBuffer
<1> SUFFICES ASSUME TypeOK, CallInv, pass = "polled", rx_fifo # <<>>,
                    IsCall(Head(rx_fifo))
             PROVE  dev.out_buff = "Report_buf"
  BY DEF DataHasBuffer, IsCall
<1>1. 1 \in 1..Len(rx_fifo) /\ Head(rx_fifo) = rx_fifo[1]
  BY DEF TypeOK
<1>2. ReadyFor(dev)
  BY <1>1 DEF CallInv, CallsAnnounced
<1>3. QED
  BY <1>2 DEF CallInv, SetupHandled, ReadyFor, NoRequest

\* A device that is as ready as another one.
AsReady(d, e) == /\ e.Setup = d.Setup /\ e.out_buff = d.out_buff
                 /\ e.ep0.state = "DATA_IN" => d.ep0.state = "DATA_IN"

LEMMA StaysReady ==
    ASSUME NEW d, NEW e, AsReady(d, e), ReadyFor(d)
    PROVE  ReadyFor(e)
BY DEF AsReady, ReadyFor

LEMMA DataOutReady ==
    ASSUME NEW d \in Devices
    PROVE  AsReady(d, DataOutStage(d))
<1>1. /\ d.ep0 \in Stages /\ d.ep0.rem \in Nat /\ MaxPacket \in Nat
  BY ControlAssumption DEF Devices, Stages
<1>2. CASE d.ep0.state = "DATA_OUT" /\ d.ep0.rem > MaxPacket
  <2>1. ~(d.ep0.rem <= MaxPacket)
    BY <1>1, <1>2
  <2> QED
    BY <1>1, <1>2, <2>1
       DEF DataOutStage, PrepareReceive, AsReady, Devices, Stages
<1>3. CASE d.ep0.state = "DATA_OUT" /\ d.ep0.rem <= MaxPacket
  <2>1. ~(d.ep0.rem > MaxPacket)
    BY <1>1, <1>3
  <2>2. AsReady(d, RxReady(d)) /\ RxReady(d) \in Devices
    BY DEF RxReady, AsReady, Devices, NoCall
  <2>3. ASSUME NEW e \in Devices, AsReady(d, e)
        PROVE  AsReady(d, CtlSendStatus(e))
    BY <2>3 DEF CtlSendStatus, Transmit, Ep0, AsReady, Devices
  <2> QED
    BY <1>3, <2>1, <2>2, <2>3 DEF DataOutStage, AsReady
<1>4. CASE d.ep0.state # "DATA_OUT"
  BY <1>4 DEF DataOutStage, StallOut, Ep0, AsReady, Devices
<1>5. QED
  BY <1>1, <1>2, <1>3, <1>4

LEMMA DataInReady ==
    ASSUME NEW d \in Devices, d.ep0.state # "DATA_IN"
    PROVE  AsReady(d, DataInStage(d))
BY DEF DataInStage, StallIn, AsReady, Devices

LEMMA FillReady ==
    ASSUME NEW d \in Devices
    PROVE  AsReady(d, WriteEmptyTxFifo(d))
BY DEF WriteEmptyTxFifo, AsReady, Devices

LEMMA SetupReady ==
    ASSUME NEW d \in Devices, d.Setup.kind = "SET_REPORT"
    PROVE  ReadyFor(SetupStage(d))
<1> DEFINE stage == [Ep0("SETUP") EXCEPT !.asked = d.Setup.wLength]
           e     == [d EXCEPT !.Setup = NoRequest, !.ep0 = stage]
<1>1. "SET_REPORT" \notin Reads
  BY ControlAssumption DEF OtherKinds
<1>2. SetupStage(d) = SetReport(e, d.Setup)
  BY <1>1 DEF SetupStage
<1>3. /\ SetReport(e, d.Setup).Setup = NoRequest
      /\ SetReport(e, d.Setup).out_buff = "Report_buf"
      /\ SetReport(e, d.Setup).ep0.state = "DATA_OUT"
  BY DEF SetReport, CtlPrepareRx, PrepareReceive, Ep0, Devices
<1>4. QED
  BY <1>2, <1>3 DEF ReadyFor

\* A step that leaves the FIFO and the host alone and takes no readiness away.
LEMMA CallInvFrame ==
    ASSUME CallInv, UNCHANGED <<rx_fifo, host>>, SetupHandled',
           ReadyFor(dev) => ReadyFor(dev')
    PROVE  CallInv'
<1>1. CallsAnnounced'
  BY DEF CallInv, CallsAnnounced
<1>2. HostAnnounced'
  BY DEF CallInv, HostAnnounced
<1>3. QED
  BY <1>1, <1>2 DEF CallInv

LEMMA IrqOutCalls == TypeOK /\ CallInv /\ IrqOut => CallInv'
<1> SUFFICES ASSUME TypeOK, CallInv, IrqOut
             PROVE  CallInv'
  OBVIOUS
<1>1. pass' = "start" /\ SetupHandled'
  BY DEF IrqOut, SetupHandled
<1>2. CASE SystemReset
  BY <1>1, <1>2
     DEF SystemReset, HostAtBoot, CallInv, CallsAnnounced, HostAnnounced
<1>3. CASE ~SystemReset
  <2> DEFINE d == [dev EXCEPT !.out_xfrc = FALSE]
  <2>1. d \in Devices /\ AsReady(dev, d) /\ d.Setup = dev.Setup
    BY DEF TypeOK, Devices, AsReady
  <2> HIDE DEF d
  <2>2. /\ UNCHANGED <<rx_fifo, host>>
        /\ dev' = IF dev.out_xfrc THEN DataOutStage(d) ELSE SetupStage(d)
    BY <1>3 DEF IrqOut, d
  <2>3. ASSUME ReadyFor(dev)
        PROVE  ReadyFor(dev')
    <3>1. CASE dev.out_xfrc
      BY <2>1, <2>2, <2>3, <3>1, DataOutReady, StaysReady
    <3>2. CASE ~dev.out_xfrc
      <4>1. dev.Setup # NoRequest
        BY <3>2 DEF IrqOut, OutPending, TypeOK, Devices
      <4>2. d.Setup.kind = "SET_REPORT"
        BY <2>1, <2>3, <4>1 DEF ReadyFor
      <4> QED
        BY <2>1, <2>2, <3>2, <4>2, SetupReady
    <3>3. QED
      BY <3>1, <3>2
  <2> QED
    BY <1>1, <2>2, <2>3, CallInvFrame
<1>4. QED
  BY <1>2, <1>3

LEMMA IrqInCalls == TypeOK /\ CallInv /\ IrqIn => CallInv'
<1> SUFFICES ASSUME TypeOK, CallInv, IrqIn
             PROVE  CallInv'
  OBVIOUS
<1> DEFINE d == [dev EXCEPT !.in_xfrc = FALSE, !.in_txfe = FALSE]
<1>1. dev.Setup = NoRequest
  BY DEF IrqIn, OutPending
<1>2. d \in Devices /\ AsReady(dev, d) /\ d.Setup = dev.Setup
  BY DEF TypeOK, Devices, AsReady
<1> HIDE DEF d
<1>3. \/ dev' = DataInStage(d) \/ dev' = WriteEmptyTxFifo(dev) \/ dev' = dev
  BY DEF IrqIn, d
<1>4. dev'.Setup = NoRequest
  <2>1. DataInStage(d).Setup = d.Setup
    BY <1>2 DEF DataInStage, PrepareReceive, Transmit, CtlReceiveStatus,
                StallIn, Devices
  <2>2. WriteEmptyTxFifo(dev).Setup = dev.Setup
    BY DEF WriteEmptyTxFifo, TypeOK, Devices
  <2> QED
    BY <1>1, <1>2, <1>3, <2>1, <2>2
<1>5. ASSUME ReadyFor(dev)
      PROVE  ReadyFor(dev')
  <2>1. ReadyFor(d)
    BY <1>2, <1>5, StaysReady
  <2>2. d.ep0.state # "DATA_IN"
    BY <1>1, <1>2, <2>1 DEF ReadyFor, NoRequest
  <2>3. ReadyFor(DataInStage(d))
    BY <1>2, <2>1, <2>2, DataInReady, StaysReady
  <2>4. ReadyFor(WriteEmptyTxFifo(dev))
    BY <1>5, FillReady, StaysReady DEF TypeOK
  <2> QED
    BY <1>3, <1>5, <2>3, <2>4
<1>6. QED
  BY <1>4, <1>5, CallInvFrame DEF IrqIn, SetupHandled

\* Reading the first packet of the FIFO.
LEMMA IrqRestCalls == TypeOK /\ CallInv /\ IrqRest => CallInv'
<1> SUFFICES ASSUME TypeOK, CallInv, IrqRest
             PROVE  CallInv'
  OBVIOUS
<1> DEFINE d == IF dev.usbrst THEN BusReset(dev) ELSE dev
           e == IF d.enumdne THEN EnumerationDone(d) ELSE d
<1>1. dev.Setup = NoRequest /\ SetupHandled'
  BY DEF IrqRest, CallInv, SetupHandled
<1>2. d \in Devices /\ AsReady(dev, d)
  <2>1. AsReady(dev, BusReset(dev))
    BY <1>1 DEF BusReset, AsReady, TypeOK, Devices
  <2> QED
    BY <2>1, BusType DEF TypeOK, AsReady
<1> HIDE DEF d
<1>3. e \in Devices /\ AsReady(d, e)
  <2>1. AsReady(d, EnumerationDone(d))
    BY <1>2 DEF EnumerationDone, Ep0, AsReady, Devices
  <2> QED
    BY <1>2, <2>1, BusType DEF AsReady
<1>4. ReadyFor(dev) => ReadyFor(e)
  BY <1>2, <1>3, StaysReady
<1> HIDE DEF e
<1>5. CASE rx_fifo = <<>>
  <2>1. dev' = e /\ UNCHANGED <<rx_fifo, host>>
    BY <1>5 DEF IrqRest, d, e
  <2> QED
    BY <1>1, <1>4, <2>1, CallInvFrame
<1>6. CASE rx_fifo # <<>>
  <2> DEFINE p == Head(rx_fifo)
  <2>1. /\ rx_fifo' = Tail(rx_fifo) /\ dev' = ReadPacket(e, p) /\ host' = host
    BY <1>6 DEF IrqRest, d, e
  <2>2. /\ p = rx_fifo[1] /\ Len(rx_fifo) \in Nat \ {0}
        /\ Len(rx_fifo') = Len(rx_fifo) - 1
        /\ \A i \in 1..Len(rx_fifo') : rx_fifo'[i] = rx_fifo[i + 1]
    BY <1>6, <2>1 DEF TypeOK
  <2>3. Announces(p) => ReadyFor(dev')
    <3>1. ASSUME Announces(p)
          PROVE  dev'.Setup = p.req
      BY <1>3, <2>1, <3>1 DEF Announces, ReadPacket, Devices
    <3> QED
      BY <3>1 DEF Announces, ReadyFor
  <2> HIDE DEF p
  <2>4. CallsAnnounced'
    <3> SUFFICES ASSUME NEW i \in 1..Len(rx_fifo'), IsCall(rx_fifo'[i])
                 PROVE  IF i = 1 THEN ReadyFor(dev')
                                 ELSE Announces(rx_fifo'[i - 1])
      BY DEF CallsAnnounced
    <3>1. i + 1 \in 1..Len(rx_fifo) /\ i + 1 # 1 /\ (i + 1) - 1 = i
      BY <2>2
    <3>2. Announces(rx_fifo[i])
      BY <2>2, <3>1 DEF CallInv, CallsAnnounced
    <3>3. CASE i = 1
      BY <2>2, <2>3, <3>2, <3>3
    <3>4. CASE i # 1
      <4>1. i - 1 \in 1..Len(rx_fifo') /\ (i - 1) + 1 = i
        BY <2>2, <3>4
      <4>2. rx_fifo'[i - 1] = rx_fifo[i]
        BY <2>2, <4>1
      <4> QED
        BY <3>2, <3>4, <4>2
    <3>5. QED
      BY <3>3, <3>4
  <2>5. HostAnnounced'
    <3> SUFFICES ASSUME host.stage = "DataOut"
                 PROVE  IF rx_fifo' = <<>>
                          THEN ReadyFor(dev')
                          ELSE Announces(rx_fifo'[Len(rx_fifo')])
      BY <2>1 DEF HostAnnounced
    <3>1. Announces(rx_fifo[Len(rx_fifo)])
      BY <1>6 DEF CallInv, HostAnnounced
    <3>2. CASE rx_fifo' = <<>>
      <4>1. Len(rx_fifo') = 0
        BY <3>2
      <4>2. Len(rx_fifo) = 1
        BY <2>2, <4>1
      <4> QED
        BY <2>2, <2>3, <3>1, <3>2, <4>2
    <3>3. CASE rx_fifo' # <<>>
      <4>1. Len(rx_fifo') \in 1..Len(rx_fifo')
        BY <2>1, <2>2, <3>3 DEF TypeOK
      <4>2. rx_fifo'[Len(rx_fifo')] = rx_fifo[Len(rx_fifo)]
        BY <2>2, <4>1
      <4> QED
        BY <3>1, <3>3, <4>2
    <3>4. QED
      BY <3>2, <3>3
  <2>6. QED
    BY <1>1, <2>4, <2>5 DEF CallInv
<1>7. QED
  BY <1>5, <1>6

LEMMA HostSetupCalls == TypeOK /\ CallInv /\ AnyHostSetup => CallInv'
<1> SUFFICES ASSUME TypeOK, CallInv, NEW req \in Requests, HostSetup(req)
             PROVE  CallInv'
  BY DEF AnyHostSetup
<1> DEFINE aged == [i \in DOMAIN rx_fifo |->
                      [rx_fifo[i] EXCEPT !.call = Aged(rx_fifo[i].call, req)]]
<1>1. rx_fifo' = Append(aged, SetupPacket(req)) /\ pass' = pass
  BY DEF HostSetup
<1>2. /\ aged \in Seq(Packets) /\ Len(aged) = Len(rx_fifo)
      /\ \A i \in 1..Len(rx_fifo) :
           /\ aged[i].type = rx_fifo[i].type /\ aged[i].req = rx_fifo[i].req
           /\ aged[i].call = NoCall <=> rx_fifo[i].call = NoCall
  BY AgedFifo DEF TypeOK
<1> HIDE DEF aged
<1>3. dev'.Setup = dev.Setup /\ (ReadyFor(dev) => ReadyFor(dev'))
  BY DEF HostSetup, ReadyFor, TypeOK, Devices
<1>4. /\ Len(rx_fifo) \in Nat /\ Len(rx_fifo') = Len(rx_fifo) + 1
      /\ rx_fifo'[Len(rx_fifo')] = SetupPacket(req)
      /\ \A i \in 1..Len(rx_fifo) : rx_fifo'[i] = aged[i]
  <2>1. SetupPacket(req) \in Packets
    BY ControlAssumption DEF SetupPacket, Packets, NoCall
  <2> QED
    BY <1>1, <1>2, <2>1 DEF TypeOK
<1>5. CallsAnnounced'
  <2> SUFFICES ASSUME NEW i \in 1..Len(rx_fifo'), IsCall(rx_fifo'[i])
               PROVE  IF i = 1 THEN ReadyFor(dev')
                               ELSE Announces(rx_fifo'[i - 1])
    BY DEF CallsAnnounced
  <2>1. i # Len(rx_fifo')
    BY <1>4 DEF IsCall, SetupPacket
  <2>2. i \in 1..Len(rx_fifo)
    BY <1>4, <2>1
  <2>3. IsCall(rx_fifo[i])
    BY <1>2, <1>4, <2>2 DEF IsCall
  <2>4. CASE i = 1
    BY <1>3, <2>2, <2>3, <2>4 DEF CallInv, CallsAnnounced
  <2>5. CASE i # 1
    <3>1. i - 1 \in 1..Len(rx_fifo)
      BY <1>4, <2>2, <2>5
    <3>2. Announces(rx_fifo[i - 1])
      BY <2>2, <2>3, <2>5 DEF CallInv, CallsAnnounced
    <3> QED
      BY <1>2, <1>4, <2>5, <3>1, <3>2 DEF Announces
  <2>6. QED
    BY <2>4, <2>5
<1>6. HostAnnounced'
  <2> SUFFICES ASSUME host'.stage = "DataOut"
               PROVE  /\ rx_fifo' # <<>>
                      /\ Announces(rx_fifo'[Len(rx_fifo')])
    BY DEF HostAnnounced
  <2>1. host'.stage = FirstStage(req.kind)
    BY DEF HostSetup, TypeOK, Hosts
  <2>2. req.kind = "SET_REPORT"
    BY <2>1 DEF FirstStage
  <2>3. Announces(SetupPacket(req))
    BY <2>2 DEF Announces, SetupPacket
  <2>4. rx_fifo' # <<>>
    BY <1>1, <1>2
  <2> QED
    BY <1>4, <2>3, <2>4
<1>7. SetupHandled'
  BY <1>1, <1>3 DEF CallInv, SetupHandled
<1>8. QED
  BY <1>5, <1>6, <1>7 DEF CallInv

\* The steps of a host that sends nothing, or looks only at the IN direction.
LEMMA HostQuietCalls ==
    TypeOK /\ CallInv /\ (HostIn \/ HostEndsEarly \/ HostReset \/ HostResetEnds)
      => CallInv'
<1> SUFFICES ASSUME TypeOK, CallInv,
                    HostIn \/ HostEndsEarly \/ HostReset \/ HostResetEnds
             PROVE  CallInv'
  OBVIOUS
<1>1. rx_fifo' = rx_fifo /\ pass' = pass
  BY DEF HostIn, HostStalled, HostEndsEarly, HostReset, HostResetEnds
<1>2. dev'.Setup = dev.Setup /\ (ReadyFor(dev) => ReadyFor(dev'))
  BY DEF HostIn, HostStalled, HostEndsEarly, HostReset, HostResetEnds,
         ReadyFor, TypeOK, Devices
<1>3. host'.stage # "DataOut"
  <2>1. CASE HostIn
    BY <2>1 DEF HostIn, HostStalled, Over, Acknowledged, WithData, TypeOK, Hosts
  <2>2. CASE HostEndsEarly \/ HostReset \/ HostResetEnds
    BY <2>2 DEF HostEndsEarly, HostReset, HostResetEnds, HostAtBoot, TypeOK,
                Hosts
  <2>3. QED
    BY <2>1, <2>2
<1>4. QED
  BY <1>1, <1>2, <1>3
     DEF CallInv, CallsAnnounced, HostAnnounced, SetupHandled

LEMMA HostOutCalls == TypeOK /\ CallInv /\ HostOut => CallInv'
<1> SUFFICES ASSUME TypeOK, CallInv, HostOut
             PROVE  CallInv'
  OBVIOUS
<1>1. dev'.Setup = dev.Setup /\ (ReadyFor(dev) => ReadyFor(dev'))
  BY DEF HostOut, HostStalled, ReadyFor, TypeOK, Devices
<1>2. pass' = pass /\ SetupHandled'
  BY <1>1 DEF HostOut, CallInv, SetupHandled
<1>3. host'.stage # "DataOut"
  <2>1. CASE HostStalled
    BY <2>1 DEF HostStalled, Over, TypeOK, Hosts
  <2>2. CASE host' = [host EXCEPT !.stage = "StatusIn"]
    BY <2>2 DEF TypeOK, Hosts
  <2>3. CASE host' = Over(host, "Done")
    BY <2>3 DEF Over, TypeOK, Hosts
  <2>4. QED
    BY <2>1, <2>2, <2>3 DEF HostOut
<1>4. CASE rx_fifo' = rx_fifo
  BY <1>1, <1>2, <1>3, <1>4 DEF CallInv, CallsAnnounced, HostAnnounced
<1>5. CASE rx_fifo' # rx_fifo
  <2> DEFINE p == OutPacket(IF host.stage = "DataOut" THEN "last" ELSE NoCall)
  <2>1. rx_fifo' = Append(rx_fifo, p)
    BY <1>5 DEF HostOut, HostStalled
  <2>2. IsCall(p) => host.stage = "DataOut"
    BY DEF IsCall, OutPacket
  <2>3. p \in Packets
    BY Constants DEF OutPacket, Packets
  <2> HIDE DEF p
  <2>4. /\ Len(rx_fifo) \in Nat /\ Len(rx_fifo') = Len(rx_fifo) + 1
        /\ rx_fifo'[Len(rx_fifo')] = p
        /\ \A i \in 1..Len(rx_fifo) : rx_fifo'[i] = rx_fifo[i]
    BY <2>1, <2>3 DEF TypeOK
  <2> SUFFICES ASSUME NEW i \in 1..Len(rx_fifo'), IsCall(rx_fifo'[i])
               PROVE  IF i = 1 THEN ReadyFor(dev')
                               ELSE Announces(rx_fifo'[i - 1])
    BY <1>2, <1>3 DEF CallInv, CallsAnnounced, HostAnnounced
  <2>5. CASE i \in 1..Len(rx_fifo)
    <3>1. i # 1 => i - 1 \in 1..Len(rx_fifo)
      BY <2>4, <2>5
    <3> QED
      BY <1>1, <2>4, <2>5, <3>1 DEF CallInv, CallsAnnounced
  <2>6. CASE i = Len(rx_fifo')
    <3>1. host.stage = "DataOut"
      BY <2>2, <2>4, <2>6
    <3>2. CASE rx_fifo = <<>>
      <4>1. Len(rx_fifo) = 0 /\ i = 1
        BY <2>4, <2>6, <3>2
      <4> QED
        BY <1>1, <3>1, <3>2, <4>1 DEF CallInv, HostAnnounced
    <3>3. CASE rx_fifo # <<>>
      <4>1. Len(rx_fifo) \in 1..Len(rx_fifo)
        BY <2>4, <3>3 DEF TypeOK
      <4>2. i # 1 /\ i - 1 = Len(rx_fifo)
        BY <2>4, <2>6, <4>1
      <4> QED
        BY <2>4, <3>1, <3>3, <4>1, <4>2 DEF CallInv, HostAnnounced
    <3>4. QED
      BY <3>2, <3>3
  <2>7. QED
    BY <2>4, <2>5, <2>6
<1>6. QED
  BY <1>4, <1>5

LEMMA CallInvStep == TypeOK /\ CallInv /\ [Next]_vars => CallInv'
<1> SUFFICES ASSUME TypeOK, CallInv, [Next]_vars
             PROVE  CallInv'
  OBVIOUS
<1>1. CASE UNCHANGED vars
  BY <1>1 DEF vars, CallInv, CallsAnnounced, HostAnnounced, SetupHandled
<1>2. QED
  BY <1>1, IrqOutCalls, IrqInCalls, IrqRestCalls, HostSetupCalls,
     HostQuietCalls, HostOutCalls DEF Next

LEMMA CallInvInit == Init => CallInv
BY DEF Init, HostAtBoot, CallInv, CallsAnnounced, HostAnnounced, SetupHandled

\* DataHasBuffer: whatever the host gives up and whenever it resets the bus, the
\* interrupt handler reads the data of a call to the start of Report_buf.
THEOREM CallsHaveBuffer == Spec => []DataHasBuffer
<1>1. TypeOK /\ CallInv /\ [Next]_vars => (TypeOK /\ CallInv)'
  BY TypeStep, CallInvStep
<1>2. QED
  BY <1>1, TypeInit, CallInvInit, CallInvImplies, PTL DEF Spec

\* What the device does to its state and address when it handles a request.
Views == [dev_state : {"DEFAULT", "ADDRESSED", "CONFIGURED"}, address : Nat]

After(s, req) ==
    CASE req.kind = "SET_ADDRESS" /\ s.dev_state # "CONFIGURED" ->
           [dev_state |-> IF req.wValue # 0 THEN "ADDRESSED" ELSE "DEFAULT",
            address   |-> req.wValue]
      [] req.kind = "SET_CONFIGURATION" /\ s.dev_state # "DEFAULT" ->
           [dev_state |-> IF req.wValue = 0 THEN "ADDRESSED" ELSE "CONFIGURED",
            address   |-> s.address]
      [] OTHER -> s

\* The requests ahead of the device: the one it has read, then the FIFO's.
Ahead(fifo, setup, j) == IF j = 0 THEN setup ELSE fifo[j].req

\* The device's states and addresses, if it handles these requests in turn.
Course(f, fifo, setup) ==
    /\ f \in [0 .. Len(fifo) + 1 -> Views]
    /\ \A j \in 0 .. Len(fifo) : f[j + 1] = After(f[j], Ahead(fifo, setup, j))

\* It starts where the device is.  When a reset has overtaken a request, the
\* address is not known.
Starts(s, known, overtaken) ==
    /\ s.dev_state = known.dev_state
    /\ ~overtaken => s.address = known.address

\* The device is configured when it comes to a request of the class.
Ready(f, fifo, setup) ==
    \A j \in 0 .. Len(fifo) :
        Ahead(fifo, setup, j).kind \in ClassRequests
            => f[j].dev_state = "CONFIGURED"

\* A transfer that changes the device's state, and what the host h will know when
\* it has the status of its transfer.
Changing(h) == h.stage \in Ongoing /\ h.req.kind \in ChangesState
ToKnow(h)   == IF Changing(h) THEN Acknowledged(h) ELSE h

\* How the state s that the device comes to agrees with what the host knows.
Agrees(s, h) ==
    /\ ToKnow(h).state # "DEFAULT" => s.dev_state # "DEFAULT"
    /\ h.sure \/ Changing(h)
         => /\ ToKnow(h).state = "CONFIGURED" => s.dev_state = "CONFIGURED"
            /\ ~h.overtaken => /\ s.dev_state = ToKnow(h).state
                               /\ s.address = ToKnow(h).address
    /\ ~h.overtaken /\ h.state = "DEFAULT" => s.dev_state # "CONFIGURED"
    /\ ~h.overtaken /\ h.state # "DEFAULT" => s.address = h.address

Foretold(fifo, setup, known, h) ==
    \E f : /\ Course(f, fifo, setup)
           /\ Starts(f[0], known, h.overtaken)
           /\ ~h.overtaken => Ready(f, fifo, setup)
           /\ Agrees(f[Len(fifo) + 1], h)

LEMMA AfterType ==
    ASSUME NEW s \in Views, NEW req \in RequestRecords
    PROVE  After(s, req) \in Views
BY DEF After, Views, RequestRecords

LEMMA AfterNone ==
    ASSUME NEW s
    PROVE  After(s, NoRequest) = s
BY DEF After, NoRequest

LEMMA AfterState ==
    ASSUME NEW s \in Views, NEW t \in Views, NEW req \in RequestRecords,
           NEW b \in BOOLEAN, Starts(s, t, b)
    PROVE  Starts(After(s, req), After(t, req), b)
BY DEF After, Views, RequestRecords, Starts

\* A row of packets.
LEMMA AheadType ==
    ASSUME NEW fifo \in Seq(Packets), NEW setup \in RequestRecords,
           NEW j \in 0 .. Len(fifo)
    PROVE  Ahead(fifo, setup, j) \in RequestRecords
<1>1. j # 0 => j \in 1 .. Len(fifo)
  OBVIOUS
<1>2. j # 0 => fifo[j] \in Packets
  BY <1>1
<1> QED
  BY <1>2 DEF Ahead, Packets

\* The device handles the request it has read.
LEMMA ForetoldHandled ==
    ASSUME NEW fifo \in Seq(Packets), NEW setup \in RequestRecords,
           NEW known \in Views, NEW h \in Hosts,
           Foretold(fifo, setup, known, h)
    PROVE  Foretold(fifo, NoRequest, After(known, setup), h)
<1>1. PICK f : /\ Course(f, fifo, setup)
               /\ Starts(f[0], known, h.overtaken)
               /\ ~h.overtaken => Ready(f, fifo, setup)
               /\ Agrees(f[Len(fifo) + 1], h)
  BY DEF Foretold
<1> DEFINE n == Len(fifo)
           g == [j \in 0 .. n + 1 |-> IF j = 0 THEN f[1] ELSE f[j]]
<1>2. n \in Nat /\ 0 \in 0 .. n /\ 0 \in 0 .. n + 1 /\ 1 \in 0 .. n + 1
      /\ n + 1 \in 0 .. n + 1 /\ n + 1 # 0 /\ 0 + 1 = 1
  OBVIOUS
<1>3. f \in [0 .. n + 1 -> Views]
  BY <1>1 DEF Course
<1>4. f[1] = After(f[0], setup) /\ f[0] \in Views /\ f[1] \in Views
  BY <1>1, <1>2, <1>3 DEF Course, Ahead
<1> HIDE DEF n
<1>5. g \in [0 .. n + 1 -> Views]
  BY <1>3, <1>4
<1>6. ASSUME NEW j \in 0 .. n
      PROVE  g[j + 1] = After(g[j], Ahead(fifo, NoRequest, j))
  <2>1. j \in 0 .. n + 1 /\ j + 1 \in 0 .. n + 1 /\ j + 1 # 0
    BY <1>2
  <2>2. CASE j = 0
    BY <1>2, <2>1, <2>2, AfterNone DEF Ahead
  <2>3. CASE j # 0
    <3>1. g[j] = f[j] /\ g[j + 1] = f[j + 1]
      BY <2>1, <2>3
    <3>2. f[j + 1] = After(f[j], Ahead(fifo, setup, j))
      BY <1>1 DEF Course, n
    <3> QED
      BY <2>3, <3>1, <3>2 DEF Ahead
  <2> QED
    BY <2>2, <2>3
<1>7. Course(g, fifo, NoRequest)
  BY <1>5, <1>6 DEF Course, n
<1>8. Starts(g[0], After(known, setup), h.overtaken)
  <2>1. g[0] = f[1]
    BY <1>2
  <2>2. h.overtaken \in BOOLEAN
    BY DEF Hosts
  <2> QED
    BY <1>1, <1>4, <2>1, <2>2, AfterState
<1>9. Ready(f, fifo, setup) => Ready(g, fifo, NoRequest)
  <2> SUFFICES ASSUME Ready(f, fifo, setup), NEW j \in 0 .. n,
                      Ahead(fifo, NoRequest, j).kind \in ClassRequests
               PROVE  g[j].dev_state = "CONFIGURED"
    BY DEF Ready, n
  <2>1. j # 0
    BY DEF Ahead, NoRequest, ClassRequests
  <2>2. g[j] = f[j] /\ Ahead(fifo, setup, j) = Ahead(fifo, NoRequest, j)
    BY <1>2, <2>1 DEF Ahead
  <2> QED
    BY <2>2 DEF Ready, n
<1>10. g[n + 1] = f[n + 1]
  BY <1>2
<1> HIDE DEF g
<1> QED
  BY <1>1, <1>7, <1>8, <1>9, <1>10 DEF Foretold, n

\* The device reads the next packet.
LEMMA ForetoldRead ==
    ASSUME NEW fifo \in Seq(Packets), fifo # <<>>, NEW known, NEW h,
           Foretold(fifo, NoRequest, known, h)
    PROVE  Foretold(Tail(fifo), Head(fifo).req, known, h)
<1>1. PICK f : /\ Course(f, fifo, NoRequest)
               /\ Starts(f[0], known, h.overtaken)
               /\ ~h.overtaken => Ready(f, fifo, NoRequest)
               /\ Agrees(f[Len(fifo) + 1], h)
  BY DEF Foretold
<1> DEFINE n == Len(fifo)
           m == Len(Tail(fifo))
           g == [j \in 0 .. m + 1 |-> f[j + 1]]
<1>2. n \in Nat /\ m \in Nat /\ m + 1 = n
      /\ \A j \in 1 .. m : Tail(fifo)[j] = fifo[j + 1]
  OBVIOUS
<1>3. Head(fifo) = fifo[1]
  OBVIOUS
<1>4. f \in [0 .. n + 1 -> Views]
      /\ \A j \in 0 .. n : f[j + 1] = After(f[j], Ahead(fifo, NoRequest, j))
  BY <1>1 DEF Course
<1>5. f[1] = f[0]
  <2>1. 0 \in 0 .. n /\ 0 + 1 = 1
    BY <1>2
  <2> QED
    BY <1>4, <2>1, AfterNone DEF Ahead
<1>6. ASSUME NEW j \in 0 .. m
      PROVE  /\ j + 1 \in 0 .. n
             /\ Ahead(Tail(fifo), Head(fifo).req, j) = Ahead(fifo, NoRequest, j + 1)
  <2>1. j + 1 \in 0 .. n /\ j + 1 # 0
    BY <1>2
  <2>2. CASE j = 0
    BY <1>3, <2>1, <2>2 DEF Ahead
  <2>3. CASE j # 0
    <3>1. j \in 1 .. m
      BY <2>3
    <3> QED
      BY <1>2, <2>1, <2>3, <3>1 DEF Ahead
  <2> QED
    BY <2>1, <2>2, <2>3
<1> HIDE DEF n, m
<1>7. g \in [0 .. m + 1 -> Views]
  BY <1>2, <1>4
<1>8. ASSUME NEW j \in 0 .. m
      PROVE  g[j + 1] = After(g[j], Ahead(Tail(fifo), Head(fifo).req, j))
  <2>1. j \in 0 .. m + 1 /\ j + 1 \in 0 .. m + 1
    BY <1>2
  <2>2. g[j] = f[j + 1] /\ g[j + 1] = f[(j + 1) + 1]
    BY <2>1
  <2> QED
    BY <1>4, <1>6, <2>2
<1>9. Course(g, Tail(fifo), Head(fifo).req)
  BY <1>7, <1>8 DEF Course, m
<1>10. g[0] = f[0] /\ g[m + 1] = f[n + 1]
  <2>1. 0 \in 0 .. m + 1 /\ m + 1 \in 0 .. m + 1 /\ 0 + 1 = 1 /\ (m + 1) + 1 = n + 1
    BY <1>2
  <2> QED
    BY <1>5, <2>1
<1>11. Ready(f, fifo, NoRequest) => Ready(g, Tail(fifo), Head(fifo).req)
  <2> SUFFICES ASSUME Ready(f, fifo, NoRequest), NEW j \in 0 .. m,
                      Ahead(Tail(fifo), Head(fifo).req, j).kind \in ClassRequests
               PROVE  g[j].dev_state = "CONFIGURED"
    BY DEF Ready, m
  <2>1. j \in 0 .. m + 1
    BY <1>2
  <2>2. g[j] = f[j + 1]
    BY <2>1
  <2> QED
    BY <1>6, <2>2 DEF Ready, n
<1> HIDE DEF g
<1> QED
  BY <1>1, <1>9, <1>10, <1>11 DEF Foretold, n, m

\* A set of naturals that is not empty has a least member.
LEMMA LeastExists ==
    ASSUME NEW S \in SUBSET Nat, S # {}
    PROVE  \E m \in S : \A i \in S : m <= i
<1> DEFINE Less == {p \in Nat \X Nat : p[1] < p[2]}
<1>1. IsWellFoundedOn(Less, Nat)
  BY NatLessThanWellFounded DEF OpToRel
<1> HIDE DEF Less
<1>2. PICK m \in S : \A i \in S : ~ (<<i, m>> \in Less)
  BY <1>1, WFMin
<1>3. ASSUME NEW i \in S
      PROVE  m <= i
  <2>1. i \in Nat /\ m \in Nat /\ ~ (<<i, m>> \in Less)
    BY <1>2
  <2>2. ~ (i < m)
    BY <2>1 DEF Less
  <2> QED
    BY <2>1, <2>2
<1> QED
  BY <1>3

\* The first part of a course.
CourseTo(f, fifo, setup, s, m) ==
    /\ f \in [0 .. m -> Views] /\ f[0] = s
    /\ \A j \in 0 .. m - 1 : f[j + 1] = After(f[j], Ahead(fifo, setup, j))

\* There is a course from every state: otherwise there would be a shortest one
\* that cannot be continued.
LEMMA CourseExists ==
    ASSUME NEW fifo \in Seq(Packets), NEW setup \in RequestRecords,
           NEW s \in Views
    PROVE  \E f : Course(f, fifo, setup) /\ f[0] = s
<1> DEFINE n   == Len(fifo)
           Bad == {m \in Nat : m <= n + 1 /\ ~ \E f : CourseTo(f, fifo, setup, s, m)}
<1>1. n \in Nat
  OBVIOUS
<1>2. Bad = {}
  <2> SUFFICES ASSUME Bad # {}
               PROVE  FALSE
    OBVIOUS
  <2>1. PICK m \in Bad : \A i \in Bad : m <= i
    <3>1. Bad \in SUBSET Nat
      OBVIOUS
    <3> HIDE DEF Bad
    <3> QED
      BY <3>1, LeastExists
  <2>2. m \in Nat /\ m <= n + 1 /\ ~ \E f : CourseTo(f, fifo, setup, s, m)
    OBVIOUS
  <2> HIDE DEF n
  <2>3. m # 0
    <3> DEFINE g == [j \in 0 .. 0 |-> s]
    <3>1. CourseTo(g, fifo, setup, s, 0)
      BY DEF CourseTo
    <3> QED
      BY <2>2, <3>1
  <2>4. m - 1 \in Nat /\ m - 1 <= n + 1 /\ ~(m <= m - 1)
    BY <1>1, <2>2, <2>3
  <2>5. m - 1 \notin Bad
    <3> HIDE DEF Bad
    <3> QED
      BY <2>1, <2>4
  <2>6. PICK f : CourseTo(f, fifo, setup, s, m - 1)
    BY <2>4, <2>5
  <2> DEFINE g == [j \in 0 .. m |->
                     IF j = m THEN After(f[m - 1], Ahead(fifo, setup, m - 1))
                              ELSE f[j]]
  <2>7. f \in [0 .. m - 1 -> Views] /\ f[0] = s /\ f[m - 1] \in Views
    BY <2>4, <2>6 DEF CourseTo
  <2>8. After(f[m - 1], Ahead(fifo, setup, m - 1)) \in Views
    <3>1. m - 1 \in 0 .. Len(fifo)
      BY <1>1, <2>2, <2>4 DEF n
    <3> QED
      BY <2>7, <3>1, AheadType, AfterType
  <2>9. g \in [0 .. m -> Views]
    <3> SUFFICES ASSUME NEW j \in 0 .. m
                 PROVE  (IF j = m THEN After(f[m - 1], Ahead(fifo, setup, m - 1))
                                  ELSE f[j]) \in Views
      OBVIOUS
    <3>1. j # m => j \in 0 .. m - 1
      BY <2>2
    <3> QED
      BY <2>7, <2>8, <3>1
  <2>10. g[0] = s
    BY <2>2, <2>3, <2>7
  <2>11. ASSUME NEW j \in 0 .. m - 1
         PROVE  g[j + 1] = After(g[j], Ahead(fifo, setup, j))
    <3>1. j \in 0 .. m /\ j # m /\ j + 1 \in 0 .. m
      BY <2>2
    <3>2. g[j] = f[j]
      BY <3>1
    <3>3. CASE j = m - 1
      <4>1. j + 1 = m
        BY <2>2, <3>3
      <4>2. g[j + 1] = After(f[m - 1], Ahead(fifo, setup, m - 1))
        BY <3>1, <4>1
      <4> HIDE DEF g
      <4> QED
        BY <3>2, <3>3, <4>2
    <3>4. CASE j # m - 1
      <4>1. j \in 0 .. (m - 1) - 1 /\ j + 1 # m
        BY <2>2, <3>4
      <4>2. g[j + 1] = f[j + 1]
        BY <3>1, <4>1
      <4> HIDE DEF g
      <4> QED
        BY <2>6, <3>2, <4>1, <4>2 DEF CourseTo
    <3> QED
      BY <3>3, <3>4
  <2> HIDE DEF g
  <2>12. CourseTo(g, fifo, setup, s, m)
    BY <2>9, <2>10, <2>11 DEF CourseTo
  <2> QED
    BY <2>2, <2>12
<1>3. n + 1 \in Nat /\ n + 1 <= n + 1 /\ (n + 1) - 1 = n
  BY <1>1
<1>4. PICK f : CourseTo(f, fifo, setup, s, n + 1)
  BY <1>2, <1>3
<1> QED
  BY <1>3, <1>4 DEF CourseTo, Course

\* A host that has just reset the bus, or is about to.
LEMMA ForetoldAnew ==
    ASSUME NEW fifo \in Seq(Packets), NEW h \in Hosts,
           h.stage \notin Ongoing, h.state = "DEFAULT", h.address = 0,
           h.overtaken \/ \A i \in 1 .. Len(fifo) : fifo[i].req = NoRequest
    PROVE  Foretold(fifo, NoRequest, [dev_state |-> "DEFAULT", address |-> 0], h)
<1> DEFINE s == [dev_state |-> "DEFAULT", address |-> 0]
           n == Len(fifo)
<1>0. s \in Views /\ s.dev_state = "DEFAULT" /\ s.address = 0 /\ n \in Nat
  BY DEF Views
<1> HIDE DEF s
<1>1. CASE h.overtaken
  <2>1. PICK f : Course(f, fifo, NoRequest) /\ f[0] = s
    BY <1>0, Constants, CourseExists
  <2>2. Starts(f[0], s, h.overtaken)
    BY <2>1 DEF Starts
  <2>3. Agrees(f[Len(fifo) + 1], h)
    BY <1>1 DEF Agrees, ToKnow, Changing
  <2> QED
    BY <1>1, <2>1, <2>2, <2>3 DEF Foretold, s
<1>2. CASE ~h.overtaken
  <2> DEFINE f == [j \in 0 .. n + 1 |-> s]
  <2>1. ASSUME NEW j \in 0 .. n
        PROVE  Ahead(fifo, NoRequest, j) = NoRequest
    <3>1. j # 0 => j \in 1 .. n
      OBVIOUS
    <3> QED
      BY <1>2, <3>1 DEF Ahead
  <2>2. Course(f, fifo, NoRequest)
    <3>1. \A j \in 0 .. n : f[j] = s /\ f[j + 1] = s
      BY <1>0
    <3>2. f \in [0 .. n + 1 -> Views]
      BY <1>0
    <3> HIDE DEF f
    <3> QED
      BY <2>1, <3>1, <3>2, AfterNone DEF Course
  <2>3. f[0] = s /\ f[n + 1] = s
    BY <1>0
  <2> HIDE DEF f
  <2>4. Starts(f[0], s, h.overtaken)
    BY <2>3 DEF Starts
  <2>5. Ready(f, fifo, NoRequest)
    BY <2>1 DEF Ready, NoRequest, ClassRequests
  <2>6. Agrees(f[n + 1], h)
    BY <1>0, <2>3 DEF Agrees, ToKnow, Changing
  <2> QED
    BY <1>2, <2>2, <2>4, <2>5, <2>6 DEF Foretold, s
<1> QED
  BY <1>1, <1>2

\* The device, and the host, as far as a prediction looks at them.
LEMMA ForetoldFrame ==
    ASSUME NEW fifo \in Seq(Packets), NEW setup, NEW known, NEW known2,
           NEW h, NEW h2,
           Foretold(fifo, setup, known, h),
           known2.dev_state = known.dev_state,
           ~h.overtaken => known2.address = known.address,
           h2.overtaken = h.overtaken,
           \A s \in Views : Agrees(s, h) => Agrees(s, h2)
    PROVE  Foretold(fifo, setup, known2, h2)
<1>1. PICK f : /\ Course(f, fifo, setup)
               /\ Starts(f[0], known, h.overtaken)
               /\ ~h.overtaken => Ready(f, fifo, setup)
               /\ Agrees(f[Len(fifo) + 1], h)
  BY DEF Foretold
<1>2. Len(fifo) + 1 \in 0 .. Len(fifo) + 1
  OBVIOUS
<1>3. f[Len(fifo) + 1] \in Views
  BY <1>1, <1>2 DEF Course
<1>4. Starts(f[0], known2, h2.overtaken)
  BY <1>1 DEF Starts
<1> QED
  BY <1>1, <1>3, <1>4 DEF Foretold

\* A packet comes to the end of the FIFO.
LEMMA ForetoldSent ==
    ASSUME NEW fifo \in Seq(Packets), NEW setup \in RequestRecords, NEW known,
           NEW h, NEW h2, NEW fifo2 \in Seq(Packets), NEW req \in RequestRecords,
           Foretold(fifo, setup, known, h),
           Len(fifo2) = Len(fifo) + 1,
           \A i \in 1 .. Len(fifo) : fifo2[i].req = fifo[i].req,
           fifo2[Len(fifo2)].req = req,
           h2.overtaken = h.overtaken,
           \A s \in Views : Agrees(s, h) => Agrees(After(s, req), h2),
           \A s \in Views : Agrees(s, h) /\ req.kind \in ClassRequests
                              => s.dev_state = "CONFIGURED"
    PROVE  Foretold(fifo2, setup, known, h2)
<1>1. PICK f : /\ Course(f, fifo, setup)
               /\ Starts(f[0], known, h.overtaken)
               /\ ~h.overtaken => Ready(f, fifo, setup)
               /\ Agrees(f[Len(fifo) + 1], h)
  BY DEF Foretold
<1> DEFINE n == Len(fifo)
           g == [j \in 0 .. n + 2 |-> IF j = n + 2 THEN After(f[n + 1], req)
                                                   ELSE f[j]]
<1>2. n \in Nat /\ Len(fifo2) = n + 1 /\ (n + 1) + 1 = n + 2
      /\ n + 1 \in 0 .. n + 1 /\ n + 1 \in 1 .. Len(fifo2)
  OBVIOUS
<1>3. f \in [0 .. n + 1 -> Views]
      /\ \A j \in 0 .. n : f[j + 1] = After(f[j], Ahead(fifo, setup, j))
  BY <1>1 DEF Course
<1>4. f[n + 1] \in Views /\ Agrees(f[n + 1], h)
  BY <1>1, <1>2, <1>3
<1>5. /\ \A j \in 0 .. n : Ahead(fifo2, setup, j) = Ahead(fifo, setup, j)
      /\ Ahead(fifo2, setup, n + 1) = req
  BY <1>2 DEF Ahead
<1> HIDE DEF n
<1>6. After(f[n + 1], req) \in Views
  BY <1>4, AfterType
<1>7. g \in [0 .. n + 2 -> Views]
  <2> SUFFICES ASSUME NEW j \in 0 .. n + 2
               PROVE  (IF j = n + 2 THEN After(f[n + 1], req) ELSE f[j]) \in Views
    OBVIOUS
  <2>1. j # n + 2 => j \in 0 .. n + 1
    BY <1>2
  <2> QED
    BY <1>3, <1>6, <2>1
<1>8. /\ \A j \in 0 .. n + 1 : g[j] = f[j]
      /\ g[n + 2] = After(f[n + 1], req)
  BY <1>2
<1> HIDE DEF g
<1>9. ASSUME NEW j \in 0 .. n + 1
      PROVE  g[j + 1] = After(g[j], Ahead(fifo2, setup, j))
  <2>1. CASE j = n + 1
    BY <1>2, <1>5, <1>8, <2>1
  <2>2. CASE j # n + 1
    <3>1. j \in 0 .. n /\ j + 1 \in 0 .. n + 1
      BY <1>2, <2>2
    <3> QED
      BY <1>3, <1>5, <1>8, <3>1
  <2> QED
    BY <2>1, <2>2
<1>10. Course(g, fifo2, setup)
  BY <1>2, <1>7, <1>9 DEF Course
<1>11. Starts(g[0], known, h2.overtaken)
  <2>1. g[0] = f[0]
    BY <1>2, <1>8
  <2> QED
    BY <1>1, <2>1
<1>12. Ready(f, fifo, setup) => Ready(g, fifo2, setup)
  <2> SUFFICES ASSUME Ready(f, fifo, setup), NEW j \in 0 .. n + 1,
                      Ahead(fifo2, setup, j).kind \in ClassRequests
               PROVE  g[j].dev_state = "CONFIGURED"
    BY <1>2 DEF Ready
  <2>1. CASE j = n + 1
    BY <1>4, <1>5, <1>8, <2>1
  <2>2. CASE j # n + 1
    <3>1. j \in 0 .. n
      BY <1>2, <2>2
    <3>2. Ahead(fifo, setup, j).kind \in ClassRequests
      BY <1>5, <3>1
    <3> QED
      BY <1>8, <3>1, <3>2 DEF Ready, n
  <2> QED
    BY <2>1, <2>2
<1>13. Agrees(g[Len(fifo2) + 1], h2)
  <2>1. g[Len(fifo2) + 1] = After(f[n + 1], req)
    BY <1>2, <1>8
  <2> QED
    BY <1>4, <2>1
<1> QED
  BY <1>1, <1>10, <1>11, <1>12, <1>13 DEF Foretold

-----------------------------------------------------------------------------
(***************************************************************************)
(* The host's steps, as far as what it knows is concerned.                 *)
(***************************************************************************)
\* A host addresses a device that has no address, and configures one that has.
\* A request without data is in its status stage.
KeepsOrder(h) ==
    /\ h.state = "DEFAULT" <=> h.address = 0
    /\ h.stage = "Reset" => h.state = "DEFAULT"
    /\ Changing(h) => /\ h.stage = "StatusIn"
                      /\ h.req.kind = "SET_ADDRESS" <=> h.state = "DEFAULT"

\* A step of the host that is not about the device's state or address.
SameKnowledge(h, h2) ==
    /\ h2.state = h.state /\ h2.address = h.address
    /\ h2.sure = h.sure /\ h2.overtaken = h.overtaken
    /\ Changing(h2) <=> Changing(h)
    /\ Changing(h) => h2.req = h.req /\ h2.stage = h.stage

LEMMA Acknowledges ==
    ASSUME NEW h \in Hosts, Changing(h)
    PROVE  /\ Acknowledged(h).stage = h.stage
           /\ Acknowledged(h).req = h.req
           /\ Acknowledged(h).overtaken = h.overtaken
           /\ h.req.kind = "SET_ADDRESS" =>
                /\ Acknowledged(h).address = h.req.wValue
                /\ Acknowledged(h).state = IF h.req.wValue = 0 THEN "DEFAULT"
                                                               ELSE "ADDRESSED"
                /\ Acknowledged(h).sure = h.sure
           /\ h.req.kind # "SET_ADDRESS" =>
                /\ h.req.kind = "SET_CONFIGURATION"
                /\ Acknowledged(h).address = h.address
                /\ Acknowledged(h).state = IF h.req.wValue = 0 THEN "ADDRESSED"
                                                               ELSE "CONFIGURED"
                /\ Acknowledged(h).sure = TRUE
BY DEF Acknowledged, Changing, ChangesState, Hosts

LEMMA SameAgrees ==
    ASSUME NEW h \in Hosts, NEW h2 \in Hosts, SameKnowledge(h, h2), KeepsOrder(h)
    PROVE  /\ \A s \in Views : Agrees(s, h) => Agrees(s, h2)
           /\ h2.stage # "Reset" \/ h.stage = "Reset" => KeepsOrder(h2)
<1>1. /\ ToKnow(h2).state = ToKnow(h).state
      /\ ToKnow(h2).address = ToKnow(h).address
  <2>1. CASE Changing(h)
    <3>1. Changing(h2)
      BY <2>1 DEF SameKnowledge
    <3>2. h2.req = h.req /\ h2.address = h.address
      BY <2>1 DEF SameKnowledge
    <3>3. ToKnow(h) = Acknowledged(h) /\ ToKnow(h2) = Acknowledged(h2)
      BY <2>1, <3>1 DEF ToKnow
    <3>4. CASE h.req.kind = "SET_ADDRESS"
      BY <2>1, <3>1, <3>2, <3>3, <3>4, Acknowledges
    <3>5. CASE h.req.kind # "SET_ADDRESS"
      <4>1. /\ Acknowledged(h).address = h.address
            /\ Acknowledged(h).state = IF h.req.wValue = 0 THEN "ADDRESSED"
                                                           ELSE "CONFIGURED"
        BY <2>1, <3>5, Acknowledges
      <4>2. /\ Acknowledged(h2).address = h2.address
            /\ Acknowledged(h2).state = IF h2.req.wValue = 0 THEN "ADDRESSED"
                                                             ELSE "CONFIGURED"
        BY <3>1, <3>2, <3>5, Acknowledges
      <4> QED
        BY <3>2, <3>3, <4>1, <4>2
    <3> QED
      BY <3>4, <3>5
  <2>2. CASE ~Changing(h)
    BY <2>2 DEF SameKnowledge, ToKnow
  <2> QED
    BY <2>1, <2>2
<1>2. ASSUME NEW s \in Views, Agrees(s, h)
      PROVE  Agrees(s, h2)
  BY <1>1, <1>2 DEF Agrees, SameKnowledge
<1>3. h2.stage # "Reset" \/ h.stage = "Reset" => KeepsOrder(h2)
  BY DEF SameKnowledge, KeepsOrder
<1> QED
  BY <1>2, <1>3

LEMMA AcknowledgedAgrees ==
    ASSUME NEW h \in Hosts, KeepsOrder(h), h.stage = "StatusIn",
           NEW h2 \in Hosts, h2 = Over(Acknowledged(h), "Done")
    PROVE  /\ \A s \in Views : Agrees(s, h) => Agrees(s, h2)
           /\ KeepsOrder(h2) /\ h2.overtaken = h.overtaken
<1>1. /\ Acknowledged(h) \in Hosts
  <2>1. h.req.wValue \in Nat
    BY DEF Hosts, RequestRecords
  <2> QED
    BY <2>1 DEF Acknowledged, Hosts
<1>2. /\ h2.stage = "Done" /\ ~Changing(h2) /\ ToKnow(h2) = h2
      /\ h2.state = Acknowledged(h).state /\ h2.address = Acknowledged(h).address
      /\ h2.sure = Acknowledged(h).sure /\ h2.overtaken = Acknowledged(h).overtaken
  BY <1>1 DEF Over, Hosts, Changing, Ongoing, ToKnow
<1>3. CASE Changing(h)
  <2>1. ToKnow(h) = Acknowledged(h)
    BY <1>3 DEF ToKnow
  <2>2. ASSUME NEW s \in Views, Agrees(s, h)
        PROVE  Agrees(s, h2)
    <3>1. CASE h.req.kind = "SET_ADDRESS"
      BY <1>2, <1>3, <2>1, <2>2, <3>1, Acknowledges DEF Agrees, KeepsOrder
    <3>2. CASE h.req.kind # "SET_ADDRESS"
      <4>1. /\ h2.address = h.address /\ h2.overtaken = h.overtaken
            /\ h2.state = Acknowledged(h).state
            /\ h2.state \in {"ADDRESSED", "CONFIGURED"}
        BY <1>2, <1>3, <3>2, Acknowledges
      <4>2. h.state # "DEFAULT"
        BY <1>3, <3>2 DEF KeepsOrder
      <4> QED
        BY <1>2, <1>3, <2>1, <2>2, <4>1, <4>2 DEF Agrees
    <3> QED
      BY <3>1, <3>2
  <2>3. KeepsOrder(h2)
    <3>1. CASE h.req.kind = "SET_ADDRESS"
      BY <1>2, <1>3, <3>1, Acknowledges DEF KeepsOrder
    <3>2. CASE h.req.kind # "SET_ADDRESS"
      BY <1>2, <1>3, <3>2, Acknowledges DEF KeepsOrder
    <3> QED
      BY <3>1, <3>2
  <2> QED
    BY <1>2, <1>3, <2>2, <2>3, Acknowledges
<1>4. CASE ~Changing(h)
  <2>1. Acknowledged(h) = h
    BY <1>4 DEF Changing, ChangesState, Acknowledged, Ongoing
  <2>2. SameKnowledge(h, h2)
    BY <1>2, <1>4, <2>1 DEF SameKnowledge
  <2> QED
    BY <1>2, <2>1, <2>2, SameAgrees
<1> QED
  BY <1>3, <1>4

LEMMA StalledAgrees ==
    ASSUME NEW h \in Hosts, KeepsOrder(h), h.stage \in Ongoing,
           NEW h2 \in Hosts,
           h2 = [Over(h, "Stalled") EXCEPT
                    !.sure = h.sure /\ h.req.kind \notin ChangesState]
    PROVE  /\ \A s \in Views : Agrees(s, h) => Agrees(s, h2)
           /\ KeepsOrder(h2) /\ h2.overtaken = h.overtaken
<1>1. /\ h2.stage = "Stalled" /\ ~Changing(h2) /\ ToKnow(h2) = h2
      /\ h2.state = h.state /\ h2.address = h.address
      /\ h2.sure <=> h.sure /\ ~Changing(h)
      /\ h2.overtaken = h.overtaken
  BY DEF Over, Hosts, Changing, Ongoing, ToKnow
<1>2. ASSUME NEW s \in Views, Agrees(s, h)
      PROVE  Agrees(s, h2)
  <2>1. CASE Changing(h)
    <3>1. ToKnow(h) = Acknowledged(h)
      BY <2>1 DEF ToKnow
    <3>2. CASE h.req.kind = "SET_ADDRESS"
      BY <1>1, <1>2, <2>1, <3>2 DEF Agrees, KeepsOrder
    <3>3. CASE h.req.kind # "SET_ADDRESS"
      BY <1>1, <1>2, <2>1, <3>1, <3>3, Acknowledges DEF Agrees, KeepsOrder
    <3> QED
      BY <3>2, <3>3
  <2>2. CASE ~Changing(h)
    BY <1>1, <1>2, <2>2 DEF Agrees, ToKnow
  <2> QED
    BY <2>1, <2>2
<1>3. KeepsOrder(h2)
  BY <1>1 DEF KeepsOrder
<1> QED
  BY <1>1, <1>2, <1>3

\* The host begins another transfer: what it knew is what Legal looks at.
Begins(h, req, h2) ==
    /\ h2.stage = FirstStage(req.kind) /\ h2.req = req
    /\ h2.state = h.state /\ h2.address = h.address
    /\ h2.overtaken = h.overtaken
    /\ h2.sure <=> h.sure /\ ~Changing(h)

LEMMA BeginsAgrees ==
    ASSUME NEW h \in Hosts, KeepsOrder(h), NEW req \in RequestRecords,
           NEW h2 \in Hosts, Begins(h, req, h2),
           ~(Changing(h) /\ h.req.kind = "SET_ADDRESS"),
           req.kind = "SET_ADDRESS" => h.state = "DEFAULT",
           req.kind = "SET_CONFIGURATION" => h.state # "DEFAULT"
    PROVE  /\ \A s \in Views : Agrees(s, h) => Agrees(After(s, req), h2)
           /\ KeepsOrder(h2)
<1>1. /\ h.state # "DEFAULT" => ToKnow(h).state # "DEFAULT"
      /\ ~Changing(h) => ToKnow(h) = h
  BY Acknowledges DEF ToKnow
<1>2. h2.stage \in Ongoing /\ h2.stage # "Reset"
  BY DEF Begins, FirstStage, Ongoing
<1>3. CASE req.kind = "SET_ADDRESS"
  <2>1. "SET_ADDRESS" \notin Reads
    BY ControlAssumption DEF OtherKinds
  <2>2. h2.req = req /\ h2.stage = "StatusIn" /\ Changing(h2) /\ ~Changing(h)
    BY <1>2, <1>3, <2>1 DEF Begins, Changing, ChangesState, FirstStage, KeepsOrder
  <2>3. /\ ToKnow(h2).address = req.wValue
        /\ ToKnow(h2).state = IF req.wValue = 0 THEN "DEFAULT" ELSE "ADDRESSED"
    BY <1>3, <2>2, Acknowledges DEF ToKnow
  <2>4. ASSUME NEW s \in Views, Agrees(s, h)
        PROVE  Agrees(After(s, req), h2)
    BY <1>3, <2>3, <2>4 DEF Agrees, Begins, After, Views
  <2>5. KeepsOrder(h2)
    BY <1>3, <2>2 DEF KeepsOrder, Begins
  <2> QED
    BY <2>4, <2>5
<1>4. CASE req.kind = "SET_CONFIGURATION"
  <2>1. "SET_CONFIGURATION" \notin Reads
    BY ControlAssumption DEF OtherKinds
  <2>2. h2.req = req /\ h2.stage = "StatusIn" /\ Changing(h2)
    BY <1>2, <1>4, <2>1 DEF Begins, Changing, ChangesState, FirstStage
  <2>3. /\ ToKnow(h2).address = h.address
        /\ ToKnow(h2).state = IF req.wValue = 0 THEN "ADDRESSED" ELSE "CONFIGURED"
    BY <1>4, <2>2, Acknowledges DEF ToKnow, Begins
  <2>4. ASSUME NEW s \in Views, Agrees(s, h)
        PROVE  Agrees(After(s, req), h2)
    <3>1. s.dev_state # "DEFAULT"
      BY <1>1, <1>4, <2>4 DEF Agrees
    <3>2. /\ After(s, req).dev_state = IF req.wValue = 0 THEN "ADDRESSED"
                                                         ELSE "CONFIGURED"
          /\ After(s, req).address = s.address
      BY <1>4, <3>1 DEF After
    <3>3. ~h.overtaken => s.address = h.address
      BY <1>4, <2>4 DEF Agrees
    <3> QED
      BY <1>4, <2>3, <3>2, <3>3 DEF Agrees, Begins
  <2>5. KeepsOrder(h2)
    BY <1>4, <2>2 DEF KeepsOrder, Begins
  <2> QED
    BY <2>4, <2>5
<1>5. CASE req.kind \notin ChangesState
  <2>1. ~Changing(h2) /\ ToKnow(h2) = h2
    BY <1>5 DEF Changing, Begins, ToKnow
  <2>2. \A s : After(s, req) = s
    BY <1>5 DEF After, ChangesState
  <2>3. ASSUME NEW s \in Views, Agrees(s, h)
        PROVE  Agrees(s, h2)
    BY <1>1, <2>1, <2>3 DEF Agrees, Begins
  <2>4. KeepsOrder(h2)
    BY <1>2, <2>1 DEF KeepsOrder, Begins
  <2> QED
    BY <2>2, <2>3, <2>4
<1> QED
  BY <1>3, <1>4, <1>5 DEF ChangesState

-----------------------------------------------------------------------------
(***************************************************************************)
(* The device's steps, as far as its state and address are concerned.      *)
(***************************************************************************)
View(d) == [dev_state |-> d.dev_state, address |-> d.address]

\* A step of the device that is not about its state.
SameView(d, e) == /\ e.dev_state = d.dev_state /\ e.address = d.address
                  /\ e.enumdne = d.enumdne /\ e.usbrst = d.usbrst

LEMMA ViewType == \A d \in Devices : View(d) \in Views
BY DEF View, Views, Devices

LEMMA TransmitView ==
    ASSUME NEW d \in Devices, NEW data \in ToSend
    PROVE  /\ SameView(d, Transmit(d, data))
           /\ Transmit(d, data).Setup = d.Setup
BY DEF Transmit, SameView, Devices

LEMMA ReceiveView ==
    ASSUME NEW d \in Devices, NEW buf
    PROVE  /\ SameView(d, PrepareReceive(d, buf))
           /\ PrepareReceive(d, buf).Setup = d.Setup
BY DEF PrepareReceive, SameView, Devices

LEMMA StallView ==
    ASSUME NEW d \in Devices
    PROVE  /\ SameView(d, StallIn(d)) /\ StallIn(d).Setup = d.Setup
           /\ SameView(d, StallOut(d)) /\ StallOut(d).Setup = d.Setup
           /\ SameView(d, CtlError(d)) /\ CtlError(d).Setup = d.Setup
<1>1. \A e \in Devices : SameView(e, StallIn(e)) /\ StallIn(e).Setup = e.Setup
  BY DEF StallIn, SameView, Devices
<1>2. \A e \in Devices : SameView(e, StallOut(e)) /\ StallOut(e).Setup = e.Setup
  BY DEF StallOut, SameView, Devices
<1>3. StallIn(d) \in Devices
  BY StallType
<1>4. SameView(StallIn(d), CtlError(d)) /\ CtlError(d).Setup = StallIn(d).Setup
  BY <1>2, <1>3 DEF CtlError
<1> QED
  BY <1>1, <1>2, <1>4 DEF SameView

LEMMA StageView ==
    ASSUME NEW d \in Devices, NEW n \in Nat
    PROVE  /\ \A of \in Kinds : SameView(d, CtlSendData(d, of, n))
                                /\ CtlSendData(d, of, n).Setup = d.Setup
           /\ SameView(d, CtlSendStatus(d)) /\ CtlSendStatus(d).Setup = d.Setup
           /\ SameView(d, CtlPrepareRx(d, n)) /\ CtlPrepareRx(d, n).Setup = d.Setup
           /\ SameView(d, CtlReceiveStatus(d)) /\ CtlReceiveStatus(d).Setup = d.Setup
<1>1. \A stage \in Stages : [d EXCEPT !.ep0 = stage] \in Devices
                            /\ SameView(d, [d EXCEPT !.ep0 = stage])
                            /\ [d EXCEPT !.ep0 = stage].Setup = d.Setup
  BY DEF Devices, SameView
<1>2. ASSUME NEW of \in Kinds
      PROVE  SameView(d, CtlSendData(d, of, n)) /\ CtlSendData(d, of, n).Setup = d.Setup
  <2> DEFINE stage == [state |-> "DATA_IN", asked |-> d.ep0.asked,
                       total |-> n, rem |-> n]
             data  == [of |-> of, off |-> 0, len |-> n]
             e     == [d EXCEPT !.ep0 = stage]
  <2>1. stage \in Stages
    BY DEF Stages, Devices
  <2>2. data \in ToSend
    BY DEF ToSend
  <2>3. e \in Devices /\ SameView(d, e) /\ e.Setup = d.Setup
    BY <1>1, <2>1
  <2>4. CtlSendData(d, of, n) = Transmit(e, data)
    BY DEF CtlSendData
  <2> HIDE DEF data, e
  <2> QED
    BY <2>2, <2>3, <2>4, TransmitView DEF SameView
<1>3. SameView(d, CtlSendStatus(d)) /\ CtlSendStatus(d).Setup = d.Setup
  <2> DEFINE e == [d EXCEPT !.ep0 = Ep0("STATUS_IN")]
  <2>1. e \in Devices /\ SameView(d, e) /\ e.Setup = d.Setup
    BY <1>1, Constants
  <2>2. CtlSendStatus(d) = Transmit(e, NoData) /\ NoData \in ToSend
    BY Constants DEF CtlSendStatus
  <2> HIDE DEF e
  <2> QED
    BY <2>1, <2>2, TransmitView DEF SameView
<1>4. SameView(d, CtlPrepareRx(d, n)) /\ CtlPrepareRx(d, n).Setup = d.Setup
  <2>1. [Ep0("DATA_OUT") EXCEPT !.rem = n] \in Stages
    BY DEF Ep0, Stages
  <2> QED
    BY <1>1, <2>1, ReceiveView DEF CtlPrepareRx, SameView
<1>5. SameView(d, CtlReceiveStatus(d)) /\ CtlReceiveStatus(d).Setup = d.Setup
  <2> DEFINE e == [d EXCEPT !.ep0 = Ep0("STATUS_OUT")]
  <2>1. e \in Devices /\ SameView(d, e) /\ e.Setup = d.Setup
    BY <1>1, Constants
  <2>2. CtlReceiveStatus(d) = PrepareReceive(e, "NULL")
    BY DEF CtlReceiveStatus
  <2> HIDE DEF e
  <2> QED
    BY <2>1, <2>2, ReceiveView DEF SameView
<1> QED
  BY <1>2, <1>3, <1>4, <1>5

LEMMA FillView ==
    ASSUME NEW d \in Devices
    PROVE  SameView(d, WriteEmptyTxFifo(d)) /\ WriteEmptyTxFifo(d).Setup = d.Setup
BY DEF WriteEmptyTxFifo, SameView, Devices

LEMMA DataInView ==
    ASSUME NEW d \in Devices
    PROVE  SameView(d, DataInStage(d)) /\ DataInStage(d).Setup = d.Setup
BY DEF DataInStage, PrepareReceive, Transmit, CtlReceiveStatus, StallIn,
       SameView, Devices

LEMMA DataOutView ==
    ASSUME NEW d \in Devices
    PROVE  SameView(d, DataOutStage(d)) /\ DataOutStage(d).Setup = d.Setup
<1>1. ASSUME NEW e \in Devices
      PROVE  SameView(e, CtlSendStatus(e)) /\ CtlSendStatus(e).Setup = e.Setup
  BY StageView
<1>2. RxReady(d) \in Devices /\ SameView(d, RxReady(d)) /\ RxReady(d).Setup = d.Setup
  BY DEF RxReady, SameView, Devices, NoCall
<1>3. CASE d.ep0.state = "DATA_OUT" /\ d.ep0.rem > MaxPacket
  <2>1. ~(d.ep0.rem <= MaxPacket)
    BY <1>3, ControlAssumption DEF Devices, Stages
  <2> QED
    BY <1>3, <2>1 DEF DataOutStage, PrepareReceive, SameView, Devices
<1>4. CASE d.ep0.state = "DATA_OUT" /\ d.ep0.rem <= MaxPacket
  <2>1. ~(d.ep0.rem > MaxPacket)
    BY <1>4, ControlAssumption DEF Devices, Stages
  <2>2. \/ DataOutStage(d) = CtlSendStatus(RxReady(d))
        \/ DataOutStage(d) = CtlSendStatus(d)
    BY <1>4, <2>1 DEF DataOutStage
  <2> QED
    BY <1>1, <1>2, <2>2 DEF SameView
<1>5. CASE d.ep0.state # "DATA_OUT"
  BY <1>5 DEF DataOutStage, StallOut, SameView, Devices
<1>6. d.ep0.rem > MaxPacket \/ d.ep0.rem <= MaxPacket
  BY ControlAssumption DEF Devices, Stages
<1> QED
  BY <1>3, <1>4, <1>5, <1>6

\* The device handles a request.
LEMMA SetupView ==
    ASSUME NEW d \in Devices
    PROVE  /\ View(SetupStage(d)) = After(View(d), d.Setup)
           /\ SetupStage(d).Setup = NoRequest
           /\ SetupStage(d).enumdne = d.enumdne
           /\ SetupStage(d).usbrst = d.usbrst
<1> DEFINE req   == d.Setup
           stage == [Ep0("SETUP") EXCEPT !.asked = req.wLength]
           e     == [d EXCEPT !.Setup = NoRequest, !.ep0 = stage]
           f     == SetupStage(d)
<1>1. /\ req.kind \in Kinds /\ req.wValue \in Nat /\ req.wLength \in Nat
      /\ req \in RequestRecords
  BY DEF Devices, RequestRecords
<1>2. stage \in Stages
  BY <1>1 DEF Ep0, Stages
<1>3. e \in Devices /\ e.Setup = NoRequest /\ SameView(d, e)
  BY <1>2, Constants DEF Devices, SameView
<1>4. f = CASE req.kind \in Reads             -> AnswerRead(e, req)
            [] req.kind = "SET_REPORT"        -> SetReport(e, req)
            [] req.kind = "SET_IDLE"          -> CtlSendStatus(e)
            [] req.kind = "SET_ADDRESS"       -> SetAddress(e, req)
            [] req.kind \in {"SET_CONFIGURATION", "UNKNOWN_CONFIGURATION"} ->
                   SetConfig(e, req)
            [] req.kind = "SET_FEATURE"       -> e
            [] OTHER                          -> CtlError(e)
  BY DEF SetupStage
<1>5. Reads \cap OtherKinds = {}
  BY ControlAssumption
<1> HIDE DEF e, f, req
<1>6. ASSUME SameView(e, f), f.Setup = e.Setup, req.kind \notin ChangesState
      PROVE  /\ View(f) = After(View(d), req) /\ f.Setup = NoRequest
             /\ f.enumdne = d.enumdne /\ f.usbrst = d.usbrst
  BY <1>3, <1>6 DEF SameView, After, View, ChangesState
<1>7. \A s \in {"DEFAULT", "ADDRESSED", "CONFIGURED"}, a \in Nat :
        [e EXCEPT !.address = a, !.dev_state = s] \in Devices
  BY <1>3 DEF Devices
<1>8. CASE req.kind \in Reads
  <2>1. f = AnswerRead(e, req)
    BY <1>4, <1>5, <1>8 DEF OtherKinds
  <2>2. MinOf(DataLen[req.kind], req.wLength) \in Nat
    <3>1. DataLen[req.kind] \in Nat
      BY <1>8, ControlAssumption DEF Reads
    <3> QED
      BY <1>1, <3>1, MinOfType
  <2>3. SameView(e, f) /\ f.Setup = e.Setup
    BY <1>1, <1>3, <2>1, <2>2, StageView DEF AnswerRead
  <2>4. req.kind \notin ChangesState
    BY <1>5, <1>8 DEF OtherKinds, ChangesState
  <2> QED
    BY <1>6, <2>3, <2>4 DEF f, req
<1>9. CASE req.kind = "SET_REPORT"
  <2>1. f = SetReport(e, req)
    BY <1>4, <1>5, <1>9 DEF OtherKinds
  <2> DEFINE g == [e EXCEPT !.IsReportAvailable = TRUE]
  <2>2. g \in Devices /\ SameView(e, g) /\ g.Setup = e.Setup
    BY <1>3 DEF Devices, SameView
  <2>3. f = CtlPrepareRx(g, req.wLength)
    BY <2>1 DEF SetReport
  <2> HIDE DEF g
  <2>4. SameView(e, f) /\ f.Setup = e.Setup
    BY <1>1, <2>2, <2>3, StageView DEF SameView
  <2> QED
    BY <1>6, <1>9, <2>4 DEF f, req, ChangesState
<1>10. CASE req.kind = "SET_IDLE"
  <2>1. f = CtlSendStatus(e)
    BY <1>4, <1>5, <1>10 DEF OtherKinds
  <2> QED
    BY <1>3, <1>6, <1>10, <2>1, StageView DEF f, req, ChangesState
<1>11. CASE req.kind = "SET_ADDRESS"
  <2>1. f = SetAddress(e, req)
    BY <1>4, <1>5, <1>11 DEF OtherKinds
  <2>2. CASE e.dev_state = "CONFIGURED"
    <3>1. f = CtlError(e)
      BY <2>1, <2>2 DEF SetAddress
    <3> QED
      BY <1>3, <1>11, <2>2, <3>1, StallView DEF SameView, After, View, f, req
  <2>3. CASE e.dev_state # "CONFIGURED"
    <3> DEFINE s == IF req.wValue # 0 THEN "ADDRESSED" ELSE "DEFAULT"
               g == [e EXCEPT !.address = req.wValue, !.dev_state = s]
    <3>1. f = CtlSendStatus(g)
      BY <2>1, <2>3 DEF SetAddress
    <3>2. /\ g \in Devices /\ g.dev_state = s /\ g.address = req.wValue
          /\ g.Setup = e.Setup /\ g.enumdne = e.enumdne /\ g.usbrst = e.usbrst
      <4>1. s \in {"DEFAULT", "ADDRESSED", "CONFIGURED"}
        OBVIOUS
      <4>2. g \in Devices
        BY <1>1, <1>7, <4>1
      <4> HIDE DEF s
      <4> QED
        BY <1>3, <4>2 DEF Devices
    <3> HIDE DEF g
    <3> QED
      BY <1>3, <1>11, <2>3, <3>1, <3>2, StageView
         DEF SameView, After, View, f, req
  <2> QED
    BY <2>2, <2>3
<1>12. CASE req.kind = "SET_CONFIGURATION"
  <2>1. f = SetConfig(e, req)
    BY <1>4, <1>5, <1>12 DEF OtherKinds
  <2>2. e.dev_state = d.dev_state /\ e.address = d.address
        /\ e.dev_state \in {"DEFAULT", "ADDRESSED", "CONFIGURED"}
    BY <1>3 DEF SameView, Devices
  <2> DEFINE s == IF req.wValue = 0 THEN "ADDRESSED" ELSE "CONFIGURED"
             g == [e EXCEPT !.dev_state = s]
  <2>3. /\ g \in Devices /\ g.dev_state = s /\ g.address = e.address
        /\ g.Setup = e.Setup /\ g.enumdne = e.enumdne /\ g.usbrst = e.usbrst
        /\ e.dev_state = s => g = e
    BY <1>3 DEF Devices
  <2>4. CASE e.dev_state = "DEFAULT"
    <3>1. f = CtlError(e)
      BY <2>1, <2>4 DEF SetConfig
    <3> QED
      BY <1>3, <1>12, <2>4, <3>1, StallView DEF SameView, After, View, f, req
  <2>5. CASE e.dev_state # "DEFAULT"
    <3>1. f = CtlSendStatus(g)
      BY <1>12, <2>1, <2>2, <2>3, <2>5 DEF SetConfig
    <3> HIDE DEF g
    <3> QED
      BY <1>3, <1>12, <2>2, <2>3, <2>5, <3>1, StageView
         DEF SameView, After, View, f, req
  <2> QED
    BY <2>4, <2>5
<1>13. CASE req.kind = "SET_FEATURE"
  <2>1. f = e
    BY <1>4, <1>5, <1>13 DEF OtherKinds
  <2> QED
    BY <1>6, <1>13, <2>1 DEF SameView, f, req, ChangesState
<1>14. CASE req.kind \in {"UNSUPPORTED", "UNKNOWN_CONFIGURATION", "none"}
  <2>1. f = CtlError(e)
    BY <1>4, <1>5, <1>14 DEF OtherKinds, SetConfig
  <2> QED
    BY <1>3, <1>6, <1>14, <2>1, StallView DEF f, req, ChangesState
<1> QED
  BY <1>1, <1>8, <1>9, <1>10, <1>11, <1>12, <1>13, <1>14 DEF Kinds, OtherKinds

-----------------------------------------------------------------------------
(***************************************************************************)
(* The device gets to where the host believes it to be.  The invariant     *)
(* foretells the states the device will go through: it handles the request *)
(* it has read, then those in the receive FIFO, and ends where the host    *)
(* believes it is.  A device that is being reset starts this course in the *)
(* default state, whatever its fields still hold.                          *)
(***************************************************************************)
AtReset == [dev_state |-> "DEFAULT", address |-> 0]

\* The bus is being reset, or the device has not learned yet that it was: the
\* state it has, and the request it has read, will not matter.
Resetting == host.stage = "Reset" \/ dev.enumdne
Held      == IF Resetting THEN NoRequest ELSE dev.Setup
Known     == IF Resetting THEN AtReset ELSE View(dev)

\* What is known of a device that is being reset: its address is cleared first.
\* Only a request that the reset overtook can be ahead of it.
ResetsInOrder ==
    /\ dev.usbrst => Resetting
    /\ Resetting /\ ~host.overtaken =>
         /\ dev.usbrst \/ dev.address = 0
         /\ dev.Setup = NoRequest
         /\ host.stage = "Reset" => \A i \in 1 .. Len(rx_fifo) :
                                      rx_fifo[i].req = NoRequest
    /\ ~Resetting /\ dev.address = 0 => dev.dev_state = "DEFAULT"

DataIsNoRequest ==
    \A i \in 1 .. Len(rx_fifo) :
        rx_fifo[i].type = "OUT" => rx_fifo[i].req = NoRequest

ViewInv == /\ Foretold(rx_fifo, Held, Known, host)
           /\ KeepsOrder(host)
           /\ ResetsInOrder
           /\ DataIsNoRequest

LEMMA ViewAgreesFromInv == TypeOK /\ ViewInv => ViewAgrees
<1> SUFFICES ASSUME TypeOK, ViewInv, ~IrqPending,
                    host.stage \in {"Idle", "Done"}, host.sure, ~host.overtaken
             PROVE  dev.dev_state = host.state /\ dev.address = host.address
  BY DEF ViewAgrees
<1>1. ~Resetting /\ Held = NoRequest /\ rx_fifo = <<>> /\ Known = View(dev)
  BY DEF IrqPending, OutPending, BusPending, Resetting, Held, Known
<1>2. PICK f : /\ Course(f, rx_fifo, NoRequest)
               /\ Starts(f[0], View(dev), host.overtaken)
               /\ Agrees(f[Len(rx_fifo) + 1], host)
  BY <1>1 DEF ViewInv, Foretold
<1>3. f[1] = f[0]
  <2>1. Len(rx_fifo) = 0 /\ 0 \in 0 .. 0 /\ 0 + 1 = 1
    BY <1>1
  <2> QED
    BY <1>2, <2>1, AfterNone DEF Course, Ahead
<1>4. Agrees(f[0], host)
  BY <1>1, <1>2, <1>3
<1>5. ~Changing(host) /\ ToKnow(host) = host
  BY DEF Changing, Ongoing, ToKnow
<1> QED
  BY <1>2, <1>4, <1>5 DEF Agrees, Starts, View

LEMMA ClassDataFromInv == TypeOK /\ ViewInv => ClassDataPresent
<1> SUFFICES ASSUME TypeOK, ViewInv, dev.Setup.kind \in ClassRequests,
                    ~host.overtaken
             PROVE  dev.dev_state = "CONFIGURED"
  BY DEF ClassDataPresent
<1>1. dev.Setup # NoRequest
  BY DEF NoRequest, ClassRequests
<1>2. ~Resetting /\ Held = dev.Setup /\ Known = View(dev)
  BY <1>1 DEF ViewInv, ResetsInOrder, Held, Known
<1>3. PICK f : /\ Course(f, rx_fifo, dev.Setup)
               /\ Starts(f[0], View(dev), host.overtaken)
               /\ Ready(f, rx_fifo, dev.Setup)
  BY <1>2 DEF ViewInv, Foretold
<1>4. 0 \in 0 .. Len(rx_fifo)
  BY DEF TypeOK
<1> QED
  BY <1>3, <1>4 DEF Ready, Ahead, Starts, View

LEMMA ViewInit == Init => ViewInv
<1> SUFFICES ASSUME Init
             PROVE  ViewInv
  OBVIOUS
<1>1. /\ dev = Boot /\ rx_fifo = <<>> /\ host = HostAtBoot
      /\ ~Resetting /\ Held = NoRequest /\ Known = AtReset
  BY DEF Init, Resetting, Held, Known, View, AtReset, Boot, HostAtBoot
<1>2. Foretold(rx_fifo, NoRequest, AtReset, host)
  <2>1. host.stage \notin Ongoing /\ host.state = "DEFAULT" /\ host.address = 0
    BY <1>1 DEF HostAtBoot, Ongoing
  <2>2. rx_fifo \in Seq(Packets) /\ host \in Hosts
        /\ \A i \in 1 .. Len(rx_fifo) : rx_fifo[i].req = NoRequest
    BY <1>1, BootType
  <2> QED
    BY <2>1, <2>2, ForetoldAnew DEF AtReset
<1> QED
  BY <1>1, <1>2 DEF ViewInv, KeepsOrder, ResetsInOrder, DataIsNoRequest,
                    HostAtBoot, Boot, Changing, Ongoing

\* A step of the device that is not about its state.
LEMMA ViewFrame ==
    ASSUME TypeOK, ViewInv, UNCHANGED <<rx_fifo, host>>,
           SameView(dev, dev'), dev'.Setup = dev.Setup
    PROVE  ViewInv'
<1>1. Resetting' = Resetting /\ Held' = Held /\ Known' = Known
  BY DEF Resetting, Held, Known, View, SameView
<1> QED
  BY <1>1 DEF ViewInv, KeepsOrder, ResetsInOrder, DataIsNoRequest, SameView,
              Changing

LEMMA IrqOutView == TypeOK /\ ViewInv /\ IrqOut => ViewInv'
<1> SUFFICES ASSUME TypeOK, ViewInv, IrqOut
             PROVE  ViewInv'
  OBVIOUS
<1>1. CASE SystemReset
  <2>1. /\ dev' = Boot /\ rx_fifo' = <<>> /\ host' = HostAtBoot
    BY <1>1 DEF SystemReset
  <2>2. ~Resetting' /\ Held' = NoRequest /\ Known' = AtReset
    BY <2>1 DEF Resetting, Held, Known, View, AtReset, Boot, HostAtBoot
  <2>3. Foretold(<<>>, NoRequest, AtReset, HostAtBoot)
    <3>1. HostAtBoot.stage \notin Ongoing /\ HostAtBoot.state = "DEFAULT"
          /\ HostAtBoot.address = 0
      BY DEF HostAtBoot, Ongoing
    <3>2. \A i \in 1 .. Len(<<>>) : <<>>[i].req = NoRequest
      OBVIOUS
    <3> QED
      BY <3>1, <3>2, BootType, ForetoldAnew DEF AtReset
  <2> QED
    BY <2>1, <2>2, <2>3 DEF ViewInv, KeepsOrder, ResetsInOrder, DataIsNoRequest,
                            HostAtBoot, Boot, Changing, Ongoing
<1>2. CASE ~SystemReset /\ dev.out_xfrc
  <2> DEFINE d == [dev EXCEPT !.out_xfrc = FALSE]
  <2>1. d \in Devices /\ SameView(dev, d) /\ d.Setup = dev.Setup
    BY DEF TypeOK, Devices, SameView
  <2> HIDE DEF d
  <2>2. dev' = DataOutStage(d) /\ UNCHANGED <<rx_fifo, host>>
    BY <1>2 DEF IrqOut, d
  <2>3. SameView(dev, dev') /\ dev'.Setup = dev.Setup
    BY <2>1, <2>2, DataOutView DEF SameView
  <2> QED
    BY <2>2, <2>3, ViewFrame
<1>3. CASE ~SystemReset /\ ~dev.out_xfrc
  <2> DEFINE d == [dev EXCEPT !.out_xfrc = FALSE]
  <2>1. d \in Devices /\ View(d) = View(dev) /\ d.Setup = dev.Setup
        /\ d.enumdne = dev.enumdne /\ d.usbrst = dev.usbrst
        /\ View(dev) \in Views
    BY ViewType DEF TypeOK, Devices, View
  <2> HIDE DEF d
  <2>2. dev' = SetupStage(d) /\ UNCHANGED <<rx_fifo, host>> /\ dev.Setup # NoRequest
    BY <1>3 DEF IrqOut, d, OutPending
  <2>3. /\ View(dev') = After(View(dev), dev.Setup) /\ dev'.Setup = NoRequest
        /\ dev'.enumdne = dev.enumdne /\ dev'.usbrst = dev.usbrst
    BY <2>1, <2>2, SetupView
  <2>4. Resetting' = Resetting
    BY <2>2, <2>3 DEF Resetting
  <2>5. KeepsOrder(host)' /\ DataIsNoRequest'
    BY <2>2 DEF ViewInv, DataIsNoRequest
  <2>6. CASE Resetting
    <3>1. Held' = Held /\ Known' = Known
      BY <2>4, <2>6 DEF Held, Known
    <3>2. host.overtaken
      BY <2>2, <2>6 DEF ViewInv, ResetsInOrder
    <3>3. ResetsInOrder'
      BY <2>2, <2>4, <2>6, <3>2 DEF ResetsInOrder
    <3> QED
      BY <2>2, <2>5, <3>1, <3>3 DEF ViewInv
  <2>7. CASE ~Resetting
    <3>1. Held = dev.Setup /\ Known = View(dev)
      BY <2>7 DEF Held, Known
    <3>2. Held' = NoRequest /\ Known' = After(View(dev), dev.Setup)
      BY <2>3, <2>4, <2>7 DEF Held, Known
    <3>3. Foretold(rx_fifo, NoRequest, After(View(dev), dev.Setup), host)
      <4>1. dev.Setup \in RequestRecords /\ rx_fifo \in Seq(Packets) /\ host \in Hosts
        BY DEF TypeOK, Devices
      <4> QED
        BY <2>1, <3>1, <4>1, ForetoldHandled DEF ViewInv
    <3>4. ResetsInOrder'
      <4>1. dev'.address = After(View(dev), dev.Setup).address
            /\ dev'.dev_state = After(View(dev), dev.Setup).dev_state
        BY <2>3 DEF View
      <4>2. View(dev).address = 0 => View(dev).dev_state = "DEFAULT"
        BY <2>7 DEF ViewInv, ResetsInOrder, View
      <4>3. dev'.address = 0 => dev'.dev_state = "DEFAULT"
        BY <4>1, <4>2 DEF After
      <4> QED
        BY <2>3, <2>4, <2>7, <4>3 DEF ViewInv, ResetsInOrder
    <3> QED
      BY <2>2, <2>5, <3>2, <3>3, <3>4 DEF ViewInv
  <2> QED
    BY <2>6, <2>7
<1> QED
  BY <1>1, <1>2, <1>3

LEMMA IrqInView == TypeOK /\ ViewInv /\ IrqIn => ViewInv'
<1> SUFFICES ASSUME TypeOK, ViewInv, IrqIn
             PROVE  ViewInv'
  OBVIOUS
<1> DEFINE d == [dev EXCEPT !.in_xfrc = FALSE, !.in_txfe = FALSE]
<1>1. d \in Devices /\ SameView(dev, d) /\ d.Setup = dev.Setup
  BY DEF TypeOK, Devices, SameView
<1> HIDE DEF d
<1>2. /\ dev' = DataInStage(d) \/ dev' = WriteEmptyTxFifo(dev) \/ dev' = dev
      /\ UNCHANGED <<rx_fifo, host>>
  BY DEF IrqIn, d
<1>3. SameView(dev, dev') /\ dev'.Setup = dev.Setup
  BY <1>1, <1>2, DataInView, FillView DEF SameView, TypeOK
<1> QED
  BY <1>2, <1>3, ViewFrame

\* The reset, the end of enumeration, and one packet.
LEMMA IrqRestView == TypeOK /\ CallInv /\ ViewInv /\ IrqRest => ViewInv'
<1> SUFFICES ASSUME TypeOK, CallInv, ViewInv, IrqRest
             PROVE  ViewInv'
  OBVIOUS
<1> DEFINE d == IF dev.usbrst THEN BusReset(dev) ELSE dev
           e == IF d.enumdne THEN EnumerationDone(d) ELSE d
           next == IF rx_fifo = <<>> THEN NoRequest ELSE Head(rx_fifo).req
           rest == IF rx_fifo = <<>> THEN <<>> ELSE Tail(rx_fifo)
<1>1. dev.Setup = NoRequest
  BY DEF IrqRest, CallInv, SetupHandled
<1>2. /\ d \in Devices /\ d.Setup = NoRequest /\ ~d.usbrst
      /\ d.enumdne = dev.enumdne /\ d.dev_state = dev.dev_state
      /\ d.address = IF dev.usbrst THEN 0 ELSE dev.address
  <2>1. d \in Devices
    BY BusType DEF TypeOK
  <2> QED
    BY <1>1, <2>1 DEF BusReset, TypeOK, Devices
<1> HIDE DEF d
<1>3. /\ e \in Devices /\ e.Setup = NoRequest /\ ~e.usbrst /\ ~e.enumdne
      /\ e.dev_state = IF dev.enumdne THEN "DEFAULT" ELSE dev.dev_state
      /\ e.address = d.address
  <2>1. e \in Devices
    BY <1>2, BusType
  <2> QED
    BY <1>2, <2>1 DEF EnumerationDone, Devices
<1> HIDE DEF e
<1>4. /\ rx_fifo' = rest /\ host' = host
      /\ rx_fifo = <<>> => dev' = e
      /\ rx_fifo # <<>> => dev' = ReadPacket(e, Head(rx_fifo))
  BY DEF IrqRest, d, e
<1>5. rx_fifo # <<>> =>
        /\ Head(rx_fifo) = rx_fifo[1] /\ 1 \in 1 .. Len(rx_fifo)
        /\ Head(rx_fifo) \in Packets
        /\ Len(rest) \in Nat /\ Len(rx_fifo) = Len(rest) + 1
        /\ \A i \in 1 .. Len(rest) : rest[i] = rx_fifo[i + 1] /\ i + 1 \in 1 .. Len(rx_fifo)
  BY DEF TypeOK
<1>6. SameView(e, dev') /\ dev'.Setup = next
  <2>1. CASE rx_fifo = <<>>
    BY <1>3, <1>4, <2>1 DEF SameView
  <2>2. CASE rx_fifo # <<>>
    <3>1. SameView(e, dev')
      BY <1>3, <1>4, <2>2 DEF ReadPacket, SameView, Devices
    <3>2. CASE Head(rx_fifo).type = "SETUP"
      <4>1. dev'.Setup = Head(rx_fifo).req
        BY <1>3, <1>4, <2>2, <3>2 DEF ReadPacket, Devices
      <4> QED
        BY <2>2, <3>1, <4>1
    <3>3. CASE Head(rx_fifo).type = "OUT"
      <4>1. dev'.Setup = e.Setup
        BY <1>3, <1>4, <2>2, <3>3 DEF ReadPacket, Devices
      <4>2. Head(rx_fifo).req = NoRequest
        BY <1>5, <2>2, <3>3 DEF ViewInv, DataIsNoRequest
      <4> QED
        BY <1>3, <2>2, <3>1, <4>1, <4>2
    <3> QED
      BY <1>5, <2>2, <3>1, <3>2, <3>3 DEF Packets
  <2> QED
    BY <2>1, <2>2
<1>7. rest \in Seq(Packets)
  BY DEF TypeOK
<1>9. DataIsNoRequest'
  <2>1. \A i \in 1 .. Len(rest) : rest[i].type = "OUT" => rest[i].req = NoRequest
    BY <1>5 DEF ViewInv, DataIsNoRequest
  <2> QED
    BY <1>4, <2>1 DEF DataIsNoRequest
<1> HIDE DEF next, rest
<1>10. KeepsOrder(host)'
  BY <1>4 DEF ViewInv
<1>11. ASSUME NEW known, Foretold(rx_fifo, NoRequest, known, host)
       PROVE  Foretold(rest, next, known, host)
  <2>1. CASE rx_fifo = <<>>
    BY <1>11, <2>1 DEF rest, next
  <2>2. CASE rx_fifo # <<>>
    BY <1>11, <2>2, ForetoldRead DEF rest, next, TypeOK
  <2> QED
    BY <2>1, <2>2
<1>12. CASE host.stage = "Reset"
  <2>1. Resetting /\ Resetting' /\ Held' = NoRequest /\ Known' = AtReset
    BY <1>4, <1>12 DEF Resetting, Held, Known
  <2>2. ~host.overtaken => /\ next = NoRequest
                           /\ \A i \in 1 .. Len(rest) : rest[i].req = NoRequest
    <3>1. ~host.overtaken => \A i \in 1 .. Len(rx_fifo) : rx_fifo[i].req = NoRequest
      BY <1>12, <2>1 DEF ViewInv, ResetsInOrder
    <3> QED
      BY <1>5, <3>1 DEF next, rest
  <2>3. Foretold(rest, NoRequest, AtReset, host)
    <3>1. host.stage \notin Ongoing /\ host.state = "DEFAULT" /\ host.address = 0
      BY <1>12 DEF ViewInv, KeepsOrder, Ongoing
    <3> QED
      BY <1>7, <2>2, <3>1, ForetoldAnew DEF AtReset, TypeOK
  <2>4. ResetsInOrder'
    <3>1. ~host.overtaken => dev.usbrst \/ dev.address = 0
      BY <2>1 DEF ViewInv, ResetsInOrder
    <3>2. ~host.overtaken => dev'.address = 0
      BY <1>2, <1>3, <1>6, <3>1 DEF SameView
    <3> QED
      BY <1>4, <1>6, <2>1, <2>2, <3>2 DEF ResetsInOrder
  <2> QED
    BY <1>4, <1>9, <1>10, <2>1, <2>3, <2>4 DEF ViewInv
<1>13. CASE host.stage # "Reset"
  <2>1. ~Resetting' /\ Held' = next /\ Known' = View(dev')
    BY <1>3, <1>4, <1>6, <1>13 DEF Resetting, Held, Known, SameView
  <2>2. Held = NoRequest
    BY <1>1 DEF Held
  <2>3. Foretold(rest, next, Known, host)
    BY <1>11, <2>2 DEF ViewInv
  <2>4. /\ dev'.dev_state = Known.dev_state
        /\ ~host.overtaken => dev'.address = Known.address
        /\ dev'.address = 0 => dev'.dev_state = "DEFAULT"
        /\ ~dev'.usbrst
    <3>1. dev'.dev_state = e.dev_state /\ dev'.address = d.address /\ ~dev'.usbrst
      BY <1>3, <1>6 DEF SameView
    <3>2. CASE dev.enumdne
      <4>1. Resetting /\ Known = AtReset
        BY <3>2 DEF Resetting, Known
      <4> QED
        BY <1>2, <1>3, <3>1, <3>2, <4>1 DEF AtReset, ViewInv, ResetsInOrder
    <3>3. CASE ~dev.enumdne
      <4>1. ~Resetting /\ Known = View(dev) /\ ~dev.usbrst
        BY <1>13, <3>3 DEF Resetting, Known, ViewInv, ResetsInOrder
      <4> QED
        BY <1>2, <1>3, <3>1, <3>3, <4>1 DEF View, ViewInv, ResetsInOrder
    <3> QED
      BY <3>2, <3>3
  <2>5. Foretold(rest, next, View(dev'), host)
    <3>1. View(dev').dev_state = Known.dev_state
          /\ (~host.overtaken => View(dev').address = Known.address)
      BY <2>4 DEF View
    <3> QED
      BY <1>7, <2>3, <3>1, ForetoldFrame
  <2>6. ResetsInOrder'
    BY <2>1, <2>4 DEF ResetsInOrder
  <2> QED
    BY <1>4, <1>9, <1>10, <2>1, <2>5, <2>6 DEF ViewInv
<1> QED
  BY <1>12, <1>13

\* A step of the host that leaves the device's state and the FIFO alone.
LEMMA HostFrame ==
    ASSUME TypeOK, ViewInv, UNCHANGED rx_fifo, SameView(dev, dev'),
           dev'.Setup = dev.Setup,
           host.stage # "Reset", host'.stage # "Reset",
           \A s \in Views : Agrees(s, host) => Agrees(s, host'),
           KeepsOrder(host'), host'.overtaken = host.overtaken
    PROVE  ViewInv'
<1>1. Resetting' = Resetting /\ Held' = Held /\ Known' = Known
  BY DEF Resetting, Held, Known, View, SameView
<1>2. Foretold(rx_fifo, Held, Known, host')
  <2>1. rx_fifo \in Seq(Packets) /\ Foretold(rx_fifo, Held, Known, host)
    BY DEF TypeOK, ViewInv
  <2> QED
    BY <2>1, ForetoldFrame
<1>3. ResetsInOrder'
  BY <1>1 DEF ViewInv, ResetsInOrder, SameView
<1> QED
  BY <1>1, <1>2, <1>3 DEF ViewInv, DataIsNoRequest

\* A packet without a request comes to the FIFO.
LEMMA DataSentView ==
    ASSUME TypeOK, TypeOK', ViewInv, SameView(dev, dev'), dev'.Setup = dev.Setup,
           Len(rx_fifo') = Len(rx_fifo) + 1,
           rx_fifo'[Len(rx_fifo')].req = NoRequest,
           \A i \in 1 .. Len(rx_fifo) : rx_fifo'[i] = rx_fifo[i],
           host.stage # "Reset", host'.stage # "Reset",
           \A s \in Views : Agrees(s, host) => Agrees(s, host'),
           KeepsOrder(host'), host'.overtaken = host.overtaken
    PROVE  ViewInv'
<1>1. Resetting' = Resetting /\ Held' = Held /\ Known' = Known
  BY DEF Resetting, Held, Known, View, SameView
<1>2. Len(rx_fifo) \in Nat
  BY DEF TypeOK
<1>4. Foretold(rx_fifo', Held, Known, host')
  <2>1. Held \in RequestRecords
    BY Constants DEF Held, TypeOK, Devices
  <2>2. rx_fifo \in Seq(Packets) /\ rx_fifo' \in Seq(Packets)
        /\ Foretold(rx_fifo, Held, Known, host)
    BY DEF TypeOK, ViewInv
  <2>4. PICK req \in RequestRecords : req = NoRequest
    BY Constants
  <2>5. /\ \A s \in Views : Agrees(s, host) => Agrees(After(s, req), host')
        /\ \A s \in Views : Agrees(s, host) /\ req.kind \in ClassRequests
                              => s.dev_state = "CONFIGURED"
    <3>1. req.kind \notin ClassRequests
      BY <2>4 DEF NoRequest, ClassRequests
    <3> QED
      BY <2>4, <3>1, AfterNone
  <2>6. \A i \in 1 .. Len(rx_fifo) : rx_fifo'[i].req = rx_fifo[i].req
    OBVIOUS
  <2>7. rx_fifo'[Len(rx_fifo')].req = req
    BY <2>4
  <2> QED
    BY <2>1, <2>2, <2>5, <2>6, <2>7, ForetoldSent
<1>5. ResetsInOrder'
  BY <1>1 DEF ViewInv, ResetsInOrder, SameView
<1>6. DataIsNoRequest'
  <2> SUFFICES ASSUME NEW i \in 1 .. Len(rx_fifo')
               PROVE  rx_fifo'[i].type = "OUT" => rx_fifo'[i].req = NoRequest
    BY DEF DataIsNoRequest
  <2>1. CASE i = Len(rx_fifo')
    BY <2>1
  <2>2. CASE i # Len(rx_fifo')
    <3>1. i \in 1 .. Len(rx_fifo)
      BY <1>2, <2>2
    <3> QED
      BY <1>2, <3>1 DEF ViewInv, DataIsNoRequest
  <2> QED
    BY <2>1, <2>2
<1> QED
  BY <1>1, <1>4, <1>5, <1>6 DEF ViewInv

LEMMA HostSetupView == TypeOK /\ ViewInv /\ AnyHostSetup => ViewInv'
<1> SUFFICES ASSUME TypeOK, ViewInv, NEW req \in Requests, HostSetup(req)
             PROVE  ViewInv'
  BY DEF AnyHostSetup
<1> DEFINE aged == [i \in DOMAIN rx_fifo |->
                      [rx_fifo[i] EXCEPT !.call = Aged(rx_fifo[i].call, req)]]
<1>1. rx_fifo' = Append(aged, SetupPacket(req))
  BY DEF HostSetup
<1>2. /\ aged \in Seq(Packets) /\ Len(aged) = Len(rx_fifo)
      /\ \A i \in 1..Len(rx_fifo) :
           /\ aged[i].type = rx_fifo[i].type /\ aged[i].req = rx_fifo[i].req
           /\ aged[i].call = NoCall <=> rx_fifo[i].call = NoCall
  BY AgedFifo DEF TypeOK
<1> HIDE DEF aged
<1>3. SameView(dev, dev') /\ dev'.Setup = dev.Setup
  BY DEF HostSetup, SameView, TypeOK, Devices
<1>4. /\ Len(rx_fifo) \in Nat /\ Len(rx_fifo') = Len(rx_fifo) + 1
      /\ rx_fifo'[Len(rx_fifo')] = SetupPacket(req)
      /\ rx_fifo' \in Seq(Packets)
      /\ \A i \in 1..Len(rx_fifo) : rx_fifo'[i] = aged[i]
  <2>1. SetupPacket(req) \in Packets
    BY ControlAssumption DEF SetupPacket, Packets, NoCall
  <2> QED
    BY <1>1, <1>2, <2>1 DEF TypeOK
<1>5. SetupPacket(req).req = req /\ SetupPacket(req).type = "SETUP"
      /\ req \in RequestRecords
  BY ControlAssumption DEF SetupPacket
<1>6. host.stage # "Reset" /\ Legal(req)
      /\ ~(Changing(host) /\ host.req.kind = "SET_ADDRESS")
  BY DEF HostSetup, Changing
<1>7. host' \in Hosts /\ Begins(host, req, host')
  <2>1. host' \in Hosts
    BY HostSetupType DEF AnyHostSetup, TypeOK
  <2>2. host \in Hosts
    BY DEF TypeOK
  <2>3. host' = [host EXCEPT !.stage = FirstStage(req.kind), !.req = req,
                             !.got = 0, !.bad = FALSE, !.early = FALSE,
                             !.rushed = Unserved,
                             !.sure = host.sure /\ ~GivesUpChange]
    BY DEF HostSetup
  <2>4. /\ host'.stage = FirstStage(req.kind) /\ host'.req = req
        /\ host'.state = host.state /\ host'.address = host.address
        /\ host'.overtaken = host.overtaken
        /\ host'.sure = (host.sure /\ ~GivesUpChange)
    BY <2>2, <2>3 DEF Hosts
  <2>5. GivesUpChange = Changing(host)
    BY DEF GivesUpChange, Changing
  <2> QED
    BY <2>1, <2>4, <2>5 DEF Begins
<1>8. /\ \A s \in Views : Agrees(s, host) => Agrees(After(s, req), host')
      /\ KeepsOrder(host')
  <2>1. /\ req.kind = "SET_ADDRESS" => host.state = "DEFAULT"
        /\ req.kind = "SET_CONFIGURATION" => host.state # "DEFAULT"
    BY <1>6 DEF Legal, ClassRequests
  <2> QED
    BY <1>5, <1>6, <1>7, <2>1, BeginsAgrees DEF TypeOK, ViewInv
<1>9. \A s \in Views : Agrees(s, host) /\ req.kind \in ClassRequests
                         => s.dev_state = "CONFIGURED"
  <2> SUFFICES ASSUME NEW s \in Views, Agrees(s, host), req.kind \in ClassRequests
               PROVE  s.dev_state = "CONFIGURED"
    OBVIOUS
  <2>1. host.state = "CONFIGURED" /\ host.sure /\ ~Changing(host)
    BY <1>6 DEF Legal, ClassRequests, GivesUpChange, Changing
  <2> QED
    BY <2>1 DEF Agrees, ToKnow
<1>10. host'.stage # "Reset"
  BY <1>7 DEF Begins, FirstStage
<1>11. Resetting' = Resetting /\ Held' = Held /\ Known' = Known
  BY <1>3, <1>6, <1>10 DEF Resetting, Held, Known, View, SameView
<1>12. Foretold(rx_fifo', Held, Known, host')
  <2>1. Held \in RequestRecords
    BY Constants DEF Held, TypeOK, Devices
  <2>2. rx_fifo \in Seq(Packets) /\ Foretold(rx_fifo, Held, Known, host)
    BY DEF TypeOK, ViewInv
  <2>3. \A i \in 1 .. Len(rx_fifo) : rx_fifo'[i].req = rx_fifo[i].req
    BY <1>2, <1>4
  <2>4. rx_fifo'[Len(rx_fifo')].req = req
    BY <1>4, <1>5
  <2>5. host'.overtaken = host.overtaken
    BY <1>7 DEF Begins
  <2> QED
    BY <1>4, <1>5, <1>8, <1>9, <2>1, <2>2, <2>3, <2>4, <2>5, ForetoldSent
<1>13. ResetsInOrder'
  BY <1>3, <1>7, <1>10, <1>11 DEF ViewInv, ResetsInOrder, SameView, Begins
<1>14. DataIsNoRequest'
  <2> SUFFICES ASSUME NEW i \in 1 .. Len(rx_fifo'), rx_fifo'[i].type = "OUT"
               PROVE  rx_fifo'[i].req = NoRequest
    BY DEF DataIsNoRequest
  <2>1. i # Len(rx_fifo')
    BY <1>4, <1>5
  <2>2. i \in 1 .. Len(rx_fifo)
    BY <1>4, <2>1
  <2> QED
    BY <1>2, <1>4, <2>2 DEF ViewInv, DataIsNoRequest
<1> QED
  BY <1>8, <1>11, <1>12, <1>13, <1>14 DEF ViewInv

LEMMA HostStalledView ==
    ASSUME TypeOK, ViewInv, HostStalled, host.stage \in Ongoing
    PROVE  ViewInv'
<1>1. host' \in Hosts
  BY HostStalledType
<1>2. /\ \A s \in Views : Agrees(s, host) => Agrees(s, host')
      /\ KeepsOrder(host') /\ host'.overtaken = host.overtaken
  BY <1>1, StalledAgrees DEF HostStalled, TypeOK, ViewInv
<1>3. host.stage # "Reset" /\ host'.stage # "Reset"
  BY DEF HostStalled, Over, Ongoing, TypeOK, Hosts
<1>4. SameView(dev, dev') /\ dev'.Setup = dev.Setup /\ UNCHANGED rx_fifo
  BY DEF HostStalled, SameView
<1> QED
  BY <1>2, <1>3, <1>4, HostFrame

LEMMA HostInView == TypeOK /\ ViewInv /\ HostIn => ViewInv'
<1> SUFFICES ASSUME TypeOK, ViewInv, HostIn
             PROVE  ViewInv'
  OBVIOUS
<1>1. host.stage \in Ongoing /\ host.stage # "Reset" /\ host' \in Hosts
  BY HostInType DEF HostIn, Ongoing, TypeOK
<1>2. CASE HostStalled
  BY <1>1, <1>2, HostStalledView
<1>3. CASE ~HostStalled
  <2>1. /\ host' = IF host.stage = "StatusIn"
                     THEN Over(Acknowledged(host), "Done")
                     ELSE WithData(host, InPacket)
        /\ UNCHANGED rx_fifo
    BY <1>3 DEF HostIn
  <2>2. SameView(dev, dev') /\ dev'.Setup = dev.Setup
    BY <1>3 DEF HostIn, SameView, TypeOK, Devices
  <2>3. CASE host.stage = "StatusIn"
    <3>1. /\ \A s \in Views : Agrees(s, host) => Agrees(s, host')
          /\ KeepsOrder(host') /\ host'.overtaken = host.overtaken
      BY <1>1, <2>1, <2>3, AcknowledgedAgrees DEF TypeOK, ViewInv
    <3>2. host'.stage # "Reset"
      <4>1. Acknowledged(host) \in Hosts
        <5>1. host.req.wValue \in Nat
          BY DEF TypeOK, Hosts, RequestRecords
        <5> QED
          BY <5>1 DEF Acknowledged, TypeOK, Hosts
      <4> QED
        BY <2>1, <2>3, <4>1 DEF Over, Hosts
    <3> QED
      BY <1>1, <2>1, <2>2, <3>1, <3>2, HostFrame
  <2>4. CASE host.stage = "DataIn"
    <3>1. ~Changing(host)
      BY <2>4 DEF ViewInv, KeepsOrder
    <3>2. host' = WithData(host, InPacket)
      BY <2>1, <2>4
    <3>3. /\ host'.stage \in {"DataIn", "StatusOut"} /\ host'.req = host.req
          /\ host'.state = host.state /\ host'.address = host.address
          /\ host'.sure = host.sure /\ host'.overtaken = host.overtaken
      BY <2>4, <3>2 DEF WithData, TypeOK, Hosts
    <3>4. SameKnowledge(host, host') /\ host'.stage # "Reset"
      BY <1>1, <3>1, <3>3 DEF SameKnowledge, Changing
    <3>5. KeepsOrder(host') /\ \A s \in Views : Agrees(s, host) => Agrees(s, host')
      BY <1>1, <3>4, SameAgrees DEF TypeOK, ViewInv
    <3> QED
      BY <1>1, <2>1, <2>2, <3>3, <3>4, <3>5, HostFrame
  <2> QED
    BY <2>3, <2>4 DEF HostIn
<1> QED
  BY <1>2, <1>3

LEMMA HostOutView == TypeOK /\ TypeOK' /\ ViewInv /\ HostOut => ViewInv'
<1> SUFFICES ASSUME TypeOK, TypeOK', ViewInv, HostOut
             PROVE  ViewInv'
  OBVIOUS
<1>1. host.stage \in Ongoing /\ host.stage # "Reset" /\ host' \in Hosts
  BY DEF HostOut, Ongoing, TypeOK
<1>2. CASE HostStalled
  BY <1>1, <1>2, HostStalledView
<1>3. CASE ~HostStalled
  <2> DEFINE call == IF host.stage = "DataOut" THEN "last" ELSE NoCall
  <2>1. /\ rx_fifo' = Append(rx_fifo, OutPacket(call))
        /\ host' = IF host.stage = "DataOut"
                     THEN [host EXCEPT !.stage = "StatusIn"]
                     ELSE Over(host, "Done")
    BY <1>3 DEF HostOut
  <2>2. SameView(dev, dev') /\ dev'.Setup = dev.Setup
    BY <1>3 DEF HostOut, SameView, TypeOK, Devices
  <2>3. ~Changing(host)
    BY DEF HostOut, ViewInv, KeepsOrder
  <2>4. /\ (host'.stage = "StatusIn" /\ host'.req = host.req) \/ host'.stage = "Done"
        /\ host'.state = host.state /\ host'.address = host.address
        /\ host'.sure = host.sure /\ host'.overtaken = host.overtaken
    BY <2>1 DEF Over, TypeOK, Hosts
  <2>5. SameKnowledge(host, host') /\ host'.stage # "Reset"
    BY <1>1, <2>3, <2>4 DEF SameKnowledge, Changing, Ongoing
  <2>6. KeepsOrder(host') /\ \A s \in Views : Agrees(s, host) => Agrees(s, host')
    BY <1>1, <2>5, SameAgrees DEF TypeOK, ViewInv
  <2>7. /\ Len(rx_fifo') = Len(rx_fifo) + 1
        /\ rx_fifo'[Len(rx_fifo')].req = NoRequest
        /\ \A i \in 1 .. Len(rx_fifo) : rx_fifo'[i] = rx_fifo[i]
    <3>1. OutPacket(call) \in Packets /\ OutPacket(call).req = NoRequest
      BY Constants DEF OutPacket, Packets
    <3> HIDE DEF call
    <3> QED
      BY <2>1, <3>1 DEF TypeOK
  <2> QED
    BY <1>1, <2>2, <2>4, <2>5, <2>6, <2>7, DataSentView
<1> QED
  BY <1>2, <1>3

LEMMA HostRestView ==
    TypeOK /\ TypeOK' /\ ViewInv /\ (HostEndsEarly \/ HostReset \/ HostResetEnds)
        => ViewInv'
<1> SUFFICES ASSUME TypeOK, TypeOK', ViewInv,
                    HostEndsEarly \/ HostReset \/ HostResetEnds
             PROVE  ViewInv'
  OBVIOUS
<1>1. CASE HostEndsEarly
  <2>1. SameView(dev, dev') /\ dev'.Setup = dev.Setup /\ UNCHANGED rx_fifo
        /\ ~Changing(host) /\ host.stage = "DataIn"
    BY <1>1 DEF HostEndsEarly, SameView, ViewInv, KeepsOrder
  <2>2. /\ host'.stage = "StatusOut" /\ host'.req = host.req
        /\ host'.state = host.state /\ host'.address = host.address
        /\ host'.sure = host.sure /\ host'.overtaken = host.overtaken
    BY <1>1 DEF HostEndsEarly, TypeOK, Hosts
  <2>3. SameKnowledge(host, host')
    BY <2>1, <2>2 DEF SameKnowledge, Changing, Ongoing
  <2>4. KeepsOrder(host') /\ \A s \in Views : Agrees(s, host) => Agrees(s, host')
    BY <2>2, <2>3, SameAgrees DEF TypeOK, ViewInv
  <2> QED
    BY <2>1, <2>2, <2>4, HostFrame
<1>2. CASE HostReset
  <2>1. /\ rx_fifo' = rx_fifo /\ host'.stage = "Reset" /\ host'.state = "DEFAULT"
        /\ host'.address = 0
        /\ host'.overtaken <=> \/ dev.Setup # NoRequest
                               \/ \E i \in DOMAIN rx_fifo : rx_fifo[i].type = "SETUP"
    BY <1>2 DEF HostReset, HostAtBoot
  <2>2. /\ dev'.usbrst /\ dev'.Setup = dev.Setup /\ dev'.address = dev.address
        /\ dev'.dev_state = dev.dev_state
    BY <1>2 DEF HostReset, TypeOK, Devices
  <2>3. Resetting' /\ Held' = NoRequest /\ Known' = AtReset
    BY <2>1 DEF Resetting, Held, Known
  <2>4. ~host'.overtaken => /\ dev.Setup = NoRequest
                            /\ \A i \in 1 .. Len(rx_fifo) : rx_fifo[i].req = NoRequest
    <3> SUFFICES ASSUME ~host'.overtaken, NEW i \in 1 .. Len(rx_fifo)
                 PROVE  dev.Setup = NoRequest /\ rx_fifo[i].req = NoRequest
      BY <2>1
    <3>1. i \in DOMAIN rx_fifo /\ rx_fifo[i] \in Packets
      BY DEF TypeOK
    <3>2. rx_fifo[i].type = "OUT"
      BY <2>1, <3>1 DEF Packets
    <3> QED
      BY <2>1, <3>2 DEF ViewInv, DataIsNoRequest
  <2>5. Foretold(rx_fifo, NoRequest, AtReset, host')
    <3>1. host'.stage \notin Ongoing /\ host' \in Hosts /\ rx_fifo \in Seq(Packets)
      BY <2>1 DEF Ongoing, TypeOK
    <3> QED
      BY <2>1, <2>4, <3>1, ForetoldAnew DEF AtReset
  <2>6. KeepsOrder(host')
    BY <2>1 DEF KeepsOrder, Changing, Ongoing
  <2>7. ResetsInOrder'
    BY <2>1, <2>2, <2>3, <2>4 DEF ResetsInOrder
  <2>8. DataIsNoRequest'
    BY <2>1 DEF ViewInv, DataIsNoRequest
  <2> QED
    BY <2>1, <2>3, <2>5, <2>6, <2>7, <2>8 DEF ViewInv
<1>3. CASE HostResetEnds
  <2>1. /\ rx_fifo' = rx_fifo /\ host.stage = "Reset" /\ host'.stage = "Idle"
        /\ host'.state = host.state /\ host'.address = host.address
        /\ host'.sure = host.sure /\ host'.overtaken = host.overtaken
    BY <1>3 DEF HostResetEnds, TypeOK, Hosts
  <2>2. /\ dev'.enumdne /\ dev'.Setup = dev.Setup /\ dev'.address = dev.address
        /\ dev'.dev_state = dev.dev_state /\ dev'.usbrst = dev.usbrst
    BY <1>3 DEF HostResetEnds, TypeOK, Devices
  <2>3. /\ Resetting /\ Held = NoRequest /\ Known = AtReset
        /\ Resetting' /\ Held' = NoRequest /\ Known' = AtReset
    BY <2>1, <2>2 DEF Resetting, Held, Known
  <2>4. SameKnowledge(host, host')
    BY <2>1 DEF SameKnowledge, Changing, Ongoing
  <2>5. KeepsOrder(host') /\ \A s \in Views : Agrees(s, host) => Agrees(s, host')
    BY <2>1, <2>4, SameAgrees DEF TypeOK, ViewInv
  <2>6. Foretold(rx_fifo, NoRequest, AtReset, host')
    <3>1. Foretold(rx_fifo, NoRequest, AtReset, host) /\ rx_fifo \in Seq(Packets)
      BY <2>3 DEF ViewInv, TypeOK
    <3> QED
      BY <2>1, <2>5, <3>1, ForetoldFrame
  <2>7. ResetsInOrder'
    BY <2>1, <2>2, <2>3 DEF ViewInv, ResetsInOrder
  <2>8. DataIsNoRequest'
    BY <2>1 DEF ViewInv, DataIsNoRequest
  <2> QED
    BY <2>1, <2>3, <2>5, <2>6, <2>7, <2>8 DEF ViewInv
<1> QED
  BY <1>1, <1>2, <1>3

LEMMA ViewStep == TypeOK /\ TypeOK' /\ CallInv /\ ViewInv /\ [Next]_vars => ViewInv'
<1> SUFFICES ASSUME TypeOK, TypeOK', CallInv, ViewInv, [Next]_vars
             PROVE  ViewInv'
  OBVIOUS
<1>1. CASE UNCHANGED vars
  <2>1. UNCHANGED <<rx_fifo, host>> /\ SameView(dev, dev') /\ dev'.Setup = dev.Setup
    BY <1>1 DEF vars, SameView
  <2> QED
    BY <2>1, ViewFrame
<1> QED
  BY <1>1, IrqOutView, IrqInView, IrqRestView, HostSetupView, HostInView,
     HostOutView, HostRestView DEF Next

LEMMA SpecInv == Spec => [](TypeOK /\ CallInv /\ ViewInv)
<1>1. TypeOK /\ CallInv /\ ViewInv /\ [Next]_vars => (TypeOK /\ CallInv /\ ViewInv)'
  BY TypeStep, CallInvStep, ViewStep
<1> QED
  BY <1>1, TypeInit, CallInvInit, ViewInit, PTL DEF Spec

\* ViewAgrees: with nothing left to handle, the device is at the address and in
\* the state that USBD_SetAddress and USBD_SetConfig acknowledged to the host,
\* whatever requests the host gave up half way and whenever it reset the bus.
THEOREM HostViewAgrees == Spec => []ViewAgrees
BY SpecInv, ViewAgreesFromInv, PTL

\* ClassDataPresent: USBD_LL_SetupStage calls USBD_HID_Setup only on a configured
\* device, which has the class data that it uses without a look at the pointer.
THEOREM ClassRequestHasData == Spec => []ClassDataPresent
BY SpecInv, ClassDataFromInv, PTL

-----------------------------------------------------------------------------
(***************************************************************************)
(* A transfer that the host begins when the device is idle, step by step.  *)
(***************************************************************************)

\* The request can be handled in the state of the device d.
AbleFor(d, req) ==
    /\ req.kind = "SET_ADDRESS" => d.dev_state # "CONFIGURED"
    /\ req.kind = "SET_CONFIGURATION" => d.dev_state # "DEFAULT"
    /\ req.kind = "SET_REPORT" => d.dev_state = "CONFIGURED"

Able == AbleFor(dev, host.req)

\* Nothing of the transfer has happened but its SETUP.
Begun == /\ host.req \in Requests /\ host.stage = FirstStage(host.req.kind)
         /\ host.got = 0 /\ ~host.bad /\ Able
         /\ host.req.kind = "SET_REPORT" => ran = 0

\* No interrupt of the endpoint is pending, in either direction.
Unpended == ~dev.in_xfrc /\ ~dev.out_xfrc /\ ~dev.in_txfe
Bare     == /\ Unpended /\ ~dev.in_armed /\ ~dev.out_armed
            /\ ~dev.in_stall /\ ~dev.out_stall /\ dev.in_fifo = <<>>

Asked == /\ Begun /\ Bare /\ dev.Setup = NoRequest
         /\ rx_fifo = <<SetupPacket(host.req)>>
Seen  == Begun /\ Bare /\ dev.Setup = host.req /\ rx_fifo = <<>>

\* A read: its size, the bytes sent before the packet that is under way, the
\* bytes of that packet.
Size  == MinOf(DataLen[host.req.kind], host.req.wLength)
Sent  == Size - dev.ep0.rem
Chunk == MinOf(dev.ep0.rem, MaxPacket)

Piece(off, len) == [of |-> host.req.kind, off |-> off, len |-> len]

\* The packet is to be written to the transmit FIFO, is in it, or was taken.
ToFill == /\ dev.in_armed /\ dev.in_txfe /\ ~dev.in_xfrc /\ dev.in_fifo = <<>>
          /\ dev.xfer = Piece(Sent, Chunk) /\ host.got = Sent
          /\ host.stage = "DataIn" \/ host.early
Filled == /\ dev.in_armed /\ ~dev.in_txfe /\ ~dev.in_xfrc
          /\ dev.in_fifo = <<Piece(Sent, Chunk)>>
          /\ dev.xfer = Piece(Sent + Chunk, 0) /\ host.got = Sent
          /\ host.stage = "DataIn" \/ host.early
Taken  == /\ ~dev.in_armed /\ ~dev.in_txfe /\ dev.in_xfrc /\ dev.in_fifo = <<>>
          /\ dev.xfer = Piece(Sent + Chunk, 0) /\ host.got = Sent + Chunk
          /\ \/ host.stage = "StatusOut" /\ host.early
             \/ /\ host.stage = "DataIn"
                /\ Chunk = MaxPacket /\ host.got < host.req.wLength
             \/ /\ host.stage = "StatusOut" /\ host.got = Size
                /\ Chunk < MaxPacket \/ host.got = host.req.wLength

SendingData == /\ dev.ep0.asked = host.req.wLength
               /\ dev.ep0.rem \in 1 .. Size /\ Sent % MaxPacket = 0
               /\ ToFill \/ Filled \/ Taken

\* The empty packet that closes the data: it needs no FIFO.
SendingEmpty ==
    /\ dev.ep0.asked = 0 /\ dev.ep0.rem <= MaxPacket /\ host.got = Size
    /\ dev.in_fifo = <<>> /\ ~dev.in_txfe
    /\ \/ /\ dev.in_armed /\ dev.xfer = NoData /\ ~dev.in_xfrc
          /\ host.stage = "DataIn" \/ host.early
       \/ ~dev.in_armed /\ dev.in_xfrc /\ host.stage = "StatusOut"

ReadClosed == /\ host.stage = "StatusOut" /\ (host.early \/ host.got = Size)
              /\ ~dev.in_xfrc /\ ~dev.in_txfe

Reading == /\ host.req.kind \in Reads /\ host.stage \in {"DataIn", "StatusOut"}
           /\ ~host.bad /\ rx_fifo = <<>> /\ dev.Setup = NoRequest
           /\ ~dev.out_xfrc /\ ~dev.out_stall
           /\ \/ /\ dev.ep0.state = "DATA_IN" /\ dev.ep0.total = Size
                 /\ ~dev.in_stall /\ (SendingData \/ SendingEmpty)
              \/ dev.ep0.state = "STATUS_OUT" /\ ReadClosed

\* A call: its packet is to be sent, is in the receive FIFO, or has been read.
Calling == /\ host.req.kind = "SET_REPORT" /\ dev.Setup = NoRequest
           /\ ~dev.in_stall /\ ~dev.out_stall /\ ~dev.in_armed
           /\ ~dev.in_xfrc /\ ~dev.in_txfe
           /\ dev.dev_state = "CONFIGURED" /\ dev.ep0.state = "DATA_OUT"
           /\ dev.IsReportAvailable /\ ran = 0
           /\ \/ /\ host.stage = "DataOut" /\ rx_fifo = <<>> /\ ~dev.out_xfrc
                 /\ dev.out_buff = "Report_buf"
              \/ /\ host.stage = "StatusIn" /\ rx_fifo = <<OutPacket("last")>>
                 /\ ~dev.out_xfrc /\ dev.out_buff = "Report_buf"
              \/ /\ host.stage = "StatusIn" /\ rx_fifo = <<>> /\ dev.out_xfrc
                 /\ dev.Report_buf = "last"

\* The request is handled: its status can be had, or it is refused, or it was
\* passed over.
Waiting == /\ host.stage = "StatusIn" /\ rx_fifo = <<>> /\ dev.Setup = NoRequest
           /\ Unpended
           /\ dev.in_stall => host.req.kind \in {"UNSUPPORTED", "UNKNOWN_CONFIGURATION"}
           /\ host.req.kind = "SET_REPORT" /\ dev.in_armed => ran = 1

Quiet == host.stage \in Ongoing /\ ~host.rushed

TransferInv == Quiet => /\ ~dev.usbrst /\ ~dev.enumdne
                        /\ Asked \/ Seen \/ Reading \/ Calling \/ Waiting

-----------------------------------------------------------------------------
\* Whole packets: their number of bytes is a multiple of the packet's.
LEMMA Remainder ==
    ASSUME NEW p \in Nat \ {0}, NEW k \in Nat, NEW r \in 0 .. p - 1
    PROVE  (p * k + r) % p = r
<1> DEFINE a == p * k + r
           q == a \div p
           s == a % p
<1>1. p * k \in Nat
  OBVIOUS
<1>2. a \in Nat
  BY <1>1
<1> HIDE DEF a
<1>3. a = p * q + s /\ q \in Nat /\ s \in 0 .. p - 1
  BY <1>2
<1> HIDE DEF q, s
<1>4. p * k + r = p * q + s
  BY <1>3 DEF a
<1>5. r = s
  BY <1>3, <1>4
<1> QED
  BY <1>5 DEF a, s

LEMMA NextPacket ==
    ASSUME NEW p \in Nat \ {0}, NEW a \in Nat, a % p = 0
    PROVE  (a + p) % p = 0
<1>1. PICK k \in Nat : a = k * p
  OBVIOUS
<1>2. a + p = p * (k + 1) + 0
  BY <1>1
<1>3. (p * (k + 1) + 0) % p = 0
  <2>1. k + 1 \in Nat /\ 0 \in 0 .. p - 1
    OBVIOUS
  <2> QED
    BY <2>1, Remainder
<1> QED
  BY <1>2, <1>3

LEMMA ShortPacket ==
    ASSUME NEW p \in Nat \ {0}, NEW a \in Nat, a % p = 0, NEW r \in 1 .. p - 1
    PROVE  (a + r) % p # 0
<1>1. PICK k \in Nat : a = k * p
  OBVIOUS
<1>2. a + r = p * k + r /\ r \in 0 .. p - 1
  BY <1>1
<1>3. (p * k + r) % p = r
  BY <1>2, Remainder
<1> QED
  BY <1>2, <1>3

\* The sizes of a read.
LEMMA ReadSizes ==
    ASSUME TypeOK, host.req.kind \in Reads
    PROVE  /\ Size \in Nat /\ Size <= host.req.wLength /\ host.req.wLength \in Nat
           /\ dev.ep0.rem \in Nat /\ MaxPacket \in Nat \ {0}
           /\ Chunk \in Nat /\ Chunk <= MaxPacket /\ Chunk <= dev.ep0.rem
           /\ dev.ep0.rem > MaxPacket => Chunk = MaxPacket
           /\ dev.ep0.rem <= MaxPacket => Chunk = dev.ep0.rem
           /\ dev.ep0.rem <= Size => Sent \in Nat
           /\ host.req.kind \notin OtherKinds
<1>1. /\ host.req.wLength \in Nat /\ DataLen[host.req.kind] \in Nat
      /\ dev.ep0.rem \in Nat /\ MaxPacket \in Nat \ {0}
      /\ host.req.kind \notin OtherKinds
  BY ControlAssumption DEF TypeOK, Hosts, RequestRecords, Devices, Stages, Reads
<1> QED
  BY <1>1 DEF Size, Sent, Chunk, MinOf

\* ReadIsExact: what is sent before the status is what was asked for.
LEMMA ReadIsExactFromInv == TypeOK /\ TransferInv => ReadIsExact
<1> SUFFICES ASSUME TypeOK, TransferInv, host.stage = "StatusOut", ~host.rushed
             PROVE  ~host.bad /\ (host.early \/ host.got = Size)
  BY DEF ReadIsExact, Size
<1>1. Quiet
  BY DEF Quiet, Ongoing
<1>2. ~Asked /\ ~Seen /\ ~Calling /\ ~Waiting
  BY DEF Asked, Seen, Begun, FirstStage, Calling, Waiting
<1>3. Reading
  BY <1>1, <1>2 DEF TransferInv
<1> QED
  BY <1>3 DEF Reading, SendingData, SendingEmpty, ReadClosed, ToFill, Filled, Taken

\* The endpoint is stalled only where the transfer does not see it.
LEMMA RefusesFromInv ==
    ASSUME TypeOK, TransferInv, [Next]_vars, Quiet, host'.stage = "Stalled"
    PROVE  host.req.kind \in {"UNSUPPORTED", "UNKNOWN_CONFIGURATION"}
<1>1. host' # host /\ host.stage # "Stalled"
  BY DEF Quiet, Ongoing
<1>2. \/ host.stage \in {"DataIn", "StatusIn"} /\ dev.in_stall
      \/ host.stage \in {"DataOut", "StatusOut"} /\ dev.out_stall
  <2>1. CASE IrqOut
    BY <1>1, <2>1 DEF IrqOut, SystemReset, HostAtBoot
  <2>2. CASE IrqIn \/ IrqRest \/ UNCHANGED vars
    BY <1>1, <2>2 DEF IrqIn, IrqRest, vars
  <2>3. CASE AnyHostSetup
    <3>1. PICK req \in Requests : HostSetup(req)
      BY <2>3 DEF AnyHostSetup
    <3>2. host'.stage = FirstStage(req.kind)
      BY <3>1 DEF HostSetup, TypeOK, Hosts
    <3> QED
      BY <3>2 DEF FirstStage
  <2>4. CASE HostIn
    <3>1. CASE ~(dev.in_stall /\ HostStalled)
      <4>1. Acknowledged(host) \in Hosts /\ host \in Hosts
        <5>1. host.req.wValue \in Nat
          BY DEF TypeOK, Hosts, RequestRecords
        <5> QED
          BY <5>1 DEF Acknowledged, TypeOK, Hosts
      <4>2. host' = IF host.stage = "StatusIn"
                       THEN Over(Acknowledged(host), "Done")
                       ELSE WithData(host, InPacket)
        BY <2>4, <3>1 DEF HostIn
      <4> QED
        BY <1>1, <4>1, <4>2 DEF Over, WithData, Hosts
    <3> QED
      BY <2>4, <3>1 DEF HostIn
  <2>5. CASE HostOut
    <3>1. CASE ~(dev.out_stall /\ HostStalled)
      BY <1>1, <2>5, <3>1 DEF HostOut, Over, TypeOK, Hosts
    <3> QED
      BY <2>5, <3>1 DEF HostOut
  <2>6. CASE HostEndsEarly \/ HostReset \/ HostResetEnds
    BY <2>6 DEF HostEndsEarly, HostReset, HostResetEnds, HostAtBoot, TypeOK, Hosts
  <2> QED
    BY <2>1, <2>2, <2>3, <2>4, <2>5, <2>6 DEF Next
<1>3. ~Asked /\ ~Seen
  BY <1>2 DEF Asked, Seen, Bare
<1>4. ~Calling
  BY <1>2 DEF Calling
<1>5. ~Reading
  BY <1>2 DEF Reading, ReadClosed
<1>6. Waiting
  BY <1>3, <1>4, <1>5 DEF TransferInv
<1> QED
  BY <1>2, <1>6 DEF Waiting

\* The status of a call is sent when it has run.
LEMMA CallRanFromInv ==
    ASSUME TypeOK, TransferInv, [Next]_vars, Quiet, host.stage = "StatusIn",
           host.req.kind = "SET_REPORT", host'.stage = "Done"
    PROVE  ran = 1
<1>1. host' # host
  OBVIOUS
<1>2. dev.in_armed
  <2>1. CASE IrqOut
    BY <1>1, <2>1 DEF IrqOut, SystemReset, HostAtBoot
  <2>2. CASE IrqIn \/ IrqRest \/ UNCHANGED vars
    BY <1>1, <2>2 DEF IrqIn, IrqRest, vars
  <2>3. CASE AnyHostSetup
    <3>1. PICK req \in Requests : HostSetup(req)
      BY <2>3 DEF AnyHostSetup
    <3>2. host'.stage = FirstStage(req.kind)
      BY <3>1 DEF HostSetup, TypeOK, Hosts
    <3> QED
      BY <3>2 DEF FirstStage
  <2>4. CASE HostIn
    <3>1. CASE dev.in_stall /\ HostStalled
      BY <3>1 DEF HostStalled, Over, TypeOK, Hosts
    <3> QED
      BY <2>4, <3>1 DEF HostIn
  <2>5. CASE HostOut
    BY <2>5 DEF HostOut
  <2>6. CASE HostEndsEarly \/ HostReset \/ HostResetEnds
    BY <2>6 DEF HostEndsEarly, HostReset, HostResetEnds, HostAtBoot, TypeOK, Hosts
  <2> QED
    BY <2>1, <2>2, <2>3, <2>4, <2>5, <2>6 DEF Next
<1>3. ~Asked /\ ~Seen /\ ~Calling
  BY <1>2 DEF Asked, Seen, Bare, Calling
<1>4. ~Reading
  BY DEF Reading
<1>5. Waiting
  BY <1>3, <1>4 DEF TransferInv
<1> QED
  BY <1>2, <1>5 DEF Waiting

\* What the interrupt handler leaves of endpoint 0 when it handles a request.
SameInput(d, e) ==
    /\ e.in_xfrc = d.in_xfrc /\ e.out_xfrc = d.out_xfrc /\ e.in_fifo = d.in_fifo

\* A request is answered with data, with its status, or with a stall.
LEMMA AnswerEffect ==
    ASSUME NEW d \in Devices, ~d.in_txfe, ~d.in_stall, ~d.out_stall,
           NEW of \in Kinds, NEW n \in Nat
    PROVE  LET e == CtlSendData(d, of, n)
           IN  /\ SameInput(d, e) /\ ~e.in_stall /\ ~e.out_stall /\ e.in_armed
               /\ e.in_txfe <=> n > 0
               /\ e.xfer = [of |-> of, off |-> 0, len |-> MinOf(n, MaxPacket)]
               /\ e.ep0 = [state |-> "DATA_IN", asked |-> d.ep0.asked,
                           total |-> n, rem |-> n]
<1> DEFINE data == [of |-> of, off |-> 0, len |-> n]
<1>1. [data EXCEPT !.len = MinOf(data.len, MaxPacket)]
        = [of |-> of, off |-> 0, len |-> MinOf(n, MaxPacket)]
  OBVIOUS
<1>2. data.len = n
  OBVIOUS
<1> HIDE DEF data
<1>3. Transmit([d EXCEPT !.ep0 = [state |-> "DATA_IN", asked |-> d.ep0.asked,
                                  total |-> n, rem |-> n]], data)
        = CtlSendData(d, of, n)
  BY DEF CtlSendData, data
<1> QED
  BY <1>1, <1>2, <1>3 DEF Transmit, SameInput, Devices

LEMMA StatusEffect ==
    ASSUME NEW d \in Devices
    PROVE  LET e == CtlSendStatus(d)
           IN  /\ SameInput(d, e) /\ e.in_stall = d.in_stall
               /\ e.in_txfe = d.in_txfe
<1>1. NoData.len = 0 /\ d.in_txfe \in BOOLEAN
  BY DEF NoData, Devices
<1> QED
  BY <1>1 DEF CtlSendStatus, Transmit, SameInput, Devices

LEMMA ErrorEffect ==
    ASSUME NEW d \in Devices
    PROVE  LET e == CtlError(d)
           IN  SameInput(d, e) /\ e.in_txfe = d.in_txfe
BY DEF CtlError, StallIn, StallOut, SameInput, Devices

LEMMA ReportEffect ==
    ASSUME NEW d \in Devices, NEW n \in Nat
    PROVE  LET e == CtlPrepareRx([d EXCEPT !.IsReportAvailable = TRUE], n)
           IN  /\ SameInput(d, e) /\ e.in_txfe = d.in_txfe
               /\ e.in_stall = d.in_stall /\ e.out_stall = d.out_stall
               /\ e.in_armed = d.in_armed /\ e.dev_state = d.dev_state
               /\ e.ep0.state = "DATA_OUT" /\ e.IsReportAvailable
               /\ e.out_buff = "Report_buf"
<1>1. [Ep0("DATA_OUT") EXCEPT !.rem = n].state = "DATA_OUT"
  BY DEF Ep0
<1> QED
  BY <1>1 DEF CtlPrepareRx, PrepareReceive, SameInput, Devices

\* A request that comes when nothing else is to be done.
LEMMA SetupEffect ==
    ASSUME NEW d \in Devices, ~d.in_txfe, ~d.in_stall, ~d.out_stall, ~d.in_armed
    PROVE  LET e == SetupStage(d)
               req == d.Setup
               n == MinOf(DataLen[req.kind], req.wLength)
           IN  /\ SameInput(d, e)
               /\ req.kind \in Reads =>
                    /\ ~e.in_stall /\ ~e.out_stall /\ e.in_armed
                    /\ e.in_txfe <=> n > 0
                    /\ e.xfer = [of |-> req.kind, off |-> 0,
                                 len |-> MinOf(n, MaxPacket)]
                    /\ e.ep0 = [state |-> "DATA_IN", asked |-> req.wLength,
                                total |-> n, rem |-> n]
               /\ req.kind = "SET_REPORT" =>
                    /\ ~e.in_stall /\ ~e.out_stall /\ ~e.in_armed /\ ~e.in_txfe
                    /\ e.dev_state = d.dev_state
                    /\ e.ep0.state = "DATA_OUT" /\ e.IsReportAvailable
                    /\ e.out_buff = "Report_buf"
               /\ req.kind \notin Reads \cup {"SET_REPORT"} => ~e.in_txfe
               /\ req.kind \notin Reads \cup {"SET_REPORT", "UNSUPPORTED",
                                           "UNKNOWN_CONFIGURATION", "none"}
                    /\ AbleFor(d, req) => ~e.in_stall
<1> DEFINE req   == d.Setup
           stage == [Ep0("SETUP") EXCEPT !.asked = req.wLength]
           e     == [d EXCEPT !.Setup = NoRequest, !.ep0 = stage]
           f     == SetupStage(d)
           n     == MinOf(DataLen[req.kind], req.wLength)
<1>1. /\ req.kind \in Kinds /\ req.wValue \in Nat /\ req.wLength \in Nat
      /\ req \in RequestRecords
  BY DEF Devices, RequestRecords
<1>2. stage \in Stages /\ stage.asked = req.wLength
  BY <1>1 DEF Ep0, Stages
<1>3. /\ e \in Devices /\ SameInput(d, e) /\ e.ep0.asked = req.wLength
      /\ e.dev_state = d.dev_state
      /\ ~e.in_txfe /\ ~e.in_stall /\ ~e.out_stall /\ ~e.in_armed
  BY <1>2, Constants DEF Devices, SameInput
<1>4. f = CASE req.kind \in Reads             -> AnswerRead(e, req)
            [] req.kind = "SET_REPORT"        -> SetReport(e, req)
            [] req.kind = "SET_IDLE"          -> CtlSendStatus(e)
            [] req.kind = "SET_ADDRESS"       -> SetAddress(e, req)
            [] req.kind \in {"SET_CONFIGURATION", "UNKNOWN_CONFIGURATION"} ->
                   SetConfig(e, req)
            [] req.kind = "SET_FEATURE"       -> e
            [] OTHER                          -> CtlError(e)
  BY DEF SetupStage
<1>5. Reads \cap OtherKinds = {}
  BY ControlAssumption
<1> HIDE DEF e, f, req
<1> DEFINE Goal ==
             /\ SameInput(d, f)
             /\ req.kind \in Reads =>
                  /\ ~f.in_stall /\ ~f.out_stall /\ f.in_armed
                  /\ f.in_txfe <=> n > 0
                  /\ f.xfer = [of |-> req.kind, off |-> 0,
                               len |-> MinOf(n, MaxPacket)]
                  /\ f.ep0 = [state |-> "DATA_IN", asked |-> req.wLength,
                              total |-> n, rem |-> n]
             /\ req.kind = "SET_REPORT" =>
                  /\ ~f.in_stall /\ ~f.out_stall /\ ~f.in_armed /\ ~f.in_txfe
                  /\ f.dev_state = d.dev_state
                  /\ f.ep0.state = "DATA_OUT" /\ f.IsReportAvailable
                  /\ f.out_buff = "Report_buf"
             /\ req.kind \notin Reads \cup {"SET_REPORT"} => ~f.in_txfe
             /\ req.kind \notin Reads \cup {"SET_REPORT", "UNSUPPORTED",
                                           "UNKNOWN_CONFIGURATION", "none"}
                  /\ AbleFor(d, req) => ~f.in_stall
<1>8. CASE req.kind \in Reads
  <2>1. f = CtlSendData(e, req.kind, n)
    BY <1>4, <1>5, <1>8 DEF OtherKinds, AnswerRead
  <2>2. n \in Nat
    <3>1. DataLen[req.kind] \in Nat
      BY <1>8, ControlAssumption DEF Reads
    <3> QED
      BY <1>1, <3>1, MinOfType
  <2>3. req.kind # "SET_REPORT"
    BY <1>5, <1>8 DEF OtherKinds
  <2> HIDE DEF n
  <2>4. /\ SameInput(e, f) /\ ~f.in_stall /\ ~f.out_stall /\ f.in_armed
        /\ f.in_txfe <=> n > 0
        /\ f.xfer = [of |-> req.kind, off |-> 0, len |-> MinOf(n, MaxPacket)]
        /\ f.ep0 = [state |-> "DATA_IN", asked |-> e.ep0.asked,
                    total |-> n, rem |-> n]
    <3>1. \A k \in Kinds, m \in Nat :
            LET g == CtlSendData(e, k, m)
            IN  /\ SameInput(e, g) /\ ~g.in_stall /\ ~g.out_stall /\ g.in_armed
                /\ g.in_txfe <=> m > 0
                /\ g.xfer = [of |-> k, off |-> 0, len |-> MinOf(m, MaxPacket)]
                /\ g.ep0 = [state |-> "DATA_IN", asked |-> e.ep0.asked,
                            total |-> m, rem |-> m]
      BY <1>3, AnswerEffect
    <3> QED
      BY <1>1, <2>1, <2>2, <3>1
  <2>5. Goal
    BY <1>3, <1>8, <2>3, <2>4 DEF SameInput
  <2> QED
    BY <2>5 DEF f, req, n
<1>9. CASE req.kind = "SET_REPORT"
  <2>1. f = CtlPrepareRx([e EXCEPT !.IsReportAvailable = TRUE], req.wLength)
    BY <1>4, <1>5, <1>9 DEF OtherKinds, SetReport
  <2>2. req.kind \notin Reads
    BY <1>5, <1>9 DEF OtherKinds
  <2>3. /\ SameInput(e, f) /\ f.in_txfe = e.in_txfe
        /\ f.in_stall = e.in_stall /\ f.out_stall = e.out_stall
        /\ f.in_armed = e.in_armed /\ f.dev_state = e.dev_state
        /\ f.ep0.state = "DATA_OUT" /\ f.IsReportAvailable
        /\ f.out_buff = "Report_buf"
    BY <1>1, <1>3, <2>1, ReportEffect
  <2>4. Goal
    BY <1>3, <1>9, <2>2, <2>3 DEF SameInput
  <2> QED
    BY <2>4 DEF f, req
<1>10. ASSUME req.kind \notin Reads \cup {"SET_REPORT"},
              SameInput(e, f), f.in_txfe = e.in_txfe,
              req.kind \notin {"UNSUPPORTED", "UNKNOWN_CONFIGURATION", "none"} /\ AbleFor(d, req)
                => f.in_stall = e.in_stall
       PROVE  Goal
  BY <1>3, <1>10 DEF SameInput
<1>11. CASE req.kind = "SET_IDLE"
  <2>1. f = CtlSendStatus(e) /\ req.kind \notin Reads \cup {"SET_REPORT"}
    BY <1>4, <1>5, <1>11 DEF OtherKinds
  <2>2. Goal
    BY <1>3, <1>10, <2>1, StatusEffect
  <2> QED
    BY <2>2 DEF f, req
<1>12. CASE req.kind = "SET_ADDRESS"
  <2>1. f = SetAddress(e, req) /\ req.kind \notin Reads \cup {"SET_REPORT"}
    BY <1>4, <1>5, <1>12 DEF OtherKinds
  <2>2. CASE e.dev_state = "CONFIGURED"
    <3>1. f = CtlError(e) /\ ~AbleFor(d, req)
      BY <1>3, <1>12, <2>1, <2>2 DEF SetAddress, AbleFor
    <3>2. Goal
      BY <1>3, <1>10, <2>1, <3>1, ErrorEffect
    <3> QED
      BY <3>2 DEF f, req
  <2>3. CASE e.dev_state # "CONFIGURED"
    <3> DEFINE s == IF req.wValue # 0 THEN "ADDRESSED" ELSE "DEFAULT"
               g == [e EXCEPT !.address = req.wValue, !.dev_state = s]
    <3>1. f = CtlSendStatus(g)
      BY <2>1, <2>3 DEF SetAddress
    <3>2. g \in Devices /\ SameInput(e, g) /\ g.in_stall = e.in_stall
          /\ g.in_txfe = e.in_txfe
      <4>1. s \in {"DEFAULT", "ADDRESSED", "CONFIGURED"}
        OBVIOUS
      <4> HIDE DEF s
      <4> QED
        BY <1>1, <1>3, <4>1 DEF Devices, SameInput
    <3> HIDE DEF g
    <3>3. SameInput(e, f) /\ f.in_stall = e.in_stall /\ f.in_txfe = e.in_txfe
      BY <3>1, <3>2, StatusEffect DEF SameInput
    <3>4. Goal
      BY <1>10, <2>1, <3>3
    <3> QED
      BY <3>4 DEF f, req
  <2> QED
    BY <2>2, <2>3
<1>13. CASE req.kind = "SET_CONFIGURATION"
  <2>1. f = SetConfig(e, req) /\ req.kind \notin Reads \cup {"SET_REPORT"}
    BY <1>4, <1>5, <1>13 DEF OtherKinds
  <2>2. CASE e.dev_state = "DEFAULT"
    <3>1. f = CtlError(e) /\ ~AbleFor(d, req)
      BY <1>3, <1>13, <2>1, <2>2 DEF SetConfig, AbleFor
    <3>2. Goal
      BY <1>3, <1>10, <2>1, <3>1, ErrorEffect
    <3> QED
      BY <3>2 DEF f, req
  <2>3. CASE e.dev_state # "DEFAULT"
    <3> DEFINE s == IF req.wValue = 0 THEN "ADDRESSED" ELSE "CONFIGURED"
               g == [e EXCEPT !.dev_state = s]
    <3>1. e.dev_state \in {"DEFAULT", "ADDRESSED", "CONFIGURED"}
      BY <1>3 DEF Devices
    <3>2. g \in Devices /\ SameInput(e, g) /\ g.in_stall = e.in_stall
          /\ g.in_txfe = e.in_txfe /\ (e.dev_state = s => g = e)
      BY <1>3 DEF Devices, SameInput
    <3>3. f = CtlSendStatus(g)
      BY <1>13, <2>1, <2>3, <3>1, <3>2 DEF SetConfig
    <3> HIDE DEF g
    <3>4. SameInput(e, f) /\ f.in_stall = e.in_stall /\ f.in_txfe = e.in_txfe
      BY <3>2, <3>3, StatusEffect DEF SameInput
    <3>5. Goal
      BY <1>10, <2>1, <3>4
    <3> QED
      BY <3>5 DEF f, req
  <2> QED
    BY <2>2, <2>3
<1>14. CASE req.kind = "SET_FEATURE"
  <2>1. f = e /\ req.kind \notin Reads \cup {"SET_REPORT"}
    BY <1>4, <1>5, <1>14 DEF OtherKinds, SetConfig
  <2>2. Goal
    BY <1>10, <2>1 DEF SameInput
  <2> QED
    BY <2>2 DEF f, req
<1>15. CASE req.kind \in {"UNSUPPORTED", "UNKNOWN_CONFIGURATION", "none"}
  <2>1. f = CtlError(e) /\ req.kind \notin Reads \cup {"SET_REPORT"}
    BY <1>4, <1>5, <1>15 DEF OtherKinds, SetConfig
  <2>2. Goal
    BY <1>3, <1>10, <1>15, <2>1, ErrorEffect
  <2> QED
    BY <2>2 DEF f, req
<1> QED
  BY <1>1, <1>8, <1>9, <1>11, <1>12, <1>13, <1>14, <1>15 DEF Kinds, OtherKinds

LEMMA IrqOutTransfer ==
    TypeOK /\ TypeOK' /\ TransferInv /\ IrqOut => TransferInv'
<1> SUFFICES ASSUME TypeOK, TypeOK', TransferInv, IrqOut, Quiet'
             PROVE  /\ ~dev'.usbrst /\ ~dev'.enumdne
                    /\ (Asked \/ Seen \/ Reading \/ Calling \/ Waiting)'
  BY DEF TransferInv
<1> DEFINE d == [dev EXCEPT !.out_xfrc = FALSE]
<1>1. ~SystemReset
  BY DEF SystemReset, HostAtBoot, Quiet, Ongoing
<1>2. /\ rx_fifo' = rx_fifo /\ host' = host
      /\ dev' = IF dev.out_xfrc THEN DataOutStage(d) ELSE SetupStage(d)
      /\ ran' = IF dev.out_xfrc /\ RunsCall(d) /\ dev.Report_buf = "last"
                  THEN ran + 1 ELSE ran
      /\ OutPending
  BY <1>1 DEF IrqOut
<1>3. /\ ~dev.usbrst /\ ~dev.enumdne
      /\ Asked \/ Seen \/ Reading \/ Calling \/ Waiting
  BY <1>2 DEF TransferInv, Quiet
<1>4. ~Asked /\ ~Reading /\ ~Waiting
  BY <1>2 DEF OutPending, Asked, Reading, Waiting, Bare, Unpended
<1>5. /\ d \in Devices /\ ~d.out_xfrc /\ SameView(dev, d) /\ d.Setup = dev.Setup
      /\ d.ep0 = dev.ep0 /\ d.IsReportAvailable = dev.IsReportAvailable
      /\ d.in_xfrc = dev.in_xfrc /\ d.in_fifo = dev.in_fifo
      /\ d.in_txfe = dev.in_txfe /\ d.in_armed = dev.in_armed
      /\ d.in_stall = dev.in_stall /\ d.out_stall = dev.out_stall
  BY DEF TypeOK, Devices, SameView
<1> HIDE DEF d
<1>6. CASE Seen
  <2>1. /\ Begun /\ dev.Setup = host.req /\ rx_fifo = <<>>
        /\ ~dev.out_xfrc /\ ~dev.in_xfrc /\ ~dev.in_txfe /\ ~dev.in_armed
        /\ ~dev.in_stall /\ ~dev.out_stall /\ dev.in_fifo = <<>>
    BY <1>6 DEF Seen, Bare, Unpended
  <2>2. dev' = SetupStage(d) /\ ran' = ran
    BY <1>2, <2>1
  <2>3. dev'.Setup = NoRequest /\ ~dev'.usbrst /\ ~dev'.enumdne
    BY <1>3, <1>5, <2>2, SetupView DEF SameView
  <2> DEFINE n == MinOf(DataLen[host.req.kind], host.req.wLength)
  <2>4. /\ SameInput(d, dev')
        /\ host.req.kind \in Reads =>
             /\ ~dev'.in_stall /\ ~dev'.out_stall /\ dev'.in_armed
             /\ dev'.in_txfe <=> n > 0
             /\ dev'.xfer = [of |-> host.req.kind, off |-> 0,
                             len |-> MinOf(n, MaxPacket)]
             /\ dev'.ep0 = [state |-> "DATA_IN", asked |-> host.req.wLength,
                            total |-> n, rem |-> n]
        /\ host.req.kind = "SET_REPORT" =>
             /\ ~dev'.in_stall /\ ~dev'.out_stall /\ ~dev'.in_armed
             /\ ~dev'.in_txfe /\ dev'.dev_state = d.dev_state
             /\ dev'.ep0.state = "DATA_OUT" /\ dev'.IsReportAvailable
             /\ dev'.out_buff = "Report_buf"
        /\ host.req.kind \notin Reads \cup {"SET_REPORT"} => ~dev'.in_txfe
        /\ host.req.kind \notin Reads \cup {"SET_REPORT", "UNSUPPORTED",
                                         "UNKNOWN_CONFIGURATION", "none"}
             /\ AbleFor(d, host.req) => ~dev'.in_stall
    BY <1>5, <2>1, <2>2, SetupEffect
  <2>5. ~dev'.in_xfrc /\ ~dev'.out_xfrc /\ dev'.in_fifo = <<>>
    BY <1>5, <2>1, <2>4 DEF SameInput
  <2>6. /\ host.req.kind # "none" /\ host.req.kind \in Kinds
        /\ AbleFor(d, host.req) /\ host.stage = FirstStage(host.req.kind)
        /\ host.req.kind \in Reads => host.req.wLength > 0
    BY <1>5, <2>1, ControlAssumption
       DEF Begun, Able, AbleFor, SameView, RequestRecords
  <2>7. CASE host.req.kind \in Reads
    <3>1. n \in Nat /\ n > 0 /\ Size' = n /\ MaxPacket \in Nat \ {0}
      <4>1. DataLen[host.req.kind] \in Nat \ {0} /\ host.req.wLength \in Nat
        BY <2>7, ControlAssumption DEF Reads, TypeOK, Hosts, RequestRecords
      <4> QED
        BY <1>2, <2>6, <2>7, <4>1, ControlAssumption DEF Size, MinOf
    <3>2. dev'.ep0.rem = n /\ Sent' = 0 /\ Chunk' = MinOf(n, MaxPacket)
      BY <2>4, <2>7, <3>1 DEF Sent, Chunk
    <3>3. host.stage = "DataIn" /\ host.got = 0 /\ ~host.bad
      BY <2>1, <2>6, <2>7, ControlAssumption DEF FirstStage, Begun, OtherKinds
    <3> HIDE DEF n
    <3>4. ToFill'
      BY <1>2, <2>4, <2>5, <2>7, <3>1, <3>2, <3>3 DEF ToFill, Piece
    <3>5. SendingData'
      BY <1>2, <2>4, <2>7, <3>1, <3>2, <3>4 DEF SendingData
    <3> QED
      BY <1>2, <2>1, <2>3, <2>4, <2>5, <2>7, <3>1, <3>3, <3>5 DEF Reading
  <2>8. CASE host.req.kind = "SET_REPORT"
    <3>1. /\ host.req.kind \notin Reads /\ host.stage = "DataOut" /\ ran = 0
          /\ dev.dev_state = "CONFIGURED"
      BY <2>1, <2>6, <2>8, ControlAssumption
         DEF FirstStage, Begun, Able, AbleFor, OtherKinds
    <3> QED
      BY <1>2, <1>5, <2>1, <2>2, <2>3, <2>4, <2>5, <2>8, <3>1
         DEF Calling, SameView
  <2>9. CASE host.req.kind \notin Reads \cup {"SET_REPORT"}
    <3>1. host.stage = "StatusIn"
      BY <2>6, <2>9 DEF FirstStage
    <3> QED
      BY <1>2, <2>1, <2>3, <2>4, <2>5, <2>6, <2>9, <3>1 DEF Waiting, Unpended
  <2> QED
    BY <2>7, <2>8, <2>9
<1>7. CASE Calling
  <2>1. /\ dev.out_xfrc /\ dev.Report_buf = "last" /\ host.stage = "StatusIn"
        /\ rx_fifo = <<>> /\ dev.Setup = NoRequest /\ ran = 0
        /\ host.req.kind = "SET_REPORT"
        /\ d.ep0.state = "DATA_OUT" /\ d.IsReportAvailable
        /\ d.dev_state = "CONFIGURED"
        /\ ~d.in_stall /\ ~d.in_armed /\ ~d.in_xfrc /\ ~d.in_txfe
    BY <1>2, <1>5, <1>7 DEF Calling, OutPending, SameView
  <2>2. dev' = DataOutStage(d)
    BY <1>2, <2>1
  <2>3. dev'.Setup = NoRequest /\ ~dev'.usbrst /\ ~dev'.enumdne
    BY <1>3, <1>5, <2>1, <2>2, DataOutView DEF SameView
  <2>4. d.ep0.rem \in Nat /\ MaxPacket \in Nat
    BY <1>5, ControlAssumption DEF Devices, Stages
  <2>5. CASE d.ep0.rem > MaxPacket
    <3>1. ~(d.ep0.rem <= MaxPacket)
      BY <2>4, <2>5
    <3>2. ~dev'.in_stall /\ ~dev'.in_armed /\ ~dev'.in_xfrc /\ ~dev'.in_txfe
          /\ ~dev'.out_xfrc
      BY <1>5, <2>1, <2>2, <2>5, <3>1 DEF DataOutStage, PrepareReceive, Devices
    <3> QED
      BY <1>2, <2>1, <2>3, <3>2 DEF Waiting, Unpended
  <2>6. CASE d.ep0.rem <= MaxPacket
    <3> DEFINE e == RxReady(d)
    <3>1. dev' = CtlSendStatus(e)
      BY <2>1, <2>2, <2>4, <2>6 DEF DataOutStage
    <3>2. /\ e \in Devices /\ ~e.in_stall /\ ~e.in_xfrc /\ ~e.in_txfe
          /\ ~e.out_xfrc
      BY <1>5, <2>1 DEF RxReady, Devices, NoCall
    <3> HIDE DEF e
    <3>3. ~dev'.in_stall /\ ~dev'.in_xfrc /\ ~dev'.in_txfe /\ ~dev'.out_xfrc
      BY <3>1, <3>2, StatusEffect DEF SameInput
    <3>4. ran' = 1
      BY <1>2, <2>1, <2>6 DEF RunsCall
    <3> QED
      BY <1>2, <2>1, <2>3, <3>3, <3>4 DEF Waiting, Unpended
  <2> QED
    BY <2>4, <2>5, <2>6
<1> QED
  BY <1>3, <1>4, <1>6, <1>7

\* The IN endpoint goes on when the host has taken a packet.
LEMMA DataInEffect ==
    ASSUME NEW d \in Devices, d.ep0.state = "DATA_IN", ~d.in_txfe
    PROVE  LET e == DataInStage(d)
           IN  /\ SameInput(d, e) /\ e.out_stall = d.out_stall
               /\ d.ep0.rem > MaxPacket =>
                    /\ e.in_armed /\ e.in_txfe /\ e.in_stall = d.in_stall
                    /\ e.xfer = [of |-> d.xfer.of, off |-> d.xfer.off,
                                 len |-> MinOf(d.ep0.rem - MaxPacket, MaxPacket)]
                    /\ e.ep0.state = "DATA_IN" /\ e.ep0.asked = d.ep0.asked
                    /\ e.ep0.total = d.ep0.total
                    /\ e.ep0.rem = d.ep0.rem - MaxPacket
               /\ d.ep0.rem <= MaxPacket /\ NeedsEmptyPacket(d.ep0) =>
                    /\ e.in_armed /\ ~e.in_txfe /\ e.in_stall = d.in_stall
                    /\ e.xfer = NoData /\ e.ep0.state = "DATA_IN"
                    /\ e.ep0.asked = 0 /\ e.ep0.total = d.ep0.total
                    /\ e.ep0.rem = d.ep0.rem
               /\ d.ep0.rem <= MaxPacket /\ ~NeedsEmptyPacket(d.ep0) =>
                    e.ep0.state = "STATUS_OUT" /\ ~e.in_txfe
<1> DEFINE e == DataInStage(d)
<1>1. /\ d.ep0 \in Stages /\ d.xfer \in Data
      /\ d.ep0.rem \in Nat /\ MaxPacket \in Nat \ {0}
  BY ControlAssumption DEF Devices, Stages
<1>2. CASE d.ep0.rem > MaxPacket
  <2> DEFINE rem   == d.ep0.rem - MaxPacket
             stage == [d.ep0 EXCEPT !.rem = rem]
             data  == [d.xfer EXCEPT !.len = rem]
             sent  == [data EXCEPT !.len = MinOf(data.len, MaxPacket)]
  <2>1. ~(d.ep0.rem <= MaxPacket) /\ rem \in Nat /\ rem > 0
    BY <1>1, <1>2
  <2> HIDE DEF rem
  <2>2. /\ stage.state = "DATA_IN" /\ stage.asked = d.ep0.asked
        /\ stage.total = d.ep0.total /\ stage.rem = rem
    BY <1>1 DEF Stages
  <2>3. data.len = rem /\ sent = [of |-> d.xfer.of, off |-> d.xfer.off,
                                  len |-> MinOf(rem, MaxPacket)]
    <3>1. data = [of |-> d.xfer.of, off |-> d.xfer.off, len |-> rem]
      BY <1>1 DEF Data
    <3> HIDE DEF data
    <3> QED
      BY <3>1
  <2>4. e = PrepareReceive(Transmit([d EXCEPT !.ep0 = stage], data), "NULL")
    BY <1>2, <2>1 DEF DataInStage, rem
  <2> HIDE DEF stage, data, e
  <2>5. /\ SameInput(d, e) /\ e.out_stall = d.out_stall /\ e.in_armed /\ e.in_txfe
        /\ e.in_stall = d.in_stall /\ e.ep0 = stage /\ e.xfer = sent
    BY <2>1, <2>3, <2>4 DEF PrepareReceive, Transmit, SameInput, Devices
  <2> HIDE DEF sent
  <2>6. /\ e.xfer = [of |-> d.xfer.of, off |-> d.xfer.off,
                     len |-> MinOf(d.ep0.rem - MaxPacket, MaxPacket)]
        /\ e.ep0.rem = d.ep0.rem - MaxPacket
    BY <2>2, <2>3, <2>5 DEF rem
  <2> QED
    BY <2>1, <2>2, <2>5, <2>6 DEF e
<1>3. CASE d.ep0.rem <= MaxPacket /\ NeedsEmptyPacket(d.ep0)
  <2> DEFINE stage == [d.ep0 EXCEPT !.asked = 0]
             sent  == [NoData EXCEPT !.len = MinOf(NoData.len, MaxPacket)]
  <2>1. ~(d.ep0.rem > MaxPacket)
    BY <1>1, <1>3
  <2>2. /\ stage.state = "DATA_IN" /\ stage.asked = 0
        /\ stage.total = d.ep0.total /\ stage.rem = d.ep0.rem
    BY <1>1 DEF Stages
  <2>3. NoData.len = 0 /\ sent = NoData
    BY <1>1 DEF NoData, MinOf
  <2>4. e = PrepareReceive(Transmit([d EXCEPT !.ep0 = stage], NoData), "NULL")
    BY <1>3, <2>1 DEF DataInStage
  <2> HIDE DEF stage, e
  <2>5. /\ SameInput(d, e) /\ e.out_stall = d.out_stall /\ e.in_armed
        /\ ~e.in_txfe /\ e.in_stall = d.in_stall /\ e.ep0 = stage /\ e.xfer = sent
    BY <2>3, <2>4 DEF PrepareReceive, Transmit, SameInput, Devices
  <2> HIDE DEF sent
  <2> QED
    BY <1>3, <2>1, <2>2, <2>3, <2>5 DEF e
<1>4. CASE d.ep0.rem <= MaxPacket /\ ~NeedsEmptyPacket(d.ep0)
  <2>1. ~(d.ep0.rem > MaxPacket)
    BY <1>1, <1>4
  <2>2. e = CtlReceiveStatus(StallIn(d))
    BY <1>4, <2>1 DEF DataInStage
  <2>3. Ep0("STATUS_OUT").state = "STATUS_OUT"
    BY DEF Ep0
  <2> HIDE DEF e
  <2>4. /\ SameInput(d, e) /\ e.out_stall = d.out_stall /\ ~e.in_txfe
        /\ e.ep0 = Ep0("STATUS_OUT")
    BY <2>2 DEF CtlReceiveStatus, PrepareReceive, StallIn, SameInput, Devices
  <2> QED
    BY <1>4, <2>1, <2>3, <2>4 DEF e
<1> QED
  BY <1>1, <1>2, <1>3, <1>4

\* Where the read stands when nothing it depends on has changed.
LEMMA TransferFrame ==
    ASSUME TransferInv, Quiet', UNCHANGED <<dev, rx_fifo, host, ran>>
    PROVE  /\ ~dev'.usbrst /\ ~dev'.enumdne
           /\ (Asked \/ Seen \/ Reading \/ Calling \/ Waiting)'
<1>1. Quiet
  BY DEF Quiet
<1>2. /\ ~dev.usbrst /\ ~dev.enumdne
      /\ Asked \/ Seen \/ Reading \/ Calling \/ Waiting
  BY <1>1 DEF TransferInv
<1>3. /\ Asked' = Asked /\ Seen' = Seen
  BY DEF Asked, Seen, Begun, Bare, Unpended, Able
<1>4. Reading' = Reading
  <2>1. Size' = Size /\ Sent' = Sent /\ Chunk' = Chunk
    BY DEF Size, Sent, Chunk
  <2>2. ToFill' = ToFill /\ Filled' = Filled /\ Taken' = Taken
    BY <2>1 DEF ToFill, Filled, Taken, Piece
  <2>3. SendingData' = SendingData /\ SendingEmpty' = SendingEmpty
    BY <2>1, <2>2 DEF SendingData, SendingEmpty
  <2> QED
    BY <2>1, <2>3 DEF Reading, ReadClosed
<1>5. Calling' = Calling /\ Waiting' = Waiting
  BY DEF Calling, Waiting, Unpended
<1> QED
  BY <1>2, <1>3, <1>4, <1>5

LEMMA IrqInTransfer == TypeOK /\ TypeOK' /\ TransferInv /\ IrqIn => TransferInv'
<1> SUFFICES ASSUME TypeOK, TypeOK', TransferInv, IrqIn, Quiet'
             PROVE  /\ ~dev'.usbrst /\ ~dev'.enumdne
                    /\ (Asked \/ Seen \/ Reading \/ Calling \/ Waiting)'
  BY DEF TransferInv
<1> DEFINE d == [dev EXCEPT !.in_xfrc = FALSE, !.in_txfe = FALSE]
<1>1. /\ UNCHANGED <<rx_fifo, host, ran>>
      /\ dev' = CASE dev.in_xfrc -> DataInStage(d)
                  [] InPending /\ ~dev.in_xfrc -> WriteEmptyTxFifo(dev)
                  [] OTHER -> dev
  BY DEF IrqIn
<1>2. /\ ~dev.usbrst /\ ~dev.enumdne
      /\ Asked \/ Seen \/ Reading \/ Calling \/ Waiting
  BY <1>1 DEF TransferInv, Quiet
<1>3. /\ d \in Devices /\ ~d.in_xfrc /\ ~d.in_txfe /\ SameView(dev, d)
      /\ d.Setup = dev.Setup /\ d.ep0 = dev.ep0 /\ d.xfer = dev.xfer
      /\ d.out_xfrc = dev.out_xfrc /\ d.in_fifo = dev.in_fifo
      /\ d.in_stall = dev.in_stall /\ d.out_stall = dev.out_stall
  BY DEF TypeOK, Devices, SameView
<1> HIDE DEF d
<1>4. CASE ~InPending
  <2>1. dev' = dev
    BY <1>1, <1>4 DEF InPending
  <2> QED
    BY <1>1, <2>1, TransferFrame
<1>5. CASE InPending
  <2>1. Reading
    BY <1>2, <1>5 DEF InPending, Asked, Seen, Bare, Unpended, Calling, Waiting
  <2>2. /\ host.req.kind \in Reads /\ ~host.bad /\ rx_fifo = <<>>
        /\ dev.Setup = NoRequest /\ ~dev.out_xfrc /\ ~dev.out_stall
        /\ host.stage \in {"DataIn", "StatusOut"}
        /\ dev.ep0.state = "DATA_IN" /\ dev.ep0.total = Size /\ ~dev.in_stall
        /\ SendingData \/ SendingEmpty
    BY <1>5, <2>1 DEF Reading, ReadClosed, InPending
  <2>3. /\ Size \in Nat /\ Size <= host.req.wLength /\ host.req.wLength \in Nat
        /\ dev.ep0.rem \in Nat /\ MaxPacket \in Nat \ {0}
        /\ Chunk \in Nat /\ Chunk <= MaxPacket
        /\ dev.ep0.rem > MaxPacket => Chunk = MaxPacket
        /\ dev.ep0.rem <= MaxPacket => Chunk = dev.ep0.rem
        /\ dev.ep0.rem <= Size => Sent \in Nat
    BY <2>2, ReadSizes
  <2>4. Size' = Size /\ Piece(Sent, Chunk)' = [of |-> host.req.kind,
                                               off |-> Sent', len |-> Chunk']
    BY <1>1 DEF Size, Piece
  <2>5. CASE dev.in_xfrc
    <3>1. dev' = DataInStage(d)
      BY <1>1, <2>5
    <3>2. dev'.Setup = NoRequest /\ ~dev'.usbrst /\ ~dev'.enumdne
      BY <1>2, <1>3, <2>2, <3>1, DataInView DEF SameView
    <3>3. /\ SameInput(d, dev') /\ dev'.out_stall = d.out_stall
          /\ dev.ep0.rem > MaxPacket =>
               /\ dev'.in_armed /\ dev'.in_txfe /\ dev'.in_stall = d.in_stall
               /\ dev'.xfer = [of |-> d.xfer.of, off |-> d.xfer.off,
                               len |-> MinOf(dev.ep0.rem - MaxPacket, MaxPacket)]
               /\ dev'.ep0.state = "DATA_IN" /\ dev'.ep0.asked = dev.ep0.asked
               /\ dev'.ep0.total = dev.ep0.total
               /\ dev'.ep0.rem = dev.ep0.rem - MaxPacket
          /\ dev.ep0.rem <= MaxPacket /\ NeedsEmptyPacket(dev.ep0) =>
               /\ dev'.in_armed /\ ~dev'.in_txfe /\ dev'.in_stall = d.in_stall
               /\ dev'.xfer = NoData /\ dev'.ep0.state = "DATA_IN"
               /\ dev'.ep0.asked = 0 /\ dev'.ep0.total = dev.ep0.total
               /\ dev'.ep0.rem = dev.ep0.rem
          /\ dev.ep0.rem <= MaxPacket /\ ~NeedsEmptyPacket(dev.ep0) =>
               dev'.ep0.state = "STATUS_OUT" /\ ~dev'.in_txfe
      BY <1>3, <2>2, <3>1, DataInEffect
    <3>4. ~dev'.in_xfrc /\ ~dev'.out_xfrc /\ ~dev'.out_stall
          /\ dev'.in_fifo = dev.in_fifo
      BY <1>3, <2>2, <3>3 DEF SameInput
    <3>5. CASE SendingData
      <4>1. /\ dev.ep0.asked = host.req.wLength /\ dev.ep0.rem \in 1 .. Size
            /\ Sent % MaxPacket = 0 /\ Taken
        BY <2>5, <3>5 DEF SendingData, ToFill, Filled
      <4>2. /\ dev.in_fifo = <<>> /\ dev.xfer = Piece(Sent + Chunk, 0)
            /\ host.got = Sent + Chunk
            /\ \/ host.stage = "StatusOut" /\ host.early
               \/ /\ host.stage = "DataIn"
                  /\ Chunk = MaxPacket /\ host.got < host.req.wLength
               \/ /\ host.stage = "StatusOut" /\ host.got = Size
                  /\ Chunk < MaxPacket \/ host.got = host.req.wLength
        BY <4>1 DEF Taken
      <4>3. Sent \in Nat /\ Sent = Size - dev.ep0.rem
        BY <2>3, <4>1 DEF Sent
      <4>4. CASE dev.ep0.rem > MaxPacket
        <5>1. /\ dev'.ep0.rem = dev.ep0.rem - MaxPacket
              /\ dev'.ep0.rem \in 1 .. Size /\ Chunk = MaxPacket
          BY <2>3, <3>3, <4>1, <4>4
        <5>2. Sent' = Sent + MaxPacket /\ Chunk' = MinOf(dev'.ep0.rem, MaxPacket)
          BY <2>3, <2>4, <4>3, <5>1 DEF Sent, Chunk
        <5>3. Sent' % MaxPacket = 0
          BY <2>3, <4>1, <4>3, <5>2, NextPacket
        <5>4. d.xfer.of = host.req.kind /\ d.xfer.off = Sent'
          BY <1>3, <4>2, <5>1, <5>2 DEF Piece
        <5>5. dev'.xfer = Piece(Sent, Chunk)'
          BY <2>4, <3>3, <4>4, <5>1, <5>2, <5>4
        <5>6. host.stage = "DataIn" \/ host.early
          BY <2>3, <4>2, <4>3, <4>4, <5>1
        <5>7. ToFill'
          BY <1>1, <3>3, <3>4, <4>2, <4>4, <5>1, <5>2, <5>5, <5>6 DEF ToFill
        <5>8. SendingData'
          BY <1>1, <2>4, <3>3, <4>1, <4>4, <5>1, <5>3, <5>7 DEF SendingData
        <5> QED
          BY <1>1, <1>3, <2>2, <2>4, <3>2, <3>3, <3>4, <4>4, <5>8 DEF Reading
      <4>5. CASE dev.ep0.rem <= MaxPacket
        <5>1. Chunk = dev.ep0.rem /\ host.got = Size
          BY <2>3, <4>2, <4>3, <4>5
        <5>2. CASE NeedsEmptyPacket(dev.ep0)
          <6>1. Size % MaxPacket = 0 /\ Size < host.req.wLength
            BY <2>2, <4>1, <5>2 DEF NeedsEmptyPacket
          <6>2. ~(Chunk < MaxPacket)
            <7> SUFFICES ASSUME Chunk < MaxPacket
                         PROVE  FALSE
              OBVIOUS
            <7>1. dev.ep0.rem \in 1 .. MaxPacket - 1 /\ Sent + dev.ep0.rem = Size
              BY <2>3, <4>1, <4>3, <5>1
            <7> QED
              BY <2>3, <4>1, <4>3, <6>1, <7>1, ShortPacket
          <6>3. host.stage = "DataIn" \/ host.early
            BY <2>3, <4>2, <5>1, <6>1, <6>2
          <6>4. SendingEmpty'
            BY <1>1, <2>4, <3>3, <3>4, <4>2, <4>5, <5>1, <5>2, <6>3
               DEF SendingEmpty
          <6> QED
            BY <1>1, <1>3, <2>2, <2>4, <3>2, <3>3, <3>4, <4>5, <5>2, <6>4
               DEF Reading
        <5>3. CASE ~NeedsEmptyPacket(dev.ep0)
          <6>1. host.stage = "StatusOut"
            <7> SUFFICES ASSUME host.stage # "StatusOut"
                         PROVE  FALSE
              OBVIOUS
            <7>1. /\ dev.ep0.rem = MaxPacket /\ Size < host.req.wLength
                  /\ Size = Sent + MaxPacket
              BY <2>3, <4>2, <4>3, <5>1
            <7>2. Size % MaxPacket = 0
              BY <2>3, <4>1, <4>3, <7>1, NextPacket
            <7>3. Size >= MaxPacket
              BY <2>3, <4>3, <7>1
            <7> QED
              BY <2>2, <4>1, <5>3, <7>1, <7>2, <7>3 DEF NeedsEmptyPacket
          <6>2. ReadClosed'
            BY <1>1, <2>4, <3>3, <3>4, <4>5, <5>1, <5>3, <6>1 DEF ReadClosed
          <6> QED
            BY <1>1, <2>2, <3>2, <3>3, <3>4, <4>5, <5>3, <6>2 DEF Reading
        <5> QED
          BY <5>2, <5>3
      <4> QED
        BY <2>3, <4>4, <4>5
    <3>6. CASE SendingEmpty
      <4>1. /\ dev.ep0.asked = 0 /\ dev.ep0.rem <= MaxPacket
            /\ host.got = Size /\ host.stage = "StatusOut"
        BY <2>5, <3>6 DEF SendingEmpty
      <4>2. ~NeedsEmptyPacket(dev.ep0)
        BY <2>2, <2>3, <4>1 DEF NeedsEmptyPacket
      <4>3. ReadClosed'
        BY <1>1, <2>4, <3>3, <3>4, <4>1, <4>2 DEF ReadClosed
      <4> QED
        BY <1>1, <2>2, <3>2, <3>3, <3>4, <4>1, <4>2, <4>3 DEF Reading
    <3> QED
      BY <2>2, <3>5, <3>6
  <2>6. CASE ~dev.in_xfrc
    <3>1. dev.in_txfe /\ dev' = WriteEmptyTxFifo(dev)
      BY <1>1, <1>5, <2>6 DEF InPending
    <3>2. SendingData /\ ToFill
      BY <2>2, <2>6, <3>1 DEF SendingData, SendingEmpty, Filled, Taken
    <3>3. /\ dev.xfer = Piece(Sent, Chunk) /\ host.got = Sent /\ dev.in_armed
          /\ host.stage = "DataIn" \/ host.early
          /\ dev.ep0.rem \in 1 .. Size /\ dev.ep0.asked = host.req.wLength
          /\ Sent % MaxPacket = 0
      BY <3>2 DEF ToFill, SendingData
    <3>4. Chunk > 0
      BY <2>3, <3>3
    <3>5. dev.xfer.len = Chunk /\ dev.xfer.off = Sent /\ dev.xfer.of = host.req.kind
      BY <3>3 DEF Piece
    <3>6. /\ dev'.in_fifo = <<dev.xfer>> /\ ~dev'.in_txfe
          /\ dev'.xfer = [of |-> dev.xfer.of, off |-> dev.xfer.off + dev.xfer.len,
                          len |-> 0]
          /\ dev'.in_armed = dev.in_armed /\ dev'.ep0 = dev.ep0
          /\ dev'.in_xfrc = dev.in_xfrc /\ dev'.out_xfrc = dev.out_xfrc
          /\ dev'.in_stall = dev.in_stall /\ dev'.out_stall = dev.out_stall
          /\ dev'.Setup = dev.Setup /\ dev'.usbrst = dev.usbrst
          /\ dev'.enumdne = dev.enumdne
      BY <3>1, <3>4, <3>5 DEF WriteEmptyTxFifo, TypeOK, Devices
    <3>7. Sent' = Sent /\ Chunk' = Chunk
      BY <2>4, <3>6 DEF Sent, Chunk
    <3>8. Filled'
      BY <1>1, <2>6, <3>3, <3>5, <3>6, <3>7 DEF Filled, Piece
    <3>9. SendingData'
      BY <1>1, <2>4, <3>3, <3>6, <3>7, <3>8 DEF SendingData
    <3> QED
      BY <1>1, <1>2, <2>2, <2>4, <3>6, <3>9 DEF Reading
  <2> QED
    BY <2>5, <2>6
<1> QED
  BY <1>4, <1>5

LEMMA IrqRestTransfer ==
    TypeOK /\ TypeOK' /\ TransferInv /\ IrqRest => TransferInv'
<1> SUFFICES ASSUME TypeOK, TypeOK', TransferInv, IrqRest, Quiet'
             PROVE  /\ ~dev'.usbrst /\ ~dev'.enumdne
                    /\ (Asked \/ Seen \/ Reading \/ Calling \/ Waiting)'
  BY DEF TransferInv
<1>1. UNCHANGED <<host, ran>>
  BY DEF IrqRest
<1>2. /\ ~dev.usbrst /\ ~dev.enumdne
      /\ Asked \/ Seen \/ Reading \/ Calling \/ Waiting
  BY <1>1 DEF TransferInv, Quiet
<1>3. /\ rx_fifo = <<>> => dev' = dev /\ rx_fifo' = rx_fifo
      /\ rx_fifo # <<>> => dev' = ReadPacket(dev, Head(rx_fifo))
                           /\ rx_fifo' = Tail(rx_fifo)
  BY <1>2 DEF IrqRest
<1>4. CASE rx_fifo = <<>>
  BY <1>1, <1>3, <1>4, TransferFrame
<1>5. CASE rx_fifo # <<>> /\ Asked
  <2>1. /\ Begun /\ Bare /\ dev.Setup = NoRequest
        /\ rx_fifo = <<SetupPacket(host.req)>>
    BY <1>5 DEF Asked
  <2>2. /\ Head(rx_fifo) = SetupPacket(host.req) /\ rx_fifo' = <<>>
    BY <1>3, <1>5, <2>1
  <2>3. /\ SetupPacket(host.req).type = "SETUP"
        /\ SetupPacket(host.req).req = host.req
    BY DEF SetupPacket
  <2>4. dev' = [dev EXCEPT !.Setup = host.req]
    BY <1>3, <1>5, <2>2, <2>3 DEF ReadPacket
  <2>5. dev'.Setup = host.req /\ Begun' /\ Bare'
    BY <1>1, <2>1, <2>4 DEF Begun, Able, AbleFor, Bare, Unpended, TypeOK,
                               Devices
  <2>6. ~dev'.usbrst /\ ~dev'.enumdne
    BY <1>2, <2>4 DEF TypeOK, Devices
  <2> QED
    BY <1>1, <2>2, <2>5, <2>6 DEF Seen
<1>6. CASE rx_fifo # <<>> /\ Calling
  <2>1. /\ host.stage = "StatusIn" /\ rx_fifo = <<OutPacket("last")>>
        /\ ~dev.out_xfrc /\ dev.out_buff = "Report_buf"
    BY <1>6 DEF Calling
  <2>2. Head(rx_fifo) = OutPacket("last") /\ rx_fifo' = <<>>
    BY <1>3, <1>6, <2>1
  <2>3. /\ OutPacket("last").type = "OUT" /\ OutPacket("last").call = "last"
        /\ "last" # NoCall
    BY DEF OutPacket, NoCall
  <2>4. dev' = [dev EXCEPT !.out_xfrc = TRUE, !.out_buff = "End",
                           !.Report_buf = "last"]
    BY <1>3, <1>6, <2>1, <2>2, <2>3 DEF ReadPacket
  <2>5. /\ dev'.out_xfrc /\ dev'.Report_buf = "last" /\ dev'.Setup = dev.Setup
        /\ dev'.in_stall = dev.in_stall /\ dev'.out_stall = dev.out_stall
        /\ dev'.in_armed = dev.in_armed /\ dev'.in_xfrc = dev.in_xfrc
        /\ dev'.in_txfe = dev.in_txfe /\ dev'.dev_state = dev.dev_state
        /\ dev'.ep0 = dev.ep0 /\ dev'.IsReportAvailable = dev.IsReportAvailable
        /\ ~dev'.usbrst /\ ~dev'.enumdne
    BY <1>2, <2>4 DEF TypeOK, Devices
  <2>6. Calling'
    BY <1>1, <1>6, <2>1, <2>2, <2>5 DEF Calling
  <2> QED
    BY <2>5, <2>6
<1> QED
  BY <1>2, <1>4, <1>5, <1>6 DEF Seen, Reading, Waiting

\* A host that begins a request when the device has nothing left to do knows the
\* state it is in.
LEMMA AbleWhenIdle ==
    ASSUME TypeOK, ViewInv, ~IrqPending, host.stage # "Reset",
           host.address = dev.address, NEW req \in Requests, Legal(req),
           ~(Changing(host) /\ host.req.kind = "SET_ADDRESS")
    PROVE  AbleFor(dev, req)
<1>1. ~Resetting /\ Held = NoRequest /\ rx_fifo = <<>> /\ Known = View(dev)
  BY DEF IrqPending, OutPending, BusPending, Resetting, Held, Known
<1>2. PICK f : /\ Course(f, rx_fifo, NoRequest)
               /\ Starts(f[0], View(dev), host.overtaken)
               /\ Agrees(f[Len(rx_fifo) + 1], host)
  BY <1>1 DEF ViewInv, Foretold
<1>3. f[1] = f[0]
  <2>1. Len(rx_fifo) = 0 /\ 0 \in 0 .. 0 /\ 0 + 1 = 1
    BY <1>1
  <2> QED
    BY <1>2, <2>1, AfterNone DEF Course, Ahead
<1>4. Agrees(f[0], host) /\ f[0].dev_state = dev.dev_state
  BY <1>1, <1>2, <1>3 DEF Starts, View
<1>5. CASE req.kind = "SET_ADDRESS"
  <2>1. host.state = "DEFAULT"
    BY <1>5 DEF Legal, ClassRequests
  <2>2. dev.address = 0
    BY <2>1 DEF ViewInv, KeepsOrder
  <2>3. dev.dev_state = "DEFAULT"
    BY <1>1, <2>2 DEF ViewInv, ResetsInOrder
  <2> QED
    BY <1>5, <2>3 DEF AbleFor
<1>6. CASE req.kind = "SET_CONFIGURATION"
  <2>1. host.state # "DEFAULT"
    BY <1>6 DEF Legal, ClassRequests
  <2>2. ToKnow(host).state # "DEFAULT"
    <3>1. CASE Changing(host)
      <4>1. ToKnow(host) = Acknowledged(host) /\ host.req.kind # "SET_ADDRESS"
        BY <3>1 DEF ToKnow
      <4> QED
        BY <3>1, <4>1, Acknowledges DEF TypeOK
    <3>2. CASE ~Changing(host)
      BY <2>1, <3>2 DEF ToKnow
    <3> QED
      BY <3>1, <3>2
  <2> QED
    BY <1>4, <1>6, <2>2 DEF Agrees, AbleFor
<1>7. CASE req.kind = "SET_REPORT"
  <2>1. host.state = "CONFIGURED" /\ host.sure /\ ~Changing(host)
    BY <1>7 DEF Legal, ClassRequests, GivesUpChange, Changing
  <2>2. dev.dev_state = "CONFIGURED"
    BY <1>4, <2>1 DEF Agrees, ToKnow
  <2> QED
    BY <1>7, <2>2 DEF AbleFor
<1> QED
  BY <1>5, <1>6, <1>7 DEF AbleFor

LEMMA HostSetupTransfer ==
    TypeOK /\ TypeOK' /\ ViewInv /\ TransferInv /\ AnyHostSetup => TransferInv'
<1> SUFFICES ASSUME TypeOK, TypeOK', ViewInv, NEW req \in Requests, HostSetup(req),
                    Quiet'
             PROVE  Asked' /\ ~dev'.usbrst /\ ~dev'.enumdne
  BY DEF AnyHostSetup, TransferInv
<1> DEFINE aged == [i \in DOMAIN rx_fifo |->
                      [rx_fifo[i] EXCEPT !.call = Aged(rx_fifo[i].call, req)]]
<1>1. /\ rx_fifo' = Append(aged, SetupPacket(req))
      /\ host.stage # "Reset" /\ Legal(req) /\ host.address = dev.address
      /\ ~(Changing(host) /\ host.req.kind = "SET_ADDRESS")
      /\ ran' = IF req.kind = "SET_REPORT" THEN 0 ELSE ran
  BY DEF HostSetup, Changing
<1>2. /\ host'.stage = FirstStage(req.kind) /\ host'.req = req /\ host'.got = 0
      /\ ~host'.bad /\ (host'.rushed <=> Unserved)
  BY DEF HostSetup, TypeOK, Hosts
<1>3. ~Unserved
  BY <1>2 DEF Quiet
<1>4. ~IrqPending /\ ~dev.in_txfe /\ ~dev.in_xfrc /\ ~dev.out_xfrc
      /\ dev.Setup = NoRequest /\ ~dev.usbrst /\ ~dev.enumdne /\ rx_fifo = <<>>
  BY <1>3 DEF Unserved, IrqPending, OutPending, InPending, BusPending
<1>5. rx_fifo' = <<SetupPacket(req)>>
  <2>1. aged = <<>>
    BY <1>4
  <2> QED
    BY <1>1, <2>1
<1>6. /\ ~dev'.in_armed /\ ~dev'.out_armed /\ ~dev'.in_stall /\ ~dev'.out_stall
      /\ dev'.in_fifo = <<>> /\ dev'.Setup = NoRequest
      /\ ~dev'.in_txfe /\ ~dev'.in_xfrc /\ ~dev'.out_xfrc
      /\ ~dev'.usbrst /\ ~dev'.enumdne /\ dev'.dev_state = dev.dev_state
  BY <1>4 DEF HostSetup, TypeOK, Devices
<1>7. AbleFor(dev, req)
  BY <1>1, <1>4, AbleWhenIdle
<1>8. Begun'
  BY <1>1, <1>2, <1>6, <1>7 DEF Begun, Able, AbleFor
<1> QED
  BY <1>2, <1>5, <1>6, <1>8 DEF Asked, Bare, Unpended

LEMMA HostInTransfer == TypeOK /\ TypeOK' /\ TransferInv /\ HostIn => TransferInv'
<1> SUFFICES ASSUME TypeOK, TypeOK', TransferInv, HostIn, Quiet'
             PROVE  Reading' /\ ~dev'.usbrst /\ ~dev'.enumdne
  BY DEF TransferInv
<1>1. host.stage # "StatusIn" /\ ~(dev.in_stall /\ HostStalled)
  <2>1. host'.stage \notin {"Done", "Stalled"}
    BY DEF Quiet, Ongoing
  <2>2. ~HostStalled
    BY <2>1 DEF HostStalled, Over, TypeOK, Hosts
  <2>3. Acknowledged(host) \in Hosts
    <3>1. host.req.wValue \in Nat
      BY DEF TypeOK, Hosts, RequestRecords
    <3> QED
      BY <3>1 DEF Acknowledged, TypeOK, Hosts
  <2>4. host' # Over(Acknowledged(host), "Done")
    BY <2>1, <2>3 DEF Over, Hosts
  <2> QED
    BY <2>2, <2>4 DEF HostIn
<1>2. /\ host.stage = "DataIn" /\ ~dev.in_stall /\ dev.in_armed
      /\ dev.in_fifo # <<>> \/ dev.xfer = NoData
      /\ host' = WithData(host, InPacket)
      /\ dev' = [dev EXCEPT !.in_armed = FALSE, !.in_fifo = <<>>, !.in_xfrc = TRUE]
      /\ rx_fifo' = rx_fifo
  BY <1>1 DEF HostIn
<1>3. /\ dev'.in_fifo = <<>> /\ ~dev'.in_armed /\ dev'.in_xfrc
      /\ dev'.ep0 = dev.ep0 /\ dev'.xfer = dev.xfer /\ dev'.in_txfe = dev.in_txfe
      /\ dev'.out_xfrc = dev.out_xfrc /\ dev'.in_stall = dev.in_stall
      /\ dev'.out_stall = dev.out_stall /\ dev'.Setup = dev.Setup
      /\ dev'.usbrst = dev.usbrst /\ dev'.enumdne = dev.enumdne
  BY <1>2 DEF TypeOK, Devices
<1> DEFINE p    == InPacket
           last == p.len < MaxPacket \/ host.got + p.len >= host.req.wLength
<1>4. /\ host'.got = host.got + p.len /\ host'.req = host.req
      /\ host'.rushed = host.rushed
      /\ host'.bad <=> host.bad \/ (p.len > 0 /\ (p.of # host.req.kind
                                                  \/ p.off # host.got))
      /\ host'.stage = IF last THEN "StatusOut" ELSE "DataIn"
  BY <1>2 DEF WithData, TypeOK, Hosts
<1>5. Quiet
  BY <1>2, <1>4 DEF Quiet, Ongoing
<1>6. Reading /\ ~dev.usbrst /\ ~dev.enumdne
  BY <1>2, <1>5 DEF TransferInv, Asked, Seen, Bare, Calling, Waiting
<1>7. /\ host.req.kind \in Reads /\ ~host.bad /\ rx_fifo = <<>>
      /\ dev.Setup = NoRequest /\ ~dev.out_xfrc /\ ~dev.out_stall
      /\ dev.ep0.state = "DATA_IN" /\ dev.ep0.total = Size
      /\ SendingData \/ SendingEmpty
  BY <1>2, <1>6 DEF Reading, ReadClosed
<1>8. /\ Size \in Nat /\ Size <= host.req.wLength /\ host.req.wLength \in Nat
      /\ dev.ep0.rem \in Nat /\ MaxPacket \in Nat \ {0}
      /\ Chunk \in Nat /\ Chunk <= MaxPacket /\ Chunk <= dev.ep0.rem
      /\ dev.ep0.rem > MaxPacket => Chunk = MaxPacket
      /\ dev.ep0.rem <= MaxPacket => Chunk = dev.ep0.rem
      /\ dev.ep0.rem <= Size => Sent \in Nat
      /\ host.req.kind \notin OtherKinds
  BY <1>7, ReadSizes
<1>9. Size' = Size /\ Sent' = Sent /\ Chunk' = Chunk
  BY <1>3, <1>4 DEF Size, Sent, Chunk
<1>10. CASE SendingData
  <2>1. dev.xfer # NoData
    <3>1. dev.xfer.of # NoData.of
      <4>1. \/ dev.xfer = Piece(Sent, Chunk)
            \/ dev.xfer = Piece(Sent + Chunk, 0)
        BY <1>10 DEF SendingData, ToFill, Filled, Taken
      <4>2. dev.xfer.of = host.req.kind
        BY <4>1 DEF Piece
      <4>3. NoData.of = "none" /\ "none" \in OtherKinds
        BY DEF NoData, OtherKinds
      <4> QED
        BY <1>8, <4>2, <4>3
    <3> QED
      BY <3>1
  <2>2. Filled
    BY <1>2, <1>10, <2>1 DEF SendingData, ToFill, Taken
  <2>3. /\ dev.in_fifo = <<Piece(Sent, Chunk)>> /\ ~dev.in_txfe
        /\ dev.xfer = Piece(Sent + Chunk, 0) /\ host.got = Sent
        /\ dev.ep0.asked = host.req.wLength /\ dev.ep0.rem \in 1 .. Size
        /\ Sent % MaxPacket = 0
    BY <1>10, <2>2 DEF Filled, SendingData
  <2>4. p = Piece(Sent, Chunk)
    BY <2>3 DEF InPacket
  <2> HIDE DEF p
  <2>5. p.of = host.req.kind /\ p.off = Sent /\ p.len = Chunk
    BY <2>4 DEF Piece
  <2>6. Sent \in Nat /\ Sent = Size - dev.ep0.rem
    BY <1>8, <2>3 DEF Sent
  <2>7. host'.got = Sent + Chunk /\ ~host'.bad
    BY <1>4, <1>7, <2>3, <2>5
  <2>8. \/ /\ host'.stage = "DataIn"
           /\ Chunk = MaxPacket /\ host'.got < host.req.wLength
        \/ /\ host'.stage = "StatusOut" /\ host'.got = Size
           /\ Chunk < MaxPacket \/ host'.got = host.req.wLength
    <3>1. dev.ep0.rem \in Nat /\ Chunk \in Nat /\ host.req.wLength \in Nat
          /\ MaxPacket \in Nat /\ Size \in Nat
      BY <1>8
    <3>2. CASE Chunk < MaxPacket
      <4>1. host'.stage = "StatusOut"
        BY <1>4, <2>5, <3>2
      <4>2. host'.got = Size
        BY <1>8, <2>6, <2>7, <3>1, <3>2
      <4> QED
        BY <3>2, <4>1, <4>2
    <3>3. CASE ~(Chunk < MaxPacket) /\ host'.got >= host.req.wLength
      <4>1. host'.stage = "StatusOut"
        BY <1>4, <2>5, <3>3
      <4>2. host'.got = Size /\ host'.got = host.req.wLength
        <5>1. Chunk <= dev.ep0.rem /\ Size <= host.req.wLength
          BY <1>8
        <5>2. Sent + Chunk <= Size
          BY <2>6, <3>1, <5>1
        <5> QED
          BY <2>6, <2>7, <3>1, <3>3, <5>1, <5>2
      <4> QED
        BY <4>1, <4>2
    <3>4. CASE ~(Chunk < MaxPacket) /\ ~(host'.got >= host.req.wLength)
      <4>1. host'.stage = "DataIn"
        BY <1>4, <2>5, <3>4
      <4>2. Chunk = MaxPacket /\ host'.got < host.req.wLength
        BY <1>8, <2>6, <2>7, <3>1, <3>4
      <4> QED
        BY <4>1, <4>2
    <3> QED
      BY <3>2, <3>3, <3>4
  <2>9. Taken'
    BY <1>3, <1>4, <1>9, <2>3, <2>7, <2>8 DEF Taken, Piece
  <2>10. SendingData'
    BY <1>3, <1>4, <1>9, <2>3, <2>9 DEF SendingData
  <2> QED
    BY <1>2, <1>3, <1>4, <1>6, <1>7, <1>9, <2>7, <2>8, <2>10 DEF Reading
<1>11. CASE SendingEmpty
  <2>1. /\ dev.ep0.asked = 0 /\ dev.ep0.rem <= MaxPacket /\ host.got = Size
        /\ dev.in_fifo = <<>> /\ ~dev.in_txfe
    BY <1>11 DEF SendingEmpty
  <2>2. p.len = 0
    BY <2>1 DEF InPacket, NoData
  <2> HIDE DEF p
  <2>3. host'.stage = "StatusOut" /\ host'.got = Size /\ ~host'.bad
    BY <1>4, <1>7, <1>8, <2>1, <2>2
  <2>4. SendingEmpty'
    BY <1>3, <1>9, <2>1, <2>3 DEF SendingEmpty
  <2> QED
    BY <1>2, <1>3, <1>4, <1>6, <1>7, <1>9, <2>3, <2>4 DEF Reading
<1> QED
  BY <1>7, <1>10, <1>11

LEMMA HostOutTransfer ==
    TypeOK /\ TypeOK' /\ TransferInv /\ HostOut => TransferInv'
<1> SUFFICES ASSUME TypeOK, TypeOK', TransferInv, HostOut, Quiet'
             PROVE  Calling' /\ ~dev'.usbrst /\ ~dev'.enumdne
  BY DEF TransferInv
<1>1. host'.stage \notin {"Done", "Stalled"}
  BY DEF Quiet, Ongoing
<1>2. ~HostStalled
  BY <1>1 DEF HostStalled, Over, TypeOK, Hosts
<1>3. host' # Over(host, "Done")
  BY <1>1 DEF Over, TypeOK, Hosts
<1>4. /\ host.stage = "DataOut" /\ ~dev.out_stall /\ dev.out_armed
      /\ rx_fifo' = Append(rx_fifo, OutPacket("last"))
      /\ host' = [host EXCEPT !.stage = "StatusIn"]
      /\ dev' = [dev EXCEPT !.out_armed = FALSE]
      /\ ran' = ran
  BY <1>2, <1>3 DEF HostOut
<1>5. /\ host'.stage = "StatusIn" /\ host'.req = host.req
      /\ host'.rushed = host.rushed
  BY <1>4 DEF TypeOK, Hosts
<1>6. /\ dev'.Setup = dev.Setup
      /\ dev'.in_stall = dev.in_stall /\ dev'.out_stall = dev.out_stall
      /\ dev'.in_armed = dev.in_armed /\ dev'.in_xfrc = dev.in_xfrc
      /\ dev'.in_txfe = dev.in_txfe /\ dev'.out_xfrc = dev.out_xfrc
      /\ dev'.dev_state = dev.dev_state /\ dev'.ep0 = dev.ep0
      /\ dev'.IsReportAvailable = dev.IsReportAvailable
      /\ dev'.out_buff = dev.out_buff
      /\ dev'.usbrst = dev.usbrst /\ dev'.enumdne = dev.enumdne
  BY <1>4 DEF TypeOK, Devices
<1>7. Quiet
  BY <1>4, <1>5 DEF Quiet, Ongoing
<1>8. Calling /\ ~dev.usbrst /\ ~dev.enumdne
  BY <1>4, <1>7 DEF TransferInv, Asked, Seen, Bare, Reading, Waiting
<1>9. rx_fifo = <<>> /\ ~dev.out_xfrc /\ dev.out_buff = "Report_buf"
  BY <1>4, <1>8 DEF Calling
<1>10. rx_fifo' = <<OutPacket("last")>>
  BY <1>4, <1>9
<1>11. Calling'
  BY <1>4, <1>5, <1>6, <1>8, <1>9, <1>10 DEF Calling
<1> QED
  BY <1>6, <1>8, <1>11

LEMMA HostRestTransfer ==
    TypeOK /\ TypeOK' /\ TransferInv /\ (HostEndsEarly \/ HostReset \/ HostResetEnds)
        => TransferInv'
<1> SUFFICES ASSUME TypeOK, TypeOK', TransferInv, Quiet',
                    HostEndsEarly \/ HostReset \/ HostResetEnds
             PROVE  Reading' /\ ~dev'.usbrst /\ ~dev'.enumdne
  BY DEF TransferInv
<1>1. HostEndsEarly
  BY DEF HostReset, HostResetEnds, HostAtBoot, Quiet, Ongoing, TypeOK, Hosts
<1>2. /\ UNCHANGED <<dev, rx_fifo>> /\ host.stage = "DataIn" /\ host.got > 0
      /\ host'.stage = "StatusOut" /\ host'.early /\ host'.req = host.req
      /\ host'.got = host.got /\ host'.bad = host.bad
      /\ host'.rushed = host.rushed
  BY <1>1 DEF HostEndsEarly, TypeOK, Hosts
<1>3. Quiet
  BY <1>2 DEF Quiet, Ongoing
<1>4. Reading /\ ~dev.usbrst /\ ~dev.enumdne
  <2>1. ~(host.got = 0)
    BY <1>2 DEF TypeOK, Hosts
  <2> QED
    BY <1>2, <1>3, <2>1 DEF TransferInv, Asked, Seen, Begun, Calling, Waiting,
                            Reading
<1>5. Size' = Size /\ Sent' = Sent /\ Chunk' = Chunk
  BY <1>2 DEF Size, Sent, Chunk
<1>6. SendingData => SendingData'
  BY <1>2, <1>5 DEF SendingData, ToFill, Filled, Taken, Piece
<1>7. SendingEmpty => SendingEmpty'
  BY <1>2, <1>5 DEF SendingEmpty
<1> QED
  BY <1>2, <1>4, <1>5, <1>6, <1>7 DEF Reading, ReadClosed

LEMMA TransferStep ==
    TypeOK /\ TypeOK' /\ ViewInv /\ TransferInv /\ [Next]_vars => TransferInv'
<1> SUFFICES ASSUME TypeOK, TypeOK', ViewInv, TransferInv, [Next]_vars
             PROVE  TransferInv'
  OBVIOUS
<1>1. CASE UNCHANGED vars
  <2>1. UNCHANGED <<dev, rx_fifo, host, ran>>
    BY <1>1 DEF vars
  <2> QED
    BY <2>1, TransferFrame DEF TransferInv
<1> QED
  BY <1>1, IrqOutTransfer, IrqInTransfer, IrqRestTransfer, HostSetupTransfer,
     HostInTransfer, HostOutTransfer, HostRestTransfer DEF Next

LEMMA TransferInit == Init => TransferInv
BY DEF Init, HostAtBoot, TransferInv, Quiet, Ongoing

LEMMA TransferHolds == Spec => [](TypeOK /\ ViewInv /\ TransferInv)
<1>1. TypeOK /\ CallInv /\ ViewInv /\ TransferInv /\ [Next]_vars
        => (TypeOK /\ CallInv /\ ViewInv /\ TransferInv)'
  BY TypeStep, CallInvStep, ViewStep, TransferStep
<1> QED
  BY <1>1, TypeInit, CallInvInit, ViewInit, TransferInit, PTL DEF Spec

\* ReadIsExact: USBD_LL_DataInStage sends a read that was begun when the device
\* was idle packet after packet and to the last byte, and closes it with an empty
\* packet where it must, whatever the size of the data and of a packet.
THEOREM ReadsAreExact == Spec => []ReadIsExact
BY TransferHolds, ReadIsExactFromInv, PTL

\* RefusedOnlyIfUnsupported: the stalls that USBD_LL_DataInStage and
\* USBD_LL_DataOutStage leave behind a transfer are not seen by the next one.
THEOREM NothingElseIsRefused == Spec => RefusedOnlyIfUnsupported
<1> DEFINE Refuses == (/\ host.stage \in Ongoing /\ ~host.rushed
                       /\ host'.stage = "Stalled")
                          => host.req.kind \in {"UNSUPPORTED", "UNKNOWN_CONFIGURATION"}
<1>1. TypeOK /\ TransferInv /\ [Next]_vars => [Refuses]_vars
  BY RefusesFromInv DEF Quiet
<1>2. Spec => [][Refuses]_vars
  BY <1>1, TransferHolds, PTL DEF Spec
<1> QED
  BY <1>2 DEF RefusedOnlyIfUnsupported

\* AcknowledgedCallHasRun: the status of a SET_REPORT is sent when the call it
\* brought has been run by USBD_HID_EP0_RxReady, once.
THEOREM CallRunsBeforeStatus == Spec => AcknowledgedCallHasRun
<1> DEFINE Runs == (/\ host.req.kind = "SET_REPORT" /\ ~host.rushed
                    /\ host.stage = "StatusIn" /\ host'.stage = "Done")
                       => ran = 1
<1>1. TypeOK /\ TransferInv /\ [Next]_vars => [Runs]_vars
  BY CallRanFromInv DEF Quiet, Ongoing
<1>2. Spec => [][Runs]_vars
  BY <1>1, TransferHolds, PTL DEF Spec
<1> QED
  BY <1>2 DEF AcknowledgedCallHasRun
=============================================================================
