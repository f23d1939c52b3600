---------------------------- MODULE Uart_proofs -----------------------------
(***************************************************************************)
(* Theorems about Uart, for every size of the ring and of rx_buf and every *)
(* text: what the DMA stream reads is never released or overwritten, and   *)
(* the echo stays behind the bytes received.                               *)
(***************************************************************************)
EXTENDS Uart, RingBuffer_proofs

-----------------------------------------------------------------------------
(***************************************************************************)
(* The two halves of the inductive invariant.                              *)
(***************************************************************************)
\* The states HAL keeps say what the hardware does, and nothing is left in
\* Sending when it does nothing.
TxInv ==
    /\ WellFormed(uart2_tx_buf)
    /\ uart2_tx_buf.size = MaxBufferSize
    /\ tx_phase \in {"Idle", "Dma", "DmaDone", "Drain"}
    /\ gState \in {"READY", "BUSY_TX"}
    /\ gState = "READY" <=> tx_phase = "Idle"
    /\ dma_tx_state \in {"READY", "BUSY"}
    /\ dma_tx_state = "BUSY" <=> tx_phase \in {"Dma", "DmaDone"}
    /\ tx_phase = "Idle" => uart2_tx_buf.num["Sending"] = 0
    /\ DmaReadsSending

RxInv ==
    /\ rx_remaining \in 1 .. UART_RX_BUF_SIZE
    /\ rx_complete_pending \in BOOLEAN
    /\ rx_buf_read_pos \in 0 .. UART_RX_BUF_SIZE
    /\ EchoFollowsReception

IInv == TxInv /\ RxInv

-----------------------------------------------------------------------------
(***************************************************************************)
(* Lemmas.                                                                 *)
(***************************************************************************)
\* The difference of bytes that the echo is computed from does not wrap.
LEMMA ByteDifference ==
    ASSUME NEW n \in Nat, n < ByteModulus
    PROVE  n % ByteModulus = n
<1>1. ByteModulus \in Nat \ {0}
  BY UartAssumption
<1> QED
  BY <1>1, ModAtMostOneLap

\* Text goes to the back of Queued and leaves Sending alone.
LEMMA WriteLeavesSending ==
    ASSUME NEW ring, WellFormed(ring), NEW n \in Nat
    PROVE  /\ WellFormed(WriteToQueue(ring, n))
           /\ WriteToQueue(ring, n).size = ring.size
           /\ WriteToQueue(ring, n).start["Sending"] = ring.start["Sending"]
           /\ WriteToQueue(ring, n).num["Sending"] = ring.num["Sending"]
<1>1. WriteToQueue(ring, n) = MarkTransferred(ring, "ClearToWrite", "Queued", n)
  BY DEF WriteToQueue, CopyInWithRollover
<1>2. WellFormed(MarkTransferred(ring, "ClearToWrite", "Queued", n))
  BY MarkTransferredWellFormed DEF Receiver, RingState
<1>3. "Sending" \in DOMAIN ring.start /\ "Sending" \in DOMAIN ring.num
  BY DEF WellFormed, Rings, RingState
<1>4. QED
  BY <1>1, <1>2, <1>3 DEF MarkTransferred

\* What is taken from the queue goes to the back of Sending and is in one
\* piece; it is the front of Sending if that was empty.
LEMMA SendTakesOnePiece ==
    ASSUME NEW ring, WellFormed(ring), NEW out, out = LongestPossibleSend(ring)
    PROVE  /\ WellFormed(out.ring)
           /\ out.ring.size = ring.size
           /\ out.num \in Nat
           /\ out.at + out.num <= ring.size
           /\ out.ring.start["Sending"] = ring.start["Sending"]
           /\ out.ring.num["Sending"] = ring.num["Sending"] + out.num
           /\ ring.num["Sending"] = 0 => out.at = ring.start["Sending"]
<1> DEFINE before == ring.size - ring.start["Queued"]
           num == IF ring.num["Queued"] <= before THEN ring.num["Queued"] ELSE before
<1>1. /\ out.ring = MarkTransferred(ring, "Queued", "Sending", num)
      /\ out.at = ring.start["Queued"]
      /\ out.num = num
  BY DEF LongestPossibleSend, GetNextContinuousTransferBuffer
<1>2. /\ ring.size \in Nat
      /\ ring.start \in [RingState -> Nat] /\ ring.num \in [RingState -> Nat]
      /\ ring.start["Queued"] < ring.size
      /\ ring.start["Sending"] \in Nat /\ ring.num["Sending"] \in Nat
      /\ ring.start["Queued"] \in Nat /\ ring.num["Queued"] \in Nat
  BY WellFormedParts DEF WellFormed, RingState
<1>3. num \in Nat /\ num <= ring.num["Queued"] /\ ring.start["Queued"] + num <= ring.size
  BY <1>2
<1>4. WellFormed(out.ring)
  BY <1>1, <1>3, MarkTransferredWellFormed DEF Receiver, RingState
<1>5. /\ out.ring.size = ring.size
      /\ out.ring.start["Sending"] = ring.start["Sending"]
      /\ out.ring.num["Sending"] = ring.num["Sending"] + num
  <2> HIDE DEF num
  <2> QED
    BY <1>1, <1>2, <1>3 DEF MarkTransferred, RingState
<1>6. ring.num["Sending"] = 0 => ring.start["Queued"] = ring.start["Sending"]
  <2>1. Follows(ring.size, EndOf(ring, "Sending"), ring.start["Queued"])
        /\ ring.start["Sending"] < ring.size
    BY DEF WellFormed, RingState
  <2> QED
    BY <1>2, <2>1 DEF Follows, EndOf
<1> HIDE DEF num
<1> QED
  BY <1>1, <1>2, <1>3, <1>4, <1>5, <1>6

LEMMA ReleaseEmptiesSending ==
    ASSUME NEW ring, WellFormed(ring)
    PROVE  /\ WellFormed(LastSendComplete(ring))
           /\ LastSendComplete(ring).size = ring.size
           /\ LastSendComplete(ring).num["Sending"] = 0
<1>1. ring.num \in [RingState -> Nat] /\ ring.num["Sending"] \in Nat
  BY WellFormedParts DEF RingState
<1>2. WellFormed(LastSendComplete(ring))
  BY <1>1, MarkTransferredWellFormed DEF LastSendComplete, Receiver, RingState
<1>3. QED
  BY <1>1, <1>2 DEF LastSendComplete, MarkTransferred, RingState

LEMMA EchoIsByte ==
    ASSUME RxInv, NEW r \in 0 .. UART_RX_BUF_SIZE
    PROVE  BytesToTransfer(r) \in Nat
<1>1. /\ UART_RX_BUF_SIZE - r - rx_buf_read_pos \in Int
      /\ ByteModulus \in Nat \ {0}
  BY UartAssumption DEF RxInv
<1>2. (UART_RX_BUF_SIZE - r - rx_buf_read_pos) % ByteModulus \in Nat
  BY <1>1, Z3
<1> QED
  BY <1>2 DEF BytesToTransfer

-----------------------------------------------------------------------------
(***************************************************************************)
(* Transmission.                                                           *)
(***************************************************************************)
\* Writing text, as a printf and an echo do.
LEMMA WriteKeepsTxInv ==
    ASSUME TxInv, NEW n \in Nat, uart2_tx_buf' = WriteToQueue(uart2_tx_buf, n),
           UNCHANGED <<gState, dma_tx_state, request, tx_phase>>
    PROVE  TxInv'
BY WriteLeavesSending DEF TxInv, DmaReadsSending

\* The second half of the timer's handler: while the hardware has a request, at
\* most more text follows it in Sending.
LEMMA SendKeepsTxInv ==
    ASSUME TxInv, NEW n \in Nat, SendQueued(WriteToQueue(uart2_tx_buf, n))
    PROVE  TxInv'
<1> DEFINE ring == WriteToQueue(uart2_tx_buf, n)
           out == LongestPossibleSend(ring)
<1>1. /\ WellFormed(ring)
      /\ ring.size = MaxBufferSize
      /\ ring.start["Sending"] = uart2_tx_buf.start["Sending"]
      /\ ring.num["Sending"] = uart2_tx_buf.num["Sending"]
  BY WriteLeavesSending DEF TxInv
<1>2. /\ WellFormed(out.ring)
      /\ out.ring.size = MaxBufferSize
      /\ out.num \in Nat
      /\ out.at + out.num <= MaxBufferSize
      /\ out.ring.start["Sending"] = ring.start["Sending"]
      /\ out.ring.num["Sending"] = ring.num["Sending"] + out.num
      /\ ring.num["Sending"] = 0 => out.at = ring.start["Sending"]
  BY <1>1, SendTakesOnePiece
<1>3. ring.num["Sending"] \in Nat
  BY <1>1, WellFormedParts DEF RingState
<1>4. CASE ~MayStartSend
  BY <1>1, <1>4, WriteKeepsTxInv DEF SendQueued
<1>5. CASE MayStartSend /\ out.num > 0 /\ gState = "READY"
  <2>1. /\ uart2_tx_buf' = out.ring
        /\ gState' = "BUSY_TX" /\ dma_tx_state' = "BUSY" /\ tx_phase' = "Dma"
        /\ request' = [at |-> out.at, len |-> out.num]
    BY <1>5 DEF SendQueued, TransmitDMA
  <2>2. ring.num["Sending"] = 0
    BY <1>1, <1>5 DEF TxInv
  <2> HIDE DEF ring, out
  <2> QED
    BY <1>2, <1>3, <2>1, <2>2 DEF TxInv, DmaReadsSending
<1>6. CASE MayStartSend /\ ~(out.num > 0 /\ gState = "READY")
  <2>1. /\ uart2_tx_buf' = out.ring
        /\ UNCHANGED <<gState, dma_tx_state, request, tx_phase>>
    BY <1>6 DEF SendQueued, TransmitDMA
  <2>2. tx_phase \in {"Idle", "Drain"}
    BY <1>6 DEF MayStartSend, TxInv
  <2>3. tx_phase = "Idle" => out.num = 0
    BY <1>2, <1>6 DEF TxInv
  <2> HIDE DEF ring, out
  <2> QED
    BY <1>1, <1>2, <1>3, <2>1, <2>2, <2>3 DEF TxInv, DmaReadsSending
<1> QED
  BY <1>4, <1>5, <1>6

-----------------------------------------------------------------------------
(***************************************************************************)
(* Reception: the timer's handler echoes what has arrived, the RX          *)
(* stream's interrupt what is left of the lap.                             *)
(***************************************************************************)
LEMMA Timer10KeepsRxInv ==
    ASSUME RxInv, Timer10
    PROVE  RxInv'
<1>1. /\ rx_buf_read_pos' = ReadPosAfter(rx_remaining)
      /\ UNCHANGED <<rx_remaining, rx_complete_pending>>
      /\ TimerReads
  BY DEF Timer10
<1>2. /\ UART_RX_BUF_SIZE \in Nat \ {0} /\ ByteModulus \in Nat
      /\ ByteModulus > UART_RX_BUF_SIZE
  BY UartAssumption
<1>3. /\ rx_remaining \in 1 .. UART_RX_BUF_SIZE
      /\ rx_buf_read_pos \in 0 .. UART_RX_BUF_SIZE
  BY DEF RxInv
<1>4. CASE rx_remaining = UART_RX_BUF_SIZE
  <2>1. BytesToTransfer(rx_remaining) = 0
    BY <1>2, <1>4 DEF BytesToTransfer
  <2>2. rx_buf_read_pos % ByteModulus = rx_buf_read_pos
    BY <1>2, <1>3, ByteDifference
  <2>3. rx_buf_read_pos' = rx_buf_read_pos
    BY <1>1, <1>2, <1>3, <2>1, <2>2 DEF ReadPosAfter
  <2> QED
    BY <1>1, <2>3 DEF RxInv, EchoFollowsReception
<1>5. CASE rx_remaining < UART_RX_BUF_SIZE
  <2>1. ~rx_complete_pending /\ rx_buf_read_pos <= UART_RX_BUF_SIZE - rx_remaining
    BY <1>1, <1>5 DEF TimerReads, RxInv, EchoFollowsReception
  <2>2. BytesToTransfer(rx_remaining)
          = (UART_RX_BUF_SIZE - rx_remaining - rx_buf_read_pos) % ByteModulus
    BY <1>2, <1>3, <1>5 DEF BytesToTransfer
  <2>3. /\ UART_RX_BUF_SIZE - rx_remaining - rx_buf_read_pos \in Nat
        /\ UART_RX_BUF_SIZE - rx_remaining - rx_buf_read_pos < ByteModulus
    BY <1>2, <1>3, <2>1
  <2>4. BytesToTransfer(rx_remaining) = UART_RX_BUF_SIZE - rx_remaining - rx_buf_read_pos
    BY <2>2, <2>3, ByteDifference
  <2>5. /\ UART_RX_BUF_SIZE - rx_remaining \in Nat
        /\ UART_RX_BUF_SIZE - rx_remaining < ByteModulus
        /\ rx_buf_read_pos + BytesToTransfer(rx_remaining) = UART_RX_BUF_SIZE - rx_remaining
    BY <1>2, <1>3, <2>4
  <2>6. rx_buf_read_pos' = UART_RX_BUF_SIZE - rx_remaining
    BY <1>1, <1>3, <2>5, ByteDifference DEF ReadPosAfter
  <2> QED
    BY <1>1, <1>2, <1>3, <2>6 DEF RxInv, EchoFollowsReception
<1> QED
  BY <1>2, <1>3, <1>4, <1>5

LEMMA ReceiveKeepsRxInv ==
    ASSUME RxInv, Receive
    PROVE  RxInv'
<1>1. /\ UART_RX_BUF_SIZE \in Nat \ {0}
      /\ rx_remaining \in 1 .. UART_RX_BUF_SIZE
      /\ rx_buf_read_pos \in 0 .. UART_RX_BUF_SIZE
      /\ rx_buf_read_pos' = rx_buf_read_pos
  BY UartAssumption DEF RxInv, Receive
<1>2. CASE rx_remaining = 1
  <2>1. rx_remaining' = UART_RX_BUF_SIZE /\ rx_complete_pending' = TRUE
    BY <1>2 DEF Receive
  <2> QED
    BY <1>1, <2>1 DEF RxInv, EchoFollowsReception
<1>3. CASE rx_remaining # 1
  <2>1. rx_remaining' = rx_remaining - 1 /\ rx_complete_pending' = rx_complete_pending
    BY <1>3 DEF Receive
  <2>2. rx_remaining' \in 1 .. UART_RX_BUF_SIZE
    BY <1>1, <1>3, <2>1
  <2>3. ~rx_complete_pending => rx_buf_read_pos <= UART_RX_BUF_SIZE - rx_remaining'
    BY <1>1, <2>1 DEF RxInv, EchoFollowsReception
  <2>4. rx_complete_pending \in BOOLEAN
    BY DEF RxInv
  <2>5. EchoFollowsReception'
    BY <1>1, <2>1, <2>3 DEF EchoFollowsReception
  <2> QED
    BY <1>1, <2>1, <2>2, <2>4, <2>5 DEF RxInv
<1> QED
  BY <1>2, <1>3

LEMMA UartRxInterruptKeepsRxInv ==
    ASSUME RxInv, UartRxInterrupt
    PROVE  RxInv'
<1>1. /\ UART_RX_BUF_SIZE \in Nat \ {0}
      /\ rx_remaining \in 1 .. UART_RX_BUF_SIZE
      /\ rx_remaining' = rx_remaining
  BY UartAssumption DEF RxInv, UartRxInterrupt
<1>2. rx_buf_read_pos' = 0 /\ rx_complete_pending' = FALSE
  BY DEF UartRxInterrupt, ReadPosAfter
<1>3. /\ 0 \in 0 .. UART_RX_BUF_SIZE
      /\ 0 <= UART_RX_BUF_SIZE - rx_remaining
  BY <1>1
<1>4. EchoFollowsReception'
  BY <1>1, <1>2, <1>3 DEF EchoFollowsReception
<1> QED
  BY <1>1, <1>2, <1>3, <1>4 DEF RxInv

-----------------------------------------------------------------------------
(***************************************************************************)
(* The invariant and the theorems.                                         *)
(***************************************************************************)
LEMMA InitIInv == Init => IInv
<1> SUFFICES ASSUME Init PROVE IInv
  OBVIOUS
<1>1. TxInv
  BY EmptyRingWellFormed DEF Init, TxInv, EmptyRing, RingState, DmaReadsSending
<1>2. RxInv
  <2>1. /\ UART_RX_BUF_SIZE \in 1 .. UART_RX_BUF_SIZE
        /\ 0 \in 0 .. UART_RX_BUF_SIZE
        /\ 0 <= UART_RX_BUF_SIZE - UART_RX_BUF_SIZE
    BY UartAssumption
  <2> QED
    BY <2>1 DEF Init, RxInv, EchoFollowsReception
<1> QED
  BY <1>1, <1>2 DEF IInv

LEMMA NextIInv == IInv /\ [Next]_vars => IInv'
<1> SUFFICES ASSUME IInv, [Next]_vars PROVE IInv'
  OBVIOUS
<1>0. TxInv /\ RxInv
  BY DEF IInv
<1>1. ASSUME NEW n \in TextLengths, Write(n)
      PROVE  IInv'
  <2>1. n \in Nat
    BY UartAssumption
  <2>2. TxInv'
    BY <1>0, <1>1, <2>1, WriteKeepsTxInv DEF Write
  <2>3. RxInv'
    BY <1>0, <1>1 DEF Write, rxVars, RxInv, EchoFollowsReception
  <2> QED
    BY <2>2, <2>3 DEF IInv
<1>2. CASE Timer10
  <2>1. BytesToTransfer(rx_remaining) \in Nat
    BY <1>0, EchoIsByte, UartAssumption DEF RxInv
  <2>2. SendQueued(WriteToQueue(uart2_tx_buf, BytesToTransfer(rx_remaining)))
    BY <1>2 DEF Timer10
  <2>3. TxInv'
    BY <1>0, <2>1, <2>2, SendKeepsTxInv
  <2>4. RxInv'
    BY <1>0, <1>2, Timer10KeepsRxInv
  <2> QED
    BY <2>3, <2>4 DEF IInv
<1>3. CASE DmaFinishes
  BY <1>0, <1>3 DEF DmaFinishes, rxVars, IInv, TxInv, RxInv, DmaReadsSending,
                    EchoFollowsReception
<1>4. CASE DmaTxInterrupt
  BY <1>0, <1>4 DEF DmaTxInterrupt, rxVars, IInv, TxInv, RxInv, DmaReadsSending,
                    EchoFollowsReception
<1>5. CASE UartTxInterrupt
  <2>1. /\ WellFormed(uart2_tx_buf')
        /\ uart2_tx_buf'.size = MaxBufferSize
        /\ uart2_tx_buf'.num["Sending"] = 0
    BY <1>0, <1>5, ReleaseEmptiesSending DEF UartTxInterrupt, TxInv
  <2> QED
    BY <1>0, <1>5, <2>1 DEF UartTxInterrupt, rxVars, IInv, TxInv, RxInv,
                            DmaReadsSending, EchoFollowsReception
<1>6. CASE Receive
  <2>1. TxInv'
    BY <1>0, <1>6 DEF Receive, txVars, TxInv, DmaReadsSending
  <2> QED
    BY <1>0, <1>6, <2>1, ReceiveKeepsRxInv DEF IInv
<1>7. CASE UartRxInterrupt
  <2>1. BytesToTransfer(0) \in Nat
    BY <1>0, EchoIsByte, UartAssumption
  <2>2. TxInv'
    BY <1>0, <1>7, <2>1, WriteKeepsTxInv DEF UartRxInterrupt
  <2> QED
    BY <1>0, <1>7, <2>2, UartRxInterruptKeepsRxInv DEF IInv
<1>8. CASE UNCHANGED vars
  BY <1>0, <1>8 DEF vars, txVars, rxVars, IInv, TxInv, RxInv, DmaReadsSending,
                    EchoFollowsReception
<1> QED
  BY <1>1, <1>2, <1>3, <1>4, <1>5, <1>6, <1>7, <1>8 DEF Next

LEMMA SpecIInv == Spec => []IInv
BY InitIInv, NextIInv, PTL DEF Spec

\* Type correctness, the tiling of the ring included.
THEOREM TypeCorrect == Spec => []TypeOK
<1>1. IInv => TypeOK
  BY DEF IInv, TxInv, RxInv, TypeOK
<1> QED
  BY <1>1, SpecIInv, PTL

\* While the DMA stream reads a request, its bytes are the front of Sending:
\* nothing releases or overwrites them, whatever is printed, echoed or taken
\* from the queue meanwhile.
THEOREM DmaReadsOnlySending == Spec => []DmaReadsSending
<1>1. IInv => DmaReadsSending
  BY DEF IInv, TxInv
<1> QED
  BY <1>1, SpecIInv, PTL

\* No byte is echoed before it was received.
THEOREM EchoIsBehindReception == Spec => []EchoFollowsReception
<1>1. IInv => EchoFollowsReception
  BY DEF IInv, RxInv
<1> QED
  BY <1>1, SpecIInv, PTL

\* No echo takes more bytes than rx_buf holds behind the read position: where
\* the length is computed, the difference is neither negative nor too large for
\* a byte.
THEOREM EchoFitsBuffer == Spec => []EchoStaysInBuffer
<1>1. RxInv => EchoStaysInBuffer
  <2> SUFFICES ASSUME RxInv
               PROVE  EchoStaysInBuffer
    OBVIOUS
  <2> DEFINE behind(r) == UART_RX_BUF_SIZE - r - rx_buf_read_pos
  <2>1. /\ UART_RX_BUF_SIZE \in Nat \ {0} /\ ByteModulus \in Nat
        /\ ByteModulus > UART_RX_BUF_SIZE
        /\ rx_buf_read_pos \in 0 .. UART_RX_BUF_SIZE
        /\ rx_remaining \in 1 .. UART_RX_BUF_SIZE
    BY UartAssumption DEF RxInv
  <2>2. rx_buf_read_pos + BytesToTransfer(0) <= UART_RX_BUF_SIZE
    <3>1. behind(0) \in Nat /\ behind(0) < ByteModulus
      BY <2>1
    <3>2. behind(0) % ByteModulus = behind(0)
      BY <3>1, ByteDifference
    <3>3. BytesToTransfer(0) = behind(0)
      BY <2>1, <3>2 DEF BytesToTransfer
    <3> QED
      BY <2>1, <3>3
  <2>3. ASSUME TimerReads
        PROVE  rx_buf_read_pos + BytesToTransfer(rx_remaining) <= UART_RX_BUF_SIZE
    <3>1. CASE rx_remaining = UART_RX_BUF_SIZE
      <4>1. BytesToTransfer(rx_remaining) = 0
        BY <2>1, <3>1 DEF BytesToTransfer
      <4> QED
        BY <2>1, <4>1
    <3>2. CASE rx_remaining # UART_RX_BUF_SIZE
      <4>1. rx_buf_read_pos <= UART_RX_BUF_SIZE - rx_remaining
        BY <2>3, <3>2 DEF RxInv, EchoFollowsReception, TimerReads
      <4>2. behind(rx_remaining) \in Nat /\ behind(rx_remaining) < ByteModulus
        BY <2>1, <4>1
      <4>3. behind(rx_remaining) % ByteModulus = behind(rx_remaining)
        BY <4>2, ByteDifference
      <4>4. BytesToTransfer(rx_remaining) = behind(rx_remaining)
        BY <2>1, <3>2, <4>3 DEF BytesToTransfer
      <4> QED
        BY <2>1, <4>4
    <3> QED
      BY <3>1, <3>2
  <2> HIDE DEF behind
  <2> QED
    BY <2>2, <2>3 DEF EchoStaysInBuffer
<1> QED
  BY <1>1, SpecIInv, PTL DEF IInv
=============================================================================
