-------------------------------- MODULE Uart --------------------------------
(***************************************************************************)
(* The debug port USART2 (Core/Src/main.cpp): text on its way out through  *)
(* uart2_tx_buf and a DMA stream, and received bytes that a circular DMA   *)
(* stream stores in rx_buf and the firmware echoes.                        *)
(*                                                                         *)
(* Every action is an interrupt handler, which no other interrupt          *)
(* preempts, or a step of the DMA and USART hardware, which runs beside    *)
(* the handlers.  Text is modelled by its length.                          *)
(***************************************************************************)
EXTENDS RingBuffer

CONSTANTS UART_RX_BUF_SIZE,   \* the size of rx_buf
          ByteModulus,        \* the range of uint8_t, twice that size
          TextLengths         \* the lengths of the texts that are printed

ASSUME UartAssumption ==
    /\ UART_RX_BUF_SIZE \in Nat \ {0}
    /\ ByteModulus \in Nat /\ ByteModulus > UART_RX_BUF_SIZE
    /\ TextLengths \subseteq Nat

VARIABLES uart2_tx_buf,          \* the ring of UART_Tx_CircularBuffer
          gState,                \* huart2.gState
          dma_tx_state,          \* hdma_usart2_tx.State
          request,               \* the transmission HAL has started
          tx_phase,              \* what the hardware does for it
          rx_remaining,          \* the transfer counter of the RX stream
          rx_complete_pending,   \* the RX stream's transfer complete interrupt
          rx_buf_read_pos        \* where the next byte to echo is

txVars == <<uart2_tx_buf, gState, dma_tx_state, request, tx_phase>>
rxVars == <<rx_remaining, rx_complete_pending, rx_buf_read_pos>>
vars   == <<txVars, rxVars>>

NoRequest == [at |-> 0, len |-> 0]

Init == /\ uart2_tx_buf = EmptyRing
        /\ gState = "READY" /\ dma_tx_state = "READY"
        /\ request = NoRequest /\ tx_phase = "Idle"
        /\ rx_remaining = UART_RX_BUF_SIZE
        /\ rx_complete_pending = FALSE
        /\ rx_buf_read_pos = 0

-----------------------------------------------------------------------------
(***************************************************************************)
(* Transmission.                                                           *)
(***************************************************************************)
WriteToQueue(ring, n) == CopyInWithRollover(ring, "ClearToWrite", "Queued", n)

LongestPossibleSend(ring) ==
    GetNextContinuousTransferBuffer(ring, "Queued", "Sending")

\* Mutants of LastSendComplete: nothing is released; one byte stays behind.
ReleaseNothing(ring) == ring

ReleaseAllButOne(ring) ==
    MarkTransferred(ring, "Sending", "ClearToWrite",
                    IF ring.num["Sending"] = 0 THEN 0 ELSE ring.num["Sending"] - 1)

LastSendComplete(ring) ==
    MarkTransferred(ring, "Sending", "ClearToWrite", ring.num["Sending"])

\* _write, called by printf in a handler.
Write(n) == /\ uart2_tx_buf' = WriteToQueue(uart2_tx_buf, n)
            /\ UNCHANGED <<gState, dma_tx_state, request, tx_phase, rxVars>>

\* HAL_UART_Transmit_DMA: HAL_BUSY, and nothing else, unless gState is READY.
TransmitDMA(at, len) ==
    IF gState = "READY"
      THEN /\ gState' = "BUSY_TX" /\ dma_tx_state' = "BUSY"
           /\ request' = [at |-> at, len |-> len]
           /\ tx_phase' = "Dma"
      ELSE UNCHANGED <<gState, dma_tx_state, request, tx_phase>>

\* The test timer10_period_elapsed makes before it takes text from the queue.
MayStartSend == dma_tx_state = "READY"

\* The second half of timer10_period_elapsed, on the ring the first half left.
SendQueued(ring) ==
    IF MayStartSend
      THEN LET out == LongestPossibleSend(ring)
           IN  /\ uart2_tx_buf' = out.ring
               /\ IF out.num > 0
                    THEN TransmitDMA(out.at, out.num)
                    ELSE UNCHANGED <<gState, dma_tx_state, request, tx_phase>>
      ELSE /\ uart2_tx_buf' = ring
           /\ UNCHANGED <<gState, dma_tx_state, request, tx_phase>>

\* The TX stream has read the last byte of the request.
DmaFinishes == /\ tx_phase = "Dma"
               /\ tx_phase' = "DmaDone"
               /\ UNCHANGED <<uart2_tx_buf, gState, dma_tx_state, request, rxVars>>

\* The TX stream's transfer complete interrupt: HAL_DMA_IRQHandler makes the
\* stream READY, UART_DMATransmitCplt waits for the USART to finish.
DmaTxInterrupt == /\ tx_phase = "DmaDone"
                  /\ tx_phase' = "Drain"
                  /\ dma_tx_state' = "READY"
                  /\ UNCHANGED <<uart2_tx_buf, gState, request, rxVars>>

\* The USART's transmission complete interrupt, UART_EndTransmit_IT, and its
\* callback uart_tx_complete.
UartTxInterrupt == /\ tx_phase = "Drain"
                   /\ tx_phase' = "Idle"
                   /\ gState' = "READY"
                   /\ request' = NoRequest
                   /\ uart2_tx_buf' = LastSendComplete(uart2_tx_buf)
                   /\ UNCHANGED <<dma_tx_state, rxVars>>

-----------------------------------------------------------------------------
(***************************************************************************)
(* Reception.                                                              *)
(***************************************************************************)

\* A byte arrives.  The stream's counter is reloaded when it reaches 0.
Receive ==
    /\ ~rx_complete_pending \/ rx_remaining > 1     \* bound: no second lap
    /\ IF rx_remaining = 1
         THEN rx_remaining' = UART_RX_BUF_SIZE /\ rx_complete_pending' = TRUE
         ELSE rx_remaining' = rx_remaining - 1 /\ UNCHANGED rx_complete_pending
    /\ UNCHANGED <<txVars, rx_buf_read_pos>>

\* The uint8_t bytes_to_transfer of process_transfer_uart_rx_buf.
BytesToTransfer(remaining_bytes) ==
    IF UART_RX_BUF_SIZE - remaining_bytes > 0
      THEN (UART_RX_BUF_SIZE - remaining_bytes - rx_buf_read_pos) % ByteModulus
      ELSE 0

\* Mutant of ReadPosAfter: a lap does not start again at 0.
ReadPosNotReset(remaining_bytes) ==
    (rx_buf_read_pos + BytesToTransfer(remaining_bytes)) % ByteModulus

\* rx_buf_read_pos after process_transfer_uart_rx_buf.
ReadPosAfter(remaining_bytes) ==
    IF remaining_bytes = 0
      THEN 0
      ELSE (rx_buf_read_pos + BytesToTransfer(remaining_bytes)) % ByteModulus

\* What the timer's handler can find.  A pending interrupt of the RX stream is
\* served before the timer's (its number is lower), so that a lap can end
\* unserved only between the entry of the handler and its read of the counter,
\* a time in which no further byte arrives.
TimerReads == rx_complete_pending => rx_remaining = UART_RX_BUF_SIZE

\* timer10_period_elapsed.
Timer10 ==
    /\ TimerReads
    /\ rx_buf_read_pos' = ReadPosAfter(rx_remaining)
    /\ SendQueued(WriteToQueue(uart2_tx_buf, BytesToTransfer(rx_remaining)))
    /\ UNCHANGED <<rx_remaining, rx_complete_pending>>

\* The RX stream's transfer complete interrupt and its callback
\* uart_rx_complete.
UartRxInterrupt ==
    /\ rx_complete_pending
    /\ rx_complete_pending' = FALSE
    /\ rx_buf_read_pos' = ReadPosAfter(0)
    /\ uart2_tx_buf' = WriteToQueue(uart2_tx_buf, BytesToTransfer(0))
    /\ UNCHANGED <<rx_remaining, gState, dma_tx_state, request, tx_phase>>

-----------------------------------------------------------------------------
Next == \/ \E n \in TextLengths : Write(n)
        \/ Timer10
        \/ DmaFinishes
        \/ DmaTxInterrupt
        \/ UartTxInterrupt
        \/ Receive
        \/ UartRxInterrupt

\* The timer never stops (many of its periods pass between two laps of the RX
\* stream), the hardware finishes what it was asked to send, and a pending
\* interrupt is served.
Fairness == /\ SF_vars(Timer10)
            /\ WF_vars(DmaFinishes)
            /\ WF_vars(DmaTxInterrupt)
            /\ WF_vars(UartTxInterrupt)
            /\ WF_vars(UartRxInterrupt)

Spec == Init /\ [][Next]_vars /\ Fairness

-----------------------------------------------------------------------------
(***************************************************************************)
(* Properties.                                                             *)
(***************************************************************************)

TypeOK ==
    /\ WellFormed(uart2_tx_buf)
    /\ gState \in {"READY", "BUSY_TX"} /\ dma_tx_state \in {"READY", "BUSY"}
    /\ tx_phase \in {"Idle", "Dma", "DmaDone", "Drain"}
    /\ rx_remaining \in 1 .. UART_RX_BUF_SIZE
    /\ rx_complete_pending \in BOOLEAN
    /\ rx_buf_read_pos \in 0 .. UART_RX_BUF_SIZE

\* While the stream reads the request from memory, the request is the front of
\* the Sending segment and in one piece, so that no printf overwrites it and
\* nothing releases it.
DmaReadsSending ==
    tx_phase \in {"Dma", "DmaDone"} =>
        /\ request.at = uart2_tx_buf.start["Sending"]
        /\ request.len <= uart2_tx_buf.num["Sending"]
        /\ request.at + request.len <= MaxBufferSize

\* An echo never takes more than rx_buf holds behind the read position, although
\* the length is a difference of bytes: not in the timer's handler, nor when a
\* lap ends.
EchoStaysInBuffer ==
    /\ rx_complete_pending => rx_buf_read_pos + BytesToTransfer(0) <= UART_RX_BUF_SIZE
    /\ TimerReads =>
          rx_buf_read_pos + BytesToTransfer(rx_remaining) <= UART_RX_BUF_SIZE

\* No byte is echoed before it was received: the read position stays behind
\* the position the stream writes at.
EchoFollowsReception ==
    ~rx_complete_pending => rx_buf_read_pos <= UART_RX_BUF_SIZE - rx_remaining

\* Text leaves: a full queue gets room again, whatever is lost on the way.
QueueGetsRoom ==
    uart2_tx_buf.num["ClearToWrite"] = 0 ~> uart2_tx_buf.num["ClearToWrite"] > 0

\* All text taken from the queue is text the hardware was asked to send.  The
\* comment at circular_buffer/circular_buffers.hpp:55 has it that the test of
\* the DMA state "make[s] sure that it is ok to start a transfer".
SendingWasStarted == uart2_tx_buf.num["Sending"] = request.len
=============================================================================
