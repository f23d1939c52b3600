----------------------------- MODULE SpiReceive -----------------------------
(***************************************************************************)
(* The mouse's side: SPI1 as a slave, whose bytes a circular DMA stream    *)
(* (DMA2_Stream0) stores in spi_rx_buf, one packet of the sensor over the  *)
(* other.  HAL_SPI_IRQHandler serves an overrun, HAL_DMA_IRQHandler the    *)
(* end of a packet and the end of an abort.  No handler interrupts another *)
(* (the interrupts have one priority), but bytes keep arriving while one   *)
(* delays another, and while spi_rx_complete loads the parts of a packet   *)
(* where they lie, in an order that C++ leaves open.                       *)
(*                                                                         *)
(* Names begin with Spi where the module would clash with one it is        *)
(* composed with (SensorToHost).                                           *)
(***************************************************************************)
EXTENDS Integers

CONSTANTS PacketSize,   \* the bytes of a packet: 9
          Packets,      \* the packets the sensor sends, functions of 1 .. PacketSize
          IdlePacket,   \* what the sensor would send of a mouse at rest
          InitialText   \* what spi_rx_buf holds at first, which is no packet

ASSUME SpiAssumption == PacketSize \in Nat /\ PacketSize > 1

VARIABLES spi_state,          \* hspi1.State; READY: not receiving
          rx_dma_state,       \* hdma_spi1_rx.State
          transfer_complete,  \* the stream's TC flag
          overrun,            \* SPI1's OVR flag
          packet,             \* the packet the sensor is sending, or sent last
          received,           \* how many of its bytes have arrived
          spi_rx_buf,
          in_handler,         \* the interrupt of a packet is being handled
          loaded,             \* the parts of spi_rx_buf that it has loaded so far
          spi_error_count,
          taken               \* history: how often the motion that is now in
                              \* spi_rx_buf was added up (2: more than once)

flagVars == <<transfer_complete, overrun>>
stateVars == <<spi_state, rx_dma_state, spi_error_count>>
lineVars == <<packet, received, spi_rx_buf>>
handlerVars == <<in_handler, loaded>>
spiVars == <<flagVars, stateVars, lineVars, handlerVars, taken>>

\* What HAL_SPI_Receive_DMA leaves behind when main calls it between two
\* packets.  main never calls it again.
SpiInit == /\ spi_state = "BUSY_RX" /\ rx_dma_state = "BUSY"
           /\ transfer_complete = FALSE /\ overrun = FALSE
           /\ packet = IdlePacket /\ received = 0 /\ spi_rx_buf = InitialText
           /\ spi_error_count = 0
           /\ in_handler = FALSE /\ loaded = <<>>
           /\ taken = 1

-----------------------------------------------------------------------------
(***************************************************************************)
(* The line and the hardware.                                              *)
(***************************************************************************)
\* The SPI passes bytes to the stream until it is told not to, or has an
\* overrun to report.
PassesBytes == spi_state = "BUSY_RX" /\ ~overrun

\* Mutant: the stream is not circular.
StoreWithoutReload(p) ==
    /\ PassesBytes /\ received < PacketSize
    /\ packet' = p
    /\ spi_rx_buf' = [spi_rx_buf EXCEPT ![received + 1] = p[received + 1]]
    /\ received' = received + 1
    /\ transfer_complete' = (transfer_complete \/ received' = PacketSize)
    /\ taken' = IF received = 0 THEN 0 ELSE taken
    /\ UNCHANGED <<overrun, stateVars, handlerVars>>

\* A byte of packet p arrives; the stream starts again after the last one.
Store(p) == /\ PassesBytes
            /\ packet' = p
            /\ spi_rx_buf' = [spi_rx_buf EXCEPT ![received + 1] = p[received + 1]]
            /\ received' = (received + 1) % PacketSize
            /\ transfer_complete' = (transfer_complete \/ received' = 0)
            /\ taken' = IF received = 0 THEN 0 ELSE taken
            /\ UNCHANGED <<overrun, stateVars, handlerVars>>

ByteArrives == \/ received = 0 /\ \E p \in Packets : Store(p)
               \/ received > 0 /\ Store(packet)

\* A byte arrives before the stream has read the one before it.
ByteOverruns == /\ PassesBytes
                /\ overrun' = TRUE
                /\ UNCHANGED <<transfer_complete, stateVars, lineVars, handlerVars, taken>>

-----------------------------------------------------------------------------
(***************************************************************************)
(* The handlers.                                                           *)
(***************************************************************************)
\* Mutant: the request to abort does not stop the stream, so that nothing
\* ends.
AbortWithoutStop == rx_dma_state' = "ABORT" /\ UNCHANGED transfer_complete

\* HAL_DMA_Abort_IT.  The stream raises TC when it has stopped.
AbortIT == IF rx_dma_state = "BUSY"
             THEN rx_dma_state' = "ABORT" /\ transfer_complete' = TRUE
             ELSE UNCHANGED <<rx_dma_state, transfer_complete>>

\* HAL_SPI_IRQHandler.  In this mode (slave, no TI frames) an overrun is the
\* only error, and the only interrupt that is enabled.
SpiInterrupt == /\ overrun /\ ~in_handler
                /\ overrun' = FALSE
                /\ spi_state' = "READY"
                /\ AbortIT
                /\ UNCHANGED <<spi_error_count, lineVars, handlerVars, taken>>

\* SPI_DMAReceiveCplt: in circular mode reception goes on, and spi_rx_complete
\* is called.
CircularReceive == in_handler' = TRUE /\ UNCHANGED stateVars

\* SPI_DMAAbortOnError and spi_rx_error, which counts and prints.
AbortOnError == /\ rx_dma_state' = "READY"
                /\ spi_error_count' = spi_error_count + 1
                /\ UNCHANGED <<spi_state, in_handler>>

\* Mutant: only the end of an abort clears the flag.
LeaveFlag == transfer_complete' = (rx_dma_state # "ABORT")

ClearFlag == transfer_complete' = FALSE

\* The interrupt of the stream: its flag is cleared first, so that a packet that
\* is complete while this one is handled raises it again.  The half transfer
\* interrupt changes nothing: main.cpp:318 registers no callback for it.
DmaInterrupt ==
    /\ transfer_complete /\ ~in_handler
    /\ ClearFlag
    /\ IF rx_dma_state = "ABORT" THEN AbortOnError ELSE CircularReceive
    /\ UNCHANGED <<overrun, lineVars, loaded, taken>>

\* spi_rx_complete loads part i of the packet from spi_rx_buf as it is then; the
\* motion is in the first one.
LoadPart(i) ==
    /\ in_handler /\ i \in (1 .. PacketSize) \ DOMAIN loaded
    /\ loaded' = [j \in DOMAIN loaded \cup {i} |->
                    IF j = i THEN spi_rx_buf[i] ELSE loaded[j]]
    /\ taken' = IF i = 1 /\ taken < 2 THEN taken + 1 ELSE taken
    /\ UNCHANGED <<flagVars, stateVars, lineVars, in_handler>>

\* The handler has loaded a packet and is done with it.
Loaded == in_handler /\ DOMAIN loaded = 1 .. PacketSize

\* Mutant: the flag is cleared at the end, with the packet that raised it again.
ReturnAndClear ==
    /\ Loaded /\ in_handler' = FALSE /\ loaded' = <<>>
    /\ transfer_complete' = FALSE
    /\ UNCHANGED <<overrun, stateVars, lineVars, taken>>

Return == /\ Loaded /\ in_handler' = FALSE /\ loaded' = <<>>
          /\ UNCHANGED <<flagVars, stateVars, lineVars, taken>>

SpiNext == \/ ByteArrives \/ ByteOverruns
           \/ SpiInterrupt \/ DmaInterrupt
           \/ \E i \in 1 .. PacketSize : LoadPart(i)
           \/ Return

SpiSpec == SpiInit /\ [][SpiNext]_spiVars

-----------------------------------------------------------------------------
(***************************************************************************)
(* Properties.                                                             *)
(***************************************************************************)
\* The flags and counters have their types; at most one error is counted,
\* because nothing is received after the first.
SpiTypeOK == /\ spi_state \in {"READY", "BUSY_RX"}
             /\ rx_dma_state \in {"READY", "BUSY", "ABORT"}
             /\ transfer_complete \in BOOLEAN /\ overrun \in BOOLEAN
             /\ received \in 0 .. PacketSize - 1
             /\ spi_error_count \in {0, 1}
             /\ in_handler \in BOOLEAN
             /\ DOMAIN loaded \subseteq 1 .. PacketSize
             /\ taken \in 0 .. 2

\* Reception never stops silently: while hspi1 is not receiving, spi_rx_error
\* has been called, or the interrupt that calls it is pending.
StopIsAnnounced ==
    spi_state = "READY" =>
        \/ spi_error_count = 1
        \/ rx_dma_state = "ABORT" /\ transfer_complete

\* The motion of a packet is complete and is still to be loaded.
MotionIsDue == transfer_complete \/ (in_handler /\ 1 \notin DOMAIN loaded)

\* The handler loads the motion before the first byte of the next packet; it may
\* be late with the rest.
Prompt == MotionIsDue => received = 0

\* The motion of a packet is added once when the packet is complete, and not
\* before.
TakenOnce ==
    spi_state = "BUSY_RX" =>
        taken = IF received > 0 \/ MotionIsDue THEN 0 ELSE 1

\* If the motion is always loaded in time, each packet's is added exactly once,
\* as long as reception lasts, though packets are complete while the handler is
\* still busy with older ones.  (A handler that is late with the motion adds the
\* next packet's, which is then added again.)
MotionTakenOnce == []Prompt => []TakenOnce
=============================================================================
