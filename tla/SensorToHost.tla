---------------------------- MODULE SensorToHost ----------------------------
(***************************************************************************)
(* The way of a packet from the sensor to the computer: SpiReceive calls   *)
(* spi_rx_complete, which loads the packet where it lies and passes it to  *)
(* MouseEventHandler; its timer builds the reports that the host takes.    *)
(*                                                                         *)
(* A packet has two parts here, as the stream can store between two loads: *)
(* the motion (dx, dy and dz), then the word of the buttons and keys.      *)
(***************************************************************************)
EXTENDS MouseEventHandler, SpiReceive

mouseVars == vars
allVars == <<mouseVars, spiVars>>

\* SPI_MMO_Mouse_State_TypeDef
MotionOf(p) == p[1]
ButtonsOf(p) == p[2].buttons
KeysOf(p) == p[2].keys

\* What the sensor sends; of the text the buffer holds at first only the length
\* is assumed.
ASSUME PacketAssumption ==
    /\ PacketSize = 2
    /\ DOMAIN InitialText = 1 .. 2
    /\ ButtonsOf(IdlePacket) = {} /\ KeysOf(IdlePacket) = {}
    /\ \A p \in Packets : /\ DOMAIN p = 1 .. 2 /\ MotionOf(p) \in Moves
                          /\ ButtonsOf(p) \in ButtonStates /\ KeysOf(p) \in KeypadStates

SystemInit == Init /\ SpiInit

\* The end of spi_rx_complete: it passes on what it has loaded.
RxComplete ==
    Return /\ UpdateState(MotionOf(loaded), ButtonsOf(loaded), KeysOf(loaded))

RxDmaInterrupt == DmaInterrupt /\ UNCHANGED mouseVars
LoadsPacket == (\E i \in 1 .. PacketSize : LoadPart(i)) /\ UNCHANGED mouseVars

SensorSends == ByteArrives /\ UNCHANGED mouseVars
LineOverruns == ByteOverruns /\ UNCHANGED mouseVars
RxErrorInterrupt == SpiInterrupt /\ UNCHANGED mouseVars

\* The timer's and the USB handler do not interrupt the stream's, and main does
\* not run while it does.
PollInterval == ~in_handler /\ HidPollIntervalTimerCallback /\ UNCHANGED spiVars
HostPolls == ~in_handler /\ HostTakes /\ UNCHANGED spiVars
MainRegisters ==
    /\ ~in_handler
    /\ \E e \in StoredEntries : RegisterConfigEntry(e)
    /\ UNCHANGED spiVars

SystemNext == \/ SensorSends
              \/ LineOverruns
              \/ RxErrorInterrupt
              \/ RxDmaInterrupt
              \/ LoadsPacket
              \/ RxComplete
              \/ PollInterval
              \/ HostPolls
              \/ MainRegisters

\* The sensor finishes a packet, pending interrupts are served, a handler goes on,
\* the timer keeps running and the host keeps polling.
SystemSpec == /\ SystemInit /\ [][SystemNext]_allVars
              /\ WF_allVars(received > 0 /\ SensorSends)
              /\ WF_allVars(RxErrorInterrupt)
              /\ WF_allVars(RxDmaInterrupt)
              /\ WF_allVars(LoadsPacket)
              /\ WF_allVars(RxComplete)
              /\ WF_allVars(PollInterval)
              /\ WF_allVars(HostPolls)

-----------------------------------------------------------------------------
\* While reception lasts, a handler with nothing to do has the buttons and keys
\* of the last packet: however late the handlers were, and whichever mixtures of
\* packets they loaded while the stream stored the next ones, the last packet is
\* loaded again because HAL_DMA_IRQHandler clears the flag before the callback.
SettlesOnLastPacket ==
    /\ spi_state = "BUSY_RX" /\ received = 0
    /\ ~transfer_complete /\ ~in_handler
    => /\ handler.current_primary_button_state = ButtonsOf(packet)
       /\ handler.current_keypad_state = KeysOf(packet)

\* Once the sensor is quiet, the host learns the buttons of the last packet,
\* however late the handlers ran, whatever they read in between, and whatever
\* was refused while the buffer was full; unless an overrun ended reception.
ButtonsReachHost ==
    /\ <>[][~SensorSends]_allVars
    /\ [](spi_state = "BUSY_RX")
    => <>[](host.buttons = Shown(ButtonsOf(packet)))
=============================================================================
