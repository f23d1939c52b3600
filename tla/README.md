# Super Mouse firmware: a TLA+ model

This directory is a verification project for the firmware in `src/`: TLA+
modules translated from the code, TLC runs that model-check them on small
instances, and TLAPS proofs of the theorems that matter most for every value of
the constants. `PROJECT.json` lists components, runs, hazards and theorems, the
source lines that every definition stands for (`map`), and for every property a
change of one definition that breaks it (`mutants`).

## 1. The system

An STM32F401 sits between a USB mouse and a computer. It learns the mouse's
state over SPI, keeps a state machine of keys, buttons and motion, and tells the
computer about them as HID reports; what each of the mouse's extra keys does is
configuration, stored in a flash sector and edited by the computer through
remote calls over USB.

### 1.1 Who runs when

There is no operating system. `main` (`Core/Src/main.cpp`) sets everything up,
turns the interrupts on (321-327), loads the configuration (340) and idles. All
else runs in interrupt handlers. `HAL_NVIC_SetPriority` gives every one of them
the same priority, so **a handler never preempts another one**: a handler is
atomic with respect to the other handlers, and only `main` can be interrupted.
Beside the handlers runs hardware: the DMA streams, the USART and the USB core,
which read and write memory and change their own state at any moment. These
three facts decide the grain of every module here: one action per handler (or
per part of `HAL_PCD_IRQHandler` that serves one interrupt), one action per
hardware step; in the flash store one per programming call, because a reset can
come between two of them; and in `spi_rx_complete` one per load from the packet
buffer, because the DMA stream stores between them.

### 1.2 The components

| Component | State | Operations | What makes it correct |
|---|---|---|---|
| Ring buffer, `circular_buffer/ring_buffer.*` | usable size; start and length of three segments (Sending, Queued, ClearToWrite) | mark_transferred, inflate, trim, get_transfer_buffer, copy_in_with_rollover | the segments always tile the usable part, in order |
| HID report buffer, `circular_buffers.cpp` | the ring and its 64 bytes of memory, each block with a header | allocate, transfer out, release | a FIFO of whole, contiguous reports; refuses only when nearly full |
| UART buffer and debug port, `circular_buffers.cpp`, `main.cpp` | a ring of 512 bytes; HAL and DMA state; the receive stream's counter and read position | printf, 10 ms timer, DMA and USART completions, echo | DMA reads bytes nobody touches; the echo neither overtakes reception nor leaves its buffer; the queue empties |
| HID class driver, `usbd_hid.cpp` | the class data (absent, idle, busy), the endpoint | init, deinit, send next, data-in, class requests | one report at a time, none lost but by deconfiguration; never stuck in busy |
| USB device core, `usbd_core.c`, `usbd_ctlreq.c` | dev_state and the state a suspend saves | reset, suspend, resume, set address, set configuration | no handler meets missing or stale class data |
| Endpoint 0, `usbd_core.c`, `usbd_ctlreq.c`, `usbd_ioreq.c`, `stm32f4xx_hal_pcd.c` | the stage of the transfer and its lengths; the endpoint's registers and FIFOs; the buffer of a call | SETUP, data and status stages of every kind of request | reads are exact, a call has its buffer and runs before it is acknowledged, device and host agree, no transfer hangs |
| Sensor link, `main.cpp`, `stm32f4xx_hal_spi.c`, `stm32f4xx_hal_dma.c` | the state of SPI and DMA stream, the packet buffer, a count of errors | circular reception, `spi_rx_complete`, overrun, abort, `spi_rx_error` | buttons and keys settle on the last packet's, motion is added once, reception never stops silently |
| Mouse event handler, `mouse/` | accumulators, button and keypad states (current and previous), modifiers, tracked key, poll-interval report; event tables | update_state, poll-interval timer with eight reporting functions, registration, application id | what it takes to be reported is what the host learns; motion is conserved; keys are lifted |
| Flash key-value tree, `flash_key_value_tree/` | nodes in a sector where bits can only be cleared; two addresses in RAM | read, add, edit, load, erase | nodes form a tree; a write is found again; only bits are cleared |
| Remote calls, `rpc/` | none of its own | write, erase, reset, application id | they run in the USB handler, between two steps of `main`, at the end of a call's data stage |
| `main` and wiring, `stm32f4xx_it.c`, `*_msp.c` | handler tables, priorities | start-up, loading the configuration | nothing a handler needs is used before it is set up |
| HAL, CMSIS, descriptors, start-up code, `acqTrigger.c`, `dataAcq.c` | - | - | vendor code, constants, leftovers of another project |

### 1.3 How they interact

- the sensor's bytes -> DMA stream -> packet buffer; at the end of a packet the
  stream's handler calls `spi_rx_complete`, which reads the packet **in place**,
  while the next one may already be arriving, and passes it to
  `MouseEventHandler::update_state` (adds motion, stores states).
- 10 ms timer 9 -> `hid_poll_interval_timer_callback` (allocates reports in the
  HID report buffer, writes into them through pointers), then
  `USB_HID_Send_Next_Report` (Queued -> Sending, starts the endpoint).
- USB handler -> FIFO-empty reads the report from the buffer's memory *then*;
  transfer-complete releases Sending and sends the next one; reset, suspend and
  configuration change `dev_state` and the class data; a SET_REPORT's data is a
  remote call, executed in the handler before the status stage.
- timer 10 -> echo of received bytes, start of the next UART transmission;
  two interrupts later (DMA, then USART) the bytes are released.
- `main` -> traverses the flash tree and registers event tables while all of the
  above is running, remote writes to the tree included.

### 1.4 What is hard here

Pointers into a ring whose size changes (trim and inflate); reports read from
memory long after they were queued; bus resets and suspends in the middle of a
transmission; two state variables for one UART transmission that become ready at
different times; a DMA counter read while it counts; allocations that fail half
way through building a set of reports; a flash write of many steps with a reset
between any two of them; a tree that is edited under its reader; requests that
the host gives up half way, and pending interrupts of the old one that are served
after the new one has begun; a packet that is read where the next one is written. Section `hazards` of
`PROJECT.json` has each of them at its line, with the properties that would catch
it going wrong, or the reason that none does yet.

## 2. The modules

| Module | Models | State and actions in the code's terms |
|---|---|---|
| `RingBuffer` | `ring_buffer.cpp` | a record `size, start, num`; one operator per method; `WellFormed` = the segments tile the usable part |
| `HIDReportBuffer` | `HIDContinuousBlockCircularBuffer` | `ring`, `mem` (which report's header and bytes lie where), `handed` (the pointers a reader holds) |
| `HIDReportQueue` | the same object, methods called in any order | `Allocate`, `TransferOut`, `ReleaseOldest`, `ReleaseAll` |
| `ReportFifo` | abstract: a FIFO of whole reports | refined by `HIDReportQueue` (`FifoSpec`) |
| `UnitTest` | `test3` of `test_ring_buffer.cpp`, replayed | an assumption TLC evaluates in the runs of `MCUsbHid` |
| `UsbHid` | `usbd_hid.cpp`, `usbd_core.c`, `usbd_ctlreq.c`, `PCD_WriteEmptyTxFifo`, timer 9 | `dev_state`, `dev_old_state`, `hid_state`, `hid_report_buf`, `ep_in`; one action per interrupt |
| `ReportDelivery` | abstract: reports wait, one is on the wire, it is acknowledged, or lost with the configuration | refined by `UsbHid` (`DeliverySpec`) |
| `Uart` | `UART_Tx_CircularBuffer`, `_write`, timer 10, the UART and DMA callbacks | the ring, `gState`, `dma_tx_state`, the hardware's `request` and `tx_phase`; the receive side's counter, pending lap and read position |
| `MouseEventHandler` | `mouse_event_handler.cpp`, `reporting_functions.cpp` | `handler` is the object's fields with its report queue; `HidPollIntervalTimerCallback`, `UpdateState`, `RegisterConfigEntry`, `SetApplicationId`, `HostTakes` |
| `KeyValueTree` | `key_value_tree.cpp`, `key_value_node.cpp`, `flash_config.cpp` | `flash`, the two RAM addresses, `op` = the programming calls still to make; `WriteKey`, `ProgramFlash`, `Reboot`, `EraseSector` |
| `ConfigurationLoad` | `KeyValueTree` with `main`'s traversal (`traverse_with_node_function`, `LazyFilter`) between the handlers' writes | `stack` = `traversal_stack`, `reading` and `link_id` = the node whose links are walked and the link found next; histories `visited` and `due`; `BeginLoad`, `VisitNode`, `PushChild`, `EndLoad`, `RemoteWrite` |
| `ControlEndpoint` | endpoint 0 from `HAL_PCD_IRQHandler` to `RPC::Handle_RPC` | `dev` = pdev, hpcd and the registers of endpoint 0; `rx_fifo`; `pass` = the fixed order in which one call of the handler looks at its interrupts; `host` = the transfer and what the host knows; `ran` = executions of the last call |
| `SpiReceive` | reception on SPI1 with its DMA stream | `spi_state`, `rx_dma_state`, the TC and OVR flags, the bytes in `spi_rx_buf`; `in_handler` and `loaded` = what `spi_rx_complete` has loaded so far; history `taken` |
| `SensorToHost` | `SpiReceive` composed with `MouseEventHandler` | `RxDmaInterrupt` begins the stream's handler, `LoadsPacket` loads a part of `spi_rx_buf` as it is then, `RxComplete` calls `update_state` and returns |
| `MC*` | - | constants of the TLC runs |
| `*_proofs` | - | theorems and lemmas for TLAPS |

`HIDReportBuffer` is built on `RingBuffer`, `UsbHid` on `HIDReportBuffer`, `Uart`
on `RingBuffer`. `MouseEventHandler` stands on the promise of `HIDReportQueue`
(a FIFO that refuses only as `RefusedOnlyWhenNearlyFull` allows), not on its
bytes. `SensorToHost` puts the packets in place of `SpiRxComplete`, and
`ConfigurationLoad` puts `main` beside `KeyValueTree`.

A few correspondences need a word:

- **Memory.** `mem` maps a byte offset to the report whose block was written
  there, for as long as no byte of the block is overwritten. A header that was
  overwritten reads as a length that never fits, so that a reader that met one
  would show.
- **The endpoint.** `Armed`: the transfer is requested and the report still lies
  in the buffer. `Loaded`: it is in the FIFO. `Sent`: acknowledged, the
  interrupt is pending. The report is copied at `Armed -> Loaded`, as in
  `PCD_WriteEmptyTxFifo`.
- **Allocation in the mouse handler.** A handler is an operator from a state to
  the *set* of states it may leave, one per outcome of each allocation. The
  buffer may accept whenever the report fits and may refuse whenever
  `RefusedOnlyWhenNearlyFull` lets it.
- **Flash.** A value is identified with its node, addresses count nodes, and
  every operation is the list of programming calls that the code makes in its
  order; `Reboot` can drop the rest of the list at any point.

- **The buffer of a call.** hpcd's pointer for the OUT endpoint is `out_buff`:
  null, the start of `Report_buf`, or its end, to which it has advanced when a
  packet was read. A SETUP packet and the SETUP-done entry behind it are popped
  as one.
- **Late handlers.** `MouseEventHandler!SpiRxComplete` takes any combination of
  motion, buttons and keys, because a late handler reads a mixture of two
  packets; `SensorToHost` makes the mixtures that can really occur: the parts are
  loaded one after another, in an order that C++ leaves open (the arguments of
  `update_state`), bytes arrive in between, and so does the interrupt of the next
  packet, which stays pending. No other handler, nor `main`, runs meanwhile. It
  leaves out `SetApplicationId`, on which the reports of buttons do not depend.
- **Horizontal scroll.** A report made for a button has no value of its own for
  `scroll_x`, which `create_or_retreive_default_mouse_hid_report` forgets; `pan` is
  the set of values the report may carry, all of them in that case.
- **Divisors.** A divisor of zero in a stored entry is undefined in C; the
  processor's SDIV gives 0, and no trap is enabled (`Quotient`).
- **`main`'s traversal.** `BeginLoad` may happen at any idle moment: a reboot of
  an idle device reloads the two addresses and leaves no other trace. An erase or
  a reboot ends what is followed of a traversal.

## 3. The runs

All passing runs check for deadlock. Sizes are TLC's distinct states.

| Run | States | Checks | Shows |
|---|---|---|---|
| `hid_queue` | 2,372 | `RingInv`, `RefusedOnlyWhenNearlyFull`, `SendingIsHandedOut`, `FifoSpec` | the report buffer, with trims, inflations and fragmentation, is a FIFO of whole reports |
| `usb_hid` | 20,992 | `TypeOK`, `ClassDataWhileConfigured`, `BusyIsOngoing`, `DeliverySpec`, `QueueMoves`, `RefusalEnds` | the class state follows the configuration through every order of bus events; the driver implements `ReportDelivery`; waiting reports leave and a full buffer empties, unless it is wedged (see `usb_hid_reset`) |
| `control` | 771,883 | `TypeOK`, `DataHasBuffer`, `ReadIsExact`, `ViewAgrees`, `ClassDataPresent`, `AcknowledgedCallHasRun`, `RefusedOnlyIfUnsupported`, `TransferEnds` | control transfers with a host that gives up requests and resets the bus at any moment, beside a handler that lags behind |
| `usb_hid_reset` | violation | `SendingIsOngoing` | a bus reset leaves a report in Sending with nothing going on |
| `uart` | 6,990 | `TypeOK`, `DmaReadsSending`, `EchoStaysInBuffer`, `EchoFollowsReception`, `QueueGetsRoom` | text being read by the DMA is untouched; echo is exact in its bounds; output never stalls |
| `uart_race` | violation | `SendingWasStarted` | between the DMA's and the USART's interrupt, text is taken from the queue that is never sent |
| `flash` | 810,515 | `TypeOK`, `NodesFormTree`, `GrowthNodeIsLast`, `OneGrowthNode`, `LatestIsLoaded`, `LoadMissesOnlyEdited`, `BitsOnlyCleared` | structure of the store, with one reset in the middle of a write; `main`'s traversal, cut open by a write, misses no subtree but the edited node's |
| `flash_reset` | violation | `SurvivesReset` | a reset in the middle of an edit makes saved keys disappear |
| `flash_edit` | violation | `EditTakesEffect` | after enough edits an old value comes back |
| `mouse` | 383,280 | `TypeOK`, `ButtonsInStep`, `TimerFollowsKeypad`, `MotionConserved`, `KeysAreLifted` | buttons, keys and motion, the wheel's in its narrow field included, survive refused reports |
| `sensor_to_host` | 472,360 | `SpiTypeOK`, `StopIsAnnounced`, `SettlesOnLastPacket`, `MotionTakenOnce`, `ButtonsReachHost` | from a packet on the line to the host: whatever mixtures late handlers read, the handler settles on the last packet's buttons and keys, and its buttons arrive; motion is added once if it is loaded in time; an overrun is announced |
| `mouse_key_up` | violation | `ShortPressIsReported` | the event of a short press is looked up under "no key" |

What `LoadMissesOnlyEdited` allows is a real loss: the readme of the store wants a
traversal to load all keys, but an edit while `main` loads can cost it the edited
key and the keys below that node until the next start. The five violations are disagreements between the code and its own documents or
comments; `findings` in `PROJECT.json` quotes the lines.

### 3.1 Bounds, and why they are enough

- `hid_queue`: 16 bytes as in the repository's own test build; reports of three
  different lengths, so that the leftover at the end takes all the values that
  matter, trims occur at several offsets, and two or three reports share the
  buffer. The proofs remove the bounds for all four properties.
- `usb_hid`: 24 bytes instead of 64, with real report lengths (8 and 5 bytes and
  a header of 2): two mouse reports, or three keyboard reports, so that the
  buffer fills, wraps, trims, and refuses. A poll interval builds no report, a
  mouse report, or press and release (`MaxBatch` 2). The proofs remove the bounds
  for the safety properties.
- `control`: packets of 2 bytes and a descriptor of 4, so that it fills its
  packets; the host asks for 2 (cut off in one packet) or 6 (ended by an empty
  packet). A call is one packet, as in the code. The host sets the addresses 1
  and 0, which takes the device back to the default state, and the configurations
  1, 0 and one that there is not. `MaxRxFifo` 1: a SETUP
  finds at most one packet not read yet. The theorems remove the bounds for all
  but `TransferEnds`.
- `uart`: a ring of 6 bytes, a receive buffer of 3 and a byte with 6 values keep
  the code's relation `uint8_t range = 2 * UART_RX_BUF_SIZE`. Bound: at most one
  unserved lap of the receive stream. The theorems remove the sizes.
- `flash`: four keys, three links per node (four in the code), seven nodes, one
  write cut short, one write while `main` loads. Seven nodes allow four adds and
  three edits: full nodes, new roots over roots, and carcasses. A write is not
  started when the sector is full (`Capacity`): the code does not check, see the
  hazard. The properties also held with two late writes (1.4 million states) and
  with any number of them (1.9 million), and those of the store alone with eight
  nodes. `flash_edit` needs the code's four links and eleven nodes. The theorems
  remove the bounds, that on late writes included.
- `mouse`: two keys, one button, motion along x and of the wheel in types of 4
  values with a wheel field of 2, so that truncation and wrap-around occur; 23
  bytes of buffer, which is two mouse reports or three keyboard reports, so that
  every allocation of an interval can be the one refused. The real ranges are
  2^16 and 2^8; the properties depend on the one dividing the other
  (`RangeAssumption`). The theorems remove the bounds.
- `sensor_to_host`: a packet has two parts, the motion and then buttons and keys,
  which is what a late handler can mix; four packets; motion in a type of 2
  values; 19 bytes of buffer, in which two mouse reports find no room. One overrun
  is possible, because nothing is received after it. Bytes sent to a device that does not receive are left out. The theorems remove the
  bounds for all but `ButtonsReachHost`.

### 3.2 Fairness

- `UsbHid`: the poll timer fires for ever and changes a state each time
  (`tim9_count` makes an interrupt with nothing to do a step); a pending
  interrupt is served (weak fairness of `WriteEmptyTxFifo`, `DataIn`), because
  the hardware holds it until it is; a host that has configured the device and
  not suspended it polls its interrupt endpoint (weak fairness of `HostPoll`),
  as the USB specification requires. Nothing is assumed about resets, suspends
  and configurations: the properties end when the configuration does.
- `Uart`: hardware finishes a request it was given and pending interrupts are
  served (weak fairness). `Timer10` has strong fairness, because it is disabled
  for the moment between a lap and its interrupt: a timer interrupt stays pending
  and is served after it.
- `ControlEndpoint`: the interrupt is served (weak fairness of `IrqOut`, `IrqIn`,
  `IrqRest`) and the host goes on with its transfer (`HostIn`, `HostOut`); it need
  not begin one, reset the bus or end early.
- `SensorToHost`: the sensor finishes a packet it has begun, the two interrupts
  are served, a handler that has begun goes on (`LoadsPacket`, `RxComplete`),
  timer 9 keeps running and the host keeps polling, all weakly.
  Overruns and new packets are free; that packets cease is a premise of
  `ButtonsReachHost`.
- `MouseEventHandler`, `SpiReceive`, `KeyValueTree` and `ConfigurationLoad` on
  their own have no liveness property and no fairness.

## 4. The proofs

Checked by TLAPS from nothing assumed but the constants' assumptions
(`MaxBufferSizeAssumption` and `ReportLenAssumption`: sizes and lengths are
positive; `BatchesAssumption`: a poll interval builds at most `MaxBatch` reports;
`UartAssumption`: a byte can count the receive buffer;
`ControlAssumption` and `ConfigurationAssumption`: the types of the constants, and
that a read of endpoint 0 has something to read and asks for
some of it, as one that does not has no data stage; `RangeAssumption`: the wheel's range divides the motion's;
`SpiAssumption`: a packet has more than one byte; `PacketAssumption`: the two parts
of a packet are inputs of the mouse handler, and the idle packet has no button or
key down; of the text that the buffer holds at first only the length is assumed;
`KeyValueTreeAssumption`: a node has two links at least, as one of them is the
implicit one, and the sector holds a node).

| Theorem | Statement |
|---|---|
| `HIDReportQueue_proofs!SegmentsTileTheBuffer` | `Spec => []RingInv` |
| `HIDReportQueue_proofs!RefusalsAreBounded` | `Spec => []RefusedOnlyWhenNearlyFull` |
| `HIDReportQueue_proofs!SendingWasHandedOut` | `Spec => []SendingIsHandedOut` |
| `HIDReportQueue_proofs!BufferIsFifo` | `Spec => FifoSpec` |
| `UsbHid_proofs!ReportsAreDelivered` | `Spec => DeliverySpec` |
| `UsbHid_proofs!ClassDataIsThere` | `Spec => []ClassDataWhileConfigured` |
| `UsbHid_proofs!BusyMatchesEndpoint` | `Spec => []BusyIsOngoing` |
| `UsbHid_proofs!TypeCorrect` | `Spec => []TypeOK` |
| `ControlEndpoint_proofs!TypeCorrect` | `Spec => []TypeOK` |
| `ControlEndpoint_proofs!CallsHaveBuffer` | `Spec => []DataHasBuffer` |
| `ControlEndpoint_proofs!HostViewAgrees` | `Spec => []ViewAgrees` |
| `ControlEndpoint_proofs!ClassRequestHasData` | `Spec => []ClassDataPresent` |
| `ControlEndpoint_proofs!ReadsAreExact` | `Spec => []ReadIsExact` |
| `ControlEndpoint_proofs!NothingElseIsRefused` | `Spec => RefusedOnlyIfUnsupported` |
| `ControlEndpoint_proofs!CallRunsBeforeStatus` | `Spec => AcknowledgedCallHasRun` |
| `SensorToHost_proofs!SpiTypeCorrect` | `SpiSpec => []SpiTypeOK` |
| `SensorToHost_proofs!StopsAreAnnounced` | `SpiSpec => []StopIsAnnounced` |
| `SensorToHost_proofs!PromptMotionTakenOnce` | `SpiSpec => MotionTakenOnce` |
| `SensorToHost_proofs!ReadsAreSent` | `SystemSpec => []PacketsInv` |
| `SensorToHost_proofs!SystemImplementsSpi` | `SystemSpec => SpiSpec` |
| `SensorToHost_proofs!SystemImplementsMouse` | `SystemSpec => Spec` (of `MouseEventHandler`) |
| `SensorToHost_proofs!SystemIsInStep` | `SystemSpec => [](ButtonsInStep /\ StopIsAnnounced)` |
| `SensorToHost_proofs!SystemLiftsKeys` | `SystemSpec => KeysAreLifted` |
| `SensorToHost_proofs!SystemSettlesOnLastPacket` | `SystemSpec => []SettlesOnLastPacket` |
| `SensorToHost_proofs!MouseTypeCorrect` | `Spec => []TypeOK` |
| `SensorToHost_proofs!ButtonsStayInStep` | `Spec => []ButtonsInStep` |
| `SensorToHost_proofs!TimerFollows` | `Spec => []TimerFollowsKeypad` |
| `SensorToHost_proofs!KeysLifted` | `Spec => KeysAreLifted` |
| `SensorToHost_proofs!MotionIsConserved` | `Spec => MotionConserved` |
| `Uart_proofs!TypeCorrect` | `Spec => []TypeOK` |
| `Uart_proofs!DmaReadsOnlySending` | `Spec => []DmaReadsSending` |
| `Uart_proofs!EchoIsBehindReception` | `Spec => []EchoFollowsReception` |
| `Uart_proofs!EchoFitsBuffer` | `Spec => []EchoStaysInBuffer` |
| `KeyValueTree_proofs!TypeCorrect` | `Spec => []TypeOK` |
| `KeyValueTree_proofs!TreeIsFormed` | `Spec => []NodesFormTree` |
| `KeyValueTree_proofs!GrowthIsLast` | `Spec => []GrowthNodeIsLast` |
| `KeyValueTree_proofs!GrowthNodeIsUnique` | `Spec => []OneGrowthNode` |
| `KeyValueTree_proofs!LatestLoads` | `Spec => []LatestIsLoaded` |
| `KeyValueTree_proofs!BitsAreOnlyCleared` | `Spec => BitsOnlyCleared` |
| `KeyValueTree_proofs!LoadRefinesTree` | `LoadSpec => Spec` (of `KeyValueTree`) |
| `KeyValueTree_proofs!LoadMissesNothingElse` | `LoadSpec => []LoadMissesOnlyEdited` |

**The ring** (`RingBuffer_proofs`). `WellFormed` speaks of a record of
functions, the code's indexes wrap with `%`. The lemmas go through `Tiled`, the
same fact as a relation between seven numbers: it survives moving a boundary,
inflating and trimming, and is symmetric in the three segments (`TiledRotates`),
so that each operation is proved for one segment. One lemma per method then says
that the method keeps `WellFormed`.

**The report buffer.** `RingInv` is not inductive for want of types, and
`RefusedOnlyWhenNearlyFull` is not inductive at all: it says nothing of the
buffer's usable size. The invariant is `IsBuffer /\ RingInv /\ TrimmedLittle`,
where `TrimmedLittle` says that what a trim has cut off is smaller than the block
it was made for. Then a refusal bounds
the space not in use: neither of the (at most two) pieces of the free space holds
the block, and when the buffer is trimmed what is missing is less than one block.

**What the buffer holds** (`HIDReportBuffer_proofs`). `FifoSpec` speaks of what a
reader finds that walks from header to header (`ReportsIn`, a recursive function of
the bytes left), and of the pointers it holds. That the walk finds whole reports is
not inductive: it does not say where the blocks are, so that it cannot say that a
write misses them. The invariant is `HoldsReports`: there are sequences of reports
for Queued and for Sending, and the positions of their blocks (`Contents`), such
that (`Holds`) the first block starts where the segment does, each starts where the
one before ends, or at 0 past the usable end, none crosses that end, the last ends
with the segment, and `mem` has each report at its place. Positions make it local:
a write touches only bytes that were free (`BlocksAreNotFree`,
`HoldsThroughWrite`), appending and removing a block change one end (`HoldsAppend`,
`HoldsTail`), and trimming and inflating move only the boundary that an empty or
whole segment can bear (`TrimContents`, `InflateContents`). Then one lemma per
method says what it does to the two sequences (`AllocateContents`,
`TransferOutContents`, `ReleaseOldestContents`, `ReleaseAllContents`), and
`ContentsRead` that the walk finds exactly these sequences. The walk is the one
place that needs induction. The library's induction theorems are out of reach, so
`WalkExists` and `HoldsWalk` argue from a least number for which the claim fails
(`LeastExists`); `AllocateAll`, a recursive function too, is treated the same way
(`AfterExists`, `AllocateAllAdds`).

**The refinements.** Under the mapping of `HIDReportQueue` the FIFO is Queued, and
what is out is Sending; each method maps to one step of `ReportFifo` or to none
(`FifoNext`). For `ReportDelivery` the invariant of the class driver is joined by
`ReportsInv`: the buffer holds reports, and an armed endpoint points to the last
block of Sending (`ReadsLast`). Not to the first: a reset can leave earlier reports
in Sending for good, which is what `usb_hid_reset` shows. Since the FIFO-empty
interrupt reads the report through the pointer some time later, that block must
still be whole then, whatever was allocated meanwhile (`LoadDelivers`). One lemma
per interrupt handler gives the step it is (`PollDelivers`, `DataInDelivers`,
`HostPollDelivers`, `CloseDelivers`, `RequestDelivers`). `ReportDelivery` bounds how
many reports a poll adds, hence `MaxBatch`.

**USB.** The invariant is the types with both properties and `SuspendedIsKnown`:
the bus is suspended exactly in state SUSPENDED, and a suspended device has no
acknowledged report to complete. Without the last part, a transfer-complete
interrupt in state SUSPENDED would free the endpoint and leave the class busy;
that it cannot come rests on the order in which `HAL_PCD_IRQHandler` serves its
interrupts.

**UART.** `TxInv` ties the HAL's two state variables to the hardware's phase, and
says that Sending is empty while nothing is being sent: this is why text that
`SendQueued` moves to an empty Sending starts where the request does. `RxInv` is
the type of the receive side with `EchoFollowsReception`; that the byte
differences never wrap (`ByteDifference`) follows from it.

**Endpoint 0.** `DataHasBuffer` is about a packet at the head of the FIFO while
the software that armed the buffer may be several requests behind. `CallInv` says
where the announcement of a call is: a call in the FIFO stands right behind the
SETUP packet that announces it, or that packet has been read and the device is
ready for the call, or will be once it has handled the SETUP (`CallsAnnounced`;
`HostAnnounced` for the call the host is about to send; `SetupHandled` for the
order in which the handler looks at things). The data stage of a read is the one
place where a late completion could give the buffer away (`ReadyFor`). Types are
proved along with it, one lemma per C function.

`ViewAgrees` speaks of a device with nothing left to handle, so it says nothing of
all the steps before. `ViewInv` foretells them (`Foretold`): there is a course of
states and addresses (`Course`) that starts where the device is, goes on with what
each request does to it (`After`), first the one it has read and then those in the
receive FIFO, and ends in a state that agrees with what the host knows, or will
know when it has the status it waits for (`Agrees`). A request the host sends
lengthens the course at its end (`ForetoldSent`); one that the device handles
shortens it at its beginning (`ForetoldHandled`); reading the FIFO shifts it
(`ForetoldRead`). A host that gives up a change is no longer sure and only knows
bounds, and it asks for nothing of the class (`Legal`). A device that is being
reset starts its course in the default state whatever it still holds, and a request
that the reset overtook unties the address (`ResetsInOrder`, `host.overtaken`).
Along the way every class request finds the device configured (`Ready`), which is
`ClassDataPresent`. That a course exists for any FIFO (`CourseExists`) is an
induction again, by a least counterexample.

`TransferInv` follows a transfer that the host began when the device had nothing
left to do, for the other three properties. The request is in the FIFO (`Asked`),
has been read (`Seen`), is a read at one of three points of a packet's way or
behind its end (`Reading`), is a call before its execution (`Calling`), or waits for
its status (`Waiting`). What `Reading` says is that the bytes sent are whole
packets, that the host has those and no more, and why the host goes on to the
status if it does; the lemmas on remainders (`NextPacket`, `ShortPacket`) then show
that `NeedsEmptyPacket` is right. That the device can handle the request at all
(`AbleWhenIdle`) is the one thing it takes from `ViewInv`.

**The sensor link.** `PhaseInv`: the two state variables of the HAL, the flags
and the count of errors move together through reception, abort and stop; a handler
is in the middle of a packet only while there is reception. `CountInv` says that
nothing is loaded outside a handler. `TakenOnce` needs `OneIsDue` beside it: there
is never a complete packet pending while the motion of the one before is still to be
loaded, as its first byte would have come too early. That is the one thing the
premise `[]Prompt` is for; it enters as an assumption on both states of a step. It
does not ask the handler to be in time with the rest of the packet, nor that the
packets after it wait for the handler to return.

**From the sensor to the host.** A late handler reads parts of two packets, but
never text that was in the buffer at first: `PacketsInv` says which parts have
been stored when the packet is due. So what it passes on is one of the inputs that
`MouseEventHandler` allows, and `SystemSpec` implements both modules it is composed
of; their theorems hold of it without another proof.

`SettlesOnLastPacket` is a fact of the composition alone, and speaks of the moments
when nothing is under way. `LastInv` bridges them: between two packets the handler's
state is the last packet's; or an interrupt is pending, or a handler at work, and the
word of buttons in `spi_rx_buf` is the last packet's; and if that word has been loaded
and no interrupt is pending, it is the last packet's that was loaded. The last part
is where the order of `HAL_DMA_IRQHandler` matters, which clears the flag before it
calls `spi_rx_complete`: a packet that ends after its word was loaded leaves the flag
set, and a handler that cleared it on return would keep a mixture for good (the mutant
`ReturnAndClear`). Nothing but `update_state` may touch the states of buttons and keys
(`InputKept`, proved for every reporting function along with the timer's).

**The flash store.** Its invariants speak of what a traversal finds, and say
nothing of the moment between two programming calls. The proof has three layers.

1. *What the loop computes.* `Traversal` walks with a stack. If a set `R` with the
   root in it is closed under valid links, and no node of it is entered on two ways
   (`Tree`), then after `n` turns the walk has met only nodes of `R`, none of them
   twice, and no link of a visited node is open (`WalkInv`, kept by `WalkStep`).
   Hence it ends within `Capacity` visits and has visited exactly what is
   `Reached`, the intersection of all closed sets. Likewise `FindActiveRootNode`
   follows a `Chain` of old roots, each pointing to a later one, to the only
   active one. The recursive functions are again followed up to a least
   counterexample.
2. *What the calls do.* `Runs(G, f, s, h)` says that the calls `s` lead from the
   image `f` to `h`, clear bits only, and go through images of `G`. It composes
   along `\o`, so that each operation is proved once, as one row of calls, by
   composing what its parts do: `AddFirstRootNode`, `AddGrowthNode`, the two
   branches of an edit. Every image on the way is `Safe`: the roots form a chain,
   a tree hangs from the active one, nothing is written behind a node that can
   be appended to, links point to older nodes. A new root is the delicate case:
   between the calls that clear the old root's flag and write its link there is
   no active root (the device does not boot, `hung`), and the new node takes over
   the children of the node it replaces, which must not be reached through it any
   more.
3. *The invariant.* `StoreInv`: the image is `Safe`, and either nothing is in
   progress and the two addresses are what `reload` finds, or the calls still to
   come are a row that runs through safe images to one that keeps the last value
   of every key (`Kept`), the key in question having the new one. A step of
   `ProgramFlash` moves along the row, and a reset drops its rest: neither needs an
   argument about the operation. Only for a first node or an added one are the
   images on the way `Good`, that is, they still hold all earlier values; an edit
   that is cut short may lose some, which is what `flash_reset` shows.

`LoadRefinesTree` carries all of this to the device whose `main` is loading.

**The interrupted load.** `main` walks a tree that no longer is one: while it goes
through links it has found, writes cut links, and new roots reach the nodes on other
ways. `LoadInv` therefore speaks of what stays true of the links as they were. There
is a set `W` of nodes that `main` may come across and a function `up` that names, for
each, the node it is pushed from (`Region`): a link can be cut from it and one leaf
hung into it, but none turned, as bits are only cleared. No node is pushed twice
since each was pushed when `main` was at `up` of it, and the link that was found
before the interruption is pushed although it may be invalid by now (`Tour`). What
is `due` hangs together from the first node, and a link of a visited node that leads
to a due one has been pushed or is still ahead (`Cover`). An edit takes a whole
subtree out of `due` (`CoverShrinks`, `SubtreeIsTree`), so that cutting the link to
it afterwards is `Harmless`; the new root lies outside `W` (`OutOfTheWay`). The
invariant holds between any two calls of a write, although `main` stands still then:
a write is a row of calls, each of which keeps it (`CallTends`, `TourGoesOn`).

**The mouse.** A handler is an operator from a state to a set of states, so the
proof has a lemma per reporting function that speaks of all of them: `Keeps`.
`Sound` is what survives each single allocation, refused or not: types, the
bytes in the buffer, the poll interval's report being a mouse report that is in
the buffer, and the buttons the host will believe in being those that count as
reported. `KeypadKept` says what a reporting function may do to the state of the
keypad; `ABSOLUTE_MOUSE_POSITIION` counts the keypad's change as reported, which
is why `TimerFollowsKeypad` depends on the order in which
`hid_poll_interval_timer_callback` reports buttons, keypad and motion
(`ReportButtonsKeeps`, `ReportKeypadKeeps`, `ReportMotionKeeps`). `Lifts` is the
part about keys, a relation between the states before and after a function: what
a host would be left holding is nothing, or the buffer is nearly full. Press and
lift are one function (`PressReleaseKeeps`), every other report only adds to the
buffer and holds no key, and so it composes along a poll interval. The
configuration is arbitrary: any entries of the right types, divisors of zero
included. The lemmas on `Max` replace induction by the existence of a least
element.

`MotionConserved` follows the motion through one poll interval, from the handler it
begins with. Of the reports allocated since, only the one of the interval can carry
motion (`Tracks`); it carries none yet and the accumulators are as they were
(`Pending`), or it carries all of it and they are clear (`Reported`). The key events
and the keyboard's reports keep either (`CarriedAccounts`), and motion is dispatched
only while it is pending, because a report of it clears the accumulators
(`ReportMotionAccounts`). The property names the entries of the key that is tracked
when the interval ends; buttons and key do not change between a dispatch and the end
(`SameKeyStraight`), so they are the entries that were used. The sum over the new
reports has one term at most, so that the fold can be evaluated (`SumOfOne`), and what
a field of the report holds differs from the accumulator by a multiple of the field's
range (`StoredDiffers`).

**Only model-checked**: the liveness properties (`QueueMoves`, `RefusalEnds`,
`TransferEnds`, `QueueGetsRoom`, `ButtonsReachHost`), which need ENABLED.

## 5. What the models take for granted

- Equal interrupt priorities, so that handlers are atomic (`*_msp.c`).
- The debug build (-O0): the compiler does not move a handler's memory accesses
  past the register writes that start the DMA.
- USB: closing the endpoint drops its transfer. `USB_DeactivateEndpoint` neither
  disables the endpoint nor flushes its FIFO; what the controller does then is
  not in the source. `USBD_LL_Reset` is called when enumeration is done; until
  then the endpoint keeps what it had. IN endpoints are served before suspend
  and reset in one handler call. A wake-up follows a suspend.
- The receive stream does not lap the echo twice before its interrupt is served.
- A call of `memcpy_to_flash` or `flash_write_byte` is one step: a reset in the
  middle of one call is not modelled, and locking and programming always succeed
  (the results of `HAL_FLASH_Program` are dropped on the way up).
- Flash: addresses count nodes. The code adds up a node's length in a `uint8_t`,
  which a value of more than 231 bytes would wrap; a call of one packet has none.
- Mouse: `Queued` and `Sending` are one queue, and reports that a bus reset loses
  are the subject of `UsbHid`. `MotionConserved` names what it leaves out: entries
  that scale or redirect motion, and a KEY_DOWN entry that writes motion, which
  overwrites the motion reported just before it (listed as a hazard). For the
  wheel it holds modulo the field's range. No property reads the horizontal scroll.
  An application id is one that there are tables for: `set_application_id` does not
  check, and 16 or more would index behind them.

- Endpoint 0: `UNSUPPORTED` stands for all requests that end in `USBD_CtlError`
  whatever the state, but for a SET_CONFIGURATION of a configuration that there is
  not (`UNKNOWN_CONFIGURATION`). The controller accepts every SETUP, which disarms the endpoint,
  clears its stalls and drops what its transmit FIFO holds; a bus reset leaves the
  receive FIFO. The new address is in effect at once and the host uses it from its
  next request on; only a reset gives up a SET_ADDRESS. The host keeps to the
  protocol: class requests go to a device it knows to be configured, and a call's
  data is exactly one packet. What a call does is left open: it returns, or it is
  RESET_SYSTEM.
- Endpoint 0, what the properties leave out by name: `rushed` is a request that
  the host began while interrupts of the one before were unserved (a late
  `USBD_LL_DataInStage` then stalls or arms the new request, `usbd_core.c:401-407`,
  and a late completion is counted as its data); `overtaken` is a reset that
  overtook a SETUP in the FIFO (it is executed after the reset, so that the device
  takes an old address, or runs a class request without class data). Both are
  hazards with their lines; without the exclusions the properties are violated.
  `TransferEnds` also excludes a feature request for an unknown feature, which the
  device answers neither way.
- The sensor link: dx, dy and dz are one part of a packet in `SensorToHost`, and the
  word of buttons and keys, taken to be loaded at once, is the other; `SpiReceive` and
  its theorems have any number of parts. An overrun is the only error (a slave without TI frames;
  addresses are valid, so the stream reports no transfer error). An abort raises TC
  at once. The half-transfer interrupt changes nothing (`main.cpp:318` is
  commented out). Reception starts between two packets, and the line neither adds
  nor loses a byte but by an overrun. After an overrun reception never starts
  again (nothing calls `HAL_SPI_Receive_DMA`): the buttons stay as they were, and
  a complete packet whose interrupt is pending is dropped with the abort.

Not modelled: descriptors; clock, pin and peripheral set-up; the rest of the HAL
and CMSIS, which is most of the repository's lines (register definitions, drivers
of peripherals that the firmware does not use, and paths of the used ones that its
configuration never takes), so that the modelled lines are a small share of all
lines though they are most of the firmware's own logic; `print_state`, `copy_in_without_rollover`, `copy_out_with_rollover` and
`SendReport`, which nothing calls; the leftovers of another project.

## 6. The plan

Order of work; items 1 to 9 and 12 to 19 are done.

1. `RingBuffer`, `HIDReportBuffer`, `HIDReportQueue` against `ReportFifo`.
2. `UsbHid` against `ReportDelivery`.
3. `Uart`.
4. `KeyValueTree` with resets.
5. `MouseEventHandler`.
6. Proofs: the ring's lemmas, `RingInv`, `RefusedOnlyWhenNearlyFull`.
7. Proofs: `UsbHid` and `Uart`.
8. The interrupted `main`: its traversal of the flash tree and its registration
   of entries, step by step, while the USB handler edits the tree (`ConfigurationLoad`:
   it can miss the edited subtree, and repeats none).
9. Endpoint 0: SETUP, data and status stages, the class requests of
   `USBD_HID_Setup`, and `EP0_RxReady` with the dispatch of remote calls
   (`Handle_RPC`): `ControlEndpoint`.
10. `MouseEventHandler` composed with `HIDReportBuffer` in place of the promise,
    so that the choice to refuse is the real one.
11. A run that contrasts `RegisteredApplication` with
    `mouse/reporting_functions.h:14`.
12. Proofs: `FifoSpec` as a refinement (the memory invariant: every block between
    the start of Sending and the end of Queued is whole), then `DeliverySpec` on
    top of it; `SendingIsHandedOut`.
13. Proofs: `TimerFollowsKeypad`, `ButtonsInStep`, `KeysAreLifted` and `TypeOK` of
    `MouseEventHandler`, one lemma per reporting function.
14. Proofs: the invariants of `KeyValueTree` and `BitsOnlyCleared`, with the
    traversal as a loop over turns, so that it can be reasoned about.
15. The sensor link and the way from a packet to the host: `SpiReceive`,
    `SensorToHost`.
16. Proofs: what relates the device to the host on endpoint 0 (`ViewAgrees`,
    `ClassDataPresent`, `ReadIsExact`, `RefusedOnlyIfUnsupported`,
    `AcknowledgedCallHasRun`).
17. Proofs: `SensorToHost` implements both of its parts.
18. Proofs: `LoadMissesOnlyEdited` of `ConfigurationLoad`.
19. Proofs: `MotionConserved`.
