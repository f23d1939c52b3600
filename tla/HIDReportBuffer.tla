-------------------------- MODULE HIDReportBuffer ---------------------------
(***************************************************************************)
(* HIDContinuousBlockCircularBuffer (circular_buffer/circular_buffers.cpp) *)
(* as a data type: its state, and its methods as operators on that state.  *)
(*                                                                         *)
(* A report is stored as one contiguous block: a header of HeaderSize      *)
(* bytes that holds the report's length, then the report.  The reader      *)
(* finds the length of the oldest report by reading the header where the   *)
(* Queued segment starts.  Nothing else says where one report ends and the *)
(* next one starts.                                                        *)
(*                                                                         *)
(* Memory is modelled block by block: mem maps an index to the report      *)
(* whose block starts there and none of whose bytes has been overwritten   *)
(* since.  A block that is written removes every block it overlaps, stale  *)
(* or not.                                                                 *)
(***************************************************************************)
EXTENDS RingBuffer, Sequences

CONSTANTS Reports,        \* the reports the firmware builds
          ReportLen(_)    \* their length in bytes

HeaderSize == 2           \* sizeof(uint16_t)

ASSUME ReportLenAssumption == \A r \in Reports : ReportLen(r) \in Nat \ {0}

BlockSize(r) == ReportLen(r) + HeaderSize

-----------------------------------------------------------------------------
(***************************************************************************)
(* Memory.                                                                 *)
(***************************************************************************)
Span(at, len) == at .. at + len - 1

\* The blocks of mem that writing len bytes at index at leaves intact.
Survivors(mem, at, len) ==
    {b \in DOMAIN mem : Span(b, BlockSize(mem[b])) \cap Span(at, len) = {}}

WriteBlock(mem, at, r) ==
    [b \in Survivors(mem, at, BlockSize(r)) \cup {at} |->
        IF b = at THEN r ELSE mem[b]]

\* The length the header at index at holds.  Bytes that are no longer a header
\* read as some number: one that never fits, so that a reader that meets them
\* is stuck and the properties below fail.
HeaderAt(mem, at) ==
    IF at \in DOMAIN mem THEN ReportLen(mem[at]) ELSE MaxBufferSize

-----------------------------------------------------------------------------
(***************************************************************************)
(* The methods.  Each takes the buffer and returns the buffer it leaves;   *)
(* handed holds the blocks returned to the caller of                       *)
(* transfer_out_next_report and not released yet: the pointers the USB     *)
(* endpoint still reads from.                                              *)
(***************************************************************************)
EmptyBuffer == [ring |-> EmptyRing, mem |-> <<>>, handed |-> <<>>]

\* allocate_space_for_report, with the writes its caller makes through the
\* pointer before it does anything else to the buffer.  ok tells whether the
\* pointer was not null.
AllocateSpaceForReport(buf, r) ==
    LET got == GetTransferBuffer(buf.ring, "ClearToWrite", "Queued",
                                 BlockSize(r), TRUE)
    IN  IF got.at = NullPtr
          THEN [buf |-> [buf EXCEPT !.ring = got.ring], ok |-> FALSE]
          ELSE [buf |-> [buf EXCEPT !.ring = got.ring,
                                    !.mem  = WriteBlock(@, got.at, r)],
                ok  |-> TRUE]

\* transfer_out_next_report: the header is transferred first, then as many
\* bytes as it says.  len = 0 stands for the null pointer.
TransferOutNextReport(buf) ==
    LET siz  == GetTransferBuffer(buf.ring, "Queued", "Sending", HeaderSize, FALSE)
        len  == HeaderAt(buf.mem, siz.at)
        data == GetTransferBuffer(siz.ring, "Queued", "Sending", len, FALSE)
        none == [at |-> NullPtr, len |-> 0]
    IN  CASE siz.at = NullPtr ->
               [buf |-> buf, block |-> none]
          [] siz.at # NullPtr /\ data.at = NullPtr ->
               [buf |-> [buf EXCEPT !.ring = data.ring], block |-> none]
          [] OTHER ->
               LET block == [at |-> data.at - HeaderSize, len |-> len]
               IN  [buf   |-> [buf EXCEPT !.ring = data.ring,
                                          !.handed = Append(@, block)],
                    block |-> block]

\* Mutant of MarkReportTransferred: the header is not released.
ReleasePayloadOnly(buf, n) ==
    [ring   |-> MarkTransferred(buf.ring, "Sending", "ClearToWrite", n),
     mem    |-> buf.mem,
     handed |-> Tail(buf.handed)]

\* mark_transferred: release n payload bytes and their header from the front
\* of Sending.
MarkReportTransferred(buf, n) ==
    [ring   |-> MarkTransferred(buf.ring, "Sending", "ClearToWrite", n + HeaderSize),
     mem    |-> buf.mem,
     handed |-> Tail(buf.handed)]

\* last_send_complete: release everything in Sending.
LastSendComplete(buf) ==
    [ring   |-> MarkTransferred(buf.ring, "Sending", "ClearToWrite",
                                buf.ring.num["Sending"]),
     mem    |-> buf.mem,
     handed |-> <<>>]

-----------------------------------------------------------------------------
(***************************************************************************)
(* What the buffer holds, as a reader finds it.                            *)
(***************************************************************************)

\* The reports that a reader finds who walks from header to header through
\* bytes that end at index end: walk[n] is what the last n of them hold.  A walk
\* that meets an overwritten header, or a report that sticks out of those bytes
\* or of the buffer, does not yield a sequence of reports.
Corrupt == "corrupt"

WalkStep(walk, mem, size, end, n) ==
    LET at    == (end - n) % size
        whole == /\ at \in DOMAIN mem
                 /\ BlockSize(mem[at]) <= n
                 /\ at + BlockSize(mem[at]) <= size
    IN  CASE n = 0 -> <<>>
          [] n > 0 /\ whole -> <<mem[at]>> \o walk[n - BlockSize(mem[at])]
          [] OTHER -> <<Corrupt>>

Walk(mem, size, end) ==
    LET walk[n \in 0 .. MaxBufferSize] == WalkStep(walk, mem, size, end, n)
    IN  walk

\* The reports in segment s.
ReportsIn(buf, s) ==
    Walk(buf.mem, buf.ring.size, EndOf(buf.ring, s))[buf.ring.num[s]]

\* What the holder of a handed out block reads through its pointer.
Payload(mem, block) ==
    IF block.at \in DOMAIN mem /\ block.len = ReportLen(mem[block.at])
      THEN mem[block.at]
      ELSE Corrupt
=============================================================================
