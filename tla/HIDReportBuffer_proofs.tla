----------------------- MODULE HIDReportBuffer_proofs -----------------------
(***************************************************************************)
(* What the methods of the HID report buffer do to the reports in it, for  *)
(* every size of the buffer and every set of reports: the lemmas that the  *)
(* theorems about HIDReportQueue and UsbHid have in common.                *)
(*                                                                         *)
(* The first part is about the bookkeeping alone (Good).  The rest is      *)
(* about what is in the buffer: Holds says that a stretch of bytes is a    *)
(* row of whole blocks, Contents that the Queued and the Sending segment   *)
(* are, and a lemma for each method says what it does to the reports of    *)
(* Contents.  That a reader who goes from header to header finds those     *)
(* reports (HoldsWalk) is an induction; the library's induction theorems   *)
(* take an operator and cannot be used, so that it is done by hand, over   *)
(* the least counterexample.                                               *)
(***************************************************************************)
EXTENDS HIDReportBuffer, RingBuffer_proofs, SequenceTheorems,
        WellFoundedInduction

-----------------------------------------------------------------------------
(***************************************************************************)
(* What the bookkeeping has to satisfy.  The header a reader finds is the  *)
(* length of a report because everything in mem is a report; what it was   *)
(* handed has the length of a header.  What a trim cuts off is less than   *)
(* the block it was made for.                                              *)
(***************************************************************************)
Blocks == [at : Int, len : Nat]

IsBuffer(buf) ==
    /\ buf = [ring |-> buf.ring, mem |-> buf.mem, handed |-> buf.handed]
    /\ \A b \in DOMAIN buf.mem : buf.mem[b] \in Reports
    /\ buf.handed \in Seq(Blocks)

TrimmedLittle(ring) ==
    \/ ring.size = MaxBufferSize
    \/ \E big \in Reports : MaxBufferSize - ring.size <= BlockSize(big) - 1

\* A block has a header and at least one byte.
LEMMA BlockSizeNat == \A r \in Reports : BlockSize(r) \in Nat /\ BlockSize(r) >= 3
  BY ReportLenAssumption DEF BlockSize, HeaderSize

\* Whatever is read as a header is a number.
LEMMA HeaderAtNat ==
    ASSUME NEW mem, \A b \in DOMAIN mem : mem[b] \in Reports, NEW at
    PROVE  HeaderAt(mem, at) \in Nat
  BY ReportLenAssumption, MaxBufferSizeAssumption DEF HeaderAt

\* A block that is written leaves nothing but reports in memory.
LEMMA WriteBlockReports ==
    ASSUME NEW mem, \A b \in DOMAIN mem : mem[b] \in Reports,
           NEW at, NEW r \in Reports
    PROVE  \A b \in DOMAIN WriteBlock(mem, at, r) : WriteBlock(mem, at, r)[b] \in Reports
  BY DEF WriteBlock, Survivors

\* mark_transferred and the inflation do not cut anything off.
LEMMA MarkTransferredSize ==
    ASSUME NEW ring, NEW from, NEW to, NEW num
    PROVE  MarkTransferred(ring, from, to, num).size = ring.size
  BY DEF MarkTransferred

\* Inflating the buffer takes back what a trim cut off.
LEMMA InflateTrimmedLittle ==
    ASSUME NEW ring, TrimmedLittle(ring), NEW s
    PROVE  TrimmedLittle(InflateToFullSize(ring, s))
  BY DEF TrimmedLittle, InflateToFullSize

\* Without trimming, the size of the buffer does not change.
LEMMA GetWithoutTrimSize ==
    ASSUME NEW ring, NEW from, NEW to, NEW num
    PROVE  GetTransferBuffer(ring, from, to, num, FALSE).ring.size = ring.size
  BY MarkTransferredSize DEF GetTransferBuffer

\* What get_transfer_buffer cuts off is less than the block it takes.
LEMMA AllocateTrimsLittle ==
    ASSUME NEW ring, WellFormed(ring), TrimmedLittle(ring), NEW r \in Reports
    PROVE  TrimmedLittle(GetTransferBuffer(ring, "ClearToWrite", "Queued",
                                           BlockSize(r), TRUE).ring)
  <1> DEFINE from  == "ClearToWrite"
             full  == InflateToFullSize(ring, from)
             lobes == ContinuousSegmentSizes(full, from)
             got   == GetTransferBuffer(ring, from, "Queued", BlockSize(r), TRUE)
  <1>1. WellFormed(full) /\ TrimmedLittle(full)
    BY InflateWellFormed, InflateTrimmedLittle DEF RingState
  <1>2. \/ got.ring.size = full.size
        \/ /\ BlockSize(r) > lobes[1]
           /\ got.ring.size = TrimToStartAtBufferZero(full, from).size
    BY MarkTransferredSize DEF GetTransferBuffer
  <1>3. /\ full.size \in Nat /\ full.start[from] \in Nat /\ full.num[from] \in Nat
    BY <1>1, WellFormedParts DEF RingState
  <1>4. CASE TouchesEnd(full, from) /\ BlockSize(r) > lobes[1]
    <2>1. full.size = MaxBufferSize
      BY <1>4, <1>3 DEF InflateToFullSize, TouchesEnd, EndOf
    <2>2. lobes[1] = MaxBufferSize - full.start[from]
      BY <1>4, <1>3, <2>1, MaxBufferSizeAssumption
      DEF ContinuousSegmentSizes, TouchesEnd, EndOf
    <2>3. TrimToStartAtBufferZero(full, from).size = full.start[from]
      BY <1>4 DEF TrimToStartAtBufferZero
    <2> HIDE DEF full, lobes, got
    <2>4. MaxBufferSize - full.start[from] <= BlockSize(r) - 1
      BY <1>3, <1>4, <2>2, BlockSizeNat, MaxBufferSizeAssumption
    <2> QED
      BY <1>1, <1>2, <2>3, <2>4 DEF TrimmedLittle, got
  <1>5. CASE ~TouchesEnd(full, from)
    BY <1>1, <1>2, <1>5 DEF TrimmedLittle, TrimToStartAtBufferZero
  <1>6. CASE ~(BlockSize(r) > lobes[1])
    BY <1>1, <1>2, <1>6 DEF TrimmedLittle
  <1> QED
    BY <1>4, <1>5, <1>6

\* Taking the next bytes of a report out of the queue.
LEMMA TakeGood ==
    ASSUME NEW ring, NEW num \in Nat, WellFormed(ring)
    PROVE  /\ WellFormed(GetTransferBuffer(ring, "Queued", "Sending", num, FALSE).ring)
           /\ GetTransferBuffer(ring, "Queued", "Sending", num, FALSE).ring.size = ring.size
           /\ GetTransferBuffer(ring, "Queued", "Sending", num, FALSE).at \in Int
  <1> DEFINE got == GetTransferBuffer(ring, "Queued", "Sending", num, FALSE)
  <1>1. WellFormed(got.ring)
    <2>1. Receiver["Queued"] = "Sending"
      BY DEF Receiver
    <2> QED
      BY <2>1, GetTransferBufferWellFormed DEF RingState
  <1>2. got.ring.size = ring.size
    BY GetWithoutTrimSize
  <1>3. got.at \in {ring.start["Queued"], NullPtr}
    BY DEF GetTransferBuffer
  <1>4. ring.start["Queued"] \in Nat
    BY WellFormedParts DEF RingState
  <1> HIDE DEF got
  <1>5. got.at \in Int
    BY <1>3, <1>4 DEF NullPtr
  <1> QED
    BY <1>1, <1>2, <1>5 DEF got

\* What every method preserves, of the buffer's bookkeeping alone.
Good(buf) == IsBuffer(buf) /\ WellFormed(buf.ring) /\ TrimmedLittle(buf.ring)

\* allocate_space_for_report preserves it.
LEMMA AllocateGood ==
    ASSUME NEW buf, Good(buf), NEW r \in Reports
    PROVE  Good(AllocateSpaceForReport(buf, r).buf)
  <1> DEFINE got == GetTransferBuffer(buf.ring, "ClearToWrite", "Queued", BlockSize(r), TRUE)
             new == AllocateSpaceForReport(buf, r).buf
  <1>1. WellFormed(got.ring)
    <2>1. Receiver["ClearToWrite"] = "Queued"
      BY DEF Receiver
    <2> QED
      BY <2>1, GetTransferBufferWellFormed, BlockSizeNat DEF Good, RingState
  <1>2. TrimmedLittle(got.ring)
    BY AllocateTrimsLittle DEF Good
  <1> HIDE DEF got
  <1>3. /\ new.ring = got.ring /\ new.handed = buf.handed
        /\ new = [ring |-> new.ring, mem |-> new.mem, handed |-> new.handed]
        /\ new.mem = buf.mem \/ new.mem = WriteBlock(buf.mem, got.at, r)
    BY DEF AllocateSpaceForReport, got, Good, IsBuffer
  <1>4. \A b \in DOMAIN new.mem : new.mem[b] \in Reports
    BY <1>3, WriteBlockReports DEF Good, IsBuffer
  <1> QED
    BY <1>1, <1>2, <1>3, <1>4 DEF Good, IsBuffer

\* transfer_out_next_report preserves it.
LEMMA TransferOutGood ==
    ASSUME NEW buf, Good(buf)
    PROVE  Good(TransferOutNextReport(buf).buf)
  <1> DEFINE siz  == GetTransferBuffer(buf.ring, "Queued", "Sending", HeaderSize, FALSE)
             len  == HeaderAt(buf.mem, siz.at)
             data == GetTransferBuffer(siz.ring, "Queued", "Sending", len, FALSE)
             new  == TransferOutNextReport(buf).buf
             block == [at |-> data.at - HeaderSize, len |-> len]
  <1>1. HeaderSize \in Nat
    BY DEF HeaderSize
  <1>2. WellFormed(siz.ring) /\ siz.ring.size = buf.ring.size
    BY <1>1, TakeGood DEF Good
  <1>3. len \in Nat
    BY HeaderAtNat DEF Good, IsBuffer
  <1> HIDE DEF siz, len
  <1>4. WellFormed(data.ring) /\ data.ring.size = buf.ring.size /\ data.at \in Int
    BY <1>2, <1>3, TakeGood
  <1> HIDE DEF data
  <1>5. new \in {buf, [buf EXCEPT !.ring = data.ring],
                 [buf EXCEPT !.ring = data.ring, !.handed = Append(@, block)]}
    BY DEF TransferOutNextReport, siz, len, data
  <1>6. /\ new = [ring |-> new.ring, mem |-> new.mem, handed |-> new.handed]
        /\ new.ring \in {buf.ring, data.ring}
        /\ new.mem = buf.mem
        /\ new.handed \in {buf.handed, Append(buf.handed, block)}
    <2> HIDE DEF new, block
    <2> QED
      BY <1>5 DEF Good, IsBuffer
  <1>7. block \in Blocks
    BY <1>3, <1>4 DEF Blocks, HeaderSize
  <1>8. new.handed \in Seq(Blocks)
    <2> HIDE DEF new, block
    <2> QED
      BY <1>6, <1>7 DEF Good, IsBuffer
  <1> HIDE DEF new
  <1>9. IsBuffer(new)
    BY <1>6, <1>8 DEF Good, IsBuffer
  <1>10. WellFormed(new.ring) /\ new.ring.size = buf.ring.size
    BY <1>4, <1>6 DEF Good
  <1> QED
    BY <1>9, <1>10 DEF Good, TrimmedLittle, new

\* mark_transferred and last_send_complete preserve it.
LEMMA ReleaseGood ==
    ASSUME NEW buf, Good(buf), NEW num \in Nat, NEW handed \in Seq(Blocks)
    PROVE  Good([ring   |-> MarkTransferred(buf.ring, "Sending", "ClearToWrite", num),
                 mem    |-> buf.mem,
                 handed |-> handed])
  <1> DEFINE ring == MarkTransferred(buf.ring, "Sending", "ClearToWrite", num)
  <1>1. WellFormed(ring)
    <2>1. Receiver["Sending"] = "ClearToWrite"
      BY DEF Receiver
    <2> QED
      BY <2>1, MarkTransferredWellFormed DEF Good, RingState
  <1>2. ring.size = buf.ring.size
    BY MarkTransferredSize
  <1> HIDE DEF ring
  <1>3. IsBuffer([ring |-> ring, mem |-> buf.mem, handed |-> handed])
    BY DEF Good, IsBuffer
  <1> QED
    BY <1>1, <1>2, <1>3 DEF Good, TrimmedLittle, ring


\* A new buffer satisfies it.
LEMMA EmptyGood == Good(EmptyBuffer)
  <1>1. EmptyBuffer = [ring |-> EmptyRing, mem |-> <<>>, handed |-> <<>>]
    BY DEF EmptyBuffer
  <1>2. EmptyRing.size = MaxBufferSize
    BY DEF EmptyRing
  <1>3. IsBuffer(EmptyBuffer)
    BY <1>1 DEF IsBuffer
  <1> QED
    BY <1>1, <1>2, <1>3, EmptyRingWellFormed DEF Good, TrimmedLittle

-----------------------------------------------------------------------------
(***************************************************************************)
(* Walking from header to header.                                          *)
(***************************************************************************)
\* Everything in memory is a report.
AllReports(mem) == \A b \in DOMAIN mem : mem[b] \in Reports

\* A set of naturals that is not empty has a least member.
LEMMA LeastExists ==
    ASSUME NEW S \in SUBSET Nat, S # {}
    PROVE  \E m \in S : \A i \in S : m <= i
  <1> DEFINE Less == {p \in Nat \X Nat : p[1] < p[2]}
  <1>1. IsWellFoundedOn(Less, Nat)
    BY NatLessThanWellFounded DEF OpToRel
  <1> HIDE DEF Less
  <1>2. PICK m \in S : \A i \in S : ~ (<<i, m>> \in Less)
    BY <1>1, WFMin
  <1>3. ASSUME NEW i \in S PROVE m <= i
    <2>1. i \in Nat /\ m \in Nat /\ ~ (<<i, m>> \in Less)
      BY <1>2
    <2>2. ~ (i < m)
      BY <2>1 DEF Less
    <2> QED
      BY <2>1, <2>2
  <1> QED
    BY <1>3

\* A step looks only at what shorter walks found.
LEMMA StepLooksBack ==
    ASSUME NEW mem, AllReports(mem), NEW size, NEW end, NEW n \in Nat,
           NEW f, NEW g, \A i \in 0 .. n - 1 : f[i] = g[i]
    PROVE  WalkStep(f, mem, size, end, n) = WalkStep(g, mem, size, end, n)
  <1> DEFINE at == (end - n) % size
             len == BlockSize(mem[at])
  <1>1. CASE at \in DOMAIN mem /\ len <= n
    <2>1. len \in Nat /\ len >= 3
      BY <1>1, BlockSizeNat DEF AllReports
    <2>2. n - len \in 0 .. n - 1
      <3> HIDE DEF len
      <3> QED
        BY <2>1, <1>1
    <2>3. f[n - len] = g[n - len]
      BY <2>2
    <2> QED
      BY <2>3 DEF WalkStep
  <1>2. CASE ~(at \in DOMAIN mem /\ len <= n)
    BY <1>2 DEF WalkStep
  <1> QED
    BY <1>1, <1>2

\* The walks of up to N bytes.
IsWalk(f, mem, size, end, N) ==
    f = [n \in 0 .. N |-> WalkStep(f, mem, size, end, n)]

\* Such a function exists: otherwise there would be a least N without one, and the
\* walks of fewer bytes could be extended by one step.
LEMMA WalkExists ==
    ASSUME NEW mem, AllReports(mem), NEW size, NEW end, NEW N \in Nat
    PROVE  \E f : IsWalk(f, mem, size, end, N)
  <1> DEFINE Bad == {M \in Nat : ~ \E f : IsWalk(f, mem, size, end, M)}
  <1> SUFFICES ASSUME Bad # {} PROVE FALSE
    OBVIOUS
  <1>1. PICK m \in Bad : \A i \in Bad : m <= i
    <2>1. Bad \in SUBSET Nat
      OBVIOUS
    <2> HIDE DEF Bad
    <2> QED
      BY <2>1, LeastExists
  <1>2. m \in Nat /\ ~ \E f : IsWalk(f, mem, size, end, m)
    OBVIOUS
  <1>3. PICK f : \A n \in 0 .. m - 1 : f[n] = WalkStep(f, mem, size, end, n)
    <2>1. CASE m = 0
      BY <2>1
    <2>2. CASE m # 0
      <3>1. m - 1 \in Nat /\ ~(m <= m - 1)
        BY <1>2, <2>2
      <3>2. m - 1 \notin Bad
        BY <3>1, <1>1
      <3>3. PICK f : IsWalk(f, mem, size, end, m - 1)
        BY <3>1, <3>2
      <3>4. \A n \in 0 .. m - 1 : f[n] = WalkStep(f, mem, size, end, n)
        <4> HIDE DEF Bad
        <4> QED
          BY <3>3 DEF IsWalk
      <3> QED
        BY <3>4
    <2> QED
      BY <2>1, <2>2
  <1> HIDE DEF Bad
  <1> DEFINE g == [n \in 0 .. m |-> WalkStep(f, mem, size, end, n)]
  <1>4. ASSUME NEW n \in 0 .. m
        PROVE  g[n] = WalkStep(g, mem, size, end, n)
    <2>1. n \in Nat
      OBVIOUS
    <2>2. \A i \in 0 .. n - 1 : f[i] = g[i]
      <3>1. ASSUME NEW i \in 0 .. n - 1 PROVE f[i] = g[i]
        <4>1. i \in 0 .. m - 1 /\ i \in 0 .. m
          BY <1>2
        <4> QED
          BY <4>1, <1>3
      <3> QED
        BY <3>1
    <2> HIDE DEF g
    <2>3. WalkStep(f, mem, size, end, n) = WalkStep(g, mem, size, end, n)
      BY <2>1, <2>2, StepLooksBack
    <2> QED
      BY <2>3 DEF g
  <1>5. IsWalk(g, mem, size, end, m)
    BY <1>4 DEF IsWalk
  <1> HIDE DEF g
  <1> QED
    BY <1>2, <1>5

\* The recursive function is what its definition says.
LEMMA WalkDef ==
    ASSUME NEW mem, AllReports(mem), NEW size, NEW end,
           NEW n \in 0 .. MaxBufferSize
    PROVE  Walk(mem, size, end)[n]
             = WalkStep(Walk(mem, size, end), mem, size, end, n)
  <1>1. \E f : IsWalk(f, mem, size, end, MaxBufferSize)
    BY WalkExists, MaxBufferSizeAssumption
  <1>2. IsWalk(Walk(mem, size, end), mem, size, end, MaxBufferSize)
    BY <1>1 DEF IsWalk, Walk
  <1> HIDE DEF Walk
  <1> DEFINE w == Walk(mem, size, end)
  <1>3. w = [i \in 0 .. MaxBufferSize |-> WalkStep(w, mem, size, end, i)]
    BY <1>2 DEF IsWalk
  <1> HIDE DEF w
  <1> QED
    BY <1>3 DEF w

-----------------------------------------------------------------------------
(***************************************************************************)
(* A row of whole blocks.                                                  *)
(***************************************************************************)
\* The num bytes that end at index end hold the reports reps, one block after the
\* other: block i starts at index pos[i], rem[i] bytes before the end.  The end
\* may lie up to a lap behind the end of the buffer, a block is in one piece.
Holds(mem, size, end, num, reps, pos, rem) ==
    /\ reps \in Seq(Reports)
    /\ pos \in [1 .. Len(reps) -> Nat]
    /\ rem \in [1 .. Len(reps) + 1 -> Nat]
    /\ rem[1] = num /\ rem[Len(reps) + 1] = 0
    /\ \A i, j \in 1 .. Len(reps) + 1 : i <= j => rem[j] <= rem[i]
    /\ \A i \in 1 .. Len(reps) :
         /\ pos[i] \in DOMAIN mem /\ mem[pos[i]] = reps[i]
         /\ pos[i] + BlockSize(reps[i]) <= size
         /\ rem[i] = rem[i + 1] + BlockSize(reps[i])
         /\ Follows(size, end - rem[i], pos[i])

\* A member of a sequence in front of those behind it.
LEMMA FirstAndRest ==
    ASSUME NEW S, NEW s \in Seq(S), NEW i \in 1 .. Len(s)
    PROVE  <<s[i]>> \o SubSeq(s, i + 1, Len(s)) = SubSeq(s, i, Len(s))
  <1> DEFINE n == Len(s)
             rest == SubSeq(s, i + 1, n)
             all == SubSeq(s, i, n)
             one == <<s[i]>>
  <1>0. n \in Nat /\ i \in Nat /\ i <= n
    OBVIOUS
  <1>1. all = [j \in 1 .. n - i + 1 |-> s[i + j - 1]]
    BY <1>0
  <1>2. rest = [j \in 1 .. n - i |-> s[i + j]]
    BY <1>0
  <1>3. Len(rest) = n - i
    BY <1>0, <1>2
  <1>4. one \o rest = [j \in 1 .. 1 + (n - i) |-> IF j <= 1 THEN one[j] ELSE rest[j - 1]]
    BY <1>3
  <1>5. ASSUME NEW j \in 1 .. n - i + 1
        PROVE  (one \o rest)[j] = all[j]
    <2>1. CASE j = 1
      BY <2>1, <1>1, <1>4, <1>0
    <2>2. CASE j # 1
      <3>1. rest[j - 1] = s[i + (j - 1)]
        BY <1>2, <2>2, <1>0
      <3> QED
        BY <3>1, <2>2, <1>1, <1>4, <1>0
    <2> QED
      BY <2>1, <2>2
  <1> QED
    BY <1>0, <1>1, <1>4, <1>5

\* An index that follows e is e modulo the size.
LEMMA FollowsMod ==
    ASSUME NEW size \in Nat \ {0}, NEW e \in Int, NEW p \in Nat, p < size,
           Follows(size, e, p)
    PROVE  e % size = p
  <1>1. e \in Nat /\ e < 2 * size
    BY DEF Follows
  <1>2. e % size = IF e < size THEN e ELSE e - size
    BY <1>1, ModAtMostOneLap
  <1> QED
    BY <1>1, <1>2 DEF Follows

\* A reader who walks through what is held finds exactly the reports of it.  (A
\* last report that he finds wrong would have a shorter rest that he finds wrong.)
LEMMA HoldsWalk ==
    ASSUME NEW mem, AllReports(mem), NEW size \in Nat \ {0}, NEW end \in Nat,
           NEW num \in 0 .. MaxBufferSize, NEW reps, NEW pos, NEW rem,
           Holds(mem, size, end, num, reps, pos, rem)
    PROVE  Walk(mem, size, end)[num] = reps
  <1> DEFINE w == Walk(mem, size, end)
             k == Len(reps)
             Bad == {j \in 0 .. k : w[rem[k + 1 - j]] # SubSeq(reps, k + 1 - j, k)}
  <1>0. /\ reps \in Seq(Reports) /\ k \in Nat
        /\ rem \in [1 .. k + 1 -> 0 .. num] /\ num \in Nat
        /\ rem[1] = num /\ rem[k + 1] = 0
    <2>1. /\ reps \in Seq(Reports) /\ k \in Nat /\ num \in Nat
          /\ rem \in [1 .. k + 1 -> Nat] /\ rem[1] = num /\ rem[k + 1] = 0
      BY MaxBufferSizeAssumption DEF Holds
    <2>2. \A i, j \in 1 .. k + 1 : i <= j => rem[j] <= rem[i]
      BY DEF Holds
    <2>3. \A j \in 1 .. k + 1 : rem[j] \in 0 .. num
      BY <2>1, <2>2
    <2> QED
      BY <2>1, <2>3
  <1>1. ASSUME NEW i \in 1 .. k
        PROVE  /\ pos[i] \in DOMAIN mem /\ mem[pos[i]] = reps[i]
               /\ pos[i] + BlockSize(reps[i]) <= size
               /\ rem[i] = rem[i + 1] + BlockSize(reps[i])
               /\ (end - rem[i]) % size = pos[i]
               /\ reps[i] \in Reports /\ BlockSize(reps[i]) \in Nat
               /\ BlockSize(reps[i]) >= 3
               /\ rem[i] \in 0 .. num /\ rem[i + 1] \in 0 .. num
    <2>1. /\ pos[i] \in DOMAIN mem /\ mem[pos[i]] = reps[i]
          /\ pos[i] + BlockSize(reps[i]) <= size
          /\ rem[i] = rem[i + 1] + BlockSize(reps[i])
          /\ Follows(size, end - rem[i], pos[i])
          /\ pos[i] \in Nat
      BY DEF Holds
    <2>2. reps[i] \in Reports
      BY <1>0
    <2>3. BlockSize(reps[i]) \in Nat /\ BlockSize(reps[i]) >= 3
      BY <2>2, BlockSizeNat
    <2>4. i \in 1 .. k + 1 /\ i + 1 \in 1 .. k + 1
      BY <1>0
    <2>5. rem[i] \in 0 .. num /\ rem[i + 1] \in 0 .. num
      BY <2>4, <1>0
    <2>6. end - rem[i] \in Int
      BY <2>5, <1>0
    <2>7. pos[i] < size
      BY <2>1, <2>3
    <2>8. (end - rem[i]) % size = pos[i]
      BY <2>1, <2>6, <2>7, FollowsMod
    <2> QED
      BY <2>1, <2>2, <2>3, <2>5, <2>8
  <1>2. ASSUME NEW n \in 0 .. num
        PROVE  w[n] = WalkStep(w, mem, size, end, n)
    BY <1>0, WalkDef, MaxBufferSizeAssumption
  <1> HIDE DEF w
  <1>7. ASSUME NEW i \in 1 .. k, w[rem[i + 1]] = SubSeq(reps, i + 1, k)
        PROVE  w[rem[i]] = SubSeq(reps, i, k)
    <2> DEFINE len == BlockSize(reps[i])
               r == rem[i]
               q == rem[i + 1]
               p == pos[i]
    <2>1. /\ p \in DOMAIN mem /\ mem[p] = reps[i]
          /\ p + len <= size
          /\ r = q + len /\ (end - r) % size = p
          /\ len \in Nat /\ len >= 3
          /\ r \in 0 .. num /\ q \in 0 .. num
      BY <1>1
    <2>2. w[r] = WalkStep(w, mem, size, end, r)
      BY <2>1, <1>2
    <2>3. <<reps[i]>> \o SubSeq(reps, i + 1, k) = SubSeq(reps, i, k)
      BY <1>0, FirstAndRest
    <2>4. w[q] = SubSeq(reps, i + 1, k)
      BY <1>7
    <2> HIDE DEF len, r, q, p
    <2>5. r # 0 /\ r > 0 /\ len <= r /\ r - len = q
      BY <2>1, <1>0
    <2>6. WalkStep(w, mem, size, end, r) = <<reps[i]>> \o w[q]
      BY <2>1, <2>5 DEF WalkStep, len
    <2> QED
      BY <2>2, <2>3, <2>4, <2>6 DEF r
  <1> SUFFICES ASSUME Bad # {} PROVE FALSE
    <2>1. CASE Bad = {}
      <3>1. k \in 0 .. k
        BY <1>0
      <3>2. w[rem[k + 1 - k]] = SubSeq(reps, k + 1 - k, k)
        BY <2>1, <3>1
      <3>3. k + 1 - k = 1
        BY <1>0
      <3>4. SubSeq(reps, 1, k) = reps
        BY <1>0
      <3> QED
        BY <3>2, <3>3, <3>4, <1>0 DEF w
    <2> QED
      BY <2>1
  <1>3. PICK j \in Bad : \A l \in Bad : j <= l
    <2>1. Bad \in SUBSET Nat
      BY <1>0
    <2> HIDE DEF Bad
    <2> QED
      BY <2>1, LeastExists
  <1>4. j \in 0 .. k /\ w[rem[k + 1 - j]] # SubSeq(reps, k + 1 - j, k)
    OBVIOUS
  <1>5. CASE j = 0
    <2>1. k + 1 - j = k + 1
      BY <1>0, <1>5
    <2>2. w[0] = <<>>
      <3>1. 0 \in 0 .. num
        BY <1>0
      <3>2. WalkStep(w, mem, size, end, 0) = <<>>
        BY ~(0 > 0) DEF WalkStep
      <3> QED
        BY <3>1, <3>2, <1>2
    <2>3. SubSeq(reps, k + 1, k) = <<>>
      BY <1>0
    <2> QED
      BY <1>0, <1>4, <2>1, <2>2, <2>3
  <1>6. CASE j # 0
    <2>1. k + 1 - j \in 1 .. k /\ k + 1 - (j - 1) = (k + 1 - j) + 1
      BY <1>0, <1>4, <1>6
    <2>2. j - 1 \in 0 .. k /\ ~(j <= j - 1)
      BY <1>0, <1>4, <1>6
    <2>3. j - 1 \notin Bad
      <3> HIDE DEF Bad
      <3> QED
        BY <2>2, <1>3
    <2>4. w[rem[k + 1 - (j - 1)]] = SubSeq(reps, k + 1 - (j - 1), k)
      BY <2>2, <2>3
    <2>5. w[rem[k + 1 - j]] = SubSeq(reps, k + 1 - j, k)
      BY <2>1, <2>4, <1>7
    <2> QED
      BY <2>5, <1>4
  <1> QED
    BY <1>5, <1>6

\* What Holds says of one block: the report r at index at, with the distances
\* to the end from where it starts and from where the next one does.
IsBlock(mem, size, end, num, r, at, left, next) ==
    /\ r \in Reports /\ BlockSize(r) \in Nat /\ BlockSize(r) >= 3
    /\ at \in Nat /\ left \in Nat /\ next \in Nat
    /\ at \in DOMAIN mem /\ mem[at] = r
    /\ at + BlockSize(r) <= size
    /\ left = next + BlockSize(r)
    /\ left <= num
    /\ Follows(size, end - left, at)

\* Each block of what is held.
LEMMA HoldsBlock ==
    ASSUME NEW mem, NEW size \in Nat, NEW end \in Nat, NEW num \in Nat,
           NEW reps, NEW pos, NEW rem, Holds(mem, size, end, num, reps, pos, rem),
           NEW i \in 1 .. Len(reps)
    PROVE  IsBlock(mem, size, end, num, reps[i], pos[i], rem[i], rem[i + 1])
  <1>1. /\ reps \in Seq(Reports) /\ Len(reps) \in Nat
        /\ pos \in [1 .. Len(reps) -> Nat]
        /\ rem \in [1 .. Len(reps) + 1 -> Nat] /\ rem[1] = num
    BY DEF Holds
  <1>2. i \in 1 .. Len(reps) + 1 /\ i + 1 \in 1 .. Len(reps) + 1
        /\ 1 \in 1 .. Len(reps) + 1 /\ 1 <= i
    BY <1>1
  <1>3. rem[i] <= num
    BY <1>1, <1>2 DEF Holds
  <1>4. reps[i] \in Reports /\ pos[i] \in Nat
    BY <1>1
  <1>6. rem[i] \in Nat /\ rem[i + 1] \in Nat
    BY <1>1, <1>2
  <1>5. BlockSize(reps[i]) \in Nat /\ BlockSize(reps[i]) >= 3
    BY <1>4, BlockSizeNat
  <1> QED
    BY <1>3, <1>4, <1>5, <1>6 DEF Holds, IsBlock

\* No bytes hold no reports, wherever they are, and they can hold nothing else.
LEMMA HoldsNone ==
    ASSUME NEW mem, NEW size, NEW end
    PROVE  Holds(mem, size, end, 0, <<>>, <<>>, [i \in 1 .. 1 |-> 0])
  BY DEF Holds

\* No bytes hold nothing but no reports.
LEMMA NothingHeld ==
    ASSUME NEW mem, NEW size \in Nat, NEW end \in Nat, NEW reps, NEW pos, NEW rem,
           Holds(mem, size, end, 0, reps, pos, rem)
    PROVE  reps = <<>>
  <1>1. reps \in Seq(Reports) /\ rem[1] = 0
    BY DEF Holds
  <1> SUFFICES ASSUME Len(reps) # 0 PROVE FALSE
    BY <1>1
  <1>2. 1 \in 1 .. Len(reps)
    BY <1>1
  <1>3. IsBlock(mem, size, end, 0, reps[1], pos[1], rem[1], rem[1 + 1])
    BY <1>2, HoldsBlock, Zenon
  <1> QED
    BY <1>1, <1>3 DEF IsBlock

\* What does not go round the end of the buffer stays where it is when that end
\* moves, as long as it does not move into it.
LEMMA HoldsResize ==
    ASSUME NEW mem, NEW size \in Nat, NEW end \in Nat, NEW num \in Nat,
           NEW reps, NEW pos, NEW rem, Holds(mem, size, end, num, reps, pos, rem),
           NEW new \in Nat, end <= size, end <= new
    PROVE  Holds(mem, new, end, num, reps, pos, rem)
  <1>1. ASSUME NEW i \in 1 .. Len(reps)
        PROVE  /\ pos[i] + BlockSize(reps[i]) <= new
               /\ Follows(new, end - rem[i], pos[i])
    <2> DEFINE p == pos[i]  r == rem[i]  q == rem[i + 1]  l == BlockSize(reps[i])
    <2>0. IsBlock(mem, size, end, num, reps[i], p, r, q)
      BY HoldsBlock, Zenon
    <2>1. /\ p \in Nat /\ r \in Nat /\ q \in Nat /\ l \in Nat /\ l >= 3
          /\ r = q + l /\ Follows(size, end - r, p)
      BY <2>0 DEF IsBlock
    <2> HIDE DEF p, r, q, l
    <2>2. p + l <= new /\ Follows(new, end - r, p)
      BY <2>1 DEF Follows
    <2> QED
      BY <2>2 DEF p, r, l
  <1> QED
    BY <1>1 DEF Holds

\* A block written elsewhere leaves what is held alone.
LEMMA HoldsThroughWrite ==
    ASSUME NEW mem, NEW size \in Nat, NEW end \in Nat, NEW num \in Nat,
           NEW reps, NEW pos, NEW rem, Holds(mem, size, end, num, reps, pos, rem),
           NEW at \in Nat, NEW r \in Reports,
           \A i \in 1 .. Len(reps) : \/ pos[i] + BlockSize(reps[i]) <= at
                                     \/ at + BlockSize(r) <= pos[i]
    PROVE  Holds(WriteBlock(mem, at, r), size, end, num, reps, pos, rem)
  <1>1. BlockSize(r) \in Nat /\ BlockSize(r) >= 3
    BY BlockSizeNat
  <1>2. ASSUME NEW i \in 1 .. Len(reps)
        PROVE  /\ pos[i] \in DOMAIN WriteBlock(mem, at, r)
               /\ WriteBlock(mem, at, r)[pos[i]] = reps[i]
    <2> DEFINE p == pos[i]  l == BlockSize(reps[i])  n == BlockSize(r)
    <2>0. IsBlock(mem, size, end, num, reps[i], p, rem[i], rem[i + 1])
      BY HoldsBlock, Zenon
    <2>1. /\ p \in Nat /\ l \in Nat /\ l >= 3
          /\ p \in DOMAIN mem /\ mem[p] = reps[i]
      BY <2>0 DEF IsBlock
    <2>2. p + l <= at \/ at + n <= p
      OBVIOUS
    <2>3. n \in Nat /\ n >= 3
      BY <1>1
    <2> HIDE DEF p, l, n
    <2>4. p # at /\ Span(p, l) \cap Span(at, n) = {}
      BY <2>1, <2>2, <2>3 DEF Span
    <2>5. p \in Survivors(mem, at, n)
      BY <2>1, <2>4 DEF Survivors, l
    <2>6. p \in DOMAIN WriteBlock(mem, at, r) /\ WriteBlock(mem, at, r)[p] = reps[i]
      BY <2>1, <2>4, <2>5 DEF WriteBlock, n
    <2> QED
      BY <2>6 DEF p
  <1> QED
    BY <1>2 DEF Holds

\* A block right behind what is held.
LEMMA HoldsAppend ==
    ASSUME NEW mem, NEW size \in Nat, NEW end \in Nat, NEW num \in Nat,
           NEW reps, NEW pos, NEW rem, Holds(mem, size, end, num, reps, pos, rem),
           NEW r \in Reports, NEW at \in Nat, at \in DOMAIN mem, mem[at] = r,
           at + BlockSize(r) <= size, Follows(size, end, at)
    PROVE  Holds(mem, size, end + BlockSize(r), num + BlockSize(r), Append(reps, r),
                 [i \in 1 .. Len(reps) + 1 |->
                    IF i <= Len(reps) THEN pos[i] ELSE at],
                 [i \in 1 .. Len(reps) + 2 |->
                    IF i <= Len(reps) + 1 THEN rem[i] + BlockSize(r) ELSE 0])
  <1> DEFINE k == Len(reps)
             l == BlockSize(r)
             reps2 == Append(reps, r)
             pos2 == [i \in 1 .. k + 1 |-> IF i <= k THEN pos[i] ELSE at]
             rem2 == [i \in 1 .. k + 2 |-> IF i <= k + 1 THEN rem[i] + l ELSE 0]
  <1>1. /\ reps \in Seq(Reports) /\ k \in Nat /\ l \in Nat /\ l >= 3
        /\ pos \in [1 .. k -> Nat]
        /\ rem \in [1 .. k + 1 -> Nat] /\ rem[1] = num /\ rem[k + 1] = 0
        /\ \A i, j \in 1 .. k + 1 : i <= j => rem[j] <= rem[i]
    <2>1. /\ reps \in Seq(Reports) /\ k \in Nat
          /\ pos \in [1 .. k -> Nat]
          /\ rem \in [1 .. k + 1 -> Nat] /\ rem[1] = num /\ rem[k + 1] = 0
          /\ \A i, j \in 1 .. k + 1 : i <= j => rem[j] <= rem[i]
      BY DEF Holds
    <2> QED
      BY <2>1, BlockSizeNat
  <1>2. /\ reps2 \in Seq(Reports) /\ Len(reps2) = k + 1
        /\ \A i \in 1 .. k : reps2[i] = reps[i]
        /\ reps2[k + 1] = r
    BY <1>1
  <1>3. /\ pos2 \in [1 .. k + 1 -> Nat]
        /\ \A i \in 1 .. k : pos2[i] = pos[i]
        /\ pos2[k + 1] = at
    BY <1>1
  <1>4. /\ rem2 \in [1 .. k + 2 -> Nat]
        /\ \A i \in 1 .. k + 1 : rem2[i] = rem[i] + l
        /\ rem2[k + 2] = 0
    BY <1>1
  <1> HIDE DEF l, reps2, pos2, rem2
  <1>5. rem2[1] = num + l
    BY <1>1, <1>4
  <1>6. ASSUME NEW i \in 1 .. k + 2, NEW j \in 1 .. k + 2, i <= j
        PROVE  rem2[j] <= rem2[i]
    <2>1. CASE j = k + 2
      BY <2>1, <1>4
    <2>2. CASE j # k + 2
      <3>1. i \in 1 .. k + 1 /\ j \in 1 .. k + 1
        BY <1>1, <1>6, <2>2
      <3>2. rem[j] <= rem[i] /\ rem[i] \in Nat /\ rem[j] \in Nat
        BY <3>1, <1>1, <1>6
      <3> QED
        BY <3>1, <3>2, <1>1, <1>4
    <2> QED
      BY <2>1, <2>2
  <1>7. ASSUME NEW i \in 1 .. k + 1
        PROVE  /\ pos2[i] \in DOMAIN mem /\ mem[pos2[i]] = reps2[i]
               /\ pos2[i] + BlockSize(reps2[i]) <= size
               /\ rem2[i] = rem2[i + 1] + BlockSize(reps2[i])
               /\ Follows(size, (end + l) - rem2[i], pos2[i])
    <2>1. CASE i = k + 1
      <3>1. rem2[i] = l /\ rem2[i + 1] = 0
        <4>1. i \in 1 .. k + 1 /\ i + 1 = k + 2
          BY <2>1, <1>1
        <4>2. rem2[i] = rem[k + 1] + l /\ rem2[i + 1] = 0
          BY <4>1, <2>1, <1>4
        <4> QED
          BY <4>2, <1>1
      <3>2. (end + l) - l = end
        BY <1>1
      <3> QED
        BY <2>1, <3>1, <3>2, <1>1, <1>2, <1>3 DEF l
    <2>2. CASE i # k + 1
      <3>1. i \in 1 .. k /\ i \in 1 .. k + 1 /\ i + 1 \in 1 .. k + 1
        BY <2>2, <1>1
      <3>2. /\ pos[i] \in DOMAIN mem /\ mem[pos[i]] = reps[i]
            /\ pos[i] + BlockSize(reps[i]) <= size
            /\ rem[i] = rem[i + 1] + BlockSize(reps[i])
            /\ rem[i] \in Nat /\ rem[i + 1] \in Nat
            /\ BlockSize(reps[i]) \in Nat
            /\ Follows(size, end - rem[i], pos[i])
        <4>1. IsBlock(mem, size, end, num, reps[i], pos[i], rem[i], rem[i + 1])
          BY <3>1, HoldsBlock, Zenon
        <4> QED
          BY <4>1 DEF IsBlock
      <3>3. pos2[i] = pos[i] /\ reps2[i] = reps[i]
            /\ rem2[i] = rem[i] + l /\ rem2[i + 1] = rem[i + 1] + l
        BY <3>1, <1>2, <1>3, <1>4
      <3>4. rem2[i] = rem2[i + 1] + BlockSize(reps2[i])
        BY <3>2, <3>3, <1>1
      <3>5. (end + l) - rem2[i] = end - rem[i]
        BY <3>2, <3>3, <1>1
      <3> QED
        BY <3>2, <3>3, <3>4, <3>5
    <2> QED
      BY <2>1, <2>2
  <1>8. Len(reps2) + 1 = k + 2 /\ rem2[Len(reps2) + 1] = 0
    BY <1>1, <1>2, <1>4
  <1>9. Holds(mem, size, end + l, num + l, reps2, pos2, rem2)
    BY <1>2, <1>3, <1>4, <1>5, <1>6, <1>7, <1>8 DEF Holds
  <1> QED
    BY <1>9 DEF l, reps2, pos2, rem2

\* What is left when the first block is taken away; the index where it ends may
\* be counted from the other side of the buffer's end.
LEMMA HoldsTail ==
    ASSUME NEW mem, NEW size \in Nat, NEW end \in Nat, NEW num \in Nat,
           NEW reps, NEW pos, NEW rem, Holds(mem, size, end, num, reps, pos, rem),
           reps # <<>>,
           NEW new \in Nat,
           \/ new = end
           \/ new = end - size /\ end - num + BlockSize(reps[1]) >= size
    PROVE  Holds(mem, size, new, num - BlockSize(reps[1]), Tail(reps),
                 [i \in 1 .. Len(reps) - 1 |-> pos[i + 1]],
                 [i \in 1 .. Len(reps) |-> rem[i + 1]])
  <1> DEFINE k == Len(reps)
             l == BlockSize(reps[1])
             reps2 == Tail(reps)
             pos2 == [i \in 1 .. k - 1 |-> pos[i + 1]]
             rem2 == [i \in 1 .. k |-> rem[i + 1]]
  <1>1. /\ reps \in Seq(Reports) /\ k \in Nat
        /\ pos \in [1 .. k -> Nat]
        /\ rem \in [1 .. k + 1 -> Nat] /\ rem[1] = num /\ rem[k + 1] = 0
        /\ \A i, j \in 1 .. k + 1 : i <= j => rem[j] <= rem[i]
    BY DEF Holds
  <1>2. k >= 1 /\ 1 \in 1 .. k
    BY <1>1
  <1>4. /\ reps2 \in Seq(Reports) /\ Len(reps2) = k - 1
        /\ \A i \in 1 .. k - 1 : reps2[i] = reps[i + 1]
    BY <1>1, <1>2
  <1>5. /\ pos2 \in [1 .. k - 1 -> Nat]
        /\ \A i \in 1 .. k - 1 : pos2[i] = pos[i + 1]
    BY <1>1, <1>2
  <1>6. /\ rem2 \in [1 .. k -> Nat]
        /\ \A i \in 1 .. k : rem2[i] = rem[i + 1]
    BY <1>1, <1>2
  <1>7. /\ l \in Nat /\ l >= 3 /\ num = rem[2] + l /\ rem[2] \in Nat
    <2>1. IsBlock(mem, size, end, num, reps[1], pos[1], rem[1], rem[1 + 1])
      BY <1>2, HoldsBlock, Zenon
    <2>2. 1 + 1 = 2
      OBVIOUS
    <2>3. IsBlock(mem, size, end, num, reps[1], pos[1], num, rem[2])
      BY <2>1, <2>2, <1>1
    <2> QED
      BY <2>3 DEF IsBlock
  <1> HIDE DEF l, reps2, pos2, rem2
  <1>8. /\ rem2[1] = num - l /\ rem2[(k - 1) + 1] = 0
    BY <1>1, <1>2, <1>6, <1>7
  <1>9. ASSUME NEW i \in 1 .. k, NEW j \in 1 .. k, i <= j
        PROVE  rem2[j] <= rem2[i]
    <2>1. i + 1 \in 1 .. k + 1 /\ j + 1 \in 1 .. k + 1 /\ i + 1 <= j + 1
      BY <1>1, <1>9
    <2> QED
      BY <2>1, <1>1, <1>6
  <1>10. ASSUME NEW i \in 1 .. k - 1
         PROVE  /\ pos2[i] \in DOMAIN mem /\ mem[pos2[i]] = reps2[i]
                /\ pos2[i] + BlockSize(reps2[i]) <= size
                /\ rem2[i] = rem2[i + 1] + BlockSize(reps2[i])
                /\ Follows(size, new - rem2[i], pos2[i])
    <2> DEFINE m == i + 1
               p == pos[m]  r == rem[m]  n == BlockSize(reps[m])
    <2>1. m \in 1 .. k /\ i \in 1 .. k /\ m \in 1 .. k + 1 /\ 2 \in 1 .. k + 1 /\ 2 <= m
      BY <1>1
    <2> HIDE DEF m
    <2>2. /\ p \in DOMAIN mem /\ mem[p] = reps[m]
          /\ p + n <= size
          /\ r = rem[m + 1] + n /\ r \in Nat /\ p \in Nat /\ n \in Nat /\ n >= 3
          /\ Follows(size, end - r, p)
      <3>1. IsBlock(mem, size, end, num, reps[m], p, r, rem[m + 1])
        BY <2>1, HoldsBlock, Zenon
      <3> QED
        BY <3>1 DEF IsBlock
    <2>3. r <= rem[2]
      BY <2>1, <1>1
    <2>4. /\ pos2[i] = p /\ reps2[i] = reps[m] /\ rem2[i] = r
          /\ rem2[i + 1] = rem[m + 1]
      BY <2>1, <1>4, <1>5, <1>6 DEF m
    <2> HIDE DEF p, r, n
    <2>5. Follows(size, new - r, p)
      <3> DEFINE b == rem[2]
      <3>1. /\ b \in Nat /\ l \in Nat /\ num = b + l /\ r <= b
        BY <1>7, <2>3
      <3>2. \/ new = end
            \/ new = end - size /\ end - num + l >= size
        BY DEF l
      <3> HIDE DEF b
      <3>3. /\ p \in Nat /\ n \in Nat /\ r \in Nat /\ n >= 3 /\ p + n <= size
            /\ p = end - r \/ p = (end - r) - size
        BY <2>2 DEF Follows
      <3>4. CASE new = end
        BY <2>2, <3>4
      <3>5. CASE new = end - size /\ end - num + l >= size
        <4>1. end - r >= size
          BY <3>1, <3>3, <3>5
        <4>2. p = (end - r) - size
          BY <3>3, <4>1
        <4> QED
          BY <3>3, <3>5, <4>2 DEF Follows
      <3> QED
        BY <3>2, <3>4, <3>5
    <2> QED
      BY <2>2, <2>4, <2>5 DEF n
  <1>11. Holds(mem, size, new, num - l, reps2, pos2, rem2)
    <2>1. (k - 1) + 1 = k
      BY <1>1
    <2> QED
      BY <1>4, <1>5, <1>6, <1>8, <1>9, <1>10, <2>1 DEF Holds
  <1> QED
    BY <1>11 DEF l, reps2, pos2, rem2

-----------------------------------------------------------------------------
(***************************************************************************)
(* The contents of the buffer.                                             *)
(***************************************************************************)
\* Segment s of the ring holds reps.
SegmentHolds(mem, ring, s, reps, pos, rem) ==
    Holds(mem, ring.size, EndOf(ring, s), ring.num[s], reps, pos, rem)

\* The blocks that transfer_out_next_report returns for the reports sent at pos.
HandedBlock(r, at) == [at |-> at, len |-> ReportLen(r)]

HandedAt(sent, pos) == [i \in 1 .. Len(sent) |-> HandedBlock(sent[i], pos[i])]

\* The buffer holds the reports q in Queued, and in Sending the reports sent,
\* which are the blocks that were handed out.
Contents(mem, ring, handed, q, sent) ==
    /\ \E pos, rem : SegmentHolds(mem, ring, "Queued", q, pos, rem)
    /\ \E pos, rem : /\ SegmentHolds(mem, ring, "Sending", sent, pos, rem)
                     /\ handed = HandedAt(sent, pos)

\* The numbers of a ring are naturals.
LEMMA RingNumbers ==
    ASSUME NEW ring, WellFormed(ring)
    PROVE  /\ ring.size \in Nat \ {0} /\ ring.size \in Nat
           /\ ring.size <= MaxBufferSize
           /\ \A s \in RingState : /\ ring.start[s] \in Nat /\ ring.start[s] < ring.size
                                   /\ ring.num[s] \in Nat /\ ring.num[s] <= ring.size
                                   /\ EndOf(ring, s) \in Nat
  <1>1. /\ ring.size \in 1 .. MaxBufferSize
        /\ ring.start \in [RingState -> Nat] /\ ring.num \in [RingState -> Nat]
    BY WellFormedParts
  <1>2. /\ \A s \in RingState : ring.start[s] < ring.size
        /\ ring.num["ClearToWrite"] + ring.num["Queued"] + ring.num["Sending"]
             = ring.size
    BY DEF WellFormed
  <1>3. /\ ring.num["ClearToWrite"] \in Nat /\ ring.num["Queued"] \in Nat
        /\ ring.num["Sending"] \in Nat
    BY <1>1 DEF RingState
  <1>4. \A s \in RingState : ring.num[s] <= ring.size
    BY <1>1, <1>2, <1>3, MaxBufferSizeAssumption DEF RingState
  <1>5. \A s \in RingState : ring.start[s] \in Nat /\ ring.num[s] \in Nat
    BY <1>1
  <1>6. \A s \in RingState : EndOf(ring, s) \in Nat
    BY <1>5 DEF EndOf
  <1> QED
    BY <1>1, <1>2, <1>4, <1>5, <1>6, MaxBufferSizeAssumption

\* What a reader finds in a buffer that holds q and sent, in the bytes and
\* through the pointers handed out.
ReadAs(buf, q, sent) ==
    /\ ReportsIn(buf, "Queued") = q
    /\ ReportsIn(buf, "Sending") = sent
    /\ [i \in DOMAIN buf.handed |-> Payload(buf.mem, buf.handed[i])] = sent
    /\ q \in Seq(Reports) /\ sent \in Seq(Reports)

\* The reports of the contents are what a reader finds.
LEMMA ContentsRead ==
    ASSUME NEW buf, AllReports(buf.mem), WellFormed(buf.ring), NEW q, NEW sent,
           Contents(buf.mem, buf.ring, buf.handed, q, sent)
    PROVE  ReadAs(buf, q, sent)
  <1> DEFINE ring == buf.ring  mem == buf.mem
  <1>1. ASSUME NEW s \in RingState, NEW reps, NEW pos, NEW rem,
               SegmentHolds(mem, ring, s, reps, pos, rem)
        PROVE  ReportsIn(buf, s) = reps
    <2>1. /\ ring.size \in Nat \ {0} /\ EndOf(ring, s) \in Nat
          /\ ring.num[s] \in Nat /\ ring.num[s] <= ring.size
          /\ ring.size <= MaxBufferSize /\ ring.size \in Nat
      BY RingNumbers
    <2>2. ring.num[s] \in 0 .. MaxBufferSize
      BY <2>1, MaxBufferSizeAssumption
    <2>3. Walk(mem, ring.size, EndOf(ring, s))[ring.num[s]] = reps
      BY <1>1, <2>1, <2>2, HoldsWalk DEF SegmentHolds
    <2> QED
      BY <2>3 DEF ReportsIn
  <1>2. PICK posQ, remQ : SegmentHolds(mem, ring, "Queued", q, posQ, remQ)
    BY DEF Contents
  <1>3. PICK posS, remS : /\ SegmentHolds(mem, ring, "Sending", sent, posS, remS)
                          /\ buf.handed = HandedAt(sent, posS)
    BY DEF Contents
  <1>4. q \in Seq(Reports) /\ sent \in Seq(Reports)
    BY <1>2, <1>3 DEF SegmentHolds, Holds
  <1>5. "Queued" \in RingState /\ "Sending" \in RingState
    BY DEF RingState
  <1>6. ReportsIn(buf, "Queued") = q /\ ReportsIn(buf, "Sending") = sent
    BY <1>1, <1>2, <1>3, <1>5
  <1> DEFINE read == [i \in DOMAIN buf.handed |-> Payload(mem, buf.handed[i])]
  <1>7. DOMAIN buf.handed = 1 .. Len(sent)
    BY <1>3 DEF HandedAt, HandedBlock
  <1>8. ASSUME NEW i \in 1 .. Len(sent)
        PROVE  Payload(mem, buf.handed[i]) = sent[i]
    <2>1. buf.handed[i] = [at |-> posS[i], len |-> ReportLen(sent[i])]
      BY <1>3 DEF HandedAt, HandedBlock
    <2>2. posS[i] \in DOMAIN mem /\ mem[posS[i]] = sent[i]
      BY <1>3 DEF SegmentHolds, Holds
    <2> QED
      BY <2>1, <2>2 DEF Payload
  <1>9. read = [i \in 1 .. Len(sent) |-> sent[i]]
    BY <1>7, <1>8
  <1>10. read = sent
    BY <1>4, <1>9
  <1> QED
    BY <1>4, <1>6, <1>10 DEF ReadAs

\* The free space is somewhere else than the blocks of the other two segments.
LEMMA BlocksAreNotFree ==
    ASSUME NEW mem, NEW ring, WellFormed(ring), NEW s \in {"Queued", "Sending"},
           NEW reps, NEW pos, NEW rem, SegmentHolds(mem, ring, s, reps, pos, rem),
           NEW n \in Nat, n <= ring.num["ClearToWrite"],
           ring.start["ClearToWrite"] + n <= ring.size,
           NEW i \in 1 .. Len(reps)
    PROVE  \/ pos[i] + BlockSize(reps[i]) <= ring.start["ClearToWrite"]
           \/ ring.start["ClearToWrite"] + n <= pos[i]
  <1> DEFINE size == ring.size
             s1 == ring.start["Sending"]       n1 == ring.num["Sending"]
             s2 == ring.start["Queued"]        n2 == ring.num["Queued"]
             s3 == ring.start["ClearToWrite"]  n3 == ring.num["ClearToWrite"]
             p == pos[i]  l == BlockSize(reps[i])  left == rem[i]  next == rem[i + 1]
             num == ring.num[s]  end == EndOf(ring, s)
  <1>1. Tiled(size, s1, n1, s2, n2, s3, n3) /\ size \in Nat \ {0} /\ size \in Nat
    BY WellFormedParts
  <1>2. num \in Nat /\ end \in Nat
    BY RingNumbers DEF RingState
  <1>3. IsBlock(mem, size, end, num, reps[i], p, left, next)
    BY <1>1, <1>2, HoldsBlock DEF SegmentHolds
  <1>4. \/ num = n2 /\ end = s2 + n2
        \/ num = n1 /\ end = s1 + n1
    BY DEF EndOf
  <1> HIDE DEF size, s1, n1, s2, n2, s3, n3, p, left, next, num, end
  <1>5. /\ p \in Nat /\ left \in Nat /\ next \in Nat /\ l \in Nat
        /\ left = next + l /\ left <= num /\ p + l <= size /\ l >= 3
        /\ Follows(size, end - left, p)
    BY <1>3 DEF IsBlock
  <1>6. n <= n3 /\ s3 + n <= size
    BY DEF n3, s3, size
  <1> HIDE DEF l
  <1>7. p + l <= s3 \/ s3 + n <= p
    BY <1>1, <1>2, <1>4, <1>5, <1>6 DEF Tiled, Follows
  <1> QED
    BY <1>7 DEF p, l, s3

\* When the free space touches the end of the buffer, the other two segments
\* lie in front of it, in one piece.
LEMMA ClearTouchesEnd ==
    ASSUME NEW ring, WellFormed(ring), TouchesEnd(ring, "ClearToWrite")
    PROVE  /\ EndOf(ring, "Sending") = ring.start["Queued"]
           /\ EndOf(ring, "Queued") = ring.start["ClearToWrite"]
  <1> DEFINE size == ring.size
             s1 == ring.start["Sending"]       n1 == ring.num["Sending"]
             s2 == ring.start["Queued"]        n2 == ring.num["Queued"]
             s3 == ring.start["ClearToWrite"]  n3 == ring.num["ClearToWrite"]
  <1>1. Tiled(size, s1, n1, s2, n2, s3, n3) /\ size \in Nat \ {0}
    BY WellFormedParts
  <1>2. s3 + n3 >= size
    BY DEF TouchesEnd, EndOf
  <1> HIDE DEF size, s1, n1, s2, n2, s3, n3
  <1>3. s1 + n1 = s2 /\ s2 + n2 = s3
    BY <1>1, <1>2 DEF Tiled, Follows
  <1> QED
    BY <1>3 DEF EndOf, s1, n1, s2, n2, s3

\* Inflating the buffer leaves the reports in it where they are.
LEMMA InflateContents ==
    ASSUME NEW mem, NEW ring, WellFormed(ring), NEW handed, NEW q, NEW sent,
           Contents(mem, ring, handed, q, sent)
    PROVE  Contents(mem, InflateToFullSize(ring, "ClearToWrite"), handed, q, sent)
  <1> DEFINE full == InflateToFullSize(ring, "ClearToWrite")
  <1> SUFFICES ASSUME TouchesEnd(ring, "ClearToWrite")
               PROVE  Contents(mem, full, handed, q, sent)
    BY DEF InflateToFullSize
  <1>1. full.size = MaxBufferSize /\ full.start = ring.start
    BY DEF InflateToFullSize
  <1>2. ASSUME NEW s \in {"Queued", "Sending"}
        PROVE  EndOf(full, s) = EndOf(ring, s) /\ full.num[s] = ring.num[s]
    BY WellFormedParts DEF InflateToFullSize, EndOf, RingState
  <1>3. ASSUME NEW s \in {"Queued", "Sending"}, NEW reps, NEW pos, NEW rem,
               SegmentHolds(mem, ring, s, reps, pos, rem)
        PROVE  SegmentHolds(mem, full, s, reps, pos, rem)
    <2>1. /\ ring.size \in Nat /\ EndOf(ring, s) \in Nat /\ ring.num[s] \in Nat
          /\ MaxBufferSize \in Nat /\ ring.size <= MaxBufferSize
      BY RingNumbers, MaxBufferSizeAssumption DEF RingState
    <2>2. EndOf(ring, s) <= ring.size
      <3>1. ring.start["Queued"] < ring.size /\ ring.start["ClearToWrite"] < ring.size
        BY DEF WellFormed, RingState
      <3>2. EndOf(ring, s) \in {ring.start["Queued"], ring.start["ClearToWrite"]}
        BY ClearTouchesEnd
      <3>3. ring.start["Queued"] \in Nat /\ ring.start["ClearToWrite"] \in Nat
        BY RingNumbers DEF RingState
      <3> QED
        BY <3>1, <3>2, <3>3, <2>1
    <2>3. EndOf(ring, s) <= MaxBufferSize
      BY <2>1, <2>2
    <2>4. Holds(mem, MaxBufferSize, EndOf(ring, s), ring.num[s], reps, pos, rem)
      BY <1>3, <2>1, <2>2, <2>3, HoldsResize DEF SegmentHolds
    <2> QED
      BY <2>4, <1>1, <1>2 DEF SegmentHolds
  <1> HIDE DEF full
  <1>4. \E pos, rem : SegmentHolds(mem, full, "Queued", q, pos, rem)
    BY <1>3 DEF Contents
  <1>5. \E pos, rem : /\ SegmentHolds(mem, full, "Sending", sent, pos, rem)
                      /\ handed = HandedAt(sent, pos)
    BY <1>3 DEF Contents
  <1> QED
    BY <1>4, <1>5 DEF Contents

\* So does trimming it at the front of the free space: what is cut off is free.
LEMMA TrimContents ==
    ASSUME NEW mem, NEW ring, WellFormed(ring), NEW handed, NEW q, NEW sent,
           Contents(mem, ring, handed, q, sent), ring.start["ClearToWrite"] >= 1
    PROVE  Contents(mem, TrimToStartAtBufferZero(ring, "ClearToWrite"), handed, q, sent)
  <1> DEFINE cut == TrimToStartAtBufferZero(ring, "ClearToWrite")
             c == ring.start["ClearToWrite"]
  <1> SUFFICES ASSUME TouchesEnd(ring, "ClearToWrite")
               PROVE  Contents(mem, cut, handed, q, sent)
    BY DEF TrimToStartAtBufferZero
  <1>0. c \in Nat \ {0} /\ c \in Nat /\ ring.size \in Nat /\ c < ring.size
    BY RingNumbers DEF RingState
  <1>1. cut.size = c /\ cut.start = [t \in RingState |-> ring.start[t] % c]
    BY DEF TrimToStartAtBufferZero
  <1>2. ASSUME NEW s \in {"Queued", "Sending"}
        PROVE  cut.num[s] = ring.num[s]
    BY WellFormedParts DEF TrimToStartAtBufferZero, RingState
  <1>3. ASSUME NEW s \in {"Queued", "Sending"}, NEW reps, NEW pos, NEW rem,
               SegmentHolds(mem, ring, s, reps, pos, rem)
        PROVE  SegmentHolds(mem, cut, s, reps, pos, rem)
    <2> DEFINE e == EndOf(ring, s)  n == ring.num[s]  b == ring.start[s]
    <2>1. e \in Nat /\ n \in Nat /\ b \in Nat /\ e = b + n
      BY RingNumbers DEF RingState, EndOf
    <2>2. e <= c
      <3>1. \/ e = c
            \/ e = ring.start["Queued"] /\ ring.start["Queued"] + ring.num["Queued"] = c
        BY ClearTouchesEnd DEF EndOf
      <3>2. ring.start["Queued"] \in Nat /\ ring.num["Queued"] \in Nat
        BY RingNumbers DEF RingState
      <3> HIDE DEF e, c
      <3> QED
        BY <3>1, <3>2, <1>0
    <2>3. Holds(mem, c, e, n, reps, pos, rem)
      <3>1. Holds(mem, ring.size, e, n, reps, pos, rem)
        BY <1>3 DEF SegmentHolds
      <3> HIDE DEF e, n, c
      <3>2. e <= ring.size
        BY <2>1, <2>2, <1>0
      <3> QED
        BY <3>1, <3>2, <2>1, <2>2, <1>0, HoldsResize
    <2>4. CASE n = 0
      \* An empty segment holds nothing, wherever it is.
      <3>1. reps = <<>>
        BY <2>1, <2>3, <2>4, <1>0, NothingHeld
      <3>2. Holds(mem, c, EndOf(cut, s), 0, <<>>, pos, rem)
        BY <2>3, <2>4, <3>1 DEF Holds
      <3> QED
        BY <3>1, <3>2, <2>4, <1>1, <1>2 DEF SegmentHolds
    <2>5. CASE n # 0
      <3>1. b < c
        <4> HIDE DEF e, n, b, c
        <4> QED
          BY <2>1, <2>2, <2>5, <1>0
      <3>2. b % c = b
        <4> HIDE DEF b, c
        <4>1. b \in Nat /\ c \in Nat \ {0} /\ b < 2 * c
          BY <3>1, <2>1, <1>0
        <4>2. b % c = IF b < c THEN b ELSE b - c
          BY <4>1, ModAtMostOneLap
        <4> QED
          BY <3>1, <4>2
      <3>3. EndOf(cut, s) = e
        BY <3>2, <1>1, <1>2 DEF EndOf, RingState
      <3> QED
        BY <3>3, <2>3, <1>1, <1>2 DEF SegmentHolds
    <2> QED
      BY <2>4, <2>5
  <1> HIDE DEF cut
  <1>4. \E pos, rem : SegmentHolds(mem, cut, "Queued", q, pos, rem)
    BY <1>3 DEF Contents
  <1>5. \E pos, rem : /\ SegmentHolds(mem, cut, "Sending", sent, pos, rem)
                      /\ handed = HandedAt(sent, pos)
    BY <1>3 DEF Contents
  <1> QED
    BY <1>4, <1>5 DEF Contents

-----------------------------------------------------------------------------
(***************************************************************************)
(* A report is added.                                                      *)
(***************************************************************************)
\* What moving num elements does to the numbers of a ring.
LEMMA MovedRing ==
    ASSUME NEW ring, WellFormed(ring), NEW from \in RingState, NEW to \in RingState,
           from # to, NEW num \in Nat, num <= ring.num[from]
    PROVE  LET new == MarkTransferred(ring, from, to, num)
           IN  /\ new.size = ring.size
               /\ new.start[from] = (ring.start[from] + num) % ring.size
               /\ new.num[from] = ring.num[from] - num
               /\ new.num[to] = ring.num[to] + num
               /\ \A s \in RingState \ {from} : new.start[s] = ring.start[s]
               /\ \A s \in RingState \ {from, to} : new.num[s] = ring.num[s]
  <1>1. ring.start \in [RingState -> Nat] /\ ring.num \in [RingState -> Nat]
    BY WellFormedParts
  <1>2. MarkTransferred(ring, from, to, num)
          = [size  |-> ring.size,
             start |-> [ring.start EXCEPT ![from] = (@ + num) % ring.size],
             num   |-> [ring.num EXCEPT ![from] = @ - num, ![to] = @ + num]]
    BY DEF MarkTransferred
  <1> QED
    BY <1>1, <1>2

\* A report is written into the free space and becomes the last of the queue.
LEMMA WriteContents ==
    ASSUME NEW mem, NEW ring, WellFormed(ring), NEW handed, NEW q, NEW sent,
           Contents(mem, ring, handed, q, sent), NEW r \in Reports,
           BlockSize(r) <= ring.num["ClearToWrite"],
           ring.start["ClearToWrite"] + BlockSize(r) <= ring.size
    PROVE  Contents(WriteBlock(mem, ring.start["ClearToWrite"], r),
                    MarkTransferred(ring, "ClearToWrite", "Queued", BlockSize(r)),
                    handed, Append(q, r), sent)
  <1> DEFINE at == ring.start["ClearToWrite"]
             n == BlockSize(r)
             mem2 == WriteBlock(mem, at, r)
             ring2 == MarkTransferred(ring, "ClearToWrite", "Queued", n)
  <1>1. n \in Nat /\ at \in Nat /\ ring.size \in Nat /\ n >= 3
    BY RingNumbers, BlockSizeNat DEF RingState
  <1>2. /\ ring2.size = ring.size
        /\ ring2.num["Queued"] = ring.num["Queued"] + n
        /\ ring2.num["Sending"] = ring.num["Sending"]
        /\ ring2.start["Queued"] = ring.start["Queued"]
        /\ ring2.start["Sending"] = ring.start["Sending"]
    <2>1. n <= ring.num["ClearToWrite"]
      OBVIOUS
    <2> HIDE DEF n
    <2> QED
      BY <1>1, <2>1, MovedRing DEF RingState
  <1>3. /\ EndOf(ring2, "Queued") = EndOf(ring, "Queued") + n
        /\ EndOf(ring2, "Sending") = EndOf(ring, "Sending")
    <2>1. ring.start["Queued"] \in Nat /\ ring.num["Queued"] \in Nat
      BY RingNumbers DEF RingState
    <2> HIDE DEF ring2, n
    <2> QED
      BY <1>1, <1>2, <2>1 DEF EndOf
  <1>4. ASSUME NEW s \in {"Queued", "Sending"}, NEW reps, NEW pos, NEW rem,
               SegmentHolds(mem, ring, s, reps, pos, rem)
        PROVE  SegmentHolds(mem2, ring, s, reps, pos, rem)
    <2>1. /\ EndOf(ring, s) \in Nat /\ ring.num[s] \in Nat
      BY RingNumbers DEF RingState
    <2>2. \A i \in 1 .. Len(reps) : \/ pos[i] + BlockSize(reps[i]) <= at
                                    \/ at + n <= pos[i]
      BY <1>1, <1>4, BlocksAreNotFree
    <2>3. Holds(mem, ring.size, EndOf(ring, s), ring.num[s], reps, pos, rem)
      BY <1>4 DEF SegmentHolds
    <2> HIDE DEF at
    <2>4. Holds(mem2, ring.size, EndOf(ring, s), ring.num[s], reps, pos, rem)
      BY <1>1, <2>1, <2>2, <2>3, HoldsThroughWrite
    <2> QED
      BY <2>4 DEF SegmentHolds
  <1>5. at \in DOMAIN mem2 /\ mem2[at] = r
    BY DEF WriteBlock
  <1>6. at + n <= ring.size
    OBVIOUS
  <1>7. Follows(ring.size, EndOf(ring, "Queued"), at)
    BY DEF WellFormed
  <1> HIDE DEF mem2, ring2, at, n
  <1>8. \E pos, rem : SegmentHolds(mem2, ring2, "Queued", Append(q, r), pos, rem)
    <2>1. PICK pos, rem : SegmentHolds(mem, ring, "Queued", q, pos, rem)
      BY DEF Contents
    <2>2. SegmentHolds(mem2, ring, "Queued", q, pos, rem)
      BY <1>4, <2>1
    <2> DEFINE e == EndOf(ring, "Queued")  num == ring.num["Queued"]
    <2>3. e \in Nat /\ num \in Nat
      BY RingNumbers DEF RingState
    <2>4. Holds(mem2, ring.size, e, num, q, pos, rem)
      BY <2>2 DEF SegmentHolds
    <2> HIDE DEF e, num
    <2>6. PICK pos2, rem2 : Holds(mem2, ring.size, e + n, num + n, Append(q, r), pos2, rem2)
      <3>1. at + BlockSize(r) <= ring.size /\ Follows(ring.size, e, at)
        BY <1>6, <1>7 DEF e, n
      <3> QED
        BY <2>3, <2>4, <3>1, <1>1, <1>5, HoldsAppend DEF n
    <2> QED
      BY <2>6, <1>2, <1>3 DEF SegmentHolds, e, num
  <1>9. \E pos, rem : /\ SegmentHolds(mem2, ring2, "Sending", sent, pos, rem)
                      /\ handed = HandedAt(sent, pos)
    <2>1. PICK pos, rem : /\ SegmentHolds(mem, ring, "Sending", sent, pos, rem)
                          /\ handed = HandedAt(sent, pos)
      BY DEF Contents
    <2>2. SegmentHolds(mem2, ring, "Sending", sent, pos, rem)
      BY <1>4, <2>1
    <2>3. SegmentHolds(mem2, ring2, "Sending", sent, pos, rem)
      BY <2>2, <1>2, <1>3 DEF SegmentHolds
    <2> QED
      BY <2>1, <2>3
  <1>10. Contents(mem2, ring2, handed, Append(q, r), sent)
    BY <1>8, <1>9 DEF Contents
  <1> QED
    BY <1>10 DEF mem2, ring2, at, n

\* Where get_transfer_buffer puts a report: at the front of the free space, of
\* the inflated buffer or of that buffer cut off at the front of the free space.
LEMMA AllocatedAt ==
    ASSUME NEW ring, WellFormed(ring), NEW n \in Nat
    PROVE  LET full == InflateToFullSize(ring, "ClearToWrite")
               got  == GetTransferBuffer(ring, "ClearToWrite", "Queued", n, TRUE)
           IN  \/ got.at = NullPtr /\ got.ring = full
               \/ \E ring2 \in {full, TrimToStartAtBufferZero(full, "ClearToWrite")} :
                     /\ got.at = ring2.start["ClearToWrite"]
                     /\ got.ring = MarkTransferred(ring2, "ClearToWrite", "Queued", n)
                     /\ n <= ring2.num["ClearToWrite"]
                     /\ ring2.start["ClearToWrite"] + n <= ring2.size
                     /\ ring2 # full => full.start["ClearToWrite"] >= 1
  <1> DEFINE s == "ClearToWrite"
             full == InflateToFullSize(ring, s)
             cut == TrimToStartAtBufferZero(full, s)
             got == GetTransferBuffer(ring, s, "Queued", n, TRUE)
             lobes == ContinuousSegmentSizes(full, s)
             b == full.start[s]  m == full.num[s]  size == full.size
  <1>1. WellFormed(full)
    BY InflateWellFormed DEF RingState
  <1>2. got = CASE n <= lobes[1] -> [ring |-> MarkTransferred(full, s, "Queued", n), at |-> b]
                [] n > lobes[1] /\ n <= lobes[2] ->
                     [ring |-> MarkTransferred(cut, s, "Queued", n), at |-> 0]
                [] OTHER -> [ring |-> full, at |-> NullPtr]
    BY DEF GetTransferBuffer
  <1> HIDE DEF got, full
  <1>3. /\ b \in Nat /\ m \in Nat /\ size \in Nat /\ b < size /\ m <= size
        /\ EndOf(full, s) = b + m
    BY <1>1, RingNumbers DEF RingState, EndOf
  <1>4. \/ b + m <= size /\ lobes[1] = m /\ lobes[2] = 0
        \/ b + m > size /\ lobes[1] = size - b /\ lobes[2] = b + m - size
    BY <1>3 DEF ContinuousSegmentSizes
  <1> DEFINE one == lobes[1]  two == lobes[2]
  <1> HIDE DEF b, m, size, one, two
  <1>5. CASE n <= one
    <2>1. got.at = b /\ got.ring = MarkTransferred(full, s, "Queued", n)
      <3>1. ~(n > one)
        BY <1>3, <1>4, <1>5 DEF one, two
      <3>2. n <= lobes[1] /\ ~(n > lobes[1])
        BY <3>1, <1>5 DEF one
      <3> QED
        BY <1>2, <3>2
    <2>2. n <= m /\ b + n <= size
      BY <1>3, <1>4, <1>5 DEF one, two
    <2> QED
      BY <2>1, <2>2 DEF got, full, b, m, size
  <1>6. CASE n > one /\ n <= two
    <2>1. ~(n <= one)
      BY <1>3, <1>4, <1>6 DEF one, two
    <2>2. got.at = 0 /\ got.ring = MarkTransferred(cut, s, "Queued", n)
      BY <1>2, <1>6, <2>1 DEF one, two
    <2>3. b + m > size /\ two = b + m - size /\ b >= 1
      BY <1>3, <1>4, <1>6 DEF one, two
    <2>4. TouchesEnd(full, s)
      BY <1>3, <2>3 DEF TouchesEnd, size
    <2>5. /\ cut.size = b /\ cut.start[s] = b % b /\ cut.num[s] = m - (size - b)
      <3>1. full.num = [t \in RingState |-> full.num[t]]
        BY <1>1, WellFormedParts
      <3> QED
        BY <2>4, <3>1 DEF TrimToStartAtBufferZero, RingState, b, m, size
    <2>6. b % b = 0
      BY <1>3, <2>3, ModAtMostOneLap
    <2>7. WellFormed(cut)
      BY <1>1, <2>3, TrimWellFormed DEF RingState, b
    <2>8. cut.num[s] <= cut.size
      BY <2>7, RingNumbers DEF RingState
    <2> HIDE DEF cut
    <2>9. n <= cut.num[s] /\ cut.start[s] + n <= cut.size /\ cut.start[s] = 0
      BY <1>3, <1>6, <2>3, <2>5, <2>6, <2>8
    <2> QED
      BY <2>2, <2>3, <2>9 DEF got, full, cut, b
  <1>7. CASE ~(n <= one) /\ ~(n > one /\ n <= two)
    <2>1. got.at = NullPtr /\ got.ring = full
      BY <1>2, <1>7 DEF one, two
    <2> QED
      BY <2>1 DEF got, full
  <1> QED
    BY <1>5, <1>6, <1>7

\* A report that is accepted is the last of the queue; one that is refused
\* changes nothing that the buffer holds.
LEMMA AllocateContents ==
    ASSUME NEW buf, WellFormed(buf.ring), NEW q, NEW sent,
           buf = [ring |-> buf.ring, mem |-> buf.mem, handed |-> buf.handed],
           Contents(buf.mem, buf.ring, buf.handed, q, sent), NEW r \in Reports
    PROVE  LET out == AllocateSpaceForReport(buf, r)
           IN  Contents(out.buf.mem, out.buf.ring, out.buf.handed,
                        IF out.ok THEN Append(q, r) ELSE q, sent)
  <1> DEFINE ring == buf.ring
             full == InflateToFullSize(ring, "ClearToWrite")
             got  == GetTransferBuffer(ring, "ClearToWrite", "Queued", BlockSize(r), TRUE)
             out == AllocateSpaceForReport(buf, r)
  <1>1. /\ out.buf.ring = got.ring /\ out.buf.handed = buf.handed
        /\ out.ok = (got.at # NullPtr)
        /\ out.buf.mem = IF got.at = NullPtr THEN buf.mem
                                             ELSE WriteBlock(buf.mem, got.at, r)
    <2> HIDE DEF got
    <2> QED
      BY DEF AllocateSpaceForReport, got
  <1>2. WellFormed(full) /\ Contents(buf.mem, full, buf.handed, q, sent)
    BY InflateWellFormed, InflateContents DEF RingState
  <1>3. BlockSize(r) \in Nat
    BY BlockSizeNat
  <1>4. \/ got.at = NullPtr /\ got.ring = full
        \/ \E ring2 \in {full, TrimToStartAtBufferZero(full, "ClearToWrite")} :
              /\ got.at = ring2.start["ClearToWrite"]
              /\ got.ring = MarkTransferred(ring2, "ClearToWrite", "Queued", BlockSize(r))
              /\ BlockSize(r) <= ring2.num["ClearToWrite"]
              /\ ring2.start["ClearToWrite"] + BlockSize(r) <= ring2.size
              /\ ring2 # full => full.start["ClearToWrite"] >= 1
    BY <1>3, AllocatedAt
  <1> HIDE DEF full, got, out
  <1>5. CASE got.at = NullPtr /\ got.ring = full
    BY <1>1, <1>2, <1>5 DEF out
  <1>6. ASSUME NEW ring2 \in {full, TrimToStartAtBufferZero(full, "ClearToWrite")},
               got.at = ring2.start["ClearToWrite"],
               got.ring = MarkTransferred(ring2, "ClearToWrite", "Queued", BlockSize(r)),
               BlockSize(r) <= ring2.num["ClearToWrite"],
               ring2.start["ClearToWrite"] + BlockSize(r) <= ring2.size,
               ring2 # full => full.start["ClearToWrite"] >= 1
        PROVE  Contents(out.buf.mem, out.buf.ring, out.buf.handed,
                        IF out.ok THEN Append(q, r) ELSE q, sent)
    <2>1. WellFormed(ring2) /\ Contents(buf.mem, ring2, buf.handed, q, sent)
      BY <1>2, <1>6, TrimWellFormed, TrimContents DEF RingState
    <2>2. Contents(WriteBlock(buf.mem, got.at, r), got.ring, buf.handed,
                   Append(q, r), sent)
      BY <2>1, <1>6, WriteContents
    <2>3. got.at # NullPtr
      <3>1. ring2.start["ClearToWrite"] \in Nat
        BY <2>1, RingNumbers DEF RingState
      <3> QED
        BY <3>1, <1>6 DEF NullPtr
    <2> QED
      BY <2>2, <2>3, <1>1
  <1> QED
    BY <1>4, <1>5, <1>6 DEF out

-----------------------------------------------------------------------------
(***************************************************************************)
(* A report is handed out or released.                                     *)
(***************************************************************************)
\* The first block of a segment starts where the segment does.
LEMMA FirstBlock ==
    ASSUME NEW mem, NEW ring, WellFormed(ring), NEW s \in RingState,
           NEW reps, NEW pos, NEW rem, SegmentHolds(mem, ring, s, reps, pos, rem),
           reps # <<>>
    PROVE  /\ reps \in Seq(Reports) /\ reps[1] \in Reports
           /\ pos[1] = ring.start[s]
           /\ ring.start[s] \in DOMAIN mem /\ mem[ring.start[s]] = reps[1]
           /\ BlockSize(reps[1]) \in Nat /\ BlockSize(reps[1]) >= 3
           /\ BlockSize(reps[1]) <= ring.num[s]
           /\ ring.start[s] + BlockSize(reps[1]) <= ring.size
  <1> DEFINE b == ring.start[s]  m == ring.num[s]  size == ring.size
             p == pos[1]  l == BlockSize(reps[1])  next == rem[1 + 1]
  <1>1. /\ b \in Nat /\ m \in Nat /\ size \in Nat /\ b < size
        /\ EndOf(ring, s) \in Nat /\ EndOf(ring, s) = b + m
    BY RingNumbers DEF EndOf
  <1>2. Holds(mem, size, EndOf(ring, s), m, reps, pos, rem)
    BY DEF SegmentHolds
  <1>3. reps \in Seq(Reports) /\ rem[1] = m /\ 1 \in 1 .. Len(reps)
    BY <1>2 DEF Holds
  <1>4. IsBlock(mem, size, EndOf(ring, s), m, reps[1], p, rem[1], next)
    BY <1>1, <1>2, <1>3, HoldsBlock
  <1> HIDE DEF b, m, size, p, l, next
  <1>5. /\ reps[1] \in Reports /\ l \in Nat /\ l >= 3 /\ next \in Nat /\ p \in Nat
        /\ p \in DOMAIN mem /\ mem[p] = reps[1] /\ p + l <= size
        /\ m = next + l /\ Follows(size, (b + m) - m, p)
    BY <1>1, <1>3, <1>4 DEF IsBlock, l
  <1>6. p = b
    BY <1>1, <1>5 DEF Follows
  <1>7. l <= m
    BY <1>1, <1>5
  <1> QED
    BY <1>3, <1>5, <1>6, <1>7 DEF b, m, size, p, l

\* Where a segment ends after l elements were taken from its front.
LEMMA EndAfterTake ==
    ASSUME NEW size \in Nat \ {0}, NEW b \in Nat, b < size, NEW m \in Nat,
           NEW l \in Nat, l <= m, l <= size
    PROVE  LET e == ((b + l) % size) + (m - l)
           IN  /\ e \in Nat
               /\ \/ e = b + m
                  \/ e = (b + m) - size /\ (b + m) - m + l >= size
  <1> DEFINE at == b + l
             w == at % size
  <1>1. at \in Nat /\ at < 2 * size
    OBVIOUS
  <1>2. w = IF at < size THEN at ELSE at - size
    <2> HIDE DEF at
    <2> QED
      BY <1>1, ModAtMostOneLap
  <1> HIDE DEF w
  <1>3. CASE at < size
    <2>1. w = at
      BY <1>2, <1>3
    <2>2. w + (m - l) = b + m /\ w + (m - l) \in Nat
      BY <2>1
    <2> QED
      BY <2>2 DEF w
  <1>4. CASE at >= size
    <2>1. w = at - size
      BY <1>1, <1>2, <1>4
    <2>2. /\ w + (m - l) = (b + m) - size /\ w + (m - l) \in Nat
          /\ (b + m) - m + l >= size
      BY <1>4, <2>1
    <2> QED
      BY <2>2 DEF w
  <1> QED
    BY <1>1, <1>3, <1>4

\* Taking the first block from the front of a segment.
LEMMA TakeFirst ==
    ASSUME NEW mem, NEW ring, WellFormed(ring), NEW s \in RingState,
           NEW reps, NEW pos, NEW rem, SegmentHolds(mem, ring, s, reps, pos, rem),
           reps # <<>>,
           NEW new, new.size = ring.size,
           new.start[s] = (ring.start[s] + BlockSize(reps[1])) % ring.size,
           new.num[s] = ring.num[s] - BlockSize(reps[1])
    PROVE  SegmentHolds(mem, new, s, Tail(reps),
                        [i \in 1 .. Len(reps) - 1 |-> pos[i + 1]],
                        [i \in 1 .. Len(reps) |-> rem[i + 1]])
  <1> DEFINE b == ring.start[s]  m == ring.num[s]  size == ring.size
             l == BlockSize(reps[1])
             e == ((b + l) % size) + (m - l)
  <1>1. /\ b \in Nat /\ m \in Nat /\ size \in Nat \ {0} /\ size \in Nat /\ b < size
        /\ EndOf(ring, s) \in Nat /\ EndOf(ring, s) = b + m
    BY RingNumbers DEF EndOf
  <1>2. l \in Nat /\ l <= m /\ b + l <= size /\ l <= size
    <2>1. l \in Nat /\ l <= m /\ b + l <= size
      BY FirstBlock
    <2> HIDE DEF b, l, size
    <2> QED
      BY <2>1, <1>1
  <1>3. Holds(mem, size, b + m, m, reps, pos, rem)
    BY <1>1 DEF SegmentHolds
  <1>4. EndOf(new, s) = e /\ new.num[s] = m - l /\ new.size = size
    BY DEF EndOf
  <1> HIDE DEF b, m, size, l
  <1>5. /\ e \in Nat
        /\ \/ e = b + m
           \/ e = (b + m) - size /\ (b + m) - m + l >= size
    BY <1>1, <1>2, EndAfterTake
  <1> HIDE DEF e
  <1>6. b + m \in Nat
    BY <1>1
  <1>7. Holds(mem, size, e, m - l, Tail(reps),
              [i \in 1 .. Len(reps) - 1 |-> pos[i + 1]],
              [i \in 1 .. Len(reps) |-> rem[i + 1]])
    BY <1>1, <1>3, <1>5, <1>6, HoldsTail DEF l
  <1> QED
    BY <1>4, <1>7 DEF SegmentHolds

\* An empty queue has nothing to transfer.
LEMMA NothingToTransfer ==
    ASSUME NEW buf, WellFormed(buf.ring), NEW pos, NEW rem,
           SegmentHolds(buf.mem, buf.ring, "Queued", <<>>, pos, rem)
    PROVE  TransferOutNextReport(buf)
             = [buf |-> buf, block |-> [at |-> NullPtr, len |-> 0]]
  <1> DEFINE ring == buf.ring
             siz == GetTransferBuffer(ring, "Queued", "Sending", HeaderSize, FALSE)
  <1>1. ring.num["Queued"] = 0
    BY DEF SegmentHolds, Holds
  <1>2. /\ ring.start["Queued"] \in Nat /\ ring.size \in Nat
        /\ ring.start["Queued"] < ring.size
    BY RingNumbers DEF RingState
  <1>3. ContinuousSegmentSizes(ring, "Queued") = <<0, 0>>
    BY <1>1, <1>2 DEF ContinuousSegmentSizes, EndOf
  <1>4. siz.at = NullPtr
    BY <1>3 DEF GetTransferBuffer, HeaderSize
  <1> HIDE DEF siz
  <1> QED
    BY <1>4 DEF TransferOutNextReport, siz

\* Bytes that lie in one piece at the front of the queue are transferred as asked.
LEMMA TakenWhole ==
    ASSUME NEW ring, WellFormed(ring), NEW n \in Nat,
           n <= ring.num["Queued"], ring.start["Queued"] + n <= ring.size
    PROVE  GetTransferBuffer(ring, "Queued", "Sending", n, FALSE)
             = [ring |-> MarkTransferred(ring, "Queued", "Sending", n),
                at   |-> ring.start["Queued"]]
  <1> DEFINE b == ring.start["Queued"]  m == ring.num["Queued"]  size == ring.size
             lobes == ContinuousSegmentSizes(ring, "Queued")
  <1>1. b \in Nat /\ m \in Nat /\ size \in Nat /\ EndOf(ring, "Queued") = b + m
    BY RingNumbers DEF RingState, EndOf
  <1>2. lobes[1] = m \/ lobes[1] = size - b
    BY DEF ContinuousSegmentSizes
  <1>3. n <= m /\ b + n <= size
    OBVIOUS
  <1> HIDE DEF b, m, size, lobes
  <1>4. n <= lobes[1]
    BY <1>1, <1>2, <1>3
  <1>5. ~(n > lobes[1])
    BY <1>1, <1>2, <1>4
  <1> QED
    BY <1>4, <1>5 DEF GetTransferBuffer, lobes

\* The two transfers of transfer_out_next_report, of the header and of as many
\* bytes as it says, move exactly the oldest block.
LEMMA OldestIsTransferred ==
    ASSUME NEW buf, WellFormed(buf.ring), NEW q, NEW pos, NEW rem,
           buf = [ring |-> buf.ring, mem |-> buf.mem, handed |-> buf.handed],
           SegmentHolds(buf.mem, buf.ring, "Queued", q, pos, rem), q # <<>>
    PROVE  LET out  == TransferOutNextReport(buf)
               l    == BlockSize(q[1])
               ring == buf.ring
               new  == out.buf.ring
               block == HandedBlock(q[1], ring.start["Queued"])
           IN  /\ out.block = block
               /\ out.buf.mem = buf.mem
               /\ out.buf.handed = Append(buf.handed, block)
               /\ new.size = ring.size
               /\ new.start["Queued"] = (ring.start["Queued"] + l) % ring.size
               /\ new.num["Queued"] = ring.num["Queued"] - l
               /\ new.start["Sending"] = ring.start["Sending"]
               /\ new.num["Sending"] = ring.num["Sending"] + l
  <1> DEFINE ring == buf.ring
             len  == ReportLen(q[1])
             l    == BlockSize(q[1])
             b    == ring.start["Queued"]
             m    == ring.num["Queued"]
             k    == ring.num["Sending"]
             r1   == MarkTransferred(ring, "Queued", "Sending", HeaderSize)
             r2   == MarkTransferred(r1, "Queued", "Sending", len)
             siz  == GetTransferBuffer(ring, "Queued", "Sending", HeaderSize, FALSE)
             hdr  == HeaderAt(buf.mem, siz.at)
             data == GetTransferBuffer(siz.ring, "Queued", "Sending", hdr, FALSE)
             out  == TransferOutNextReport(buf)
             block == [at |-> b, len |-> len]
  <1>1. /\ q[1] \in Reports /\ b \in DOMAIN buf.mem /\ buf.mem[b] = q[1]
        /\ l \in Nat /\ l >= 3 /\ l <= m /\ b + l <= ring.size
    <2>1. "Queued" \in RingState
      BY DEF RingState
    <2> DEFINE mem == buf.mem  s == "Queued"
    <2>2. WellFormed(ring) /\ SegmentHolds(mem, ring, s, q, pos, rem) /\ s \in RingState
      BY <2>1
    <2> HIDE DEF ring, mem, s
    <2>3. /\ q[1] \in Reports /\ ring.start[s] \in DOMAIN mem
          /\ mem[ring.start[s]] = q[1]
          /\ l \in Nat /\ l >= 3 /\ l <= ring.num[s]
          /\ ring.start[s] + l <= ring.size
      BY <2>2, FirstBlock
    <2> QED
      BY <2>3 DEF ring, mem, s
  <1>2. len \in Nat /\ len > 0 /\ l = len + HeaderSize /\ HeaderSize = 2
    BY <1>1, ReportLenAssumption DEF BlockSize, HeaderSize
  <1>3. /\ b \in Nat /\ m \in Nat /\ k \in Nat /\ ring.size \in Nat \ {0} /\ b < ring.size
        /\ ring.size \in Nat
    BY RingNumbers DEF RingState
  <1>4. siz = [ring |-> r1, at |-> b]
    <2>1. HeaderSize \in Nat /\ HeaderSize <= m /\ b + HeaderSize <= ring.size
      <3> HIDE DEF l, b, m
      <3> QED
        BY <1>1, <1>2, <1>3
    <2> QED
      BY <2>1, TakenWhole
  <1>5. WellFormed(r1)
    <2>1. Receiver["Queued"] = "Sending" /\ HeaderSize \in Nat
      BY <1>2 DEF Receiver
    <2> QED
      BY <2>1, MarkTransferredWellFormed DEF RingState
  <1>6. /\ r1.size = ring.size
        /\ r1.start["Queued"] = b + 2 /\ r1.num["Queued"] = m - 2
        /\ r1.start["Sending"] = ring.start["Sending"] /\ r1.num["Sending"] = k + 2
    <2>1. HeaderSize \in Nat /\ HeaderSize <= m
      <3> HIDE DEF l, b, m
      <3> QED
        BY <1>1, <1>2, <1>3
    <2>2. /\ r1.size = ring.size
          /\ r1.start["Queued"] = (b + HeaderSize) % ring.size
          /\ r1.num["Queued"] = m - HeaderSize
          /\ r1.start["Sending"] = ring.start["Sending"]
          /\ r1.num["Sending"] = k + HeaderSize
      BY <2>1, MovedRing DEF RingState
    <2>3. (b + 2) % ring.size = b + 2
      <3> DEFINE size == ring.size  at == b + 2
      <3>1. at \in Nat /\ at < size /\ at < 2 * size /\ size \in Nat \ {0}
        <4> HIDE DEF l, b
        <4> QED
          BY <1>1, <1>3
      <3> HIDE DEF size, at
      <3>2. at % size = IF at < size THEN at ELSE at - size
        BY <3>1, ModAtMostOneLap
      <3>3. at % size = at
        BY <3>1, <3>2
      <3> QED
        BY <3>3 DEF size, at
    <2> QED
      BY <2>2, <2>3, <1>2
  <1>7. hdr = len
    <2> HIDE DEF siz, b, r1
    <2>1. siz.at = b
      BY <1>4
    <2> QED
      BY <2>1, <1>1 DEF HeaderAt
  <1>8. len <= r1.num["Queued"] /\ r1.start["Queued"] + len <= r1.size
    <2> HIDE DEF l, len, b, m, r1
    <2> QED
      BY <1>1, <1>2, <1>3, <1>6
  <1>9. data = [ring |-> r2, at |-> b + 2]
    <2>1. siz.ring = r1
      <3> HIDE DEF siz, b, r1
      <3> QED
        BY <1>4
    <2>2. GetTransferBuffer(r1, "Queued", "Sending", len, FALSE)
            = [ring |-> r2, at |-> r1.start["Queued"]]
      <3> HIDE DEF r1, len
      <3> QED
        BY <1>2, <1>5, <1>8, TakenWhole
    <2> HIDE DEF siz, r1, r2, hdr
    <2> QED
      BY <2>1, <2>2, <1>6, <1>7
  <1>10. /\ r2.size = ring.size
         /\ r2.start["Queued"] = (b + l) % ring.size
         /\ r2.num["Queued"] = m - l
         /\ r2.start["Sending"] = ring.start["Sending"]
         /\ r2.num["Sending"] = k + l
    <2>1. /\ r2.size = r1.size
          /\ r2.start["Queued"] = (r1.start["Queued"] + len) % r1.size
          /\ r2.num["Queued"] = r1.num["Queued"] - len
          /\ r2.start["Sending"] = r1.start["Sending"]
          /\ r2.num["Sending"] = r1.num["Sending"] + len
      <3> HIDE DEF r1, len
      <3> QED
        BY <1>2, <1>5, <1>8, MovedRing DEF RingState
    <2>2. /\ (b + 2) + len = b + l /\ (m - 2) - len = m - l /\ (k + 2) + len = k + l
      <3> HIDE DEF b, m, k, l, len
      <3> QED
        BY <1>2, <1>3
    <2> HIDE DEF r1, r2, b, m, k, l
    <2> QED
      BY <2>1, <2>2, <1>6
  <1>11. b # NullPtr /\ b + 2 # NullPtr /\ (b + 2) - HeaderSize = b
    <2> HIDE DEF b
    <2> QED
      BY <1>2, <1>3 DEF NullPtr
  <1>12. /\ out.block = block
         /\ out.buf = [buf EXCEPT !.ring = r2, !.handed = Append(@, block)]
    <2>1. siz.at = b /\ data.at = b + 2 /\ data.ring = r2
      <3> HIDE DEF siz, data, b, r1, r2
      <3> QED
        BY <1>4, <1>9
    <2>2. out = LET blk == [at |-> data.at - HeaderSize, len |-> hdr]
                IN  [buf |-> [buf EXCEPT !.ring = data.ring, !.handed = Append(@, blk)],
                     block |-> blk]
      <3>1. siz.at # NullPtr /\ data.at # NullPtr
        BY <2>1, <1>11
      <3> HIDE DEF siz, data
      <3> QED
        BY <3>1 DEF TransferOutNextReport, siz, data
    <2> HIDE DEF siz, data, hdr, r2, b, len, out
    <2>3. [at |-> data.at - HeaderSize, len |-> hdr] = block
      BY <2>1, <1>7, <1>11
    <2> QED
      BY <2>1, <2>2, <2>3
  <1>13. /\ out.buf.ring = r2 /\ out.buf.mem = buf.mem
         /\ out.buf.handed = Append(buf.handed, block)
    <2> HIDE DEF out, r2, block
    <2> QED
      BY <1>12
  <1>14. block = HandedBlock(q[1], b)
    BY DEF HandedBlock
  <1> HIDE DEF out, r2, block, b, l
  <1> QED
    BY <1>10, <1>12, <1>13, <1>14 DEF out, b, l

\* The blocks handed out, one for each report.
LEMMA HandedIsSeq ==
    ASSUME NEW sent \in Seq(Reports), NEW pos \in [1 .. Len(sent) -> Nat]
    PROVE  /\ HandedAt(sent, pos) \in Seq(Blocks)
           /\ Len(HandedAt(sent, pos)) = Len(sent)
           /\ \A i \in 1 .. Len(sent) : HandedAt(sent, pos)[i] = HandedBlock(sent[i], pos[i])
  <1>1. ASSUME NEW i \in 1 .. Len(sent)
        PROVE  HandedBlock(sent[i], pos[i]) \in Blocks
    <2>1. sent[i] \in Reports /\ pos[i] \in Nat
      OBVIOUS
    <2>2. ReportLen(sent[i]) \in Nat
      BY <2>1, ReportLenAssumption
    <2> QED
      BY <2>1, <2>2 DEF HandedBlock, Blocks
  <1> DEFINE k == Len(sent)
  <1>2. k \in Nat
    OBVIOUS
  <1>3. HandedAt(sent, pos) = [i \in 1 .. k |-> HandedBlock(sent[i], pos[i])]
    BY DEF HandedAt, HandedBlock
  <1>4. HandedAt(sent, pos) \in [1 .. k -> Blocks]
    BY <1>1, <1>3
  <1> HIDE DEF k
  <1>5. HandedAt(sent, pos) \in Seq(Blocks) /\ Len(HandedAt(sent, pos)) = k
    BY <1>2, <1>4
  <1> QED
    BY <1>3, <1>5 DEF k

\* One more block is handed out.
LEMMA HandedAppend ==
    ASSUME NEW sent \in Seq(Reports), NEW pos \in [1 .. Len(sent) -> Nat],
           NEW r \in Reports, NEW at \in Nat
    PROVE  Append(HandedAt(sent, pos), HandedBlock(r, at))
             = HandedAt(Append(sent, r),
                        [i \in 1 .. Len(sent) + 1 |->
                           IF i <= Len(sent) THEN pos[i] ELSE at])
  <1> DEFINE k == Len(sent)
             old == HandedAt(sent, pos)
             sent2 == Append(sent, r)
             pos2 == [i \in 1 .. k + 1 |-> IF i <= k THEN pos[i] ELSE at]
             new == HandedAt(sent2, pos2)
             app == Append(old, HandedBlock(r, at))
  <1>1. /\ k \in Nat /\ sent2 \in Seq(Reports) /\ Len(sent2) = k + 1
        /\ \A i \in 1 .. k : sent2[i] = sent[i]
        /\ sent2[k + 1] = r
    OBVIOUS
  <1>2. /\ pos2 \in [1 .. k + 1 -> Nat]
        /\ \A i \in 1 .. k : pos2[i] = pos[i]
        /\ pos2[k + 1] = at
    BY <1>1
  <1>3. /\ old \in Seq(Blocks) /\ Len(old) = k
        /\ \A i \in 1 .. k : old[i] = HandedBlock(sent[i], pos[i])
    BY HandedIsSeq
  <1> HIDE DEF old, sent2, pos2
  <1>4. /\ new \in Seq(Blocks) /\ Len(new) = k + 1
        /\ \A i \in 1 .. k + 1 : new[i] = HandedBlock(sent2[i], pos2[i])
    BY <1>1, <1>2, HandedIsSeq
  <1>5. HandedBlock(r, at) \in Blocks
    BY ReportLenAssumption DEF HandedBlock, Blocks
  <1> HIDE DEF k, new
  <1>6. /\ app \in Seq(Blocks) /\ Len(app) = k + 1
        /\ \A i \in 1 .. k : app[i] = old[i]
        /\ app[k + 1] = HandedBlock(r, at)
    BY <1>1, <1>3, <1>5
  <1> HIDE DEF app
  <1>7. ASSUME NEW i \in 1 .. k + 1
        PROVE  app[i] = new[i]
    <2>1. CASE i = k + 1
      BY <2>1, <1>1, <1>2, <1>4, <1>6
    <2>2. CASE i # k + 1
      <3>1. i \in 1 .. k
        BY <2>2, <1>1
      <3> QED
        BY <3>1, <1>1, <1>2, <1>3, <1>4, <1>6
    <2> QED
      BY <2>1, <2>2
  <1>8. app = new
    BY <1>4, <1>6, <1>7
  <1> QED
    BY <1>8 DEF app, old, new, sent2, pos2, k

\* The oldest block is released.
LEMMA HandedTail ==
    ASSUME NEW sent \in Seq(Reports), NEW pos \in [1 .. Len(sent) -> Nat],
           sent # <<>>
    PROVE  Tail(HandedAt(sent, pos))
             = HandedAt(Tail(sent), [i \in 1 .. Len(sent) - 1 |-> pos[i + 1]])
  <1> DEFINE k == Len(sent)
             old == HandedAt(sent, pos)
             sent2 == Tail(sent)
             pos2 == [i \in 1 .. k - 1 |-> pos[i + 1]]
             new == HandedAt(sent2, pos2)
             rest == Tail(old)
  <1>1. /\ k \in Nat /\ k >= 1 /\ sent2 \in Seq(Reports) /\ Len(sent2) = k - 1
        /\ \A i \in 1 .. k - 1 : sent2[i] = sent[i + 1]
    OBVIOUS
  <1>2. /\ pos2 \in [1 .. k - 1 -> Nat]
        /\ \A i \in 1 .. k - 1 : pos2[i] = pos[i + 1]
    BY <1>1
  <1>3. /\ old \in Seq(Blocks) /\ Len(old) = k
        /\ \A i \in 1 .. k : old[i] = HandedBlock(sent[i], pos[i])
    BY HandedIsSeq
  <1> HIDE DEF old, sent2, pos2
  <1>4. /\ new \in Seq(Blocks) /\ Len(new) = k - 1
        /\ \A i \in 1 .. k - 1 : new[i] = HandedBlock(sent2[i], pos2[i])
    <2>1. pos2 \in [1 .. Len(sent2) -> Nat]
      BY <1>1, <1>2
    <2>2. /\ new \in Seq(Blocks) /\ Len(new) = Len(sent2)
          /\ \A i \in 1 .. Len(sent2) : new[i] = HandedBlock(sent2[i], pos2[i])
      BY <1>1, <2>1, HandedIsSeq
    <2> QED
      BY <1>1, <2>2
  <1> HIDE DEF k, new
  <1>5. /\ rest \in Seq(Blocks) /\ Len(rest) = k - 1
        /\ \A i \in 1 .. k - 1 : rest[i] = old[i + 1]
    BY <1>1, <1>3
  <1> HIDE DEF rest
  <1>6. ASSUME NEW i \in 1 .. k - 1
        PROVE  rest[i] = new[i]
    <2>1. i + 1 \in 1 .. k
      BY <1>1
    <2> QED
      BY <2>1, <1>1, <1>2, <1>3, <1>4, <1>5
  <1>7. rest = new
    BY <1>4, <1>5, <1>6
  <1> QED
    BY <1>7 DEF rest, old, new, sent2, pos2, k

\* transfer_out_next_report hands out the oldest report, whole, and moves it to
\* Sending; an empty queue is left alone.
LEMMA TransferOutContents ==
    ASSUME NEW buf, WellFormed(buf.ring), NEW q, NEW sent,
           buf = [ring |-> buf.ring, mem |-> buf.mem, handed |-> buf.handed],
           Contents(buf.mem, buf.ring, buf.handed, q, sent), q # <<>>
    PROVE  LET out == TransferOutNextReport(buf)
           IN  /\ q \in Seq(Reports)
               /\ out.buf.mem = buf.mem
               /\ out.block.len > 0
               /\ Payload(buf.mem, out.block) = Head(q)
               /\ out.buf.handed = Append(buf.handed, out.block)
               /\ Contents(buf.mem, out.buf.ring, out.buf.handed,
                           Tail(q), Append(sent, Head(q)))
  <1> DEFINE ring == buf.ring  mem == buf.mem
             out == TransferOutNextReport(buf)
             new == out.buf.ring
             b == ring.start["Queued"]
             l == BlockSize(q[1])
             block == HandedBlock(q[1], b)
  <1>1. PICK posQ, remQ : SegmentHolds(mem, ring, "Queued", q, posQ, remQ)
    BY DEF Contents
  <1>2. PICK posS, remS : /\ SegmentHolds(mem, ring, "Sending", sent, posS, remS)
                          /\ buf.handed = HandedAt(sent, posS)
    BY DEF Contents
  <1>3. /\ out.block = block
        /\ out.buf.mem = mem /\ out.buf.handed = Append(buf.handed, block)
        /\ new.size = ring.size
        /\ new.start["Queued"] = (b + l) % ring.size
        /\ new.num["Queued"] = ring.num["Queued"] - l
        /\ new.start["Sending"] = ring.start["Sending"]
        /\ new.num["Sending"] = ring.num["Sending"] + l
    BY <1>1, OldestIsTransferred
  <1> HIDE DEF out
  <1>4. /\ out.buf.mem = mem /\ out.buf.handed = Append(buf.handed, block)
    BY <1>3
  <1> HIDE DEF ring, mem, new
  <1>5. WellFormed(ring) /\ "Queued" \in RingState /\ "Sending" \in RingState
    BY DEF ring, RingState
  <1>6. /\ q \in Seq(Reports) /\ q[1] \in Reports
        /\ b \in DOMAIN mem /\ mem[b] = q[1]
        /\ l \in Nat /\ l >= 3 /\ b + l <= ring.size
    BY <1>1, <1>5, FirstBlock
  <1>7. /\ b \in Nat /\ ring.size \in Nat
        /\ ring.start["Sending"] \in Nat /\ ring.num["Sending"] \in Nat
        /\ EndOf(ring, "Sending") \in Nat
    BY <1>5, RingNumbers
  <1>8. Head(q) = q[1]
    BY <1>6
  <1>9. block.len > 0 /\ Payload(mem, block) = q[1]
    BY <1>6, ReportLenAssumption DEF Payload, HandedBlock
  <1>10. \E pos, rem : SegmentHolds(mem, new, "Queued", Tail(q), pos, rem)
    <2> HIDE DEF b
    <2>1. SegmentHolds(mem, new, "Queued", Tail(q),
                       [i \in 1 .. Len(q) - 1 |-> posQ[i + 1]],
                       [i \in 1 .. Len(q) |-> remQ[i + 1]])
      BY <1>1, <1>3, <1>5, TakeFirst DEF b
    <2> QED
      BY <2>1
  <1>11. \E pos, rem : /\ SegmentHolds(mem, new, "Sending", Append(sent, q[1]), pos, rem)
                       /\ out.buf.handed = HandedAt(Append(sent, q[1]), pos)
    <2> DEFINE e == EndOf(ring, "Sending")  num == ring.num["Sending"]
               pos2 == [i \in 1 .. Len(sent) + 1 |->
                          IF i <= Len(sent) THEN posS[i] ELSE b]
    <2>1. EndOf(new, "Sending") = e + l /\ new.num["Sending"] = num + l
      <3> DEFINE a == ring.start["Sending"]
      <3>1. /\ new.start["Sending"] = a /\ new.num["Sending"] = num + l
            /\ a \in Nat /\ num \in Nat /\ l \in Nat
        BY <1>3, <1>6, <1>7
      <3> HIDE DEF l, num, a
      <3>2. a + (num + l) = (a + num) + l
        BY <3>1
      <3>3. e = a + num
        BY DEF EndOf, a, num
      <3> QED
        BY <3>1, <3>2, <3>3 DEF EndOf
    <2>2. Holds(mem, ring.size, e, num, sent, posS, remS)
      BY <1>2 DEF SegmentHolds
    <2>3. sent \in Seq(Reports) /\ posS \in [1 .. Len(sent) -> Nat]
      BY <2>2 DEF Holds
    <2>4. Follows(ring.size, e, b)
      BY <1>5 DEF WellFormed
    <2> HIDE DEF e, num, b
    <2>5. PICK rem2 : Holds(mem, ring.size, e + l, num + l, Append(sent, q[1]), pos2, rem2)
      <3>1. e \in Nat /\ num \in Nat
        BY <1>7 DEF e, num
      <3>2. Holds(mem, ring.size, e + l, num + l, Append(sent, q[1]), pos2,
                  [i \in 1 .. Len(sent) + 2 |->
                     IF i <= Len(sent) + 1 THEN remS[i] + l ELSE 0])
        <4> DEFINE r == q[1]
        <4>1. /\ r \in Reports /\ b \in Nat /\ b \in DOMAIN mem /\ mem[b] = r
              /\ b + BlockSize(r) <= ring.size /\ ring.size \in Nat
          BY <1>6, <1>7
        <4> HIDE DEF r
        <4>2. Holds(mem, ring.size, e + BlockSize(r), num + BlockSize(r),
                    Append(sent, r), pos2,
                    [i \in 1 .. Len(sent) + 2 |->
                       IF i <= Len(sent) + 1 THEN remS[i] + BlockSize(r) ELSE 0])
          BY <2>2, <2>4, <3>1, <4>1, HoldsAppend
        <4> QED
          BY <4>2 DEF r
      <3> QED
        BY <3>2
    <2>6. SegmentHolds(mem, new, "Sending", Append(sent, q[1]), pos2, rem2)
      BY <2>1, <2>5, <1>3 DEF SegmentHolds
    <2>7. out.buf.handed = HandedAt(Append(sent, q[1]), pos2)
      <3>1. Append(HandedAt(sent, posS), HandedBlock(q[1], b))
              = HandedAt(Append(sent, q[1]), pos2)
        <4> HIDE DEF l
        <4> QED
          BY <1>6, <1>7, <2>3, HandedAppend
      <3> QED
        BY <3>1, <1>2, <1>4
    <2> QED
      BY <2>6, <2>7
  <1>12. Contents(mem, new, out.buf.handed, Tail(q), Append(sent, q[1]))
    BY <1>10, <1>11 DEF Contents
  <1> HIDE DEF block
  <1> QED
    BY <1>3, <1>4, <1>6, <1>8, <1>9, <1>12 DEF out, new, ring, mem

\* transfer_out_next_report leaves an empty queue alone.
LEMMA TransferOutNothing ==
    ASSUME NEW buf, WellFormed(buf.ring), NEW sent,
           Contents(buf.mem, buf.ring, buf.handed, <<>>, sent)
    PROVE  /\ TransferOutNextReport(buf).buf = buf
           /\ TransferOutNextReport(buf).block.len = 0
  <1>1. PICK pos, rem : SegmentHolds(buf.mem, buf.ring, "Queued", <<>>, pos, rem)
    BY DEF Contents
  <1>2. TransferOutNextReport(buf) = [buf |-> buf, block |-> [at |-> NullPtr, len |-> 0]]
    BY <1>1, NothingToTransfer
  <1> QED
    BY <1>2

\* mark_transferred with the length of the oldest report handed out releases
\* that report.
LEMMA ReleaseOldestContents ==
    ASSUME NEW buf, WellFormed(buf.ring), NEW q, NEW sent,
           Contents(buf.mem, buf.ring, buf.handed, q, sent), buf.handed # <<>>
    PROVE  LET new == MarkReportTransferred(buf, buf.handed[1].len)
           IN  /\ sent # <<>>
               /\ Contents(new.mem, new.ring, new.handed, q, Tail(sent))
  <1> DEFINE ring == buf.ring  mem == buf.mem
             l == BlockSize(sent[1])
             ring2 == MarkTransferred(ring, "Sending", "ClearToWrite", l)
  <1>1. PICK posQ, remQ : SegmentHolds(mem, ring, "Queued", q, posQ, remQ)
    BY DEF Contents
  <1>2. PICK posS, remS : /\ SegmentHolds(mem, ring, "Sending", sent, posS, remS)
                          /\ buf.handed = HandedAt(sent, posS)
    BY DEF Contents
  <1>3. sent \in Seq(Reports) /\ posS \in [1 .. Len(sent) -> Nat]
    BY <1>2 DEF SegmentHolds, Holds
  <1>4. /\ Len(buf.handed) = Len(sent) /\ buf.handed \in Seq(Blocks)
        /\ \A i \in 1 .. Len(sent) : buf.handed[i] = HandedBlock(sent[i], posS[i])
    BY <1>2, <1>3, HandedIsSeq
  <1>5. sent # <<>> /\ 1 \in 1 .. Len(sent)
    <2>1. Len(buf.handed) # 0
      BY <1>4
    <2> QED
      BY <2>1, <1>3, <1>4
  <1>6. buf.handed[1].len + HeaderSize = l
    <2>1. buf.handed[1] = HandedBlock(sent[1], posS[1])
      BY <1>4, <1>5
    <2> QED
      BY <2>1 DEF HandedBlock, BlockSize
  <1> HIDE DEF ring, mem
  <1>7. WellFormed(ring) /\ "Sending" \in RingState /\ "ClearToWrite" \in RingState
    BY DEF ring, RingState
  <1>8. l \in Nat /\ l <= ring.num["Sending"]
    BY <1>2, <1>5, <1>7, FirstBlock
  <1> HIDE DEF l
  <1>9. /\ ring2.size = ring.size
        /\ ring2.start["Sending"] = (ring.start["Sending"] + l) % ring.size
        /\ ring2.num["Sending"] = ring.num["Sending"] - l
        /\ ring2.start["Queued"] = ring.start["Queued"]
        /\ ring2.num["Queued"] = ring.num["Queued"]
    BY <1>7, <1>8, MovedRing DEF RingState
  <1> HIDE DEF ring2
  <1>10. SegmentHolds(mem, ring2, "Queued", q, posQ, remQ)
    BY <1>1, <1>9 DEF SegmentHolds, EndOf
  <1>11. SegmentHolds(mem, ring2, "Sending", Tail(sent),
                      [i \in 1 .. Len(sent) - 1 |-> posS[i + 1]],
                      [i \in 1 .. Len(sent) |-> remS[i + 1]])
    BY <1>2, <1>5, <1>7, <1>9, TakeFirst DEF l
  <1>12. Tail(buf.handed)
           = HandedAt(Tail(sent), [i \in 1 .. Len(sent) - 1 |-> posS[i + 1]])
    BY <1>2, <1>3, <1>5, HandedTail
  <1>13. Contents(mem, ring2, Tail(buf.handed), q, Tail(sent))
    BY <1>10, <1>11, <1>12 DEF Contents
  <1>14. MarkReportTransferred(buf, buf.handed[1].len)
           = [ring |-> ring2, mem |-> mem, handed |-> Tail(buf.handed)]
    BY <1>6 DEF MarkReportTransferred, ring2, ring, mem
  <1> QED
    BY <1>5, <1>13, <1>14

\* last_send_complete releases all that was handed out.
LEMMA ReleaseAllContents ==
    ASSUME NEW buf, WellFormed(buf.ring), NEW q, NEW sent,
           Contents(buf.mem, buf.ring, buf.handed, q, sent)
    PROVE  LET new == LastSendComplete(buf)
           IN  Contents(new.mem, new.ring, new.handed, q, <<>>)
  <1> DEFINE ring == buf.ring  mem == buf.mem
             n == ring.num["Sending"]
             ring2 == MarkTransferred(ring, "Sending", "ClearToWrite", n)
  <1>1. PICK posQ, remQ : SegmentHolds(mem, ring, "Queued", q, posQ, remQ)
    BY DEF Contents
  <1>2. LastSendComplete(buf) = [ring |-> ring2, mem |-> mem, handed |-> <<>>]
    BY DEF LastSendComplete
  <1> HIDE DEF ring, mem
  <1>3. WellFormed(ring) /\ "Sending" \in RingState /\ "ClearToWrite" \in RingState
    BY DEF ring, RingState
  <1>4. n \in Nat /\ n <= ring.num["Sending"] /\ n - n = 0
    BY <1>3, RingNumbers
  <1> HIDE DEF n
  <1>5. /\ ring2.size = ring.size
        /\ ring2.num["Sending"] = ring.num["Sending"] - n
        /\ ring2.start["Queued"] = ring.start["Queued"]
        /\ ring2.num["Queued"] = ring.num["Queued"]
    BY <1>3, <1>4, MovedRing DEF RingState
  <1>6. ring2.num["Sending"] = 0
    BY <1>4, <1>5 DEF n
  <1> HIDE DEF ring2
  <1>7. SegmentHolds(mem, ring2, "Queued", q, posQ, remQ)
    BY <1>1, <1>5 DEF SegmentHolds, EndOf
  <1>8. SegmentHolds(mem, ring2, "Sending", <<>>, <<>>, [i \in 1 .. 1 |-> 0])
    BY <1>6, HoldsNone DEF SegmentHolds
  <1>9. <<>> = HandedAt(<<>>, <<>>)
    BY DEF HandedAt, HandedBlock
  <1>10. Contents(mem, ring2, <<>>, q, <<>>)
    BY <1>7, <1>8, <1>9 DEF Contents
  <1> QED
    BY <1>2, <1>10

\* A new buffer holds nothing.
LEMMA EmptyContents ==
    Contents(EmptyBuffer.mem, EmptyBuffer.ring, EmptyBuffer.handed, <<>>, <<>>)
  <1> DEFINE ring == EmptyRing
  <1>1. ring.num["Queued"] = 0 /\ ring.num["Sending"] = 0
    BY DEF EmptyRing, RingState
  <1> HIDE DEF ring
  <1>2. \A s \in {"Queued", "Sending"} :
           SegmentHolds(<<>>, ring, s, <<>>, <<>>, [i \in 1 .. 1 |-> 0])
    BY <1>1, HoldsNone DEF SegmentHolds
  <1>3. <<>> = HandedAt(<<>>, <<>>)
    BY DEF HandedAt, HandedBlock
  <1>4. Contents(<<>>, ring, <<>>, <<>>, <<>>)
    BY <1>2, <1>3 DEF Contents
  <1> QED
    BY <1>4 DEF EmptyBuffer, ring
=============================================================================
