--------------------------- MODULE UsbHid_proofs ----------------------------
(***************************************************************************)
(* Theorems about UsbHid, for every buffer size, every set of reports and  *)
(* every set of batches: what the states of the device, the class and the  *)
(* endpoint say about each other, and that the reports in the queue are    *)
(* delivered to the host as ReportDelivery promises.                       *)
(***************************************************************************)
EXTENDS UsbHid, HIDReportBuffer_proofs

-----------------------------------------------------------------------------
(***************************************************************************)
(* The states of the device, of the class and of the endpoint.             *)
(***************************************************************************)
\* What a suspend saves.
OldStates == (DevStates \ {"SUSPENDED"}) \cup {"none"}

\* The device state says whether the bus is suspended, and no acknowledged
\* report is left to complete when it is.
SuspendedIsKnown ==
    /\ bus_suspended \in BOOLEAN
    /\ bus_suspended <=> dev_state = "SUSPENDED"
    /\ bus_suspended => dev_old_state # "none" /\ ep_in.phase # "Sent"

\* The inductive invariant.
IInv ==
    /\ dev_state \in DevStates
    /\ dev_old_state \in OldStates
    /\ hid_state \in {"NULL", "HID_IDLE", "HID_BUSY"}
    /\ ep_in.phase \in {"Idle", "Armed", "Loaded", "Sent"}
    /\ SuspendedIsKnown
    /\ ClassDataWhileConfigured
    /\ BusyIsOngoing

\* The four phases are what their names say.
LEMMA Phases ==
    /\ EpIdle.phase = "Idle"
    /\ \A block : EpArmed(block).phase = "Armed"
    /\ \A r : EpLoaded(r).phase = "Loaded"
    /\ \A r : EpSent(r).phase = "Sent"
  BY DEF EpIdle, EpArmed, EpLoaded, EpSent

\* Sending leaves the class busy exactly when the endpoint has a report, if the
\* caller's state is right, and it neither creates nor removes the class data.
LEMMA SendKeepsStep ==
    ASSUME NEW buf, NEW state \in {"NULL", "HID_IDLE", "HID_BUSY"}, NEW ep,
           ep.phase \in {"Idle", "Armed", "Loaded", "Sent"},
           state = "HID_BUSY" <=> ep.phase # "Idle",
           SendNextReport(buf, state, ep)
    PROVE  /\ hid_state' \in {"NULL", "HID_IDLE", "HID_BUSY"}
           /\ ep_in'.phase \in {"Idle", "Armed", "Loaded", "Sent"}
           /\ hid_state' = "HID_BUSY" <=> ep_in'.phase # "Idle"
           /\ hid_state' = "NULL" <=> state = "NULL"
           /\ ep_in'.phase = "Sent" => ep.phase = "Sent"
  <1>1. CASE hid_state' = state /\ ep_in' = ep
    BY <1>1
  <1> DEFINE block == TransferOutNextReport(buf).block
  <1>2. CASE MaySend(state) /\ hid_state' = "HID_BUSY" /\ ep_in' = EpArmed(block)
    <2>1. state = "HID_IDLE"
      BY <1>2 DEF MaySend
    <2>2. ep_in'.phase = "Armed"
      BY <1>2, Phases
    <2> QED
      BY <1>2, <2>1, <2>2
  <1>3. QED
    BY <1>1, <1>2 DEF SendNextReport

\* A device that was just initialized satisfies it.
LEMMA InitIInv == Init => IInv
  BY Phases DEF Init, IInv, OldStates, DevStates, SuspendedIsKnown,
                ClassDataWhileConfigured, BusyIsOngoing, Up

\* Every handler, and the host's poll, preserves the invariant.
LEMMA NextIInv == IInv /\ [Next]_vars => IInv'
  <1> USE DEF OldStates, DevStates
  <1> SUFFICES ASSUME IInv, [Next]_vars PROVE IInv'
    OBVIOUS
  <1>1. ASSUME NEW batch \in Batches, PollIntervalTimer(batch)
        PROVE  IInv'
    <2>1. SendNextReport(AllocateAll(hid_report_buf, batch), hid_state, ep_in)
      BY <1>1 DEF PollIntervalTimer
    <2>2. UNCHANGED <<dev_state, dev_old_state, bus_suspended>>
      BY <1>1 DEF PollIntervalTimer
    <2>3. /\ hid_state' \in {"NULL", "HID_IDLE", "HID_BUSY"}
          /\ ep_in'.phase \in {"Idle", "Armed", "Loaded", "Sent"}
          /\ hid_state' = "HID_BUSY" <=> ep_in'.phase # "Idle"
          /\ hid_state' = "NULL" <=> hid_state = "NULL"
          /\ ep_in'.phase = "Sent" => ep_in.phase = "Sent"
      BY <2>1, SendKeepsStep DEF IInv, BusyIsOngoing
    <2> QED
      BY <2>2, <2>3 DEF IInv, SuspendedIsKnown, ClassDataWhileConfigured,
                        BusyIsOngoing, Up
  <1>2. CASE WriteEmptyTxFifo
    <2>1. ep_in'.phase = "Loaded"
      BY <1>2, Phases DEF WriteEmptyTxFifo
    <2> QED
      BY <1>2, <2>1 DEF IInv, WriteEmptyTxFifo, SuspendedIsKnown,
                        ClassDataWhileConfigured, BusyIsOngoing, Up
  <1>3. CASE HostPoll
    <2>1. ep_in'.phase = "Sent"
      BY <1>3, Phases DEF HostPoll
    <2> QED
      BY <1>3, <2>1 DEF IInv, HostPoll, SuspendedIsKnown,
                        ClassDataWhileConfigured, BusyIsOngoing, Up
  <1>4. CASE DataIn
    \* The report was acknowledged, so that the device is still configured.
    <2>1. dev_state = "CONFIGURED" /\ hid_state # "NULL"
      BY <1>4 DEF DataIn, IInv, SuspendedIsKnown, ClassDataWhileConfigured,
                  BusyIsOngoing, Up
    <2>2. SendNextReport(ReleaseSent(hid_report_buf), "HID_IDLE", EpIdle)
      BY <1>4, <2>1 DEF DataIn
    <2>3. UNCHANGED <<dev_state, dev_old_state, bus_suspended>>
      BY <1>4 DEF DataIn
    <2>4. /\ hid_state' \in {"NULL", "HID_IDLE", "HID_BUSY"}
          /\ ep_in'.phase \in {"Idle", "Armed", "Loaded", "Sent"}
          /\ hid_state' = "HID_BUSY" <=> ep_in'.phase # "Idle"
          /\ hid_state' # "NULL"
      BY <2>2, SendKeepsStep, Phases
    <2> QED
      BY <2>1, <2>3, <2>4 DEF IInv, SuspendedIsKnown, ClassDataWhileConfigured,
                              BusyIsOngoing, Up
  <1>5. CASE Reset
    <2>1. hid_state' = "NULL" /\ ep_in'.phase = "Idle"
      BY <1>5, Phases DEF Reset, ClassDeInit, IInv, BusyIsOngoing
    <2> QED
      BY <1>5, <2>1 DEF IInv, Reset, SuspendedIsKnown, ClassDataWhileConfigured,
                        BusyIsOngoing, Up
  <1>6. CASE Suspend
    BY <1>6 DEF IInv, Suspend, SuspendedIsKnown, ClassDataWhileConfigured,
                BusyIsOngoing, Up
  <1>7. CASE Resume
    BY <1>7 DEF IInv, Resume, RestoredState, SuspendedIsKnown,
                ClassDataWhileConfigured, BusyIsOngoing, Up
  <1>8. CASE SetAddress
    BY <1>8 DEF IInv, SetAddress, SuspendedIsKnown, ClassDataWhileConfigured,
                BusyIsOngoing, Up
  <1>9. CASE SetConfig
    BY <1>9 DEF IInv, SetConfig, ClassInit, SuspendedIsKnown,
                ClassDataWhileConfigured, BusyIsOngoing, Up
  <1>10. CASE ClearConfig
    <2>1. hid_state' = "NULL" /\ ep_in'.phase = "Idle"
      BY <1>10, Phases DEF ClearConfig, ClassDeInit
    <2> QED
      BY <1>10, <2>1 DEF IInv, ClearConfig, SuspendedIsKnown,
                         ClassDataWhileConfigured, BusyIsOngoing, Up
  <1>11. CASE UNCHANGED vars
    BY <1>11 DEF IInv, vars, SuspendedIsKnown, ClassDataWhileConfigured,
                 BusyIsOngoing, Up
  <1> QED
    BY <1>1, <1>2, <1>3, <1>4, <1>5, <1>6, <1>7, <1>8, <1>9, <1>10, <1>11
       DEF Next, AnyPollIntervalTimer

\* So that it holds in every behaviour.
LEMMA SpecIInv == Spec => []IInv
  BY InitIInv, NextIInv, PTL DEF Spec

\* The class data exists exactly while the device is configured, so that no
\* handler follows a null pClassData, whatever the order of resets, suspends,
\* wake-ups and configurations.
THEOREM ClassDataIsThere == Spec => []ClassDataWhileConfigured
  <1>1. IInv => ClassDataWhileConfigured
    BY DEF IInv
  <1> QED
    BY <1>1, SpecIInv, PTL

\* The class driver waits for a completion exactly while one can come, and
\* never starts a transmission over another one.
THEOREM BusyMatchesEndpoint == Spec => []BusyIsOngoing
  <1>1. IInv => BusyIsOngoing
    BY DEF IInv
  <1> QED
    BY <1>1, SpecIInv, PTL

\* The count of the timer's interrupts is kept by PollIntervalTimer alone.
LEMMA CountStays ==
    ASSUME tim9_count \in 0 .. 1, [Next]_vars
    PROVE  tim9_count' \in 0 .. 1
  <1>1. CASE AnyPollIntervalTimer
    <2>1. tim9_count' = (tim9_count + 1) % 2
      BY <1>1 DEF AnyPollIntervalTimer, PollIntervalTimer
    <2>2. tim9_count \in Int
      OBVIOUS
    <2> QED
      BY <2>1, <2>2, SMT
  <1>2. CASE ~AnyPollIntervalTimer
    BY <1>2 DEF Next, vars, WriteEmptyTxFifo, HostPoll, DataIn, Reset, Suspend,
                Resume, SetAddress, SetConfig, ClearConfig
  <1> QED
    BY <1>1, <1>2

\* The device, class and endpoint states keep their types, whatever the size of
\* the buffer and the reports: in particular a suspend never saves SUSPENDED as
\* the state to return to, so that a wake-up leaves it.
THEOREM TypeCorrect == Spec => []TypeOK
  <1>1. Spec => []IInv
    BY SpecIInv
  <1>2. Init => tim9_count \in 0 .. 1
    BY DEF Init
  <1>3. tim9_count \in 0 .. 1 /\ [Next]_vars => (tim9_count \in 0 .. 1)'
    BY CountStays
  <1>4. IInv /\ tim9_count \in 0 .. 1 => TypeOK
    BY DEF IInv, SuspendedIsKnown, OldStates, TypeOK
  <1> QED
    BY <1>1, <1>2, <1>3, <1>4, PTL DEF Spec

-----------------------------------------------------------------------------
(***************************************************************************)
(* The reports of a batch, added one by one.                               *)
(***************************************************************************)
\* The buffers after 0, 1, ... n reports of a batch.
IsAfter(f, buf, batch, n) ==
    f = [i \in 0 .. n |-> IF i = 0 THEN buf
                          ELSE AllocateSpaceForReport(f[i - 1], batch[i]).buf]

\* There is such a function, for any number of reports: otherwise there would be
\* a least number without one.
LEMMA AfterExists ==
    ASSUME NEW buf, NEW batch, NEW N \in Nat
    PROVE  \E f : IsAfter(f, buf, batch, N)
  <1> DEFINE Bad == {M \in Nat : ~ \E f : IsAfter(f, buf, batch, M)}
  <1> SUFFICES ASSUME Bad # {} PROVE FALSE
    OBVIOUS
  <1>1. PICK m \in Bad : \A i \in Bad : m <= i
    <2>1. Bad \in SUBSET Nat
      OBVIOUS
    <2> HIDE DEF Bad
    <2> QED
      BY <2>1, LeastExists
  <1>2. m \in Nat /\ ~ \E f : IsAfter(f, buf, batch, m)
    OBVIOUS
  <1>3. CASE m = 0
    <2> DEFINE g == [i \in 0 .. 0 |-> buf]
    <2>1. IsAfter(g, buf, batch, 0)
      BY DEF IsAfter
    <2> QED
      BY <2>1, <1>2, <1>3
  <1>4. CASE m # 0
    <2>1. m - 1 \in Nat /\ ~(m <= m - 1)
      BY <1>2, <1>4
    <2>2. m - 1 \notin Bad
      BY <2>1, <1>1
    <2>3. PICK f : IsAfter(f, buf, batch, m - 1)
      BY <2>1, <2>2
    <2> DEFINE step(h, i) == AllocateSpaceForReport(h[i - 1], batch[i]).buf
               g == [i \in 0 .. m |-> IF i = 0 THEN buf ELSE step(f, i)]
    <2> HIDE DEF Bad
    <2>4. \A i \in 0 .. m - 1 : f[i] = IF i = 0 THEN buf ELSE step(f, i)
      BY <2>3 DEF IsAfter
    <2>5. ASSUME NEW i \in 0 .. m - 1 PROVE g[i] = f[i]
      <3>1. i \in 0 .. m
        BY <1>2
      <3>2. g[i] = IF i = 0 THEN buf ELSE step(f, i)
        BY <3>1
      <3> HIDE DEF g, step
      <3> QED
        BY <3>2, <2>4
    <2>6. ASSUME NEW i \in 0 .. m
          PROVE  g[i] = IF i = 0 THEN buf ELSE step(g, i)
      <3>1. CASE i = 0
        BY <3>1
      <3>2. CASE i # 0
        <4>1. i - 1 \in 0 .. m - 1
          BY <3>2, <1>2
        <4>2. g[i - 1] = f[i - 1]
          BY <4>1, <2>5
        <4>3. g[i] = step(f, i)
          BY <3>2
        <4> HIDE DEF g
        <4> QED
          BY <4>2, <4>3, <3>2
      <3> QED
        BY <3>1, <3>2
    <2>7. IsAfter(g, buf, batch, m)
      BY <2>6 DEF IsAfter
    <2> QED
      BY <2>7, <1>2
  <1> QED
    BY <1>3, <1>4

\* b2 is buf with at most n more reports at the end of the queue.
Added(buf, b2, q, sent, n) ==
    \E new \in Seq(Reports) :
       /\ Len(new) <= n
       /\ Good(b2) /\ b2.handed = buf.handed
       /\ Contents(b2.mem, b2.ring, b2.handed, q \o new, sent)

\* One more report of a batch.
LEMMA AddOne ==
    ASSUME NEW buf, NEW b, NEW q \in Seq(Reports), NEW sent, NEW n \in Nat,
           Added(buf, b, q, sent, n), NEW r \in Reports
    PROVE  Added(buf, AllocateSpaceForReport(b, r).buf, q, sent, n + 1)
  <1>1. PICK new \in Seq(Reports) :
           /\ Len(new) <= n
           /\ Good(b) /\ b.handed = buf.handed
           /\ Contents(b.mem, b.ring, b.handed, q \o new, sent)
    BY DEF Added
  <1> DEFINE out == AllocateSpaceForReport(b, r)
             q1 == q \o new
             new2 == IF out.ok THEN Append(new, r) ELSE new
  <1>2. /\ WellFormed(b.ring)
        /\ b = [ring |-> b.ring, mem |-> b.mem, handed |-> b.handed]
    BY <1>1 DEF Good, IsBuffer
  <1>3. Contents(out.buf.mem, out.buf.ring, out.buf.handed,
                 IF out.ok THEN Append(q1, r) ELSE q1, sent)
    <2> HIDE DEF q1
    <2>1. Contents(b.mem, b.ring, b.handed, q1, sent)
      BY <1>1 DEF q1
    <2> QED
      BY <1>2, <2>1, AllocateContents
  <1>4. Append(q1, r) = q \o Append(new, r)
    BY <1>1
  <1>5. (IF out.ok THEN Append(q1, r) ELSE q1) = q \o new2
    BY <1>4
  <1>6. new2 \in Seq(Reports) /\ Len(new2) <= n + 1
    BY <1>1
  <1>7. out.buf.handed = b.handed
    BY <1>2 DEF AllocateSpaceForReport
  <1>8. Good(out.buf)
    BY <1>1, AllocateGood
  <1> HIDE DEF out, q1, new2
  <1>9. Contents(out.buf.mem, out.buf.ring, out.buf.handed, q \o new2, sent)
    BY <1>3, <1>5
  <1>10. out.buf.handed = buf.handed
    BY <1>1, <1>7
  <1> QED
    BY <1>6, <1>8, <1>9, <1>10 DEF Added, out

\* What the poll interval timer adds: the reports of the batch that fit.
LEMMA AllocateAllAdds ==
    ASSUME NEW buf, Good(buf), NEW q \in Seq(Reports), NEW sent,
           Contents(buf.mem, buf.ring, buf.handed, q, sent),
           NEW batch \in Seq(Reports)
    PROVE  Added(buf, AllocateAll(buf, batch), q, sent, Len(batch))
  <1> DEFINE N == Len(batch)
             after == CHOOSE f : IsAfter(f, buf, batch, N)
             Bad == {n \in 0 .. N : ~ Added(buf, after[n], q, sent, n)}
  <1>1. N \in Nat
    OBVIOUS
  <1>2. IsAfter(after, buf, batch, N)
    BY <1>1, AfterExists
  <1>3. AllocateAll(buf, batch) = after[N]
    BY DEF AllocateAll, IsAfter
  <1> HIDE DEF after
  <1>4. \A i \in 0 .. N : after[i] = IF i = 0 THEN buf
                   ELSE AllocateSpaceForReport(after[i - 1], batch[i]).buf
    BY <1>2 DEF IsAfter
  <1> SUFFICES ASSUME Bad # {} PROVE FALSE
    <2>1. N \in 0 .. N
      BY <1>1
    <2> QED
      BY <2>1, <1>3
  <1>5. PICK m \in Bad : \A i \in Bad : m <= i
    <2>1. Bad \in SUBSET Nat
      BY <1>1
    <2> HIDE DEF Bad
    <2> QED
      BY <2>1, LeastExists
  <1>6. m \in 0 .. N /\ m \in Nat /\ ~ Added(buf, after[m], q, sent, m)
    BY <1>1
  <1>7. CASE m = 0
    <2>1. after[0] = buf
      BY <1>4, <1>6, <1>7
    <2>2. Added(buf, buf, q, sent, 0)
      <3>1. q \o <<>> = q /\ <<>> \in Seq(Reports) /\ Len(<<>>) <= 0
        OBVIOUS
      <3>2. Contents(buf.mem, buf.ring, buf.handed, q \o <<>>, sent)
        BY <3>1
      <3> QED
        BY <3>1, <3>2 DEF Added
    <2> QED
      BY <2>1, <2>2, <1>6, <1>7
  <1>8. CASE m # 0
    <2>1. m - 1 \in 0 .. N /\ m - 1 \in Nat /\ ~(m <= m - 1) /\ m \in 1 .. N
          /\ (m - 1) + 1 = m
      BY <1>6, <1>8, <1>1
    <2>2. m - 1 \notin Bad
      <3> HIDE DEF Bad
      <3> QED
        BY <2>1, <1>5
    <2>3. Added(buf, after[m - 1], q, sent, m - 1)
      BY <2>1, <2>2
    <2>4. batch[m] \in Reports
      BY <2>1
    <2> DEFINE b == after[m - 1]  r == batch[m]
    <2>5. after[m] = AllocateSpaceForReport(b, r).buf
      BY <1>4, <1>6, <1>8
    <2> HIDE DEF b, r, Bad
    <2>6. Added(buf, AllocateSpaceForReport(b, r).buf, q, sent, (m - 1) + 1)
      BY <2>1, <2>3, <2>4, AddOne DEF b, r
    <2> QED
      BY <2>1, <2>5, <2>6, <1>6
  <1> QED
    BY <1>7, <1>8

-----------------------------------------------------------------------------
(***************************************************************************)
(* The reports in the buffer and the one that is armed.                    *)
(***************************************************************************)
\* The buffer holds the reports q in Queued, and in Sending the reports sent.
Held(buf, q, sent) ==
    /\ Good(buf)
    /\ Contents(buf.mem, buf.ring, buf.handed, q, sent)

\* A report that is armed is the one handed out last.
ReadsLast(buf, ep) ==
    ep.phase = "Armed" => /\ buf.handed # <<>>
                          /\ ep.block = buf.handed[Len(buf.handed)]

\* The part of the inductive invariant about the reports.
ReportsInv ==
    /\ \E q, sent : Held(hid_report_buf, q, sent)
    /\ ReadsLast(hid_report_buf, ep_in)

\* What is held is what a reader finds.
LEMMA HeldRead ==
    ASSUME NEW buf, NEW q, NEW sent, Held(buf, q, sent)
    PROVE  ReadAs(buf, q, sent) /\ q \in Seq(Reports)
  <1>1. WellFormed(buf.ring) /\ AllReports(buf.mem)
    BY DEF Held, Good, IsBuffer, AllReports
  <1>2. ReadAs(buf, q, sent)
    BY <1>1, ContentsRead DEF Held
  <1> QED
    BY <1>2 DEF ReadAs

\* What the endpoint would read for a report that is armed.
LEMMA LastIsRead ==
    ASSUME NEW buf, NEW q, NEW sent, Held(buf, q, sent),
           NEW ep, ep.phase = "Armed", ReadsLast(buf, ep)
    PROVE  Payload(buf.mem, ep.block) = sent[Len(buf.handed)]
  <1> DEFINE n == Len(buf.handed)
             h == buf.handed
  <1>1. h \in Seq(Blocks)
    BY DEF Held, Good, IsBuffer
  <1>2. h # <<>> /\ ep.block = h[n]
    BY DEF ReadsLast
  <1> HIDE DEF h
  <1>3. n \in DOMAIN h
    BY <1>1, <1>2 DEF h
  <1>4. [i \in DOMAIN h |-> Payload(buf.mem, h[i])] = sent
    BY HeldRead DEF ReadAs, h
  <1> HIDE DEF n
  <1> QED
    BY <1>2, <1>3, <1>4 DEF n

\* The poll interval timer adds reports at the end of the queue; what the
\* endpoint would read stays as it is.
LEMMA BatchIsQueued ==
    ASSUME NEW buf, NEW q, NEW sent, Held(buf, q, sent), NEW ep, ReadsLast(buf, ep),
           NEW batch \in Batches
    PROVE  LET buf2 == AllocateAll(buf, batch)
           IN  /\ \E new \in Seq(Reports) :
                     Len(new) <= MaxBatch /\ Held(buf2, q \o new, sent)
               /\ ReadsLast(buf2, ep)
               /\ ep.phase = "Armed" =>
                     Payload(buf2.mem, ep.block) = Payload(buf.mem, ep.block)
  <1> DEFINE buf2 == AllocateAll(buf, batch)
  <1>1. batch \in Seq(Reports) /\ Len(batch) <= MaxBatch /\ MaxBatch \in Nat
    BY BatchesAssumption
  <1>2. q \in Seq(Reports)
    BY HeldRead
  <1>3. Added(buf, buf2, q, sent, Len(batch))
    BY <1>1, <1>2, AllocateAllAdds DEF Held
  <1> HIDE DEF buf2
  <1>4. PICK new \in Seq(Reports) :
           /\ Len(new) <= Len(batch)
           /\ buf2.handed = buf.handed
           /\ Held(buf2, q \o new, sent)
    BY <1>3 DEF Added, Held
  <1>5. Len(new) <= MaxBatch
    BY <1>1, <1>4
  <1>6. ReadsLast(buf2, ep)
    BY <1>4 DEF ReadsLast
  <1>7. ASSUME ep.phase = "Armed"
        PROVE  Payload(buf2.mem, ep.block) = Payload(buf.mem, ep.block)
    <2>1. Payload(buf.mem, ep.block) = sent[Len(buf.handed)]
      BY <1>7, LastIsRead
    <2>2. Payload(buf2.mem, ep.block) = sent[Len(buf2.handed)]
      BY <1>4, <1>6, <1>7, LastIsRead
    <2> QED
      BY <2>1, <2>2, <1>4
  <1> QED
    BY <1>4, <1>5, <1>6, <1>7 DEF buf2

\* Sending leaves buffer and endpoint alone, or arms the endpoint with the oldest
\* report of the queue.
Sends(buf, q, state, ep, buf2, ep2) ==
    \/ buf2 = buf /\ ep2 = ep
    \/ /\ MaySend(state) /\ q # <<>>
       /\ ep2.phase = "Armed" /\ ReadsLast(buf2, ep2)
       /\ Payload(buf2.mem, ep2.block) = Head(q)
       /\ \E sent2 : Held(buf2, Tail(q), sent2)

\* USB_HID_Send_Next_Report does so, whatever its caller left.
LEMMA SendMoves ==
    ASSUME NEW buf, NEW q, NEW sent, Held(buf, q, sent), NEW state, NEW ep,
           SendNextReport(buf, state, ep)
    PROVE  Sends(buf, q, state, ep, hid_report_buf', ep_in')
  <1> DEFINE out == TransferOutNextReport(buf)
  <1>1. CASE ~MaySend(state)
    BY <1>1 DEF SendNextReport, Sends
  <1>2. /\ WellFormed(buf.ring) /\ Good(buf)
        /\ buf = [ring |-> buf.ring, mem |-> buf.mem, handed |-> buf.handed]
        /\ Contents(buf.mem, buf.ring, buf.handed, q, sent)
        /\ buf.handed \in Seq(Blocks)
    BY DEF Held, Good, IsBuffer
  <1>3. CASE MaySend(state) /\ q = <<>>
    <2>1. out.buf = buf /\ out.block.len = 0
      BY <1>2, <1>3, TransferOutNothing
    <2>2. hid_report_buf' = out.buf /\ ep_in' = ep
      BY <1>3, <2>1 DEF SendNextReport
    <2> QED
      BY <2>1, <2>2 DEF Sends
  <1>4. CASE MaySend(state) /\ q # <<>>
    <2>1. /\ q \in Seq(Reports)
          /\ out.buf.mem = buf.mem
          /\ out.block.len > 0
          /\ Payload(buf.mem, out.block) = Head(q)
          /\ out.buf.handed = Append(buf.handed, out.block)
          /\ Contents(buf.mem, out.buf.ring, out.buf.handed,
                      Tail(q), Append(sent, Head(q)))
      BY <1>2, <1>4, TransferOutContents
    <2>2. hid_report_buf' = out.buf /\ ep_in' = EpArmed(out.block)
      BY <1>4, <2>1 DEF SendNextReport
    <2>3. Good(out.buf)
      BY <1>2, TransferOutGood
    <2>4. /\ out.buf.handed # <<>>
          /\ out.buf.handed[Len(out.buf.handed)] = out.block
      <3> DEFINE h == buf.handed  block == out.block  h2 == out.buf.handed
      <3>1. h \in Seq(Blocks) /\ h2 = Append(h, block)
        BY <1>2, <2>1
      <3> HIDE DEF h, block, h2
      <3>2. h2 # <<>> /\ h2[Len(h2)] = block
        BY <3>1
      <3> QED
        BY <3>2 DEF h2, block
    <2> HIDE DEF out
    <2>5. Held(out.buf, Tail(q), Append(sent, Head(q)))
      BY <2>1, <2>3 DEF Held
    <2>6. ep_in'.phase = "Armed" /\ ep_in'.block = out.block
      BY <2>2 DEF EpArmed
    <2>7. ReadsLast(hid_report_buf', ep_in')
      BY <2>2, <2>4, <2>6 DEF ReadsLast
    <2>8. Payload(hid_report_buf'.mem, ep_in'.block) = Head(q)
      BY <2>1, <2>2, <2>6
    <2> QED
      BY <1>4, <2>2, <2>5, <2>6, <2>7, <2>8 DEF Sends
  <1> QED
    BY <1>1, <1>3, <1>4

\* DataIn releases what was handed out.
LEMMA ReleasedIsHeld ==
    ASSUME NEW buf, NEW q, NEW sent, Held(buf, q, sent)
    PROVE  Held(ReleaseSent(buf), q, <<>>)
  <1> DEFINE new == LastSendComplete(buf)
  <1>1. WellFormed(buf.ring)
    BY DEF Held, Good
  <1>2. Contents(new.mem, new.ring, new.handed, q, <<>>)
    BY <1>1, ReleaseAllContents DEF Held
  <1>3. Good(new)
    <2>1. buf.ring.num["Sending"] \in Nat
      BY <1>1, RingNumbers DEF RingState
    <2>2. <<>> \in Seq(Blocks)
      OBVIOUS
    <2> QED
      BY <2>1, <2>2, ReleaseGood DEF LastSendComplete, Held
  <1> QED
    BY <1>2, <1>3 DEF Held, ReleaseSent

-----------------------------------------------------------------------------
(***************************************************************************)
(* The refinement mapping to ReportDelivery.                               *)
(***************************************************************************)
\* The refinement mapping, named: what waits, and what is on the wire when the
\* endpoint ep reads from the buffer buf.
Waiting == ReportsIn(hid_report_buf, "Queued")

WireOf(buf, ep) == CASE ep.phase = "Idle"  -> <<>>
                     [] ep.phase = "Armed" -> <<Payload(buf.mem, ep.block)>>
                     [] OTHER -> <<ep.report>>

Acked == ep_in.phase = "Sent"

\* WireOf is the wire of the mapping, before and after a step.
LEMMA WireIs == Wire = WireOf(hid_report_buf, ep_in)
  BY DEF Wire, WireOf

\* The same after a step.
LEMMA WireIsPrimed == Wire' = WireOf(hid_report_buf', ep_in')
  BY DEF Wire, WireOf

\* USB_HID_Send_Next_Report feeds the wire, if the caller leaves it free whenever
\* the class may send.
LEMMA SendFeeds ==
    ASSUME NEW buf, NEW q, NEW sent, Held(buf, q, sent),
           NEW state, NEW ep, ReadsLast(buf, ep),
           MaySend(state) => WireOf(buf, ep) = <<>>,
           SendNextReport(buf, state, ep)
    PROVE  /\ ReportsInv'
           /\ \/ Waiting' = q /\ Wire' = WireOf(buf, ep) /\ ep_in' = ep
              \/ /\ MaySend(state) /\ WireOf(buf, ep) = <<>> /\ q # <<>>
                 /\ Wire' = <<Head(q)>> /\ Waiting' = Tail(q)
                 /\ ep_in'.phase = "Armed"
  <1>1. Sends(buf, q, state, ep, hid_report_buf', ep_in')
    BY SendMoves
  <1>2. CASE hid_report_buf' = buf /\ ep_in' = ep
    <2>1. ReportsInv'
      BY <1>2 DEF ReportsInv
    <2>2. Waiting' = q
      BY <1>2, HeldRead DEF ReadAs, Waiting
    <2>3. Wire' = WireOf(buf, ep)
      BY <1>2, WireIsPrimed
    <2> QED
      BY <1>2, <2>1, <2>2, <2>3
  <1>3. CASE /\ MaySend(state) /\ q # <<>>
             /\ ep_in'.phase = "Armed" /\ ReadsLast(hid_report_buf', ep_in')
             /\ Payload(hid_report_buf'.mem, ep_in'.block) = Head(q)
             /\ \E sent2 : Held(hid_report_buf', Tail(q), sent2)
    <2>1. ReportsInv'
      BY <1>3 DEF ReportsInv
    <2>2. Waiting' = Tail(q)
      <3>1. PICK sent2 : Held(hid_report_buf', Tail(q), sent2)
        BY <1>3
      <3>2. ReadAs(hid_report_buf', Tail(q), sent2)
        BY <3>1, HeldRead
      <3> QED
        BY <3>2 DEF ReadAs, Waiting
    <2>3. Wire' = <<Head(q)>>
      <3>1. ep_in'.phase # "Idle"
        BY <1>3
      <3> QED
        BY <1>3, <3>1, WireIsPrimed DEF WireOf
    <2> QED
      BY <1>3, <2>1, <2>2, <2>3
  <1> QED
    BY <1>1, <1>2, <1>3 DEF Sends

\* The steps of ReportDelivery, in the names of the refinement mapping.
Feeds(q, busy) ==
    \/ Waiting' = q /\ Wire' = busy
    \/ /\ Up /\ busy = <<>> /\ q # <<>>
       /\ Wire' = <<Head(q)>> /\ Waiting' = Tail(q)

Delivers ==
    \/ /\ \E new \in Seq(Reports) : Len(new) <= MaxBatch /\ Feeds(Waiting \o new, Wire)
       /\ Acked' = Acked /\ Up' = Up
    \/ /\ Up /\ Wire # <<>> /\ ~Acked /\ Acked'
       /\ Waiting' = Waiting /\ Wire' = Wire /\ Up' = Up
    \/ /\ Acked /\ ~Acked' /\ Feeds(Waiting, <<>>) /\ Up' = Up
    \/ /\ ~Up /\ Up'
       /\ Waiting' = Waiting /\ Wire' = Wire /\ Acked' = Acked
    \/ /\ Up /\ ~Up' /\ Wire' = <<>> /\ ~Acked' /\ Waiting' = Waiting
    \/ /\ Waiting' = Waiting /\ Wire' = Wire /\ Acked' = Acked /\ Up' = Up

\* These are the steps of ReportDelivery and its stuttering steps.
LEMMA DeliversIsStep == Delivers => [Delivery!Next]_(Delivery!vars)
  <1> SUFFICES ASSUME Delivers PROVE [Delivery!Next]_(Delivery!vars)
    OBVIOUS
  <1> USE DEF Waiting, Acked
  <1>1. ASSUME NEW q, NEW busy, Feeds(q, busy) PROVE Delivery!Feed(q, busy)
    BY <1>1 DEF Feeds, Delivery!Feed
  <1>2. ASSUME NEW new \in Seq(Reports), Len(new) <= MaxBatch,
               Feeds(Waiting \o new, Wire), Acked' = Acked, Up' = Up
        PROVE  Delivery!Poll
    <2>1. Delivery!Feed(Waiting \o new, Wire)
      BY <1>1, <1>2
    <2>2. Len(new) \in 0 .. MaxBatch /\ new \in Delivery!TupleOf(Reports, Len(new))
      BY <1>2, BatchesAssumption DEF Delivery!TupleOf
    <2> QED
      BY <1>2, <2>1, <2>2 DEF Delivery!Poll
  <1>3. CASE /\ Up /\ Wire # <<>> /\ ~Acked /\ Acked'
             /\ Waiting' = Waiting /\ Wire' = Wire /\ Up' = Up
    <2>1. Delivery!HostAck
      BY <1>3 DEF Delivery!HostAck
    <2> QED
      BY <2>1 DEF Delivery!Next
  <1>4. CASE Acked /\ ~Acked' /\ Feeds(Waiting, <<>>) /\ Up' = Up
    <2>1. Delivery!Complete
      BY <1>1, <1>4 DEF Delivery!Complete
    <2> QED
      BY <2>1 DEF Delivery!Next
  <1>5. CASE /\ ~Up /\ Up'
             /\ Waiting' = Waiting /\ Wire' = Wire /\ Acked' = Acked
    <2>1. Delivery!Configure
      BY <1>5 DEF Delivery!Configure
    <2> QED
      BY <2>1 DEF Delivery!Next
  <1>6. CASE /\ Up /\ ~Up' /\ Wire' = <<>> /\ ~Acked' /\ Waiting' = Waiting
    <2>1. Delivery!Deconfigure
      BY <1>6 DEF Delivery!Deconfigure
    <2> QED
      BY <2>1 DEF Delivery!Next
  <1>7. CASE Waiting' = Waiting /\ Wire' = Wire /\ Acked' = Acked /\ Up' = Up
    BY <1>7 DEF Delivery!vars
  <1> QED
    BY <1>2, <1>3, <1>4, <1>5, <1>6, <1>7 DEF Delivers, Delivery!Next

-----------------------------------------------------------------------------
(***************************************************************************)
(* Every handler is a step of ReportDelivery.                              *)
(***************************************************************************)
\* A step that leaves the buffer and the endpoint alone.
LEMMA NothingMoves ==
    ASSUME ReportsInv, UNCHANGED <<hid_report_buf, ep_in>>
    PROVE  /\ ReportsInv'
           /\ Waiting' = Waiting /\ Wire' = Wire /\ Acked' = Acked
  BY DEF ReportsInv, Waiting, Wire, Acked

\* Sending needs a free endpoint.
LEMMA WireIsFree ==
    ASSUME IInv, MaySend(hid_state)
    PROVE  Up /\ ep_in.phase = "Idle"
  BY DEF IInv, MaySend, BusyIsOngoing, Up

\* The poll interval timer adds a batch to the queue and may feed the wire.
LEMMA PollDelivers ==
    ASSUME NEW batch \in Batches, IInv, ReportsInv, PollIntervalTimer(batch)
    PROVE  ReportsInv' /\ Delivers
  <1> DEFINE buf == AllocateAll(hid_report_buf, batch)
  <1>1. /\ SendNextReport(buf, hid_state, ep_in)
        /\ UNCHANGED <<dev_state, dev_old_state, bus_suspended>>
    BY DEF PollIntervalTimer
  <1>2. PICK q, sent : Held(hid_report_buf, q, sent)
    BY DEF ReportsInv
  <1>3. /\ \E new \in Seq(Reports) :
              Len(new) <= MaxBatch /\ Held(buf, q \o new, sent)
        /\ ReadsLast(buf, ep_in)
        /\ ep_in.phase = "Armed" =>
              Payload(buf.mem, ep_in.block) = Payload(hid_report_buf.mem, ep_in.block)
    BY <1>2, BatchIsQueued DEF ReportsInv
  <1>4. PICK new \in Seq(Reports) :
           Len(new) <= MaxBatch /\ Held(buf, q \o new, sent)
    BY <1>3
  <1>5. Waiting = q
    BY <1>2, HeldRead DEF ReadAs, Waiting
  <1> HIDE DEF buf
  <1>6. WireOf(buf, ep_in) = Wire
    BY <1>3, WireIs DEF WireOf
  <1>7. MaySend(hid_state) => /\ WireOf(buf, ep_in) = <<>>
                              /\ Up /\ ep_in.phase = "Idle"
    BY WireIsFree DEF WireOf
  <1> DEFINE all == q \o new
  <1> HIDE DEF all
  <1>8. Held(buf, all, sent)
    BY <1>4 DEF all
  <1>9. /\ ReportsInv'
        /\ \/ Waiting' = all /\ Wire' = WireOf(buf, ep_in) /\ ep_in' = ep_in
           \/ /\ MaySend(hid_state) /\ WireOf(buf, ep_in) = <<>> /\ all # <<>>
              /\ Wire' = <<Head(all)>> /\ Waiting' = Tail(all)
              /\ ep_in'.phase = "Armed"
    BY <1>1, <1>3, <1>7, <1>8, SendFeeds
  <1>10. Feeds(all, Wire) /\ Acked' = Acked
    BY <1>6, <1>7, <1>9 DEF Feeds, Acked
  <1>11. Up' = Up
    BY <1>1 DEF Up
  <1> QED
    BY <1>4, <1>5, <1>9, <1>10, <1>11 DEF Delivers, all

\* A completion frees the wire and may feed it again.
LEMMA DataInDelivers ==
    ASSUME IInv, ReportsInv, DataIn
    PROVE  ReportsInv' /\ Delivers
  <1>1. ep_in.phase = "Sent" /\ dev_state = "CONFIGURED"
    BY DEF DataIn, IInv, SuspendedIsKnown, ClassDataWhileConfigured,
           BusyIsOngoing, Up
  <1> DEFINE buf == ReleaseSent(hid_report_buf)
  <1>2. /\ SendNextReport(buf, "HID_IDLE", EpIdle)
        /\ UNCHANGED <<dev_state, dev_old_state, bus_suspended>>
    BY <1>1 DEF DataIn
  <1>3. PICK q, sent : Held(hid_report_buf, q, sent)
    BY DEF ReportsInv
  <1>4. Held(buf, q, <<>>)
    BY <1>3, ReleasedIsHeld
  <1>5. Waiting = q
    BY <1>3, HeldRead DEF ReadAs, Waiting
  <1> HIDE DEF buf
  <1>6. ReadsLast(buf, EpIdle) /\ WireOf(buf, EpIdle) = <<>>
    BY Phases DEF ReadsLast, WireOf
  <1>7. /\ ReportsInv'
        /\ \/ Waiting' = q /\ Wire' = <<>> /\ ep_in' = EpIdle
           \/ /\ q # <<>>
              /\ Wire' = <<Head(q)>> /\ Waiting' = Tail(q)
              /\ ep_in'.phase = "Armed"
    BY <1>2, <1>4, <1>6, SendFeeds
  <1>8. Up /\ Up' = Up
    BY <1>1, <1>2 DEF Up
  <1>9. Acked /\ ~Acked'
    BY <1>1, <1>7, Phases DEF Acked
  <1>10. Feeds(Waiting, <<>>)
    BY <1>5, <1>7, <1>8 DEF Feeds
  <1> QED
    BY <1>7, <1>8, <1>9, <1>10 DEF Delivers

\* The report is loaded as it was on the wire.
LEMMA LoadDelivers ==
    ASSUME ReportsInv, WriteEmptyTxFifo
    PROVE  ReportsInv' /\ Delivers
  <1> DEFINE r == Payload(hid_report_buf.mem, ep_in.block)
  <1>1. /\ ep_in.phase = "Armed" /\ ep_in' = EpLoaded(r)
        /\ UNCHANGED <<hid_report_buf, dev_state, dev_old_state>>
    BY DEF WriteEmptyTxFifo
  <1>2. ep_in'.phase = "Loaded" /\ ep_in'.report = r
    BY <1>1 DEF EpLoaded
  <1>3. Wire = <<r>> /\ Wire' = <<r>>
    BY <1>1, <1>2 DEF Wire
  <1>4. ReportsInv'
    BY <1>1, <1>2 DEF ReportsInv, ReadsLast
  <1>5. Waiting' = Waiting /\ Acked' = Acked /\ Up' = Up
    BY <1>1, <1>2 DEF Waiting, Acked, Up
  <1> QED
    BY <1>3, <1>4, <1>5 DEF Delivers

\* The host fetches what is on the wire.
LEMMA HostPollDelivers ==
    ASSUME ReportsInv, HostPoll
    PROVE  ReportsInv' /\ Delivers
  <1>1. /\ ep_in.phase = "Loaded" /\ ep_in' = EpSent(ep_in.report)
        /\ UNCHANGED <<hid_report_buf, dev_state, dev_old_state>>
        /\ dev_state = "CONFIGURED"
    BY DEF HostPoll
  <1>2. ep_in'.phase = "Sent" /\ ep_in'.report = ep_in.report
    BY <1>1 DEF EpSent
  <1>3. Wire = <<ep_in.report>> /\ Wire' = <<ep_in.report>>
    BY <1>1, <1>2 DEF Wire
  <1>4. ReportsInv'
    BY <1>1, <1>2 DEF ReportsInv, ReadsLast
  <1>5. Waiting' = Waiting /\ ~Acked /\ Acked' /\ Up /\ Up' = Up
    BY <1>1, <1>2 DEF Waiting, Acked, Up
  <1>6. Wire # <<>> /\ Wire' = Wire
    BY <1>3
  <1> QED
    BY <1>4, <1>5, <1>6 DEF Delivers

\* A reset or configuration 0 takes back the report on the wire.
LEMMA CloseDelivers ==
    ASSUME IInv, ReportsInv, Reset \/ ClearConfig
    PROVE  ReportsInv' /\ Delivers
  <1>1. hid_report_buf' = hid_report_buf /\ ~Up'
    BY DEF Reset, ClearConfig, Up
  <1>2. ep_in'.phase = "Idle"
    BY Phases DEF Reset, ClearConfig, ClassDeInit, IInv, BusyIsOngoing
  <1>3. Wire' = <<>> /\ ~Acked' /\ Waiting' = Waiting
    BY <1>1, <1>2 DEF Wire, Acked, Waiting
  <1>4. ReportsInv'
    BY <1>1, <1>2 DEF ReportsInv, ReadsLast
  <1>5. CASE Up
    BY <1>1, <1>3, <1>4, <1>5 DEF Delivers
  <1>6. CASE ~Up
    <2>1. ep_in.phase = "Idle"
      BY <1>6 DEF IInv, ClassDataWhileConfigured, BusyIsOngoing
    <2>2. Wire = <<>> /\ ~Acked
      BY <2>1 DEF Wire, Acked
    <2>3. Wire' = Wire /\ Acked' = Acked /\ Up' = Up
      BY <2>2, <1>1, <1>3, <1>6 DEF Acked, Up
    <2> QED
      BY <2>3, <1>3, <1>4 DEF Delivers
  <1> QED
    BY <1>5, <1>6

\* The other requests leave buffer and endpoint alone; only a configuration
\* changes whether the device is configured.
LEMMA RequestDelivers ==
    ASSUME IInv, ReportsInv, Suspend \/ Resume \/ SetAddress \/ SetConfig
    PROVE  ReportsInv' /\ Delivers
  <1>1. UNCHANGED <<hid_report_buf, ep_in>>
    BY DEF Suspend, Resume, SetAddress, SetConfig
  <1>2. /\ ReportsInv'
        /\ Waiting' = Waiting /\ Wire' = Wire /\ Acked' = Acked
    BY <1>1, NothingMoves
  <1>3. CASE SetConfig
    <2>1. ~Up /\ Up'
      BY <1>3 DEF SetConfig, Up
    <2> QED
      BY <1>2, <2>1 DEF Delivers
  <1>4. CASE Suspend \/ Resume \/ SetAddress
    <2>1. Up' <=> Up
      BY <1>4 DEF Suspend, Resume, RestoredState, SetAddress, Up, IInv,
                  SuspendedIsKnown
    <2>2. Up' = Up
      BY <2>1 DEF Up
    <2> QED
      BY <1>2, <2>2 DEF Delivers
  <1> QED
    BY <1>3, <1>4

\* At first nothing waits, and the device is not configured.
LEMMA InitDelivers == Init => ReportsInv /\ Delivery!Init
  <1> SUFFICES ASSUME Init PROVE ReportsInv /\ Delivery!Init
    OBVIOUS
  <1>1. hid_report_buf = EmptyBuffer /\ ep_in.phase = "Idle" /\ ~Up
    BY Phases DEF Init, Up
  <1>2. Held(hid_report_buf, <<>>, <<>>)
    BY <1>1, EmptyGood, EmptyContents DEF Held
  <1>3. ReportsInv
    BY <1>1, <1>2 DEF ReportsInv, ReadsLast
  <1>4. Waiting = <<>>
    BY <1>2, HeldRead DEF ReadAs, Waiting
  <1>5. Wire = <<>> /\ ~Acked
    BY <1>1 DEF Wire, Acked
  <1>6. (ep_in.phase = "Sent") = FALSE /\ Up = FALSE
    BY <1>1, <1>5 DEF Acked
  <1> QED
    BY <1>3, <1>4, <1>5, <1>6 DEF Delivery!Init, Waiting

\* Every step preserves ReportsInv and is a step of ReportDelivery, or none.
LEMMA NextDelivers ==
    IInv /\ ReportsInv /\ [Next]_vars
      => ReportsInv' /\ [Delivery!Next]_(Delivery!vars)
  <1> SUFFICES ASSUME IInv, ReportsInv, [Next]_vars
               PROVE  ReportsInv' /\ Delivers
    BY DeliversIsStep
  <1>1. CASE UNCHANGED vars
    <2>1. UNCHANGED <<hid_report_buf, ep_in, dev_state, dev_old_state>>
      BY <1>1 DEF vars
    <2>2. Up' = Up
      BY <2>1 DEF Up
    <2> QED
      BY <2>1, <2>2, NothingMoves DEF Delivers
  <1>2. CASE Next
    BY <1>2, PollDelivers, DataInDelivers, LoadDelivers, HostPollDelivers,
       CloseDelivers, RequestDelivers
    DEF Next, AnyPollIntervalTimer
  <1> QED
    BY <1>1, <1>2

\* Every report that was queued is transmitted unchanged, once and in order,
\* unless the host takes the configuration away while it is on the wire: for
\* every size of the buffer, all reports and all batches, and every order of
\* timer interrupts, completions, resets, suspends, wake-ups and configurations.
THEOREM ReportsAreDelivered == Spec => DeliverySpec
  <1>1. Spec => []IInv
    BY SpecIInv
  <1>2. Init => ReportsInv /\ Delivery!Init
    BY InitDelivers
  <1>3. IInv /\ ReportsInv /\ [Next]_vars
          => ReportsInv' /\ [Delivery!Next]_(Delivery!vars)
    BY NextDelivers
  <1> QED
    BY <1>1, <1>2, <1>3, PTL DEF Spec, DeliverySpec, Delivery!Spec
=============================================================================
