------------------------ MODULE SensorToHost_proofs -------------------------
(***************************************************************************)
(* Theorems about the way from the sensor to the host.                     *)
(*                                                                         *)
(* First MouseEventHandler.  A handler is a set of states that it may      *)
(* leave, one for every outcome of its allocations, so that a lemma about  *)
(* an operator speaks of every state in the set: whatever is refused, the  *)
(* invariant survives.                                                     *)
(*                                                                         *)
(* Then SpiReceive, for every size and every set of packets: reception     *)
(* stops at most once and says so, and a motion that is loaded in time is  *)
(* added exactly once.                                                     *)
(*                                                                         *)
(* Last SensorToHost: it implements both of the modules it composes, so    *)
(* that what is proved of each holds in the device, and it settles on the  *)
(* last packet, however late the handlers run.                             *)
(***************************************************************************)
EXTENDS SensorToHost, FiniteSetTheorems, WellFoundedInduction, TLAPS

MouseReports == [kind : {"mouse"}, buttons : SUBSET (1 .. 3),
                 motion : [Axes -> Int], pan : SUBSET Int]
KeyboardReports == [kind : {"keyboard"}, modifiers : SUBSET Modifiers,
                    keys : SUBSET KeyCodes]
AbsoluteReports == [kind : {"absolute"}, button : Int]
Reports == MouseReports \cup KeyboardReports \cup AbsoluteReports

Counts == -(MotionRange \div 2) .. MotionRange - (MotionRange \div 2) - 1

Handlers == [accumulated : [Axes -> Counts],
             current_primary_button_state : ButtonStates,
             previous_primary_button_state : ButtonStates,
             current_keypad_state : KeypadStates,
             previous_keypad_state : KeypadStates,
             tracking_pressed_key : Keys \cup {0},
             modifier_keys_state : SUBSET Modifiers,
             timer : {"running", "stopped"},
             mouse_hid_report : Nat,
             hid_report_buf : Seq(Reports)]

\* The report of the interval, if there is one, is a mouse report.
ReportIsThere(s) ==
    s.mouse_hid_report # 0 =>
        /\ s.mouse_hid_report \in DOMAIN s.hid_report_buf
        /\ s.hid_report_buf[s.mouse_hid_report].kind = "mouse"

\* What a host that believes b now will believe once it has taken the reports
\* of buf: the field of the last report of that kind.
LastIn(buf, kind, field, b) ==
    IF Positions(buf, kind) = {} THEN b ELSE buf[Max(Positions(buf, kind))][field]
BelievedIn(buf, b) == LastIn(buf, "mouse", "buttons", b)

InStep(s, b) ==
    BelievedIn(s.hid_report_buf, b) = Shown(s.previous_primary_button_state)

\* What every operator preserves.
Sound(s, b) == /\ s \in Handlers
               /\ ReportIsThere(s)
               /\ BytesUsed(s) <= MaxBufferSize
               /\ InStep(s, b)

\* What a reporting function leaves alone; ABSOLUTE_MOUSE_POSITIION counts the
\* keypad's change as reported.
KeypadKept(s, t) ==
    /\ t.timer = s.timer
    /\ t.current_primary_button_state = s.current_primary_button_state
    /\ t.tracking_pressed_key = s.tracking_pressed_key
    /\ t.current_keypad_state = s.current_keypad_state
    /\ \/ t.previous_keypad_state = s.previous_keypad_state
       \/ t.previous_keypad_state = s.current_keypad_state

\* A poll interval leaves alone what the sensor told.
InputKept(s, t) ==
    /\ t.current_primary_button_state = s.current_primary_button_state
    /\ t.current_keypad_state = s.current_keypad_state

\* The keys that a host which holds k down now will hold down in the end are
\* none, or the buffer is nearly full; and what keeps it so.
NearlyFull(s) == BytesUsed(s) + 6 + (LargestBlock - 1) >= MaxBufferSize
HeldIn(s, k) == LastIn(s.hid_report_buf, "keyboard", "keys", k)
Lifted(s, k) == HeldIn(s, k) = {} \/ NearlyFull(s)
Lifts(s, t) == \A k : Lifted(s, k) => Lifted(t, k)

Kept(s, t) == KeypadKept(s, t) /\ Lifts(s, t)

-----------------------------------------------------------------------------
(***************************************************************************)
(* The least and the greatest of a set of naturals.                        *)
(***************************************************************************)
LEMMA LeastExists ==
    ASSUME NEW S \in SUBSET Nat, S # {}
    PROVE  \E m \in S : \A i \in S : m <= i
<1> DEFINE Less == {p \in Nat \X Nat : p[1] < p[2]}
<1>1. IsWellFoundedOn(Less, Nat)
  BY NatLessThanWellFounded DEF OpToRel
<1> HIDE DEF Less
<1>2. PICK m \in S : \A i \in S : ~ (<<i, m>> \in Less)
  BY <1>1, WFMin
<1>3. ASSUME NEW i \in S PROVE m <= i
  <2>1. i \in Nat /\ m \in Nat /\ ~ (<<i, m>> \in Less)
    BY <1>2
  <2>2. ~ (i < m)
    BY <2>1 DEF Less
  <2> QED  BY <2>1, <2>2
<1> QED  BY <1>3

LEMMA MaxIsGreatest ==
    ASSUME NEW n \in Nat, NEW S \in SUBSET (1 .. n), S # {}
    PROVE  Max(S) \in S /\ \A i \in S : i <= Max(S)
<1> DEFINE D == {n - i : i \in S}
<1>1. D \in SUBSET Nat
  OBVIOUS
<1>a. D # {}
  OBVIOUS
<1>2. PICK d \in D : \A e \in D : d <= e
  BY <1>1, <1>a, LeastExists
<1>3. PICK m \in S : d = n - m
  BY <1>2
<1>4. ASSUME NEW i \in S PROVE m >= i
  <2>1. n - i \in D
    OBVIOUS
  <2>2. d <= n - i
    BY <1>2, <2>1
  <2> QED  BY <1>3, <2>2
<1>5. \A i \in S : Max(S) >= i /\ Max(S) \in S
  BY <1>3, <1>4 DEF Max
<1> QED  BY <1>5

-----------------------------------------------------------------------------
(***************************************************************************)
(* The buffer: what a host will believe, and how many bytes there are.     *)
(***************************************************************************)
LEMMA PositionsType ==
    ASSUME NEW buf \in Seq(Reports), NEW kind
    PROVE  /\ Positions(buf, kind) \in SUBSET (1 .. Len(buf))
           /\ IsFiniteSet(Positions(buf, kind))
           /\ Cardinality(Positions(buf, kind)) \in Nat
<1>1. Positions(buf, kind) \in SUBSET (1 .. Len(buf))
  BY DEF Positions
<1>2. IsFiniteSet(1 .. Len(buf))
  BY FS_Interval
<1>3. IsFiniteSet(Positions(buf, kind))
  BY <1>1, <1>2, FS_Subset
<1> QED  BY <1>1, <1>3, FS_CardinalityType

LEMMA LastPosition ==
    ASSUME NEW buf \in Seq(Reports), NEW kind,
           NEW i \in Positions(buf, kind), \A j \in Positions(buf, kind) : j <= i
    PROVE  Max(Positions(buf, kind)) = i
<1> DEFINE P == Positions(buf, kind)
<1>1. P \in SUBSET (1 .. Len(buf)) /\ Len(buf) \in Nat
  BY PositionsType
<1>2. Max(P) \in P /\ i <= Max(P)
  BY <1>1, MaxIsGreatest
<1>3. Max(P) <= i /\ Max(P) \in Nat /\ i \in Nat
  BY <1>1, <1>2
<1> QED  BY <1>2, <1>3

LEMMA AppendedReport ==
    ASSUME NEW buf \in Seq(Reports), NEW r \in Reports
    PROVE  /\ Append(buf, r) \in Seq(Reports)
           /\ Len(Append(buf, r)) = Len(buf) + 1
           /\ DOMAIN Append(buf, r) = 1 .. Len(buf) + 1
           /\ \A i \in 1 .. Len(buf) : Append(buf, r)[i] = buf[i]
           /\ Append(buf, r)[Len(buf) + 1] = r
  OBVIOUS

LEMMA AppendedPositions ==
    ASSUME NEW buf \in Seq(Reports), NEW r \in Reports, NEW kind
    PROVE  Positions(Append(buf, r), kind) =
             IF r.kind = kind THEN Positions(buf, kind) \cup {Len(buf) + 1}
                              ELSE Positions(buf, kind)
  BY AppendedReport DEF Positions

LEMMA AppendedBelief ==
    ASSUME NEW buf \in Seq(Reports), NEW r \in Reports, NEW kind, NEW field, NEW b
    PROVE  LastIn(Append(buf, r), kind, field, b) =
             IF r.kind = kind THEN r[field] ELSE LastIn(buf, kind, field, b)
<1> DEFINE new == Append(buf, r)
           P == Positions(buf, kind)
           Q == Positions(new, kind)
<1>1. P \in SUBSET (1 .. Len(buf)) /\ Len(buf) \in Nat
  BY PositionsType
<1>2. new \in Seq(Reports)
  BY AppendedReport
<1>3. CASE r.kind = kind
  <2>1. Q = P \cup {Len(buf) + 1}
    BY <1>3, AppendedPositions
  <2>2. \A j \in Q : j <= Len(buf) + 1
    BY <1>1, <2>1
  <2>3. Len(buf) + 1 \in Q
    BY <2>1
  <2>4. Max(Q) = Len(buf) + 1
    BY <1>2, <2>2, <2>3, LastPosition
  <2>5. new[Max(Q)] = r
    BY <2>4, AppendedReport
  <2>6. LastIn(new, kind, field, b) = new[Max(Q)][field]
    BY <2>3 DEF LastIn
  <2> QED  BY <1>3, <2>5, <2>6
<1>4. CASE r.kind # kind
  <2>1. Q = P
    BY <1>4, AppendedPositions
  <2>2. CASE P = {}
    BY <1>4, <2>1, <2>2 DEF LastIn
  <2>3. CASE P # {}
    <3>1. Max(P) \in 1 .. Len(buf)
      BY <1>1, <2>3, MaxIsGreatest
    <3>2. new[Max(P)] = buf[Max(P)]
      BY <3>1, AppendedReport
    <3> QED  BY <1>4, <2>1, <2>3, <3>2 DEF LastIn
  <2> QED  BY <2>2, <2>3
<1> QED  BY <1>3, <1>4

LEMMA BytesInBuffer ==
    ASSUME NEW s
    PROVE  BytesUsed(s) =
             10 * Cardinality(Positions(s.hid_report_buf, "mouse"))
             + 7 * Cardinality(Positions(s.hid_report_buf, "keyboard"))
             + 8 * Cardinality(Positions(s.hid_report_buf, "absolute"))
  BY DEF BytesUsed, BlockSize

LEMMA AppendedBytes ==
    ASSUME NEW s, NEW t, NEW r \in Reports, s.hid_report_buf \in Seq(Reports),
           t.hid_report_buf = Append(s.hid_report_buf, r)
    PROVE  BytesUsed(t) = BytesUsed(s) + BlockSize[r.kind]
<1> DEFINE buf == s.hid_report_buf
           C(kind) == Cardinality(Positions(buf, kind))
           D(kind) == Cardinality(Positions(Append(buf, r), kind))
<1>1. \A kind : C(kind) \in Nat
  BY PositionsType
<1>2. ASSUME NEW kind PROVE D(kind) = IF r.kind = kind THEN C(kind) + 1 ELSE C(kind)
  <2>1. /\ IsFiniteSet(Positions(buf, kind))
        /\ Positions(buf, kind) \in SUBSET (1 .. Len(buf)) /\ Len(buf) \in Nat
    BY PositionsType
  <2>2. Len(buf) + 1 \notin Positions(buf, kind)
    BY <2>1
  <2>3. CASE r.kind = kind
    <3>1. Positions(Append(buf, r), kind) = Positions(buf, kind) \cup {Len(buf) + 1}
      BY <2>3, AppendedPositions
    <3> QED  BY <2>1, <2>2, <2>3, <3>1, FS_AddElement
  <2>4. CASE r.kind # kind
    BY <2>4, AppendedPositions
  <2> QED  BY <2>3, <2>4
<1>3. r.kind \in {"mouse", "keyboard", "absolute"}
  BY DEF Reports, MouseReports, KeyboardReports, AbsoluteReports
<1>4. BytesUsed(s) = 10 * C("mouse") + 7 * C("keyboard") + 8 * C("absolute")
  BY BytesInBuffer
<1>5. BytesUsed(t) = 10 * D("mouse") + 7 * D("keyboard") + 8 * D("absolute")
  BY BytesInBuffer
<1>6. BlockSize[r.kind] = IF r.kind = "mouse" THEN 10
                          ELSE IF r.kind = "keyboard" THEN 7 ELSE 8
  BY <1>3 DEF BlockSize
<1>7. C("mouse") \in Nat /\ C("keyboard") \in Nat /\ C("absolute") \in Nat
  BY <1>1
<1>8. /\ D("mouse") = IF r.kind = "mouse" THEN C("mouse") + 1 ELSE C("mouse")
      /\ D("keyboard") = IF r.kind = "keyboard" THEN C("keyboard") + 1
                                               ELSE C("keyboard")
      /\ D("absolute") = IF r.kind = "absolute" THEN C("absolute") + 1
                                               ELSE C("absolute")
  BY <1>2
<1> DEFINE cm == C("mouse")    dm == D("mouse")
           ck == C("keyboard") dk == D("keyboard")
           ca == C("absolute") da == D("absolute")
           used == BytesUsed(s) now == BytesUsed(t) more == BlockSize[r.kind]
<1>9. /\ cm \in Nat /\ ck \in Nat /\ ca \in Nat
      /\ used = 10 * cm + 7 * ck + 8 * ca
      /\ now = 10 * dm + 7 * dk + 8 * da
  BY <1>4, <1>5, <1>7
<1>10. \/ dm = cm + 1 /\ dk = ck /\ da = ca /\ more = 10
       \/ dm = cm /\ dk = ck + 1 /\ da = ca /\ more = 7
       \/ dm = cm /\ dk = ck /\ da = ca + 1 /\ more = 8
  BY <1>3, <1>6, <1>8
<1> HIDE DEF cm, dm, ck, dk, ca, da, used, now, more
<1>11. now = used + more
  BY <1>9, <1>10
<1> QED  BY <1>11 DEF now, used, more

-----------------------------------------------------------------------------
(***************************************************************************)
(* Numbers stored in the accumulators and in the reports.                  *)
(***************************************************************************)
LEMMA SignedType ==
    ASSUME NEW n \in Int, NEW range \in Nat \ {0}
    PROVE  Signed(n, range) \in -(range \div 2) .. range - (range \div 2) - 1
<1> DEFINE h == range \div 2
<1>1. h \in Nat
  OBVIOUS
<1> HIDE DEF h
<1>2. (n + h) % range \in 0 .. range - 1
  BY <1>1
<1>3. ((n + h) % range) - h \in -h .. range - h - 1
  BY <1>1, <1>2
<1> QED  BY <1>3 DEF Signed, h

LEMMA CountsAreInts == Counts \subseteq Int /\ 0 \in Counts
<1>1. MotionRange \div 2 \in Nat /\ MotionRange \div 2 < MotionRange
  BY RangeAssumption
<1> QED  BY <1>1, RangeAssumption DEF Counts

LEMMA RemainderInCounts ==
    ASSUME NEW n \in Counts, NEW d \in Int
    PROVE  Remainder(n, d) \in Counts
<1> DEFINE m == Magnitude(n)
           e == Magnitude(d)
           q == m \div e
<1>1. n \in Int /\ 0 \in Counts
  BY CountsAreInts
<1>2. /\ m \in Nat /\ n = (IF n < 0 THEN -m ELSE m)
      /\ e \in Nat /\ d = (IF d < 0 THEN -e ELSE e)
  BY <1>1 DEF Magnitude
<1>3. CASE d = 0
  <2>1. Remainder(n, d) = n
    BY <1>1, <1>3 DEF Remainder, Quotient
  <2> QED  BY <2>1
<1>4. CASE d # 0
  <2>1. Quotient(n, d) = IF (n < 0) = (d < 0) THEN q ELSE -q
    BY <1>4 DEF Quotient
  <2> HIDE DEF m, e
  <2>2. e \in Nat \ {0} /\ q \in Nat /\ m - e * q = m % e
    BY <1>2, <1>4
  <2>3. m % e \in 0 .. m
    BY <1>2, <2>2
  <2> HIDE DEF q
  <2>4. d * Quotient(n, d) = IF n < 0 THEN -(e * q) ELSE e * q
    <3>1. CASE n < 0 /\ d < 0
      BY <1>2, <2>1, <2>2, <3>1
    <3>2. CASE n < 0 /\ ~ (d < 0)
      BY <1>2, <2>1, <2>2, <3>2
    <3>3. CASE ~ (n < 0) /\ d < 0
      BY <1>2, <2>1, <2>2, <3>3
    <3>4. CASE ~ (n < 0) /\ ~ (d < 0)
      BY <1>2, <2>1, <2>2, <3>4
    <3> QED  BY <3>1, <3>2, <3>3, <3>4
  <2> DEFINE product == e * q
             rest == m % e
  <2>5. /\ Remainder(n, d) = n - (IF n < 0 THEN -product ELSE product)
        /\ product \in Int /\ m - product = rest /\ rest \in 0 .. m
    BY <2>2, <2>3, <2>4 DEF Remainder
  <2> HIDE DEF product, rest
  <2>6. Remainder(n, d) = IF n < 0 THEN -rest ELSE rest
    BY <1>1, <1>2, <2>5
  <2>7. n \in -(MotionRange \div 2) .. MotionRange - (MotionRange \div 2) - 1
        /\ MotionRange \div 2 \in Nat /\ MotionRange \in Nat
        /\ 0 <= MotionRange - (MotionRange \div 2) - 1
    BY <1>1, RangeAssumption DEF Counts
  <2>8. Remainder(n, d) \in -(MotionRange \div 2) .. MotionRange - (MotionRange \div 2) - 1
    BY <1>1, <1>2, <2>5, <2>6, <2>7
  <2> QED  BY <2>8 DEF Counts
<1> QED  BY <1>3, <1>4

LEMMA InReportType ==
    ASSUME NEW motion, \A a \in Axes : motion[a] \in Int
    PROVE  InReport(motion) \in [Axes -> Int]
<1>1. \A n \in Int : Signed(n, MotionRange) \in Int /\ Signed(n, ScrollRange) \in Int
  BY SignedType, RangeAssumption
<1> QED  BY <1>1 DEF InReport

LEMMA QuotientType ==
    ASSUME NEW n \in Int, NEW d \in Int
    PROVE  Quotient(n, d) \in Int
<1>1. CASE d = 0
  BY <1>1 DEF Quotient
<1>2. CASE d # 0
  <2>1. Magnitude(n) \in Nat /\ Magnitude(d) \in Nat \ {0}
    BY <1>2 DEF Magnitude
  <2>2. Magnitude(n) \div Magnitude(d) \in Nat
    BY <2>1
  <2> QED  BY <1>2, <2>2 DEF Quotient
<1> QED  BY <1>1, <1>2

-----------------------------------------------------------------------------
(***************************************************************************)
(* Allocation.                                                             *)
(***************************************************************************)
LEMMA AllocateSound ==
    ASSUME NEW s, NEW b, Sound(s, b), NEW r \in Reports, NEW then \in Handlers,
           then.hid_report_buf = s.hid_report_buf,
           \/ then.mouse_hid_report = s.mouse_hid_report
           \/ then.mouse_hid_report = Len(s.hid_report_buf) + 1 /\ r.kind = "mouse",
           IF r.kind = "mouse"
             THEN r.buttons = Shown(then.previous_primary_button_state)
             ELSE then.previous_primary_button_state = s.previous_primary_button_state,
           KeypadKept(s, then),
           NEW t \in Allocate(s, r, then)
    PROVE  Sound(t, b) /\ KeypadKept(s, t)
<1> DEFINE buf == s.hid_report_buf
           u == [then EXCEPT !.hid_report_buf = Append(@, r)]
<1>1. s \in Handlers /\ buf \in Seq(Reports) /\ Len(buf) \in Nat
  BY DEF Sound, Handlers
<1>2. CASE t = s
  BY <1>2 DEF KeypadKept, Sound
<1>3. CASE t = u /\ MayAccept(s, r)
  <2>1. Append(buf, r) \in Seq(Reports)
    BY <1>1, AppendedReport
  <2>2. u \in Handlers
    BY <1>1, <2>1 DEF Handlers
  <2>3. /\ u.hid_report_buf = Append(buf, r)
        /\ u.mouse_hid_report = then.mouse_hid_report
        /\ u.previous_primary_button_state = then.previous_primary_button_state
        /\ KeypadKept(s, u)
    BY DEF Handlers, KeypadKept
  <2>4. ReportIsThere(u)
    BY <1>1, <2>3, AppendedReport DEF ReportIsThere, Sound
  <2>5. BytesUsed(u) = BytesUsed(s) + BlockSize[r.kind]
    BY <1>1, <2>3, AppendedBytes
  <2>6. BytesUsed(u) <= MaxBufferSize
    BY <1>3, <2>5 DEF MayAccept
  <2>7. BelievedIn(Append(buf, r), b) =
          IF r.kind = "mouse" THEN r.buttons ELSE BelievedIn(buf, b)
    BY <1>1, AppendedBelief DEF BelievedIn
  <2>8. InStep(u, b)
    BY <2>3, <2>7 DEF InStep, Sound
  <2> QED  BY <1>3, <2>2, <2>3, <2>4, <2>6, <2>8 DEF Sound
<1>4. t = s \/ (t = u /\ MayAccept(s, r))
  BY DEF Allocate
<1> QED  BY <1>2, <1>3, <1>4

\* A buffer that grows by a report with no key in it keeps the keys lifted; so
\* does any change of the other fields.
LEMMA SameBufferLifts ==
    ASSUME NEW s, NEW t, t.hid_report_buf = s.hid_report_buf
    PROVE  Lifts(s, t)
<1>1. BytesUsed(t) = BytesUsed(s)
  BY BytesInBuffer
<1> QED  BY <1>1 DEF Lifts, Lifted, HeldIn, NearlyFull

LEMMA BytesAreNat ==
    ASSUME NEW s, s.hid_report_buf \in Seq(Reports)
    PROVE  BytesUsed(s) \in Nat
<1>1. \A kind : Cardinality(Positions(s.hid_report_buf, kind)) \in Nat
  BY PositionsType
<1> QED  BY <1>1, BytesInBuffer

LEMMA AppendedLifts ==
    ASSUME NEW s, NEW t, NEW r \in Reports, s.hid_report_buf \in Seq(Reports),
           t.hid_report_buf = Append(s.hid_report_buf, r),
           r.kind = "keyboard" => r.keys = {}
    PROVE  Lifts(s, t)
<1> SUFFICES ASSUME NEW k, Lifted(s, k) PROVE Lifted(t, k)
  BY DEF Lifts
<1>1. HeldIn(t, k) = IF r.kind = "keyboard" THEN r.keys ELSE HeldIn(s, k)
  BY AppendedBelief DEF HeldIn
<1>2. NearlyFull(s) => NearlyFull(t)
  <2>1. BytesUsed(t) = BytesUsed(s) + BlockSize[r.kind]
    BY AppendedBytes
  <2>2. BlockSize[r.kind] \in Nat
    BY DEF BlockSize, Reports, MouseReports, KeyboardReports, AbsoluteReports
  <2>3. BytesUsed(s) \in Nat /\ MaxBufferSize \in Nat
    BY BytesAreNat, ConfigurationAssumption
  <2> DEFINE now == BytesUsed(t)
             used == BytesUsed(s)
             more == BlockSize[r.kind]
  <2>4. now = used + more /\ more \in Nat /\ used \in Nat
    BY <2>1, <2>2, <2>3
  <2> HIDE DEF now, used, more
  <2>5. used + 6 + 9 >= MaxBufferSize => now + 6 + 9 >= MaxBufferSize
    BY <2>3, <2>4
  <2> QED  BY <2>5 DEF NearlyFull, LargestBlock, now, used
<1> QED  BY <1>1, <1>2 DEF Lifted

\* What Allocate leaves in the buffer.
LEMMA AllocateBuffer ==
    ASSUME NEW s, NEW r, NEW then \in Handlers,
           then.hid_report_buf = s.hid_report_buf, NEW t \in Allocate(s, r, then)
    PROVE  \/ t = s /\ MayRefuse(s, r)
           \/ t.hid_report_buf = Append(s.hid_report_buf, r)
<1>1. [then EXCEPT !.hid_report_buf = Append(@, r)].hid_report_buf
        = Append(s.hid_report_buf, r)
  BY DEF Handlers
<1> QED  BY <1>1 DEF Allocate

LEMMA AllocateLifts ==
    ASSUME NEW s, NEW b, Sound(s, b), NEW r \in Reports, NEW then \in Handlers,
           then.hid_report_buf = s.hid_report_buf,
           r.kind = "keyboard" => r.keys = {},
           NEW t \in Allocate(s, r, then)
    PROVE  Lifts(s, t)
<1>1. s.hid_report_buf \in Seq(Reports)
  BY DEF Sound, Handlers
<1>2. CASE t = s
  BY <1>2, SameBufferLifts
<1>3. CASE t.hid_report_buf = Append(s.hid_report_buf, r)
  BY <1>1, <1>3, AppendedLifts
<1> QED  BY <1>2, <1>3, AllocateBuffer

-----------------------------------------------------------------------------
(***************************************************************************)
(* The reporting functions.                                                *)
(***************************************************************************)
\* Every state of T is sound, and differs from s as a reporting function may.
Keeps(s, b, T) == \A t \in T : Sound(t, b) /\ Kept(s, t)

LEMMA KeepsItself == ASSUME NEW s, NEW b, Sound(s, b) PROVE Keeps(s, b, {s})
  BY DEF Keeps, Kept, KeypadKept, Lifts

LEMMA KeptTwice ==
    ASSUME NEW s, NEW t, NEW u, Kept(s, t), Kept(t, u)
    PROVE  Kept(s, u)
  BY DEF Kept, KeypadKept, Lifts

LEMMA LiftsTwice ==
    ASSUME NEW s, NEW t, NEW u, Lifts(s, t), Lifts(t, u)
    PROVE  Lifts(s, u)
  BY DEF Lifts

LEMMA PanType == PanRange \in SUBSET Int
BY RangeAssumption DEF PanRange

LEMMA CreateKeeps ==
    ASSUME NEW s, NEW b, Sound(s, b)
    PROVE  Keeps(s, b, CreateOrRetrieveMouseReport(s))
<1>1. CASE s.mouse_hid_report # 0
  BY <1>1, KeepsItself DEF CreateOrRetrieveMouseReport
<1>2. CASE s.mouse_hid_report = 0
  <2> DEFINE r == MouseReport(Shown(s.current_primary_button_state))
             then == [s EXCEPT !.mouse_hid_report = Len(s.hid_report_buf) + 1,
                               !.previous_primary_button_state =
                                   s.current_primary_button_state]
  <2>1. s \in Handlers /\ Len(s.hid_report_buf) \in Nat
    BY DEF Sound, Handlers
  <2>2. then \in Handlers
    <3>1. Len(s.hid_report_buf) + 1 \in Nat
      BY <2>1
    <3>2. \A n \in Nat, p \in ButtonStates :
             [s EXCEPT !.mouse_hid_report = n,
                       !.previous_primary_button_state = p] \in Handlers
      BY <2>1 DEF Handlers
    <3> QED  BY <2>1, <3>1, <3>2 DEF Handlers
  <2>3. /\ then.hid_report_buf = s.hid_report_buf
        /\ then.mouse_hid_report = Len(s.hid_report_buf) + 1
        /\ then.previous_primary_button_state = s.current_primary_button_state
        /\ KeypadKept(s, then)
    BY <2>1 DEF Handlers, KeypadKept
  <2>4. r \in Reports /\ r.kind = "mouse"
        /\ r.buttons = Shown(then.previous_primary_button_state)
    <3>1. Shown(s.current_primary_button_state) \in SUBSET (1 .. 3)
      BY DEF Shown
    <3>2. Still \in [Axes -> Int]
      BY DEF Still
    <3>3. PanRange \in SUBSET Int
      BY PanType
    <3> QED  BY <2>3, <3>1, <3>2, <3>3 DEF MouseReport, Reports, MouseReports
  <2>5. CreateOrRetrieveMouseReport(s) = Allocate(s, r, then)
    BY <1>2 DEF CreateOrRetrieveMouseReport
  <2> HIDE DEF r, then
  <2>6. ASSUME NEW t \in Allocate(s, r, then)
        PROVE  Sound(t, b) /\ KeypadKept(s, t) /\ Lifts(s, t)
    BY <2>2, <2>3, <2>4, AllocateSound, AllocateLifts
  <2> QED  BY <2>5, <2>6 DEF Keeps, Kept
<1> QED  BY <1>1, <1>2

\* A motion written into the report of the interval, with new accumulators.
Written(s, motion, pan, accumulated) ==
    [WriteMotion(s, motion, pan) EXCEPT !.accumulated = accumulated]

LEMMA WriteKeeps ==
    ASSUME NEW s, NEW b, Sound(s, b), s.mouse_hid_report # 0,
           NEW motion \in [Axes -> Int], NEW pan \in Int,
           NEW accumulated \in [Axes -> Counts],
           NEW u, u = Written(s, motion, pan, accumulated)
    PROVE  Sound(u, b) /\ Kept(s, u)
<1> DEFINE n == s.mouse_hid_report
           buf == s.hid_report_buf
           w == WriteMotion(s, motion, pan)
           new == w.hid_report_buf
<1>1. /\ s \in Handlers /\ buf \in Seq(Reports) /\ Len(buf) \in Nat
      /\ n \in 1 .. Len(buf) /\ buf[n].kind = "mouse" /\ buf[n] \in Reports
  BY DEF Sound, Handlers, ReportIsThere
<1>2. buf[n] \in MouseReports
  BY <1>1 DEF Reports, KeyboardReports, AbsoluteReports
<1>3. w = [s EXCEPT !.hid_report_buf =
              [buf EXCEPT ![n] = [buf[n] EXCEPT !.motion = motion, !.pan = {pan}]]]
  BY <1>1 DEF WriteMotion, Handlers
<1>4. new = [buf EXCEPT ![n] = [buf[n] EXCEPT !.motion = motion, !.pan = {pan}]]
  BY <1>1, <1>3 DEF Handlers
<1>5. [buf[n] EXCEPT !.motion = motion, !.pan = {pan}] \in MouseReports
  BY <1>2 DEF MouseReports
<1>6. [buf[n] EXCEPT !.motion = motion, !.pan = {pan}].buttons = buf[n].buttons
  BY <1>2 DEF MouseReports
<1>7. new \in Seq(Reports) /\ DOMAIN new = DOMAIN buf /\ Len(new) = Len(buf)
  BY <1>1, <1>4, <1>5 DEF Reports
<1>8. \A i \in DOMAIN buf : /\ new[i].kind = buf[i].kind
                            /\ buf[i].kind = "mouse" => new[i].buttons = buf[i].buttons
                            /\ buf[i].kind = "keyboard" => new[i].keys = buf[i].keys
  <2> TAKE i \in DOMAIN buf
  <2>1. CASE i = n
    BY <1>1, <1>2, <1>4, <1>5, <1>6, <2>1 DEF MouseReports
  <2>2. CASE i # n
    BY <1>1, <1>4, <2>2
  <2> QED  BY <2>1, <2>2
<1>9. \A kind : Positions(new, kind) = Positions(buf, kind)
  BY <1>7, <1>8 DEF Positions
<1>10. u = [s EXCEPT !.hid_report_buf = new, !.accumulated = accumulated]
  BY <1>1, <1>3, <1>4 DEF Written, Handlers
<1> HIDE DEF w, new
<1>11. u \in Handlers
  BY <1>1, <1>7, <1>10 DEF Handlers
<1>12. /\ u.hid_report_buf = new /\ u.mouse_hid_report = n
       /\ u.previous_primary_button_state = s.previous_primary_button_state
       /\ KeypadKept(s, u)
  BY <1>1, <1>10 DEF Handlers, KeypadKept
<1>13. ReportIsThere(u)
  BY <1>1, <1>7, <1>8, <1>12 DEF ReportIsThere
<1>14. BytesUsed(u) = BytesUsed(s)
  BY <1>9, <1>12, BytesInBuffer
<1>15. ASSUME NEW kind, NEW field, NEW c,
              \A i \in DOMAIN buf : buf[i].kind = kind => new[i][field] = buf[i][field]
       PROVE  LastIn(new, kind, field, c) = LastIn(buf, kind, field, c)
  <2> DEFINE P == Positions(buf, kind)
  <2>1. CASE P = {}
    BY <1>9, <2>1 DEF LastIn
  <2>2. CASE P # {}
    <3>1. P \in SUBSET (1 .. Len(buf))
      BY <1>1, PositionsType
    <3>2. Max(P) \in P
      BY <1>1, <2>2, <3>1, MaxIsGreatest
    <3>3. new[Max(P)][field] = buf[Max(P)][field]
      BY <1>15, <3>2 DEF Positions
    <3> QED  BY <1>9, <2>2, <3>3 DEF LastIn
  <2> QED  BY <2>1, <2>2
<1>16. InStep(u, b)
  <2>1. BelievedIn(new, b) = BelievedIn(buf, b)
    BY <1>8, <1>15 DEF BelievedIn
  <2> QED  BY <1>12, <2>1 DEF InStep, Sound
<1>17. Lifts(s, u)
  <2>1. \A k : HeldIn(u, k) = HeldIn(s, k)
    BY <1>8, <1>12, <1>15 DEF HeldIn
  <2> QED  BY <1>14, <2>1 DEF Lifts, Lifted, NearlyFull
<1> QED  BY <1>11, <1>12, <1>13, <1>14, <1>16, <1>17 DEF Sound, Kept

LEMMA AlteredMovementKeeps ==
    ASSUME NEW s, NEW b, Sound(s, b), NEW factor \in [Axes -> Int]
    PROVE  Keeps(s, b, AlteredMouseMovement(s, factor))
<1>1. ASSUME NEW t \in CreateOrRetrieveMouseReport(s), t.mouse_hid_report # 0,
             NEW u,
             u = [WriteMotion(t, InReport([a \in Axes |-> t.accumulated[a] * factor[a]]), 0)
                    EXCEPT !.accumulated = Still]
      PROVE  Sound(u, b) /\ Kept(s, u)
  <2> DEFINE product == [a \in Axes |-> t.accumulated[a] * factor[a]]
  <2>1. Sound(t, b) /\ Kept(s, t)
    BY CreateKeeps DEF Keeps
  <2>2. t.accumulated \in [Axes -> Counts]
    BY <2>1 DEF Sound, Handlers
  <2>3. \A a \in Axes : t.accumulated[a] \in Int
    BY <2>2, CountsAreInts
  <2>4. \A a \in Axes : product[a] \in Int
    BY <2>3
  <2>5. InReport(product) \in [Axes -> Int]
    BY <2>4, InReportType
  <2>6. Still \in [Axes -> Counts]
    BY CountsAreInts DEF Still
  <2> HIDE DEF product
  <2>7. u = Written(t, InReport(product), 0, Still)
    BY <1>1 DEF product, Written
  <2>8. Sound(u, b) /\ Kept(t, u)
    <3> DEFINE motion == InReport(product)
    <3>1. motion \in [Axes -> Int] /\ u = Written(t, motion, 0, Still)
      BY <2>5, <2>7
    <3> HIDE DEF motion
    <3>2. t.mouse_hid_report # 0 /\ 0 \in Int
      BY <1>1
    <3> QED  BY <2>1, <2>6, <3>1, <3>2, WriteKeeps
  <2> QED  BY <2>1, <2>8, KeptTwice
<1>2. ASSUME NEW t \in CreateOrRetrieveMouseReport(s)
      PROVE  Sound(t, b) /\ Kept(s, t)
  BY CreateKeeps DEF Keeps
<1>3. ASSUME NEW u \in AlteredMouseMovement(s, factor)
      PROVE  Sound(u, b) /\ Kept(s, u)
  <2>1. PICK t \in CreateOrRetrieveMouseReport(s) :
          u = IF t.mouse_hid_report = 0
                THEN t
                ELSE [WriteMotion(t, InReport([a \in Axes |-> t.accumulated[a] * factor[a]]), 0)
                        EXCEPT !.accumulated = Still]
    BY <1>3 DEF AlteredMouseMovement
  <2>2. CASE t.mouse_hid_report = 0
    BY <1>2, <2>1, <2>2
  <2>3. CASE t.mouse_hid_report # 0
    BY <1>1, <2>1, <2>3
  <2> QED  BY <2>2, <2>3
<1> QED  BY <1>3 DEF Keeps

LEMMA MotionAsScrollKeeps ==
    ASSUME NEW s, NEW b, Sound(s, b), NEW divisor \in [{"x", "y"} -> Int]
    PROVE  Keeps(s, b, MotionAsScroll(s, divisor))
<1> DEFINE told(t, a) == Signed(Quotient(t.accumulated[a], divisor[a]), ScrollRange)
           rest(t, a) == Remainder(t.accumulated[a], divisor[a])
           left(t) == [t.accumulated EXCEPT !["x"] = rest(t, "x"), !["y"] = rest(t, "y")]
           turn(t) == [Still EXCEPT !["z"] = told(t, "y")]
           result(t) == Written(t, turn(t), told(t, "x"), left(t))
<1>1. ASSUME NEW t \in CreateOrRetrieveMouseReport(s), t.mouse_hid_report # 0
      PROVE  Sound(result(t), b) /\ Kept(s, result(t))
  <2>1. Sound(t, b) /\ Kept(s, t)
    BY CreateKeeps DEF Keeps
  <2>2. t.accumulated \in [Axes -> Counts]
    BY <2>1 DEF Sound, Handlers
  <2>3. ASSUME NEW a \in {"x", "y"}
        PROVE  told(t, a) \in Int /\ rest(t, a) \in Counts
    <3>1. t.accumulated[a] \in Counts /\ t.accumulated[a] \in Int /\ divisor[a] \in Int
      BY <2>2, CountsAreInts DEF Axes
    <3>2. Quotient(t.accumulated[a], divisor[a]) \in Int
      BY <3>1, QuotientType
    <3>3. told(t, a) \in Int
      BY <3>2, SignedType, RangeAssumption
    <3>4. rest(t, a) \in Counts
      BY <3>1, RemainderInCounts
    <3> QED  BY <3>3, <3>4
  <2>4. /\ told(t, "x") \in Int /\ told(t, "y") \in Int
        /\ rest(t, "x") \in Counts /\ rest(t, "y") \in Counts
    BY <2>3
  <2> HIDE DEF told, rest
  <2>5. turn(t) \in [Axes -> Int]
    BY <2>4 DEF Still, Axes
  <2>6. left(t) \in [Axes -> Counts]
    BY <2>2, <2>4 DEF Axes
  <2> HIDE DEF turn, left
  <2>7. Sound(result(t), b) /\ Kept(t, result(t))
    BY <1>1, <2>1, <2>4, <2>5, <2>6, WriteKeeps
  <2> QED  BY <2>1, <2>7, KeptTwice
<1>2. ASSUME NEW t \in CreateOrRetrieveMouseReport(s)
      PROVE  /\ Sound(t, b) /\ Kept(s, t)
             /\ [WriteMotion(t, turn(t), told(t, "x"))
                    EXCEPT !.accumulated.x = rest(t, "x"),
                           !.accumulated.y = rest(t, "y")] = result(t)
  <2>1. Sound(t, b) /\ Kept(s, t)
    BY CreateKeeps DEF Keeps
  <2>2. "accumulated" \in DOMAIN WriteMotion(t, turn(t), told(t, "x"))
        /\ WriteMotion(t, turn(t), told(t, "x")).accumulated = t.accumulated
    BY <2>1 DEF WriteMotion, Sound, Handlers
  <2> QED  BY <2>1, <2>2 DEF Written
<1>3. ASSUME NEW u \in MotionAsScroll(s, divisor)
      PROVE  Sound(u, b) /\ Kept(s, u)
  <2>1. PICK t \in CreateOrRetrieveMouseReport(s) :
          u = IF t.mouse_hid_report = 0
                THEN t
                ELSE [WriteMotion(t, turn(t), told(t, "x"))
                        EXCEPT !.accumulated.x = rest(t, "x"),
                               !.accumulated.y = rest(t, "y")]
    BY <1>3 DEF MotionAsScroll
  <2>2. CASE t.mouse_hid_report = 0
    BY <1>2, <2>1, <2>2
  <2>3. CASE t.mouse_hid_report # 0
    <3> HIDE DEF result, turn, told, rest
    <3>1. [WriteMotion(t, turn(t), told(t, "x"))
             EXCEPT !.accumulated.x = rest(t, "x"),
                    !.accumulated.y = rest(t, "y")] = result(t)
      BY <1>2
    <3>2. u = result(t)
      BY <2>1, <2>3, <3>1
    <3>3. Sound(result(t), b) /\ Kept(s, result(t))
      BY <1>1, <2>3
    <3> QED  BY <3>2, <3>3
  <2> QED  BY <2>2, <2>3
<1> QED  BY <1>3 DEF Keeps

\* The states that only allocating a keyboard report may lead to.
LEMMA KeyboardKeeps ==
    ASSUME NEW s, NEW b, Sound(s, b), NEW modifiers \in SUBSET Modifiers,
           NEW keys \in SUBSET KeyCodes, NEW held \in SUBSET Modifiers,
           NEW then, then = [s EXCEPT !.modifier_keys_state = held],
           NEW t \in Allocate(s, KeyboardReport(modifiers, keys), then)
    PROVE  Sound(t, b) /\ KeypadKept(s, t) /\ (keys = {} => Lifts(s, t))
<1> DEFINE r == KeyboardReport(modifiers, keys)
<1>1. s \in Handlers
  BY DEF Sound
<1>2. then \in Handlers
  BY <1>1 DEF Handlers
<1>3. /\ then.hid_report_buf = s.hid_report_buf
      /\ then.mouse_hid_report = s.mouse_hid_report
      /\ then.previous_primary_button_state = s.previous_primary_button_state
      /\ KeypadKept(s, then)
  BY <1>1 DEF Handlers, KeypadKept
<1>4. r \in Reports /\ r.kind # "mouse" /\ r.keys = keys
  BY DEF KeyboardReport, Reports, KeyboardReports
<1>5. t \in Allocate(s, r, then)
  OBVIOUS
<1> HIDE DEF r
<1> QED  BY <1>2, <1>3, <1>4, <1>5, AllocateSound, AllocateLifts

LEMMA SameModifiers ==
    ASSUME NEW s \in Handlers
    PROVE  s = [s EXCEPT !.modifier_keys_state = s.modifier_keys_state]
  BY DEF Handlers

\* A report without keys, with modifiers the keyboard keeps.
LEMMA NoKeysKeep ==
    ASSUME NEW s, NEW b, Sound(s, b), NEW modifiers \in SUBSET Modifiers,
           NEW held \in SUBSET Modifiers,
           NEW then, then = [s EXCEPT !.modifier_keys_state = held]
    PROVE  Keeps(s, b, Allocate(s, KeyboardReport(modifiers, {}), then))
<1>1. {} \in SUBSET KeyCodes
  OBVIOUS
<1> QED  BY <1>1, KeyboardKeeps DEF Keeps, Kept

\* Press and lift: if the lift was refused, the buffer is nearly full; if it was
\* not, it is the last word.
LEMMA PressReleaseKeeps ==
    ASSUME NEW s, NEW b, Sound(s, b), NEW p \in Presses
    PROVE  Keeps(s, b, KeyboardPressRelease(s, p))
<1>1. /\ s \in Handlers /\ s.modifier_keys_state \in SUBSET Modifiers
      /\ p.modifiers \in SUBSET Modifiers /\ p.keys \in SUBSET KeyCodes
  BY DEF Sound, Handlers, Presses
<1>2. ASSUME NEW t \in Allocate(s, PressReport(s, p), s)
      PROVE  Sound(t, b) /\ KeypadKept(s, t)
  <2> DEFINE both == s.modifier_keys_state \cup p.modifiers
  <2>1. both \in SUBSET Modifiers
    BY <1>1
  <2>2. t \in Allocate(s, KeyboardReport(both, p.keys), s)
    BY DEF PressReport
  <2> HIDE DEF both
  <2> QED  BY <1>1, <2>1, <2>2, SameModifiers, KeyboardKeeps
<1>3. ASSUME NEW t \in Allocate(s, PressReport(s, p), s),
             NEW u \in Allocate(t, LiftReport(t), t)
      PROVE  Sound(u, b) /\ Kept(s, u)
  <2>1. Sound(t, b) /\ KeypadKept(s, t)
    BY <1>2
  <2>2. t \in Handlers /\ t.modifier_keys_state \in SUBSET Modifiers
        /\ {} \in SUBSET KeyCodes /\ t.hid_report_buf \in Seq(Reports)
    BY <2>1 DEF Sound, Handlers
  <2>3. Sound(u, b) /\ KeypadKept(t, u)
    BY <2>1, <2>2, SameModifiers, KeyboardKeeps DEF LiftReport
  <2>4. KeypadKept(s, u)
    BY <2>1, <2>3 DEF KeypadKept
  <2> DEFINE r == LiftReport(t)
  <2>5. r \in Reports /\ r.kind = "keyboard" /\ r.keys = {}
    BY <2>2 DEF LiftReport, KeyboardReport, Reports, KeyboardReports
  <2>6. u \in Allocate(t, r, t)
    OBVIOUS
  <2> HIDE DEF r
  <2>7. CASE u = t /\ MayRefuse(t, r)
    <3>1. BytesUsed(t) + (BlockSize[r.kind] - 1) + (LargestBlock - 1) >= MaxBufferSize
      BY <2>7 DEF MayRefuse
    <3>2. BlockSize[r.kind] = 7
      BY <2>5 DEF BlockSize
    <3>3. NearlyFull(u)
      BY <2>7, <3>1, <3>2 DEF NearlyFull
    <3> QED  BY <2>3, <2>4, <3>3 DEF Kept, Lifts, Lifted
  <2>8. CASE u.hid_report_buf = Append(t.hid_report_buf, r)
    <3>1. \A k : HeldIn(u, k) = {}
      BY <2>2, <2>5, <2>8, AppendedBelief DEF HeldIn
    <3> QED  BY <2>3, <2>4, <3>1 DEF Kept, Lifts, Lifted
  <2>9. \/ u = t /\ MayRefuse(t, r)
        \/ u.hid_report_buf = Append(t.hid_report_buf, r)
    BY <2>2, <2>6, AllocateBuffer
  <2> QED  BY <2>7, <2>8, <2>9
<1> QED  BY <1>3 DEF Keeps, KeyboardPressRelease

LEMMA ReleaseAllKeeps ==
    ASSUME NEW s, NEW b, Sound(s, b)
    PROVE  Keeps(s, b, ReleaseAllKeys(s))
  BY NoKeysKeep DEF ReleaseAllKeys

LEMMA ModifierHoldKeeps ==
    ASSUME NEW s, NEW b, Sound(s, b), NEW hold \in SUBSET Modifiers, NEW p \in Presses
    PROVE  Keeps(s, b, ModifierHoldPressRelease(s, hold, p))
<1> DEFINE then == [s EXCEPT !.modifier_keys_state = hold]
           T == Allocate(s, KeyboardReport(hold, {}), then)
<1>1. Keeps(s, b, T)
  BY NoKeysKeep
<1>2. ModifierHoldPressRelease(s, hold, p) = UNION {KeyboardPressRelease(t, p) : t \in T}
  BY DEF ModifierHoldPressRelease
<1> HIDE DEF T
<1>3. ASSUME NEW t \in T, NEW u \in KeyboardPressRelease(t, p)
      PROVE  Sound(u, b) /\ Kept(s, u)
  <2>1. Sound(t, b) /\ Kept(s, t)
    BY <1>1 DEF Keeps
  <2>2. Sound(u, b) /\ Kept(t, u)
    BY <2>1, PressReleaseKeeps DEF Keeps
  <2> QED  BY <2>1, <2>2, KeptTwice
<1> QED  BY <1>2, <1>3 DEF Keeps

LEMMA AbsolutePositionKeeps ==
    ASSUME NEW s, NEW b, Sound(s, b), NEW button \in Int
    PROVE  Keeps(s, b, AbsoluteMousePosition(s, button))
<1> DEFINE r == AbsoluteReport(button)
           then == [s EXCEPT !.previous_keypad_state = s.current_keypad_state]
<1>1. s \in Handlers
  BY DEF Sound
<1>2. then \in Handlers
  BY <1>1 DEF Handlers
<1>3. /\ then.hid_report_buf = s.hid_report_buf
      /\ then.mouse_hid_report = s.mouse_hid_report
      /\ then.previous_primary_button_state = s.previous_primary_button_state
      /\ KeypadKept(s, then)
  BY <1>1 DEF Handlers, KeypadKept
<1>4. r \in Reports /\ r.kind = "absolute"
  BY DEF AbsoluteReport, Reports, AbsoluteReports
<1>5. AbsoluteMousePosition(s, button) = Allocate(s, r, then)
  BY DEF AbsoluteMousePosition
<1> HIDE DEF r, then
<1>6. ASSUME NEW t \in Allocate(s, r, then)
      PROVE  Sound(t, b) /\ KeypadKept(s, t) /\ Lifts(s, t)
  BY <1>2, <1>3, <1>4, AllocateSound, AllocateLifts
<1> QED  BY <1>5, <1>6 DEF Keeps, Kept

\* The accumulators may change as they like within their type.
LEMMA AccumulateKeeps ==
    ASSUME NEW s, NEW b, Sound(s, b), NEW accumulated \in [Axes -> Counts],
           NEW t, t = [s EXCEPT !.accumulated = accumulated]
    PROVE  Sound(t, b) /\ Kept(s, t)
<1>1. s \in Handlers
  BY DEF Sound
<1>2. /\ t \in Handlers
      /\ t.hid_report_buf = s.hid_report_buf
      /\ t.mouse_hid_report = s.mouse_hid_report
      /\ t.previous_primary_button_state = s.previous_primary_button_state
      /\ KeypadKept(s, t)
  BY <1>1 DEF Handlers, KeypadKept
<1>3. BytesUsed(t) = BytesUsed(s)
  BY <1>2, BytesInBuffer
<1> QED  BY <1>2, <1>3, SameBufferLifts DEF Sound, ReportIsThere, InStep, Kept

LEMMA StrikeKeeps ==
    ASSUME NEW s, NEW b, Sound(s, b), NEW a \in Axes,
           NEW quotient \in [Axes -> Int],
           NEW press \in [Axes -> [BOOLEAN -> Presses]]
    PROVE  Keeps(s, b, Strike(s, a, quotient, press))
<1>1. CASE quotient[a] = 0
  BY <1>1, KeepsItself DEF Strike
<1>2. CASE quotient[a] # 0
  <2> DEFINE p == press[a][quotient[a] > 0]
             only(t) == [Still EXCEPT ![a] = t.accumulated[a]]
  <2>1. p \in Presses
    <3>1. (quotient[a] > 0) \in BOOLEAN
      OBVIOUS
    <3>2. press[a] \in [BOOLEAN -> Presses]
      OBVIOUS
    <3> QED  BY <3>1, <3>2, Zenon
  <2>2. Strike(s, a, quotient, press) =
          {[t EXCEPT !.accumulated = only(t)] : t \in KeyboardPressRelease(s, p)}
    BY <1>2 DEF Strike
  <2> HIDE DEF p
  <2>3. ASSUME NEW t \in KeyboardPressRelease(s, p),
               NEW u, u = [t EXCEPT !.accumulated = only(t)]
        PROVE  Sound(u, b) /\ Kept(s, u)
    <3>1. Sound(t, b) /\ Kept(s, t)
      BY <2>1, PressReleaseKeeps DEF Keeps
    <3>2. t.accumulated[a] \in Counts
      BY <3>1 DEF Sound, Handlers
    <3>3. only(t) \in [Axes -> Counts]
      BY <3>2, CountsAreInts DEF Still
    <3> HIDE DEF only
    <3>4. Sound(u, b) /\ Kept(t, u)
      BY <2>3, <3>1, <3>3, AccumulateKeeps
    <3> QED  BY <3>1, <3>4, KeptTwice
  <2> HIDE DEF only
  <2> QED  BY <2>2, <2>3 DEF Keeps
<1> QED  BY <1>1, <1>2

LEMMA MotionModKeeps ==
    ASSUME NEW s, NEW b, Sound(s, b), NEW divisor \in [Axes -> Int],
           NEW press \in [Axes -> [BOOLEAN -> Presses]]
    PROVE  Keeps(s, b, MotionModKeyPressRelease(s, divisor, press))
<1> DEFINE q == [a \in Axes |-> Signed(Quotient(s.accumulated[a], divisor[a]), ScrollRange)]
           rest == [a \in Axes |-> Remainder(s.accumulated[a], divisor[a])]
           left == [s EXCEPT !.accumulated = rest]
<1>1. s.accumulated \in [Axes -> Counts]
  BY DEF Sound, Handlers
<1>2. ASSUME NEW a \in Axes
      PROVE  /\ Signed(Quotient(s.accumulated[a], divisor[a]), ScrollRange) \in Int
             /\ Remainder(s.accumulated[a], divisor[a]) \in Counts
  <2>1. s.accumulated[a] \in Counts /\ s.accumulated[a] \in Int /\ divisor[a] \in Int
    BY <1>1, CountsAreInts
  <2>2. Quotient(s.accumulated[a], divisor[a]) \in Int
    BY <2>1, QuotientType
  <2>3. Signed(Quotient(s.accumulated[a], divisor[a]), ScrollRange) \in Int
    BY <2>2, SignedType, RangeAssumption
  <2> QED  BY <2>1, <2>3, RemainderInCounts
<1>3. q \in [Axes -> Int] /\ rest \in [Axes -> Counts]
  BY <1>2
<1>4. MotionModKeyPressRelease(s, divisor, press) =
        UNION {UNION {Strike(u, "y", q, press) : u \in Strike(t, "x", q, press)} :
               t \in Strike(left, "z", q, press)}
  BY DEF MotionModKeyPressRelease
<1> HIDE DEF q, rest
<1>5. Sound(left, b) /\ Kept(s, left)
  BY <1>3, AccumulateKeeps
<1> HIDE DEF left
<1>6. "x" \in Axes /\ "y" \in Axes /\ "z" \in Axes
  BY DEF Axes
<1>7. ASSUME NEW t \in Strike(left, "z", q, press), NEW u \in Strike(t, "x", q, press),
             NEW v \in Strike(u, "y", q, press)
      PROVE  Sound(v, b) /\ Kept(s, v)
  <2>1. Sound(t, b) /\ Kept(left, t)
    BY <1>3, <1>5, <1>6, StrikeKeeps DEF Keeps
  <2>2. Sound(u, b) /\ Kept(t, u)
    BY <1>3, <1>6, <2>1, StrikeKeeps DEF Keeps
  <2>3. Sound(v, b) /\ Kept(u, v)
    BY <1>3, <1>6, <2>2, StrikeKeeps DEF Keeps
  <2>4. Kept(s, t)
    BY <1>5, <2>1, KeptTwice
  <2>5. Kept(s, u)
    BY <2>2, <2>4, KeptTwice
  <2> QED  BY <2>3, <2>5, KeptTwice
<1> QED  BY <1>4, <1>7 DEF Keeps

\* Whatever an entry of an event table says, it keeps the state sound.
LEMMA PerformKeeps ==
    ASSUME NEW s, NEW b, Sound(s, b), NEW e \in Entries
    PROVE  Keeps(s, b, Perform(s, e))
<1>1. CASE e.func = "NO_REPORT"
  BY <1>1, KeepsItself DEF Perform
<1>2. CASE e.func = "RELEASE_ALL_KEYS"
  BY <1>2, ReleaseAllKeeps DEF Perform
<1>3. CASE e.func = "ALTERED_MOUSE_MOVEMENT"
  <2>1. e.factor \in [Axes -> Int]
    BY <1>3 DEF Entries
  <2> QED  BY <1>3, <2>1, AlteredMovementKeeps DEF Perform
<1>4. CASE e.func = "ABSOLUTE_MOUSE_POSITIION"
  <2>1. e.button \in Int
    BY <1>4 DEF Entries
  <2> QED  BY <1>4, <2>1, AbsolutePositionKeeps DEF Perform
<1>5. CASE e.func = "KEYBOARD_PRESS_RELEASE"
  <2>1. e.press \in Presses
    BY <1>5 DEF Entries
  <2> QED  BY <1>5, <2>1, PressReleaseKeeps DEF Perform
<1>6. CASE e.func = "MOTION_MOD_KEY_PRESS_RELEASE"
  <2>1. e.divisor \in [Axes -> Int] /\ e.press \in [Axes -> [BOOLEAN -> Presses]]
    BY <1>6 DEF Entries
  <2> QED  BY <1>6, <2>1, MotionModKeeps DEF Perform
<1>7. CASE e.func = "MODIFIER_HOLD_PRESS_RELEASE"
  <2>1. e.hold \in SUBSET Modifiers /\ e.press \in Presses
    BY <1>7 DEF Entries
  <2> QED  BY <1>7, <2>1, ModifierHoldKeeps DEF Perform
<1>8. CASE e.func = "MOTION_AS_SCROLL"
  <2>1. e.divisor \in [{"x", "y"} -> Int]
    BY <1>8 DEF Entries
  <2> QED  BY <1>8, <2>1, MotionAsScrollKeeps DEF Perform
<1>9. e.func \in {"NO_REPORT", "RELEASE_ALL_KEYS", "ALTERED_MOUSE_MOVEMENT",
                  "ABSOLUTE_MOUSE_POSITIION", "KEYBOARD_PRESS_RELEASE",
                  "MOTION_MOD_KEY_PRESS_RELEASE", "MODIFIER_HOLD_PRESS_RELEASE",
                  "MOTION_AS_SCROLL"}
  BY DEF Entries
<1> QED
  BY <1>1, <1>2, <1>3, <1>4, <1>5, <1>6, <1>7, <1>8, <1>9

-----------------------------------------------------------------------------
(***************************************************************************)
(* The poll interval timer.                                                *)
(***************************************************************************)
TablesOK == /\ event_handler_table \in [Applications -> [KeyIndexes -> EventTables]]
            /\ current_application_id \in Applications
            /\ to_load \subseteq StoredEntries

LEMMA EntryType ==
    ASSUME NEW s, NEW b, Sound(s, b), TablesOK, NEW event \in Events
    PROVE  EventTable(s)[event] \in Entries
<1>1. KeyIndex(s) \in KeyIndexes
  <2>1. s.tracking_pressed_key \in Keys \cup {0}
    BY DEF Sound, Handlers
  <2> QED  BY <2>1 DEF KeyIndex, KeyIndexes
<1>2. EventTable(s) \in EventTables
  BY <1>1 DEF TablesOK, EventTable
<1> QED  BY <1>2 DEF EventTables

LEMMA DispatchKeeps ==
    ASSUME NEW s, NEW b, Sound(s, b), TablesOK, NEW event \in Events
    PROVE  Keeps(s, b, DispatchApplicationEventType(s, event))
  BY EntryType, PerformKeeps DEF DispatchApplicationEventType

\* The timer and the tracked key go with the keypad state reported last.
Followed(s) ==
    /\ (s.timer = "running") <=> (s.previous_keypad_state # {})
    /\ (s.tracking_pressed_key # 0) <=> (s.previous_keypad_state # {})

\* The fields that no report depends on may change as they like.
LEMMA RestKeeps ==
    ASSUME NEW s, NEW b, Sound(s, b), NEW t \in Handlers,
           t.hid_report_buf = s.hid_report_buf,
           t.mouse_hid_report \in {0, s.mouse_hid_report},
           t.previous_primary_button_state = s.previous_primary_button_state
    PROVE  Sound(t, b)
<1>1. BytesUsed(t) = BytesUsed(s)
  BY BytesInBuffer
<1> QED  BY <1>1 DEF Sound, ReportIsThere, InStep

Tracked(s, timer, key) == [s EXCEPT !.timer = timer, !.tracking_pressed_key = key]

LEMMA TrackKeeps ==
    ASSUME NEW s, NEW b, Sound(s, b), NEW timer \in {"running", "stopped"},
           NEW key \in Keys \cup {0}, NEW t, t = Tracked(s, timer, key)
    PROVE  /\ Sound(t, b) /\ Lifts(s, t)
           /\ t.timer = timer /\ t.tracking_pressed_key = key
           /\ InputKept(s, t)
<1>1. s \in Handlers
  BY DEF Sound
<1>2. /\ t \in Handlers /\ t.timer = timer /\ t.tracking_pressed_key = key
      /\ InputKept(s, t)
      /\ t.hid_report_buf = s.hid_report_buf
      /\ t.mouse_hid_report = s.mouse_hid_report
      /\ t.previous_primary_button_state = s.previous_primary_button_state
  BY <1>1 DEF Handlers, Tracked, InputKept
<1> QED  BY <1>2, RestKeeps, SameBufferLifts

LEMMA SettleKeeps ==
    ASSUME NEW s, NEW b, Sound(s, b), NEW keys \in KeypadStates,
           NEW t, t = [s EXCEPT !.previous_keypad_state = keys]
    PROVE  /\ Sound(t, b) /\ Lifts(s, t) /\ t.previous_keypad_state = keys
           /\ InputKept(s, t)
           /\ t.timer = s.timer /\ t.tracking_pressed_key = s.tracking_pressed_key
<1>1. s \in Handlers
  BY DEF Sound
<1>2. /\ t \in Handlers /\ t.timer = s.timer
      /\ t.tracking_pressed_key = s.tracking_pressed_key
      /\ t.previous_keypad_state = keys
      /\ InputKept(s, t)
      /\ t.hid_report_buf = s.hid_report_buf
      /\ t.mouse_hid_report = s.mouse_hid_report
      /\ t.previous_primary_button_state = s.previous_primary_button_state
  BY <1>1 DEF Handlers, InputKept
<1> QED  BY <1>2, RestKeeps, SameBufferLifts

\* Unlike an entry of the event tables, the button report never touches the
\* keypad state.
LEMMA ReportButtonsKeeps ==
    ASSUME NEW s, NEW b, Sound(s, b), Followed(s), NEW t \in ReportButtons(s)
    PROVE  Sound(t, b) /\ Followed(t) /\ Lifts(s, t) /\ InputKept(s, t)
<1>1. CASE t = s
  BY <1>1 DEF Lifts, InputKept
<1>2. CASE t \in CreateOrRetrieveMouseReport(s)
  <2>1. Sound(t, b) /\ KeypadKept(s, t) /\ Lifts(s, t)
    BY <1>2, CreateKeeps DEF Keeps, Kept
  <2>2. t.previous_keypad_state = s.previous_keypad_state
    <3>1. s \in Handlers
      BY DEF Sound
    <3> QED  BY <1>2, <3>1 DEF CreateOrRetrieveMouseReport, Allocate, Handlers
  <2> QED  BY <2>1, <2>2 DEF KeypadKept, Followed, InputKept
<1> QED  BY <1>1, <1>2 DEF ReportButtons

LEMMA KeyUpKeeps ==
    ASSUME NEW s, NEW b, Sound(s, b), TablesOK, NEW v \in KeyUp(s)
    PROVE  /\ Sound(v, b) /\ Lifts(s, v)
           /\ v.timer = "stopped" /\ v.tracking_pressed_key = 0
           /\ InputKept(s, v)
<1> DEFINE T == IF s.modifier_keys_state # {} THEN ReleaseAllKeys(s) ELSE {s}
           up(t) == Tracked(t, "stopped", 0)
<1>1. Keeps(s, b, T)
  BY ReleaseAllKeeps, KeepsItself
<1>2. PICK t \in T : v \in DispatchApplicationEventType(up(t), "SHORT_PRESS_UP")
  BY DEF KeyUp, Tracked
<1>3. Sound(t, b) /\ Lifts(s, t) /\ InputKept(s, t)
  BY <1>1 DEF Keeps, Kept, KeypadKept, InputKept
<1>4. /\ Sound(up(t), b) /\ Lifts(t, up(t))
      /\ up(t).timer = "stopped" /\ up(t).tracking_pressed_key = 0
      /\ InputKept(t, up(t))
  <2>1. "stopped" \in {"running", "stopped"} /\ 0 \in Keys \cup {0}
    OBVIOUS
  <2> QED  BY <1>3, <2>1, TrackKeeps
<1> HIDE DEF up
<1>5. Sound(v, b) /\ KeypadKept(up(t), v) /\ Lifts(up(t), v)
  <2>1. "SHORT_PRESS_UP" \in Events
    BY DEF Events
  <2> QED  BY <1>2, <1>4, <2>1, DispatchKeeps DEF Keeps, Kept
<1>6. Lifts(s, v)
  BY <1>3, <1>4, <1>5, LiftsTwice
<1> QED  BY <1>3, <1>4, <1>5, <1>6 DEF KeypadKept, InputKept

LEMMA FirstKeyType ==
    ASSUME NEW s, NEW b, Sound(s, b), s.current_keypad_state # {}
    PROVE  FirstKey(s.current_keypad_state) \in Keys
<1>1. s.current_keypad_state \in SUBSET Keys /\ s.current_keypad_state \in SUBSET Nat
  BY ConfigurationAssumption DEF Sound, Handlers
<1>2. PICK k \in s.current_keypad_state : \A l \in s.current_keypad_state : k <= l
  BY <1>1, LeastExists
<1>3. FirstKey(s.current_keypad_state) \in s.current_keypad_state
  BY <1>2 DEF FirstKey
<1> QED  BY <1>1, <1>3

LEMMA KeyDownKeeps ==
    ASSUME NEW s, NEW b, Sound(s, b), TablesOK, s.current_keypad_state # {},
           NEW v \in KeyDown(s)
    PROVE  /\ Sound(v, b) /\ Lifts(s, v)
           /\ v.timer = "running" /\ v.tracking_pressed_key # 0
           /\ InputKept(s, v)
<1> DEFINE key == FirstKey(s.current_keypad_state)
           T == AlteredMouseMovement(s, Unaltered)
           down(t) == Tracked(t, "running", key)
<1>1. key \in Keys
  BY FirstKeyType
<1>2. key # 0
  BY <1>1, ConfigurationAssumption
<1>3. Keeps(s, b, T)
  <2>1. Unaltered \in [Axes -> Int]
    BY DEF Unaltered
  <2> QED  BY <2>1, AlteredMovementKeeps
<1>4. PICK t \in T : v \in DispatchApplicationEventType(down(t), "KEY_DOWN")
  BY DEF KeyDown, Tracked
<1> HIDE DEF key, T
<1>5. Sound(t, b) /\ Lifts(s, t) /\ InputKept(s, t)
  BY <1>3 DEF Keeps, Kept, KeypadKept, InputKept
<1>6. /\ Sound(down(t), b) /\ Lifts(t, down(t)) /\ down(t).timer = "running"
      /\ down(t).tracking_pressed_key = key
      /\ InputKept(t, down(t))
  <2>1. "running" \in {"running", "stopped"} /\ key \in Keys \cup {0}
    BY <1>1
  <2> QED  BY <1>5, <2>1, TrackKeeps
<1> HIDE DEF down
<1>7. Sound(v, b) /\ KeypadKept(down(t), v) /\ Lifts(down(t), v)
  <2>1. "KEY_DOWN" \in Events
    BY DEF Events
  <2> QED  BY <1>4, <1>6, <2>1, DispatchKeeps DEF Keeps, Kept
<1>8. Lifts(s, v)
  BY <1>5, <1>6, <1>7, LiftsTwice
<1> QED  BY <1>2, <1>5, <1>6, <1>7, <1>8 DEF KeypadKept, InputKept

\* After the keypad was reported the state handled last is the current one.
LEMMA ReportKeypadKeeps ==
    ASSUME NEW s, NEW b, Sound(s, b), TablesOK, Followed(s), NEW v \in ReportKeypad(s)
    PROVE  /\ Sound(v, b) /\ Followed(v) /\ Lifts(s, v) /\ InputKept(s, v)
           /\ v.previous_keypad_state = v.current_keypad_state
<1>1. CASE s.current_keypad_state = s.previous_keypad_state
  BY <1>1 DEF ReportKeypad, Lifts, InputKept
<1>2. CASE s.current_keypad_state # s.previous_keypad_state
  <2> DEFINE T == IF s.current_keypad_state = {}       THEN KeyUp(s)
                  ELSE IF s.previous_keypad_state = {} THEN KeyDown(s)
                  ELSE {s}
  <2>1. PICK t \in T : v = [t EXCEPT !.previous_keypad_state = s.current_keypad_state]
    BY <1>2 DEF ReportKeypad
  <2>2. /\ Sound(t, b) /\ Lifts(s, t)
        /\ InputKept(s, t)
        /\ (t.timer = "running") <=> (s.current_keypad_state # {})
        /\ (t.tracking_pressed_key # 0) <=> (s.current_keypad_state # {})
    <3>1. CASE s.current_keypad_state = {}
      BY <3>1, KeyUpKeeps
    <3>2. CASE s.current_keypad_state # {} /\ s.previous_keypad_state = {}
      BY <3>2, KeyDownKeeps
    <3>3. CASE s.current_keypad_state # {} /\ s.previous_keypad_state # {}
      BY <3>3 DEF Followed, Lifts, InputKept
    <3> QED  BY <3>1, <3>2, <3>3
  <2>3. s.current_keypad_state \in KeypadStates
    BY DEF Sound, Handlers
  <2>4. /\ Sound(v, b) /\ Lifts(t, v)
        /\ v.previous_keypad_state = s.current_keypad_state
        /\ InputKept(t, v)
        /\ v.timer = t.timer /\ v.tracking_pressed_key = t.tracking_pressed_key
    BY <2>1, <2>2, <2>3, SettleKeeps
  <2>5. Lifts(s, v)
    BY <2>2, <2>4, LiftsTwice
  <2> QED  BY <2>2, <2>4, <2>5 DEF Followed, InputKept
<1> QED  BY <1>1, <1>2

LEMMA ReportMotionKeeps ==
    ASSUME NEW s, NEW b, Sound(s, b), TablesOK, Followed(s),
           s.previous_keypad_state = s.current_keypad_state, NEW v \in ReportMotion(s)
    PROVE  Sound(v, b) /\ Followed(v) /\ Lifts(s, v) /\ InputKept(s, v)
<1>1. CASE v = s
  BY <1>1 DEF Lifts, InputKept
<1>2. CASE v \in DispatchApplicationEventType(s, "MOUSE_MOVEMENT")
  <2>1. "MOUSE_MOVEMENT" \in Events
    BY DEF Events
  <2>2. Sound(v, b) /\ KeypadKept(s, v) /\ Lifts(s, v)
    BY <1>2, <2>1, DispatchKeeps DEF Keeps, Kept
  <2> QED  BY <2>2 DEF KeypadKept, Followed, InputKept
<1> QED  BY <1>1, <1>2 DEF ReportMotion

-----------------------------------------------------------------------------
(***************************************************************************)
(* The host takes the oldest report.                                       *)
(***************************************************************************)
LEMMA TailPositions ==
    ASSUME NEW buf \in Seq(Reports), buf # <<>>, NEW kind
    PROVE  /\ Tail(buf) \in Seq(Reports) /\ Len(Tail(buf)) = Len(buf) - 1
           /\ \A i \in 1 .. Len(buf) - 1 : Tail(buf)[i] = buf[i + 1]
           /\ Positions(Tail(buf), kind) =
                {i \in 1 .. Len(buf) - 1 : i + 1 \in Positions(buf, kind)}
<1>1. /\ Tail(buf) \in Seq(Reports) /\ Len(Tail(buf)) = Len(buf) - 1
      /\ Len(buf) \in Nat \ {0} /\ DOMAIN Tail(buf) = 1 .. Len(buf) - 1
      /\ \A i \in 1 .. Len(buf) - 1 : Tail(buf)[i] = buf[i + 1]
  OBVIOUS
<1>2. ASSUME NEW i
      PROVE  i \in Positions(Tail(buf), kind)
               <=> i \in 1 .. Len(buf) - 1 /\ i + 1 \in Positions(buf, kind)
  BY <1>1 DEF Positions
<1> QED  BY <1>1, <1>2

LEMMA TailCardinality ==
    ASSUME NEW buf \in Seq(Reports), buf # <<>>, NEW kind
    PROVE  Cardinality(Positions(Tail(buf), kind)) <= Cardinality(Positions(buf, kind))
<1> DEFINE P == Positions(Tail(buf), kind)
           Q == Positions(buf, kind)
           next == [i \in P |-> i + 1]
<1>1. P = {i \in 1 .. Len(buf) - 1 : i + 1 \in Q} /\ Len(buf) \in Nat
  BY TailPositions
<1>2. IsFiniteSet(Q)
  BY PositionsType
<1> HIDE DEF P, Q
<1>3. next \in [P -> Q]
  BY <1>1
<1>4. IsInjective(next)
  BY <1>1 DEF IsInjective
<1>5. next \in Injection(P, Q)
  BY <1>3, <1>4 DEF Injection
<1> HIDE DEF next
<1> QED  BY <1>2, <1>5, FS_Injection DEF P, Q

LEMMA TailBytes ==
    ASSUME NEW s, NEW t, s.hid_report_buf \in Seq(Reports), s.hid_report_buf # <<>>,
           t.hid_report_buf = Tail(s.hid_report_buf)
    PROVE  BytesUsed(t) <= BytesUsed(s)
<1> DEFINE C(kind) == Cardinality(Positions(s.hid_report_buf, kind))
           D(kind) == Cardinality(Positions(Tail(s.hid_report_buf), kind))
<1>1. \A kind : D(kind) <= C(kind)
  BY TailCardinality
<1>2. Tail(s.hid_report_buf) \in Seq(Reports)
  BY TailPositions
<1>3. \A kind : C(kind) \in Nat /\ D(kind) \in Nat
  BY <1>2, PositionsType
<1>4. /\ BytesUsed(s) = 10 * C("mouse") + 7 * C("keyboard") + 8 * C("absolute")
      /\ BytesUsed(t) = 10 * D("mouse") + 7 * D("keyboard") + 8 * D("absolute")
  BY BytesInBuffer
<1> HIDE DEF C, D
<1>5. ASSUME NEW a \in Nat, NEW b \in Nat, NEW c \in Nat,
             NEW d \in Nat, NEW e \in Nat, NEW f \in Nat, d <= a, e <= b, f <= c
      PROVE  10 * d + 7 * e + 8 * f <= 10 * a + 7 * b + 8 * c
  BY <1>5
<1>6. /\ D("mouse") <= C("mouse") /\ D("keyboard") <= C("keyboard")
      /\ D("absolute") <= C("absolute")
  BY <1>1
<1>7. 10 * D("mouse") + 7 * D("keyboard") + 8 * D("absolute")
        <= 10 * C("mouse") + 7 * C("keyboard") + 8 * C("absolute")
  BY <1>3, <1>5, <1>6
<1> QED  BY <1>4, <1>7

\* Taking a report moves what it says from the buffer to the host.
LEMMA TailBelief ==
    ASSUME NEW buf \in Seq(Reports), buf # <<>>, NEW kind, NEW field, NEW b,
           NEW c, c = IF Head(buf).kind = kind THEN Head(buf)[field] ELSE b
    PROVE  LastIn(Tail(buf), kind, field, c) = LastIn(buf, kind, field, b)
<1> DEFINE P == Positions(Tail(buf), kind)
           Q == Positions(buf, kind)
<1>1. /\ P = {i \in 1 .. Len(buf) - 1 : i + 1 \in Q}
      /\ \A i \in 1 .. Len(buf) - 1 : Tail(buf)[i] = buf[i + 1]
      /\ Q \in SUBSET (1 .. Len(buf)) /\ Len(buf) \in Nat \ {0}
      /\ Head(buf) = buf[1] /\ Tail(buf) \in Seq(Reports)
  BY TailPositions, PositionsType
<1>2. 1 \in Q <=> Head(buf).kind = kind
  BY <1>1 DEF Positions
<1>3. CASE Q = {}
  <2>1. P = {} /\ c = b
    BY <1>1, <1>2, <1>3
  <2> QED  BY <1>3, <2>1 DEF LastIn
<1>4. CASE Q # {} /\ P = {}
  <2>1. Q = {1}
    <3>1. ASSUME NEW i \in Q, i # 1 PROVE FALSE
      <4>1. i - 1 \in 1 .. Len(buf) - 1 /\ (i - 1) + 1 = i
        BY <1>1, <3>1
      <4>2. i - 1 \in P
        BY <1>1, <4>1
      <4> QED  BY <1>4, <4>2
    <3> QED  BY <1>4, <3>1
  <2>2. c = buf[1][field]
    BY <1>1, <1>2, <2>1
  <2>3. LastIn(Tail(buf), kind, field, c) = c
    BY <1>4 DEF LastIn
  <2>4. LastIn(buf, kind, field, b) = buf[1][field]
    <3>1. 1 \in Q /\ \A j \in Q : j <= 1
      BY <2>1
    <3>2. Max(Q) = 1
      BY <3>1, LastPosition
    <3> QED  BY <1>4, <3>2 DEF LastIn
  <2> QED  BY <2>2, <2>3, <2>4
<1>5. CASE P # {}
  <2> DEFINE m == Max(P)
  <2>1. P \in SUBSET (1 .. Len(buf) - 1) /\ Len(buf) - 1 \in Nat
    BY <1>1
  <2>2. m \in P /\ \A i \in P : i <= m
    BY <1>5, <2>1, MaxIsGreatest
  <2>3. m \in 1 .. Len(buf) - 1 /\ m + 1 \in Q
    BY <1>1, <2>2
  <2>4. ASSUME NEW j \in Q PROVE j <= m + 1
    <3>1. j \in 1 .. Len(buf) /\ m \in Nat /\ Len(buf) \in Nat
      BY <1>1, <2>3
    <3>2. CASE j = 1
      BY <3>1, <3>2
    <3>3. CASE j # 1
      <4>1. j - 1 \in 1 .. Len(buf) - 1 /\ (j - 1) + 1 = j
        BY <3>1, <3>3
      <4>2. j - 1 \in P
        BY <1>1, <4>1
      <4>3. j - 1 <= m
        BY <2>2, <4>2
      <4> QED  BY <3>1, <4>3
    <3> QED  BY <3>2, <3>3
  <2>5. LastIn(buf, kind, field, b) = buf[m + 1][field]
    <3>1. Max(Q) = m + 1
      BY <2>3, <2>4, LastPosition
    <3> QED  BY <2>3, <3>1 DEF LastIn
  <2>6. LastIn(Tail(buf), kind, field, c) = Tail(buf)[m][field]
    BY <1>5 DEF LastIn
  <2> QED  BY <1>1, <2>3, <2>5, <2>6
<1> QED  BY <1>3, <1>4, <1>5

-----------------------------------------------------------------------------
(***************************************************************************)
(* The inductive invariant.  Sound is what survives every refusal inside a *)
(* handler; between handlers there is no report of the interval.           *)
(***************************************************************************)
Hosts == [buttons : SUBSET (1 .. 3), keys : SUBSET KeyCodes]

MouseInv ==
    /\ Sound(handler, host.buttons)
    /\ handler.mouse_hid_report = 0
    /\ Followed(handler)
    /\ TablesOK
    /\ host \in Hosts

LEMMA InitInv == Init => MouseInv
<1> SUFFICES ASSUME Init PROVE MouseInv
  OBVIOUS
<1>1. handler \in Handlers
  <2>1. Still \in [Axes -> Counts]
    BY CountsAreInts DEF Still
  <2>2. <<>> \in Seq(Reports)
    OBVIOUS
  <2>3. {} \in ButtonStates /\ {} \in KeypadStates
    BY ConfigurationAssumption
  <2> HIDE DEF Still, Reports
  <2> QED  BY <2>1, <2>2, <2>3 DEF Init, Handlers
<1>2. handler.hid_report_buf = <<>> /\ handler.mouse_hid_report = 0
      /\ handler.previous_primary_button_state = {}
  BY DEF Init
<1>3. \A kind : Positions(<<>>, kind) = {}
  BY DEF Positions
<1>4. BytesUsed(handler) <= MaxBufferSize
  <2>1. \A kind : Cardinality(Positions(handler.hid_report_buf, kind)) = 0
    BY <1>2, <1>3, FS_EmptySet
  <2>2. BytesUsed(handler) = 0
    BY <2>1, BytesInBuffer
  <2> QED  BY <2>2, ConfigurationAssumption
<1>5. InStep(handler, host.buttons)
  <2>1. host.buttons = {} /\ Shown({}) = {}
    BY DEF Init, Shown
  <2> QED  BY <1>2, <1>3, <2>1 DEF InStep, BelievedIn, LastIn
<1>6. Followed(handler)
  BY DEF Init, Followed
<1>7. TablesOK
  BY ConfigurationAssumption DEF Init, TablesOK
<1>8. host \in Hosts
  BY DEF Init, Hosts
<1> QED  BY <1>1, <1>2, <1>4, <1>5, <1>6, <1>7, <1>8 DEF MouseInv, Sound, ReportIsThere

\* Between two poll intervals no report is the one of the interval.
LEMMA ForgetKeeps ==
    ASSUME NEW s, NEW b, Sound(s, b), Followed(s),
           NEW t, t = [s EXCEPT !.mouse_hid_report = 0]
    PROVE  /\ Sound(t, b) /\ Followed(t) /\ Lifts(s, t)
           /\ t.mouse_hid_report = 0 /\ InputKept(s, t)
<1>1. s \in Handlers
  BY DEF Sound
<1>2. /\ t \in Handlers /\ t.mouse_hid_report = 0
      /\ t.hid_report_buf = s.hid_report_buf
      /\ t.previous_primary_button_state = s.previous_primary_button_state
      /\ t.timer = s.timer /\ t.tracking_pressed_key = s.tracking_pressed_key
      /\ t.previous_keypad_state = s.previous_keypad_state
      /\ InputKept(s, t)
  BY <1>1 DEF Handlers, InputKept
<1> QED  BY <1>2, RestKeeps, SameBufferLifts DEF Followed

LEMMA TimerInv ==
    MouseInv /\ HidPollIntervalTimerCallback
    => MouseInv' /\ Lifts(handler, handler') /\ InputKept(handler, handler')
<1> SUFFICES ASSUME MouseInv, HidPollIntervalTimerCallback
             PROVE  MouseInv' /\ Lifts(handler, handler') /\ InputKept(handler, handler')
  OBVIOUS
<1> DEFINE b == host.buttons
           r == [handler EXCEPT !.mouse_hid_report = 0]
<1>1. PICK s \in ReportButtons(r) : \E t \in ReportKeypad(s) : \E u \in ReportMotion(t) :
        handler' = [u EXCEPT !.mouse_hid_report = 0]
  BY DEF HidPollIntervalTimerCallback
<1>2. PICK t \in ReportKeypad(s) : \E u \in ReportMotion(t) :
        handler' = [u EXCEPT !.mouse_hid_report = 0]
  BY <1>1
<1>3. PICK u \in ReportMotion(t) : handler' = [u EXCEPT !.mouse_hid_report = 0]
  BY <1>2
<1>4. Sound(r, b) /\ Followed(r) /\ Lifts(handler, r) /\ InputKept(handler, r)
  BY ForgetKeeps DEF MouseInv
<1> HIDE DEF r, b
<1>5. TablesOK
  BY DEF MouseInv
<1>6. Sound(s, b) /\ Followed(s) /\ Lifts(r, s) /\ InputKept(r, s)
  BY <1>4, ReportButtonsKeeps
<1>7. /\ Sound(t, b) /\ Followed(t) /\ Lifts(s, t) /\ InputKept(s, t)
      /\ t.previous_keypad_state = t.current_keypad_state
  BY <1>5, <1>6, ReportKeypadKeeps
<1>8. Sound(u, b) /\ Followed(u) /\ Lifts(t, u) /\ InputKept(t, u)
  BY <1>5, <1>7, ReportMotionKeeps
<1>9. /\ Sound(handler', b) /\ Followed(handler') /\ Lifts(u, handler')
      /\ handler'.mouse_hid_report = 0 /\ InputKept(u, handler')
  BY <1>3, <1>8, ForgetKeeps
<1>10. UNCHANGED <<event_handler_table, current_application_id, to_load, host>>
  BY DEF HidPollIntervalTimerCallback
<1>11. TablesOK'
  BY <1>5, <1>10 DEF TablesOK
<1>12. Sound(handler', host'.buttons) /\ host' \in Hosts
  BY <1>9, <1>10 DEF MouseInv, b
<1>13. Sound(handler, host.buttons)' /\ Followed(handler)'
  BY <1>9, <1>12 DEF Sound, Followed, ReportIsThere, InStep, BytesUsed, BelievedIn
<1>14. Lifts(handler, handler') /\ InputKept(handler, handler')
  BY <1>4, <1>6, <1>7, <1>8, <1>9 DEF Lifts, InputKept
<1> QED  BY <1>9, <1>11, <1>12, <1>13, <1>14 DEF MouseInv

LEMMA SpiInv == MouseInv /\ SpiRxComplete => MouseInv'
<1> SUFFICES ASSUME MouseInv, NEW d \in Moves, NEW pressed \in ButtonStates,
                    NEW down \in KeypadStates, UpdateState(d, pressed, down)
             PROVE  MouseInv'
  BY DEF SpiRxComplete
<1>1. handler \in Handlers
  BY DEF MouseInv, Sound
<1> DEFINE sum == Add(handler.accumulated, d)
<1>2. sum \in [Axes -> Counts]
  <2>1. ASSUME NEW a \in Axes
        PROVE  Signed(handler.accumulated[a] + d[a], MotionRange) \in Counts
    <3>1. d \in [Axes -> Int]
      BY ConfigurationAssumption
    <3>2. handler.accumulated \in [Axes -> Counts]
      BY <1>1 DEF Handlers
    <3>3. handler.accumulated[a] \in Int /\ d[a] \in Int
      BY <3>1, <3>2, CountsAreInts
    <3> QED  BY <3>3, SignedType, RangeAssumption DEF Counts
  <2> QED  BY <2>1 DEF Add
<1>3. handler' = [handler EXCEPT !.accumulated = sum,
                                 !.current_primary_button_state = pressed,
                                 !.current_keypad_state = down]
  BY <1>1 DEF UpdateState, Handlers
<1> HIDE DEF sum
<1>4. /\ handler' \in Handlers /\ handler'.mouse_hid_report = handler.mouse_hid_report
      /\ handler'.hid_report_buf = handler.hid_report_buf
      /\ handler'.previous_primary_button_state = handler.previous_primary_button_state
      /\ handler'.timer = handler.timer
      /\ handler'.tracking_pressed_key = handler.tracking_pressed_key
      /\ handler'.previous_keypad_state = handler.previous_keypad_state
  BY <1>1, <1>2, <1>3 DEF Handlers
<1>5. UNCHANGED <<event_handler_table, current_application_id, to_load, host>>
  BY DEF UpdateState
<1>6. Sound(handler', host.buttons)
  BY <1>4, RestKeeps DEF MouseInv
<1>7. Sound(handler, host.buttons)' /\ Followed(handler)'
  BY <1>4, <1>5, <1>6
  DEF MouseInv, Sound, Followed, ReportIsThere, InStep, BytesUsed, BelievedIn
<1> QED  BY <1>4, <1>5, <1>7 DEF MouseInv, TablesOK

LEMMA HostInv == MouseInv /\ HostTakes => MouseInv'
<1> SUFFICES ASSUME MouseInv, HostTakes PROVE MouseInv'
  OBVIOUS
<1> DEFINE buf == handler.hid_report_buf
           r == Head(buf)
<1>1. /\ handler \in Handlers /\ buf \in Seq(Reports) /\ buf # <<>>
      /\ r \in Reports /\ host \in Hosts /\ host' = Told(host, r)
  <2>1. handler \in Handlers /\ buf \in Seq(Reports) /\ buf # <<>> /\ host \in Hosts
        /\ host' = Told(host, r)
    BY DEF MouseInv, Sound, Handlers, HostTakes
  <2>2. r \in Reports
    BY <2>1
  <2> QED  BY <2>1, <2>2
<1> HIDE DEF r
<1>2. /\ host' \in Hosts
      /\ host'.buttons = IF r.kind = "mouse" THEN r.buttons ELSE host.buttons
  <2>1. CASE r \in MouseReports
    BY <1>1, <2>1 DEF Told, Hosts, MouseReports
  <2>2. CASE r \in KeyboardReports
    BY <1>1, <2>2 DEF Told, Hosts, KeyboardReports
  <2>3. CASE r \in AbsoluteReports
    BY <1>1, <2>3 DEF Told, Hosts, AbsoluteReports
  <2> QED  BY <1>1, <2>1, <2>2, <2>3 DEF Reports
<1>3. Tail(buf) \in Seq(Reports)
  BY <1>1, TailPositions
<1>4. handler' = [handler EXCEPT !.hid_report_buf = Tail(buf)]
  BY <1>1 DEF HostTakes, Handlers
<1>5. /\ handler' \in Handlers /\ handler'.mouse_hid_report = handler.mouse_hid_report
      /\ handler'.hid_report_buf = Tail(buf)
      /\ handler'.previous_primary_button_state = handler.previous_primary_button_state
      /\ handler'.timer = handler.timer
      /\ handler'.tracking_pressed_key = handler.tracking_pressed_key
      /\ handler'.previous_keypad_state = handler.previous_keypad_state
  BY <1>1, <1>3, <1>4 DEF Handlers
<1>6. BytesUsed(handler') <= MaxBufferSize
  <2>1. BytesUsed(handler') <= BytesUsed(handler)
    BY <1>1, <1>5, TailBytes
  <2>2. BytesUsed(handler) <= MaxBufferSize /\ MaxBufferSize \in Nat
    BY ConfigurationAssumption DEF MouseInv, Sound
  <2>3. BytesUsed(handler) \in Nat /\ BytesUsed(handler') \in Nat
    <3>1. /\ \A kind : Cardinality(Positions(buf, kind)) \in Nat
          /\ \A kind : Cardinality(Positions(Tail(buf), kind)) \in Nat
      BY <1>1, <1>3, PositionsType
    <3> QED  BY <1>5, <3>1, BytesInBuffer
  <2> QED  BY <2>1, <2>2, <2>3
<1>7. InStep(handler', host'.buttons)
  <2>1. BelievedIn(Tail(buf), host'.buttons) = BelievedIn(buf, host.buttons)
    BY <1>1, <1>2, TailBelief DEF r, BelievedIn
  <2> QED  BY <1>5, <2>1 DEF InStep, MouseInv, Sound
<1>8. handler'.mouse_hid_report = 0 /\ Followed(handler')
  BY <1>5 DEF MouseInv, Followed
<1>9. Sound(handler', host'.buttons)
  BY <1>5, <1>6, <1>7, <1>8 DEF Sound, ReportIsThere
<1>10. Sound(handler, host.buttons)' /\ Followed(handler)'
  BY <1>8, <1>9 DEF Sound, Followed, ReportIsThere, InStep, BytesUsed, BelievedIn
<1>11. TablesOK'
  BY DEF HostTakes, MouseInv, TablesOK
<1> QED  BY <1>2, <1>8, <1>10, <1>11 DEF MouseInv

LEMMA RegisterInv ==
    ASSUME MouseInv, NEW e \in StoredEntries, RegisterConfigEntry(e)
    PROVE  MouseInv'
<1>1. e.key \in KeyIndexes /\ e.table \in EventTables
  BY ConfigurationAssumption
<1>2. event_handler_table' \in [Applications -> [KeyIndexes -> EventTables]]
  <2>1. ASSUME NEW a \in Applications
        PROVE  [event_handler_table[a] EXCEPT ![e.key] = e.table]
                 \in [KeyIndexes -> EventTables]
    BY <1>1 DEF MouseInv, TablesOK
  <2> HIDE DEF KeyIndexes, EventTables
  <2> QED  BY <2>1 DEF RegisterConfigEntry, MouseInv, TablesOK
<1>3. UNCHANGED <<handler, current_application_id, host>> /\ to_load' \subseteq to_load
  BY DEF RegisterConfigEntry
<1>4. TablesOK'
  BY <1>2, <1>3 DEF MouseInv, TablesOK
<1> QED  BY <1>3, <1>4
         DEF MouseInv, Sound, Followed, ReportIsThere, InStep, BytesUsed, BelievedIn

LEMMA ApplicationInv ==
    ASSUME MouseInv, NEW a \in Applications, SetApplicationId(a)
    PROVE  MouseInv'
<1>1. TablesOK'
  BY DEF SetApplicationId, MouseInv, TablesOK
<1> QED  BY <1>1 DEF SetApplicationId, MouseInv, Sound, Followed, ReportIsThere,
                     InStep, BytesUsed, BelievedIn

LEMMA StepInv == MouseInv /\ [Next]_vars => MouseInv'
<1> SUFFICES ASSUME MouseInv, [Next]_vars PROVE MouseInv'
  OBVIOUS
<1>1. CASE HidPollIntervalTimerCallback
  BY <1>1, TimerInv
<1>2. CASE SpiRxComplete
  BY <1>2, SpiInv
<1>3. CASE \E e \in StoredEntries : RegisterConfigEntry(e)
  BY <1>3, RegisterInv
<1>4. CASE \E a \in Applications : SetApplicationId(a)
  BY <1>4, ApplicationInv
<1>5. CASE HostTakes
  BY <1>5, HostInv
<1>6. CASE UNCHANGED vars
  BY <1>6 DEF vars, MouseInv, TablesOK, Sound, Followed, ReportIsThere, InStep,
              BytesUsed, BelievedIn
<1> QED  BY <1>1, <1>2, <1>3, <1>4, <1>5, <1>6 DEF Next

\* MouseInv holds throughout, whatever the buffer refuses and whatever the
\* event tables in flash make the key events do.
THEOREM Invariance == Spec => []MouseInv
<1>1. Init => MouseInv
  BY InitInv
<1>2. MouseInv /\ [Next]_vars => MouseInv'
  BY StepInv
<1> QED  BY <1>1, <1>2, PTL DEF Spec

\* The accumulators stay in their type and the buffer in its size, for every
\* configuration in flash.
THEOREM MouseTypeCorrect == Spec => []TypeOK
<1>1. MouseInv => TypeOK
  <2> SUFFICES ASSUME MouseInv PROVE TypeOK
    OBVIOUS
  <2>1. ASSUME NEW a \in Axes
        PROVE  /\ handler.accumulated[a] >= -(MotionRange \div 2)
               /\ handler.accumulated[a] < MotionRange - (MotionRange \div 2)
    <3>1. handler.accumulated[a] \in Counts
      BY DEF MouseInv, Sound, Handlers
    <3>2. MotionRange \div 2 \in Nat /\ MotionRange \in Nat
      BY RangeAssumption
    <3> QED  BY <3>1, <3>2 DEF Counts
  <2> QED  BY <2>1 DEF TypeOK, MouseInv, Sound, Handlers, TablesOK
<1> QED  BY <1>1, Invariance, PTL

\* Whichever reports the buffer refuses, the host ends up with the button state
\* that the handler takes to be reported.
THEOREM ButtonsStayInStep == Spec => []ButtonsInStep
<1>1. MouseInv => ButtonsInStep
  BY DEF MouseInv, Sound, InStep, BelievedIn, LastIn, ButtonsInStep, BelievedButtons, Believed
<1> QED  BY <1>1, Invariance, PTL

\* No reporting function, not even the one that counts the keypad's state as
\* reported, stops the timer while a key is down or leaves it running.
THEOREM TimerFollows == Spec => []TimerFollowsKeypad
<1>1. MouseInv => TimerFollowsKeypad
  BY DEF MouseInv, Followed, TimerFollowsKeypad
<1> QED  BY <1>1, Invariance, PTL

\* Only a poll interval can leave keys held that were not: the other actions do
\* not change what the host will believe of the keyboard.
LEMMA StepLifts ==
    MouseInv /\ [Next]_vars => (BelievedKeys' # {} /\ BelievedKeys = {} => NearlyFull(handler'))
<1> SUFFICES ASSUME MouseInv, [Next]_vars, BelievedKeys' # {}, BelievedKeys = {}
             PROVE  NearlyFull(handler')
  OBVIOUS
<1>1. /\ BelievedKeys = HeldIn(handler, host.keys)
      /\ BelievedKeys' = HeldIn(handler', host'.keys)
  BY DEF BelievedKeys, Believed, HeldIn, LastIn
<1>2. CASE HidPollIntervalTimerCallback
  <2>1. Lifts(handler, handler')
    BY <1>2, TimerInv
  <2>2. host' = host
    BY <1>2 DEF HidPollIntervalTimerCallback
  <2>3. Lifted(handler, host.keys)
    BY <1>1 DEF Lifted
  <2>4. Lifted(handler', host.keys)
    BY <2>1, <2>3 DEF Lifts
  <2> QED  BY <1>1, <2>2, <2>4 DEF Lifted
<1>3. CASE HostTakes
  <2> DEFINE buf == handler.hid_report_buf
             r == Head(buf)
             now == IF r.kind = "keyboard" THEN r.keys ELSE host.keys
  <2>1. /\ handler \in Handlers /\ buf \in Seq(Reports) /\ buf # <<>>
        /\ host \in Hosts /\ host' = Told(host, r)
        /\ handler' = [handler EXCEPT !.hid_report_buf = Tail(@)]
    BY <1>3 DEF MouseInv, Sound, Handlers, HostTakes
  <2>2. r \in Reports
    BY <2>1
  <2>3. handler'.hid_report_buf = Tail(buf)
    BY <2>1 DEF Handlers
  <2> HIDE DEF r
  <2>4. host'.keys = now
    <3>1. CASE r \in MouseReports
      BY <2>1, <3>1 DEF Told, Hosts, MouseReports
    <3>2. CASE r \in KeyboardReports
      BY <2>1, <3>2 DEF Told, Hosts, KeyboardReports
    <3>3. CASE r \in AbsoluteReports
      BY <2>1, <3>3 DEF Told, Hosts, AbsoluteReports
    <3> QED  BY <2>2, <3>1, <3>2, <3>3 DEF Reports
  <2>5. LastIn(Tail(buf), "keyboard", "keys", now) = LastIn(buf, "keyboard", "keys", host.keys)
    BY <2>1, TailBelief DEF r
  <2>6. HeldIn(handler', host'.keys) = HeldIn(handler, host.keys)
    BY <2>3, <2>4, <2>5 DEF HeldIn
  <2> QED  BY <1>1, <2>6
<1>4. CASE UNCHANGED <<handler.hid_report_buf, host>>
  BY <1>1, <1>4 DEF HeldIn, LastIn
<1>5. CASE SpiRxComplete
  <2>1. handler \in Handlers
    BY DEF MouseInv, Sound
  <2> QED  BY <1>4, <1>5, <2>1 DEF SpiRxComplete, UpdateState, Handlers
<1>6. CASE \E e \in StoredEntries : RegisterConfigEntry(e)
  BY <1>4, <1>6 DEF RegisterConfigEntry
<1>7. CASE \E a \in Applications : SetApplicationId(a)
  BY <1>4, <1>7 DEF SetApplicationId
<1>8. CASE UNCHANGED vars
  BY <1>4, <1>8 DEF vars
<1> QED  BY <1>2, <1>3, <1>5, <1>6, <1>7, <1>8 DEF Next

\* A poll interval leaves the host with a key held down only when the buffer was
\* nearly full, whatever was refused and whatever the event tables say: no entry
\* types a key that it does not lift again.
THEOREM KeysLifted == Spec => KeysAreLifted
<1>1. MouseInv /\ [Next]_vars
        => (BelievedKeys' # {} /\ BelievedKeys = {}
              => BytesUsed(handler') + 6 + (LargestBlock - 1) >= MaxBufferSize)
  BY StepLifts DEF NearlyFull
<1> QED  BY <1>1, Invariance, PTL DEF Spec, KeysAreLifted

-----------------------------------------------------------------------------
(***************************************************************************)
(* Motion.  o is the handler when the interval begins: of the reports      *)
(* allocated since, only the one of the interval carries motion.           *)
(***************************************************************************)
Tracks(s, o) ==
    /\ s \in Handlers
    /\ Len(s.hid_report_buf) >= Len(o.hid_report_buf)
    /\ \A i \in Len(o.hid_report_buf) + 1 .. Len(s.hid_report_buf) :
          s.hid_report_buf[i].kind = "mouse" => i = s.mouse_hid_report
    /\ s.mouse_hid_report # 0 =>
          /\ s.mouse_hid_report \in Len(o.hid_report_buf) + 1 .. Len(s.hid_report_buf)
          /\ s.hid_report_buf[s.mouse_hid_report].kind = "mouse"

\* The motion is still to be reported, or is all in the report.
Pending(s, o) ==
    /\ Tracks(s, o)
    /\ s.accumulated = o.accumulated
    /\ s.mouse_hid_report # 0 => s.hid_report_buf[s.mouse_hid_report].motion = Still
Reported(s, o) ==
    /\ Tracks(s, o)
    /\ s.accumulated = Still
    /\ s.mouse_hid_report # 0
    /\ s.hid_report_buf[s.mouse_hid_report].motion = InReport(o.accumulated)
Accounted(s, o) == Pending(s, o) \/ Reported(s, o)

\* s and t differ in nothing that this depends on.
Alike(s, t) == /\ t.hid_report_buf = s.hid_report_buf
               /\ t.mouse_hid_report = s.mouse_hid_report
               /\ t.accumulated = s.accumulated

LEMMA AlikeAccounts ==
    ASSUME NEW o, NEW s, NEW t \in Handlers, Alike(s, t)
    PROVE  /\ Pending(s, o) => Pending(t, o)
           /\ Accounted(s, o) => Accounted(t, o)
  BY DEF Alike, Accounted, Pending, Reported, Tracks

LEMMA AccountedType ==
    ASSUME NEW o, NEW s, Accounted(s, o)
    PROVE  s \in Handlers
  BY DEF Accounted, Pending, Reported, Tracks

\* A report that is not the mouse's leaves the motion where it is.
LEMMA AllocateAccounts ==
    ASSUME NEW o \in Handlers, NEW s, Accounted(s, o), NEW r \in Reports, r.kind # "mouse",
           NEW then \in Handlers, Alike(s, then), NEW t \in Allocate(s, r, then)
    PROVE  Accounted(t, o)
<1> DEFINE buf == s.hid_report_buf
           u == [then EXCEPT !.hid_report_buf = Append(@, r)]
           n == Len(o.hid_report_buf)
<1>1. s \in Handlers /\ buf \in Seq(Reports) /\ Len(buf) \in Nat /\ n \in Nat
  BY AccountedType DEF Handlers
<1>2. Append(buf, r) \in Seq(Reports)
  BY <1>1, AppendedReport
<1>3. /\ u \in Handlers /\ u.hid_report_buf = Append(buf, r)
      /\ u.mouse_hid_report = s.mouse_hid_report /\ u.accumulated = s.accumulated
  BY <1>2 DEF Handlers, Alike
<1> HIDE DEF u
<1>4. /\ Len(u.hid_report_buf) = Len(buf) + 1
      /\ \A i \in 1 .. Len(buf) : u.hid_report_buf[i] = buf[i]
      /\ u.hid_report_buf[Len(buf) + 1].kind # "mouse"
  BY <1>1, <1>3, AppendedReport
<1>5. ASSUME Tracks(s, o)
      PROVE  /\ Tracks(u, o)
             /\ s.mouse_hid_report # 0 =>
                  u.hid_report_buf[u.mouse_hid_report] = buf[s.mouse_hid_report]
  <2>1. Len(buf) >= n
    BY <1>5 DEF Tracks
  <2>2. s.mouse_hid_report # 0 =>
           s.mouse_hid_report \in n + 1 .. Len(buf) /\ s.mouse_hid_report \in 1 .. Len(buf)
    BY <1>1, <1>5 DEF Tracks
  <2>3. ASSUME NEW i \in n + 1 .. Len(u.hid_report_buf), u.hid_report_buf[i].kind = "mouse"
        PROVE  i = u.mouse_hid_report
    <3>1. i # Len(buf) + 1
      BY <1>4, <2>3
    <3>2. i \in n + 1 .. Len(buf) /\ i \in 1 .. Len(buf)
      BY <1>1, <1>4, <3>1
    <3> QED  BY <1>3, <1>4, <1>5, <2>3, <3>2 DEF Tracks
  <2> QED  BY <1>1, <1>3, <1>4, <1>5, <2>1, <2>2, <2>3 DEF Tracks
<1>6. Accounted(u, o)
  BY <1>3, <1>5 DEF Accounted, Pending, Reported
<1> QED  BY <1>6 DEF Allocate, u

LEMMA CreatePends ==
    ASSUME NEW o \in Handlers, NEW s, Pending(s, o), NEW b, Sound(s, b),
           NEW t \in CreateOrRetrieveMouseReport(s)
    PROVE  Pending(t, o)
<1>1. CASE s.mouse_hid_report # 0
  BY <1>1 DEF CreateOrRetrieveMouseReport
<1>2. CASE s.mouse_hid_report = 0
  <2> DEFINE buf == s.hid_report_buf
             n == Len(o.hid_report_buf)
             r == MouseReport(Shown(s.current_primary_button_state))
             then == [s EXCEPT !.mouse_hid_report = Len(s.hid_report_buf) + 1,
                               !.previous_primary_button_state =
                                   s.current_primary_button_state]
             u == [then EXCEPT !.hid_report_buf = Append(@, r)]
  <2>1. s \in Handlers /\ buf \in Seq(Reports) /\ Len(buf) \in Nat /\ n \in Nat
        /\ Len(buf) >= n
    BY DEF Pending, Tracks, Handlers
  <2>2. t \in Handlers
    BY CreateKeeps DEF Keeps, Sound
  <2>3. /\ u.hid_report_buf = Append(buf, r)
        /\ u.mouse_hid_report = Len(buf) + 1 /\ u.accumulated = s.accumulated
    BY <2>1 DEF Handlers
  <2>4. r \in Reports /\ r.kind = "mouse" /\ r.motion = Still
    <3>1. Shown(s.current_primary_button_state) \in SUBSET (1 .. 3)
      BY DEF Shown
    <3>2. Still \in [Axes -> Int]
      BY DEF Still
    <3>3. PanRange \in SUBSET Int
      BY PanType
    <3> QED  BY <3>1, <3>2, <3>3 DEF MouseReport, Reports, MouseReports
  <2>5. t = s \/ t = u
    BY <1>2 DEF CreateOrRetrieveMouseReport, Allocate
  <2> HIDE DEF u, r
  <2>6. CASE t = u
    <3>1. /\ Len(t.hid_report_buf) = Len(buf) + 1
          /\ \A i \in 1 .. Len(buf) : t.hid_report_buf[i] = buf[i]
          /\ t.hid_report_buf[Len(buf) + 1] = r
      BY <2>1, <2>3, <2>4, <2>6, AppendedReport
    <3>2. ASSUME NEW i \in n + 1 .. Len(t.hid_report_buf), t.hid_report_buf[i].kind = "mouse"
          PROVE  i = Len(buf) + 1
      <4>1. CASE i # Len(buf) + 1
        <5>1. i \in n + 1 .. Len(buf) /\ i \in 1 .. Len(buf)
          BY <2>1, <3>1, <4>1
        <5>2. i = s.mouse_hid_report
          BY <3>1, <3>2, <5>1 DEF Pending, Tracks
        <5> QED  BY <1>2, <5>1, <5>2
      <4> QED  BY <4>1
    <3>3. Len(buf) + 1 \in n + 1 .. Len(t.hid_report_buf)
      BY <2>1, <3>1
    <3>4. Tracks(t, o)
      BY <2>1, <2>2, <2>3, <2>4, <2>6, <3>1, <3>2, <3>3 DEF Tracks
    <3> QED  BY <2>3, <2>4, <2>6, <3>1, <3>4 DEF Pending
  <2> QED  BY <2>5, <2>6
<1> QED  BY <1>1, <1>2

\* The report of the interval takes all of the motion, or is refused.
LEMMA MovementAccounts ==
    ASSUME NEW o \in Handlers, NEW s, Pending(s, o), NEW b, Sound(s, b),
           NEW u \in AlteredMouseMovement(s, Unaltered)
    PROVE  Accounted(u, o)
<1> DEFINE product(t) == [a \in Axes |-> t.accumulated[a] * Unaltered[a]]
<1>1. PICK t \in CreateOrRetrieveMouseReport(s) :
        u = IF t.mouse_hid_report = 0
              THEN t
              ELSE [WriteMotion(t, InReport(product(t)), 0) EXCEPT !.accumulated = Still]
  BY DEF AlteredMouseMovement
<1>2. Pending(t, o)
  BY CreatePends
<1>3. CASE t.mouse_hid_report = 0
  BY <1>1, <1>2, <1>3 DEF Accounted
<1>4. CASE t.mouse_hid_report # 0
  <2> DEFINE n == Len(o.hid_report_buf)
             m == t.mouse_hid_report
             buf == t.hid_report_buf
             w == WriteMotion(t, InReport(product(t)), 0)
  <2>1. /\ t \in Handlers /\ buf \in Seq(Reports) /\ Len(buf) \in Nat /\ n \in Nat
        /\ t.accumulated = o.accumulated /\ o.accumulated \in [Axes -> Counts]
        /\ Len(buf) >= n /\ m \in n + 1 .. Len(buf) /\ buf[m].kind = "mouse"
    BY <1>2, <1>4 DEF Pending, Tracks, Handlers
  <2>2. product(t) = o.accumulated
    <3>1. ASSUME NEW a \in Axes
          PROVE  t.accumulated[a] * Unaltered[a] = o.accumulated[a]
      <4>1. Unaltered[a] = 1
        BY DEF Unaltered
      <4>2. o.accumulated[a] \in Int
        BY <2>1, CountsAreInts
      <4> QED  BY <2>1, <4>1, <4>2
    <3> QED  BY <2>1, <3>1
  <2> HIDE DEF product
  <2>3. m \in DOMAIN buf /\ buf[m] \in MouseReports
    <3>1. m \in 1 .. Len(buf)
      BY <2>1
    <3>2. buf[m] \in Reports
      BY <2>1, <3>1
    <3> QED  BY <2>1, <3>1, <3>2 DEF Reports, KeyboardReports, AbsoluteReports
  <2> DEFINE entry == [buf[m] EXCEPT !.motion = InReport(o.accumulated), !.pan = {0}]
  <2>4. w = [t EXCEPT !.hid_report_buf = [buf EXCEPT ![m] = entry]]
    BY <2>1, <2>2, <2>3 DEF WriteMotion, Handlers
  <2>5. entry.kind = "mouse" /\ entry.motion = InReport(o.accumulated)
    BY <2>3 DEF MouseReports
  <2>6. /\ u.hid_report_buf = [buf EXCEPT ![m] = entry]
        /\ u.mouse_hid_report = m /\ u.accumulated = Still
    BY <1>1, <1>4, <2>1, <2>4 DEF Handlers
  <2> HIDE DEF entry, w
  <2>7. /\ Len(u.hid_report_buf) = Len(buf)
        /\ \A i \in DOMAIN buf : u.hid_report_buf[i] = IF i = m THEN entry ELSE buf[i]
    BY <2>1, <2>3, <2>6
  <2>8. u \in Handlers
    <3>1. Unaltered \in [Axes -> Int]
      BY DEF Unaltered
    <3> QED  BY <3>1, AlteredMovementKeeps DEF Keeps, Sound
  <2>9. ASSUME NEW i \in n + 1 .. Len(u.hid_report_buf), u.hid_report_buf[i].kind = "mouse"
        PROVE  i = m
    <3>1. i \in DOMAIN buf /\ i \in n + 1 .. Len(buf)
      BY <2>1, <2>7
    <3> QED  BY <1>2, <2>7, <2>9, <3>1 DEF Pending, Tracks
  <2>10. Tracks(u, o)
    BY <1>4, <2>1, <2>3, <2>5, <2>6, <2>7, <2>8, <2>9 DEF Tracks
  <2> QED  BY <1>4, <2>3, <2>5, <2>6, <2>7, <2>10 DEF Accounted, Reported
<1> QED  BY <1>3, <1>4

\* The entries that have nothing to do with motion.
Carries(e) == e.func \notin {"ALTERED_MOUSE_MOVEMENT", "MOTION_AS_SCROLL",
                             "MOTION_MOD_KEY_PRESS_RELEASE"}

\* Whatever modifiers are held, a keyboard's report leaves the motion alone.
LEMMA KeyboardAccounts ==
    ASSUME NEW o \in Handlers, NEW s, Accounted(s, o), NEW modifiers \in SUBSET Modifiers,
           NEW keys \in SUBSET KeyCodes, NEW held \in SUBSET Modifiers,
           NEW then, then = [s EXCEPT !.modifier_keys_state = held],
           NEW t \in Allocate(s, KeyboardReport(modifiers, keys), then)
    PROVE  Accounted(t, o)
<1> DEFINE r == KeyboardReport(modifiers, keys)
<1>1. s \in Handlers
  BY AccountedType
<1>2. then \in Handlers /\ Alike(s, then)
  BY <1>1 DEF Handlers, Alike
<1>3. r \in Reports /\ r.kind # "mouse"
  BY DEF KeyboardReport, Reports, KeyboardReports
<1>4. t \in Allocate(s, r, then)
  OBVIOUS
<1> HIDE DEF r
<1> QED  BY <1>2, <1>3, <1>4, AllocateAccounts

LEMMA PressReleaseAccounts ==
    ASSUME NEW o \in Handlers, NEW s, Accounted(s, o), NEW p \in Presses,
           NEW u \in KeyboardPressRelease(s, p)
    PROVE  Accounted(u, o)
<1>1. /\ p.modifiers \in SUBSET Modifiers /\ p.keys \in SUBSET KeyCodes
      /\ {} \in SUBSET KeyCodes
  BY DEF Presses
<1>2. PICK t \in Allocate(s, PressReport(s, p), s) : u \in Allocate(t, LiftReport(t), t)
  BY DEF KeyboardPressRelease
<1>3. Accounted(t, o)
  <2> DEFINE both == s.modifier_keys_state \cup p.modifiers
  <2>1. s \in Handlers /\ s.modifier_keys_state \in SUBSET Modifiers
    BY AccountedType DEF Handlers
  <2>2. both \in SUBSET Modifiers
    BY <1>1, <2>1
  <2>3. t \in Allocate(s, KeyboardReport(both, p.keys), s)
    BY <1>2 DEF PressReport
  <2> HIDE DEF both
  <2> QED  BY <1>1, <2>1, <2>2, <2>3, SameModifiers, KeyboardAccounts
<1>4. t \in Handlers /\ t.modifier_keys_state \in SUBSET Modifiers
  BY <1>3, AccountedType DEF Handlers
<1> QED  BY <1>1, <1>2, <1>3, <1>4, SameModifiers, KeyboardAccounts DEF LiftReport

LEMMA ReleaseAllAccounts ==
    ASSUME NEW o \in Handlers, NEW s, Accounted(s, o), NEW t \in ReleaseAllKeys(s)
    PROVE  Accounted(t, o)
<1>1. {} \in SUBSET Modifiers /\ {} \in SUBSET KeyCodes
  OBVIOUS
<1> QED  BY <1>1, KeyboardAccounts DEF ReleaseAllKeys

LEMMA ModifierHoldAccounts ==
    ASSUME NEW o \in Handlers, NEW s, Accounted(s, o), NEW hold \in SUBSET Modifiers,
           NEW p \in Presses, NEW u \in ModifierHoldPressRelease(s, hold, p)
    PROVE  Accounted(u, o)
<1>1. PICK t \in Allocate(s, KeyboardReport(hold, {}),
                          [s EXCEPT !.modifier_keys_state = hold]) :
        u \in KeyboardPressRelease(t, p)
  BY DEF ModifierHoldPressRelease
<1>2. Accounted(t, o)
  <2>1. {} \in SUBSET KeyCodes
    OBVIOUS
  <2> QED  BY <1>1, <2>1, KeyboardAccounts
<1> QED  BY <1>1, <1>2, PressReleaseAccounts

LEMMA AbsoluteAccounts ==
    ASSUME NEW o \in Handlers, NEW s, Accounted(s, o), NEW button \in Int,
           NEW t \in AbsoluteMousePosition(s, button)
    PROVE  Accounted(t, o)
<1> DEFINE r == AbsoluteReport(button)
           then == [s EXCEPT !.previous_keypad_state = s.current_keypad_state]
<1>1. s \in Handlers
  BY AccountedType
<1>2. then \in Handlers /\ Alike(s, then)
  BY <1>1 DEF Handlers, Alike
<1>3. r \in Reports /\ r.kind # "mouse"
  BY DEF AbsoluteReport, Reports, AbsoluteReports
<1>4. t \in Allocate(s, r, then)
  BY DEF AbsoluteMousePosition
<1> HIDE DEF r, then
<1> QED  BY <1>2, <1>3, <1>4, AllocateAccounts

LEMMA CarriedAccounts ==
    ASSUME NEW o \in Handlers, NEW s, Accounted(s, o), NEW e \in Entries, Carries(e),
           NEW t \in Perform(s, e)
    PROVE  Accounted(t, o)
<1>1. CASE e.func = "NO_REPORT"
  BY <1>1 DEF Perform
<1>2. CASE e.func = "RELEASE_ALL_KEYS"
  BY <1>2, ReleaseAllAccounts DEF Perform
<1>3. CASE e.func = "ABSOLUTE_MOUSE_POSITIION"
  <2>1. e.button \in Int
    BY <1>3 DEF Entries
  <2> QED  BY <1>3, <2>1, AbsoluteAccounts DEF Perform
<1>4. CASE e.func = "KEYBOARD_PRESS_RELEASE"
  <2>1. e.press \in Presses
    BY <1>4 DEF Entries
  <2> QED  BY <1>4, <2>1, PressReleaseAccounts DEF Perform
<1>5. CASE e.func = "MODIFIER_HOLD_PRESS_RELEASE"
  <2>1. e.hold \in SUBSET Modifiers /\ e.press \in Presses
    BY <1>5 DEF Entries
  <2> QED  BY <1>5, <2>1, ModifierHoldAccounts DEF Perform
<1>6. e.func \in {"NO_REPORT", "RELEASE_ALL_KEYS", "ABSOLUTE_MOUSE_POSITIION",
                  "KEYBOARD_PRESS_RELEASE", "MODIFIER_HOLD_PRESS_RELEASE"}
  BY DEF Entries, Carries
<1> QED  BY <1>1, <1>2, <1>3, <1>4, <1>5, <1>6

LEMMA MovesAccounts ==
    ASSUME NEW o \in Handlers, NEW s, Pending(s, o), NEW b, Sound(s, b),
           NEW e \in Entries, MovesMotion(e), NEW t \in Perform(s, e)
    PROVE  Accounted(t, o)
<1>1. CASE Carries(e)
  BY <1>1, CarriedAccounts DEF Accounted
<1>2. CASE e.func = "ALTERED_MOUSE_MOVEMENT" /\ e.factor = Unaltered
  BY <1>2, MovementAccounts DEF Perform
<1> QED  BY <1>1, <1>2 DEF MovesMotion, Carries

\* The entries in use neither scale motion nor put it to another use.
Straight(s) ==
    /\ MovesMotion(EventTable(s)["MOUSE_MOVEMENT"])
    /\ \A event \in {"KEY_DOWN", "SHORT_PRESS_UP"} : Carries(EventTable(s)[event])

\* What decides on the entries; dispatching changes none of it.
SameKey(s, t) ==
    /\ t.current_primary_button_state = s.current_primary_button_state
    /\ t.tracking_pressed_key = s.tracking_pressed_key

LEMMA SameKeyStraight ==
    ASSUME NEW s, NEW t, SameKey(s, t)
    PROVE  Straight(s) <=> Straight(t)
<1>1. KeyIndex(s) = KeyIndex(t)
  BY DEF SameKey, KeyIndex
<1> QED  BY <1>1 DEF Straight, EventTable

LEMMA DispatchSameKey ==
    ASSUME NEW s, NEW b, Sound(s, b), TablesOK, NEW event \in Events,
           NEW t \in DispatchApplicationEventType(s, event)
    PROVE  SameKey(s, t)
  BY DispatchKeeps DEF Keeps, Kept, KeypadKept, SameKey

LEMMA KeyUpAccounts ==
    ASSUME NEW o \in Handlers, NEW s, Pending(s, o), NEW b, Sound(s, b), TablesOK,
           NEW v \in KeyUp(s), Straight(v)
    PROVE  Accounted(v, o)
<1> DEFINE T == IF s.modifier_keys_state # {} THEN ReleaseAllKeys(s) ELSE {s}
<1>1. PICK t \in T : v \in DispatchApplicationEventType(Tracked(t, "stopped", 0),
                                                        "SHORT_PRESS_UP")
  BY DEF KeyUp, Tracked
<1>2. Accounted(t, o)
  BY ReleaseAllAccounts DEF Accounted
<1>3. Sound(t, b)
  BY ReleaseAllKeeps DEF Keeps
<1> DEFINE w == Tracked(t, "stopped", 0)
<1>4. Sound(w, b)
  <2>1. "stopped" \in {"running", "stopped"} /\ 0 \in Keys \cup {0}
    OBVIOUS
  <2> QED  BY <1>3, <2>1, TrackKeeps
<1>5. Accounted(w, o)
  <2>1. w \in Handlers
    BY <1>4 DEF Sound
  <2>2. Alike(t, w)
    BY <1>3 DEF Alike, Tracked, Sound, Handlers
  <2> QED  BY <1>2, <2>1, <2>2, AlikeAccounts
<1>6. v \in DispatchApplicationEventType(w, "SHORT_PRESS_UP") /\ "SHORT_PRESS_UP" \in Events
  BY <1>1 DEF Events
<1> HIDE DEF w
<1>7. Straight(w)
  BY <1>4, <1>6, DispatchSameKey, SameKeyStraight
<1> QED
  BY <1>4, <1>5, <1>6, <1>7, EntryType, CarriedAccounts
  DEF Straight, DispatchApplicationEventType

LEMMA KeyDownAccounts ==
    ASSUME NEW o \in Handlers, NEW s, Pending(s, o), NEW b, Sound(s, b), TablesOK,
           s.current_keypad_state # {}, NEW v \in KeyDown(s), Straight(v)
    PROVE  Accounted(v, o)
<1> DEFINE key == FirstKey(s.current_keypad_state)
<1>1. PICK t \in AlteredMouseMovement(s, Unaltered) :
        v \in DispatchApplicationEventType(Tracked(t, "running", key), "KEY_DOWN")
  BY DEF KeyDown, Tracked
<1>2. Accounted(t, o)
  BY <1>1, MovementAccounts
<1>3. Sound(t, b)
  <2>1. Unaltered \in [Axes -> Int]
    BY DEF Unaltered
  <2> QED  BY <1>1, <2>1, AlteredMovementKeeps DEF Keeps
<1> DEFINE w == Tracked(t, "running", key)
<1>4. Sound(w, b)
  <2>1. "running" \in {"running", "stopped"} /\ key \in Keys \cup {0}
    BY FirstKeyType
  <2> HIDE DEF key
  <2> QED  BY <1>3, <2>1, TrackKeeps
<1> HIDE DEF key
<1>5. Accounted(w, o)
  <2>1. w \in Handlers
    BY <1>4 DEF Sound
  <2>2. Alike(t, w)
    BY <1>3 DEF Alike, Tracked, Sound, Handlers
  <2> QED  BY <1>2, <2>1, <2>2, AlikeAccounts
<1>6. v \in DispatchApplicationEventType(w, "KEY_DOWN") /\ "KEY_DOWN" \in Events
  BY <1>1 DEF Events
<1> HIDE DEF w
<1>7. Straight(w)
  BY <1>4, <1>6, DispatchSameKey, SameKeyStraight
<1> QED
  BY <1>4, <1>5, <1>6, <1>7, EntryType, CarriedAccounts
  DEF Straight, DispatchApplicationEventType

LEMMA ReportKeypadAccounts ==
    ASSUME NEW o \in Handlers, NEW s, Pending(s, o), NEW b, Sound(s, b), TablesOK,
           NEW v \in ReportKeypad(s), Straight(v)
    PROVE  Accounted(v, o)
<1>1. CASE s.current_keypad_state = s.previous_keypad_state
  BY <1>1 DEF ReportKeypad, Accounted
<1>2. CASE s.current_keypad_state # s.previous_keypad_state
  <2> DEFINE T == IF s.current_keypad_state = {}       THEN KeyUp(s)
                  ELSE IF s.previous_keypad_state = {} THEN KeyDown(s)
                  ELSE {s}
  <2>1. PICK t \in T : v = [t EXCEPT !.previous_keypad_state = s.current_keypad_state]
    BY <1>2 DEF ReportKeypad
  <2>2. Sound(t, b)
    BY KeyUpKeeps, KeyDownKeeps
  <2>3. s.current_keypad_state \in KeypadStates
    BY DEF Sound, Handlers
  <2>4. v \in Handlers /\ Alike(t, v) /\ SameKey(t, v)
    BY <2>1, <2>2, <2>3 DEF Sound, Handlers, Alike, SameKey
  <2>5. Straight(t)
    BY <2>4, SameKeyStraight
  <2>6. Accounted(t, o)
    BY <2>5, KeyUpAccounts, KeyDownAccounts DEF Accounted
  <2> QED  BY <2>4, <2>6, AlikeAccounts
<1> QED  BY <1>1, <1>2

LEMMA ReportMotionAccounts ==
    ASSUME NEW o \in Handlers, NEW s, Accounted(s, o), NEW b, Sound(s, b), TablesOK,
           NEW v \in ReportMotion(s), Straight(v)
    PROVE  Accounted(v, o)
<1>1. CASE s.accumulated = Still
  BY <1>1 DEF ReportMotion
<1>2. CASE s.accumulated # Still
  <2>1. Pending(s, o)
    BY <1>2 DEF Accounted, Reported
  <2>2. v \in DispatchApplicationEventType(s, "MOUSE_MOVEMENT") /\ "MOUSE_MOVEMENT" \in Events
    BY <1>2 DEF ReportMotion, Events
  <2>3. Straight(s)
    BY <2>2, DispatchSameKey, SameKeyStraight
  <2> QED
    BY <2>1, <2>2, <2>3, EntryType, MovesAccounts
    DEF Straight, DispatchApplicationEventType
<1> QED  BY <1>1, <1>2

\* A poll interval, seen from the handler it begins with.
LEMMA TimerAccounts ==
    ASSUME MouseInv, HidPollIntervalTimerCallback, Straight(handler')
    PROVE  \E u : /\ Accounted(u, handler)
                  /\ handler'.hid_report_buf = u.hid_report_buf
                  /\ handler'.accumulated = u.accumulated
<1> DEFINE b == host.buttons
           r == [handler EXCEPT !.mouse_hid_report = 0]
<1>1. PICK s \in ReportButtons(r) : \E t \in ReportKeypad(s) : \E u \in ReportMotion(t) :
        handler' = [u EXCEPT !.mouse_hid_report = 0]
  BY DEF HidPollIntervalTimerCallback
<1>2. PICK t \in ReportKeypad(s) : \E u \in ReportMotion(t) :
        handler' = [u EXCEPT !.mouse_hid_report = 0]
  BY <1>1
<1>3. PICK u \in ReportMotion(t) : handler' = [u EXCEPT !.mouse_hid_report = 0]
  BY <1>2
<1>4. /\ handler \in Handlers /\ Sound(r, b) /\ Followed(r) /\ TablesOK
      /\ r.mouse_hid_report = 0
  BY ForgetKeeps DEF MouseInv, Sound
<1>5. Pending(r, handler)
  <2>1. /\ r \in Handlers /\ r.hid_report_buf = handler.hid_report_buf
        /\ r.accumulated = handler.accumulated
    BY <1>4 DEF Handlers
  <2>2. Len(handler.hid_report_buf) \in Nat
    BY <1>4 DEF Handlers
  <2> HIDE DEF r
  <2> QED  BY <1>4, <2>1, <2>2 DEF Pending, Tracks
<1> HIDE DEF r, b
<1>6. Sound(s, b) /\ Followed(s)
  BY <1>4, ReportButtonsKeeps
<1>7. Pending(s, handler)
  BY <1>4, <1>5, CreatePends DEF ReportButtons
<1>8. Sound(t, b) /\ Followed(t) /\ t.previous_keypad_state = t.current_keypad_state
  BY <1>4, <1>6, ReportKeypadKeeps
<1>9. Sound(u, b)
  BY <1>4, <1>8, ReportMotionKeeps
<1>10. /\ SameKey(u, handler') /\ handler'.hid_report_buf = u.hid_report_buf
       /\ handler'.accumulated = u.accumulated
  BY <1>3, <1>9 DEF Sound, Handlers, SameKey
<1>11. Straight(u)
  BY <1>10, SameKeyStraight
<1>12. Straight(t)
  <2>1. CASE u = t
    BY <1>11, <2>1
  <2>2. CASE u \in DispatchApplicationEventType(t, "MOUSE_MOVEMENT")
    <3>1. "MOUSE_MOVEMENT" \in Events
      BY DEF Events
    <3> QED  BY <1>4, <1>8, <1>11, <2>2, <3>1, DispatchSameKey, SameKeyStraight
  <2> QED  BY <2>1, <2>2 DEF ReportMotion
<1>13. Accounted(t, handler)
  BY <1>4, <1>6, <1>7, <1>12, ReportKeypadAccounts
<1>14. Accounted(u, handler)
  BY <1>4, <1>8, <1>11, <1>13, ReportMotionAccounts
<1> QED  BY <1>10, <1>14

-----------------------------------------------------------------------------
(***************************************************************************)
(* What the reports of an interval add up to.                              *)
(***************************************************************************)
SumOf(buf, a, told) == MapThenSumSet(LAMBDA i : buf[i].motion[a], told)

\* The sum over no report, and over one: the recursive function of the fold is
\* given outright.
LEMMA SumOfNone ==
    ASSUME NEW buf, NEW a
    PROVE  SumOf(buf, a, {}) = 0
<1> DEFINE told == {}
           pick(s) == CHOOSE x \in s : TRUE
           Rec(h) == [s \in SUBSET told |->
                        IF s = {} THEN 0
                        ELSE buf[pick(s)].motion[a] + h[s \ {pick(s)}]]
           iter == CHOOSE h : h = Rec(h)
<1>1. \E h : h = Rec(h)
  <2> WITNESS [s \in SUBSET {} |-> 0]
  <2> QED  OBVIOUS
<1>2. iter = Rec(iter)
  <2> HIDE DEF Rec
  <2> QED  BY <1>1
<1>3. iter[told] = 0
  BY <1>2
<1>4. SumOf(buf, a, told) = iter[told]
  BY DEF SumOf, MapThenSumSet, MapThenFoldSet
<1> QED  BY <1>3, <1>4

LEMMA SumOfOne ==
    ASSUME NEW buf, NEW a, NEW p, buf[p].motion[a] \in Int
    PROVE  SumOf(buf, a, {p}) = buf[p].motion[a]
<1> DEFINE told == {p}
           pick(s) == CHOOSE x \in s : TRUE
           Rec(h) == [s \in SUBSET told |->
                        IF s = {} THEN 0
                        ELSE buf[pick(s)].motion[a] + h[s \ {pick(s)}]]
           iter == CHOOSE h : h = Rec(h)
           sum == [s \in SUBSET told |-> IF s = {} THEN 0 ELSE buf[p].motion[a]]
<1>0. pick({p}) = p
  OBVIOUS
<1>1. \E h : h = Rec(h)
  <2>1. ASSUME NEW s \in SUBSET told
        PROVE  sum[s] = Rec(sum)[s]
    <3>1. CASE s = {}
      BY <3>1
    <3>2. CASE s = {p}
      <4>1. sum[s] = buf[p].motion[a] /\ sum[{}] = 0 /\ {p} \ {p} = {}
        BY <3>2
      <4>2. Rec(sum)[s] = buf[pick(s)].motion[a] + sum[s \ {pick(s)}]
        BY <3>2
      <4> QED  BY <1>0, <3>2, <4>1, <4>2
    <3> QED  BY <3>1, <3>2
  <2>2. sum = Rec(sum)
    BY <2>1
  <2> HIDE DEF Rec, sum
  <2> QED  BY <2>2
<1>2. iter = Rec(iter)
  <2> HIDE DEF Rec
  <2> QED  BY <1>1
<1>3. iter[{}] = 0
  BY <1>2
<1>4. iter[told] = buf[p].motion[a] + iter[{}]
  <2>1. iter[told] = Rec(iter)[told]
    BY <1>2
  <2>2. Rec(iter)[told] = buf[pick(told)].motion[a] + iter[told \ {pick(told)}]
    <3> HIDE DEF iter
    <3> QED  OBVIOUS
  <2>3. told \ {p} = {}
    OBVIOUS
  <2> HIDE DEF iter
  <2> QED  BY <1>0, <2>1, <2>2, <2>3
<1>5. SumOf(buf, a, told) = iter[told]
  BY DEF SumOf, MapThenSumSet, MapThenFoldSet
<1> HIDE DEF iter
<1> QED  BY <1>3, <1>4, <1>5

\* A number and what is stored of it differ by a multiple of the range.
LEMMA StoredDiffers ==
    ASSUME NEW n \in Int, NEW range \in Nat \ {0}
    PROVE  (Signed(n, range) - n) % range = 0
<1> DEFINE h == range \div 2
           q == (n + h) \div range
           r == (n + h) % range
<1>1. h \in Int
  OBVIOUS
<1> HIDE DEF h
<1>2. n + h = range * q + r /\ q \in Int /\ r \in Int
  BY <1>1
<1> HIDE DEF q, r
<1>3. (r - h) - n = range * (-q)
  BY <1>1, <1>2
<1>4. (range * (-q)) % range = 0
  <2> DEFINE k == -q
             d == (range * k) \div range
             e == (range * k) % range
  <2>1. k \in Int /\ range * k \in Int
    BY <1>2
  <2> HIDE DEF k
  <2>2. range * k = range * d + e /\ d \in Int /\ e \in 0 .. range - 1
    BY <2>1
  <2> HIDE DEF d, e
  <2>3. e = 0
    BY <2>1, <2>2
  <2> QED  BY <2>3 DEF k, e
<1> QED  BY <1>3, <1>4 DEF Signed, h, r

Width(a) == IF a = "z" THEN ScrollRange ELSE MotionRange

LEMMA NewOnes ==
    ASSUME NEW buf \in Seq(Reports), NEW n \in Nat, n <= Len(buf),
           NEW new, new = SubSeq(buf, n + 1, Len(buf))
    PROVE  /\ Len(new) = Len(buf) - n /\ DOMAIN new = 1 .. Len(buf) - n
           /\ \A i \in 1 .. Len(buf) - n : new[i] = buf[i + n]
<1> DEFINE l == Len(buf)
<1>1. l \in Nat
  OBVIOUS
<1>2. new = [i \in 1 .. l - n |-> buf[i + n]]
  <2>1. new = [i \in 1 .. 1 + l - (n + 1) |-> buf[(n + 1) + i - 1]]
    OBVIOUS
  <2> QED  BY <1>1, <2>1
<1>3. l - n \in Nat
  BY <1>1
<1>4. Len(new) = l - n
  BY <1>2, <1>3
<1> QED  BY <1>2, <1>4

LEMMA Shifted ==
    ASSUME NEW n \in Nat, NEW l \in Nat, NEW m \in n + 1 .. l
    PROVE  m - n \in 1 .. l - n /\ (m - n) + n = m
  OBVIOUS

LEMMA AccountedSum ==
    ASSUME NEW o \in Handlers, NEW u, Accounted(u, o), NEW a \in Axes,
           NEW new, new = SubSeq(u.hid_report_buf, Len(o.hid_report_buf) + 1,
                                 Len(u.hid_report_buf))
    PROVE  (u.accumulated[a] + SumOf(new, a, Positions(new, "mouse")) - o.accumulated[a])
             % Width(a) = 0
<1> DEFINE n == Len(o.hid_report_buf)
           buf == u.hid_report_buf
           m == u.mouse_hid_report
           sum == SumOf(new, a, Positions(new, "mouse"))
           x == o.accumulated[a]
<1>1. /\ u \in Handlers /\ buf \in Seq(Reports) /\ Len(buf) \in Nat /\ n \in Nat
      /\ Len(buf) >= n /\ Tracks(u, o)
  BY DEF Accounted, Pending, Reported, Tracks, Handlers
<1>2. x \in Int /\ Width(a) \in Nat \ {0}
  BY CountsAreInts, RangeAssumption DEF Handlers, Width
<1>3. /\ Len(new) = Len(buf) - n /\ DOMAIN new = 1 .. Len(buf) - n
      /\ \A i \in 1 .. Len(buf) - n : new[i] = buf[i + n]
  <2>1. new = SubSeq(buf, n + 1, Len(buf)) /\ buf \in Seq(Reports) /\ n \in Nat
        /\ n <= Len(buf)
    BY <1>1
  <2> HIDE DEF n, buf
  <2> QED  BY <2>1, NewOnes
<1>4. ASSUME NEW i \in Positions(new, "mouse")
      PROVE  i + n = m /\ i \in Nat
  <2>1. i \in 1 .. Len(buf) - n /\ new[i] = buf[i + n] /\ new[i].kind = "mouse"
    BY <1>3 DEF Positions
  <2>2. i + n \in n + 1 .. Len(buf)
    BY <1>1, <2>1
  <2> QED  BY <1>1, <2>1, <2>2 DEF Tracks
<1>5. CASE m = 0
  <2>1. Positions(new, "mouse") = {}
    <3>1. ASSUME NEW i \in Positions(new, "mouse") PROVE FALSE
      <4>1. i + n = 0 /\ i \in 1 .. Len(buf) - n
        BY <1>3, <1>4, <1>5 DEF Positions
      <4> QED  BY <1>1, <4>1
    <3> QED  BY <3>1
  <2>2. sum = 0
    BY <2>1, SumOfNone
  <2>3. u.accumulated[a] = x
    BY <1>5 DEF Accounted, Pending, Reported
  <2>4. 0 % Width(a) = 0
    BY <1>2
  <2> HIDE DEF sum, x
  <2>5. x + 0 - x = 0
    BY <1>2
  <2> QED  BY <2>2, <2>3, <2>4, <2>5 DEF sum, x
<1>6. CASE m # 0
  <2> DEFINE p == m - n
  <2>1. m \in n + 1 .. Len(buf) /\ buf[m].kind = "mouse"
    BY <1>1, <1>6 DEF Tracks
  <2>2. p \in 1 .. Len(buf) - n /\ p + n = m
    BY <1>1, <2>1, Shifted
  <2>3. new[p] = buf[m]
    BY <1>3, <2>2
  <2>4. Positions(new, "mouse") = {p}
    <3>1. p \in Positions(new, "mouse")
      BY <1>3, <2>1, <2>2, <2>3 DEF Positions
    <3>2. ASSUME NEW i \in Positions(new, "mouse") PROVE i = p
      BY <1>1, <1>4, <2>1
    <3> QED  BY <3>1, <3>2
  <2> HIDE DEF p
  <2> DEFINE told == buf[m].motion[a]
  <2>5. CASE Pending(u, o)
    <3>1. u.accumulated[a] = x /\ told = 0
      BY <1>6, <2>5 DEF Pending, Still
    <3>2. sum = 0
      <4>1. new[p].motion[a] = 0
        BY <2>3, <3>1
      <4> HIDE DEF told
      <4>2. 0 \in Int
        OBVIOUS
      <4>3. new[p].motion[a] \in Int
        BY <4>1, <4>2, Zenon
      <4>4. SumOf(new, a, {p}) = 0
        BY <4>1, <4>3, SumOfOne
      <4> QED  BY <2>4, <4>4
    <3>3. 0 % Width(a) = 0
      BY <1>2
    <3> HIDE DEF sum, x
    <3>4. x + 0 - x = 0
      BY <1>2
    <3> QED  BY <3>1, <3>2, <3>3, <3>4 DEF sum, x
  <2>6. CASE Reported(u, o)
    <3>1. u.accumulated[a] = 0 /\ told = Signed(x, Width(a))
      BY <2>6 DEF Reported, Still, InReport, Width
    <3>2. told \in Int
      <4>1. Width(a) \div 2 \in Int
        BY <1>2
      <4> HIDE DEF x, told
      <4>2. Signed(x, Width(a)) \in -(Width(a) \div 2) .. Width(a) - (Width(a) \div 2) - 1
        BY <1>2, SignedType
      <4> QED  BY <1>2, <3>1, <4>1, <4>2
    <3>3. sum = told
      <4>1. new[p].motion[a] = told
        BY <2>3
      <4> HIDE DEF told
      <4>2. SumOf(new, a, {p}) = told
        BY <3>2, <4>1, SumOfOne
      <4> QED  BY <2>4, <4>2
    <3>4. (Signed(x, Width(a)) - x) % Width(a) = 0
      BY <1>2, StoredDiffers
    <3> HIDE DEF sum, x, told
    <3>5. 0 + told - x = told - x
      BY <1>2, <3>2
    <3> QED  BY <3>1, <3>3, <3>4, <3>5 DEF sum, x
  <2> QED  BY <2>5, <2>6 DEF Accounted
<1> QED  BY <1>5, <1>6

\* The other actions either add motion or leave it, and the reports, alone.
MotionStep == Conserved \/ MotionArrives \/ MotionIsRedirected

LEMMA StepConserves == MouseInv /\ [Next]_vars => MotionStep \/ UNCHANGED vars
<1> SUFFICES ASSUME MouseInv, [Next]_vars, ~ UNCHANGED vars
             PROVE  MotionStep
  OBVIOUS
<1> DEFINE buf == handler.hid_report_buf
<1>1. handler \in Handlers /\ buf \in Seq(Reports) /\ Len(buf) \in Nat
  BY DEF MouseInv, Sound, Handlers
<1>2. CASE HidPollIntervalTimerCallback
  <2> SUFFICES ASSUME ~ MotionIsRedirected PROVE Conserved
    BY DEF MotionStep
  <2>1. UNCHANGED <<event_handler_table, current_application_id>>
    BY <1>2 DEF HidPollIntervalTimerCallback
  <2>2. Straight(handler')
    BY DEF MotionIsRedirected, Straight, Carries, MovesMotion, EventTable
  <2>3. PICK u : /\ Accounted(u, handler)
                 /\ handler'.hid_report_buf = u.hid_report_buf
                 /\ handler'.accumulated = u.accumulated
    BY <1>2, <2>2, TimerAccounts
  <2>4. ASSUME NEW a \in Axes
        PROVE  (handler'.accumulated[a] + SumOf(NewReports, a, Positions(NewReports, "mouse"))
                  - handler.accumulated[a]) % Width(a) = 0
    <3> DEFINE new == NewReports
    <3>1. new = SubSeq(u.hid_report_buf, Len(buf) + 1, Len(u.hid_report_buf))
      BY <2>3 DEF NewReports
    <3> HIDE DEF new
    <3>2. (u.accumulated[a] + SumOf(new, a, Positions(new, "mouse")) - handler.accumulated[a])
             % Width(a) = 0
      BY <1>1, <2>3, <3>1, AccountedSum
    <3> QED  BY <2>3, <3>2 DEF new
  <2> QED  BY <2>4 DEF Conserved, SumOf, Width
<1>3. CASE SpiRxComplete
  <2>1. PICK d \in Moves, pressed \in ButtonStates, down \in KeypadStates :
          UpdateState(d, pressed, down)
    BY <1>3 DEF SpiRxComplete
  <2>2. handler'.current_primary_button_state = pressed /\ handler'.current_keypad_state = down
    BY <1>1, <2>1 DEF UpdateState, Handlers
  <2> QED  BY <2>1, <2>2 DEF MotionStep, MotionArrives
<1>4. ASSUME handler'.accumulated = handler.accumulated,
             NewReports = <<>>
      PROVE  MotionStep
  BY <1>4 DEF MotionStep, Conserved
<1>5. CASE handler' = handler
  <2>1. SubSeq(buf, Len(buf) + 1, Len(buf)) = <<>>
    BY <1>1
  <2> QED  BY <1>4, <1>5, <2>1 DEF NewReports
<1>6. CASE HostTakes
  <2>1. buf # <<>> /\ handler' = [handler EXCEPT !.hid_report_buf = Tail(buf)]
    BY <1>1, <1>6 DEF HostTakes, Handlers
  <2>2. handler'.hid_report_buf = Tail(buf) /\ handler'.accumulated = handler.accumulated
    BY <1>1, <2>1 DEF Handlers
  <2>3. Tail(buf) \in Seq(Reports) /\ Len(Tail(buf)) = Len(buf) - 1
    BY <1>1, <2>1, TailPositions
  <2>4. SubSeq(Tail(buf), Len(buf) + 1, Len(Tail(buf))) = <<>>
    BY <1>1, <2>3
  <2> QED  BY <1>4, <2>2, <2>4 DEF NewReports
<1> QED
  BY <1>2, <1>3, <1>5, <1>6 DEF Next, RegisterConfigEntry, SetApplicationId

\* Whatever the buffer refuses and in whatever order keys, buttons and motion
\* change, a poll interval that is not configured to use motion otherwise loses
\* none and reports none twice.
THEOREM MotionIsConserved == Spec => MotionConserved
<1>1. MouseInv /\ [Next]_vars => [MotionStep]_vars
  BY StepConserves
<1> QED  BY <1>1, Invariance, PTL DEF Spec, MotionConserved, MotionStep

-----------------------------------------------------------------------------
(***************************************************************************)
(* The HAL's two states and the flags move together, from the first phase  *)
(* to the last.  spi_rx_complete only runs during reception: while it does *)
(* an overrun waits.                                                       *)
(***************************************************************************)
InReception == /\ spi_state = "BUSY_RX" /\ rx_dma_state = "BUSY"
               /\ spi_error_count = 0

InAbort == /\ spi_state = "READY" /\ rx_dma_state = "ABORT"
           /\ spi_error_count = 0
           /\ transfer_complete /\ ~overrun /\ ~in_handler

Stopped == /\ spi_state = "READY" /\ rx_dma_state = "READY"
           /\ spi_error_count = 1
           /\ ~transfer_complete /\ ~overrun /\ ~in_handler

PhaseInv == /\ transfer_complete \in BOOLEAN /\ overrun \in BOOLEAN /\ in_handler \in BOOLEAN
            /\ InReception \/ InAbort \/ Stopped

\* Nothing is loaded but by a handler.
CountInv == /\ received \in 0 .. PacketSize - 1 /\ taken \in 0 .. 2
            /\ DOMAIN loaded \subseteq 1 .. PacketSize
            /\ ~in_handler => DOMAIN loaded = {}

-----------------------------------------------------------------------------
LEMMA PhaseInitially == SpiInit => PhaseInv
BY DEF SpiInit, PhaseInv, InReception

\* Bytes arrive, and overrun, only during reception; the error's interrupt
\* starts the abort, whose interrupt ends it.
LEMMA PhaseStep == PhaseInv /\ [SpiNext]_spiVars => PhaseInv'
<1> SUFFICES ASSUME PhaseInv, [SpiNext]_spiVars
             PROVE  PhaseInv'
  OBVIOUS
<1> USE DEF PhaseInv
<1>1. ASSUME NEW p, Store(p) PROVE PhaseInv'
  BY <1>1 DEF Store, PassesBytes, stateVars, handlerVars, InReception, InAbort, Stopped
<1>2. CASE ByteArrives
  BY <1>1, <1>2 DEF ByteArrives
<1>3. CASE ByteOverruns
  BY <1>3
  DEF ByteOverruns, PassesBytes, stateVars, handlerVars, InReception, InAbort, Stopped
<1>4. CASE SpiInterrupt
  <2>1. InReception
    BY <1>4 DEF SpiInterrupt, InAbort, Stopped
  <2> QED
    BY <1>4, <2>1 DEF SpiInterrupt, AbortIT, handlerVars, InReception, InAbort
<1>5. CASE DmaInterrupt
  <2>1. CASE InReception
    BY <1>5, <2>1 DEF DmaInterrupt, ClearFlag, CircularReceive, stateVars, InReception
  <2>2. CASE InAbort
    <3>1. spi_state' = "READY" /\ rx_dma_state' = "READY"
      BY <1>5, <2>2 DEF DmaInterrupt, AbortOnError, InAbort
    <3>2. spi_error_count' = 1
      BY <1>5, <2>2 DEF DmaInterrupt, AbortOnError, InAbort
    <3>3. transfer_complete' = FALSE
      BY <1>5 DEF DmaInterrupt, ClearFlag
    <3>4. overrun' = FALSE
      BY <1>5, <2>2 DEF DmaInterrupt, InAbort
    <3>5. in_handler' = FALSE
      BY <1>5, <2>2 DEF DmaInterrupt, AbortOnError, InAbort
    <3> QED
      BY <3>1, <3>2, <3>3, <3>4, <3>5 DEF Stopped
  <2> QED
    BY <1>5, <2>1, <2>2 DEF DmaInterrupt, Stopped
<1>6. CASE \E i \in 1 .. PacketSize : LoadPart(i)
  BY <1>6 DEF LoadPart, flagVars, stateVars, InReception, InAbort, Stopped
<1>7. CASE Return
  BY <1>7 DEF Return, Loaded, flagVars, stateVars, InReception, InAbort, Stopped
<1>8. CASE UNCHANGED spiVars
  BY <1>8 DEF spiVars, flagVars, stateVars, handlerVars, InReception, InAbort, Stopped
<1> QED
  BY <1>2, <1>3, <1>4, <1>5, <1>6, <1>7, <1>8 DEF SpiNext

THEOREM PhasesInOrder == SpiSpec => []PhaseInv
<1> QED
  BY PhaseInitially, PhaseStep, PTL DEF SpiSpec

-----------------------------------------------------------------------------
LEMMA CountInitially == SpiInit => CountInv
<1> SUFFICES ASSUME SpiInit PROVE CountInv
  OBVIOUS
<1>1. loaded = <<>> /\ DOMAIN << >> = {}
  BY DEF SpiInit
<1> QED
  BY <1>1, SpiAssumption DEF SpiInit, CountInv

\* The stream's position stays within a packet.
LEMMA PositionStays ==
    ASSUME NEW n \in 0 .. PacketSize - 1
    PROVE  (n + 1) % PacketSize \in 0 .. PacketSize - 1
<1>1. PacketSize \in Nat /\ PacketSize > 0
  BY SpiAssumption
<1> QED
  BY <1>1

\* One more part has been loaded, from where it lies now.
LEMMA PartLoaded ==
    ASSUME NEW i, LoadPart(i)
    PROVE  /\ DOMAIN loaded' = DOMAIN loaded \cup {i} /\ loaded'[i] = spi_rx_buf[i]
           /\ \A j \in DOMAIN loaded : j # i => loaded'[j] = loaded[j]
<1>1. loaded' = [j \in DOMAIN loaded \cup {i} |-> IF j = i THEN spi_rx_buf[i] ELSE loaded[j]]
  BY DEF LoadPart
<1> QED
  BY <1>1

LEMMA CountStep == CountInv /\ [SpiNext]_spiVars => CountInv'
<1> SUFFICES ASSUME CountInv, [SpiNext]_spiVars
             PROVE  CountInv'
  OBVIOUS
<1> USE DEF CountInv
<1>1. ASSUME NEW p, Store(p) PROVE CountInv'
  <2>1. received' \in 0 .. PacketSize - 1
    BY <1>1, PositionStays DEF Store
  <2>2. taken' \in {0, taken}
    BY <1>1 DEF Store
  <2>3. UNCHANGED <<in_handler, loaded>>
    BY <1>1 DEF Store, handlerVars
  <2> QED
    BY <2>1, <2>2, <2>3
<1>2. CASE ByteArrives
  BY <1>1, <1>2 DEF ByteArrives
<1>3. CASE ByteOverruns
  BY <1>3 DEF ByteOverruns, lineVars, handlerVars
<1>4. CASE SpiInterrupt
  BY <1>4 DEF SpiInterrupt, lineVars, handlerVars
<1>5. CASE DmaInterrupt
  BY <1>5 DEF DmaInterrupt, lineVars
<1>6. ASSUME NEW i \in 1 .. PacketSize, LoadPart(i) PROVE CountInv'
  <2>1. DOMAIN loaded' \subseteq 1 .. PacketSize
    <3>1. DOMAIN loaded' = DOMAIN loaded \cup {i}
      BY <1>6, PartLoaded
    <3>2. i \in 1 .. PacketSize /\ DOMAIN loaded \subseteq 1 .. PacketSize
      BY <1>6
    <3> QED
      BY <3>1, <3>2, Zenon
  <2>2. in_handler' /\ received' = received
    BY <1>6 DEF LoadPart, lineVars
  <2>3. taken' \in 0 .. 2
    BY <1>6 DEF LoadPart
  <2> QED
    BY <2>1, <2>2, <2>3
<1>7. CASE Return
  <2>1. loaded' = <<>> /\ DOMAIN << >> = {}
    BY <1>7 DEF Return
  <2> QED
    BY <1>7, <2>1 DEF Return, lineVars
<1>8. CASE UNCHANGED spiVars
  BY <1>8 DEF spiVars, lineVars, handlerVars
<1> QED
  BY <1>2, <1>3, <1>4, <1>5, <1>6, <1>7, <1>8 DEF SpiNext

THEOREM CountsInRange == SpiSpec => []CountInv
<1> QED
  BY CountInitially, CountStep, PTL DEF SpiSpec

\* For every packet size: flags, states and counters keep their types, and no
\* second error is ever counted.
THEOREM SpiTypeCorrect == SpiSpec => []SpiTypeOK
<1>1. PhaseInv /\ CountInv => SpiTypeOK
  BY DEF PhaseInv, CountInv, InReception, InAbort, Stopped, SpiTypeOK
<1> QED
  BY <1>1, PhasesInOrder, CountsInRange, PTL

\* Whatever the interleaving of bytes, overruns and interrupts, reception
\* never stops without spi_rx_error being called or due.
THEOREM StopsAreAnnounced == SpiSpec => []StopIsAnnounced
<1>1. PhaseInv => StopIsAnnounced
  BY DEF PhaseInv, InReception, InAbort, Stopped, StopIsAnnounced
<1> QED
  BY <1>1, PhasesInOrder, PTL

-----------------------------------------------------------------------------
(***************************************************************************)
(* A handler that loads each motion in time.                               *)
(***************************************************************************)
\* No packet is complete while the motion of the one before is still due.
OneIsDue == ~(transfer_complete /\ in_handler /\ 1 \notin DOMAIN loaded)

LEMMA TakenInitially == SpiInit => TakenOnce /\ OneIsDue
BY DEF SpiInit, TakenOnce, MotionIsDue, OneIsDue

\* Promptness matters in one case: the first byte of a packet must not arrive
\* while the motion before is still to be loaded.
LEMMA TakenStep ==
    /\ PhaseInv /\ CountInv /\ TakenOnce /\ OneIsDue
    /\ Prompt
    /\ [SpiNext]_spiVars
    => TakenOnce' /\ OneIsDue'
<1> SUFFICES ASSUME PhaseInv, CountInv, TakenOnce, OneIsDue, Prompt, [SpiNext]_spiVars
             PROVE  TakenOnce' /\ OneIsDue'
  OBVIOUS
<1> DEFINE Goal == TakenOnce' /\ OneIsDue'
<1>1. ASSUME NEW p, Store(p) PROVE Goal
  <2>1. spi_state = "BUSY_RX" /\ spi_state' = spi_state
    BY <1>1 DEF Store, PassesBytes, stateVars
  <2>2. received \in 0 .. PacketSize - 1 /\ PacketSize \in Nat /\ PacketSize > 1
    BY SpiAssumption DEF CountInv
  <2>3. received' = (received + 1) % PacketSize
    BY <1>1 DEF Store
  <2>4. received' \in 0 .. PacketSize - 1 /\ (received = 0 => received' = 1)
    BY <2>2, <2>3, PositionStays
  <2>5. received' > 0 \/ transfer_complete'
    <3>1. CASE received' = 0
      BY <1>1, <3>1 DEF Store
    <3>2. CASE received' # 0
      BY <2>2, <2>4, <3>2
    <3> QED
      BY <3>1, <3>2
  <2>6. taken' = 0
    <3>1. CASE received = 0
      BY <1>1, <3>1 DEF Store
    <3>2. CASE received # 0
      BY <1>1, <2>1, <2>2, <3>2 DEF Store, TakenOnce
    <3> QED
      BY <3>1, <3>2
  <2>7. OneIsDue'
    <3>1. UNCHANGED <<in_handler, loaded>>
      BY <1>1 DEF Store, handlerVars
    <3>2. CASE in_handler /\ 1 \notin DOMAIN loaded
      <4>1. received = 0 /\ ~transfer_complete
        BY <3>2 DEF Prompt, MotionIsDue, OneIsDue
      <4>2. received' # 0
        BY <2>4, <4>1
      <4>3. transfer_complete' = (transfer_complete \/ received' = 0)
        BY <1>1 DEF Store
      <4> QED
        BY <4>1, <4>2, <4>3 DEF OneIsDue
    <3> QED
      BY <3>1, <3>2 DEF OneIsDue
  <2> QED
    BY <2>1, <2>5, <2>6, <2>7 DEF TakenOnce, MotionIsDue
<1>2. CASE ByteArrives
  BY <1>1, <1>2 DEF ByteArrives
<1>3. CASE ByteOverruns
  BY <1>3 DEF ByteOverruns, lineVars, stateVars, handlerVars, TakenOnce, MotionIsDue, OneIsDue
<1>4. CASE SpiInterrupt
  BY <1>4 DEF SpiInterrupt, handlerVars, TakenOnce, OneIsDue
<1>5. CASE DmaInterrupt
  <2>1. transfer_complete' = FALSE
    BY <1>5 DEF DmaInterrupt, ClearFlag
  <2>2. CASE InReception
    <3>1. in_handler' /\ UNCHANGED <<spi_state, loaded, received, taken>>
      BY <1>5, <2>2 DEF DmaInterrupt, CircularReceive, InReception, stateVars, lineVars
    <3>2. 1 \notin DOMAIN loaded'
      BY <1>5, <3>1 DEF DmaInterrupt, CountInv
    <3>3. taken = 0
      BY <1>5, <2>2 DEF DmaInterrupt, InReception, TakenOnce, MotionIsDue
    <3> QED
      BY <2>1, <3>1, <3>2, <3>3 DEF TakenOnce, MotionIsDue, OneIsDue
  <2>3. CASE ~InReception
    BY <1>5, <2>1, <2>3
    DEF DmaInterrupt, PhaseInv, InAbort, Stopped, AbortOnError, TakenOnce, OneIsDue
  <2> QED
    BY <2>2, <2>3
<1>6. ASSUME NEW i \in 1 .. PacketSize, LoadPart(i) PROVE Goal
  <2>1. /\ in_handler /\ i \notin DOMAIN loaded
        /\ UNCHANGED <<transfer_complete, spi_state, received, in_handler>>
    BY <1>6 DEF LoadPart, flagVars, stateVars, lineVars
  <2>2. DOMAIN loaded' = DOMAIN loaded \cup {i}
    BY <1>6, PartLoaded
  <2>3. CASE i = 1
    <3>1. ~transfer_complete /\ MotionIsDue /\ received = 0
      BY <2>1, <2>3 DEF OneIsDue, MotionIsDue, Prompt
    <3>2. spi_state = "BUSY_RX" => taken = 0
      BY <3>1 DEF TakenOnce
    <3>3. spi_state = "BUSY_RX" => taken' = 1
      BY <1>6, <2>3, <3>2 DEF LoadPart
    <3>4. ~MotionIsDue'
      BY <2>1, <2>2, <2>3, <3>1 DEF MotionIsDue
    <3> QED
      BY <2>1, <3>1, <3>3, <3>4 DEF TakenOnce, OneIsDue
  <2>4. CASE i # 1
    <3>1. taken' = taken /\ (MotionIsDue' <=> MotionIsDue)
      BY <1>6, <2>1, <2>2, <2>4 DEF LoadPart, MotionIsDue
    <3> QED
      BY <2>1, <2>2, <2>4, <3>1 DEF TakenOnce, OneIsDue
  <2> QED
    BY <2>3, <2>4
<1>7. CASE Return
  <2>1. 1 \in DOMAIN loaded
    BY <1>7, SpiAssumption DEF Return, Loaded
  <2> QED
    BY <1>7, <2>1
    DEF Return, Loaded, flagVars, stateVars, lineVars, TakenOnce, MotionIsDue, OneIsDue
<1>8. CASE UNCHANGED spiVars
  BY <1>8 DEF spiVars, flagVars, stateVars, lineVars, handlerVars, TakenOnce, MotionIsDue,
              OneIsDue
<1> QED
  BY <1>2, <1>3, <1>4, <1>5, <1>6, <1>7, <1>8 DEF SpiNext

\* For every packet size: when each motion is loaded before the next packet
\* begins, it is added exactly once, though the handler is late with the rest.
THEOREM PromptMotionTakenOnce == SpiSpec => MotionTakenOnce
<1>1. SpiSpec /\ []Prompt => []TakenOnce
  BY TakenInitially, TakenStep, PhasesInOrder, CountsInRange, PTL DEF SpiSpec
<1> QED
  BY <1>1 DEF MotionTakenOnce

-----------------------------------------------------------------------------
(***************************************************************************)
(* The composition.  Each of its steps is a step of either module, or one  *)
(* of both; what spi_rx_complete loads, be it parts of two packets, is     *)
(* among the inputs of MouseEventHandler.                                  *)
(***************************************************************************)
LEMMA SystemStepsSpi == [SystemNext]_allVars => [SpiNext]_spiVars
BY DEF SystemNext, SensorSends, LineOverruns, RxErrorInterrupt, RxDmaInterrupt,
       LoadsPacket, RxComplete, PollInterval, HostPolls, MainRegisters, SpiNext, allVars

\* Whatever MouseEventHandler does with a packet, the reception is the one of
\* SpiReceive.
THEOREM SystemImplementsSpi == SystemSpec => SpiSpec
<1>1. SystemInit => SpiInit
  BY DEF SystemInit
<1> QED
  BY <1>1, SystemStepsSpi, PTL DEF SystemSpec, SpiSpec

SentMotion(f) == MotionOf(f) \in Moves
SentButtons(f) == ButtonsOf(f) \in ButtonStates /\ KeysOf(f) \in KeypadStates

\* The motion is there when the second part is expected, both while a packet
\* waits for its handler or is being loaded.
PacketWaits == transfer_complete /\ rx_dma_state = "BUSY"

PacketsInv ==
    /\ DOMAIN spi_rx_buf = 1 .. 2
    /\ received \in {0, 1}
    /\ received = 1 => packet \in Packets /\ SentMotion(spi_rx_buf)
    /\ PacketWaits \/ in_handler => SentMotion(spi_rx_buf) /\ SentButtons(spi_rx_buf)
    /\ 1 \in DOMAIN loaded => SentMotion(loaded)
    /\ 2 \in DOMAIN loaded => SentButtons(loaded)

LEMMA StoredPart ==
    ASSUME PacketsInv, NEW p \in Packets, Store(p), received = 1 => p = packet
    PROVE  PacketsInv'
<1>1. DOMAIN p = 1 .. 2 /\ SentMotion(p) /\ SentButtons(p)
  BY PacketAssumption DEF SentMotion, SentButtons
<1>2. /\ spi_rx_buf' = [spi_rx_buf EXCEPT ![received + 1] = p[received + 1]]
      /\ received' = (received + 1) % 2 /\ packet' = p
      /\ transfer_complete' = (transfer_complete \/ received' = 0)
      /\ UNCHANGED <<rx_dma_state, in_handler, loaded>>
  BY PacketAssumption DEF Store, stateVars, handlerVars
<1>3. CASE received = 0
  <2>1. received' = 1 /\ spi_rx_buf' = [spi_rx_buf EXCEPT ![1] = p[1]]
    BY <1>2, <1>3
  <2>2. spi_rx_buf'[1] = p[1] /\ spi_rx_buf'[2] = spi_rx_buf[2] /\ DOMAIN spi_rx_buf' = 1 .. 2
    BY <2>1 DEF PacketsInv
  <2>3. (PacketWaits \/ in_handler)' => PacketWaits \/ in_handler
    <3>1. received' # 0
      BY <2>1
    <3>2. transfer_complete' => transfer_complete
      BY <1>2, <3>1, Zenon
    <3> QED
      BY <1>2, <3>2 DEF PacketWaits
  <2>4. /\ SentMotion(spi_rx_buf')
        /\ SentButtons(spi_rx_buf) => SentButtons(spi_rx_buf')
    BY <1>1, <2>2 DEF SentMotion, SentButtons, MotionOf, ButtonsOf, KeysOf
  <2> QED
    BY <1>2, <2>1, <2>2, <2>3, <2>4 DEF PacketsInv, SentMotion, SentButtons, MotionOf,
                                        ButtonsOf, KeysOf
<1>4. CASE received = 1
  <2>1. received' = 0 /\ spi_rx_buf' = [spi_rx_buf EXCEPT ![2] = p[2]]
    BY <1>2, <1>4
  <2>2. spi_rx_buf'[1] = spi_rx_buf[1] /\ spi_rx_buf'[2] = p[2] /\ DOMAIN spi_rx_buf' = 1 .. 2
    BY <2>1 DEF PacketsInv
  <2>3. SentMotion(spi_rx_buf') /\ SentButtons(spi_rx_buf')
    BY <1>1, <1>4, <2>2 DEF PacketsInv, SentMotion, SentButtons, MotionOf, ButtonsOf, KeysOf
  <2> QED
    BY <1>2, <2>1, <2>2, <2>3 DEF PacketsInv, SentMotion, SentButtons, MotionOf, ButtonsOf,
                                  KeysOf
<1> QED
  BY <1>3, <1>4 DEF PacketsInv

\* A part is loaded only after the sensor sent it.
LEMMA LoadedPart ==
    ASSUME PacketsInv, NEW i \in 1 .. 2, LoadPart(i)
    PROVE  PacketsInv'
<1>1. in_handler /\ UNCHANGED <<flagVars, stateVars, lineVars, in_handler>>
  BY DEF LoadPart
<1>2. SentMotion(spi_rx_buf) /\ SentButtons(spi_rx_buf)
  BY <1>1 DEF PacketsInv
<1>3. /\ DOMAIN loaded' = DOMAIN loaded \cup {i} /\ loaded'[i] = spi_rx_buf[i]
      /\ \A j \in DOMAIN loaded : j # i => loaded'[j] = loaded[j]
  BY PartLoaded
<1>4. 1 \in DOMAIN loaded' => SentMotion(loaded')
  BY <1>2, <1>3 DEF PacketsInv, SentMotion, MotionOf
<1>5. 2 \in DOMAIN loaded' => SentButtons(loaded')
  BY <1>2, <1>3 DEF PacketsInv, SentButtons, ButtonsOf, KeysOf
<1> QED
  BY <1>1, <1>4, <1>5 DEF PacketsInv, PacketWaits, flagVars, stateVars, lineVars, SentMotion,
                          SentButtons, MotionOf, ButtonsOf, KeysOf

LEMMA PacketsStep == PhaseInv /\ PacketsInv /\ [SpiNext]_spiVars => PacketsInv'
<1> SUFFICES ASSUME PhaseInv, PacketsInv, [SpiNext]_spiVars
             PROVE  PacketsInv'
  OBVIOUS
<1>1. CASE ByteArrives
  <2>1. PICK p \in Packets : Store(p) /\ (received = 1 => p = packet)
    BY <1>1 DEF ByteArrives, PacketsInv
  <2> QED
    BY <2>1, StoredPart
<1>2. ASSUME UNCHANGED <<lineVars, loaded>>,
             (PacketWaits \/ in_handler)' => PacketWaits \/ in_handler
      PROVE  PacketsInv'
  BY <1>2 DEF lineVars, PacketsInv, SentMotion, SentButtons, MotionOf, ButtonsOf, KeysOf
<1>3. CASE ByteOverruns
  BY <1>2, <1>3 DEF ByteOverruns, stateVars, handlerVars, PacketWaits
<1>4. CASE SpiInterrupt
  <2>1. rx_dma_state' = "ABORT"
    BY <1>4 DEF SpiInterrupt, AbortIT, PhaseInv, InReception, InAbort, Stopped
  <2> QED
    BY <1>2, <1>4, <2>1 DEF SpiInterrupt, handlerVars, PacketWaits
<1>5. CASE DmaInterrupt
  <2>1. ~PacketWaits' /\ UNCHANGED <<lineVars, loaded>>
    BY <1>5 DEF DmaInterrupt, ClearFlag, PacketWaits
  <2>2. in_handler' => PacketWaits \/ in_handler
    <3>1. CASE InReception
      BY <1>5, <3>1 DEF DmaInterrupt, InReception, PacketWaits
    <3>2. CASE ~InReception
      BY <1>5, <3>2 DEF DmaInterrupt, PhaseInv, InAbort, Stopped, AbortOnError
    <3> QED
      BY <3>1, <3>2
  <2> QED
    BY <1>2, <2>1, <2>2
<1>6. CASE \E i \in 1 .. PacketSize : LoadPart(i)
  BY <1>6, LoadedPart, PacketAssumption
<1>7. CASE Return
  <2>1. loaded' = <<>> /\ DOMAIN << >> = {}
    BY <1>7 DEF Return
  <2>2. 1 \notin DOMAIN loaded' /\ 2 \notin DOMAIN loaded'
    BY <2>1
  <2> QED
    BY <1>7, <2>2 DEF Return, Loaded, flagVars, stateVars, lineVars, PacketsInv, PacketWaits,
                      SentMotion, SentButtons, MotionOf, ButtonsOf, KeysOf
<1>8. CASE UNCHANGED spiVars
  BY <1>2, <1>8 DEF spiVars, flagVars, stateVars, handlerVars, PacketWaits
<1> QED
  BY <1>1, <1>3, <1>4, <1>5, <1>6, <1>7, <1>8 DEF SpiNext

\* Late as the handler may be, it never loads the text that spi_rx_buf is
\* declared with, but parts that the sensor has sent.
THEOREM ReadsAreSent == SystemSpec => []PacketsInv
<1>1. SpiInit => PacketsInv
  <2>1. DOMAIN << >> = {}
    OBVIOUS
  <2> QED
    BY <2>1, PacketAssumption DEF SpiInit, PacketsInv, PacketWaits
<1> QED
  BY <1>1, PacketsStep, PhasesInOrder, SystemImplementsSpi, PTL DEF SpiSpec

LEMMA SystemStepsMouse == PacketsInv /\ [SystemNext]_allVars => [Next]_vars
<1> SUFFICES ASSUME PacketsInv, [SystemNext]_allVars
             PROVE  [Next]_vars
  OBVIOUS
<1>1. CASE RxComplete
  <2>1. UpdateState(MotionOf(loaded), ButtonsOf(loaded), KeysOf(loaded))
    BY <1>1 DEF RxComplete
  <2>2. SentMotion(loaded) /\ SentButtons(loaded)
    BY <1>1, PacketAssumption DEF RxComplete, Return, Loaded, PacketsInv
  <2> QED
    BY <2>1, <2>2 DEF SentMotion, SentButtons, SpiRxComplete, Next
<1>2. CASE UNCHANGED mouseVars
  BY <1>2 DEF mouseVars
<1> QED
  BY <1>1, <1>2 DEF SystemNext, SensorSends, LineOverruns, RxErrorInterrupt, RxDmaInterrupt,
                    LoadsPacket, PollInterval, HostPolls, MainRegisters, Next, allVars

\* Whatever is loaded out of order, lost to an overrun or added twice on the
\* way, the reports are the ones of MouseEventHandler.
THEOREM SystemImplementsMouse == SystemSpec => Spec
<1>1. SystemInit => Init
  BY DEF SystemInit
<1> QED
  BY <1>1, SystemStepsMouse, ReadsAreSent, PTL DEF SystemSpec, Spec

\* From the sensor to the host, for every configuration in flash: the host ends
\* up with the buttons that the device takes to be reported, and a stop of the
\* reception is announced.
THEOREM SystemIsInStep == SystemSpec => [](ButtonsInStep /\ StopIsAnnounced)
<1> QED
  BY SystemImplementsMouse, SystemImplementsSpi, ButtonsStayInStep, StopsAreAnnounced, PTL

\* No late or doubled packet leaves the host with a key held down, unless the
\* buffer was nearly full.
THEOREM SystemLiftsKeys == SystemSpec => KeysAreLifted
<1> QED
  BY SystemImplementsMouse, KeysLifted

-----------------------------------------------------------------------------
(***************************************************************************)
(* The last packet.  Between two packets, it is in the handler's state or  *)
(* there is an interrupt, pending or being handled, that finds it in       *)
(* spi_rx_buf; one that has loaded it already has no other behind it.      *)
(***************************************************************************)
FromPacket(f) == ButtonsOf(f) = ButtonsOf(packet) /\ KeysOf(f) = KeysOf(packet)

ShowsPacket == /\ handler.current_primary_button_state = ButtonsOf(packet)
               /\ handler.current_keypad_state = KeysOf(packet)

LastInv ==
    spi_state = "BUSY_RX" /\ received = 0 =>
        /\ ~transfer_complete /\ ~in_handler => ShowsPacket
        /\ transfer_complete \/ in_handler => FromPacket(spi_rx_buf)
        /\ ~transfer_complete /\ 2 \in DOMAIN loaded => FromPacket(loaded)

LEMMA LastInitially == SystemInit => LastInv
<1> SUFFICES ASSUME SystemInit PROVE LastInv
  OBVIOUS
<1>1. ShowsPacket
  BY PacketAssumption DEF SystemInit, SpiInit, Init, ShowsPacket
<1>2. 2 \notin DOMAIN loaded
  <2>1. loaded = <<>> /\ DOMAIN << >> = {}
    BY DEF SystemInit, SpiInit
  <2> QED
    BY <2>1
<1> QED
  BY <1>1, <1>2 DEF SystemInit, SpiInit, LastInv

LEMMA LastStep ==
    MouseInv /\ PhaseInv /\ CountInv /\ PacketsInv /\ LastInv /\ [SystemNext]_allVars => LastInv'
<1> SUFFICES ASSUME MouseInv, PhaseInv, CountInv, PacketsInv, LastInv, [SystemNext]_allVars
             PROVE  LastInv'
  OBVIOUS
<1>1. ASSUME UNCHANGED <<spiVars, handler.current_primary_button_state,
                         handler.current_keypad_state>>
      PROVE  LastInv'
  BY <1>1 DEF spiVars, flagVars, stateVars, lineVars, handlerVars, LastInv, ShowsPacket,
              FromPacket, ButtonsOf, KeysOf
<1>2. CASE SensorSends
  <2>1. PICK p : Store(p)
    BY <1>2 DEF SensorSends, ByteArrives
  <2>2. /\ spi_rx_buf' = [spi_rx_buf EXCEPT ![received + 1] = p[received + 1]]
        /\ received' = (received + 1) % 2 /\ packet' = p
        /\ transfer_complete' = (transfer_complete \/ received' = 0)
    BY <2>1, PacketAssumption DEF Store
  <2>3. CASE received = 0
    <3>1. received' = 1
      BY <2>2, <2>3
    <3> QED
      BY <3>1 DEF LastInv
  <2>4. CASE received = 1
    <3>1. received' = 0 /\ spi_rx_buf' = [spi_rx_buf EXCEPT ![2] = p[2]]
      BY <2>2, <2>4
    <3>2. spi_rx_buf'[2] = packet'[2]
      BY <2>2, <3>1 DEF PacketsInv
    <3>3. transfer_complete'
      BY <2>2, <3>1, Zenon
    <3> QED
      BY <3>2, <3>3 DEF LastInv, FromPacket, ButtonsOf, KeysOf
  <2> QED
    BY <2>3, <2>4 DEF PacketsInv
<1>3. CASE LineOverruns
  BY <1>3 DEF LineOverruns, ByteOverruns, stateVars, lineVars, handlerVars, mouseVars, vars,
              LastInv, ShowsPacket, FromPacket, ButtonsOf, KeysOf
<1>4. CASE RxErrorInterrupt
  BY <1>4 DEF RxErrorInterrupt, SpiInterrupt, LastInv
<1>5. CASE RxDmaInterrupt
  <2>1. DmaInterrupt
    BY <1>5 DEF RxDmaInterrupt
  <2>2. CASE InReception
    <3>1. /\ transfer_complete /\ in_handler'
          /\ UNCHANGED <<spi_state, loaded, received, packet, spi_rx_buf>>
      BY <2>1, <2>2 DEF DmaInterrupt, CircularReceive, InReception, stateVars, lineVars
    <3>2. 2 \notin DOMAIN loaded'
      BY <2>1, <3>1 DEF DmaInterrupt, CountInv
    <3> QED
      BY <3>1, <3>2 DEF LastInv, FromPacket, ButtonsOf, KeysOf
  <2>3. CASE ~InReception
    BY <2>1, <2>3 DEF DmaInterrupt, PhaseInv, InAbort, Stopped, AbortOnError, LastInv
  <2> QED
    BY <2>2, <2>3
<1>6. CASE LoadsPacket
  <2>1. PICK i \in 1 .. 2 : LoadPart(i)
    BY <1>6, PacketAssumption DEF LoadsPacket
  <2>2. /\ in_handler /\ in_handler'
        /\ UNCHANGED <<spi_state, received, packet, spi_rx_buf, transfer_complete>>
    BY <2>1 DEF LoadPart, flagVars, stateVars, lineVars
  <2>3. /\ DOMAIN loaded' = DOMAIN loaded \cup {i} /\ loaded'[i] = spi_rx_buf[i]
        /\ \A j \in DOMAIN loaded : j # i => loaded'[j] = loaded[j]
    BY <2>1, PartLoaded
  <2> QED
    BY <2>2, <2>3 DEF LastInv, FromPacket, ButtonsOf, KeysOf
<1>7. CASE RxComplete
  <2>1. /\ in_handler /\ 2 \in DOMAIN loaded /\ ~in_handler'
        /\ UNCHANGED <<spi_state, received, packet, spi_rx_buf, transfer_complete>>
    BY <1>7, PacketAssumption DEF RxComplete, Return, Loaded, flagVars, stateVars, lineVars
  <2>2. 2 \notin DOMAIN loaded'
    <3>1. loaded' = <<>> /\ DOMAIN << >> = {}
      BY <1>7 DEF RxComplete, Return
    <3> QED
      BY <3>1
  <2>3. /\ handler'.current_primary_button_state = ButtonsOf(loaded)
        /\ handler'.current_keypad_state = KeysOf(loaded)
    <3>1. handler \in Handlers
      BY DEF MouseInv, Sound
    <3> QED
      BY <1>7, <3>1 DEF RxComplete, UpdateState, Handlers
  <2> QED
    BY <2>1, <2>2, <2>3 DEF LastInv, ShowsPacket, FromPacket, ButtonsOf, KeysOf
<1>8. CASE PollInterval
  <2>1. InputKept(handler, handler')
    BY <1>8, TimerInv DEF PollInterval
  <2> QED
    BY <1>1, <1>8, <2>1 DEF PollInterval, InputKept
<1>9. CASE HostPolls
  <2>1. handler \in Handlers
    BY DEF MouseInv, Sound
  <2>2. handler' = [handler EXCEPT !.hid_report_buf = Tail(@)]
    BY <1>9 DEF HostPolls, HostTakes
  <2>3. UNCHANGED <<handler.current_primary_button_state, handler.current_keypad_state>>
    BY <2>1, <2>2 DEF Handlers
  <2> QED
    BY <1>1, <1>9, <2>3 DEF HostPolls
<1>10. CASE MainRegisters
  BY <1>1, <1>10 DEF MainRegisters, RegisterConfigEntry
<1>11. CASE UNCHANGED allVars
  BY <1>1, <1>11 DEF allVars, mouseVars, vars
<1> QED
  BY <1>2, <1>3, <1>4, <1>5, <1>6, <1>7, <1>8, <1>9, <1>10, <1>11 DEF SystemNext

\* However late the handlers run and whatever they load of packets that overtake
\* each other, once nothing is left to handle the device has the buttons and keys
\* of the last packet: no packet is the last and left unread.
THEOREM SystemSettlesOnLastPacket == SystemSpec => []SettlesOnLastPacket
<1>1. SystemSpec => [](MouseInv /\ PhaseInv /\ CountInv /\ PacketsInv)
  BY SystemImplementsMouse, Invariance, SystemImplementsSpi, PhasesInOrder, CountsInRange,
     ReadsAreSent, PTL
<1>2. LastInv => SettlesOnLastPacket
  BY DEF LastInv, ShowsPacket, SettlesOnLastPacket
<1> QED
  BY <1>1, <1>2, LastInitially, LastStep, PTL DEF SystemSpec
=============================================================================
