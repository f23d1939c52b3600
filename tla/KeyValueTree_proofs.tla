------------------------ MODULE KeyValueTree_proofs -------------------------
(***************************************************************************)
(* Theorems about the store in flash, for every number of links of a node, *)
(* every capacity of the sector and every set of keys, wherever resets cut *)
(* writes short.                                                           *)
(*                                                                         *)
(* A write is a row of programming calls.  The proof follows each row once, *)
(* from the image it starts from to the one it ends in (Runs), and shows   *)
(* that every image on the way is one from which the device can go on      *)
(* (Safe); the invariant says that the calls still to come are the rest of *)
(* such a row, so that a step of ProgramFlash, and a reset after any of    *)
(* them, needs no argument of its own.  What makes an image safe is that   *)
(* the roots so far form a chain (Chain) and that some set of nodes is     *)
(* closed under valid links and entered on one way only (Tree): the        *)
(* traversal, a loop with a stack, stays in every such set (Traversal-     *)
(* OfTree), and so visits exactly what is reached.                         *)
(***************************************************************************)
EXTENDS ConfigurationLoad, FiniteSetTheorems, WellFoundedInduction, TLAPS

-----------------------------------------------------------------------------
(***************************************************************************)
(* Induction and recursion over the turns of a loop.                       *)
(***************************************************************************)
LEMMA LeastExists ==
    ASSUME NEW S \in SUBSET Nat, S # {}
    PROVE  \E m \in S : \A i \in S : m <= i
<1> DEFINE Less == {p \in Nat \X Nat : p[1] < p[2]}
<1>1. IsWellFoundedOn(Less, Nat)
  BY NatLessThanWellFounded DEF OpToRel
<1> HIDE DEF Less
<1>2. PICK m \in S : \A i \in S : ~ (<<i, m>> \in Less)
  BY <1>1, WFMin
<1>3. ASSUME NEW i \in S PROVE m <= i
  <2>1. i \in Nat /\ m \in Nat /\ ~ (<<i, m>> \in Less)
    BY <1>2
  <2>2. ~ (i < m)
    BY <2>1 DEF Less
  <2> QED  BY <2>1, <2>2
<1> QED  BY <1>3

\* A set of turns that holds the first and, with each, the next.
LEMMA EveryTurn ==
    ASSUME NEW N \in Nat, NEW P,
           0 \in P, \A n \in 1 .. N : n - 1 \in P => n \in P
    PROVE  \A n \in 0 .. N : n \in P
<1> SUFFICES ASSUME {n \in 0 .. N : n \notin P} # {} PROVE FALSE
  OBVIOUS
<1> DEFINE Bad == {m \in 0 .. N : m \notin P}
<1>1. PICK n \in Bad : \A m \in Bad : n <= m
  <2>1. Bad \in SUBSET Nat /\ Bad # {}
    OBVIOUS
  <2> HIDE DEF Bad
  <2> QED
    BY <2>1, LeastExists
<1>2. n \in 1 .. N
  BY <1>1
<1>3. n - 1 \in P
  BY <1>1, <1>2
<1> QED
  BY <1>1, <1>2, <1>3

\* The states, among S, of a loop of N turns that starts with s0.
Loop(h, S, s0, N, turn) ==
    h \in [0 .. N -> S] /\ h[0] = s0 /\ \A n \in 1 .. N : h[n] = turn[n][h[n - 1]]


LEMMA LoopExists ==
    ASSUME NEW S, NEW s0 \in S, NEW N \in Nat,
           NEW turn \in [1 .. N -> [S -> S]]
    PROVE  \E h : Loop(h, S, s0, N, turn)
<1> DEFINE Upto(h, n) == \A m \in 0 .. n : h[m] = IF m = 0 THEN s0 ELSE turn[m][h[m - 1]]
           P == {n \in 0 .. N : \E h \in [0 .. n -> S] : Upto(h, n)}
<1>1. 0 \in P
  <2> DEFINE h == [m \in 0 .. 0 |-> s0]
  <2>1. h \in [0 .. 0 -> S] /\ Upto(h, 0)
    OBVIOUS
  <2> HIDE DEF h, Upto
  <2>2. 0 \in 0 .. N
    OBVIOUS
  <2> QED
    BY <2>1, <2>2
<1>2. ASSUME NEW n \in 1 .. N, n - 1 \in P PROVE n \in P
  <2>1. PICK h \in [0 .. n - 1 -> S] : Upto(h, n - 1)
    BY <1>2
  <2> DEFINE g == [m \in 0 .. n |-> IF m = n THEN turn[n][h[n - 1]] ELSE h[m]]
  <2>2. h[n - 1] \in S
    BY <2>1
  <2>3. g \in [0 .. n -> S]
    BY <2>1, <2>2
  <2>4. ASSUME NEW m \in 0 .. n
        PROVE  g[m] = IF m = 0 THEN s0 ELSE turn[m][g[m - 1]]
    <3>1. CASE m = n
      <4>1. g[m] = turn[n][h[n - 1]] /\ m # 0
        BY <3>1
      <4>2. g[m - 1] = h[n - 1]
        BY <3>1
      <4> QED
        BY <3>1, <4>1, <4>2
    <3>2. CASE m # n
      <4>3. g[m] = h[m] /\ (m # 0 => g[m - 1] = h[m - 1])
        BY <3>2
      <4>1. m \in 0 .. n - 1
        BY <3>2
      <4>2. h[m] = IF m = 0 THEN s0 ELSE turn[m][h[m - 1]]
        BY <2>1, <4>1
      <4> QED
        BY <4>2, <4>3
    <3> QED
      BY <3>1, <3>2
  <2> HIDE DEF g
  <2>5. Upto(g, n) /\ n \in 0 .. N
    BY <2>4
  <2> HIDE DEF Upto
  <2> QED
    BY <2>3, <2>5
<1> HIDE DEF P, Upto
<1>3. N \in P
  <2>1. \A n \in 0 .. N : n \in P
    BY <1>1, <1>2, EveryTurn
  <2> QED
    BY <2>1
<1>4. PICK h \in [0 .. N -> S] : Upto(h, N)
  BY <1>3 DEF P
<1>5. 0 \in 0 .. N /\ \A n \in 1 .. N : n \in 0 .. N /\ n # 0
  OBVIOUS
<1>6. h[0] = s0 /\ \A n \in 1 .. N : h[n] = turn[n][h[n - 1]]
  BY <1>4, <1>5 DEF Upto
<1> QED
  BY <1>4, <1>6 DEF Loop

-----------------------------------------------------------------------------
(***************************************************************************)
(* An image of the flash, and the tree in it.                              *)
(***************************************************************************)
LinkStates == {"uninitialized", "valid", "invalid", "unallocated"}

Nodes == [written : BOOLEAN, active : BOOLEAN, data_valid : BOOLEAN,
          key : Keys \cup {NoKey}, value : BOOLEAN,
          next_root : Addr \cup {NoAddr},
          link : [LinkId -> LinkStates],
          to : [LinkId -> Addr \cup {NoAddr}]]

Images == [Addr -> Nodes]

\* The node at a has a valid link to c.
LinksTo(f, a, c) == \E i \in LinkId : f[a].link[i] = "valid" /\ LinkAddress(f, a, i) = c

\* A set of nodes that the valid links do not lead out of.
Closed(f, S) ==
    \A a \in S : \A i \in LinkId : f[a].link[i] = "valid" => LinkAddress(f, a, i) \in S

\* The nodes of R are reached from r on one way at most.
OneWay(f, R, r) ==
    /\ \A a \in R : \A i \in LinkId : f[a].link[i] = "valid" => LinkAddress(f, a, i) # r
    /\ \A a, b \in R : \A i, j \in LinkId :
          /\ f[a].link[i] = "valid" /\ f[b].link[j] = "valid"
          /\ LinkAddress(f, a, i) = LinkAddress(f, b, j)
          => a = b /\ i = j

Tree(f, R, r) ==
    /\ R \subseteq Addr /\ r \in R
    /\ Closed(f, R)
    /\ OneWay(f, R, r)

-----------------------------------------------------------------------------
(***************************************************************************)
(* valid_children_links.                                                   *)
(***************************************************************************)
LEMMA LinkIds ==
    /\ MAX_NUM_CHILD_NODES \in Nat /\ MAX_NUM_CHILD_NODES >= 2
    /\ \A n \in 1 .. MAX_NUM_CHILD_NODES : n - 1 \in LinkId
    /\ LinkId \subseteq Nat /\ 0 \in LinkId
    /\ Capacity \in Nat /\ Capacity > 0
BY KeyValueTreeAssumption DEF LinkId

\* Turn n of valid_children_links, as a step from the links found before.
NextChild(f, a, n, found) ==
    IF f[a].link[n - 1] = "valid" THEN Append(found, LinkAddress(f, a, n - 1)) ELSE found

\* The links found among the first n.
Found(f, a, n, found) ==
    /\ \A c \in ToSet(found) :
          \E i \in 0 .. n - 1 : f[a].link[i] = "valid" /\ LinkAddress(f, a, i) = c
    /\ \A i \in 0 .. n - 1 : f[a].link[i] = "valid" => LinkAddress(f, a, i) \in ToSet(found)
    /\ IsInjective(found)

LEMMA AppendedSet ==
    ASSUME NEW S, NEW s \in Seq(S), NEW e \in S
    PROVE  /\ Append(s, e) \in Seq(S)
           /\ ToSet(Append(s, e)) = ToSet(s) \cup {e}
           /\ e \notin ToSet(s) /\ IsInjective(s) => IsInjective(Append(s, e))
<1>1. Append(s, e) \in Seq(S) /\ Len(Append(s, e)) = Len(s) + 1
  OBVIOUS
<1>2. \A i \in 1 .. Len(s) : Append(s, e)[i] = s[i]
  OBVIOUS
<1>3. Append(s, e)[Len(s) + 1] = e
  OBVIOUS
<1>4. DOMAIN s = 1 .. Len(s) /\ DOMAIN Append(s, e) = 1 .. Len(s) + 1 /\ Len(s) \in Nat
  OBVIOUS
<1> DEFINE t == Append(s, e)
<1> HIDE DEF t
<1>5. ToSet(t) = ToSet(s) \cup {e}
  <2>1. \A x \in ToSet(t) : x \in ToSet(s) \cup {e}
    BY <1>2, <1>3, <1>4 DEF ToSet, t
  <2>2. \A x \in ToSet(s) : x \in ToSet(t)
    BY <1>2, <1>4 DEF ToSet, t
  <2>3. e \in ToSet(t)
    BY <1>3, <1>4 DEF ToSet, t
  <2> QED
    BY <2>1, <2>2, <2>3
<1>6. ASSUME e \notin ToSet(s), IsInjective(s) PROVE IsInjective(t)
  <2> SUFFICES ASSUME NEW i \in DOMAIN t, NEW j \in DOMAIN t, t[i] = t[j] PROVE i = j
    BY DEF IsInjective
  <2>1. \A k \in 1 .. Len(s) : s[k] # e
    BY <1>4, <1>6 DEF ToSet
  <2> QED
    BY <1>2, <1>3, <1>4, <1>6, <2>1 DEF IsInjective, t
<1> QED
  BY <1>1, <1>5, <1>6 DEF t

LEMMA ChildrenFound ==
    ASSUME NEW R \in SUBSET Addr, NEW f \in Images, NEW a \in R, Closed(f, R),
           \A i, j \in LinkId : /\ f[a].link[i] = "valid" /\ f[a].link[j] = "valid"
                                /\ LinkAddress(f, a, i) = LinkAddress(f, a, j)
                                => i = j
    PROVE  /\ ValidChildren(f, a) \in Seq(R)
           /\ IsInjective(ValidChildren(f, a))
           /\ \A c : c \in ToSet(ValidChildren(f, a)) <=> LinksTo(f, a, c)
<1> DEFINE M == MAX_NUM_CHILD_NODES
           turn == [n \in 1 .. M |-> [s \in Seq(R) |-> NextChild(f, a, n, s)]]
           Rec(h) == h = [n \in 0 .. M |->
                            IF n = 0 THEN <<>>
                            ELSE IF f[a].link[n - 1] = "valid"
                                   THEN Append(h[n - 1], LinkAddress(f, a, n - 1))
                                   ELSE h[n - 1]]
<1>0. M \in Nat
  BY LinkIds
<1>1. \A n \in 1 .. M : f[a].link[n - 1] = "valid" => LinkAddress(f, a, n - 1) \in R
  BY LinkIds DEF Closed
<1>2. turn \in [1 .. M -> [Seq(R) -> Seq(R)]]
  BY <1>1, AppendedSet DEF NextChild
<1>3. \E h : Rec(h)
  <2> HIDE DEF turn
  <2>1. <<>> \in Seq(R)
    OBVIOUS
  <2>2. PICK h \in [0 .. M -> Seq(R)] :
              h[0] = <<>> /\ \A n \in 1 .. M : h[n] = turn[n][h[n - 1]]
    <3> DEFINE S == Seq(R)
               N == M
               s0 == <<>>
    <3>1. s0 \in S /\ N \in Nat /\ turn \in [1 .. N -> [S -> S]]
      BY <1>0, <1>2, <2>1
    <3> HIDE DEF S, N, s0
    <3>2. \E h : Loop(h, S, s0, N, turn)
      BY <3>1, LoopExists
    <3> QED
      BY <3>2 DEF Loop, S, N, s0
  <2>3. ASSUME NEW n \in 1 .. M PROVE turn[n][h[n - 1]] = NextChild(f, a, n, h[n - 1])
    <3>1. n - 1 \in 0 .. M
      BY <1>0
    <3>2. h[n - 1] \in Seq(R)
      BY <3>1, <2>2
    <3> QED
      BY <3>2 DEF turn
  <2>4. ASSUME NEW n \in 0 .. M
        PROVE  h[n] = IF n = 0 THEN <<>>
                      ELSE IF f[a].link[n - 1] = "valid"
                             THEN Append(h[n - 1], LinkAddress(f, a, n - 1))
                             ELSE h[n - 1]
    <3>1. CASE n = 0
      BY <2>2, <3>1
    <3>2. CASE n # 0
      <4>1. n \in 1 .. M
        BY <1>0, <3>2
      <4>2. h[n] = NextChild(f, a, n, h[n - 1])
        BY <2>2, <2>3, <4>1
      <4> QED
        BY <3>2, <4>2 DEF NextChild
    <3> QED
      BY <3>1, <3>2
  <2>5. Rec(h)
    BY <2>2, <2>4
  <2> QED
    BY <2>5
<1> DEFINE h == CHOOSE g : Rec(g)
<1>4. Rec(h)
  BY <1>3
<1>5. ValidChildren(f, a) = h[M]
  BY DEF ValidChildren
<1> HIDE DEF h
<1>6. h[0] = <<>> /\ \A n \in 1 .. M : h[n] = NextChild(f, a, n, h[n - 1])
  <2>1. ASSUME NEW n \in 0 .. M
        PROVE  h[n] = IF n = 0 THEN <<>>
                      ELSE IF f[a].link[n - 1] = "valid"
                             THEN Append(h[n - 1], LinkAddress(f, a, n - 1))
                             ELSE h[n - 1]
    BY <1>4
  <2>2. 0 \in 0 .. M /\ \A n \in 1 .. M : n \in 0 .. M /\ n # 0
    BY <1>0
  <2> QED
    BY <2>1, <2>2 DEF NextChild
<1> HIDE DEF Rec, turn
<1> DEFINE P == {n \in 0 .. M : h[n] \in Seq(R) /\ Found(f, a, n, h[n])}
<1>7. 0 \in P
  <2>1. h[0] \in Seq(R) /\ ToSet(h[0]) = {} /\ IsInjective(h[0])
    BY <1>6 DEF ToSet, IsInjective
  <2> QED
    BY <1>0, <2>1 DEF Found
<1>8. ASSUME NEW n \in 1 .. M, n - 1 \in P PROVE n \in P
  <2> DEFINE i == n - 1
  <2>1. h[i] \in Seq(R) /\ Found(f, a, i, h[i])
    BY <1>8
  <2>2. i \in LinkId /\ i \in Nat /\ LinkId \subseteq Nat
    BY LinkIds
  <2>3. CASE f[a].link[i] = "valid"
    <3> DEFINE c == LinkAddress(f, a, i)
    <3>1. h[n] = Append(h[i], c) /\ c \in R
      BY <1>1, <1>6, <2>3 DEF NextChild
    <3>2. c \notin ToSet(h[i])
      <4> SUFFICES ASSUME c \in ToSet(h[i]) PROVE FALSE
        OBVIOUS
      <4>1. PICK j \in 0 .. i - 1 : f[a].link[j] = "valid" /\ LinkAddress(f, a, j) = c
        BY <2>1 DEF Found
      <4>2. j \in LinkId /\ j # i
        BY <1>0 DEF LinkId
      <4> QED
        BY <2>2, <2>3, <4>1, <4>2
    <3>3. h[n] \in Seq(R) /\ ToSet(h[n]) = ToSet(h[i]) \cup {c} /\ IsInjective(h[n])
      BY <2>1, <3>1, <3>2, AppendedSet DEF Found
    <3>4. ASSUME NEW d \in ToSet(h[n])
          PROVE  \E j \in 0 .. n - 1 : f[a].link[j] = "valid" /\ LinkAddress(f, a, j) = d
      <4>1. CASE d = c
        BY <2>2, <2>3, <4>1
      <4>2. CASE d \in ToSet(h[i])
        <5>1. PICK j \in 0 .. i - 1 : f[a].link[j] = "valid" /\ LinkAddress(f, a, j) = d
          BY <2>1, <4>2 DEF Found
        <5>2. j \in 0 .. n - 1
          BY <2>2
        <5> QED
          BY <5>1, <5>2
      <4> QED
        BY <3>3, <4>1, <4>2
    <3>5. ASSUME NEW j \in 0 .. n - 1, f[a].link[j] = "valid"
          PROVE  LinkAddress(f, a, j) \in ToSet(h[n])
      <4>1. CASE j = i
        BY <3>3, <4>1
      <4>2. CASE j # i
        <5>1. j \in 0 .. i - 1
          BY <2>2, <4>2
        <5> QED
          BY <2>1, <3>3, <3>5, <5>1 DEF Found
      <4> QED
        BY <4>1, <4>2
    <3> QED
      BY <3>3, <3>4, <3>5 DEF Found
  <2>4. CASE f[a].link[i] # "valid"
    <3>1. h[n] = h[i]
      BY <1>6, <2>4 DEF NextChild
    <3>2. \A j \in 0 .. n - 1 : j \in 0 .. i - 1 \/ j = i
      BY <2>2
    <3>3. \A j \in 0 .. i - 1 : j \in 0 .. n - 1
      BY <2>2
    <3> QED
      BY <2>1, <2>4, <3>1, <3>2, <3>3 DEF Found
  <2> QED
    BY <2>3, <2>4
<1> HIDE DEF P
<1>9. M \in P
  BY <1>0, <1>7, <1>8, EveryTurn
<1>10. h[M] \in Seq(R) /\ Found(f, a, M, h[M])
  BY <1>9 DEF P
<1>11. 0 .. M - 1 = LinkId
  BY DEF LinkId
<1> QED
  BY <1>5, <1>10, <1>11 DEF Found, LinksTo

-----------------------------------------------------------------------------
(***************************************************************************)
(* Sequences that hold nothing twice.                                      *)
(***************************************************************************)
LEMMA ReversedSet ==
    ASSUME NEW S, NEW s \in Seq(S)
    PROVE  /\ Reverse(s) \in Seq(S)
           /\ ToSet(Reverse(s)) = ToSet(s)
           /\ IsInjective(s) => IsInjective(Reverse(s))
<1> DEFINE n == Len(s)
           t == [i \in 1 .. n |-> s[(n - i) + 1]]
<1>1. n \in Nat /\ DOMAIN s = 1 .. n /\ \A i \in 1 .. n : s[i] \in S
  OBVIOUS
<1>2. \A i \in 1 .. n : (n - i) + 1 \in 1 .. n /\ n - ((n - i) + 1) + 1 = i
  BY <1>1
<1>3. t \in Seq(S) /\ Len(t) = n
  BY <1>1, <1>2
<1>4. Reverse(s) = t
  BY DEF Reverse
<1>5. DOMAIN t = 1 .. n /\ \A i \in 1 .. n : t[i] = s[(n - i) + 1]
  OBVIOUS
<1> HIDE DEF t
<1>6. ToSet(t) = ToSet(s)
  <2>1. ASSUME NEW x \in ToSet(t) PROVE x \in ToSet(s)
    BY <1>1, <1>2, <1>5 DEF ToSet
  <2>2. ASSUME NEW x \in ToSet(s) PROVE x \in ToSet(t)
    <3>1. PICK i \in 1 .. n : x = s[i]
      BY <1>1 DEF ToSet
    <3>2. t[(n - i) + 1] = s[i]
      BY <1>2, <1>5
    <3> QED
      BY <1>2, <1>5, <3>1, <3>2 DEF ToSet
  <2> QED
    BY <2>1, <2>2
<1>7. ASSUME IsInjective(s) PROVE IsInjective(t)
  <2> SUFFICES ASSUME NEW i \in 1 .. n, NEW j \in 1 .. n, t[i] = t[j] PROVE i = j
    BY <1>5 DEF IsInjective
  <2>1. s[(n - i) + 1] = s[(n - j) + 1]
    BY <1>5
  <2>2. (n - i) + 1 = (n - j) + 1
    BY <1>1, <1>2, <1>7, <2>1 DEF IsInjective
  <2> QED
    BY <1>1, <2>2
<1> QED
  BY <1>3, <1>4, <1>6, <1>7

LEMMA JoinedSet ==
    ASSUME NEW S, NEW s \in Seq(S), NEW t \in Seq(S)
    PROVE  /\ s \o t \in Seq(S)
           /\ ToSet(s \o t) = ToSet(s) \cup ToSet(t)
           /\ IsInjective(s) /\ IsInjective(t) /\ ToSet(s) \cap ToSet(t) = {}
              => IsInjective(s \o t)
<1> DEFINE u == s \o t
<1>1. u \in Seq(S) /\ Len(u) = Len(s) + Len(t)
  OBVIOUS
<1>2. \A i \in 1 .. Len(s) : u[i] = s[i]
  OBVIOUS
<1>3. \A i \in 1 .. Len(t) : u[Len(s) + i] = t[i]
  OBVIOUS
<1>4. /\ Len(s) \in Nat /\ Len(t) \in Nat
      /\ DOMAIN s = 1 .. Len(s) /\ DOMAIN t = 1 .. Len(t)
      /\ DOMAIN u = 1 .. Len(s) + Len(t)
  OBVIOUS
<1> HIDE DEF u
<1>5. \A i \in DOMAIN u : \/ i \in DOMAIN s /\ u[i] = s[i]
                          \/ i - Len(s) \in DOMAIN t /\ u[i] = t[i - Len(s)]
  <2> SUFFICES ASSUME NEW i \in 1 .. Len(s) + Len(t), ~(i \in 1 .. Len(s))
               PROVE  i - Len(s) \in 1 .. Len(t) /\ u[i] = t[i - Len(s)]
    BY <1>2, <1>4
  <2>1. i - Len(s) \in 1 .. Len(t) /\ Len(s) + (i - Len(s)) = i
    BY <1>4
  <2> QED
    BY <1>3, <2>1
<1>6. \A i \in DOMAIN s : i \in DOMAIN u /\ u[i] = s[i]
  BY <1>2, <1>4
<1>7. \A i \in DOMAIN t : Len(s) + i \in DOMAIN u /\ u[Len(s) + i] = t[i]
  BY <1>3, <1>4
<1>8. ToSet(u) = ToSet(s) \cup ToSet(t)
  <2>1. \A x \in ToSet(u) : x \in ToSet(s) \cup ToSet(t)
    BY <1>5 DEF ToSet
  <2>2. \A x \in ToSet(s) : x \in ToSet(u)
    BY <1>6 DEF ToSet
  <2>3. \A x \in ToSet(t) : x \in ToSet(u)
    BY <1>7 DEF ToSet
  <2> QED
    BY <2>1, <2>2, <2>3
<1>9. ASSUME IsInjective(s), IsInjective(t), ToSet(s) \cap ToSet(t) = {}
      PROVE  IsInjective(u)
  <2> SUFFICES ASSUME NEW i \in DOMAIN u, NEW j \in DOMAIN u, u[i] = u[j] PROVE i = j
    BY DEF IsInjective
  <2>1. \A k \in DOMAIN s, l \in DOMAIN t : s[k] # t[l]
    BY <1>9 DEF ToSet
  <2>2. CASE i \in DOMAIN s /\ u[i] = s[i] /\ j \in DOMAIN s /\ u[j] = s[j]
    BY <1>9, <2>2 DEF IsInjective
  <2>3. CASE /\ i - Len(s) \in DOMAIN t /\ u[i] = t[i - Len(s)]
             /\ j - Len(s) \in DOMAIN t /\ u[j] = t[j - Len(s)]
    <3>1. i - Len(s) = j - Len(s)
      BY <1>9, <2>3 DEF IsInjective
    <3> QED
      BY <1>4, <3>1
  <2> QED
    BY <1>5, <2>1, <2>2, <2>3
<1> QED
  BY <1>1, <1>8, <1>9 DEF u

LEMMA HeadAndTail ==
    ASSUME NEW S, NEW s \in Seq(S), s # <<>>
    PROVE  /\ Head(s) \in S /\ Tail(s) \in Seq(S)
           /\ ToSet(s) = {Head(s)} \cup ToSet(Tail(s))
           /\ IsInjective(s) => Head(s) \notin ToSet(Tail(s)) /\ IsInjective(Tail(s))
<1> DEFINE t == Tail(s)
<1>1. Len(s) \in Nat /\ Len(s) > 0 /\ DOMAIN s = 1 .. Len(s) /\ Head(s) = s[1] /\ s[1] \in S
  OBVIOUS
<1>2. t \in Seq(S) /\ Len(t) = Len(s) - 1 /\ DOMAIN t = 1 .. Len(s) - 1
  OBVIOUS
<1>3. \A i \in 1 .. Len(s) - 1 : t[i] = s[i + 1]
  OBVIOUS
<1> HIDE DEF t
<1>4. \A i \in DOMAIN t : i + 1 \in DOMAIN s /\ i + 1 # 1 /\ t[i] = s[i + 1]
  BY <1>1, <1>2, <1>3
<1>5. \A i \in DOMAIN s : i = 1 \/ (i - 1 \in DOMAIN t /\ t[i - 1] = s[i])
  <2> SUFFICES ASSUME NEW i \in 1 .. Len(s), i # 1
               PROVE  i - 1 \in DOMAIN t /\ t[i - 1] = s[i]
    BY <1>1
  <2>1. i - 1 \in 1 .. Len(s) - 1 /\ (i - 1) + 1 = i
    BY <1>1
  <2> QED
    BY <1>2, <1>3, <2>1
<1>6. ToSet(s) = {Head(s)} \cup ToSet(t)
  <2>1. \A x \in ToSet(s) : x \in {Head(s)} \cup ToSet(t)
    BY <1>1, <1>5 DEF ToSet
  <2>2. \A x \in ToSet(t) : x \in ToSet(s)
    BY <1>4 DEF ToSet
  <2>3. Head(s) \in ToSet(s)
    BY <1>1 DEF ToSet
  <2> QED
    BY <2>1, <2>2, <2>3
<1>7. ASSUME IsInjective(s) PROVE Head(s) \notin ToSet(t) /\ IsInjective(t)
  <2>1. ASSUME NEW i \in DOMAIN t PROVE t[i] # s[1]
    BY <1>1, <1>4, <1>7 DEF IsInjective
  <2>2. ASSUME NEW i \in DOMAIN t, NEW j \in DOMAIN t, t[i] = t[j] PROVE i = j
    <3>1. i + 1 = j + 1
      BY <1>4, <1>7, <2>2 DEF IsInjective
    <3> QED
      BY <1>2, <3>1
  <2> QED
    BY <1>1, <2>1, <2>2 DEF IsInjective, ToSet
<1> QED
  BY <1>1, <1>2, <1>6, <1>7 DEF t

LEMMA InjectiveIsShort ==
    ASSUME NEW s \in Seq(Addr), IsInjective(s)
    PROVE  Len(s) <= Capacity
<1>1. IsFiniteSet(Addr) /\ Cardinality(Addr) = Capacity
  <2>1. Cardinality(1 .. Capacity) = IF 1 > Capacity THEN 0 ELSE Capacity - 1 + 1
    BY LinkIds, FS_Interval
  <2> QED
    BY LinkIds, FS_Interval, <2>1 DEF Addr
<1>2. IsFiniteSet(1 .. Len(s)) /\ Cardinality(1 .. Len(s)) = Len(s)
  <2>1. Len(s) \in Nat
    OBVIOUS
  <2>2. Cardinality(1 .. Len(s)) = IF 1 > Len(s) THEN 0 ELSE Len(s) - 1 + 1
    BY <2>1, FS_Interval
  <2> QED
    BY FS_Interval, <2>1, <2>2
<1>3. s \in [1 .. Len(s) -> Addr]
  OBVIOUS
<1>4. \A i, j \in 1 .. Len(s) : i # j => s[i] # s[j]
  BY DEF IsInjective
<1> QED
  <2> SUFFICES ASSUME Cardinality(Addr) < Cardinality(1 .. Len(s)) PROVE FALSE
    BY <1>1, <1>2, LinkIds
  <2>1. \E i, j \in 1 .. Len(s) : i # j /\ s[i] = s[j]
    BY <1>1, <1>2, <1>3, FS_PigeonHole
  <2> QED
    BY <1>4, <2>1

-----------------------------------------------------------------------------
(***************************************************************************)
(* The traversal of a tree visits each of its nodes exactly once.          *)
(***************************************************************************)
Walks(R) == [seen : Seq(R), stack : Seq(R)]

Met(w) == ToSet(w.seen) \cup ToSet(w.stack)

\* After turn n of the loop.
WalkInv(f, R, r, w, n) ==
    /\ w \in Walks(R)
    /\ IsInjective(w.seen) /\ IsInjective(w.stack)
    /\ ToSet(w.seen) \cap ToSet(w.stack) = {}
    /\ r \in Met(w)
    /\ \A a \in ToSet(w.seen), c \in R : LinksTo(f, a, c) => c \in Met(w)
    /\ \A c \in Met(w) : c = r \/ \E a \in ToSet(w.seen) : LinksTo(f, a, c)
    /\ w.stack = <<>> \/ Len(w.seen) = n

LEMMA ChildrenInTree ==
    ASSUME NEW f \in Images, NEW R, NEW r, Tree(f, R, r), NEW a \in R
    PROVE  /\ ValidChildren(f, a) \in Seq(R)
           /\ IsInjective(ValidChildren(f, a))
           /\ \A c : c \in ToSet(ValidChildren(f, a)) <=> LinksTo(f, a, c)
<1>1. R \in SUBSET Addr /\ Closed(f, R)
  BY DEF Tree
<1>2. \A i, j \in LinkId : /\ f[a].link[i] = "valid" /\ f[a].link[j] = "valid"
                           /\ LinkAddress(f, a, i) = LinkAddress(f, a, j)
                           => i = j
  BY DEF Tree, OneWay
<1> QED
  BY <1>1, <1>2, ChildrenFound

LEMMA OneParent ==
    ASSUME NEW f, NEW R, NEW r, Tree(f, R, r),
           NEW a \in R, NEW b \in R, NEW c, LinksTo(f, a, c)
    PROVE  c \in R /\ c # r /\ (LinksTo(f, b, c) => a = b)
BY DEF Tree, OneWay, Closed, LinksTo

LEMMA WalkStep ==
    ASSUME NEW f \in Images, NEW R, NEW r, Tree(f, R, r),
           NEW n \in Nat \ {0}, NEW w, WalkInv(f, R, r, w, n - 1)
    PROVE  WalkInv(f, R, r, VisitTop(f, w), n)
<1>1. CASE w.stack = <<>>
  BY <1>1 DEF WalkInv, VisitTop
<1>2. CASE w.stack # <<>>
  <2> DEFINE a == Head(w.stack)
             kids == ValidChildren(f, a)
             back == Reverse(kids)
             rest == Tail(w.stack)
             seen == Append(w.seen, a)
             pushed == back \o rest
             v == [seen |-> seen, stack |-> pushed]
  <2>1. VisitTop(f, w) = v
    BY <1>2 DEF VisitTop
  <2>2. w.seen \in Seq(R) /\ w.stack \in Seq(R)
    BY DEF WalkInv, Walks
  <2>3. /\ a \in R /\ rest \in Seq(R)
        /\ ToSet(w.stack) = {a} \cup ToSet(rest)
        /\ a \notin ToSet(rest) /\ IsInjective(rest)
    BY <1>2, <2>2, HeadAndTail DEF WalkInv
  <2>4. /\ kids \in Seq(R) /\ IsInjective(kids)
        /\ \A c : c \in ToSet(kids) <=> LinksTo(f, a, c)
    BY <2>3, ChildrenInTree
  <2> HIDE DEF a, kids, rest
  <2>5. back \in Seq(R) /\ ToSet(back) = ToSet(kids) /\ IsInjective(back)
    BY <2>4, ReversedSet
  <2> HIDE DEF back
  <2>6. a \notin ToSet(w.seen)
    BY <2>3 DEF WalkInv
  <2>7. /\ seen \in Seq(R) /\ ToSet(seen) = ToSet(w.seen) \cup {a} /\ IsInjective(seen)
    BY <2>2, <2>3, <2>6, AppendedSet DEF WalkInv
  <2>8. Len(seen) = Len(w.seen) + 1
    BY <2>2, <2>3
  \* A child that was met before has this node for its only parent, which was
  \* not visited before.
  <2>9. ASSUME NEW c \in ToSet(kids) PROVE c \notin Met(w)
    <3>1. LinksTo(f, a, c) /\ c # r
      BY <2>3, <2>4, <2>9, OneParent
    <3>2. ASSUME NEW b \in ToSet(w.seen), LinksTo(f, b, c) PROVE FALSE
      <4>1. b \in R
        BY <2>2, <3>2 DEF ToSet
      <4>2. a = b
        BY <2>3, <3>1, <3>2, <4>1, OneParent
      <4> QED
        BY <2>6, <4>2
    <3> QED
      BY <3>1, <3>2 DEF WalkInv
  <2>10. ToSet(back) \cap ToSet(rest) = {}
    BY <2>3, <2>5, <2>9 DEF Met
  <2>11. pushed \in Seq(R) /\ ToSet(pushed) = ToSet(back) \cup ToSet(rest) /\ IsInjective(pushed)
    BY <2>3, <2>5, <2>10, JoinedSet
  <2> HIDE DEF seen, pushed
  <2>12. v \in Walks(R) /\ v.seen = seen /\ v.stack = pushed
    BY <2>7, <2>11 DEF Walks
  <2>13. Met(v) = Met(w) \cup ToSet(kids)
    BY <2>3, <2>5, <2>7, <2>11, <2>12 DEF Met
  <2>14. ToSet(seen) \cap ToSet(pushed) = {}
    <3>1. a \notin ToSet(kids)
      BY <2>3, <2>9 DEF Met
    <3>2. ToSet(w.seen) \cap ToSet(kids) = {}
      BY <2>9 DEF Met
    <3>3. ToSet(w.seen) \cap ToSet(rest) = {}
      BY <2>3 DEF WalkInv
    <3> QED
      BY <2>3, <2>5, <2>7, <2>11, <3>1, <3>2, <3>3
  <2>15. \A b \in ToSet(seen), c \in R : LinksTo(f, b, c) => c \in Met(v)
    BY <2>4, <2>7, <2>13 DEF WalkInv
  <2>16. \A c \in Met(v) : c = r \/ \E b \in ToSet(seen) : LinksTo(f, b, c)
    BY <2>4, <2>7, <2>13 DEF WalkInv
  <2>17. r \in Met(v)
    BY <2>13 DEF WalkInv
  <2>18. Len(seen) = n
    BY <1>2, <2>8 DEF WalkInv, seen
  <2> HIDE DEF v
  <2>19. WalkInv(f, R, r, v, n)
    BY <2>7, <2>11, <2>12, <2>14, <2>15, <2>16, <2>17, <2>18 DEF WalkInv
  <2> QED
    BY <2>1, <2>19
<1> QED
  BY <1>1, <1>2

LEMMA WalkStart ==
    ASSUME NEW f, NEW R, NEW r \in R
    PROVE  WalkInv(f, R, r, [seen |-> <<>>, stack |-> <<r>>], 0)
<1> DEFINE w == [seen |-> <<>>, stack |-> <<r>>]
<1>1. w \in Walks(R) /\ w.seen = <<>> /\ w.stack = <<r>>
  BY DEF Walks
<1>2. ToSet(<<>>) = {} /\ IsInjective(<<>>) /\ Len(<<>>) = 0
  BY DEF ToSet, IsInjective
<1>3. ToSet(<<r>>) = {r} /\ IsInjective(<<r>>)
  BY DEF ToSet, IsInjective
<1> HIDE DEF w
<1>4. WalkInv(f, R, r, w, 0)
  BY <1>1, <1>2, <1>3 DEF WalkInv, Met
<1> QED
  BY <1>4 DEF w

\* traverse_with_node_function visits the nodes that links lead to from the
\* root, each once, before it is cut off.
LEMMA TraversalOfTree ==
    ASSUME NEW f \in Images, NEW R, NEW r, Tree(f, R, r), f[1].written, r # NoAddr
    PROVE  /\ Traversal(f, r) \in Seq(R)
           /\ IsInjective(Traversal(f, r))
           /\ r \in ToSet(Traversal(f, r))
           /\ Closed(f, ToSet(Traversal(f, r)))
<1> DEFINE N == 2 * Capacity
           start == [seen |-> <<>>, stack |-> <<r>>]
           Rec(h) == h = [n \in 0 .. N |-> IF n = 0 THEN start ELSE VisitTop(f, h[n - 1])]
           Inv(w, n) == WalkInv(f, R, r, w, n)
<1>0. N \in Nat /\ r \in R
  BY LinkIds DEF Tree
<1>1. Inv(start, 0)
  BY <1>0, WalkStart
<1>2. ASSUME NEW n \in 1 .. N, NEW w, Inv(w, n - 1) PROVE Inv(VisitTop(f, w), n)
  <2>1. n \in Nat \ {0}
    BY <1>0
  <2> QED
    BY <1>2, <2>1, WalkStep
<1> HIDE DEF start, N
<1>3. \E h : Rec(h)
  <2> DEFINE safe(w) == IF VisitTop(f, w) \in Walks(R) THEN VisitTop(f, w) ELSE start
             turn == [n \in 1 .. N |-> [w \in Walks(R) |-> safe(w)]]
  <2>1. start \in Walks(R)
    BY <1>1 DEF WalkInv
  <2>2. turn \in [1 .. N -> [Walks(R) -> Walks(R)]]
    BY <2>1
  <2>3. \A n \in 1 .. N : \A w \in Walks(R) : turn[n][w] = safe(w)
    OBVIOUS
  <2> HIDE DEF turn
  <2>4. PICK h \in [0 .. N -> Walks(R)] :
              h[0] = start /\ \A n \in 1 .. N : h[n] = turn[n][h[n - 1]]
    <3> DEFINE W == Walks(R)
    <3>1. start \in W /\ N \in Nat /\ turn \in [1 .. N -> [W -> W]]
      BY <1>0, <2>1, <2>2
    <3> HIDE DEF W
    <3>2. \E h : Loop(h, W, start, N, turn)
      BY <3>1, LoopExists
    <3> QED
      BY <3>2 DEF Loop, W
  <2> DEFINE P == {n \in 0 .. N : Inv(h[n], n)}
  <2>5. ASSUME NEW n \in 1 .. N, n - 1 \in P
        PROVE  h[n] = VisitTop(f, h[n - 1]) /\ n \in P
    <3>1. h[n - 1] \in Walks(R) /\ h[n] = turn[n][h[n - 1]]
      BY <1>0, <2>4
    <3>2. h[n] = safe(h[n - 1])
      BY <2>3, <3>1
    <3>3. Inv(VisitTop(f, h[n - 1]), n)
      BY <1>2, <2>5
    <3>4. VisitTop(f, h[n - 1]) \in Walks(R)
      BY <3>3 DEF WalkInv
    <3>5. h[n] = VisitTop(f, h[n - 1]) /\ n \in 0 .. N
      BY <1>0, <3>2, <3>4
    <3> QED
      BY <3>3, <3>5
  <2>6. 0 \in P
    BY <1>0, <1>1, <2>4
  <2> HIDE DEF P
  <2>7. \A n \in 0 .. N : n \in P
    BY <1>0, <2>5, <2>6, EveryTurn
  <2>8. ASSUME NEW n \in 0 .. N
        PROVE  h[n] = IF n = 0 THEN start ELSE VisitTop(f, h[n - 1])
    <3>1. CASE n = 0
      BY <2>4, <3>1
    <3>2. CASE n # 0
      <4>1. n \in 1 .. N /\ n - 1 \in 0 .. N
        BY <1>0, <3>2
      <4> QED
        BY <2>5, <2>7, <3>2, <4>1
    <3> QED
      BY <3>1, <3>2
  <2>9. Rec(h)
    BY <2>4, <2>8
  <2> QED
    BY <2>9
<1> DEFINE h == CHOOSE g : Rec(g)
<1>4. Rec(h)
  BY <1>3
<1>5. Traversal(f, r) = h[N].seen
  BY DEF Traversal, start, N
<1> HIDE DEF h
<1>6. h[0] = start /\ \A n \in 1 .. N : h[n] = VisitTop(f, h[n - 1])
  <2>1. \A n \in 0 .. N : h[n] = IF n = 0 THEN start ELSE VisitTop(f, h[n - 1])
    BY <1>4
  <2>2. 0 \in 0 .. N /\ \A n \in 1 .. N : n \in 0 .. N /\ n # 0
    BY <1>0
  <2> QED
    BY <2>1, <2>2
<1> HIDE DEF Rec
<1> DEFINE P == {n \in 0 .. N : Inv(h[n], n)}
<1>7. 0 \in P
  BY <1>0, <1>1, <1>6
<1>8. ASSUME NEW n \in 1 .. N, n - 1 \in P PROVE n \in P
  BY <1>0, <1>2, <1>6, <1>8
<1> HIDE DEF P
<1>9. Inv(h[N], N)
  <2>1. \A n \in 0 .. N : n \in P
    BY <1>0, <1>7, <1>8, EveryTurn
  <2> QED
    BY <1>0, <2>1 DEF P
<1> DEFINE w == h[N]
<1>10. Inv(w, N)
  BY <1>9
<1> HIDE DEF w
<1>11. w.seen \in Seq(R) /\ w.seen \in Seq(Addr) /\ IsInjective(w.seen)
  BY <1>10 DEF WalkInv, Walks, Tree
<1>12. w.stack = <<>>
  <2>1. Len(w.seen) <= Capacity /\ Len(w.seen) \in Nat
    BY <1>11, InjectiveIsShort
  <2>2. Len(w.seen) # N
    BY <2>1, LinkIds DEF N
  <2> QED
    BY <1>10, <2>2 DEF WalkInv
<1>13. Met(w) = ToSet(w.seen)
  BY <1>12 DEF Met, ToSet
<1>14. ASSUME NEW a \in ToSet(w.seen), NEW i \in LinkId, f[a].link[i] = "valid"
       PROVE  LinkAddress(f, a, i) \in ToSet(w.seen)
  <2>1. a \in R
    BY <1>11 DEF ToSet
  <2>2. LinkAddress(f, a, i) \in R
    BY <1>14, <2>1 DEF Tree, Closed
  <2>3. LinksTo(f, a, LinkAddress(f, a, i))
    BY <1>14 DEF LinksTo
  <2> QED
    BY <1>10, <1>13, <2>2, <2>3 DEF WalkInv
<1> QED
  BY <1>5, <1>10, <1>11, <1>13, <1>14 DEF w, WalkInv, Closed

-----------------------------------------------------------------------------
(***************************************************************************)
(* find_active_root_node follows the roots from the first one.             *)
(***************************************************************************)
\* C holds the roots in the order in which they followed one another; r is the
\* active one, or NoAddr if the last one was not linked to its successor.
Chain(f, C, r) ==
    /\ C \subseteq Addr /\ 1 \in C
    /\ r # NoAddr => r \in C /\ f[r].active
    /\ \A a \in C :
          \/ f[a].active /\ a = r
          \/ ~f[a].active /\ f[a].next_root \in C /\ f[a].next_root > a
          \/ ~f[a].active /\ f[a].next_root = NoAddr /\ r = NoAddr

LEMMA RootOfChain ==
    ASSUME NEW f \in Images, NEW C, NEW r, Chain(f, C, r)
    PROVE  FindActiveRootNode(f) = r
<1> DEFINE N == Capacity
           NextOf(a) == IF a = NoAddr \/ f[a].active THEN a ELSE f[a].next_root
           Rec(h) == h = [n \in 0 .. N |-> IF n = 0 THEN 1 ELSE NextOf(h[n - 1])]
           S == Addr \cup {NoAddr}
<1>0. N \in Nat /\ 1 \in S
  BY LinkIds DEF Addr
<1>1. \A a \in S : NextOf(a) \in S
  BY DEF Images, Nodes
<1>2. \E h : Rec(h)
  <2> DEFINE turn == [n \in 1 .. N |-> [a \in S |-> NextOf(a)]]
  <2>1. turn \in [1 .. N -> [S -> S]]
    BY <1>1
  <2>2. \A n \in 1 .. N : \A a \in S : turn[n][a] = NextOf(a)
    OBVIOUS
  <2> HIDE DEF turn, S, NextOf, N
  <2>3. 1 \in S /\ N \in Nat /\ turn \in [1 .. N -> [S -> S]]
    BY <1>0, <2>1
  <2>4. PICK h \in [0 .. N -> S] :
              h[0] = 1 /\ \A n \in 1 .. N : h[n] = turn[n][h[n - 1]]
    <3>1. \E h : Loop(h, S, 1, N, turn)
      BY <2>3, LoopExists
    <3> QED
      BY <3>1 DEF Loop
  <2>5. ASSUME NEW n \in 0 .. N PROVE h[n] = IF n = 0 THEN 1 ELSE NextOf(h[n - 1])
    <3>1. CASE n = 0
      BY <2>4, <3>1
    <3>2. CASE n # 0
      <4>1. n \in 1 .. N /\ n - 1 \in 0 .. N
        BY <1>0, <3>2
      <4>2. h[n - 1] \in S
        BY <2>4, <4>1
      <4> QED
        BY <2>2, <2>4, <3>2, <4>1, <4>2
    <3> QED
      BY <3>1, <3>2
  <2>6. Rec(h)
    BY <2>4, <2>5
  <2> QED
    BY <2>6
<1> DEFINE h == CHOOSE g : Rec(g)
<1>3. Rec(h)
  BY <1>2
<1>4. FindActiveRootNode(f) = h[N]
  BY DEF FindActiveRootNode
<1> HIDE DEF h
<1>5. h[0] = 1 /\ \A n \in 1 .. N : h[n] = NextOf(h[n - 1])
  <2>1. \A n \in 0 .. N : h[n] = IF n = 0 THEN 1 ELSE NextOf(h[n - 1])
    BY <1>3
  <2>2. 0 \in 0 .. N /\ \A n \in 1 .. N : n \in 0 .. N /\ n # 0
    BY <1>0
  <2> HIDE DEF NextOf
  <2> QED
    BY <2>1, <2>2
<1> HIDE DEF Rec
\* After n turns the search has ended or passed n roots.
<1> DEFINE Inv(a, n) == \/ a \in C /\ (a = r \/ a > n)
                        \/ a = NoAddr /\ a = r
           P == {n \in 0 .. N : Inv(h[n], n)}
<1>6. 0 \in P
  BY <1>0, <1>5 DEF Chain
<1>7. ASSUME NEW n \in 1 .. N, n - 1 \in P PROVE n \in P
  <2> DEFINE a == h[n - 1]
  <2>1. Inv(a, n - 1) /\ h[n] = NextOf(a) /\ n \in 0 .. N
    BY <1>0, <1>5, <1>7
  <2> HIDE DEF a
  <2>2. C \subseteq Nat \ {0} /\ n \in Nat \ {0} /\ N \in Nat
    BY <1>0, LinkIds DEF Chain, Addr
  <2>3. CASE a = NoAddr
    <3>1. Inv(h[n], n)
      BY <2>1, <2>2, <2>3 DEF NoAddr
    <3> QED
      BY <2>1, <3>1
  <2>4. CASE a \in C /\ f[a].active
    <3>1. h[n] = a /\ a = r
      BY <2>1, <2>4 DEF Chain
    <3> QED
      BY <2>1, <2>4, <3>1
  <2>5. CASE a \in C /\ ~f[a].active
    <3>1. h[n] = f[a].next_root /\ a # r
      BY <2>1, <2>2, <2>5 DEF Chain, NoAddr
    <3>2. a > n - 1
      BY <2>1, <2>2, <2>5, <3>1 DEF NoAddr
    <3>3. CASE f[a].next_root \in C /\ f[a].next_root > a
      <4>1. h[n] > n
        BY <2>2, <2>5, <3>1, <3>2, <3>3
      <4> QED
        BY <2>1, <3>1, <3>3, <4>1
    <3>4. CASE f[a].next_root = NoAddr /\ r = NoAddr
      BY <2>1, <3>1, <3>4
    <3> QED
      BY <2>5, <3>3, <3>4 DEF Chain
  <2> QED
    BY <2>1, <2>3, <2>4, <2>5
<1>8. Inv(h[N], N)
  <2> HIDE DEF P
  <2>1. \A n \in 0 .. N : n \in P
    BY <1>0, <1>6, <1>7, EveryTurn
  <2> QED
    BY <1>0, <2>1 DEF P
<1>9. \A a \in C : ~(a > N)
  BY LinkIds DEF Chain, Addr
<1> QED
  BY <1>4, <1>8, <1>9

-----------------------------------------------------------------------------
(***************************************************************************)
(* The searches.                                                           *)
(***************************************************************************)
LEMMA FirstFound ==
    ASSUME NEW S, NEW s \in Seq(S), NEW T,
           NEW I, \A i : i \in I <=> i \in 1 .. Len(s) /\ s[i] \in T,
           NEW found, found = IF I # {} THEN Min(I) ELSE 0
    PROVE  IF found = 0 THEN ToSet(s) \cap T = {}
                        ELSE s[found] \in ToSet(s) \cap T
<1>1. DOMAIN s = 1 .. Len(s) /\ Len(s) \in Nat /\ I \in SUBSET Nat /\ 0 \notin I
  OBVIOUS
<1>2. CASE I = {}
  <2>1. \A i \in 1 .. Len(s) : s[i] \notin T
    BY <1>2
  <2> QED
    BY <1>1, <1>2, <2>1 DEF ToSet
<1>3. CASE I # {}
  <2>1. \E m \in I : \A i \in I : m <= i
    BY <1>1, <1>3, LeastExists
  <2>2. Min(I) \in I
    BY <2>1 DEF Min
  <2> QED
    BY <1>1, <1>3, <2>2 DEF ToSet
<1> QED
  BY <1>2, <1>3

\* What the three searches return.
LEMMA Searches ==
    ASSUME NEW f \in Images, NEW r, NEW R \in SUBSET Addr, Traversal(f, r) \in Seq(R)
    PROVE  /\ \A k : LET a == FindNode(f, r, k) IN
                 IF a = NoAddr THEN \A b \in ToSet(Traversal(f, r)) : f[b].key # k
                 ELSE a \in ToSet(Traversal(f, r)) /\ f[a].key = k
           /\ \A node : LET a == FindParent(f, r, node) IN
                 IF a = NoAddr
                   THEN \A b \in ToSet(Traversal(f, r)) : node \notin ToSet(ValidChildren(f, b))
                   ELSE a \in ToSet(Traversal(f, r)) /\ node \in ToSet(ValidChildren(f, a))
           /\ LET a == FindGrowthNode(f, r) IN
                 IF a = NoAddr THEN \A b \in ToSet(Traversal(f, r)) : ~IsGrowthNode(f[b])
                 ELSE a \in ToSet(Traversal(f, r)) /\ IsGrowthNode(f[a])
<1> DEFINE s == Traversal(f, r)
<1>0. s \in Seq(R) /\ s \in Seq(Addr) /\ DOMAIN s = 1 .. Len(s)
  OBVIOUS
<1> HIDE DEF s
<1>1. ASSUME NEW T
      PROVE  LET I == {i \in 1 .. Len(s) : s[i] \in T}
                 found == IF I # {} THEN Min(I) ELSE 0
                 a == IF found = 0 THEN NoAddr ELSE s[found]
             IN  IF a = NoAddr THEN ToSet(s) \cap T = {} ELSE a \in ToSet(s) \cap T
  <2> DEFINE I == {i \in 1 .. Len(s) : s[i] \in T}
             found == IF I # {} THEN Min(I) ELSE 0
  <2>1. IF found = 0 THEN ToSet(s) \cap T = {} ELSE s[found] \in ToSet(s) \cap T
    <3>1. \A i : i \in I <=> i \in 1 .. Len(s) /\ s[i] \in T
      OBVIOUS
    <3> HIDE DEF I
    <3>2. found = IF I # {} THEN Min(I) ELSE 0
      OBVIOUS
    <3> HIDE DEF found
    <3> QED
      BY <1>0, <3>1, <3>2, FirstFound
  <2> HIDE DEF found
  <2>2. NoAddr \notin ToSet(s)
    BY <1>0 DEF ToSet, Addr, NoAddr
  <2> QED
    BY <2>1, <2>2 DEF found
<1>2. ASSUME NEW k
      PROVE  LET a == FindNode(f, r, k) IN
               IF a = NoAddr THEN \A b \in ToSet(s) : f[b].key # k
               ELSE a \in ToSet(s) /\ f[a].key = k
  <2> DEFINE T == {b \in ToSet(s) : f[b].key = k}
  <2>1. {i \in 1 .. Len(s) : s[i] \in T} = {i \in 1 .. Len(s) : f[s[i]].key = k}
    BY <1>0 DEF ToSet
  <2>2. FindNode(f, r, k) =
          LET I == {i \in 1 .. Len(s) : s[i] \in T}
              found == IF I # {} THEN Min(I) ELSE 0
          IN  IF found = 0 THEN NoAddr ELSE s[found]
    BY <2>1 DEF FindNode, FirstSuchThat, SelectInSeq, s
  <2> DEFINE a == FindNode(f, r, k)
  <2>3. IF a = NoAddr THEN ToSet(s) \cap T = {} ELSE a \in ToSet(s) \cap T
    <3> HIDE DEF T
    <3> QED
      BY <1>1, <2>2
  <2> HIDE DEF a
  <2> QED
    BY <2>3 DEF a
<1>3. ASSUME NEW node
      PROVE  LET a == FindParent(f, r, node) IN
               IF a = NoAddr THEN \A b \in ToSet(s) : node \notin ToSet(ValidChildren(f, b))
               ELSE a \in ToSet(s) /\ node \in ToSet(ValidChildren(f, a))
  <2> DEFINE T == {b \in ToSet(s) : node \in ToSet(ValidChildren(f, b))}
  <2>1. {i \in 1 .. Len(s) : s[i] \in T}
          = {i \in 1 .. Len(s) : node \in ToSet(ValidChildren(f, s[i]))}
    BY <1>0 DEF ToSet
  <2>2. FindParent(f, r, node) =
          LET I == {i \in 1 .. Len(s) : s[i] \in T}
              found == IF I # {} THEN Min(I) ELSE 0
          IN  IF found = 0 THEN NoAddr ELSE s[found]
    BY <2>1 DEF FindParent, FirstSuchThat, SelectInSeq, s
  <2> DEFINE a == FindParent(f, r, node)
  <2>3. IF a = NoAddr THEN ToSet(s) \cap T = {} ELSE a \in ToSet(s) \cap T
    <3> HIDE DEF T
    <3> QED
      BY <1>1, <2>2
  <2> HIDE DEF a
  <2> QED
    BY <2>3 DEF a
<1>4. LET a == FindGrowthNode(f, r) IN
        IF a = NoAddr THEN \A b \in ToSet(s) : ~IsGrowthNode(f[b])
        ELSE a \in ToSet(s) /\ IsGrowthNode(f[a])
  <2> DEFINE T == {b \in ToSet(s) : IsGrowthNode(f[b])}
  <2>1. {i \in 1 .. Len(s) : s[i] \in T} = {i \in 1 .. Len(s) : IsGrowthNode(f[s[i]])}
    BY <1>0 DEF ToSet
  <2>2. FindGrowthNode(f, r) =
          LET I == {i \in 1 .. Len(s) : s[i] \in T}
              found == IF I # {} THEN Min(I) ELSE 0
          IN  IF found = 0 THEN NoAddr ELSE s[found]
    BY <2>1 DEF FindGrowthNode, FirstSuchThat, SelectInSeq, s
  <2> DEFINE a == FindGrowthNode(f, r)
  <2>3. IF a = NoAddr THEN ToSet(s) \cap T = {} ELSE a \in ToSet(s) \cap T
    <3> HIDE DEF T
    <3> QED
      BY <1>1, <2>2
  <2> HIDE DEF a
  <2> QED
    BY <2>3 DEF a
<1> QED
  BY <1>2, <1>3, <1>4 DEF s

-----------------------------------------------------------------------------
(***************************************************************************)
(* What every image satisfies, whatever was cut short.                     *)
(***************************************************************************)
\* Nothing is written behind a node that others can be appended to.
GrowthClosed(f) ==
    \A a, b \in Addr : b > a /\ IsGrowthNode(f[a]) => f[b] = Blank

\* A node links to older nodes only, apart from the implicit link, and has one
\* link at most to each.
LinksDown(f) ==
    \A a \in Addr : \A i \in LinkId :
        /\ f[a].to[i] < a
        /\ \A j \in LinkId : f[a].to[i] = f[a].to[j] /\ f[a].to[i] # NoAddr => i = j

\* No node before a can be appended to.
Allocated(f, a) == \A b \in Addr : b < a => ~IsGrowthNode(f[b])

\* An image from which the device boots: C are the roots so far, r is the
\* active one, R are nodes of its tree.
Stage(f, C, R, r) ==
    /\ f \in Images
    /\ GrowthClosed(f) /\ LinksDown(f)
    /\ f[1].written /\ f[r].written
    /\ f[r].next_root = NoAddr
    /\ Chain(f, C, r)
    /\ Tree(f, R, r)
    /\ \A a \in R : Allocated(f, a)

AllBlank == [a \in Addr |-> Blank]

\* An image that a reset may leave behind.  Without an active root the device
\* does not boot.
Safe(f) ==
    /\ f \in Images /\ GrowthClosed(f) /\ LinksDown(f)
    /\ IF f[1].written
         THEN \/ \E C : Chain(f, C, NoAddr)
              \/ \E C, R, r : Stage(f, C, R, r)
         ELSE f = AllBlank

LEMMA StageIsSafe ==
    ASSUME NEW f, NEW C, NEW R, NEW r, Stage(f, C, R, r)
    PROVE  Safe(f)
BY DEF Stage, Safe

LEMMA AddrFacts ==
    /\ Addr \subseteq Nat \ {0} /\ NoAddr = 0 /\ NoAddr \notin Addr
    /\ 1 \in Addr /\ Capacity \in Addr
    /\ \A a \in Addr : a < Capacity => a + 1 \in Addr
BY LinkIds DEF Addr, NoAddr

LEMMA BlankFacts ==
    /\ Blank \in Nodes
    /\ ~Blank.written /\ Blank.active /\ ~Blank.value /\ Blank.data_valid
    /\ Blank.next_root = NoAddr /\ Blank.key = NoKey
    /\ \A i \in LinkId : Blank.link[i] = "uninitialized" /\ Blank.to[i] = NoAddr
    /\ IsGrowthNode(Blank)
BY LinkIds DEF Blank, Nodes, LinkStates, IsGrowthNode

\* What the roots are, and which nodes are blank.
LEMMA RootsAreWritten ==
    ASSUME NEW f, NEW C, NEW R, NEW r, Stage(f, C, R, r), NEW a \in C
    PROVE  f[a] # Blank
BY BlankFacts DEF Stage, Chain

\* A change to a node at or before the growth node that adds no link to the
\* tree and leaves the roots alone.
LEMMA OneChange ==
    ASSUME NEW f, NEW C, NEW R, NEW r, Stage(f, C, R, r),
           NEW b \in Addr, Allocated(f, b),
           NEW x \in Nodes,
           f[b].written => x.written,
           IsGrowthNode(x) => IsGrowthNode(f[b]),
           \A i \in LinkId : x.to[i] < b,
           \A i, j \in LinkId : x.to[i] = x.to[j] /\ x.to[i] # NoAddr => i = j,
           b \in C => x.active = f[b].active /\ x.next_root = f[b].next_root,
           b \in R => \A i \in LinkId :
                         x.to[i] = f[b].to[i] /\ (x.link[i] = "valid" => f[b].link[i] = "valid")
    PROVE  /\ Stage([f EXCEPT ![b] = x], C, R, r)
           /\ \A a \in Addr : Allocated(f, a) => Allocated([f EXCEPT ![b] = x], a)
<1> DEFINE g == [f EXCEPT ![b] = x]
<1>1. g \in Images /\ g[b] = x /\ \A a \in Addr : a # b => g[a] = f[a]
  BY DEF Images, Stage
<1> HIDE DEF g
<1>2. f \in Images /\ Chain(f, C, r) /\ Tree(f, R, r)
  BY DEF Stage
<1>3. \A a \in Addr : IsGrowthNode(g[a]) => IsGrowthNode(f[a])
  BY <1>1
<1>4. \A a \in Addr : Allocated(f, a) => Allocated(g, a)
  BY <1>3 DEF Allocated
<1>5. GrowthClosed(g)
  <2> SUFFICES ASSUME NEW a \in Addr, NEW c \in Addr, c > a, IsGrowthNode(g[a])
               PROVE  g[c] = Blank
    BY DEF GrowthClosed
  <2>1. IsGrowthNode(f[a])
    BY <1>3
  <2>2. c # b
    BY <2>1 DEF Allocated
  <2> QED
    BY <1>1, <2>1, <2>2 DEF Stage, GrowthClosed
<1>6. LinksDown(g)
  BY <1>1 DEF LinksDown, Stage
<1>7. Chain(g, C, r) /\ r \in C /\ g[r].next_root = NoAddr
  <2>1. \A a \in C : a \in Addr /\ g[a].active = f[a].active /\ g[a].next_root = f[a].next_root
    BY <1>1, <1>2 DEF Chain
  <2>2. r \in C
    BY <1>2, AddrFacts DEF Chain, Tree
  <2> QED
    BY <1>2, <2>1, <2>2 DEF Chain, Stage
<1>8. Tree(g, R, r)
  <2>1. \A a \in R : \A i \in LinkId : g[a].link[i] = "valid" =>
           f[a].link[i] = "valid" /\ LinkAddress(g, a, i) = LinkAddress(f, a, i)
    BY <1>1, <1>2 DEF Tree, LinkAddress
  <2>2. Closed(g, R)
    BY <1>2, <2>1 DEF Closed, Tree
  <2>3. OneWay(g, R, r)
    BY <1>2, <2>1 DEF OneWay, Tree
  <2> QED
    BY <1>2, <2>2, <2>3 DEF Tree
<1>9. g[1].written /\ g[r].written
  BY <1>1, <1>2, AddrFacts DEF Stage, Tree
<1>10. \A a \in R : Allocated(g, a)
  BY <1>2, <1>4 DEF Stage, Tree
<1> QED
  BY <1>1, <1>4, <1>5, <1>6, <1>7, <1>8, <1>9, <1>10 DEF Stage, g

\* The node behind the growth node becomes a node of the tree.
LEMMA Appended ==
    ASSUME NEW f, NEW C, NEW R, NEW r, Stage(f, C, R, r),
           NEW b \in R, b < Capacity, IsGrowthNode(f[b]),
           NEW x \in Nodes, x = [f[b] EXCEPT !.link[0] = "valid"]
    PROVE  /\ Stage([f EXCEPT ![b] = x], C, R \cup {b + 1}, r)
           /\ b + 1 \in Addr /\ b + 1 \notin R /\ f[b + 1] = Blank
           /\ \A a \in Addr : Allocated(f, a) => Allocated([f EXCEPT ![b] = x], a)
<1> DEFINE g == [f EXCEPT ![b] = x]
           n == b + 1
<1>0. f \in Images /\ Chain(f, C, r) /\ Tree(f, R, r) /\ b \in Addr /\ r \in Addr
  BY DEF Stage, Tree
<1>1. g \in Images /\ g[b] = x /\ \A a \in Addr : a # b => g[a] = f[a]
  BY <1>0 DEF Images
<1>2. n \in Addr /\ n > b
  BY <1>0, AddrFacts
<1>3. f[n] = Blank
  BY <1>0, <1>2 DEF Stage, GrowthClosed
<1>4. n \notin R /\ n # r
  BY <1>0, <1>2 DEF Stage, Allocated, Tree
<1> HIDE DEF g
<1>5. /\ x.active = f[b].active /\ x.next_root = f[b].next_root
      /\ x.written = f[b].written /\ x.to = f[b].to
      /\ x.link[0] = "valid" /\ \A i \in LinkId : i # 0 => x.link[i] = f[b].link[i]
  BY <1>0, LinkIds DEF Images, Nodes
<1>6. ~IsGrowthNode(x) /\ f[b].link[0] # "valid"
  BY <1>5 DEF IsGrowthNode
<1>7. \A a \in Addr : IsGrowthNode(g[a]) => IsGrowthNode(f[a])
  BY <1>1, <1>6
<1>8. \A a \in Addr : Allocated(f, a) => Allocated(g, a)
  BY <1>7 DEF Allocated
<1>9. Allocated(g, n)
  <2> SUFFICES ASSUME NEW c \in Addr, c < n PROVE ~IsGrowthNode(g[c])
    BY DEF Allocated
  <2>1. CASE c = b
    BY <1>1, <1>6, <2>1
  <2>2. CASE c # b
    <3>1. c < b
      BY <1>0, <2>2, AddrFacts
    <3> QED
      BY <1>7, <3>1 DEF Stage, Allocated
  <2> QED
    BY <2>1, <2>2
<1>10. GrowthClosed(g)
  <2> SUFFICES ASSUME NEW a \in Addr, NEW c \in Addr, c > a, IsGrowthNode(g[a])
               PROVE  g[c] = Blank
    BY DEF GrowthClosed
  <2>1. IsGrowthNode(f[a])
    BY <1>7
  <2>2. c # b
    BY <2>1 DEF Stage, Allocated
  <2> QED
    BY <1>1, <2>1, <2>2 DEF Stage, GrowthClosed
<1>11. LinksDown(g)
  <2>1. \A a \in Addr : g[a].to = f[a].to
    BY <1>1, <1>5
  <2> QED
    BY <2>1 DEF LinksDown, Stage
<1>12. Chain(g, C, r) /\ g[r].next_root = NoAddr
  <2>1. \A a \in C : a \in Addr /\ g[a].active = f[a].active /\ g[a].next_root = f[a].next_root
    BY <1>0, <1>1, <1>5 DEF Chain
  <2>2. r \in C
    BY <1>0, AddrFacts DEF Chain
  <2> QED
    BY <1>0, <2>1, <2>2 DEF Chain, Stage
<1>13. \A a \in Addr : \A i \in LinkId : LinkAddress(g, a, i) = LinkAddress(f, a, i)
  BY <1>1, <1>5 DEF LinkAddress
<1>14. ASSUME NEW a \in R \cup {n}, NEW i \in LinkId, g[a].link[i] = "valid"
       PROVE  \/ a \in R /\ f[a].link[i] = "valid" /\ LinkAddress(g, a, i) \in R
              \/ a = b /\ i = 0 /\ LinkAddress(g, a, i) = n
  <2>1. CASE a = n
    <3>1. g[a] = Blank
      BY <1>1, <1>2, <1>3, <2>1, AddrFacts
    <3> QED
      BY <1>14, <3>1, BlankFacts
  <2>2. CASE a \in R /\ ~(a = b /\ i = 0)
    <3>1. f[a].link[i] = "valid" /\ a \in Addr
      BY <1>0, <1>1, <1>5, <1>14, <2>2 DEF Tree
    <3> QED
      BY <1>0, <1>13, <2>2, <3>1 DEF Tree, Closed
  <2>3. CASE a = b /\ i = 0
    BY <2>3 DEF LinkAddress
  <2> QED
    BY <2>1, <2>2, <2>3
<1>15. Closed(g, R \cup {n})
  BY <1>14 DEF Closed
<1>16. OneWay(g, R \cup {n}, r)
  <2>1. ASSUME NEW a \in R \cup {n}, NEW i \in LinkId, g[a].link[i] = "valid"
        PROVE  LinkAddress(g, a, i) # r
    <3>1. CASE a \in R /\ f[a].link[i] = "valid"
      <4>1. a \in Addr /\ LinkAddress(f, a, i) # r
        BY <1>0, <3>1 DEF Tree, OneWay
      <4> QED
        BY <1>13, <4>1
    <3>2. CASE LinkAddress(g, a, i) = n
      BY <1>4, <3>2
    <3> QED
      BY <1>14, <2>1, <3>1, <3>2
  <2>2. ASSUME NEW a \in R \cup {n}, NEW i \in LinkId, g[a].link[i] = "valid",
               NEW c \in R \cup {n}, NEW j \in LinkId, g[c].link[j] = "valid",
               LinkAddress(g, a, i) = LinkAddress(g, c, j)
        PROVE  a = c /\ i = j
    <3>1. CASE LinkAddress(g, a, i) = n
      BY <1>4, <1>14, <2>2, <3>1
    <3>2. CASE LinkAddress(g, a, i) # n
      <4>1. a \in R /\ f[a].link[i] = "valid" /\ c \in R /\ f[c].link[j] = "valid"
        BY <1>14, <2>2, <3>2
      <4>2. LinkAddress(f, a, i) = LinkAddress(f, c, j)
        BY <1>0, <1>13, <2>2, <4>1 DEF Tree
      <4> QED
        BY <1>0, <4>1, <4>2 DEF Tree, OneWay
    <3> QED
      BY <3>1, <3>2
  <2> QED
    BY <2>1, <2>2 DEF OneWay
<1>17. Tree(g, R \cup {n}, r)
  BY <1>0, <1>2, <1>15, <1>16 DEF Tree
<1>18. g[1].written /\ g[r].written
  BY <1>0, <1>1, <1>5, AddrFacts DEF Stage
<1>19. \A a \in R \cup {n} : Allocated(g, a)
  BY <1>0, <1>8, <1>9 DEF Stage, Tree
<1>20. Stage(g, C, R \cup {n}, r)
  BY <1>1, <1>10, <1>11, <1>12, <1>17, <1>18, <1>19 DEF Stage
<1> QED
  BY <1>2, <1>3, <1>4, <1>8, <1>20 DEF g

-----------------------------------------------------------------------------
(***************************************************************************)
(* Flash programming calls, one after the other.                           *)
(***************************************************************************)
Calls ==
    [at : Addr, part : {"header"}, node : Nodes]
      \cup [at : Addr, part : {"value", "data_valid", "active"}]
      \cup [at : Addr, part : {"links"}, to : [LinkId -> Addr \cup {NoAddr}]]
      \cup [at : Addr, part : {"next_root"}, to : Addr]
      \cup [at : Addr, part : {"link"}, id : LinkId, state : LinkStates]

Clears(f, g) == \A a \in Addr : OnlyClearsBits(f[a], g[a])

\* The calls s lead from image f to image h, by images of G.
Runs(G, f, s, h) ==
    /\ s \in Seq(Calls)
    /\ \E imgs \in [1 .. Len(s) + 1 -> G] :
          /\ imgs[1] = f /\ imgs[Len(s) + 1] = h
          /\ \A n \in 1 .. Len(s) : /\ imgs[n + 1] = Program(imgs[n], s[n])
                                    /\ Clears(imgs[n], imgs[n + 1])

LEMMA NoCall ==
    ASSUME NEW G, NEW f \in G
    PROVE  Runs(G, f, <<>>, f)
<1> DEFINE imgs == [n \in 1 .. 1 |-> f]
<1>1. imgs \in [1 .. Len(<<>>) + 1 -> G] /\ imgs[1] = f /\ imgs[Len(<<>>) + 1] = f
  OBVIOUS
<1> HIDE DEF imgs
<1> QED
  BY <1>1 DEF Runs

LEMMA OneCall ==
    ASSUME NEW G, NEW f \in G, NEW c \in Calls, NEW h \in G,
           h = Program(f, c), Clears(f, h)
    PROVE  Runs(G, f, <<c>>, h)
<1> DEFINE imgs == [n \in 1 .. 2 |-> IF n = 1 THEN f ELSE h]
           s == <<c>>
<1>1. s \in Seq(Calls) /\ Len(s) = 1 /\ s[1] = c
  OBVIOUS
<1>2. imgs \in [1 .. 2 -> G] /\ imgs[1] = f /\ imgs[2] = h
  OBVIOUS
<1> HIDE DEF imgs, s
<1>3. imgs \in [1 .. Len(s) + 1 -> G] /\ imgs[Len(s) + 1] = h
  BY <1>1, <1>2
<1>4. \A n \in 1 .. Len(s) : imgs[n + 1] = Program(imgs[n], s[n]) /\ Clears(imgs[n], imgs[n + 1])
  BY <1>1, <1>2
<1>5. Runs(G, f, s, h)
  BY <1>1, <1>2, <1>3, <1>4 DEF Runs
<1> QED
  BY <1>5 DEF s

LEMMA CallsJoin ==
    ASSUME NEW G, NEW f, NEW g, NEW h, NEW s, NEW t,
           Runs(G, f, s, g), Runs(G, g, t, h)
    PROVE  Runs(G, f, s \o t, h)
<1>1. PICK a \in [1 .. Len(s) + 1 -> G] :
          /\ a[1] = f /\ a[Len(s) + 1] = g
          /\ \A n \in 1 .. Len(s) : a[n + 1] = Program(a[n], s[n]) /\ Clears(a[n], a[n + 1])
  BY DEF Runs
<1>2. PICK b \in [1 .. Len(t) + 1 -> G] :
          /\ b[1] = g /\ b[Len(t) + 1] = h
          /\ \A n \in 1 .. Len(t) : b[n + 1] = Program(b[n], t[n]) /\ Clears(b[n], b[n + 1])
  BY DEF Runs
<1> DEFINE u == s \o t
           L == Len(s)
           M == Len(t)
           imgs == [n \in 1 .. Len(u) + 1 |-> IF n <= L THEN a[n] ELSE b[n - L]]
<1>3. s \in Seq(Calls) /\ t \in Seq(Calls) /\ L \in Nat /\ M \in Nat
  BY DEF Runs
<1>4. u \in Seq(Calls) /\ Len(u) = L + M
  BY <1>3
<1>5. \A n \in 1 .. L : u[n] = s[n]
  BY <1>3
<1>6. \A n \in L + 1 .. L + M : n - L \in 1 .. M /\ u[n] = t[n - L]
  BY <1>3
<1>7. \A n \in 1 .. L + M + 1 : imgs[n] = IF n <= L THEN a[n] ELSE b[n - L]
  BY <1>4
<1>8. \A n \in 1 .. L + 1 : imgs[n] = a[n]
  <2> SUFFICES ASSUME NEW n \in 1 .. L + 1 PROVE imgs[n] = a[n]
    OBVIOUS
  <2>1. n \in 1 .. L + M + 1
    BY <1>3
  <2>2. CASE n = L + 1
    <3>1. n - L = 1 /\ ~(n <= L)
      BY <1>3, <2>2
    <3> QED
      BY <1>1, <1>2, <1>7, <2>1, <2>2, <3>1
  <2>3. CASE n # L + 1
    BY <1>3, <1>7, <2>1, <2>3
  <2> QED
    BY <2>2, <2>3
<1>9. \A n \in L + 1 .. L + M + 1 : n - L \in 1 .. M + 1 /\ imgs[n] = b[n - L]
  BY <1>3, <1>7
<1>10. imgs \in [1 .. Len(u) + 1 -> G]
  <2>1. ASSUME NEW n \in 1 .. L + M + 1
        PROVE  (n <= L => a[n] \in G) /\ (~(n <= L) => b[n - L] \in G)
    <3>1. n <= L => n \in 1 .. L + 1
      BY <1>3
    <3>2. ~(n <= L) => n - L \in 1 .. M + 1
      BY <1>3
    <3> QED
      BY <1>1, <1>2, <3>1, <3>2
  <2> QED
    BY <1>4, <2>1
<1> HIDE DEF imgs, u
<1>11. imgs[1] = f /\ imgs[Len(u) + 1] = h
  <2>1. 1 \in 1 .. L + 1 /\ L + M + 1 \in L + 1 .. L + M + 1 /\ (L + M + 1) - L = M + 1
    BY <1>3
  <2> QED
    BY <1>1, <1>2, <1>4, <1>8, <1>9, <2>1
<1>12. ASSUME NEW n \in 1 .. Len(u)
       PROVE  imgs[n + 1] = Program(imgs[n], u[n]) /\ Clears(imgs[n], imgs[n + 1])
  <2>1. CASE n <= L
    <3>1. n \in 1 .. L /\ n \in 1 .. L + 1 /\ n + 1 \in 1 .. L + 1
      BY <1>3, <2>1
    <3>2. imgs[n] = a[n] /\ imgs[n + 1] = a[n + 1] /\ u[n] = s[n]
      BY <1>5, <1>8, <3>1
    <3> QED
      BY <1>1, <3>1, <3>2
  <2>2. CASE ~(n <= L)
    <3>1. /\ n \in L + 1 .. L + M /\ n \in L + 1 .. L + M + 1 /\ n + 1 \in L + 1 .. L + M + 1
          /\ (n + 1) - L = (n - L) + 1
      BY <1>3, <1>4, <2>2
    <3>2. /\ imgs[n] = b[n - L] /\ imgs[n + 1] = b[(n - L) + 1] /\ u[n] = t[n - L]
          /\ n - L \in 1 .. M
      BY <1>6, <1>9, <3>1
    <3> QED
      BY <1>2, <3>2
  <2> QED
    BY <2>1, <2>2
<1>13. Runs(G, f, u, h)
  BY <1>4, <1>10, <1>11, <1>12 DEF Runs
<1> QED
  BY <1>13 DEF u

LEMMA CallsEnd ==
    ASSUME NEW G, NEW f, NEW h, Runs(G, f, <<>>, h)
    PROVE  f = h /\ h \in G
BY DEF Runs

LEMMA CallsGoOn ==
    ASSUME NEW G, NEW f, NEW s, NEW h, Runs(G, f, s, h), s # <<>>
    PROVE  /\ f \in G
           /\ Head(s) \in Calls
           /\ Clears(f, Program(f, Head(s)))
           /\ Runs(G, Program(f, Head(s)), Tail(s), h)
<1>1. PICK a \in [1 .. Len(s) + 1 -> G] :
          /\ a[1] = f /\ a[Len(s) + 1] = h
          /\ \A n \in 1 .. Len(s) : a[n + 1] = Program(a[n], s[n]) /\ Clears(a[n], a[n + 1])
  BY DEF Runs
<1>2. s \in Seq(Calls) /\ Len(s) \in Nat /\ Len(s) > 0 /\ Head(s) = s[1] /\ s[1] \in Calls
  BY DEF Runs
<1>3. a[2] = Program(f, Head(s)) /\ Clears(f, a[2]) /\ f \in G
  BY <1>1, <1>2
<1> DEFINE t == Tail(s)
           b == [n \in 1 .. Len(s) |-> a[n + 1]]
<1>4. /\ t \in Seq(Calls) /\ Len(t) + 1 = Len(s)
      /\ \A n \in 1 .. Len(t) : t[n] = s[n + 1]
  BY <1>2
<1>5. b \in [1 .. Len(t) + 1 -> G]
  <2>1. \A n \in 1 .. Len(s) : a[n + 1] \in G
    BY <1>1, <1>2
  <2> QED
    BY <1>4, <2>1
<1>6. \A n \in 1 .. Len(t) + 1 : b[n] = a[n + 1]
  BY <1>4
<1> HIDE DEF b, t
<1>7. b[1] = a[2] /\ b[Len(t) + 1] = h
  BY <1>1, <1>2, <1>4, <1>6
<1>8. ASSUME NEW n \in 1 .. Len(t)
      PROVE  b[n + 1] = Program(b[n], t[n]) /\ Clears(b[n], b[n + 1])
  <2>1. n + 1 \in 1 .. Len(s) /\ n \in 1 .. Len(t) + 1 /\ n + 1 \in 1 .. Len(t) + 1
    BY <1>2, <1>4
  <2>2. b[n] = a[n + 1] /\ b[n + 1] = a[(n + 1) + 1] /\ t[n] = s[n + 1]
    BY <1>4, <1>6, <2>1
  <2> QED
    BY <1>1, <2>1, <2>2
<1>9. Runs(G, a[2], t, h)
  BY <1>4, <1>5, <1>7, <1>8 DEF Runs
<1> QED
  BY <1>2, <1>3, <1>9 DEF t

\* The images of one run are among those of another set.
LEMMA CallsAmong ==
    ASSUME NEW G, NEW H, G \subseteq H, NEW f, NEW s, NEW h, Runs(G, f, s, h)
    PROVE  Runs(H, f, s, h)
<1>1. PICK a \in [1 .. Len(s) + 1 -> G] :
          /\ a[1] = f /\ a[Len(s) + 1] = h
          /\ \A n \in 1 .. Len(s) : a[n + 1] = Program(a[n], s[n]) /\ Clears(a[n], a[n + 1])
  BY DEF Runs
<1>2. a \in [1 .. Len(s) + 1 -> H]
  BY <1>1
<1> QED
  BY <1>1, <1>2 DEF Runs

-----------------------------------------------------------------------------
(***************************************************************************)
(* What each call makes of a node.                                         *)
(***************************************************************************)
\* The call c writes node x, and only clears bits.
Writes(f, c, x) ==
    /\ c \in Calls
    /\ x \in Nodes
    /\ Program(f, c) = [f EXCEPT ![c.at] = x]
    /\ Clears(f, Program(f, c))

LEMMA SameBits ==
    ASSUME NEW f \in Images, NEW a \in Addr
    PROVE  OnlyClearsBits(f[a], f[a])
BY DEF OnlyClearsBits, Images, Nodes, LinkStates, Rank

LEMMA ClearsOne ==
    ASSUME NEW f \in Images, NEW a \in Addr, NEW x \in Nodes, OnlyClearsBits(f[a], x)
    PROVE  Clears(f, [f EXCEPT ![a] = x])
<1> SUFFICES ASSUME NEW b \in Addr
             PROVE  OnlyClearsBits(f[b], [f EXCEPT ![a] = x][b])
  BY DEF Clears
<1>1. CASE b = a
  BY <1>1 DEF Images
<1>2. CASE b # a
  BY <1>2, SameBits DEF Images
<1> QED
  BY <1>1, <1>2

LEMMA WritesDataValid ==
    ASSUME NEW f \in Images, NEW a \in Addr
    PROVE  Writes(f, ClearFlag(a, "data_valid"), [f[a] EXCEPT !.data_valid = FALSE])
<1> DEFINE x == [f[a] EXCEPT !.data_valid = FALSE]
           c == ClearFlag(a, "data_valid")
<1>1. f[a] \in Nodes
  BY DEF Images
<1>2. x \in Nodes
  BY <1>1 DEF Nodes
<1>3. /\ ~x.data_valid /\ x.active = f[a].active
      /\ x.written = f[a].written /\ x.key = f[a].key /\ x.next_root = f[a].next_root
      /\ x.to = f[a].to /\ x.link = f[a].link
  BY <1>1 DEF Nodes
<1>4. OnlyClearsBits(f[a], x)
  BY <1>3, SameBits DEF OnlyClearsBits
<1>5. c \in Calls /\ c.at = a /\ Program(f, c) = [f EXCEPT ![a] = x]
  BY DEF Calls, Program, ClearFlag
<1> HIDE DEF x
<1>6. Clears(f, [f EXCEPT ![a] = x])
  BY <1>2, <1>4, ClearsOne
<1> HIDE DEF c
<1>7. Writes(f, c, x)
  BY <1>2, <1>5, <1>6 DEF Writes
<1> QED
  BY <1>7 DEF c, x

LEMMA WritesActive ==
    ASSUME NEW f \in Images, NEW a \in Addr
    PROVE  Writes(f, ClearFlag(a, "active"), [f[a] EXCEPT !.active = FALSE])
<1> DEFINE x == [f[a] EXCEPT !.active = FALSE]
           c == ClearFlag(a, "active")
<1>1. f[a] \in Nodes
  BY DEF Images
<1>2. x \in Nodes
  BY <1>1 DEF Nodes
<1>3. /\ ~x.active /\ x.data_valid = f[a].data_valid
      /\ x.written = f[a].written /\ x.key = f[a].key /\ x.next_root = f[a].next_root
      /\ x.to = f[a].to /\ x.link = f[a].link
  BY <1>1 DEF Nodes
<1>4. OnlyClearsBits(f[a], x)
  BY <1>3, SameBits DEF OnlyClearsBits
<1>5. c \in Calls /\ c.at = a /\ Program(f, c) = [f EXCEPT ![a] = x]
  BY DEF Calls, Program, ClearFlag
<1> HIDE DEF x
<1>6. Clears(f, [f EXCEPT ![a] = x])
  BY <1>2, <1>4, ClearsOne
<1> HIDE DEF c
<1>7. Writes(f, c, x)
  BY <1>2, <1>5, <1>6 DEF Writes
<1> QED
  BY <1>7 DEF c, x

LEMMA WritesLink ==
    ASSUME NEW f \in Images, NEW a \in Addr, NEW i \in LinkId, NEW state \in LinkStates,
           Rank[state] <= Rank[f[a].link[i]]
    PROVE  Writes(f, MarkLink(a, i, state), [f[a] EXCEPT !.link[i] = state])
<1> DEFINE x == [f[a] EXCEPT !.link[i] = state]
<1>1. f[a] \in Nodes
  BY DEF Images
<1>2. x \in Nodes
  BY <1>1 DEF Nodes
<1>3. /\ x.active = f[a].active /\ x.data_valid = f[a].data_valid
      /\ x.written = f[a].written /\ x.key = f[a].key /\ x.next_root = f[a].next_root
      /\ x.to = f[a].to /\ x.link[i] = state
      /\ \A j \in LinkId : j # i => x.link[j] = f[a].link[j]
  BY <1>1 DEF Nodes
<1>4. OnlyClearsBits(f[a], x)
  BY <1>3, SameBits DEF OnlyClearsBits
<1> DEFINE c == MarkLink(a, i, state)
<1>5. c \in Calls /\ c.at = a /\ Program(f, c) = [f EXCEPT ![a] = x]
  BY DEF MarkLink, Calls, Program
<1> HIDE DEF x
<1>6. Clears(f, [f EXCEPT ![a] = x])
  BY <1>2, <1>4, ClearsOne
<1> HIDE DEF c
<1>7. Writes(f, c, x)
  BY <1>2, <1>5, <1>6 DEF Writes
<1> QED
  BY <1>7 DEF c, x

LEMMA WritesHeader ==
    ASSUME NEW f \in Images, NEW a \in Addr, f[a] = Blank,
           NEW k \in Keys, NEW is_root \in BOOLEAN, NEW num \in Nat
    PROVE  Writes(f, [at |-> a, part |-> "header", node |-> NewNode(k, is_root, num)],
                  NewNode(k, is_root, num))
<1> DEFINE x == NewNode(k, is_root, num)
           c == [at |-> a, part |-> "header", node |-> x]
<1>1. x \in Nodes
  BY LinkIds DEF NewNode, Nodes, LinkStates
<1>2. OnlyClearsBits(Blank, x)
  <2>1. \A i \in LinkId : Rank[x.link[i]] <= 3
    BY <1>1 DEF Nodes, LinkStates, Rank
  <2> HIDE DEF x
  <2>2. \A i \in LinkId : Rank[Blank.link[i]] = 3
    BY BlankFacts DEF Rank
  <2> QED
    BY <2>1, <2>2, BlankFacts DEF OnlyClearsBits
<1>3. c \in Calls /\ c.at = a /\ Program(f, c) = [f EXCEPT ![a] = x]
  <2> HIDE DEF x
  <2> QED
    BY <1>1 DEF Calls, Program
<1> HIDE DEF x
<1>4. Clears(f, [f EXCEPT ![a] = x])
  BY <1>1, <1>2, ClearsOne
<1> HIDE DEF c
<1>5. Writes(f, c, x)
  BY <1>1, <1>3, <1>4 DEF Writes
<1> QED
  BY <1>5 DEF c, x

LEMMA WritesValue ==
    ASSUME NEW f \in Images, NEW a \in Addr
    PROVE  Writes(f, [at |-> a, part |-> "value"], [f[a] EXCEPT !.value = TRUE])
<1> DEFINE x == [f[a] EXCEPT !.value = TRUE]
           c == [at |-> a, part |-> "value"]
<1>1. f[a] \in Nodes
  BY DEF Images
<1>2. x \in Nodes
  BY <1>1 DEF Nodes
<1>3. /\ x.active = f[a].active /\ x.data_valid = f[a].data_valid
      /\ x.written = f[a].written /\ x.key = f[a].key /\ x.next_root = f[a].next_root
      /\ x.to = f[a].to /\ x.link = f[a].link
  BY <1>1 DEF Nodes
<1>4. OnlyClearsBits(f[a], x)
  BY <1>3, SameBits DEF OnlyClearsBits
<1>5. c \in Calls /\ c.at = a /\ Program(f, c) = [f EXCEPT ![a] = x]
  BY DEF Calls, Program
<1> HIDE DEF x
<1>6. Clears(f, [f EXCEPT ![a] = x])
  BY <1>2, <1>4, ClearsOne
<1> HIDE DEF c
<1>7. Writes(f, c, x)
  BY <1>2, <1>5, <1>6 DEF Writes
<1> QED
  BY <1>7 DEF c, x

LEMMA WritesLinks ==
    ASSUME NEW f \in Images, NEW a \in Addr, NEW to \in [LinkId -> Addr \cup {NoAddr}],
           \A i \in LinkId : f[a].to[i] = NoAddr
    PROVE  Writes(f, [at |-> a, part |-> "links", to |-> to], [f[a] EXCEPT !.to = to])
<1> DEFINE x == [f[a] EXCEPT !.to = to]
           c == [at |-> a, part |-> "links", to |-> to]
<1>1. f[a] \in Nodes
  BY DEF Images
<1>2. x \in Nodes
  BY <1>1 DEF Nodes
<1>3. /\ x.active = f[a].active /\ x.data_valid = f[a].data_valid
      /\ x.written = f[a].written /\ x.key = f[a].key /\ x.next_root = f[a].next_root
      /\ x.to = to /\ x.link = f[a].link
  BY <1>1 DEF Nodes
<1>4. OnlyClearsBits(f[a], x)
  BY <1>3, SameBits DEF OnlyClearsBits
<1>5. c \in Calls /\ c.at = a /\ Program(f, c) = [f EXCEPT ![a] = x]
  BY DEF Calls, Program
<1> HIDE DEF x
<1>6. Clears(f, [f EXCEPT ![a] = x])
  BY <1>2, <1>4, ClearsOne
<1> HIDE DEF c
<1>7. Writes(f, c, x)
  BY <1>2, <1>5, <1>6 DEF Writes
<1> QED
  BY <1>7 DEF c, x

LEMMA WritesNextRoot ==
    ASSUME NEW f \in Images, NEW a \in Addr, NEW to \in Addr, f[a].next_root = NoAddr
    PROVE  Writes(f, [at |-> a, part |-> "next_root", to |-> to], [f[a] EXCEPT !.next_root = to])
<1> DEFINE x == [f[a] EXCEPT !.next_root = to]
           c == [at |-> a, part |-> "next_root", to |-> to]
<1>1. f[a] \in Nodes
  BY DEF Images
<1>2. x \in Nodes
  BY <1>1 DEF Nodes
<1>3. /\ x.active = f[a].active /\ x.data_valid = f[a].data_valid
      /\ x.written = f[a].written /\ x.key = f[a].key /\ x.next_root = to
      /\ x.to = f[a].to /\ x.link = f[a].link
  BY <1>1 DEF Nodes
<1>4. OnlyClearsBits(f[a], x)
  BY <1>3, SameBits DEF OnlyClearsBits
<1>5. c \in Calls /\ c.at = a /\ Program(f, c) = [f EXCEPT ![a] = x]
  BY DEF Calls, Program
<1> HIDE DEF x
<1>6. Clears(f, [f EXCEPT ![a] = x])
  BY <1>2, <1>4, ClearsOne
<1> HIDE DEF c
<1>7. Writes(f, c, x)
  BY <1>2, <1>5, <1>6 DEF Writes
<1> QED
  BY <1>7 DEF c, x

\* A call that leaves an image of G behind is a run of its own.
LEMMA WriteRuns ==
    ASSUME NEW G \in SUBSET Images, NEW f \in G, NEW c, NEW x, NEW a, Writes(f, c, x),
           a = c.at, [f EXCEPT ![a] = x] \in G
    PROVE  Runs(G, f, <<c>>, [f EXCEPT ![a] = x])
BY OneCall DEF Writes

-----------------------------------------------------------------------------
(***************************************************************************)
(* What an image holds as long as no edit was cut short.                   *)
(***************************************************************************)
\* Valid links lead from r to a.
Reached(f, r, a) == \A S \in SUBSET Addr : r \in S /\ Closed(f, S) => a \in S

HasGrowth(f, r) == \E g \in Addr : Reached(f, r, g) /\ IsGrowthNode(f[g])

\* The last value written of each key is there.
Holds(f, r, l) ==
    \A k \in Keys : l[k] # NoAddr =>
        l[k] \in Addr /\ Reached(f, r, l[k]) /\ f[l[k]].key = k /\ f[l[k]].value

Keeps(f, r, l) == HasGrowth(f, r) /\ Holds(f, r, l)

Kept(f, l) ==
    IF f[1].written THEN \E C, R, r : Stage(f, C, R, r) /\ Keeps(f, r, l)
                    ELSE \A k \in Keys : l[k] = NoAddr

SafeImages == {f \in Images : Safe(f)}

Good(l) == {f \in SafeImages : Kept(f, l)}

Latests == [Keys -> Addr \cup {NoAddr}]

LEMMA StageIsGood ==
    ASSUME NEW f, NEW C, NEW R, NEW r, Stage(f, C, R, r)
    PROVE  f \in SafeImages /\ \A l : Keeps(f, r, l) => f \in Good(l)
BY StageIsSafe DEF SafeImages, Good, Kept, Stage

LEMMA RootIsReached == ASSUME NEW f, NEW r PROVE Reached(f, r, r)
BY DEF Reached

\* A write that takes no valid link away.
LEMMA ReachedOn ==
    ASSUME NEW f \in Images, NEW b \in Addr, NEW x \in Nodes, NEW r,
           \A i \in LinkId : f[b].link[i] = "valid" => x.link[i] = "valid" /\ x.to[i] = f[b].to[i],
           NEW a, Reached(f, r, a)
    PROVE  Reached([f EXCEPT ![b] = x], r, a)
<1> DEFINE g == [f EXCEPT ![b] = x]
<1>1. g[b] = x /\ \A c \in Addr : c # b => g[c] = f[c]
  BY DEF Images
<1> HIDE DEF g
<1>2. ASSUME NEW S \in SUBSET Addr, Closed(g, S) PROVE Closed(f, S)
  <2> SUFFICES ASSUME NEW c \in S, NEW i \in LinkId, f[c].link[i] = "valid"
               PROVE  LinkAddress(f, c, i) \in S
    BY DEF Closed
  <2>1. g[c].link[i] = "valid" /\ LinkAddress(g, c, i) = LinkAddress(f, c, i)
    BY <1>1 DEF LinkAddress
  <2> QED
    BY <1>2, <2>1 DEF Closed
<1> QED
  BY <1>2 DEF Reached, g

LEMMA HoldsOn ==
    ASSUME NEW f \in Images, NEW b \in Addr, NEW x \in Nodes, NEW r,
           \A i \in LinkId : f[b].link[i] = "valid" => x.link[i] = "valid" /\ x.to[i] = f[b].to[i],
           f[b].value => x.value /\ x.key = f[b].key,
           NEW l, Holds(f, r, l)
    PROVE  Holds([f EXCEPT ![b] = x], r, l)
<1> DEFINE g == [f EXCEPT ![b] = x]
<1>1. g[b] = x /\ \A c \in Addr : c # b => g[c] = f[c]
  BY DEF Images
<1>2. \A a : Reached(f, r, a) => Reached(g, r, a)
  BY ReachedOn
<1> HIDE DEF g
<1>3. Holds(g, r, l)
  BY <1>1, <1>2 DEF Holds
<1> QED
  BY <1>3 DEF g

-----------------------------------------------------------------------------
(***************************************************************************)
(* The operations that write no new root.                                  *)
(***************************************************************************)
\* add_growth_node_with_key_value.  G are the images it may leave behind.
LEMMA AppendRuns ==
    ASSUME NEW f, NEW C, NEW R, NEW r, Stage(f, C, R, r),
           NEW g \in R, IsGrowthNode(f[g]), g < Capacity, Reached(f, r, g),
           NEW k \in Keys, NEW l \in Latests,
           NEW G, G = SafeImages \/ (G = Good(l) /\ Keeps(f, r, l))
    PROVE  \E h : /\ Runs(G, f, AddGrowthNode(k, g), h)
                  /\ Stage(h, C, R \cup {g + 1}, r)
                  /\ Keeps(f, r, l) => Keeps(h, r, [l EXCEPT ![k] = g + 1])
<1> DEFINE n == g + 1
<1>0. f \in Images /\ g \in Addr /\ f[g] \in Nodes
  BY DEF Stage, Tree, Images
\* The link of the growth node.
<1> DEFINE x1 == [f[g] EXCEPT !.link[0] = "valid"]
           f1 == [f EXCEPT ![g] = x1]
           c1 == MarkLink(g, 0, "valid")
<1>1. Writes(f, c1, x1) /\ c1.at = g
  <2>1. Rank["valid"] <= Rank[f[g].link[0]]
    BY DEF IsGrowthNode, Rank
  <2> QED
    BY <1>0, <2>1, LinkIds, WritesLink DEF LinkStates, MarkLink
<1>2. x1 \in Nodes
  BY <1>1 DEF Writes
<1>3. /\ Stage(f1, C, R \cup {n}, r) /\ n \in Addr /\ n \notin R /\ f[n] = Blank
  BY <1>2, Appended
<1>4. /\ x1.to = f[g].to /\ x1.value = f[g].value /\ x1.key = f[g].key
      /\ x1.link[0] = "valid"
      /\ \A i \in LinkId : f[g].link[i] = "valid" => x1.link[i] = "valid"
  BY <1>0, LinkIds DEF Nodes, IsGrowthNode
<1>5. f1 \in Images /\ f1[g] = x1 /\ f1[n] = Blank
  BY <1>0, <1>2, <1>3, AddrFacts DEF Stage, Images
<1> HIDE DEF x1
<1>6. Reached(f1, r, n)
  <2>1. Reached(f1, r, g)
    BY <1>0, <1>2, <1>4, ReachedOn
  <2>2. LinkAddress(f1, g, 0) = n /\ f1[g].link[0] = "valid"
    BY <1>4, <1>5 DEF LinkAddress
  <2> HIDE DEF f1
  <2> QED
    BY <2>1, <2>2, LinkIds DEF Reached, Closed
<1>7. ASSUME Keeps(f, r, l) PROVE Keeps(f1, r, l)
  <2>1. Holds(f1, r, l)
    BY <1>0, <1>2, <1>4, <1>7, HoldsOn DEF Keeps
  <2> QED
    BY <1>3, <1>5, <1>6, <2>1, BlankFacts DEF Keeps, HasGrowth
<1> HIDE DEF f1
\* The header of the new node.
<1> DEFINE x2 == NewNode(k, FALSE, 0)
           f2 == [f1 EXCEPT ![n] = x2]
           c2 == [at |-> n, part |-> "header", node |-> x2]
<1>8. Writes(f1, c2, x2) /\ c2.at = n
  BY <1>3, <1>5, WritesHeader
<1>9. x2 \in Nodes
  BY <1>8 DEF Writes
<1>10. /\ x2.written /\ ~x2.value /\ x2.key = k
       /\ x2.next_root = NoAddr
       /\ \A i \in LinkId : x2.to[i] = NoAddr /\ x2.link[i] # "valid"
       /\ IsGrowthNode(x2)
  BY LinkIds DEF NewNode, IsGrowthNode, LinkId
<1> HIDE DEF x2
<1>11. Stage(f2, C, R \cup {n}, r)
  <2>1. Allocated(f1, n)
    BY <1>3 DEF Stage
  <2>2. n \notin C
    BY <1>3, <1>5, RootsAreWritten
  <2>3. NoAddr < n
    BY <1>0, AddrFacts
  <2>4. \A i \in LinkId : x2.to[i] = f1[n].to[i]
    BY <1>5, <1>10, BlankFacts
  <2>5. IsGrowthNode(f1[n])
    BY <1>5, BlankFacts
  <2> QED
    BY <1>3, <1>9, <1>10, <2>1, <2>2, <2>3, <2>4, <2>5, OneChange
<1>12. f2 \in Images /\ f2[n] = x2
  BY <1>3, <1>5, <1>9 DEF Images
<1>13. \A i \in LinkId : f1[n].link[i] # "valid"
  BY <1>5, BlankFacts
<1>14. Reached(f2, r, n)
  BY <1>3, <1>5, <1>6, <1>9, <1>13, ReachedOn
<1>15. ASSUME Keeps(f1, r, l) PROVE Keeps(f2, r, l)
  <2>1. ~f1[n].value
    BY <1>5, BlankFacts
  <2>2. Holds(f2, r, l)
    BY <1>3, <1>5, <1>9, <1>13, <1>15, <2>1, HoldsOn DEF Keeps
  <2> QED
    BY <1>3, <1>10, <1>12, <1>14, <2>2 DEF Keeps, HasGrowth
<1> HIDE DEF f2
\* Its value.
<1> DEFINE x3 == [f2[n] EXCEPT !.value = TRUE]
           f3 == [f2 EXCEPT ![n] = x3]
           c3 == [at |-> n, part |-> "value"]
<1>16. Writes(f2, c3, x3) /\ c3.at = n
  BY <1>3, <1>12, WritesValue
<1>17. x3 \in Nodes
  BY <1>16 DEF Writes
<1>18. /\ x3.value /\ x3.key = k /\ x3.written /\ x3.link = x2.link /\ x3.to = x2.to
       /\ x3.active = x2.active /\ x3.next_root = x2.next_root
  BY <1>9, <1>10, <1>12 DEF Nodes
<1> HIDE DEF x3
<1>19. Stage(f3, C, R \cup {n}, r)
  <2>1. Allocated(f2, n)
    BY <1>11 DEF Stage
  <2>2. NoAddr < n
    BY <1>0, AddrFacts
  <2>3. IsGrowthNode(x3) /\ IsGrowthNode(f2[n])
    BY <1>10, <1>12, <1>18 DEF IsGrowthNode
  <2> QED
    BY <1>3, <1>10, <1>11, <1>12, <1>17, <1>18, <2>1, <2>2, <2>3, OneChange
<1>20. f3 \in Images /\ f3[n] = x3
  BY <1>3, <1>12, <1>17 DEF Images
<1>21. Reached(f3, r, n)
  BY <1>3, <1>12, <1>14, <1>17, <1>18, ReachedOn
<1>22. ASSUME Keeps(f2, r, l)
       PROVE  Keeps(f3, r, l) /\ Keeps(f3, r, [l EXCEPT ![k] = n])
  <2>1. Holds(f3, r, l)
    BY <1>3, <1>10, <1>12, <1>17, <1>18, <1>22, HoldsOn DEF Keeps
  <2>2. HasGrowth(f3, r)
    BY <1>3, <1>10, <1>18, <1>20, <1>21 DEF HasGrowth, IsGrowthNode
  <2>3. Holds(f3, r, [l EXCEPT ![k] = n])
    <3> DEFINE m == [l EXCEPT ![k] = n]
    <3>1. m[k] = n /\ \A j \in Keys : j # k => m[j] = l[j]
      BY DEF Latests
    <3> HIDE DEF m, f3
    <3> QED
      BY <1>3, <1>18, <1>20, <1>21, <2>1, <3>1 DEF Holds, m
  <2> QED
    BY <2>1, <2>2, <2>3 DEF Keeps
<1> HIDE DEF f3
\* The three together.
<1>23. f \in G /\ f1 \in G /\ f2 \in G /\ f3 \in G /\ G \in SUBSET Images
  BY <1>3, <1>7, <1>11, <1>15, <1>19, <1>22, StageIsGood DEF SafeImages, Good
<1>24. Runs(G, f, <<c1>>, f1)
  BY <1>1, <1>23, WriteRuns DEF f1
<1>25. Runs(G, f1, <<c2>>, f2)
  BY <1>8, <1>23, WriteRuns DEF f2
<1>26. Runs(G, f2, <<c3>>, f3)
  BY <1>16, <1>23, WriteRuns DEF f3
<1>27. AddGrowthNode(k, g) = <<c1>> \o (<<c2>> \o <<c3>>)
  <2>1. <<c2, c3>> = <<c2>> \o <<c3>> /\ <<c2, c3>> \o <<>> = <<c2, c3>>
    OBVIOUS
  <2>2. WriteToAddress(n, k, FALSE, <<>>) = <<c2, c3>>
    BY <2>1 DEF WriteToAddress, x2
  <2> HIDE DEF c1, c2, c3
  <2> QED
    BY <2>1, <2>2 DEF AddGrowthNode, c1
<1> HIDE DEF c1, c2, c3
<1>28. Runs(G, f, AddGrowthNode(k, g), f3)
  <2>1. Runs(G, f1, <<c2>> \o <<c3>>, f3)
    BY <1>25, <1>26, CallsJoin
  <2> QED
    BY <1>24, <1>27, <2>1, CallsJoin
<1> QED
  BY <1>7, <1>15, <1>19, <1>22, <1>28

\* add_first_root_node, on a sector that is blank.
LEMMA FirstRuns ==
    ASSUME NEW k \in Keys, NEW l \in Latests, \A j \in Keys : l[j] = NoAddr
    PROVE  \E h : Runs(Good(l), AllBlank, AddFirstRootNode(k), h)
                 /\ Kept(h, [l EXCEPT ![k] = 1])
<1>0. 1 \in Addr /\ Addr \subseteq Nat \ {0} /\ NoAddr = 0 /\ Blank \in Nodes
  BY AddrFacts, BlankFacts
<1> DEFINE f == AllBlank
<1>1. f \in Images /\ \A a \in Addr : f[a] = Blank
  BY <1>0 DEF Images, AllBlank
<1>2. f \in Good(l)
  <2>1. GrowthClosed(f)
    BY <1>1 DEF GrowthClosed
  <2>2. LinksDown(f)
    BY <1>0, <1>1, BlankFacts DEF LinksDown
  <2>3. ~f[1].written
    BY <1>0, <1>1, BlankFacts
  <2> QED
    BY <1>1, <2>1, <2>2, <2>3 DEF Good, SafeImages, Safe, Kept
<1> HIDE DEF f
<1> DEFINE x1 == NewNode(k, TRUE, 0)
           f1 == [f EXCEPT ![1] = x1]
           c1 == [at |-> 1, part |-> "header", node |-> x1]
<1>3. Writes(f, c1, x1) /\ c1.at = 1
  BY <1>0, <1>1, WritesHeader
<1>4. x1 \in Nodes
  BY <1>3 DEF Writes
<1>5. /\ x1.written /\ x1.active /\ x1.key = k /\ x1.next_root = NoAddr
      /\ \A i \in LinkId : x1.to[i] = NoAddr /\ x1.link[i] # "valid"
      /\ IsGrowthNode(x1)
  BY LinkIds DEF NewNode, IsGrowthNode, LinkId
<1> HIDE DEF x1
<1> DEFINE x2 == [x1 EXCEPT !.value = TRUE]
           f2 == [f EXCEPT ![1] = x2]
           c2 == [at |-> 1, part |-> "value"]
<1>6. /\ x2 \in Nodes /\ x2.written /\ x2.active /\ x2.key = k /\ x2.next_root = NoAddr
      /\ \A i \in LinkId : x2.to[i] = NoAddr /\ x2.link[i] # "valid"
      /\ IsGrowthNode(x2) /\ x2.value
  BY <1>4, <1>5 DEF Nodes, IsGrowthNode
\* Either of them is the only node of a tree.
<1>7. ASSUME NEW x \in Nodes, x.written, x.active, x.next_root = NoAddr, IsGrowthNode(x),
             \A i \in LinkId : x.to[i] = NoAddr /\ x.link[i] # "valid",
             NEW g, g = [f EXCEPT ![1] = x]
      PROVE  /\ g[1] = x /\ Stage(g, {1}, {1}, 1) /\ Keeps(g, 1, l)
             /\ g \in Good(l)
  <2>1. g \in Images /\ g[1] = x /\ \A a \in Addr : a # 1 => g[a] = Blank
    BY <1>0, <1>1, <1>7 DEF Images
  <2>2. GrowthClosed(g)
    BY <1>0, <2>1 DEF GrowthClosed
  <2>3. LinksDown(g)
    <3>1. \A a \in Addr : \A i \in LinkId : g[a].to[i] = NoAddr
      BY <1>7, <2>1, BlankFacts
    <3> QED
      BY <1>0, <3>1 DEF LinksDown
  <2>4. Chain(g, {1}, 1)
    BY <1>0, <1>7, <2>1 DEF Chain
  <2>5. Tree(g, {1}, 1)
    BY <1>0, <1>7, <2>1 DEF Tree, Closed, OneWay
  <2>6. Allocated(g, 1)
    BY <1>0 DEF Allocated
  <2>7. Stage(g, {1}, {1}, 1)
    BY <1>7, <2>1, <2>2, <2>3, <2>4, <2>5, <2>6 DEF Stage
  <2>8. Keeps(g, 1, l)
    BY <1>0, <1>7, <2>1, RootIsReached DEF Keeps, HasGrowth, Holds
  <2> QED
    BY <2>1, <2>7, <2>8, StageIsGood
<1>8. f1[1] = x1 /\ f1 \in Good(l)
  BY <1>4, <1>5, <1>7
<1>9. f2[1] = x2 /\ f2 \in Good(l) /\ Stage(f2, {1}, {1}, 1) /\ Keeps(f2, 1, l)
  <2> HIDE DEF x2
  <2> QED
    BY <1>6, <1>7
<1>10. Writes(f1, c2, x2) /\ c2.at = 1
  <2>1. f1 \in Images
    BY <1>8 DEF Good, SafeImages
  <2> QED
    BY <1>0, <1>8, <2>1, WritesValue
<1>11. f2 = [f1 EXCEPT ![1] = x2]
  BY <1>0, <1>1 DEF Images
<1>12. Kept(f2, [l EXCEPT ![k] = 1])
  <2> DEFINE m == [l EXCEPT ![k] = 1]
  <2>1. m[k] = 1 /\ \A j \in Keys : j # k => m[j] = NoAddr
    BY DEF Latests
  <2> HIDE DEF m, x2, f2
  <2>2. Holds(f2, 1, m)
    BY <1>0, <1>6, <1>9, <2>1, RootIsReached DEF Holds
  <2>3. f2[1].written
    BY <1>6, <1>9
  <2>4. Kept(f2, m)
    BY <1>9, <2>2, <2>3 DEF Kept, Keeps
  <2> QED
    BY <2>4 DEF m
<1>13. AddFirstRootNode(k) = <<c1>> \o <<c2>>
  <2>1. <<c1, c2>> = <<c1>> \o <<c2>> /\ <<c1, c2>> \o <<>> = <<c1, c2>>
    OBVIOUS
  <2> QED
    BY <2>1 DEF WriteToAddress, AddFirstRootNode, x1
<1> HIDE DEF x2, c1, c2, f1, f2
<1>14. ASSUME NEW G, G = Good(l)
       PROVE  Runs(G, f, <<c1>>, f1) /\ Runs(G, f1, <<c2>>, f2)
  <2>1. G \in SUBSET Images /\ f \in G /\ f1 \in G /\ f2 \in G
    BY <1>2, <1>8, <1>9, <1>14 DEF Good, SafeImages
  <2>2. Runs(G, f, <<c1>>, f1)
    BY <1>3, <2>1, WriteRuns DEF f1
  <2>3. Runs(G, f1, <<c2>>, f2)
    BY <1>10, <1>11, <2>1, WriteRuns
  <2> QED
    BY <2>2, <2>3
<1>15. Runs(Good(l), f, AddFirstRootNode(k), f2)
  BY <1>13, <1>14, CallsJoin
<1> QED
  BY <1>12, <1>15 DEF f

\* The value of a node becomes invalid.
LEMMA DataInvalidated ==
    ASSUME NEW f, NEW C, NEW R, NEW r, Stage(f, C, R, r), NEW b \in R
    PROVE  LET x == [f[b] EXCEPT !.data_valid = FALSE]
               g == [f EXCEPT ![b] = x]
           IN  /\ Stage(g, C, R, r)
               /\ Runs(SafeImages, f, <<ClearFlag(b, "data_valid")>>, g)
               /\ \A l : Keeps(f, r, l) =>
                     Keeps(g, r, l) /\ Runs(Good(l), f, <<ClearFlag(b, "data_valid")>>, g)
               /\ x.link = f[b].link /\ x.to = f[b].to /\ x.key = f[b].key /\ x.value = f[b].value
<1> DEFINE x == [f[b] EXCEPT !.data_valid = FALSE]
           g == [f EXCEPT ![b] = x]
           c == ClearFlag(b, "data_valid")
<1>0. f \in Images /\ b \in Addr /\ f[b] \in Nodes
  BY DEF Stage, Tree, Images
<1>1. Writes(f, c, x) /\ c.at = b
  BY <1>0, WritesDataValid DEF ClearFlag
<1>2. x \in Nodes
  BY <1>1 DEF Writes
<1>3. /\ x.written = f[b].written /\ x.active = f[b].active /\ x.next_root = f[b].next_root
      /\ x.link = f[b].link /\ x.to = f[b].to /\ x.key = f[b].key /\ x.value = f[b].value
  BY <1>0 DEF Nodes
<1> HIDE DEF x
<1>4. Stage(g, C, R, r)
  <2>1. Allocated(f, b)
    BY DEF Stage
  <2>2. \A i \in LinkId : x.to[i] < b
    BY <1>0, <1>3 DEF Stage, LinksDown
  <2>3. \A i, j \in LinkId : x.to[i] = x.to[j] /\ x.to[i] # NoAddr => i = j
    BY <1>0, <1>3 DEF Stage, LinksDown
  <2>4. IsGrowthNode(x) => IsGrowthNode(f[b])
    BY <1>3 DEF IsGrowthNode
  <2> QED
    BY <1>0, <1>2, <1>3, <2>1, <2>2, <2>3, <2>4, OneChange
<1>5. g[b] = x /\ \A a \in Addr : a # b => g[a] = f[a]
  BY <1>0 DEF Images
<1>6. ASSUME NEW l, Keeps(f, r, l) PROVE Keeps(g, r, l)
  <2>1. Holds(g, r, l)
    BY <1>0, <1>2, <1>3, <1>6, HoldsOn DEF Keeps
  <2>2. PICK a \in Addr : Reached(f, r, a) /\ IsGrowthNode(f[a])
    BY <1>6 DEF Keeps, HasGrowth
  <2>3. Reached(g, r, a)
    BY <1>0, <1>2, <1>3, <2>2, ReachedOn
  <2>4. IsGrowthNode(g[a])
    BY <1>3, <1>5, <2>2 DEF IsGrowthNode
  <2> HIDE DEF g
  <2> QED
    BY <2>1, <2>3, <2>4 DEF Keeps, HasGrowth
<1>7. ASSUME NEW G \in SUBSET Images, f \in G, g \in G PROVE Runs(G, f, <<c>>, g)
  BY <1>1, <1>7, WriteRuns
<1>8. SafeImages \in SUBSET Images /\ \A l : Good(l) \in SUBSET Images
  BY DEF SafeImages, Good
<1> HIDE DEF g, c
<1>9. f \in SafeImages /\ g \in SafeImages
  BY <1>4, StageIsGood
<1>10. \A l : Keeps(f, r, l) => f \in Good(l) /\ g \in Good(l)
  BY <1>4, <1>6, StageIsGood
<1>11. Runs(SafeImages, f, <<c>>, g)
  BY <1>7, <1>8, <1>9
<1>12. \A l : Keeps(f, r, l) => Keeps(g, r, l) /\ Runs(Good(l), f, <<c>>, g)
  BY <1>6, <1>7, <1>8, <1>10
<1> QED
  BY <1>3, <1>4, <1>11, <1>12 DEF x, g, c

\* The branch of update_node that leaves the old node where it is.
LEMMA CarcassRuns ==
    ASSUME NEW f, NEW C, NEW R, NEW r, Stage(f, C, R, r), NEW b \in R,
           NEW g \in R, IsGrowthNode(f[g]), g < Capacity, Reached(f, r, g),
           NEW k \in Keys, NEW l \in Latests,
           NEW G, G = SafeImages \/ (G = Good(l) /\ Keeps(f, r, l))
    PROVE  \E h, C2, R2, r2 :
              /\ Runs(G, f, LeaveCarcass(k, g, b), h)
              /\ Stage(h, C2, R2, r2)
              /\ Keeps(f, r, l) => Keeps(h, r2, [l EXCEPT ![k] = g + 1])
<1> DEFINE x == [f[b] EXCEPT !.data_valid = FALSE]
           f1 == [f EXCEPT ![b] = x]
           c == ClearFlag(b, "data_valid")
<1>1. /\ Stage(f1, C, R, r)
      /\ Runs(G, f, <<c>>, f1)
      /\ Keeps(f, r, l) => Keeps(f1, r, l)
      /\ x.link = f[b].link /\ x.to = f[b].to
  BY DataInvalidated
<1>2. /\ f \in Images /\ b \in Addr /\ f1[b] = x /\ x \in Nodes
      /\ \A a \in Addr : a # b => f1[a] = f[a]
  <2>1. f \in Images /\ b \in Addr /\ f[b] \in Nodes
    BY DEF Stage, Tree, Images
  <2>2. x \in Nodes
    BY <2>1 DEF Nodes
  <2> HIDE DEF x
  <2> QED
    BY <2>1, <2>2 DEF Images
<1>3. IsGrowthNode(f1[g])
  <2>1. g \in Addr
    BY DEF Stage, Tree
  <2> QED
    BY <1>1, <1>2, <2>1 DEF IsGrowthNode
<1>4. Reached(f1, r, g)
  BY <1>1, <1>2, ReachedOn
<1> HIDE DEF f1, x, c
<1>5. PICK h : /\ Runs(G, f1, AddGrowthNode(k, g), h)
               /\ Stage(h, C, R \cup {g + 1}, r)
               /\ Keeps(f1, r, l) => Keeps(h, r, [l EXCEPT ![k] = g + 1])
  BY <1>1, <1>3, <1>4, AppendRuns
<1>6. Runs(G, f, LeaveCarcass(k, g, b), h)
  BY <1>1, <1>5, CallsJoin DEF LeaveCarcass, c
<1> QED
  BY <1>1, <1>5, <1>6

-----------------------------------------------------------------------------
(***************************************************************************)
(* The branch that writes a new root: first, the old node is cut off and   *)
(* the growth link is closed.                                              *)
(***************************************************************************)
\* The nodes of R as before, but that none links to b.
Trimmed(f, h, R, b) ==
    \A a \in R : /\ h[a].key = f[a].key /\ h[a].value = f[a].value /\ h[a].to = f[a].to
                 /\ \A i \in LinkId : h[a].link[i] = "valid" <=>
                        f[a].link[i] = "valid" /\ LinkAddress(f, a, i) # b

\* A link that is not valid any more, or was never used.
LEMMA LinkInvalidated ==
    ASSUME NEW f, NEW C, NEW R, NEW r, Stage(f, C, R, r), NEW b \in R,
           NEW i \in LinkId, f[b].link[i] \in {"valid", "uninitialized"}
    PROVE  \E g :
              /\ Stage(g, C, R, r)
              /\ Runs(SafeImages, f, <<MarkLink(b, i, "invalid")>>, g)
              /\ \A a \in Addr : Allocated(f, a) => Allocated(g, a)
              /\ \A a \in Addr : a # b => g[a] = f[a]
              /\ g[b].to = f[b].to /\ g[b].key = f[b].key /\ g[b].value = f[b].value
              /\ g[b].link[i] = "invalid"
              /\ \A j \in LinkId : j # i => g[b].link[j] = f[b].link[j]
<1> DEFINE x == [f[b] EXCEPT !.link[i] = "invalid"]
           g == [f EXCEPT ![b] = x]
           c == MarkLink(b, i, "invalid")
<1>0. f \in Images /\ b \in Addr /\ f[b] \in Nodes
  BY DEF Stage, Tree, Images
<1>1. Writes(f, c, x) /\ c.at = b
  <2>1. Rank["invalid"] <= Rank[f[b].link[i]]
    BY DEF Rank
  <2> QED
    BY <1>0, <2>1, WritesLink DEF MarkLink, LinkStates
<1>2. x \in Nodes
  BY <1>1 DEF Writes
<1>3. /\ x.written = f[b].written /\ x.active = f[b].active /\ x.next_root = f[b].next_root
      /\ x.to = f[b].to /\ x.key = f[b].key /\ x.value = f[b].value
      /\ x.link[i] = "invalid" /\ \A j \in LinkId : j # i => x.link[j] = f[b].link[j]
  BY <1>0 DEF Nodes
<1>4. g[b] = x /\ \A a \in Addr : a # b => g[a] = f[a]
  BY <1>0 DEF Images
<1> HIDE DEF x
<1>5. Stage(g, C, R, r) /\ \A a \in Addr : Allocated(f, a) => Allocated(g, a)
  <2>1. Allocated(f, b)
    BY DEF Stage
  <2>2. \A j \in LinkId : x.to[j] < b
    BY <1>0, <1>3 DEF Stage, LinksDown
  <2>3. \A m, j \in LinkId : x.to[m] = x.to[j] /\ x.to[m] # NoAddr => m = j
    BY <1>0, <1>3 DEF Stage, LinksDown
  <2>4. IsGrowthNode(x) => IsGrowthNode(f[b])
    BY <1>3, LinkIds DEF IsGrowthNode
  <2>5. \A j \in LinkId : x.to[j] = f[b].to[j] /\ (x.link[j] = "valid" => f[b].link[j] = "valid")
    BY <1>3
  <2> QED
    BY <1>0, <1>2, <1>3, <2>1, <2>2, <2>3, <2>4, <2>5, OneChange
<1>6. Runs(SafeImages, f, <<c>>, g)
  <2>1. SafeImages \in SUBSET Images
    BY DEF SafeImages
  <2>2. f \in SafeImages /\ g \in SafeImages
    BY <1>5, StageIsGood
  <2> HIDE DEF c
  <2> QED
    BY <1>1, <2>1, <2>2, WriteRuns
<1> HIDE DEF g
<1> QED
  BY <1>3, <1>4, <1>5, <1>6 DEF c

\* mark_invalid_link_to finds the link it is after.
LEMMA LinkOfParent ==
    ASSUME NEW f, NEW C, NEW R, NEW r, Stage(f, C, R, r),
           NEW node \in R, NEW parent \in R, LinksTo(f, parent, node)
    PROVE  \E i \in LinkId :
              /\ DetachFromParent(f, parent, node) = <<MarkLink(parent, i, "invalid")>>
              /\ f[parent].link[i] = "valid" /\ LinkAddress(f, parent, i) = node
<1>0. parent \in Addr /\ node \in Addr /\ node # NoAddr /\ parent # NoAddr /\ parent \in Nat
  BY AddrFacts DEF Stage, Tree
<1>1. PICK i \in LinkId : f[parent].link[i] = "valid" /\ LinkAddress(f, parent, i) = node
  BY DEF LinksTo
<1>2. ASSUME NEW j \in LinkId, LinkAddress(f, parent, j) = node PROVE j = i
  <2>1. \A m \in LinkId : f[parent].to[m] < parent
    BY <1>0 DEF Stage, LinksDown
  <2>2. \A m \in LinkId : f[parent].to[m] = f[parent].to[j] /\ f[parent].to[m] # NoAddr => m = j
    BY <1>0 DEF Stage, LinksDown
  <2>3. \A m \in LinkId : f[parent].to[m] # parent + 1
    BY <1>0, <2>1 DEF Stage, Images, Nodes, Addr, NoAddr
  <2> QED
    BY <1>0, <1>1, <1>2, <2>2, <2>3 DEF LinkAddress
<1>3. (CHOOSE j \in LinkId : LinkAddress(f, parent, j) = node) = i
  BY <1>1, <1>2
<1> QED
  BY <1>0, <1>1, <1>3 DEF DetachFromParent

\* The old node is invalidated and cut off.
LEMMA CutOff ==
    ASSUME NEW f, NEW C, NEW R, NEW r, Stage(f, C, R, r),
           NEW node \in R, NEW parent,
           \/ parent = NoAddr /\ node = r
           \/ parent \in R /\ LinksTo(f, parent, node)
    PROVE  \E h :
              /\ Runs(SafeImages, f,
                      <<ClearFlag(node, "data_valid")>> \o DetachFromParent(f, parent, node), h)
              /\ Stage(h, C, R, r)
              /\ \A a \in Addr : Allocated(f, a) => Allocated(h, a)
              /\ \A a \in Addr : a \notin R => h[a] = f[a]
              /\ \A a \in R : h[a].link[0] = f[a].link[0] \/ f[a].link[0] = "valid"
              /\ Trimmed(f, h, R, node)
<1> DEFINE x == [f[node] EXCEPT !.data_valid = FALSE]
           f1 == [f EXCEPT ![node] = x]
           c == ClearFlag(node, "data_valid")
<1>0. f \in Images /\ node \in Addr /\ R \subseteq Addr /\ Tree(f, R, r)
  BY DEF Stage, Tree
<1>1. /\ Stage(f1, C, R, r)
      /\ Runs(SafeImages, f, <<c>>, f1)
      /\ x.link = f[node].link /\ x.to = f[node].to
      /\ x.key = f[node].key /\ x.value = f[node].value
  BY DataInvalidated
<1>2. f1[node] = x /\ \A a \in Addr : a # node => f1[a] = f[a]
  BY <1>0 DEF Images
<1> HIDE DEF f1, x, c
<1>3. \A a \in Addr : /\ f1[a].link = f[a].link /\ f1[a].to = f[a].to
                      /\ f1[a].key = f[a].key /\ f1[a].value = f[a].value
  BY <1>1, <1>2
<1>4. \A a \in Addr : Allocated(f, a) => Allocated(f1, a)
  BY <1>3 DEF Allocated, IsGrowthNode
<1>5. CASE parent = NoAddr /\ node = r
  <2>1. DetachFromParent(f, parent, node) = <<>>
    BY <1>5 DEF DetachFromParent
  <2>2. Runs(SafeImages, f, <<c>> \o <<>>, f1)
    <3>1. <<c>> \o <<>> = <<c>>
      OBVIOUS
    <3> QED
      BY <1>1, <3>1
  <2>3. \A a \in R : \A i \in LinkId : f[a].link[i] = "valid" => LinkAddress(f, a, i) # node
    BY <1>0, <1>5 DEF Tree, OneWay
  <2>4. Trimmed(f, f1, R, node)
    BY <1>0, <1>3, <2>3 DEF Trimmed
  <2> QED
    BY <1>0, <1>1, <1>2, <1>3, <1>4, <2>1, <2>2, <2>4 DEF c
<1>6. CASE parent \in R /\ LinksTo(f, parent, node)
  <2>1. PICK i \in LinkId :
              /\ DetachFromParent(f, parent, node) = <<MarkLink(parent, i, "invalid")>>
              /\ f[parent].link[i] = "valid" /\ LinkAddress(f, parent, i) = node
    BY <1>6, LinkOfParent
  <2>2. parent \in Addr /\ f1[parent].link[i] = "valid"
    BY <1>0, <1>3, <1>6, <2>1
  <2>3. PICK f2 :
        /\ Stage(f2, C, R, r)
        /\ Runs(SafeImages, f1, <<MarkLink(parent, i, "invalid")>>, f2)
        /\ \A a \in Addr : Allocated(f1, a) => Allocated(f2, a)
        /\ \A a \in Addr : a # parent => f2[a] = f1[a]
        /\ f2[parent].to = f1[parent].to /\ f2[parent].key = f1[parent].key
        /\ f2[parent].value = f1[parent].value
        /\ f2[parent].link[i] = "invalid"
        /\ \A j \in LinkId : j # i => f2[parent].link[j] = f1[parent].link[j]
    BY <1>1, <1>6, <2>2, LinkInvalidated
  <2>4. Runs(SafeImages, f, <<c>> \o <<MarkLink(parent, i, "invalid")>>, f2)
    BY <1>1, <2>3, CallsJoin
  <2>5. \A a \in R : \A j \in LinkId :
            f[a].link[j] = "valid" /\ LinkAddress(f, a, j) = node => a = parent /\ j = i
    BY <1>0, <1>6, <2>1 DEF Tree, OneWay
  <2>6. Trimmed(f, f2, R, node)
    <3> SUFFICES ASSUME NEW a \in R
                 PROVE  /\ f2[a].key = f[a].key /\ f2[a].value = f[a].value /\ f2[a].to = f[a].to
                        /\ \A j \in LinkId : f2[a].link[j] = "valid" <=>
                               f[a].link[j] = "valid" /\ LinkAddress(f, a, j) # node
      BY DEF Trimmed
    <3>1. CASE a # parent
      BY <1>0, <1>3, <2>3, <2>5, <3>1
    <3>2. CASE a = parent
      BY <1>0, <1>3, <2>1, <2>3, <2>5, <3>2
    <3> QED
      BY <3>1, <3>2
  <2>7. \A a \in R : f2[a].link[0] = f[a].link[0] \/ f[a].link[0] = "valid"
    BY <1>0, <1>3, <2>1, <2>3, LinkIds
  <2>8. \A a \in Addr : a \notin R => f2[a] = f[a]
    BY <1>2, <1>6, <2>3
  <2> QED
    BY <1>4, <2>1, <2>3, <2>4, <2>6, <2>7, <2>8 DEF c
<1> QED
  BY <1>5, <1>6

LEMMA TrimRuns ==
    ASSUME NEW f, NEW C, NEW R, NEW r, Stage(f, C, R, r),
           NEW node \in R, NEW parent,
           \/ parent = NoAddr /\ node = r
           \/ parent \in R /\ LinksTo(f, parent, node),
           NEW g \in R, IsGrowthNode(f[g]), g < Capacity
    PROVE  \E h :
              /\ Runs(SafeImages, f,
                      (<<ClearFlag(node, "data_valid")>> \o DetachFromParent(f, parent, node))
                          \o CloseGrowthLink(g), h)
              /\ Stage(h, C, R, r)
              /\ Trimmed(f, h, R, node)
              /\ g + 1 \in Addr /\ g + 1 \notin R
              /\ h[g + 1] = Blank /\ Allocated(h, g + 1)
<1>0. f \in Images /\ g \in Addr /\ g \in Nat /\ g + 1 \in Addr /\ R \subseteq Addr
  BY AddrFacts DEF Stage, Tree
<1>1. PICK f2 :
              /\ Runs(SafeImages, f,
                      <<ClearFlag(node, "data_valid")>> \o DetachFromParent(f, parent, node), f2)
              /\ Stage(f2, C, R, r)
              /\ \A a \in Addr : Allocated(f, a) => Allocated(f2, a)
              /\ \A a \in Addr : a \notin R => f2[a] = f[a]
              /\ \A a \in R : f2[a].link[0] = f[a].link[0] \/ f[a].link[0] = "valid"
              /\ Trimmed(f, f2, R, node)
  BY CutOff
<1>2. f2[g].link[0] = "uninitialized" /\ f[g].link[0] = "uninitialized"
  BY <1>1 DEF IsGrowthNode
<1>3. PICK h :
      /\ Stage(h, C, R, r)
      /\ Runs(SafeImages, f2, <<MarkLink(g, 0, "invalid")>>, h)
      /\ \A a \in Addr : Allocated(f2, a) => Allocated(h, a)
      /\ \A a \in Addr : a # g => h[a] = f2[a]
      /\ h[g].to = f2[g].to /\ h[g].key = f2[g].key
      /\ h[g].value = f2[g].value
      /\ h[g].link[0] = "invalid"
      /\ \A j \in LinkId : j # 0 => h[g].link[j] = f2[g].link[j]
  BY <1>1, <1>2, LinkIds, LinkInvalidated
<1>4. Runs(SafeImages, f, (<<ClearFlag(node, "data_valid")>> \o DetachFromParent(f, parent, node))
                              \o CloseGrowthLink(g), h)
  BY <1>1, <1>3, CallsJoin DEF CloseGrowthLink
<1>5. Trimmed(f, h, R, node)
  <2> SUFFICES ASSUME NEW a \in R
               PROVE  /\ h[a].key = f[a].key /\ h[a].value = f[a].value /\ h[a].to = f[a].to
                      /\ \A j \in LinkId : h[a].link[j] = "valid" <=>
                             f[a].link[j] = "valid" /\ LinkAddress(f, a, j) # node
    BY DEF Trimmed
  <2>1. CASE a # g
    BY <1>0, <1>1, <1>3, <2>1 DEF Trimmed
  <2>2. CASE a = g
    BY <1>1, <1>2, <1>3, <2>2 DEF Trimmed
  <2> QED
    BY <2>1, <2>2
<1>6. g + 1 \notin R
  BY <1>0 DEF Stage, Allocated
<1>7. h[g + 1] = Blank
  <2>1. f[g + 1] = Blank
    BY <1>0 DEF Stage, GrowthClosed
  <2> QED
    BY <1>0, <1>1, <1>3, <1>6, <2>1
<1>8. Allocated(h, g + 1)
  <2> SUFFICES ASSUME NEW b \in Addr, b < g + 1 PROVE ~IsGrowthNode(h[b])
    BY DEF Allocated
  <2>1. Allocated(h, g)
    BY <1>0, <1>3 DEF Stage
  <2>2. CASE b = g
    BY <1>3, <2>2 DEF IsGrowthNode
  <2>3. CASE b # g
    <3>1. b < g
      BY <1>0, <2>3, AddrFacts
    <3> QED
      BY <2>1, <3>1 DEF Allocated
  <2> QED
    BY <2>2, <2>3
<1> QED
  BY <1>0, <1>3, <1>4, <1>5, <1>6, <1>7, <1>8

\* A change to a node outside the tree and the roots.
LEMMA OutsideChange ==
    ASSUME NEW f, NEW C, NEW R, NEW r, Stage(f, C, R, r),
           NEW n \in Addr, n \notin R, n \notin C, Allocated(f, n), IsGrowthNode(f[n]),
           NEW x \in Nodes, f[n].written => x.written,
           \A i \in LinkId : x.to[i] < n,
           \A i, j \in LinkId : x.to[i] = x.to[j] /\ x.to[i] # NoAddr => i = j
    PROVE  LET h == [f EXCEPT ![n] = x]
           IN  /\ Stage(h, C, R, r) /\ Allocated(h, n)
               /\ h \in SafeImages /\ h \in Images
               /\ h[n] = x /\ \A a \in Addr : a # n => h[a] = f[a]
<1> DEFINE h == [f EXCEPT ![n] = x]
<1>1. Stage(h, C, R, r) /\ Allocated(h, n)
  BY OneChange
<1>2. h[n] = x /\ \A a \in Addr : a # n => h[a] = f[a]
  BY DEF Stage, Images
<1> HIDE DEF h
<1>3. h \in SafeImages /\ h \in Images
  BY <1>1, StageIsGood DEF Stage
<1> QED
  BY <1>1, <1>2, <1>3 DEF h

\* The image h differs from f in a new root, at n.
NewRoot(f, h, n, k, links) ==
    /\ \A a \in Addr : a # n => h[a] = f[a]
    /\ h[n].written /\ h[n].active /\ h[n].value /\ h[n].key = k
    /\ h[n].next_root = NoAddr /\ IsGrowthNode(h[n])
    /\ \A i \in LinkId : h[n].link[i] = "valid" <=> i \in 1 .. Len(links)
    /\ \A i \in 1 .. Len(links) : i \in LinkId /\ h[n].to[i] = links[i]

\* write_to_address, for a new root.
LEMMA RootWritten ==
    ASSUME NEW f, NEW C, NEW R, NEW r, Stage(f, C, R, r),
           NEW n \in Addr, n \notin R, f[n] = Blank, Allocated(f, n),
           NEW k \in Keys, NEW links \in Seq(R), Len(links) < MAX_NUM_CHILD_NODES,
           IsInjective(links), \A i \in 1 .. Len(links) : links[i] < n
    PROVE  \E h :
              /\ Runs(SafeImages, f, WriteToAddress(n, k, TRUE, links), h)
              /\ Stage(h, C, R, r) /\ Allocated(h, n)
              /\ NewRoot(f, h, n, k, links)
<1>0. /\ f \in Images /\ f \in SafeImages /\ n \notin C /\ IsGrowthNode(f[n]) /\ n > 0
      /\ Len(links) \in Nat /\ DOMAIN links = 1 .. Len(links) /\ NoAddr = 0
      /\ SafeImages \in SUBSET Images /\ ~f[n].written
  <2>1. n \notin C
    BY RootsAreWritten
  <2> QED
    BY <2>1, StageIsGood, AddrFacts, BlankFacts DEF Stage, SafeImages
<1>1. \A i \in 1 .. Len(links) : i \in LinkId /\ links[i] \in Addr
  BY <1>0, LinkIds DEF LinkId, Stage, Tree
\* The header.
<1> DEFINE x1 == NewNode(k, TRUE, Len(links))
           f1 == [f EXCEPT ![n] = x1]
           c1 == [at |-> n, part |-> "header", node |-> x1]
<1>2. Writes(f, c1, x1) /\ c1.at = n
  BY <1>0, WritesHeader
<1>3. x1 \in Nodes
  BY <1>2 DEF Writes
<1>4. /\ x1.written /\ x1.active /\ x1.key = k /\ x1.next_root = NoAddr
      /\ IsGrowthNode(x1)
      /\ \A i \in LinkId : x1.to[i] = NoAddr
      /\ \A i \in LinkId : x1.link[i] = "valid" <=> i \in 1 .. Len(links)
  BY <1>0, LinkIds DEF NewNode, IsGrowthNode
<1> HIDE DEF x1
<1>5. /\ Stage(f1, C, R, r) /\ Allocated(f1, n) /\ f1 \in SafeImages /\ f1 \in Images
      /\ f1[n] = x1 /\ \A a \in Addr : a # n => f1[a] = f[a]
  <2>1. \A i \in LinkId : x1.to[i] < n
    BY <1>0, <1>4
  <2>2. \A i, j \in LinkId : x1.to[i] = x1.to[j] /\ x1.to[i] # NoAddr => i = j
    BY <1>4
  <2>3. n \notin C /\ IsGrowthNode(f[n]) /\ x1.written
    BY <1>0, <1>4
  <2> QED
    BY <1>3, <2>1, <2>2, <2>3, OutsideChange
<1>6. Runs(SafeImages, f, <<c1>>, f1)
  BY <1>0, <1>2, <1>5, WriteRuns
<1> HIDE DEF f1
\* The value.
<1> DEFINE x2 == [f1[n] EXCEPT !.value = TRUE]
           f2 == [f1 EXCEPT ![n] = x2]
           c2 == [at |-> n, part |-> "value"]
<1>7. Writes(f1, c2, x2) /\ c2.at = n
  BY <1>5, WritesValue
<1>8. x2 \in Nodes
  BY <1>7 DEF Writes
<1>9. /\ x2.written /\ x2.active /\ x2.key = k /\ x2.next_root = NoAddr /\ x2.value
      /\ IsGrowthNode(x2)
      /\ \A i \in LinkId : x2.to[i] = NoAddr
      /\ \A i \in LinkId : x2.link[i] = "valid" <=> i \in 1 .. Len(links)
  BY <1>3, <1>4, <1>5 DEF Nodes, IsGrowthNode
<1> HIDE DEF x2
<1>10. /\ Stage(f2, C, R, r) /\ Allocated(f2, n) /\ f2 \in SafeImages /\ f2 \in Images
       /\ f2[n] = x2 /\ \A a \in Addr : a # n => f2[a] = f1[a]
  <2>1. \A i \in LinkId : x2.to[i] < n
    BY <1>0, <1>9
  <2>2. \A i, j \in LinkId : x2.to[i] = x2.to[j] /\ x2.to[i] # NoAddr => i = j
    BY <1>9
  <2>3. n \notin C /\ IsGrowthNode(f1[n]) /\ x2.written
    BY <1>0, <1>4, <1>5, <1>9
  <2> QED
    BY <1>5, <1>8, <2>1, <2>2, <2>3, OutsideChange
<1>11. Runs(SafeImages, f1, <<c2>>, f2)
  BY <1>0, <1>5, <1>7, <1>10, WriteRuns
<1> HIDE DEF f2
<1>12. Runs(SafeImages, f, <<c1>> \o <<c2>>, f2)
  BY <1>6, <1>11, CallsJoin
<1>13. <<c1, c2>> = <<c1>> \o <<c2>>
  OBVIOUS
\* The links, if there are any.
<1>14. CASE links = <<>>
  <2>1. WriteToAddress(n, k, TRUE, links) = <<c1>> \o <<c2>>
    <3>1. <<c1, c2>> \o <<>> = <<c1, c2>>
      OBVIOUS
    <3> QED
      BY <1>13, <1>14, <3>1 DEF WriteToAddress, x1
  <2>2. Len(links) = 0
    BY <1>14
  <2> HIDE DEF c1, c2
  <2> QED
    <3>1. \A a \in Addr : a # n => f2[a] = f[a]
      BY <1>5, <1>10
    <3>2. /\ f2[n].written /\ f2[n].active /\ f2[n].value /\ f2[n].key = k
          /\ f2[n].next_root = NoAddr /\ IsGrowthNode(f2[n])
      BY <1>9, <1>10
    <3>3. /\ \A i \in LinkId : f2[n].link[i] = "valid" <=> i \in 1 .. Len(links)
          /\ \A i \in 1 .. Len(links) : i \in LinkId /\ f2[n].to[i] = links[i]
      BY <1>9, <1>10, <2>2
    <3> QED
      BY <1>10, <1>12, <2>1, <3>1, <3>2, <3>3 DEF NewRoot
<1>15. CASE links # <<>>
  <2> DEFINE to == [i \in LinkId |-> IF i \in DOMAIN links THEN links[i] ELSE NoAddr]
             x3 == [f2[n] EXCEPT !.to = to]
             f3 == [f2 EXCEPT ![n] = x3]
             c3 == [at |-> n, part |-> "links", to |-> to]
  <2>1. to \in [LinkId -> Addr \cup {NoAddr}]
    BY <1>0, <1>1
  <2>2. /\ \A i \in 1 .. Len(links) : to[i] = links[i]
        /\ \A i \in LinkId : i \notin 1 .. Len(links) => to[i] = NoAddr
    BY <1>0, <1>1
  <2>3. WriteToAddress(n, k, TRUE, links) = (<<c1>> \o <<c2>>) \o <<c3>>
    BY <1>13, <1>15 DEF WriteToAddress, x1
  <2> HIDE DEF to
  <2>4. Writes(f2, c3, x3) /\ c3.at = n
    <3>1. \A i \in LinkId : f2[n].to[i] = NoAddr
      BY <1>9, <1>10
    <3> QED
      BY <1>10, <2>1, <3>1, WritesLinks
  <2>5. x3 \in Nodes
    BY <2>4 DEF Writes
  <2>6. /\ x3.written /\ x3.active /\ x3.key = k /\ x3.next_root = NoAddr /\ x3.value
        /\ IsGrowthNode(x3) /\ x3.to = to
        /\ \A i \in LinkId : x3.link[i] = "valid" <=> i \in 1 .. Len(links)
    BY <1>8, <1>9, <1>10, <2>1 DEF Nodes, IsGrowthNode
  <2> HIDE DEF x3
  <2>7. \A i \in LinkId : x3.to[i] < n
    BY <1>0, <2>2, <2>6
  <2>8. \A i, j \in LinkId : x3.to[i] = x3.to[j] /\ x3.to[i] # NoAddr => i = j
    BY <1>0, <2>2, <2>6 DEF IsInjective
  <2>9. n \notin C /\ IsGrowthNode(f2[n]) /\ x3.written
    BY <1>0, <1>9, <1>10, <2>6
  <2>10. /\ Stage(f3, C, R, r) /\ Allocated(f3, n) /\ f3 \in SafeImages /\ f3 \in Images
         /\ f3[n] = x3 /\ \A a \in Addr : a # n => f3[a] = f2[a]
    BY <1>10, <2>5, <2>7, <2>8, <2>9, OutsideChange
  <2>11. Runs(SafeImages, f2, <<c3>>, f3)
    BY <1>0, <1>10, <2>4, <2>10, WriteRuns
  <2> HIDE DEF f3, c1, c2, c3
  <2>12. Runs(SafeImages, f, WriteToAddress(n, k, TRUE, links), f3)
    BY <1>12, <2>3, <2>11, CallsJoin
  <2> QED
    <3>1. \A a \in Addr : a # n => f3[a] = f[a]
      BY <1>5, <1>10, <2>10
    <3>2. /\ f3[n].written /\ f3[n].active /\ f3[n].value /\ f3[n].key = k
          /\ f3[n].next_root = NoAddr /\ IsGrowthNode(f3[n])
      BY <2>6, <2>10
    <3>3. /\ \A i \in LinkId : f3[n].link[i] = "valid" <=> i \in 1 .. Len(links)
          /\ \A i \in 1 .. Len(links) : i \in LinkId /\ f3[n].to[i] = links[i]
      BY <1>1, <2>2, <2>6, <2>10
    <3> QED
      BY <2>10, <2>12, <3>1, <3>2, <3>3 DEF NewRoot
<1> QED
  BY <1>14, <1>15

\* The tree that a new root n makes of the trimmed one: n has the children of
\* the node it replaces, and the old root.
TakenOver(f, h, r, node, n) ==
    \A c : LinksTo(h, n, c) <=> LinksTo(f, node, c) \/ (r # node /\ c = r)

LEMMA NewTree ==
    ASSUME NEW f, NEW C, NEW R, NEW r, Stage(f, C, R, r), NEW node \in R,
           NEW h, Stage(h, C, R, r), Trimmed(f, h, R, node),
           NEW n \in Addr, n \notin R, TakenOver(f, h, r, node, n), IsGrowthNode(h[n])
    PROVE  Tree(h, (R \ {node}) \cup {n}, n)
<1> DEFINE Q == (R \ {node}) \cup {n}
<1>0. /\ f \in Images /\ h \in Images /\ R \subseteq Addr /\ r \in R /\ n \in Nat
      /\ Closed(f, R) /\ OneWay(f, R, r) /\ LinksDown(f) /\ LinksDown(h)
  BY AddrFacts DEF Stage, Tree
<1>1. ~LinksTo(f, node, node)
  <2>1. node \in Addr /\ node \in Nat
    BY <1>0, AddrFacts
  <2>2. \A i \in LinkId : f[node].to[i] < node
    BY <1>0, <2>1 DEF LinksDown
  <2>3. \A i \in LinkId : LinkAddress(f, node, i) # node
    BY <2>1, <2>2 DEF LinkAddress
  <2> QED
    BY <2>3 DEF LinksTo
<1>2. \A c : LinksTo(f, node, c) => c \in R /\ c # node /\ c # r
  BY <1>0, <1>1 DEF LinksTo, Closed, OneWay
<1>3. \A c : LinksTo(h, n, c) => c \in R /\ c # node
  BY <1>0, <1>2 DEF TakenOver
\* The links of the nodes that stay.
<1>4. ASSUME NEW a \in R \ {node}, NEW i \in LinkId, h[a].link[i] = "valid"
      PROVE  /\ f[a].link[i] = "valid" /\ LinkAddress(h, a, i) = LinkAddress(f, a, i)
             /\ LinkAddress(h, a, i) \in R \ {node} /\ LinkAddress(h, a, i) # r
  <2>1. f[a].link[i] = "valid" /\ LinkAddress(f, a, i) # node /\ h[a].to = f[a].to
    BY <1>4 DEF Trimmed
  <2>2. LinkAddress(h, a, i) = LinkAddress(f, a, i)
    BY <2>1 DEF LinkAddress
  <2> QED
    BY <1>0, <2>1, <2>2 DEF Closed, OneWay
<1>5. ASSUME NEW i \in LinkId, h[n].link[i] = "valid"
      PROVE  /\ LinksTo(h, n, LinkAddress(h, n, i)) /\ i # 0
             /\ LinkAddress(h, n, i) \in R \ {node} /\ LinkAddress(h, n, i) = h[n].to[i]
  <2>1. LinksTo(h, n, LinkAddress(h, n, i)) /\ i # 0
    BY <1>5 DEF LinksTo, IsGrowthNode
  <2> QED
    BY <1>3, <2>1 DEF LinkAddress
<1>6. Closed(h, Q)
  BY <1>4, <1>5 DEF Closed
<1>7. OneWay(h, Q, n)
  <2>1. \A a \in Q : \A i \in LinkId : h[a].link[i] = "valid" => LinkAddress(h, a, i) # n
    BY <1>4, <1>5
  <2>2. ASSUME NEW a \in R \ {node}, NEW i \in LinkId, h[a].link[i] = "valid",
               NEW b \in R \ {node}, NEW j \in LinkId, h[b].link[j] = "valid",
               LinkAddress(h, a, i) = LinkAddress(h, b, j)
        PROVE  a = b /\ i = j
    BY <1>0, <1>4, <2>2 DEF OneWay
  <2>3. ASSUME NEW i \in LinkId, h[n].link[i] = "valid",
               NEW j \in LinkId, h[n].link[j] = "valid",
               LinkAddress(h, n, i) = LinkAddress(h, n, j)
        PROVE  i = j
    <3>1. h[n].to[i] = h[n].to[j] /\ h[n].to[i] \in R
      BY <1>5, <2>3
    <3>2. h[n].to[i] # NoAddr
      BY <1>0, <3>1, AddrFacts
    <3> QED
      BY <1>0, <3>1, <3>2 DEF LinksDown
  <2>4. ASSUME NEW a \in R \ {node}, NEW i \in LinkId, h[a].link[i] = "valid",
               NEW j \in LinkId, h[n].link[j] = "valid",
               LinkAddress(h, a, i) = LinkAddress(h, n, j)
        PROVE  FALSE
    <3> DEFINE c == LinkAddress(h, a, i)
    <3>1. f[a].link[i] = "valid" /\ LinkAddress(f, a, i) = c /\ c # r
      BY <1>4, <2>4
    <3>2. LinksTo(h, n, c)
      BY <1>5, <2>4
    <3> HIDE DEF c
    <3>3. LinksTo(f, node, c)
      BY <3>1, <3>2 DEF TakenOver
    <3>4. PICK m \in LinkId : f[node].link[m] = "valid" /\ LinkAddress(f, node, m) = c
      BY <3>3 DEF LinksTo
    <3> QED
      BY <1>0, <3>1, <3>4 DEF OneWay
  <2>5. ASSUME NEW a \in Q, NEW b \in Q, NEW i \in LinkId, NEW j \in LinkId,
               h[a].link[i] = "valid", h[b].link[j] = "valid",
               LinkAddress(h, a, i) = LinkAddress(h, b, j)
        PROVE  a = b /\ i = j
    <3>1. CASE a # n /\ b # n
      BY <2>2, <2>5, <3>1
    <3>2. CASE a = n /\ b = n
      BY <2>3, <2>5, <3>2
    <3>3. CASE a # n /\ b = n
      BY <2>4, <2>5, <3>3
    <3>4. CASE a = n /\ b # n
      BY <2>4, <2>5, <3>4
    <3> QED
      BY <3>1, <3>2, <3>3, <3>4
  <2> QED
    BY <2>1, <2>5 DEF OneWay
<1> QED
  BY <1>0, <1>6, <1>7 DEF Tree

\* Whatever was reached before still is, but for the node that was replaced.
LEMMA StillReached ==
    ASSUME NEW f, NEW C, NEW R, NEW r, Stage(f, C, R, r), NEW node \in R,
           NEW h, Trimmed(f, h, R, node),
           NEW n \in Addr, TakenOver(f, h, r, node, n),
           NEW a, Reached(f, r, a), a # node
    PROVE  a \in R /\ Reached(h, n, a)
<1>0. f \in Images /\ R \subseteq Addr /\ r \in R /\ Closed(f, R)
  BY DEF Stage, Tree
<1>1. a \in R
  BY <1>0 DEF Reached
<1>2. ASSUME NEW S \in SUBSET Addr, n \in S, Closed(h, S) PROVE a \in S
  <2> DEFINE T == (S \cap R) \cup {node}
  <2>1. \A c : LinksTo(h, n, c) => c \in S
    BY <1>2 DEF LinksTo, Closed
  <2>2. \A c : LinksTo(f, node, c) => c \in T
    BY <1>0, <2>1 DEF TakenOver, LinksTo, Closed
  <2>3. r \in T
    BY <1>0, <2>1 DEF TakenOver
  <2>4. ASSUME NEW b \in T, NEW i \in LinkId, f[b].link[i] = "valid"
        PROVE  LinkAddress(f, b, i) \in T
    <3>1. CASE b = node
      BY <2>2, <2>4, <3>1 DEF LinksTo
    <3>2. CASE b \in S \cap R /\ LinkAddress(f, b, i) # node
      <4>1. h[b].link[i] = "valid" /\ h[b].to = f[b].to
        BY <2>4, <3>2 DEF Trimmed
      <4>2. LinkAddress(h, b, i) = LinkAddress(f, b, i)
        BY <4>1 DEF LinkAddress
      <4> QED
        BY <1>0, <1>2, <2>4, <3>2, <4>1, <4>2 DEF Closed
    <3> QED
      BY <3>1, <3>2
  <2>5. Closed(f, T) /\ T \in SUBSET Addr
    BY <1>0, <2>4 DEF Closed
  <2>6. a \in T
    BY <2>3, <2>5 DEF Reached
  <2> QED
    BY <2>6
<1> QED
  BY <1>1, <1>2 DEF Reached

\* The images of a root's replacement share their links: only fields of the old
\* root that say nothing about the tree's links change.
LEMMA SameLinks ==
    ASSUME NEW h \in Images, NEW r \in Addr,
           GrowthClosed(h), LinksDown(h), h[1].written, h[r].written,
           NEW x \in Nodes, x.written, x.link = h[r].link, x.to = h[r].to
    PROVE  LET g == [h EXCEPT ![r] = x]
           IN  /\ g \in Images /\ g[r] = x /\ \A a \in Addr : a # r => g[a] = h[a]
               /\ GrowthClosed(g) /\ LinksDown(g) /\ g[1].written
               /\ \A a \in Addr : g[a].link = h[a].link /\ g[a].to = h[a].to
               /\ \A a \in Addr : Allocated(h, a) => Allocated(g, a)
<1> DEFINE g == [h EXCEPT ![r] = x]
<1>1. g \in Images /\ g[r] = x /\ \A a \in Addr : a # r => g[a] = h[a]
  BY DEF Images
<1> HIDE DEF g
<1>2. \A a \in Addr : g[a].link = h[a].link /\ g[a].to = h[a].to
  BY <1>1
<1>3. LinksDown(g)
  BY <1>2 DEF LinksDown
<1>4. \A a \in Addr : IsGrowthNode(g[a]) <=> IsGrowthNode(h[a])
  BY <1>2 DEF IsGrowthNode
<1>5. GrowthClosed(g)
  BY <1>1, <1>4, BlankFacts DEF GrowthClosed
<1>6. \A a \in Addr : Allocated(h, a) => Allocated(g, a)
  BY <1>4 DEF Allocated
<1>7. g[1].written
  BY <1>1, AddrFacts
<1>8. /\ g \in Images /\ g[r] = x /\ \A a \in Addr : a # r => g[a] = h[a]
      /\ GrowthClosed(g) /\ LinksDown(g) /\ g[1].written
      /\ \A a \in Addr : g[a].link = h[a].link /\ g[a].to = h[a].to
      /\ \A a \in Addr : Allocated(h, a) => Allocated(g, a)
  BY <1>1, <1>2, <1>3, <1>5, <1>6, <1>7
<1> QED
  BY <1>8 DEF g

\* point_next_root_link_to.
LEMMA RootReplaced ==
    ASSUME NEW f, NEW C, NEW R, NEW r, Stage(f, C, R, r), NEW node \in R,
           NEW h, Stage(h, C, R, r), Trimmed(f, h, R, node),
           NEW n \in Addr, n \notin R, Allocated(h, n), \A a \in R : a < n,
           TakenOver(f, h, r, node, n),
           IsGrowthNode(h[n]), h[n].written, h[n].active, h[n].value,
           h[n].next_root = NoAddr,
           NEW k \in Keys, h[n].key = k
    PROVE  \E g :
              /\ Runs(SafeImages, h, PointNextRootLinkTo(r, n), g)
              /\ Stage(g, C \cup {n}, (R \ {node}) \cup {n}, n)
              /\ \A l \in Latests : Keeps(f, r, l) /\ f[node].key = k =>
                     Keeps(g, n, [l EXCEPT ![k] = n])
<1> DEFINE Q == (R \ {node}) \cup {n}
<1>0. /\ h \in Images /\ R \subseteq Addr /\ r \in R /\ r \in Addr /\ h[r] \in Nodes
      /\ r < n /\ n # r /\ NoAddr \notin Addr /\ 1 \in Addr
      /\ GrowthClosed(h) /\ LinksDown(h) /\ Chain(h, C, r) /\ h[1].written /\ h[r].written
      /\ h[r].next_root = NoAddr /\ SafeImages \in SUBSET Images
      /\ h \in SafeImages
  BY AddrFacts, StageIsGood DEF Stage, Tree, Images, SafeImages
<1>1. n \notin C /\ C \subseteq Addr /\ r \in C
  BY <1>0 DEF Chain
<1>2. Tree(h, Q, n)
  BY NewTree
<1> HIDE DEF Q
\* The old root is not active any more.
<1> DEFINE x1 == [h[r] EXCEPT !.active = FALSE]
           g1 == [h EXCEPT ![r] = x1]
           c1 == ClearFlag(r, "active")
<1>4. Writes(h, c1, x1) /\ c1.at = r
  BY <1>0, WritesActive DEF ClearFlag
<1>5. x1 \in Nodes
  BY <1>4 DEF Writes
<1>6. /\ x1.written /\ x1.link = h[r].link /\ x1.to = h[r].to /\ ~x1.active
      /\ x1.next_root = NoAddr /\ x1.key = h[r].key /\ x1.value = h[r].value
  BY <1>0 DEF Nodes
<1> HIDE DEF x1
<1>7. /\ g1 \in Images /\ g1[r] = x1 /\ \A a \in Addr : a # r => g1[a] = h[a]
      /\ GrowthClosed(g1) /\ LinksDown(g1) /\ g1[1].written
  BY <1>0, <1>5, <1>6, SameLinks
<1>8. Chain(g1, C, NoAddr)
  <2> HIDE DEF g1
  <2>1. \A a \in C : a # r =>
            ~g1[a].active /\ g1[a].next_root \in C /\ g1[a].next_root > a
    BY <1>0, <1>1, <1>7 DEF Chain
  <2>2. ~g1[r].active /\ g1[r].next_root = NoAddr
    BY <1>6, <1>7
  <2> QED
    BY <1>0, <1>1, <2>1, <2>2 DEF Chain
<1>9. g1 \in SafeImages
  <2> HIDE DEF g1
  <2> QED
    BY <1>7, <1>8 DEF SafeImages, Safe
<1>10. Runs(SafeImages, h, <<c1>>, g1)
  BY <1>0, <1>4, <1>9, WriteRuns
<1>11. g1 = [h EXCEPT ![r] = x1]
  OBVIOUS
<1> HIDE DEF g1, c1
\* It links to the new one.
<1> DEFINE x2 == [g1[r] EXCEPT !.next_root = n]
           g2 == [h EXCEPT ![r] = x2]
           c2 == [at |-> r, part |-> "next_root", to |-> n]
<1>12. Writes(g1, c2, x2) /\ c2.at = r
  BY <1>0, <1>6, <1>7, WritesNextRoot
<1>13. x2 \in Nodes
  BY <1>12 DEF Writes
<1>14. /\ x2.written /\ x2.link = h[r].link /\ x2.to = h[r].to /\ ~x2.active
       /\ x2.next_root = n /\ x2.key = h[r].key /\ x2.value = h[r].value
  BY <1>0, <1>5, <1>6, <1>7 DEF Nodes
<1> HIDE DEF x2
<1>15. g2 = [g1 EXCEPT ![r] = x2]
  BY <1>0, <1>11 DEF Images
<1>16. /\ g2 \in Images /\ g2[r] = x2 /\ \A a \in Addr : a # r => g2[a] = h[a]
       /\ GrowthClosed(g2) /\ LinksDown(g2) /\ g2[1].written
       /\ \A a \in Addr : g2[a].link = h[a].link /\ g2[a].to = h[a].to
       /\ \A a \in Addr : Allocated(h, a) => Allocated(g2, a)
  BY <1>0, <1>13, <1>14, SameLinks
<1>17. Stage(g2, C \cup {n}, Q, n)
  <2> HIDE DEF g2, x1
  <2>1. Chain(g2, C \cup {n}, n)
    <3>1. \A a \in C : a # r =>
              ~g2[a].active /\ g2[a].next_root \in C /\ g2[a].next_root > a
      BY <1>0, <1>1, <1>16 DEF Chain
    <3>2. ~g2[r].active /\ g2[r].next_root = n /\ n > r
      BY <1>0, <1>14, <1>16, AddrFacts
    <3>3. g2[n].active
      BY <1>0, <1>16
    <3>4. 1 \in C
      BY <1>0 DEF Chain
    <3> QED
      BY <1>0, <1>1, <3>1, <3>2, <3>3, <3>4 DEF Chain
  <2>2. Tree(g2, Q, n)
    <3>1. Q \subseteq Addr
      BY <1>2 DEF Tree
    <3>2. \A a \in Q : \A i \in LinkId :
              /\ g2[a].link[i] = h[a].link[i]
              /\ LinkAddress(g2, a, i) = LinkAddress(h, a, i)
      BY <1>16, <3>1 DEF LinkAddress
    <3>3. Closed(g2, Q)
      BY <1>2, <3>2 DEF Closed, Tree
    <3>4. OneWay(g2, Q, n)
      BY <1>2, <3>2 DEF OneWay, Tree
    <3> QED
      BY <1>2, <3>3, <3>4 DEF Tree
  <2>3. \A a \in Q : Allocated(g2, a)
    <3>1. \A a \in Q : a \in Addr /\ Allocated(h, a)
      BY <1>0 DEF Stage, Q
    <3> QED
      BY <1>16, <3>1
  <2>4. g2[n].written /\ g2[n].next_root = NoAddr
    BY <1>0, <1>16
  <2> QED
    BY <1>16, <2>1, <2>2, <2>3, <2>4 DEF Stage
<1>18. g2 \in SafeImages
  BY <1>17, StageIsGood
<1>19. Runs(SafeImages, g1, <<c2>>, g2)
  <2>1. [g1 EXCEPT ![r] = x2] \in SafeImages
    BY <1>15, <1>18
  <2>2. Runs(SafeImages, g1, <<c2>>, [g1 EXCEPT ![r] = x2])
    BY <1>0, <1>9, <1>12, <2>1, WriteRuns
  <2> QED
    BY <1>15, <2>2
<1> HIDE DEF g2
<1>20. Runs(SafeImages, h, PointNextRootLinkTo(r, n), g2)
  <2>1. PointNextRootLinkTo(r, n) = <<c1>> \o <<c2>>
    BY DEF PointNextRootLinkTo, c1
  <2> HIDE DEF c2
  <2> QED
    BY <1>10, <1>19, <2>1, CallsJoin
<1>21. ASSUME NEW l \in Latests, Keeps(f, r, l), f[node].key = k
       PROVE  Keeps(g2, n, [l EXCEPT ![k] = n])
  <2> DEFINE m == [l EXCEPT ![k] = n]
  <2>1. m[k] = n /\ \A j \in Keys : j # k => m[j] = l[j]
    BY DEF Latests
  <2> HIDE DEF m
  <2>2. \A a : Reached(h, n, a) => Reached(g2, n, a)
    <3>1. ASSUME NEW S \in SUBSET Addr, Closed(g2, S) PROVE Closed(h, S)
      <4>1. \A a \in S : \A i \in LinkId :
                g2[a].link[i] = h[a].link[i] /\ LinkAddress(g2, a, i) = LinkAddress(h, a, i)
        BY <1>16 DEF LinkAddress
      <4> QED
        BY <3>1, <4>1 DEF Closed
    <3> QED
      BY <3>1 DEF Reached
  <2>3. g2[n] = h[n] /\ IsGrowthNode(g2[n])
    BY <1>0, <1>16
  <2>4. HasGrowth(g2, n)
    BY <2>3, RootIsReached DEF HasGrowth
  <2>5. ASSUME NEW j \in Keys, m[j] # NoAddr
        PROVE  m[j] \in Addr /\ Reached(g2, n, m[j]) /\ g2[m[j]].key = j /\ g2[m[j]].value
    <3>1. CASE j = k
      BY <2>1, <2>3, <3>1, RootIsReached
    <3>2. CASE j # k
      <4> DEFINE a == l[j]
      <4>1. m[j] = a /\ a \in Addr /\ Reached(f, r, a) /\ f[a].key = j /\ f[a].value
        BY <1>21, <2>1, <2>5, <3>2 DEF Keeps, Holds
      <4> HIDE DEF a
      <4>2. a # node
        BY <1>21, <3>2, <4>1
      <4>3. a \in R /\ Reached(h, n, a)
        BY <4>1, <4>2, StillReached
      <4>4. h[a].key = j /\ h[a].value
        BY <4>1, <4>3 DEF Trimmed
      <4>5. g2[a].key = j /\ g2[a].value
        BY <1>14, <1>16, <4>1, <4>4
      <4> QED
        BY <2>2, <4>1, <4>3, <4>5
    <3> QED
      BY <3>1, <3>2
  <2>6. Keeps(g2, n, m)
    BY <2>4, <2>5 DEF Keeps, Holds
  <2> QED
    BY <2>6 DEF m
<1> QED
  BY <1>17, <1>20, <1>21 DEF Q

\* A traversal visits each node once, and those that valid links lead to.
LEMMA Visits ==
    ASSUME NEW f, NEW C, NEW R, NEW r, Stage(f, C, R, r)
    PROVE  /\ Traversal(f, r) \in Seq(R)
           /\ IsInjective(Traversal(f, r))
           /\ \A a : a \in ToSet(Traversal(f, r)) <=> Reached(f, r, a)
           /\ \A a \in ToSet(Traversal(f, r)) : a \in R
<1> DEFINE T == Traversal(f, r)
<1>1. f \in Images /\ Tree(f, R, r) /\ f[1].written /\ r # NoAddr /\ R \subseteq Addr
  BY AddrFacts DEF Stage, Tree
<1>2. T \in Seq(R) /\ IsInjective(T) /\ r \in ToSet(T) /\ Closed(f, ToSet(T))
  BY <1>1, TraversalOfTree
<1>3. \A s, S : s \in Seq(S) => \A a \in ToSet(s) : a \in S
  BY DEF ToSet
<1>4. \A a \in ToSet(T) : a \in R
  BY <1>2, <1>3
<1>5. ASSUME NEW a, Reached(f, r, a) PROVE a \in ToSet(T)
  <2>1. ToSet(T) \in SUBSET Addr
    BY <1>1, <1>4
  <2> HIDE DEF T
  <2> QED
    BY <1>2, <1>5, <2>1 DEF Reached
<1>6. ASSUME NEW a \in ToSet(T) PROVE Reached(f, r, a)
  <2> SUFFICES ASSUME NEW S \in SUBSET Addr, r \in S, Closed(f, S) PROVE a \in S
    BY DEF Reached
  <2> DEFINE Q == R \cap S
  <2>1. Tree(f, Q, r)
    BY <1>1 DEF Tree, Closed, OneWay
  <2> HIDE DEF Q
  <2>2. T \in Seq(Q)
    BY <1>1, <2>1, TraversalOfTree
  <2>3. a \in Q
    BY <1>3, <2>2
  <2> QED
    BY <2>3 DEF Q
<1> QED
  BY <1>2, <1>4, <1>5, <1>6

\* The links that a new root takes over.
LEMMA LinksOfNewRoot ==
    ASSUME NEW f, NEW C, NEW R, NEW r, Stage(f, C, R, r), NEW node \in R,
           TakesOver(f, r, node)
    PROVE  LET links == LinksTakenOver(f, r, node)
           IN  /\ links \in Seq(R) /\ Len(links) < MAX_NUM_CHILD_NODES
               /\ IsInjective(links)
               /\ \A c : c \in ToSet(links) <=> LinksTo(f, node, c) \/ (r # node /\ c = r)
<1> DEFINE kids == ValidChildren(f, node)
           links == LinksTakenOver(f, r, node)
<1>0. f \in Images /\ Tree(f, R, r) /\ r \in R
  BY DEF Stage, Tree
<1>1. kids \in Seq(R) /\ IsInjective(kids) /\ \A c : c \in ToSet(kids) <=> LinksTo(f, node, c)
  BY <1>0, ChildrenInTree
<1>2. Len(kids) <= MaxLinksTakenOver(r, node) /\ Len(kids) \in Nat
  BY <1>1 DEF TakesOver
<1> HIDE DEF kids
<1>3. CASE r = node
  <2>1. links = kids
    <3>1. kids \o <<>> = kids
      BY <1>1
    <3> QED
      BY <1>3, <3>1 DEF LinksTakenOver, kids
  <2>2. Len(kids) < MAX_NUM_CHILD_NODES
    BY <1>2, <1>3, LinkIds DEF MaxLinksTakenOver
  <2> HIDE DEF links
  <2>3. links \in Seq(R) /\ Len(links) < MAX_NUM_CHILD_NODES /\ IsInjective(links)
        /\ \A c : c \in ToSet(links) <=> LinksTo(f, node, c) \/ (r # node /\ c = r)
    BY <1>1, <1>3, <2>1, <2>2
  <2> QED
    BY <2>3 DEF links
<1>4. CASE r # node
  <2>1. links = kids \o <<r>> /\ <<r>> \in Seq(R) /\ Len(<<r>>) = 1
    BY <1>0, <1>4 DEF LinksTakenOver, kids
  <2>2. ToSet(<<r>>) = {r} /\ IsInjective(<<r>>)
    BY DEF ToSet, IsInjective
  <2>3. r \notin ToSet(kids)
    BY <1>0, <1>1 DEF LinksTo, Tree, OneWay
  <2>4. /\ links \in Seq(R) /\ IsInjective(links)
        /\ ToSet(links) = ToSet(kids) \cup {r}
    <3> DEFINE e == <<r>>
    <3>1. e \in Seq(R) /\ ToSet(e) = {r} /\ IsInjective(e) /\ links = kids \o e
      BY <2>1, <2>2
    <3> HIDE DEF e, links
    <3>2. ToSet(kids) \cap ToSet(e) = {}
      BY <2>3, <3>1
    <3> QED
      BY <1>1, <3>1, <3>2, JoinedSet
  <2>5. Len(links) = Len(kids) + 1
    BY <1>1, <2>1
  <2>6. Len(kids) + 1 < MAX_NUM_CHILD_NODES
    BY <1>2, <1>4, LinkIds DEF MaxLinksTakenOver
  <2> HIDE DEF links
  <2>7. links \in Seq(R) /\ Len(links) < MAX_NUM_CHILD_NODES /\ IsInjective(links)
        /\ \A c : c \in ToSet(links) <=> LinksTo(f, node, c) \/ (r # node /\ c = r)
    BY <1>1, <1>4, <2>4, <2>5, <2>6
  <2> QED
    BY <2>7 DEF links
<1> QED
  BY <1>3, <1>4

\* add_edit_key_value finds the parent of the node it replaces, unless that is the
\* root.
LEMMA ParentFound ==
    ASSUME NEW f, NEW C, NEW R, NEW r, Stage(f, C, R, r),
           NEW k, NEW node, node = FindNode(f, r, k), node # NoAddr
    PROVE  LET parent == FindParent(f, r, node)
           IN  /\ node \in R /\ Reached(f, r, node) /\ f[node].key = k
               /\ \/ parent = NoAddr /\ node = r
                  \/ parent \in R /\ LinksTo(f, parent, node)
<1> DEFINE T == Traversal(f, r)
           parent == FindParent(f, r, node)
<1>0. f \in Images /\ R \subseteq Addr /\ r \in R /\ Tree(f, R, r)
  BY DEF Stage, Tree
<1>1. /\ T \in Seq(R) /\ \A a : a \in ToSet(T) <=> Reached(f, r, a)
      /\ \A a \in ToSet(T) : a \in R
  BY Visits
<1>2. node \in ToSet(T) /\ f[node].key = k
  BY <1>0, <1>1, Searches
<1>3. node \in R
  BY <1>1, <1>2
<1>4. IF parent = NoAddr
        THEN \A b \in ToSet(T) : node \notin ToSet(ValidChildren(f, b))
        ELSE parent \in ToSet(T) /\ node \in ToSet(ValidChildren(f, parent))
  BY <1>0, <1>1, Searches
<1> HIDE DEF T, parent
<1>5. \/ parent = NoAddr /\ node = r
      \/ parent \in R /\ LinksTo(f, parent, node)
  <2>1. CASE parent = NoAddr
    <3> SUFFICES ASSUME node # r PROVE FALSE
      BY <2>1
    <3>1. \A b \in ToSet(T) : ~LinksTo(f, b, node)
      BY <1>0, <1>1, <1>4, <2>1, ChildrenInTree
    <3> DEFINE S == ToSet(T) \ {node}
    <3>2. r \in S /\ S \in SUBSET Addr
      BY <1>0, <1>1, RootIsReached
    <3>3. Closed(f, S)
      <4> SUFFICES ASSUME NEW a \in S, NEW i \in LinkId, f[a].link[i] = "valid"
                   PROVE  LinkAddress(f, a, i) \in S
        BY DEF Closed
      <4>1. LinkAddress(f, a, i) # node
        BY <3>1 DEF LinksTo
      <4>2. Reached(f, r, LinkAddress(f, a, i))
        BY <1>1 DEF Reached, Closed
      <4> QED
        BY <1>1, <4>1, <4>2
    <3> QED
      BY <1>1, <1>2, <3>2, <3>3 DEF Reached
  <2>2. CASE parent # NoAddr
    <3>1. parent \in R /\ node \in ToSet(ValidChildren(f, parent))
      BY <1>1, <1>4, <2>2
    <3> QED
      BY <1>0, <3>1, ChildrenInTree
  <2> QED
    BY <2>1, <2>2
<1> QED
  BY <1>1, <1>2, <1>3, <1>5 DEF parent

\* The branch of update_node that puts a new root above the old one.
LEMMA EditRuns ==
    ASSUME NEW f, NEW C, NEW R, NEW r, Stage(f, C, R, r),
           NEW g \in R, IsGrowthNode(f[g]), g < Capacity,
           NEW k \in Keys, NEW node, node = FindNode(f, r, k), node # NoAddr,
           TakesOver(f, r, node)
    PROVE  \E h, C2, R2, r2 :
              /\ Runs(SafeImages, f, ReplaceByNewRoot(f, k, r, g, node), h)
              /\ Stage(h, C2, R2, r2)
              /\ \A l \in Latests : Keeps(f, r, l) => Keeps(h, r2, [l EXCEPT ![k] = g + 1])
<1> DEFINE T == Traversal(f, r)
           parent == FindParent(f, r, node)
           links == LinksTakenOver(f, r, node)
           n == g + 1
<1>0. f \in Images /\ R \subseteq Addr /\ r \in R /\ Tree(f, R, r) /\ g \in Addr /\ g \in Nat
  BY AddrFacts DEF Stage, Tree
<1>1. /\ T \in Seq(R) /\ \A a : a \in ToSet(T) <=> Reached(f, r, a)
      /\ \A a \in ToSet(T) : a \in R
  BY Visits
<1>2. f[node].key = k /\ node \in ToSet(T)
  BY <1>1, ParentFound
<1>3. node \in R
  BY ParentFound
<1>5. \/ parent = NoAddr /\ node = r
      \/ parent \in R /\ LinksTo(f, parent, node)
  BY ParentFound
<1> HIDE DEF T, parent, links
\* The old node is cut off.
<1> DEFINE trim == (<<ClearFlag(node, "data_valid")>> \o DetachFromParent(f, parent, node))
                       \o CloseGrowthLink(g)
<1>6. PICK f1 :
         /\ Runs(SafeImages, f, trim, f1)
         /\ Stage(f1, C, R, r) /\ Trimmed(f, f1, R, node)
         /\ n \in Addr /\ n \notin R /\ f1[n] = Blank /\ Allocated(f1, n)
  BY <1>3, <1>5, TrimRuns
<1> HIDE DEF trim
\* The new root is written.
<1>7. /\ links \in Seq(R) /\ Len(links) < MAX_NUM_CHILD_NODES /\ IsInjective(links)
      /\ \A c : c \in ToSet(links) <=> LinksTo(f, node, c) \/ (r # node /\ c = r)
  BY <1>3, LinksOfNewRoot DEF links
<1>8. \A a \in R : a < n
  <2> SUFFICES ASSUME NEW a \in R, g < a PROVE FALSE
    BY <1>0, AddrFacts
  <2>1. Allocated(f, a)
    BY DEF Stage
  <2> QED
    BY <1>0, <2>1 DEF Allocated
<1> HIDE DEF n
<1>9. \A i \in 1 .. Len(links) : links[i] < n
  BY <1>7, <1>8
<1>10. PICK f2 :
         /\ Runs(SafeImages, f1, WriteToAddress(n, k, TRUE, links), f2)
         /\ Stage(f2, C, R, r) /\ Allocated(f2, n)
         /\ NewRoot(f1, f2, n, k, links)
  <2>1. Len(links) < MAX_NUM_CHILD_NODES /\ IsInjective(links) /\ links \in Seq(R)
    BY <1>7
  <2>2. \A i \in 1 .. Len(links) : links[i] < n
    BY <1>9
  <2>3. n \in Addr /\ n \notin R /\ f1[n] = Blank /\ Allocated(f1, n) /\ Stage(f1, C, R, r)
    BY <1>6
  <2> QED
    BY <2>1, <2>2, <2>3, RootWritten
<1>11. Trimmed(f, f2, R, node)
  <2>1. \A a \in R : f2[a] = f1[a]
    BY <1>0, <1>6, <1>10 DEF NewRoot
  <2> QED
    BY <1>6, <2>1 DEF Trimmed
<1>12. TakenOver(f, f2, r, node, n)
  <2>1. \A c : c \in ToSet(links) <=> \E i \in 1 .. Len(links) : links[i] = c
    BY <1>7 DEF ToSet
  <2>2. 0 \notin 1 .. Len(links)
    BY <1>7
  <2>3. \A c : LinksTo(f2, n, c) <=> \E i \in 1 .. Len(links) : links[i] = c
    BY <1>10, <2>2 DEF LinksTo, LinkAddress, NewRoot
  <2> QED
    BY <1>7, <2>1, <2>3 DEF TakenOver
\* It is made the active one.
<1>13. PICK f3 :
         /\ Runs(SafeImages, f2, PointNextRootLinkTo(r, n), f3)
         /\ Stage(f3, C \cup {n}, (R \ {node}) \cup {n}, n)
         /\ \A l \in Latests : Keeps(f, r, l) /\ f[node].key = k =>
                Keeps(f3, n, [l EXCEPT ![k] = n])
  <2>1. /\ Stage(f2, C, R, r) /\ Allocated(f2, n)
        /\ f2[n].written /\ f2[n].active /\ f2[n].value /\ f2[n].key = k
        /\ f2[n].next_root = NoAddr /\ IsGrowthNode(f2[n])
    BY <1>10 DEF NewRoot
  <2>2. n \in Addr /\ n \notin R
    BY <1>6
  <2> QED
    BY <1>3, <1>8, <1>11, <1>12, <2>1, <2>2, RootReplaced
<1>14. Runs(SafeImages, f,
            (trim \o WriteToAddress(n, k, TRUE, links)) \o PointNextRootLinkTo(r, n), f3)
  BY <1>6, <1>10, <1>13, CallsJoin
<1>15. ReplaceByNewRoot(f, k, r, g, node)
         = (trim \o WriteToAddress(n, k, TRUE, links)) \o PointNextRootLinkTo(r, n)
  BY DEF ReplaceByNewRoot, trim, parent, links, n
<1> QED
  BY <1>2, <1>13, <1>14, <1>15 DEF n

-----------------------------------------------------------------------------
(***************************************************************************)
(* The states of the device.                                               *)
(***************************************************************************)
LEMMA BlankIsSafe ==
    AllBlank \in Images /\ Safe(AllBlank) /\ ~AllBlank[1].written
<1> DEFINE f == AllBlank
<1>0. 1 \in Addr /\ Addr \subseteq Nat \ {0} /\ NoAddr = 0 /\ Blank \in Nodes
  BY AddrFacts, BlankFacts
<1>1. f \in Images /\ \A a \in Addr : f[a] = Blank
  BY <1>0 DEF Images, AllBlank
<1>2. f = AllBlank
  OBVIOUS
<1> HIDE DEF f
<1>3. GrowthClosed(f)
  BY <1>1 DEF GrowthClosed
<1>4. LinksDown(f)
  <2>1. \A a \in Addr : \A i \in LinkId : f[a].to[i] = NoAddr
    BY <1>1, BlankFacts
  <2> QED
    BY <1>0, <2>1 DEF LinksDown
<1>5. ~f[1].written
  BY <1>0, <1>1, BlankFacts
<1> QED
  BY <1>1, <1>2, <1>3, <1>4, <1>5 DEF Safe

\* What the boot code finds in an image that a reset may leave behind.
LEMMA BootFinds ==
    ASSUME NEW f, Safe(f), f[1].written
    PROVE  LET root == FindActiveRootNode(f)
           IN  \/ root = NoAddr /\ Traversal(f, root) = <<>>
               \/ \E C, R : /\ Stage(f, C, R, root) /\ root # NoAddr
                            /\ \A l : Kept(f, l) => Keeps(f, root, l)
<1>0. f \in Images
  BY DEF Safe
<1>1. \A C, r : Chain(f, C, r) => FindActiveRootNode(f) = r
  BY <1>0, RootOfChain
<1>2. \A C, R, r : Stage(f, C, R, r) => Chain(f, C, r) /\ r # NoAddr
  BY AddrFacts DEF Stage, Tree
<1>3. CASE \E C : Chain(f, C, NoAddr)
  <2>1. FindActiveRootNode(f) = NoAddr
    BY <1>1, <1>3
  <2> QED
    BY <2>1 DEF Traversal
<1>4. CASE \E C, R, r : Stage(f, C, R, r)
  <2>1. PICK C, R, r : Stage(f, C, R, r)
    BY <1>4
  <2>2. FindActiveRootNode(f) = r /\ r # NoAddr
    BY <1>1, <1>2, <2>1
  <2>3. ASSUME NEW l, Kept(f, l) PROVE Keeps(f, r, l)
    BY <1>1, <1>2, <2>2, <2>3 DEF Kept
  <2> QED
    BY <2>1, <2>2, <2>3
<1> QED
  BY <1>3, <1>4 DEF Safe

\* It finds no growth node, or the last node of the sector.
LEMMA GrowthFound ==
    ASSUME NEW f, NEW C, NEW R, NEW r, Stage(f, C, R, r)
    PROVE  LET g == FindGrowthNode(f, r)
           IN  IF g = NoAddr THEN ~HasGrowth(f, r)
                             ELSE g \in R /\ g \in Addr /\ Reached(f, r, g) /\ IsGrowthNode(f[g])
<1> DEFINE g == FindGrowthNode(f, r)
           T == Traversal(f, r)
<1>1. /\ T \in Seq(R) /\ f \in Images /\ R \in SUBSET Addr
      /\ \A a : a \in ToSet(T) <=> Reached(f, r, a)
      /\ \A a \in ToSet(T) : a \in R
  BY Visits DEF Stage, Tree
<1>2. IF g = NoAddr THEN \A b \in ToSet(T) : ~IsGrowthNode(f[b])
                    ELSE g \in ToSet(T) /\ IsGrowthNode(f[g])
  BY <1>1, Searches
<1> HIDE DEF g, T
<1>3. IF g = NoAddr THEN ~HasGrowth(f, r)
                    ELSE g \in R /\ g \in Addr /\ Reached(f, r, g) /\ IsGrowthNode(f[g])
  BY <1>1, <1>2 DEF HasGrowth
<1> QED
  BY <1>3 DEF g

LEMMA NothingFound ==
    ASSUME NEW f, Safe(f), NEW root, Traversal(f, root) = <<>>
    PROVE  FindGrowthNode(f, root) = NoAddr
<1>1. f \in Images /\ {} \in SUBSET Addr /\ Traversal(f, root) \in Seq({})
  BY DEF Safe
<1>2. LET a == FindGrowthNode(f, root) IN a = NoAddr \/ a \in ToSet(Traversal(f, root))
  BY <1>1, Searches
<1>3. ToSet(Traversal(f, root)) = {}
  BY DEF ToSet
<1> QED
  BY <1>2, <1>3

LEMMA SearchTypes ==
    ASSUME NEW f, Safe(f), f[1].written
    PROVE  /\ FindActiveRootNode(f) \in Addr \cup {NoAddr}
           /\ FindGrowthNode(f, FindActiveRootNode(f)) \in Addr \cup {NoAddr}
<1> DEFINE root == FindActiveRootNode(f)
<1>1. \/ root = NoAddr /\ Traversal(f, root) = <<>>
      \/ \E C, R : Stage(f, C, R, root)
  BY BootFinds
<1> HIDE DEF root
<1>2. CASE root = NoAddr /\ Traversal(f, root) = <<>>
  BY <1>2, NothingFound DEF root
<1>3. CASE \E C, R : Stage(f, C, R, root)
  <2>1. PICK C, R : Stage(f, C, R, root)
    BY <1>3
  <2>2. root \in Addr
    BY <2>1 DEF Stage, Tree
  <2> QED
    BY <2>1, <2>2, GrowthFound DEF root
<1> QED
  BY <1>1, <1>2, <1>3

-----------------------------------------------------------------------------
(***************************************************************************)
(* The inductive invariant.                                                *)
(***************************************************************************)
Operations == [kind : {"first", "add", "edit"}, key : Keys, at : Addr, todo : Seq(Calls)]

\* What the calls of an operation still lead to.
Underway(o, f, l, c) ==
    /\ o \in Operations
    /\ \E h : /\ Runs(SafeImages, f, o.todo, h) /\ h[1].written
              /\ ~c => Kept(h, [l EXCEPT ![o.key] = o.at])
    /\ ~c /\ o.kind # "edit" => \E h : Runs(Good(l), f, o.todo, h)

AtRest ==
    /\ flash[1].written => /\ root_node_addr = FindActiveRootNode(flash)
                           /\ growth_node_addr = FindGrowthNode(flash, root_node_addr)
    /\ ~cut => Kept(flash, latest)

StoreInv ==
    /\ Safe(flash)
    /\ root_node_addr \in Addr \cup {NoAddr} /\ growth_node_addr \in Addr \cup {NoAddr}
    /\ latest \in Latests
    /\ ~flash[1].written => \A k \in Keys : latest[k] = NoAddr
    /\ hung \in BOOLEAN /\ cut \in BOOLEAN /\ resets \in 0 .. MaxResets
    /\ \/ op = Idle /\ AtRest
       \/ op # Idle /\ Underway(op, flash, latest, cut)

LEMMA InvAtStart == Init => StoreInv
<1> SUFFICES ASSUME Init PROVE StoreInv
  OBVIOUS
<1>1. flash = AllBlank /\ Safe(flash) /\ ~flash[1].written
  BY BlankIsSafe DEF Init, AllBlank
<1>2. latest \in Latests /\ \A k \in Keys : latest[k] = NoAddr
  BY DEF Init, Latests
<1>3. resets \in 0 .. MaxResets
  BY KeyValueTreeAssumption DEF Init
<1>4. AtRest
  BY <1>1, <1>2 DEF AtRest, Kept
<1> QED
  BY <1>1, <1>2, <1>3, <1>4 DEF StoreInv, Init

\* Each branch of add_edit_key_value.
LEMMA FirstBegins ==
    ASSUME StoreInv, ~flash[1].written, NEW k \in Keys
    PROVE  Underway([kind |-> "first", key |-> k, at |-> 1, todo |-> AddFirstRootNode(k)],
                    flash, latest, cut)
<1>1. flash = AllBlank /\ latest \in Latests /\ \A j \in Keys : latest[j] = NoAddr
  BY DEF StoreInv, Safe
<1>2. PICK h : /\ Runs(Good(latest), flash, AddFirstRootNode(k), h)
               /\ Kept(h, [latest EXCEPT ![k] = 1])
  BY <1>1, FirstRuns
<1>3. h[1].written
  <2> DEFINE m == [latest EXCEPT ![k] = 1]
  <2>1. m[k] = 1 /\ NoAddr # 1
    BY <1>1 DEF Latests, NoAddr
  <2> HIDE DEF m
  <2>2. Kept(h, m)
    BY <1>2 DEF m
  <2> QED
    BY <2>1, <2>2 DEF Kept
<1>4. Runs(SafeImages, flash, AddFirstRootNode(k), h)
  <2>1. Good(latest) \subseteq SafeImages
    BY DEF Good
  <2> QED
    BY <1>2, <2>1, CallsAmong
<1> DEFINE o == [kind |-> "first", key |-> k, at |-> 1, todo |-> AddFirstRootNode(k)]
<1>5. AddFirstRootNode(k) \in Seq(Calls)
  BY <1>2 DEF Runs
<1> HIDE DEF AddFirstRootNode
<1>6. o \in Operations /\ o.todo = AddFirstRootNode(k) /\ o.key = k /\ o.at = 1
  BY <1>5, AddrFacts DEF Operations
<1> HIDE DEF o
<1>7. Underway(o, flash, latest, cut)
  BY <1>2, <1>3, <1>4, <1>6 DEF Underway
<1> QED
  BY <1>7 DEF o

LEMMA OtherBegins ==
    ASSUME StoreInv, op = Idle, flash[1].written, root_node_addr # NoAddr,
           growth_node_addr # NoAddr, growth_node_addr < Capacity, NEW k \in Keys,
           NEW kind, NEW calls, NEW node, node = FindNode(flash, root_node_addr, k),
           \/ kind = "add" /\ node = NoAddr /\ calls = AddGrowthNode(k, growth_node_addr)
           \/ kind = "add" /\ node # NoAddr /\ calls = LeaveCarcass(k, growth_node_addr, node)
           \/ /\ kind = "edit" /\ node # NoAddr /\ TakesOver(flash, root_node_addr, node)
              /\ calls = ReplaceByNewRoot(flash, k, root_node_addr, growth_node_addr, node)
    PROVE  Underway([kind |-> kind, key |-> k, at |-> growth_node_addr + 1, todo |-> calls],
                    flash, latest, cut)
<1> DEFINE f == flash
           l == latest
           r == root_node_addr
           g == growth_node_addr
<1>0. /\ AtRest /\ Safe(f) /\ l \in Latests /\ cut \in BOOLEAN
      /\ r = FindActiveRootNode(f) /\ g = FindGrowthNode(f, r)
  BY DEF StoreInv, AtRest
<1>1. PICK C, R : Stage(f, C, R, r) /\ \A m : Kept(f, m) => Keeps(f, r, m)
  BY <1>0, BootFinds
<1>2. f \in Images /\ R \subseteq Addr
  BY <1>1 DEF Stage, Tree
<1>3. g \in R /\ g \in Addr /\ Reached(f, r, g) /\ IsGrowthNode(f[g]) /\ g < Capacity
      /\ g + 1 \in Addr
  BY <1>0, <1>1, GrowthFound, AddrFacts
<1>4. ~cut => Keeps(f, r, l)
  BY <1>0, <1>1 DEF AtRest
<1>5. node # NoAddr => node \in R
  <2>1. Traversal(f, r) \in Seq(R) /\ \A a \in ToSet(Traversal(f, r)) : a \in R
    BY <1>1, Visits
  <2>2. node = NoAddr \/ node \in ToSet(Traversal(f, r))
    BY <1>2, <2>1, Searches
  <2> QED
    BY <2>1, <2>2
<1> HIDE DEF f, l, r, g
<1>6. \E h : /\ Runs(SafeImages, f, calls, h) /\ h[1].written
             /\ ~cut => Kept(h, [l EXCEPT ![k] = g + 1])
  <2>1. \A h, C2, R2, r2, m : Stage(h, C2, R2, r2) /\ Keeps(h, r2, m) => Kept(h, m)
    BY DEF Kept, Stage
  <2>2. \A h, C2, R2, r2 : Stage(h, C2, R2, r2) => h[1].written
    BY DEF Stage
  <2>3. \E h, C2, R2, r2 :
           /\ Runs(SafeImages, f, calls, h) /\ Stage(h, C2, R2, r2)
           /\ Keeps(f, r, l) => Keeps(h, r2, [l EXCEPT ![k] = g + 1])
    <3>1. CASE node = NoAddr /\ calls = AddGrowthNode(k, g)
      BY <1>0, <1>1, <1>3, <3>1, AppendRuns
    <3>2. CASE node # NoAddr /\ calls = LeaveCarcass(k, g, node)
      BY <1>0, <1>1, <1>3, <1>5, <3>2, CarcassRuns
    <3>3. CASE node # NoAddr /\ TakesOver(f, r, node) /\ calls = ReplaceByNewRoot(f, k, r, g, node)
      <4>1. node = FindNode(f, r, k)
        BY DEF f, r
      <4> QED
        BY <1>0, <1>1, <1>3, <3>3, <4>1, EditRuns
    <3> QED
      BY <3>1, <3>2, <3>3 DEF f, r, g
  <2> QED
    BY <1>4, <2>1, <2>2, <2>3
<1>7. ~cut /\ kind # "edit" => \E h : Runs(Good(l), f, calls, h)
  <2> SUFFICES ASSUME Keeps(f, r, l), kind = "add" PROVE \E h : Runs(Good(l), f, calls, h)
    BY <1>4
  <2> DEFINE G == Good(l)
  <2>0. G = Good(l)
    OBVIOUS
  <2> HIDE DEF G
  <2>1. CASE node = NoAddr /\ calls = AddGrowthNode(k, g)
    BY <1>0, <1>1, <1>3, <2>0, <2>1, AppendRuns
  <2>2. CASE node # NoAddr /\ calls = LeaveCarcass(k, g, node)
    BY <1>0, <1>1, <1>3, <1>5, <2>0, <2>2, CarcassRuns
  <2> QED
    BY <2>1, <2>2 DEF f, r, g
<1> DEFINE o == [kind |-> kind, key |-> k, at |-> g + 1, todo |-> calls]
<1>8. calls \in Seq(Calls)
  BY <1>6 DEF Runs
<1>9. o \in Operations /\ o.todo = calls /\ o.key = k /\ o.at = g + 1 /\ o.kind = kind
  BY <1>3, <1>8 DEF Operations
<1> HIDE DEF o
<1>10. Underway(o, f, l, cut)
  BY <1>6, <1>7, <1>9 DEF Underway
<1> QED
  BY <1>10 DEF o, f, l, g

LEMMA Begins ==
    ASSUME StoreInv, NEW kind, NEW k, NEW at, NEW calls, Start(kind, k, at, calls),
           Underway([kind |-> kind, key |-> k, at |-> at, todo |-> calls], flash, latest, cut)
    PROVE  StoreInv'
<1>1. op' = [kind |-> kind, key |-> k, at |-> at, todo |-> calls]
  BY DEF Start
<1>2. Underway(op', flash, latest, cut)
  BY <1>1
<1>3. op'.kind # "none"
  BY <1>2 DEF Underway, Operations
<1>4. op' # Idle
  BY <1>3 DEF Idle
<1>5. /\ flash' = flash /\ root_node_addr' = root_node_addr /\ growth_node_addr' = growth_node_addr
      /\ hung' = hung /\ latest' = latest /\ resets' = resets /\ cut' = cut
  BY DEF Start
<1>6. Underway(op', flash', latest', cut')
  BY <1>2, <1>5
<1> QED
  BY <1>4, <1>5, <1>6 DEF StoreInv

LEMMA WriteKeyKeeps ==
    ASSUME StoreInv, NEW k \in Keys, WriteKey(k)
    PROVE  StoreInv'
<1> DEFINE root == root_node_addr
           growth == growth_node_addr
           node == FindNode(flash, root, k)
<1>1. CASE ~flash[1].written /\ Start("first", k, 1, AddFirstRootNode(k))
  BY <1>1, FirstBegins, Begins
<1>2. CASE /\ flash[1].written /\ root # NoAddr /\ growth # NoAddr /\ growth < Capacity
           /\ node = NoAddr
           /\ Start("add", k, growth + 1, AddGrowthNode(k, growth))
  <2>1. op = Idle
    BY DEF WriteKey
  <2> QED
    BY <1>2, <2>1, OtherBegins, Begins
<1>3. CASE /\ flash[1].written /\ root # NoAddr /\ growth # NoAddr /\ growth < Capacity
           /\ node # NoAddr /\ TakesOver(flash, root, node)
           /\ Start("edit", k, growth + 1, ReplaceByNewRoot(flash, k, root, growth, node))
  <2>1. op = Idle
    BY DEF WriteKey
  <2> QED
    BY <1>3, <2>1, OtherBegins, Begins
<1>4. CASE /\ flash[1].written /\ root # NoAddr /\ growth # NoAddr /\ growth < Capacity
           /\ node # NoAddr
           /\ Start("add", k, growth + 1, LeaveCarcass(k, growth, node))
  <2>1. op = Idle
    BY DEF WriteKey
  <2> QED
    BY <1>4, <2>1, OtherBegins, Begins
<1> QED
  BY <1>1, <1>2, <1>3, <1>4 DEF WriteKey

LEMMA NothingRuns == Idle.todo = <<>>
BY DEF Idle

LEMMA ProgramFlashKeeps ==
    ASSUME StoreInv, ProgramFlash
    PROVE  StoreInv' /\ Clears(flash, flash')
<1>1. op # Idle /\ Underway(op, flash, latest, cut) /\ op.todo # <<>>
  BY NothingRuns DEF StoreInv, ProgramFlash
<1>2. PICK h : /\ Runs(SafeImages, flash, op.todo, h) /\ h[1].written
               /\ ~cut => Kept(h, [latest EXCEPT ![op.key] = op.at])
  BY <1>1 DEF Underway
<1>3. /\ flash' = Program(flash, Head(op.todo))
      /\ hung' = hung /\ resets' = resets /\ cut' = cut
  BY DEF ProgramFlash
<1>4. Clears(flash, flash') /\ Runs(SafeImages, flash', Tail(op.todo), h)
  BY <1>1, <1>2, <1>3, CallsGoOn
<1>5. flash' \in SafeImages /\ Safe(flash')
  BY <1>4 DEF Runs, SafeImages
<1>6. op \in Operations /\ op.todo \in Seq(Calls)
  BY <1>1 DEF Underway, Operations
<1>7. flash[1].written => flash'[1].written
  BY <1>4, AddrFacts DEF Clears, OnlyClearsBits
<1>8. CASE Len(op.todo) > 1
  <2>1. /\ op' = [op EXCEPT !.todo = Tail(@)]
        /\ root_node_addr' = root_node_addr /\ growth_node_addr' = growth_node_addr
        /\ latest' = latest
    BY <1>8 DEF ProgramFlash
  <2>2. Tail(op.todo) \in Seq(Calls)
    BY <1>1, <1>6
  <2>3. /\ op' \in Operations /\ op'.todo = Tail(op.todo) /\ op'.key = op.key
        /\ op'.at = op.at /\ op'.kind = op.kind
    BY <1>6, <2>1, <2>2 DEF Operations
  <2>4. op' # Idle
    BY <2>3 DEF Idle, Operations
  <2>5. ~cut /\ op.kind # "edit" => \E g : Runs(Good(latest), flash', Tail(op.todo), g)
    BY <1>1, <1>3, CallsGoOn DEF Underway
  <2>6. Underway(op', flash', latest', cut')
    BY <1>2, <1>3, <1>4, <2>1, <2>3, <2>5 DEF Underway
  <2>7. ~flash'[1].written => \A k \in Keys : latest'[k] = NoAddr
    BY <1>7, <2>1 DEF StoreInv
  <2> QED
    BY <1>3, <1>4, <1>5, <2>1, <2>4, <2>6, <2>7 DEF StoreInv
<1>9. CASE ~(Len(op.todo) > 1)
  <2>1. op' = Idle /\ latest' = [latest EXCEPT ![op.key] = op.at] /\ Reload(flash')
    BY <1>9 DEF ProgramFlash
  <2>2. Tail(op.todo) = <<>>
    BY <1>1, <1>6, <1>9
  <2>3. flash' = h
    BY <1>4, <2>2, CallsEnd
  <2>4. latest' \in Latests
    BY <1>6, <2>1 DEF StoreInv, Latests, Operations
  <2>5. ~cut' => Kept(flash', latest')
    BY <1>2, <1>3, <2>1, <2>3
  <2>6. /\ root_node_addr' = FindActiveRootNode(flash')
        /\ growth_node_addr' = FindGrowthNode(flash', root_node_addr')
    BY <2>1 DEF Reload
  <2>7. root_node_addr' \in Addr \cup {NoAddr} /\ growth_node_addr' \in Addr \cup {NoAddr}
    BY <1>2, <1>5, <2>3, <2>6, SearchTypes
  <2>8. AtRest'
    BY <2>5, <2>6 DEF AtRest
  <2> QED
    BY <1>2, <1>3, <1>4, <1>5, <2>1, <2>3, <2>4, <2>7, <2>8 DEF StoreInv
<1> QED
  BY <1>8, <1>9

LEMMA RebootKeeps ==
    ASSUME StoreInv, Reboot
    PROVE  StoreInv'
<1>1. /\ flash' = flash /\ latest' = latest /\ op' = Idle
      /\ cut' = (cut \/ op.kind = "edit")
  BY DEF Reboot
<1>2. resets' \in 0 .. MaxResets
  BY KeyValueTreeAssumption DEF Reboot, StoreInv
<1>3. IF flash[1].written
        THEN /\ root_node_addr' = FindActiveRootNode(flash)
             /\ growth_node_addr' = FindGrowthNode(flash, root_node_addr')
             /\ hung' \in BOOLEAN
        ELSE root_node_addr' = NoAddr /\ growth_node_addr' = NoAddr /\ hung' = FALSE
  BY DEF Reboot, Reload
<1>4. root_node_addr' \in Addr \cup {NoAddr} /\ growth_node_addr' \in Addr \cup {NoAddr}
  BY <1>3, SearchTypes DEF StoreInv
<1>5. ASSUME ~cut, op.kind # "edit" PROVE Kept(flash, latest)
  <2>1. CASE op = Idle
    BY <1>5, <2>1 DEF StoreInv, AtRest
  <2>2. CASE op # Idle
    <3>1. PICK h : Runs(Good(latest), flash, op.todo, h)
      BY <1>5, <2>2 DEF StoreInv, Underway
    <3>2. flash \in Good(latest)
      BY <3>1 DEF Runs
    <3> QED
      BY <3>2 DEF Good
  <2> QED
    BY <2>1, <2>2
<1>6. AtRest'
  BY <1>1, <1>3, <1>5 DEF AtRest
<1>7. hung' \in BOOLEAN /\ cut' \in BOOLEAN
  BY <1>1, <1>3 DEF StoreInv
<1> QED
  BY <1>1, <1>2, <1>4, <1>6, <1>7 DEF StoreInv

LEMMA EraseSectorKeeps ==
    ASSUME StoreInv, EraseSector
    PROVE  StoreInv'
<1>1. /\ flash' = AllBlank /\ latest' = [k \in Keys |-> NoAddr] /\ cut' = FALSE
      /\ root_node_addr' = root_node_addr /\ growth_node_addr' = growth_node_addr
      /\ op' = Idle /\ hung' = hung /\ resets' = resets
  BY DEF EraseSector, AllBlank
<1>2. Safe(flash') /\ ~flash'[1].written
  BY <1>1, BlankIsSafe
<1>3. latest' \in Latests /\ \A k \in Keys : latest'[k] = NoAddr
  BY <1>1 DEF Latests
<1>4. AtRest'
  BY <1>2, <1>3 DEF AtRest, Kept
<1> QED
  BY <1>1, <1>2, <1>3, <1>4 DEF StoreInv

LEMMA InvKept == StoreInv /\ [Next]_vars => StoreInv'
<1> SUFFICES ASSUME StoreInv, [Next]_vars PROVE StoreInv'
  OBVIOUS
<1>1. CASE \E k \in Keys : WriteKey(k)
  BY <1>1, WriteKeyKeeps
<1>2. CASE ProgramFlash
  BY <1>2, ProgramFlashKeeps
<1>3. CASE Reboot
  BY <1>3, RebootKeeps
<1>4. CASE EraseSector
  BY <1>4, EraseSectorKeeps
<1>5. CASE UNCHANGED vars
  BY <1>5 DEF vars, StoreInv, AtRest, Underway
<1> QED
  BY <1>1, <1>2, <1>3, <1>4, <1>5 DEF Next

\* Whatever is written, erased and cut short: the image is safe, and the rest of
\* a write in progress leads through safe images to the end of the write.
THEOREM InvHolds == Spec => []StoreInv
BY InvAtStart, InvKept, PTL DEF Spec

-----------------------------------------------------------------------------
LEMMA InvIsTyped == StoreInv => TypeOK
<1> SUFFICES ASSUME StoreInv PROVE TypeOK
  OBVIOUS
<1>1. flash \in Images
  BY DEF StoreInv, Safe
<1>2. \A a \in Addr :
          /\ flash[a].key \in Keys \cup {NoKey}
          /\ flash[a].next_root \in Addr \cup {NoAddr}
          /\ \A i \in LinkId : flash[a].link[i] \in
                {"uninitialized", "valid", "invalid", "unallocated"}
          /\ \A i \in LinkId : flash[a].to[i] \in Addr \cup {NoAddr}
  BY <1>1 DEF Images, Nodes, LinkStates
<1>3. /\ op.kind \in {"none", "first", "add", "edit"}
      /\ \A n \in DOMAIN op.todo : op.todo[n].at \in Addr
  <2>1. CASE op = Idle
    BY <2>1 DEF Idle
  <2>2. CASE op # Idle
    <3>1. op \in Operations
      BY <2>2 DEF StoreInv, Underway
    <3>2. op.todo \in Seq(Calls) /\ op.kind \in {"none", "first", "add", "edit"}
      BY <3>1 DEF Operations
    <3>3. \A n \in DOMAIN op.todo : op.todo[n] \in Calls
      BY <3>2
    <3>4. \A c \in Calls : c.at \in Addr
      BY DEF Calls
    <3> QED
      BY <3>2, <3>3, <3>4
  <2> QED
    BY <2>1, <2>2
<1> QED
  BY <1>2, <1>3 DEF TypeOK, StoreInv, Latests

\* For every capacity and number of links: what the tree object holds in RAM and
\* what a traversal reads in flash are addresses of the sector, or none.
THEOREM TypeCorrect == Spec => []TypeOK
BY InvHolds, InvIsTyped, PTL

LEMMA InvFormsTree == StoreInv => NodesFormTree
<1> SUFFICES ASSUME StoreInv PROVE NodesFormTree
  OBVIOUS
<1> DEFINE root == FindActiveRootNode(flash)
<1>1. IsInjective(<<>>)
  BY DEF IsInjective
<1>2. CASE ~flash[1].written
  BY <1>1, <1>2 DEF NodesFormTree, Visited, Traversal
<1>3. CASE flash[1].written
  <2>1. \/ root = NoAddr /\ Traversal(flash, root) = <<>>
        \/ \E C, R : Stage(flash, C, R, root)
    BY <1>3, BootFinds DEF StoreInv
  <2>2. IsInjective(Traversal(flash, root))
    BY <1>1, <2>1, Visits
  <2> QED
    BY <2>2 DEF NodesFormTree, Visited
<1> QED
  BY <1>2, <1>3

\* Wherever edits moved roots and children to and resets cut writes short,
\* traverse_with_node_function visits no node twice.
THEOREM TreeIsFormed == Spec => []NodesFormTree
BY InvHolds, InvFormsTree, PTL

LEMMA InvPutsGrowthLast == StoreInv => GrowthNodeIsLast
<1> SUFFICES ASSUME StoreInv, op = Idle, flash[1].written, growth_node_addr # NoAddr,
                    NEW a \in growth_node_addr + 1 .. Capacity
             PROVE  flash[a] = Blank
  BY DEF GrowthNodeIsLast
<1> DEFINE g == growth_node_addr
           root == FindActiveRootNode(flash)
<1>1. g = FindGrowthNode(flash, root) /\ Safe(flash)
  BY DEF StoreInv, AtRest
<1>2. \/ root = NoAddr /\ Traversal(flash, root) = <<>>
      \/ \E C, R : Stage(flash, C, R, root)
  BY <1>1, BootFinds
<1>3. CASE root = NoAddr /\ Traversal(flash, root) = <<>>
  BY <1>1, <1>3, NothingFound
<1>4. CASE \E C, R : Stage(flash, C, R, root)
  <2>1. PICK C, R : Stage(flash, C, R, root)
    BY <1>4
  <2>2. g \in Addr /\ IsGrowthNode(flash[g])
    BY <1>1, <2>1, GrowthFound
  <2>3. a \in Addr /\ a > g
    BY <2>2, LinkIds DEF Addr
  <2> QED
    BY <2>1, <2>2, <2>3 DEF Stage, GrowthClosed
<1> QED
  BY <1>2, <1>3, <1>4

\* What follows the node that add_growth_node_with_key_value appends to is blank,
\* whatever resets have left behind.
THEOREM GrowthIsLast == Spec => []GrowthNodeIsLast
BY InvHolds, InvPutsGrowthLast, PTL

\* What is kept at rest.
LEMMA KeptAtRest ==
    ASSUME StoreInv, op = Idle, ~cut, flash[1].written
    PROVE  \E C, R, r : /\ Stage(flash, C, R, r) /\ Keeps(flash, r, latest)
                        /\ r = FindActiveRootNode(flash) /\ Visited = Traversal(flash, r)
                        /\ growth_node_addr = FindGrowthNode(flash, r)
<1>1. PICK C, R, r : Stage(flash, C, R, r) /\ Keeps(flash, r, latest)
  BY DEF StoreInv, AtRest, Kept
<1>2. r = FindActiveRootNode(flash)
  BY <1>1, RootOfChain DEF Stage
<1> QED
  BY <1>1, <1>2 DEF StoreInv, AtRest, Visited

LEMMA InvHasOneGrowthNode == StoreInv => OneGrowthNode
<1> SUFFICES ASSUME StoreInv, op = Idle, flash[1].written, ~cut
             PROVE  /\ growth_node_addr # NoAddr
                    /\ {a \in ToSet(Visited) : IsGrowthNode(flash[a])} = {growth_node_addr}
  BY DEF OneGrowthNode
<1> DEFINE g == growth_node_addr
<1>1. PICK C, R, r : /\ Stage(flash, C, R, r) /\ Keeps(flash, r, latest)
                     /\ Visited = Traversal(flash, r) /\ g = FindGrowthNode(flash, r)
  BY KeptAtRest
<1>2. g # NoAddr /\ g \in R /\ g \in Addr /\ Reached(flash, r, g) /\ IsGrowthNode(flash[g])
  BY <1>1, GrowthFound DEF Keeps
<1>3. \A a : a \in ToSet(Visited) <=> Reached(flash, r, a)
  BY <1>1, Visits
<1>4. ASSUME NEW a \in ToSet(Visited), IsGrowthNode(flash[a]) PROVE a = g
  <2>1. a \in R
    BY <1>1, Visits
  <2>2. a \in Addr /\ Allocated(flash, a) /\ Allocated(flash, g)
    BY <1>1, <1>2, <2>1 DEF Stage, Tree
  <2>3. ~(a < g) /\ ~(g < a)
    BY <1>2, <1>4, <2>2 DEF Allocated
  <2> QED
    BY <1>2, <2>2, <2>3, AddrFacts
<1> QED
  BY <1>2, <1>3, <1>4

\* Unless an edit was cut short, reload finds the one node to append to.
THEOREM GrowthNodeIsUnique == Spec => []OneGrowthNode
BY InvHolds, InvHasOneGrowthNode, PTL

LEMMA InvLoadsLatest == StoreInv => LatestIsLoaded
<1> SUFFICES ASSUME StoreInv, op = Idle, ~cut, NEW k \in Keys, latest[k] # NoAddr
             PROVE  /\ latest[k] \in {Visited[n] : n \in VisitsOf(k)}
                    /\ flash[latest[k]].value
                    /\ Loaded(k) = latest[k] \/ \E m, n \in VisitsOf(k) : m # n
  BY DEF LatestIsLoaded
<1> DEFINE a == latest[k]
<1>1. flash[1].written
  BY DEF StoreInv
<1>2. PICK C, R, r : /\ Stage(flash, C, R, r) /\ Keeps(flash, r, latest)
                     /\ Visited = Traversal(flash, r)
  BY <1>1, KeptAtRest
<1>3. Reached(flash, r, a) /\ flash[a].key = k /\ flash[a].value
  BY <1>2 DEF Keeps, Holds
<1>4. a \in ToSet(Visited) /\ Visited \in Seq(R)
  BY <1>2, <1>3, Visits
<1> HIDE DEF a
<1>5. PICK n \in DOMAIN Visited : Visited[n] = a
  BY <1>4 DEF ToSet
<1>6. n \in VisitsOf(k)
  BY <1>3, <1>5 DEF VisitsOf
<1>7. ASSUME \A m \in VisitsOf(k) : m = n PROVE Loaded(k) = a
  <2>1. VisitsOf(k) = {n}
    BY <1>6, <1>7
  <2>2. n \in Nat
    BY <1>4, <1>5
  <2>3. Max({n}) = n
    BY <2>2 DEF Max
  <2> QED
    BY <1>5, <2>1, <2>3 DEF Loaded
<1> QED
  BY <1>3, <1>5, <1>6, <1>7 DEF a

\* Unless an edit was cut short, the last value written of each key is in the
\* tree, whole, and is the one the boot code loads if the key has one node.
THEOREM LatestLoads == Spec => []LatestIsLoaded
BY InvHolds, InvLoadsLatest, PTL

LEMMA StepClearsBits ==
    ASSUME StoreInv, [Next]_vars
    PROVE  [flash' = [a \in Addr |-> Blank] \/
            \A a \in Addr : OnlyClearsBits(flash[a], flash'[a])]_vars
<1>1. CASE ProgramFlash
  BY <1>1, ProgramFlashKeeps DEF Clears
<1>2. CASE EraseSector
  BY <1>2 DEF EraseSector
<1>3. CASE flash' = flash
  <2>1. flash \in Images
    BY DEF StoreInv, Safe
  <2> QED
    BY <1>3, <2>1, SameBits
<1>4. ASSUME NEW k \in Keys, WriteKey(k) PROVE flash' = flash
  BY <1>4 DEF WriteKey, Start
<1>5. Reboot => flash' = flash
  BY DEF Reboot
<1> QED
  BY <1>1, <1>2, <1>3, <1>4, <1>5 DEF Next, vars

\* No programming call sets a bit, or writes a node over another one.
THEOREM BitsAreOnlyCleared == Spec => BitsOnlyCleared
<1>1. StoreInv /\ [Next]_vars =>
          [flash' = [a \in Addr |-> Blank] \/
           \A a \in Addr : OnlyClearsBits(flash[a], flash'[a])]_vars
  BY StepClearsBits
<1> QED
  BY <1>1, InvHolds, PTL DEF Spec, BitsOnlyCleared

-----------------------------------------------------------------------------
\* A step of the system while main loads is one of the tree, or leaves it alone.
LEMMA StepIsTreeStep == [LoadNext]_loadingVars => [Next]_vars
<1> SUFFICES ASSUME [LoadNext]_loadingVars PROVE [Next]_vars
  OBVIOUS
<1>1. CASE \E k \in Keys : RemoteWrite(k)
  BY <1>1 DEF RemoteWrite, Next
<1>2. CASE BeginLoad \/ VisitNode \/ PushChild \/ EndLoad
  BY <1>2 DEF BeginLoad, VisitNode, PushChild, EndLoad
<1>3. CASE ProgramFlash \/ Reboot \/ EraseSector
  BY <1>3 DEF Next
<1>4. CASE UNCHANGED loadingVars
  BY <1>4 DEF loadingVars
<1> QED
  BY <1>1, <1>2, <1>3, <1>4 DEF LoadNext

\* While main loads the configuration, the tree is written as before.
THEOREM LoadRefinesTree == LoadSpec => Spec
<1>1. LoadInit => Init
  BY DEF LoadInit
<1> QED
  BY <1>1, StepIsTreeStep, PTL DEF LoadSpec, Spec

-----------------------------------------------------------------------------
(***************************************************************************)
(* main loads the configuration.                                           *)
(***************************************************************************)
\* A node is not reached from a child of its own: what hangs from a node is a
\* tree too.
LEMMA SubtreeIsTree ==
    ASSUME NEW f, NEW C, NEW R, NEW r, Stage(f, C, R, r), NEW node, Reached(f, r, node)
    PROVE  \E Q : Tree(f, Q, node)
<1> DEFINE Q == {a \in Addr : Reached(f, node, a)}
<1>0. f \in Images /\ R \in SUBSET Addr /\ r \in R /\ Tree(f, R, r)
  BY DEF Stage, Tree
<1>1. Closed(f, R) /\ node \in R
  BY <1>0 DEF Tree, Reached
<1>2. Q \subseteq R /\ node \in Q /\ Q \in SUBSET Addr
  BY <1>0, <1>1, RootIsReached DEF Reached
<1>3. Closed(f, Q)
  <2> SUFFICES ASSUME NEW a \in Q, NEW i \in LinkId, f[a].link[i] = "valid"
               PROVE  LinkAddress(f, a, i) \in Q
    BY DEF Closed
  <2>1. LinkAddress(f, a, i) \in R
    BY <1>1, <1>2 DEF Closed
  <2>2. Reached(f, node, LinkAddress(f, a, i))
    BY DEF Reached, Closed
  <2> QED
    BY <1>0, <2>1, <2>2
\* Each node of Q but the first has a parent in it.
<1>4. ASSUME NEW c \in Q, c # node PROVE \E a \in Q : LinksTo(f, a, c)
  <2> SUFFICES ASSUME \A a \in Q : ~LinksTo(f, a, c) PROVE FALSE
    OBVIOUS
  <2> DEFINE S == Q \ {c}
  <2>1. S \in SUBSET Addr /\ node \in S
    BY <1>2, <1>4
  <2>2. Closed(f, S)
    BY <1>3 DEF Closed, LinksTo
  <2> QED
    BY <2>1, <2>2 DEF Reached
<1> HIDE DEF Q
<1>5. ASSUME NEW a \in Q, LinksTo(f, a, node) PROVE FALSE
  <2>1. r \notin Q
    <3>1. node # r
      BY <1>0, <1>1, <1>2, <1>5, OneParent
    <3>2. \A b \in Q : ~LinksTo(f, b, r)
      BY <1>0, <1>2, OneParent
    <3> QED
      BY <1>4, <3>1, <3>2
  <2> DEFINE S == R \ Q
  <2>2. r \in S /\ S \in SUBSET Addr
    BY <1>0, <2>1
  <2>3. Closed(f, S)
    <3> SUFFICES ASSUME NEW b \in S, NEW i \in LinkId, f[b].link[i] = "valid",
                        LinkAddress(f, b, i) \in Q
                 PROVE  FALSE
      BY <1>1 DEF Closed
    <3>1. PICK d \in Q : LinksTo(f, d, LinkAddress(f, b, i))
      BY <1>4, <1>5
    <3>2. LinksTo(f, b, LinkAddress(f, b, i))
      BY DEF LinksTo
    <3> QED
      BY <1>0, <1>2, <3>1, <3>2, OneParent
  <2>4. node \in S
    BY <2>2, <2>3 DEF Reached
  <2> QED
    BY <1>2, <2>4
<1>6. OneWay(f, Q, node)
  <2>1. \A a, b \in Q : \A i, j \in LinkId :
          /\ f[a].link[i] = "valid" /\ f[b].link[j] = "valid"
          /\ LinkAddress(f, a, i) = LinkAddress(f, b, j)
          => a = b /\ i = j
    BY <1>0, <1>2 DEF Tree, OneWay
  <2>2. \A a \in Q : \A i \in LinkId : f[a].link[i] = "valid" => LinkAddress(f, a, i) # node
    BY <1>5 DEF LinksTo
  <2> QED
    BY <2>1, <2>2 DEF OneWay
<1>7. Tree(f, Q, node)
  BY <1>2, <1>3, <1>6 DEF Tree
<1> QED
  BY <1>7

\* The nodes that an edit may cost a traversal are a whole subtree.
LEMMA SubtreeVisited ==
    ASSUME NEW f, NEW C, NEW R, NEW r, Stage(f, C, R, r), NEW node, Reached(f, r, node)
    PROVE  LET T == ToSet(Traversal(f, node))
           IN  node \in T /\ Closed(f, T)
<1>1. PICK Q : Tree(f, Q, node)
  BY SubtreeIsTree
<1>2. f \in Images /\ f[1].written /\ node # NoAddr
  BY <1>1, AddrFacts DEF Stage, Tree
<1> QED
  BY <1>1, <1>2, TraversalOfTree

\* W are the nodes that main may come across on its way from r; up is the one
\* from which it comes to each.  Links may have been cut since, not turned.
Region(f, W, up, r) ==
    /\ W \subseteq Addr /\ r \in W
    /\ \A a \in W : Allocated(f, a)
    /\ \A a \in W : \A c : LinksTo(f, a, c) => c \in W /\ c # r /\ up[c] = a

\* The nodes that main has been at, and those it will go to.
Pushed(V, S) == ToSet(V) \cup ToSet(S)

\* No node is pushed twice: seen are V, the stack is S, the links of node a are
\* pushed from link i on.
Tour(f, W, up, r, V, S, a, i) ==
    /\ V \in Seq(W) /\ S \in Seq(W) /\ IsInjective(V) /\ IsInjective(S)
    /\ ToSet(V) \cap ToSet(S) = {}
    /\ r \in Pushed(V, S)
    /\ \A c \in Pushed(V, S) : c # r => up[c] \in ToSet(V)
    /\ a # NoAddr =>
          LET next == LinkAddress(f, a, i)
          IN  /\ a \in ToSet(V) /\ i \in LinkId
              /\ next \in W /\ next # r /\ up[next] = a
              /\ \A c \in Pushed(V, S) : c # r /\ up[c] = a =>
                    \A j \in LinkId : j >= i => LinkAddress(f, a, j) # c

\* None of the nodes D is missed: they hang together from r, and what hangs from
\* one that was visited is pushed.
Cover(f, r, V, S, a, i, D) ==
    /\ D \subseteq Addr
    /\ \A T \in SUBSET Addr :
          /\ r \in D => r \in T
          /\ \A b \in T \cap D, c \in D : LinksTo(f, b, c) => c \in T
          => D \subseteq T
    /\ \A b \in ToSet(V) : \A j \in LinkId :
          f[b].link[j] = "valid" /\ LinkAddress(f, b, j) \in D
            => LinkAddress(f, b, j) \in Pushed(V, S) \/ (b = a /\ j >= i)

\* What the calls of a write o do to the links.
Harmless(f, o, D) ==
    {c \in Calls :
        /\ c.part = "header" =>
              c.at = o.at /\ (o.kind = "add" => \A i \in LinkId : c.node.link[i] # "valid")
        /\ c.part = "links" => c.at = o.at /\ o.kind = "edit"
        /\ c.part = "link" =>
              /\ c.at # o.at
              /\ \/ c.state = "valid" /\ o.kind = "add" /\ c.id = 0 /\ c.at + 1 = o.at
                 \/ c.state = "invalid" /\ LinkAddress(f, c.at, c.id) \notin D}

\* main is on its way: it has visited V, and will find the rest of D.
Toured(f, W, up, r, V, S, a, i, D) ==
    /\ up \in [Addr -> Addr \cup {NoAddr}]
    /\ Region(f, W, up, r)
    /\ Tour(f, W, up, r, V, S, a, i)
    /\ Cover(f, r, V, S, a, i, D)

\* The node that o writes is out of main's way, or a leaf that it has not come to.
OutOfTheWay(f, o, W, up, V, S, D) ==
    /\ o.kind \in {"add", "edit"}
    /\ o.at \in Addr /\ o.at \notin Pushed(V, S) /\ o.at \notin D
    /\ o.kind = "edit" => o.at \notin W
    /\ o.kind = "add" => /\ o.at \in W => up[o.at] = o.at - 1
                         /\ \A i \in LinkId : f[o.at].link[i] # "valid"

OnTour(W, up, r) ==
    /\ Toured(flash, W, up, r, visited, stack, reading, link_id, due)
    /\ op # Idle => /\ OutOfTheWay(flash, op, W, up, visited, stack, due)
                    /\ op.todo \in Seq(Harmless(flash, op, due))

LoadInv == IF loading THEN flash[1].written /\ \E W, up, r : OnTour(W, up, r)
                      ELSE NotLoading

-----------------------------------------------------------------------------
\* Between the calls.
\* From f to g the write o has added a link to its leaf, or cut links that lead to
\* no node of D.
Tended(f, g, o, W, D) ==
    /\ Clears(f, g)
    /\ \A a \in Addr : a # o.at => g[a].to = f[a].to
    /\ \A a \in W, i \in LinkId : g[a].link[i] = "valid" =>
          /\ a # o.at
          /\ \/ f[a].link[i] = "valid"
             \/ o.kind = "add" /\ i = 0 /\ a + 1 = o.at
    /\ \A a \in Addr, i \in LinkId : a # o.at /\ f[a].link[i] = "valid" =>
          g[a].link[i] = "valid" \/ LinkAddress(f, a, i) \notin D
    /\ o.kind = "add" => \A i \in LinkId : g[o.at].link[i] # "valid"

\* An address that a node was allocated at stays one, as bits are only cleared.
LEMMA StillAllocated ==
    ASSUME NEW f \in Images, NEW g \in Images, Clears(f, g), NEW a \in Addr, Allocated(f, a)
    PROVE  Allocated(g, a)
<1> SUFFICES ASSUME NEW b \in Addr, b < a, IsGrowthNode(g[b]) PROVE FALSE
  BY DEF Allocated
<1>1. Rank[g[b].link[0]] = 3 /\ Rank[g[b].link[0]] <= Rank[f[b].link[0]]
  BY LinkIds DEF Clears, OnlyClearsBits, IsGrowthNode, Rank
<1>2. f[b].link[0] \in LinkStates
  BY LinkIds DEF Images, Nodes
<1>3. f[b].link[0] = "uninitialized"
  BY <1>1, <1>2 DEF LinkStates, Rank
<1> QED
  BY <1>3 DEF Allocated, IsGrowthNode

\* A call of the write tends the links, and the calls behind it stay harmless.
LEMMA CallTends ==
    ASSUME NEW f \in Images, NEW g \in Images, NEW o, NEW W \in SUBSET Addr, NEW D,
           NEW up, NEW V, NEW S, OutOfTheWay(f, o, W, up, V, S, D),
           NEW c \in Harmless(f, o, D), g = Program(f, c), Clears(f, g)
    PROVE  Tended(f, g, o, W, D) /\ Harmless(f, o, D) \subseteq Harmless(g, o, D)
<1> DEFINE n == o.at
<1>0. /\ o.kind \in {"add", "edit"} /\ o.at \in Addr
      /\ o.kind = "edit" => o.at \notin W
      /\ o.kind = "add" => \A i \in LinkId : f[o.at].link[i] # "valid"
  BY DEF OutOfTheWay
<1>1. /\ c \in Calls /\ c.at \in Addr
      /\ c.part \in {"header", "value", "data_valid", "active", "links", "next_root", "link"}
  BY DEF Harmless, Calls
<1>2. /\ \A a \in Addr : a # c.at => g[a] = f[a]
      /\ f[c.at] \in Nodes
  BY <1>1 DEF Program, Images
<1>3. ASSUME \A a \in Addr : a # n => g[a].to = f[a].to
      PROVE  Harmless(f, o, D) \subseteq Harmless(g, o, D)
  <2> SUFFICES ASSUME NEW d \in Harmless(f, o, D)
               PROVE  d \in Harmless(g, o, D)
    OBVIOUS
  <2>1. d.part = "link" => d.at \in Addr /\ LinkAddress(g, d.at, d.id) = LinkAddress(f, d.at, d.id)
    BY <1>3 DEF Harmless, Calls, LinkAddress
  <2> QED
    BY <2>1 DEF Harmless
<1>4. CASE c.part \in {"value", "data_valid", "active", "next_root"}
  <2>1. g[c.at].link = f[c.at].link /\ g[c.at].to = f[c.at].to
    BY <1>1, <1>2, <1>4 DEF Program, Images, Nodes
  <2>2. \A a \in Addr : g[a].link = f[a].link /\ g[a].to = f[a].to
    BY <1>2, <2>1
  <2> QED
    BY <1>0, <1>3, <2>2 DEF Tended
<1>5. CASE c.part = "header"
  <2>1. c.at = n /\ (o.kind = "add" => \A i \in LinkId : c.node.link[i] # "valid")
    BY <1>5 DEF Harmless
  <2>2. g[n] = c.node
    BY <1>1, <1>5, <2>1 DEF Program, Images
  <2> QED
    BY <1>0, <1>2, <1>3, <2>1, <2>2 DEF Tended
<1>6. CASE c.part = "links"
  <2>1. c.at = n /\ o.kind = "edit"
    BY <1>6 DEF Harmless
  <2> QED
    BY <1>0, <1>2, <1>3, <2>1 DEF Tended
<1>7. CASE c.part = "link"
  <2>1. /\ c.at # n /\ c.id \in LinkId
        /\ \/ c.state = "valid" /\ o.kind = "add" /\ c.id = 0 /\ c.at + 1 = n
           \/ c.state = "invalid" /\ LinkAddress(f, c.at, c.id) \notin D
    BY <1>7 DEF Harmless, Calls
  <2>2. g[c.at] = [f[c.at] EXCEPT !.link[c.id] = c.state]
    BY <1>1, <1>7 DEF Program, Images
  <2>3. /\ g[c.at].to = f[c.at].to
        /\ g[c.at].link[c.id] = c.state
        /\ \A j \in LinkId : j # c.id => g[c.at].link[j] = f[c.at].link[j]
    BY <1>2, <2>1, <2>2 DEF Nodes
  <2> QED
    BY <1>0, <1>1, <1>2, <1>3, <2>1, <2>3 DEF Tended
<1> QED
  BY <1>1, <1>4, <1>5, <1>6, <1>7

\* The write goes on, and main is where it was.
LEMMA TourGoesOn ==
    ASSUME NEW f \in Images, NEW g \in Images, NEW o, NEW W, NEW up, NEW r,
           NEW V, NEW S, NEW a, NEW i, NEW D,
           Toured(f, W, up, r, V, S, a, i, D),
           OutOfTheWay(f, o, W, up, V, S, D), Tended(f, g, o, W, D)
    PROVE  \E X, to : Toured(g, X, to, r, V, S, a, i, D) /\ OutOfTheWay(g, o, X, to, V, S, D)
<1>0. /\ up \in [Addr -> Addr \cup {NoAddr}]
      /\ Region(f, W, up, r) /\ Tour(f, W, up, r, V, S, a, i) /\ Cover(f, r, V, S, a, i, D)
  BY DEF Toured
<1> DEFINE n == o.at
           grown == o.kind = "add" /\ n - 1 \in W /\ g[n - 1].link[0] = "valid" /\ n \notin W
           X == IF grown THEN W \cup {n} ELSE W
           to == IF grown THEN [up EXCEPT ![n] = n - 1] ELSE up
<1>1. /\ n \in Addr /\ n \notin Pushed(V, S) /\ n \notin D /\ r \in Pushed(V, S)
      /\ W \subseteq Addr /\ r \in W /\ D \subseteq Addr
      /\ ToSet(V) \subseteq Pushed(V, S)
  BY <1>0 DEF OutOfTheWay, Tour, Region, Cover, Pushed
<1>2. /\ V \in Seq(W) /\ S \in Seq(W)
      /\ \A c \in ToSet(V) : c \in W
      /\ \A c \in Pushed(V, S) : c \in W
  <2>1. V \in Seq(W) /\ S \in Seq(W)
    BY <1>0 DEF Tour
  <2>2. \A s \in Seq(W) : \A c \in ToSet(s) : c \in W
    BY DEF ToSet
  <2> QED
    BY <2>1, <2>2 DEF Pushed
<1>3. /\ W \subseteq X /\ X \subseteq Addr
      /\ to \in [Addr -> Addr \cup {NoAddr}]
      /\ \A c \in W : to[c] = up[c]
      /\ \A c \in X : c \in W \/ (c = n /\ grown /\ to[n] = n - 1)
      /\ grown => n \in X
  BY <1>0, <1>1, AddrFacts
<1>4. /\ \A b \in Addr, j \in LinkId : b # n => LinkAddress(g, b, j) = LinkAddress(f, b, j)
      /\ o.kind = "add" => \A j \in LinkId : g[n].link[j] # "valid"
      /\ \A b \in W, j \in LinkId : g[b].link[j] = "valid" =>
            /\ b # n
            /\ f[b].link[j] = "valid" \/ (o.kind = "add" /\ j = 0 /\ b + 1 = n)
      /\ \A b \in Addr, j \in LinkId : b # n /\ f[b].link[j] = "valid" =>
            g[b].link[j] = "valid" \/ LinkAddress(f, b, j) \notin D
      /\ Clears(f, g)
  BY DEF Tended, LinkAddress
<1>5. /\ o.kind = "edit" => n \notin W
      /\ o.kind = "add" /\ n \in W => up[n] = n - 1
      /\ o.kind \in {"add", "edit"}
  BY DEF OutOfTheWay
<1> HIDE DEF X, to
<1>6. Region(g, X, to, r)
  <2>1. X \subseteq Addr /\ r \in X
    BY <1>1, <1>3
  <2>2. ASSUME NEW b \in X PROVE Allocated(g, b)
    <3>1. CASE b \in W
      BY <1>0, <1>1, <1>4, <3>1, StillAllocated DEF Region
    <3>2. CASE b = n /\ grown
      <4>1. Allocated(g, n - 1) /\ n - 1 \in Addr
        BY <1>0, <1>1, <1>4, <3>2, StillAllocated DEF Region
      <4>2. ~IsGrowthNode(g[n - 1])
        BY <3>2 DEF IsGrowthNode
      <4>3. \A d \in Addr : d < n => d = n - 1 \/ d < n - 1
        <5>1. n \in Nat /\ \A d \in Addr : d \in Nat
          BY <1>1, AddrFacts
        <5> QED
          BY <5>1
      <4> QED
        BY <3>2, <4>1, <4>2, <4>3 DEF Allocated
    <3> QED
      BY <1>3, <3>1, <3>2
  <2>3. ASSUME NEW b \in X, NEW c, LinksTo(g, b, c) PROVE c \in X /\ c # r /\ to[c] = b
    <3>1. PICK j \in LinkId : g[b].link[j] = "valid" /\ LinkAddress(g, b, j) = c
      BY <2>3 DEF LinksTo
    <3>2. b \in W /\ b # n /\ b \in Addr
      BY <1>1, <1>3, <1>4, <3>1
    <3>3. LinkAddress(f, b, j) = c
      BY <1>4, <3>1, <3>2
    <3>4. CASE f[b].link[j] = "valid"
      <4>1. c \in W /\ c # r /\ up[c] = b
        BY <1>0, <3>2, <3>3, <3>4 DEF Region, LinksTo
      <4> QED
        BY <1>3, <4>1
    <3>5. CASE o.kind = "add" /\ j = 0 /\ b + 1 = n
      <4>1. c = n /\ b = n - 1 /\ n # r
        BY <1>1, <3>2, <3>3, <3>5, AddrFacts DEF LinkAddress
      <4>2. n \in W \/ grown
        BY <3>1, <3>2, <3>5, <4>1
      <4> QED
        BY <1>3, <1>5, <3>5, <4>1, <4>2
    <3> QED
      BY <1>4, <3>1, <3>2, <3>4, <3>5
  <2> QED
    BY <2>1, <2>2, <2>3 DEF Region
<1>7. Tour(g, X, to, r, V, S, a, i)
  <2>1. V \in Seq(X) /\ S \in Seq(X)
    BY <1>2, <1>3
  <2>2. /\ IsInjective(V) /\ IsInjective(S) /\ ToSet(V) \cap ToSet(S) = {}
        /\ r \in Pushed(V, S)
        /\ \A c \in Pushed(V, S) : c # r => up[c] \in ToSet(V)
    BY <1>0 DEF Tour
  <2>3. \A c \in Pushed(V, S) : to[c] = up[c]
    BY <1>2, <1>3
  <2>4. ASSUME a # NoAddr
        PROVE  LET next == LinkAddress(g, a, i)
               IN  /\ a \in ToSet(V) /\ i \in LinkId
                   /\ next \in X /\ next # r /\ to[next] = a
                   /\ \A c \in Pushed(V, S) : c # r /\ to[c] = a =>
                         \A j \in LinkId : j >= i => LinkAddress(g, a, j) # c
    <3>1. /\ a \in ToSet(V) /\ i \in LinkId
          /\ LinkAddress(f, a, i) \in W /\ LinkAddress(f, a, i) # r /\ up[LinkAddress(f, a, i)] = a
          /\ \A c \in Pushed(V, S) : c # r /\ up[c] = a =>
                \A j \in LinkId : j >= i => LinkAddress(f, a, j) # c
      BY <1>0, <2>4 DEF Tour
    <3>2. a \in Addr /\ a # n
      BY <1>1, <1>2, <3>1
    <3>3. \A j \in LinkId : LinkAddress(g, a, j) = LinkAddress(f, a, j)
      BY <1>4, <3>2
    <3> QED
      BY <1>3, <2>3, <3>1, <3>3
  <2> QED
    BY <2>1, <2>2, <2>3, <2>4 DEF Tour
<1>8. Cover(g, r, V, S, a, i, D)
  <2>1. ASSUME NEW T \in SUBSET Addr, r \in D => r \in T,
               \A b \in T \cap D, c \in D : LinksTo(g, b, c) => c \in T
        PROVE  D \subseteq T
    <3>1. ASSUME NEW b \in T \cap D, NEW c \in D, LinksTo(f, b, c) PROVE c \in T
      <4>1. PICK j \in LinkId : f[b].link[j] = "valid" /\ LinkAddress(f, b, j) = c
        BY <3>1 DEF LinksTo
      <4>2. b \in Addr /\ b # n
        BY <1>1
      <4>3. LinksTo(g, b, c)
        BY <1>4, <4>1, <4>2 DEF LinksTo
      <4> QED
        BY <2>1, <4>3
    <3> QED
      BY <1>0, <2>1, <3>1 DEF Cover
  <2>2. ASSUME NEW b \in ToSet(V), NEW j \in LinkId,
               g[b].link[j] = "valid", LinkAddress(g, b, j) \in D
        PROVE  LinkAddress(g, b, j) \in Pushed(V, S) \/ (b = a /\ j >= i)
    <3>1. b \in W /\ b \in Addr /\ b # n
      BY <1>1, <1>2
    <3>2. LinkAddress(g, b, j) = LinkAddress(f, b, j)
      BY <1>4, <3>1
    <3>3. j = 0 /\ b + 1 = n => LinkAddress(g, b, j) = n
      BY DEF LinkAddress
    <3>4. f[b].link[j] = "valid"
      BY <1>1, <1>4, <2>2, <3>1, <3>3
    <3> QED
      BY <1>0, <2>2, <3>2, <3>4 DEF Cover
  <2> QED
    BY <1>1, <2>1, <2>2 DEF Cover
<1>9. OutOfTheWay(g, o, X, to, V, S, D)
  <2>1. /\ o.kind = "edit" => n \notin X
        /\ o.kind = "add" /\ n \in X => to[n] = n - 1
    BY <1>3, <1>5
  <2> QED
    BY <1>1, <1>4, <1>5, <2>1 DEF OutOfTheWay
<1>10. Toured(g, X, to, r, V, S, a, i, D)
  BY <1>3, <1>6, <1>7, <1>8 DEF Toured
<1> QED
  BY <1>9, <1>10

\* Each call of a write leaves main on its tour.
LEMMA ProgramFlashOnTour ==
    ASSUME StoreInv, LoadInv, ProgramFlash, UNCHANGED loadVars
    PROVE  LoadInv'
<1>0. /\ loading' = loading /\ stack' = stack /\ reading' = reading /\ link_id' = link_id
      /\ visited' = visited /\ late' = late /\ due' = due
  BY DEF loadVars
<1>1. CASE ~loading
  BY <1>0, <1>1 DEF LoadInv, NotLoading
<1>2. CASE loading
  <2> DEFINE f == flash
             g == flash'
             c == Head(op.todo)
  <2>1. PICK W, up, r : OnTour(W, up, r)
    BY <1>2 DEF LoadInv
  <2>2. op # Idle /\ op.todo # <<>> /\ Underway(op, flash, latest, cut)
    BY NothingRuns DEF ProgramFlash, StoreInv
  <2>3. op \in Operations
    BY <2>2 DEF Underway
  <2>4. /\ Toured(f, W, up, r, visited, stack, reading, link_id, due)
        /\ OutOfTheWay(f, op, W, up, visited, stack, due)
        /\ op.todo \in Seq(Harmless(f, op, due))
    BY <2>1, <2>2 DEF OnTour
  <2>5. c \in Harmless(f, op, due) /\ Tail(op.todo) \in Seq(Harmless(f, op, due))
    BY <2>2, <2>4, HeadAndTail
  <2>6. f \in Images /\ g \in Images /\ Clears(f, g) /\ g = Program(f, c)
    BY ProgramFlashKeeps DEF StoreInv, Safe, ProgramFlash
  <2>7. g[1].written
    BY <1>2, <2>6, AddrFacts DEF LoadInv, Clears, OnlyClearsBits
  <2>8. W \in SUBSET Addr
    BY <2>4 DEF Toured, Region
  <2> HIDE DEF f, g, c
  <2>10. Tended(f, g, op, W, due) /\ Harmless(f, op, due) \subseteq Harmless(g, op, due)
    BY <2>4, <2>5, <2>6, <2>8, CallTends
  <2>11. PICK X, to : /\ Toured(g, X, to, r, visited, stack, reading, link_id, due)
                      /\ OutOfTheWay(g, op, X, to, visited, stack, due)
    BY <2>4, <2>6, <2>10, TourGoesOn
  <2>12. op' # Idle => /\ OutOfTheWay(g, op', X, to, visited, stack, due)
                       /\ op'.todo \in Seq(Harmless(g, op', due))
    <3> SUFFICES ASSUME op' # Idle
                 PROVE  /\ OutOfTheWay(g, op', X, to, visited, stack, due)
                        /\ op'.todo \in Seq(Harmless(g, op', due))
      OBVIOUS
    <3>1. op' = [op EXCEPT !.todo = Tail(@)]
      BY DEF ProgramFlash
    <3>2. op'.todo = Tail(op.todo) /\ op'.at = op.at /\ op'.kind = op.kind
      BY <2>3, <3>1 DEF Operations
    <3>3. Harmless(g, op', due) = Harmless(g, op, due)
      BY <3>2 DEF Harmless
    <3>4. Tail(op.todo) \in Seq(Harmless(g, op, due))
      BY <2>5, <2>10
    <3>5. OutOfTheWay(g, op', X, to, visited, stack, due)
      BY <2>11, <3>2 DEF OutOfTheWay
    <3> QED
      BY <3>2, <3>3, <3>4, <3>5
  <2>13. OnTour(X, to, r)'
    BY <1>0, <2>11, <2>12 DEF OnTour, g
  <2> QED
    BY <1>0, <1>2, <2>7, <2>13 DEF LoadInv, g
<1> QED
  BY <1>1, <1>2

-----------------------------------------------------------------------------
\* A write begins.
LEMMA HarmlessCalls ==
    ASSUME NEW f, NEW o, NEW D, NEW a \in Addr
    PROVE  LET H == Harmless(f, o, D)
           IN  /\ ClearFlag(a, "data_valid") \in H /\ ClearFlag(a, "active") \in H
               /\ [at |-> a, part |-> "value"] \in H
               /\ \A to \in Addr : [at |-> a, part |-> "next_root", to |-> to] \in H
               /\ a # o.at =>
                     /\ o.kind = "add" /\ a + 1 = o.at => MarkLink(a, 0, "valid") \in H
                     /\ \A i \in LinkId : LinkAddress(f, a, i) \notin D =>
                           MarkLink(a, i, "invalid") \in H
  BY LinkIds DEF Harmless, Calls, ClearFlag, MarkLink, LinkStates

\* Writing the new node is harmless.
LEMMA HarmlessNode ==
    ASSUME NEW f \in Images, NEW o, NEW D, NEW n \in Addr, n = o.at, f[n] = Blank,
           NEW k \in Keys, NEW is_root \in BOOLEAN, NEW links \in Seq(Addr),
           o.kind = "add" => links = <<>>, o.kind \in {"add", "edit"}
    PROVE  WriteToAddress(n, k, is_root, links) \in Seq(Harmless(f, o, D))
<1> DEFINE H == Harmless(f, o, D)
           header == [at |-> n, part |-> "header", node |-> NewNode(k, is_root, Len(links))]
           to == [i \in LinkId |-> IF i \in DOMAIN links THEN links[i] ELSE NoAddr]
<1>1. header \in Calls
  <2>1. Len(links) \in Nat
    OBVIOUS
  <2> QED
    BY <2>1, WritesHeader DEF Writes
<1>2. o.kind = "add" => \A i \in LinkId : header.node.link[i] # "valid"
  BY LinkIds DEF NewNode
<1>3. header \in H
  BY <1>1, <1>2 DEF Harmless
<1>4. [at |-> n, part |-> "value"] \in H
  BY HarmlessCalls
<1>5. links # <<>> => [at |-> n, part |-> "links", to |-> to] \in H
  <2>1. to \in [LinkId -> Addr \cup {NoAddr}]
    OBVIOUS
  <2> HIDE DEF to
  <2> QED
    BY <2>1 DEF Harmless, Calls
<1> HIDE DEF H, header, to
<1>6. <<header, [at |-> n, part |-> "value"]>> \in Seq(H)
  BY <1>3, <1>4
<1>7. (IF links = <<>> THEN <<>> ELSE <<[at |-> n, part |-> "links", to |-> to]>>) \in Seq(H)
  BY <1>5
<1> QED
  BY <1>6, <1>7, JoinedSet DEF WriteToAddress, H, header, to

\* So are the calls of each kind of write.
LEMMA AddIsHarmless ==
    ASSUME NEW f \in Images, NEW g \in Addr, g + 1 \in Addr, f[g + 1] = Blank, NEW k \in Keys,
           NEW o, o.kind = "add", o.at = g + 1, NEW D, NEW b \in Addr
    PROVE  /\ AddGrowthNode(k, g) \in Seq(Harmless(f, o, D))
           /\ LeaveCarcass(k, g, b) \in Seq(Harmless(f, o, D))
<1> DEFINE H == Harmless(f, o, D)
<1>1. g # g + 1
  BY AddrFacts
<1>2. MarkLink(g, 0, "valid") \in H /\ ClearFlag(b, "data_valid") \in H
  BY <1>1, HarmlessCalls
<1>3. <<>> \in Seq(Addr) /\ FALSE \in BOOLEAN
  OBVIOUS
<1>4. WriteToAddress(g + 1, k, FALSE, <<>>) \in Seq(H)
  BY <1>3, HarmlessNode
<1> HIDE DEF H
<1>5. AddGrowthNode(k, g) \in Seq(H)
  <2>1. <<MarkLink(g, 0, "valid")>> \in Seq(H)
    BY <1>2
  <2> QED
    BY <1>4, <2>1, JoinedSet DEF AddGrowthNode
<1>6. LeaveCarcass(k, g, b) \in Seq(H)
  <2>1. <<ClearFlag(b, "data_valid")>> \in Seq(H)
    BY <1>2
  <2> QED
    BY <1>5, <2>1, JoinedSet DEF LeaveCarcass
<1> QED
  BY <1>5, <1>6 DEF H

LEMMA EditIsHarmless ==
    ASSUME NEW f, NEW C, NEW R, NEW r, Stage(f, C, R, r),
           NEW g \in R, g + 1 \in Addr, g + 1 \notin R, f[g + 1] = Blank, NEW k \in Keys,
           NEW node, node = FindNode(f, r, k), node # NoAddr, TakesOver(f, r, node),
           NEW o, o.kind = "edit", o.at = g + 1, NEW D, node \notin D, g + 1 \notin D
    PROVE  ReplaceByNewRoot(f, k, r, g, node) \in Seq(Harmless(f, o, D))
<1> DEFINE H == Harmless(f, o, D)
           n == g + 1
           parent == FindParent(f, r, node)
           links == LinksTakenOver(f, r, node)
<1>1. f \in Images /\ R \subseteq Addr /\ r \in R
  BY DEF Stage, Tree
<1>2. node \in R /\ (parent = NoAddr \/ (parent \in R /\ LinksTo(f, parent, node)))
  BY ParentFound
<1>3. links \in Seq(R)
  BY <1>2, LinksOfNewRoot
<1> HIDE DEF parent, links
<1>4. <<ClearFlag(node, "data_valid")>> \in Seq(H)
  <2>1. ClearFlag(node, "data_valid") \in H
    BY <1>1, <1>2, HarmlessCalls
  <2> HIDE DEF H
  <2> QED
    BY <2>1
<1>5. DetachFromParent(f, parent, node) \in Seq(H)
  <2>1. CASE parent = NoAddr
    BY <2>1 DEF DetachFromParent
  <2>2. CASE parent \in R /\ LinksTo(f, parent, node)
    <3>1. PICK i \in LinkId :
             /\ DetachFromParent(f, parent, node) = <<MarkLink(parent, i, "invalid")>>
             /\ LinkAddress(f, parent, i) = node
      BY <1>2, <2>2, LinkOfParent
    <3>2. MarkLink(parent, i, "invalid") \in H
      <4>1. parent \in Addr /\ parent # n
        BY <1>1, <2>2
      <4> QED
        BY <3>1, <4>1, HarmlessCalls
    <3> HIDE DEF H
    <3> QED
      BY <3>1, <3>2
  <2> QED
    BY <1>2, <2>1, <2>2
<1>6. CloseGrowthLink(g) \in Seq(H)
  <2>1. g \in Addr /\ g # n /\ LinkAddress(f, g, 0) = n
    BY <1>1 DEF LinkAddress
  <2>2. MarkLink(g, 0, "invalid") \in H
    BY <2>1, LinkIds, HarmlessCalls
  <2> HIDE DEF H
  <2> QED
    BY <2>2 DEF CloseGrowthLink
<1>7. WriteToAddress(n, k, TRUE, links) \in Seq(H)
  <2>1. links \in Seq(Addr) /\ TRUE \in BOOLEAN
    BY <1>1, <1>3
  <2> QED
    BY <1>1, <2>1, HarmlessNode
<1>8. PointNextRootLinkTo(r, n) \in Seq(H)
  <2>1. ClearFlag(r, "active") \in H /\ [at |-> r, part |-> "next_root", to |-> n] \in H
    BY <1>1, HarmlessCalls
  <2> HIDE DEF H, n
  <2> QED
    BY <2>1 DEF PointNextRootLinkTo
<1> HIDE DEF H, n
<1>9. <<ClearFlag(node, "data_valid")>> \o DetachFromParent(f, parent, node) \in Seq(H)
  BY <1>4, <1>5, JoinedSet
<1>10. (<<ClearFlag(node, "data_valid")>> \o DetachFromParent(f, parent, node))
          \o CloseGrowthLink(g) \in Seq(H)
  BY <1>6, <1>9, JoinedSet
<1>11. ((<<ClearFlag(node, "data_valid")>> \o DetachFromParent(f, parent, node))
          \o CloseGrowthLink(g)) \o WriteToAddress(n, k, TRUE, links) \in Seq(H)
  BY <1>7, <1>10, JoinedSet
<1>12. (((<<ClearFlag(node, "data_valid")>> \o DetachFromParent(f, parent, node))
          \o CloseGrowthLink(g)) \o WriteToAddress(n, k, TRUE, links))
          \o PointNextRootLinkTo(r, n) \in Seq(H)
  BY <1>8, <1>11, JoinedSet
<1> QED
  BY <1>12 DEF ReplaceByNewRoot, H, n, parent, links

\* A whole subtree can be let go.
LEMMA CoverShrinks ==
    ASSUME NEW f, NEW r, NEW V, NEW S, NEW a, NEW i, NEW D, Cover(f, r, V, S, a, i, D),
           NEW T, Closed(f, T)
    PROVE  Cover(f, r, V, S, a, i, D \ T)
<1>1. D \subseteq Addr
  BY DEF Cover
<1>2. ASSUME NEW U \in SUBSET Addr, r \in D \ T => r \in U,
             \A b \in U \cap (D \ T), c \in D \ T : LinksTo(f, b, c) => c \in U
      PROVE  D \ T \subseteq U
  <2> DEFINE P == U \cup (T \cap D)
  <2>1. P \in SUBSET Addr /\ (r \in D => r \in P)
    BY <1>1, <1>2
  <2>2. \A b \in P \cap D, c \in D : LinksTo(f, b, c) => c \in P
    BY <1>2 DEF Closed, LinksTo
  <2> HIDE DEF P
  <2>3. D \subseteq P
    BY <2>1, <2>2 DEF Cover
  <2> QED
    BY <2>3 DEF P
<1>3. \A b \in ToSet(V) : \A j \in LinkId :
         f[b].link[j] = "valid" /\ LinkAddress(f, b, j) \in D \ T
           => LinkAddress(f, b, j) \in Pushed(V, S) \/ (b = a /\ j >= i)
  BY DEF Cover
<1> QED
  BY <1>1, <1>2, <1>3 DEF Cover

\* What is visited or due lies before the growth node.
LEMMA NodesInRegion ==
    ASSUME NEW f \in Images, NEW W, NEW up, NEW r, NEW V, NEW S, NEW a, NEW i, NEW D,
           Toured(f, W, up, r, V, S, a, i, D)
    PROVE  /\ W \subseteq Addr /\ D \subseteq W /\ Pushed(V, S) \subseteq W
           /\ \A b \in W, g \in Addr : IsGrowthNode(f[g]) => b <= g
<1>1. /\ W \subseteq Addr /\ r \in W
      /\ \A b \in W : Allocated(f, b)
      /\ \A b \in W : \A c : LinksTo(f, b, c) => c \in W
  BY DEF Toured, Region
<1>2. D \subseteq W
  BY <1>1 DEF Toured, Cover
<1>3. Pushed(V, S) \subseteq W
  <2>1. V \in Seq(W) /\ S \in Seq(W)
    BY DEF Toured, Tour
  <2> QED
    BY <2>1 DEF Pushed, ToSet
<1>4. ASSUME NEW b \in W, NEW g \in Addr, IsGrowthNode(f[g]) PROVE b <= g
  <2>1. b \in Addr /\ ~(g < b) /\ Addr \subseteq Nat
    BY <1>1, <1>4, AddrFacts DEF Allocated
  <2> QED
    BY <2>1
<1> QED
  BY <1>1, <1>2, <1>3, <1>4

\* A write that begins lets go of the subtree that it replaces.
LEMMA RemoteWriteOnTour ==
    ASSUME StoreInv, LoadInv, NEW k \in Keys, RemoteWrite(k)
    PROVE  LoadInv'
<1>0. /\ WriteKey(k)
      /\ loading' = loading /\ stack' = stack /\ reading' = reading /\ link_id' = link_id
      /\ visited' = visited /\ due' = due \ Replaced(op')
      /\ late' = IF loading THEN late + 1 ELSE late
  BY DEF RemoteWrite
<1>1. CASE ~loading
  BY <1>0, <1>1 DEF LoadInv, NotLoading
<1>2. CASE loading
  <2> DEFINE f == flash
             r == root_node_addr
             g == growth_node_addr
             n == g + 1
             node == FindNode(f, r, k)
             o == op'
             D == due'
  <2>1. /\ op = Idle /\ f[1].written /\ r # NoAddr /\ g # NoAddr /\ g < Capacity
        /\ flash' = f
    BY <1>0, <1>2 DEF WriteKey, Start, LoadInv
  <2>2. /\ o.key = k /\ o.at = n
        /\ \/ o.kind = "add" /\ node = NoAddr /\ o.todo = AddGrowthNode(k, g)
           \/ o.kind = "add" /\ node # NoAddr /\ o.todo = LeaveCarcass(k, g, node)
           \/ /\ o.kind = "edit" /\ node # NoAddr /\ TakesOver(f, r, node)
              /\ o.todo = ReplaceByNewRoot(f, k, r, g, node)
    BY <1>0, <2>1 DEF WriteKey, Start
  <2>3. PICK W, up, r0 : Toured(f, W, up, r0, visited, stack, reading, link_id, due)
    BY <1>2 DEF LoadInv, OnTour
  <2>4. Safe(f) /\ r = FindActiveRootNode(f) /\ g = FindGrowthNode(f, r)
    BY <2>1 DEF StoreInv, AtRest
  <2>5. PICK C, R : Stage(f, C, R, r)
    BY <2>1, <2>4, BootFinds
  <2>6. f \in Images /\ R \subseteq Addr /\ GrowthClosed(f) /\ \A a \in R : Allocated(f, a)
    BY <2>5 DEF Stage, Tree
  <2>7. g \in R /\ g \in Addr /\ IsGrowthNode(f[g]) /\ n \in Addr
    BY <2>1, <2>4, <2>5, GrowthFound, AddrFacts
  <2>8. f[n] = Blank /\ n \notin R
    <3>1. g < n
      BY <2>7, AddrFacts
    <3> QED
      BY <2>6, <2>7, <3>1 DEF GrowthClosed, Allocated
  <2>9. /\ W \subseteq Addr /\ due \subseteq W /\ Pushed(visited, stack) \subseteq W
        /\ n \notin W
    <3>1. /\ W \subseteq Addr /\ due \subseteq W /\ Pushed(visited, stack) \subseteq W
          /\ \A b \in W : b <= g
      BY <2>3, <2>6, <2>7, NodesInRegion
    <3>2. ~(n <= g)
      BY <2>7, AddrFacts
    <3> QED
      BY <3>1, <3>2
  <2>10. node # NoAddr => node \in R /\ Reached(f, r, node)
    BY <2>5, ParentFound
  <2>11. D = due \/ (o.kind = "edit" /\ node # NoAddr /\ D = due \ ToSet(Traversal(f, node)))
    BY <1>0, <2>2 DEF Replaced
  <2>12. o.kind = "edit" => node \notin D
    <3> SUFFICES ASSUME o.kind = "edit" PROVE node \notin D
      OBVIOUS
    <3>1. D = due \ ToSet(Traversal(f, node)) /\ node # NoAddr
      BY <1>0, <2>2 DEF Replaced
    <3> QED
      BY <2>5, <2>10, <3>1, SubtreeVisited
  <2> HIDE DEF f, r, g, n, node, o, D
  <2>13. Cover(f, r0, visited, stack, reading, link_id, D)
    <3>1. Cover(f, r0, visited, stack, reading, link_id, due)
      BY <2>3 DEF Toured
    <3>2. CASE node # NoAddr /\ D = due \ ToSet(Traversal(f, node))
      <4>1. Closed(f, ToSet(Traversal(f, node)))
        BY <2>5, <2>10, <3>2, SubtreeVisited
      <4> QED
        BY <3>1, <3>2, <4>1, CoverShrinks
    <3> QED
      BY <2>11, <3>1, <3>2
  <2>14. Toured(f, W, up, r0, visited, stack, reading, link_id, D)
    BY <2>3, <2>13 DEF Toured
  <2>15. D \subseteq due
    BY <2>11
  <2>16. OutOfTheWay(f, o, W, up, visited, stack, D)
    <3>1. \A i \in LinkId : f[n].link[i] # "valid"
      BY <2>8, BlankFacts
    <3> QED
      BY <2>2, <2>7, <2>9, <2>15, <3>1 DEF OutOfTheWay
  <2>17. o.todo \in Seq(Harmless(f, o, D))
    <3>1. CASE o.kind = "add" /\ node = NoAddr /\ o.todo = AddGrowthNode(k, g)
      BY <2>2, <2>6, <2>7, <2>8, <3>1, AddIsHarmless DEF n
    <3>2. CASE o.kind = "add" /\ node # NoAddr /\ o.todo = LeaveCarcass(k, g, node)
      <4>1. node \in Addr
        BY <2>6, <2>10, <3>2
      <4> QED
        BY <2>2, <2>6, <2>7, <2>8, <3>2, <4>1, AddIsHarmless DEF n
    <3>3. CASE /\ o.kind = "edit" /\ node # NoAddr /\ TakesOver(f, r, node)
               /\ o.todo = ReplaceByNewRoot(f, k, r, g, node)
      <4>1. n \notin D /\ node \notin D
        BY <2>9, <2>12, <2>15, <3>3
      <4>2. node = FindNode(f, r, k)
        BY DEF node
      <4> QED
        BY <2>2, <2>5, <2>7, <2>8, <3>3, <4>1, <4>2, EditIsHarmless DEF n
    <3> QED
      BY <2>2, <3>1, <3>2, <3>3
  <2>18. OnTour(W, up, r0)'
    BY <1>0, <2>1, <2>14, <2>16, <2>17 DEF OnTour, f, o, D
  <2> QED
    BY <1>0, <1>2, <2>1, <2>18 DEF LoadInv, f
<1> QED
  BY <1>1, <1>2

-----------------------------------------------------------------------------
\* main goes on.
\* FindNext finds the first valid link from j on.
LEMMA LinkFound ==
    ASSUME NEW a, NEW j \in Nat
    PROVE  LET i == FindNext(a, j)
           IN  /\ i \in Nat
               /\ i \in LinkId =>
                     flash[a].link[i] = "valid" /\ i >= j /\ i % MAX_NUM_CHILD_NODES = i
               /\ \A m \in LinkId : m >= j /\ flash[a].link[m] = "valid" => i \in LinkId /\ i <= m
<1> DEFINE N == MAX_NUM_CHILD_NODES
           I == {m \in LinkId : m >= j /\ flash[a].link[m] = "valid"}
           i == FindNext(a, j)
<1>1. N \in Nat /\ LinkId \subseteq Nat /\ \A m \in LinkId : m < N
  BY LinkIds DEF LinkId
<1>2. I \cup {N} \in SUBSET Nat /\ I \cup {N} # {}
  BY <1>1
<1>3. i = CHOOSE m \in I \cup {N} : \A y \in I \cup {N} : m <= y
  BY DEF FindNext, Min
<1> HIDE DEF i
<1>4. i \in I \cup {N} /\ \A y \in I \cup {N} : i <= y
  <2>1. \E m \in I \cup {N} : \A y \in I \cup {N} : m <= y
    BY <1>2, LeastExists
  <2> QED
    BY <1>3, <2>1
<1>5. i \in Nat /\ (i \in LinkId => i \in I)
  <2>1. N \notin LinkId
    BY <1>1
  <2> QED
    BY <1>1, <1>4, <2>1
<1>6. ASSUME NEW m \in I PROVE i \in LinkId /\ i <= m
  BY <1>1, <1>4
<1>7. i \in LinkId => i % N = i
  BY <1>1, <1>5
<1> QED
  BY <1>5, <1>6, <1>7 DEF i

\* The tour is that of the tree that is stored when main begins.
LEMMA BeginLoadOnTour ==
    ASSUME StoreInv, LoadInv, BeginLoad
    PROVE  LoadInv'
<1> DEFINE f == flash
           r == root_node_addr
           D == ToSet(Traversal(f, r))
<1>1. /\ op = Idle /\ ~loading /\ f[1].written /\ r # NoAddr
      /\ loading' = TRUE /\ stack' = <<r>> /\ due' = D
      /\ flash' = f /\ op' = op
      /\ reading' = reading /\ link_id' = link_id /\ visited' = visited
  BY DEF BeginLoad, vars
<1>2. reading = NoAddr /\ link_id = 0 /\ visited = <<>>
  BY <1>1 DEF LoadInv, NotLoading
<1>3. Safe(f) /\ r = FindActiveRootNode(f)
  BY <1>1 DEF StoreInv, AtRest
<1>4. PICK C, R : Stage(f, C, R, r)
  BY <1>1, <1>3, BootFinds
<1>5. /\ f \in Images /\ R \subseteq Addr /\ r \in R /\ Tree(f, R, r)
      /\ \A a \in R : Allocated(f, a)
  BY <1>4 DEF Stage, Tree
<1>6. /\ \A a : a \in D <=> Reached(f, r, a)
      /\ D \subseteq R
  BY <1>4, Visits
<1> HIDE DEF f, r, D
<1> DEFINE up == [c \in Addr |-> IF \E a \in R : LinksTo(f, a, c)
                                   THEN CHOOSE a \in R : LinksTo(f, a, c) ELSE NoAddr]
<1>7. /\ up \in [Addr -> Addr \cup {NoAddr}]
      /\ \A a \in R : \A c \in Addr : LinksTo(f, a, c) => up[c] \in R /\ LinksTo(f, up[c], c)
  BY <1>5
<1> HIDE DEF up
<1>8. Region(f, R, up, r)
  <2>1. ASSUME NEW a \in R, NEW c, LinksTo(f, a, c) PROVE c \in R /\ c # r /\ up[c] = a
    <3>1. c \in R /\ c # r /\ \A b \in R : LinksTo(f, b, c) => a = b
      BY <1>5, <2>1, OneParent
    <3> QED
      BY <1>5, <1>7, <2>1, <3>1
  <2> QED
    BY <1>5, <2>1 DEF Region
<1>9. /\ ToSet(<<>>) = {} /\ IsInjective(<<>>)
      /\ ToSet(<<r>>) = {r} /\ IsInjective(<<r>>)
  BY DEF ToSet, IsInjective
<1>10. Tour(f, R, up, r, <<>>, <<r>>, NoAddr, 0)
  <2>1. <<>> \in Seq(R) /\ <<r>> \in Seq(R)
    BY <1>5
  <2> QED
    BY <1>9, <2>1 DEF Tour, Pushed
<1>11. Cover(f, r, <<>>, <<r>>, NoAddr, 0, D)
  <2>1. ASSUME NEW T \in SUBSET Addr, r \in D => r \in T,
               \A b \in T \cap D, c \in D : LinksTo(f, b, c) => c \in T
        PROVE  D \subseteq T
    <3> DEFINE S == T \cap D
    <3>1. r \in S /\ S \in SUBSET Addr
      BY <1>6, <2>1, RootIsReached
    <3>2. Closed(f, S)
      <4> SUFFICES ASSUME NEW a \in S, NEW i \in LinkId, f[a].link[i] = "valid"
                   PROVE  LinkAddress(f, a, i) \in S
        BY DEF Closed
      <4>1. LinkAddress(f, a, i) \in D
        BY <1>6 DEF Reached, Closed
      <4> QED
        BY <2>1, <4>1 DEF LinksTo
    <3> QED
      BY <1>6, <3>1, <3>2 DEF Reached
  <2> QED
    BY <1>5, <1>6, <1>9, <2>1 DEF Cover
<1>12. Toured(f, R, up, r, <<>>, <<r>>, NoAddr, 0, D)
  BY <1>7, <1>8, <1>10, <1>11 DEF Toured
<1>13. PICK W, to, r0 : Toured(f, W, to, r0, <<>>, <<r>>, NoAddr, 0, D)
  BY <1>12
<1>14. OnTour(W, to, r0)'
  <2>1. Toured(flash', W, to, r0, visited', stack', reading', link_id', due')
    BY <1>1, <1>2, <1>13
  <2>2. op' = Idle
    BY <1>1
  <2> QED
    BY <2>1, <2>2 DEF OnTour
<1> QED
  BY <1>1, <1>14 DEF LoadInv, f

\* A node is visited once: no other node was pushed from it before.
LEMMA VisitNodeOnTour ==
    ASSUME StoreInv, LoadInv, VisitNode
    PROVE  LoadInv'
<1> DEFINE f == flash
           V == visited
           S == stack
           D == due
           x == Head(S)
           i == FindNext(x, 0)
           a == IF i \in LinkId THEN x ELSE NoAddr
           b0 == i % MAX_NUM_CHILD_NODES
<1>1. /\ op = Idle /\ reading = NoAddr /\ S # <<>>
      /\ stack' = Tail(S) /\ visited' = Append(V, x)
      /\ link_id' = b0 /\ reading' = a
      /\ flash' = f /\ op' = op /\ loading' = loading /\ due' = D
  BY DEF VisitNode, GoOnWith, vars
<1>2. loading /\ f[1].written
  BY <1>1 DEF LoadInv, NotLoading
<1>3. PICK W, up, r : Toured(f, W, up, r, V, S, NoAddr, link_id, D)
  BY <1>1, <1>2 DEF LoadInv, OnTour
<1>4. /\ up \in [Addr -> Addr \cup {NoAddr}] /\ Region(f, W, up, r)
      /\ Tour(f, W, up, r, V, S, NoAddr, link_id) /\ Cover(f, r, V, S, NoAddr, link_id, D)
  BY <1>3 DEF Toured
<1>5. /\ i \in LinkId => f[x].link[i] = "valid" /\ b0 = i
      /\ \A m \in LinkId : f[x].link[m] = "valid" => i \in LinkId /\ m >= i
  <2>1. \A m \in LinkId : m >= 0
    BY LinkIds
  <2> QED
    BY <2>1, LinkFound
<1>6. /\ V \in Seq(W) /\ S \in Seq(W) /\ IsInjective(V) /\ IsInjective(S)
      /\ ToSet(V) \cap ToSet(S) = {}
      /\ r \in Pushed(V, S)
      /\ \A c \in Pushed(V, S) : c # r => up[c] \in ToSet(V)
  BY <1>4 DEF Tour
<1> HIDE DEF f, V, S, D, i, x, a, b0
<1>7. /\ x \in W /\ Tail(S) \in Seq(W)
      /\ ToSet(S) = {x} \cup ToSet(Tail(S))
      /\ x \notin ToSet(Tail(S)) /\ IsInjective(Tail(S))
  BY <1>1, <1>6, HeadAndTail DEF x
<1>8. /\ Append(V, x) \in Seq(W)
      /\ ToSet(Append(V, x)) = ToSet(V) \cup {x}
      /\ x \notin ToSet(V)
      /\ IsInjective(Append(V, x))
  <2>1. x \notin ToSet(V)
    BY <1>6, <1>7
  <2> QED
    BY <1>6, <1>7, <2>1, AppendedSet
<1>9. Pushed(Append(V, x), Tail(S)) = Pushed(V, S)
  BY <1>7, <1>8 DEF Pushed
<1>10. x \in Addr /\ x # NoAddr /\ W \subseteq Addr /\ NoAddr \notin ToSet(V)
  <2>1. W \subseteq Addr
    BY <1>4 DEF Region
  <2>2. \A c \in ToSet(V) : c \in W
    BY <1>6 DEF ToSet
  <2> QED
    BY <1>7, <2>1, <2>2, AddrFacts
<1>11. Tour(f, W, up, r, Append(V, x), Tail(S), a, b0)
  <2>1. ASSUME a # NoAddr
        PROVE  LET next == LinkAddress(f, a, b0)
               IN  /\ a \in ToSet(Append(V, x)) /\ b0 \in LinkId
                   /\ next \in W /\ next # r /\ up[next] = a
                   /\ \A c \in Pushed(Append(V, x), Tail(S)) : c # r /\ up[c] = a =>
                         \A j \in LinkId : j >= b0 => LinkAddress(f, a, j) # c
    <3>1. a = x /\ b0 = i /\ i \in LinkId /\ f[x].link[i] = "valid"
      BY <1>5, <2>1 DEF a
    <3>2. LET next == LinkAddress(f, x, i) IN next \in W /\ next # r /\ up[next] = x
      BY <1>4, <1>7, <3>1 DEF Region, LinksTo
    <3>3. \A c \in Pushed(V, S) : c # r => up[c] # x
      BY <1>6, <1>8
    <3> QED
      BY <1>8, <1>9, <3>1, <3>2, <3>3
  <2> QED
    BY <1>6, <1>7, <1>8, <1>9, <2>1 DEF Tour
<1>12. Cover(f, r, Append(V, x), Tail(S), a, b0, D)
  <2>1. ASSUME NEW b \in ToSet(Append(V, x)), NEW j \in LinkId,
               f[b].link[j] = "valid", LinkAddress(f, b, j) \in D
        PROVE  LinkAddress(f, b, j) \in Pushed(V, S) \/ (b = a /\ j >= b0)
    <3>1. CASE b \in ToSet(V)
      BY <1>4, <1>10, <2>1, <3>1 DEF Cover
    <3>2. CASE b = x
      <4>1. i \in LinkId /\ j >= i
        BY <1>5, <2>1, <3>2
      <4> QED
        BY <1>5, <3>2, <4>1 DEF a
    <3> QED
      BY <1>8, <2>1, <3>1, <3>2
  <2> QED
    BY <1>4, <1>9, <2>1 DEF Cover
<1>13. Toured(f, W, up, r, Append(V, x), Tail(S), a, b0, D)
  BY <1>4, <1>11, <1>12 DEF Toured
<1>14. OnTour(W, up, r)'
  <2>1. Toured(flash', W, up, r, visited', stack', reading', link_id', due')
    BY <1>1, <1>13
  <2> QED
    BY <1>1, <2>1 DEF OnTour
<1> QED
  BY <1>1, <1>2, <1>14 DEF LoadInv

LEMMA PushedOnTop ==
    ASSUME NEW W, NEW s \in Seq(W), IsInjective(s), NEW y \in W, y \notin ToSet(s)
    PROVE  /\ <<y>> \o s \in Seq(W) /\ ToSet(<<y>> \o s) = {y} \cup ToSet(s)
           /\ IsInjective(<<y>> \o s)
<1> DEFINE t == <<y>>
<1>1. t \in Seq(W) /\ ToSet(t) = {y} /\ IsInjective(t)
  BY DEF ToSet, IsInjective
<1> HIDE DEF t
<1>2. ToSet(t) \cap ToSet(s) = {}
  BY <1>1
<1>3. t \o s \in Seq(W) /\ ToSet(t \o s) = ToSet(t) \cup ToSet(s) /\ IsInjective(t \o s)
  BY <1>1, <1>2, JoinedSet
<1> QED
  BY <1>1, <1>3 DEF t

\* The node that is pushed was not pushed before, whether its link is still valid
\* or not.
LEMMA PushChildOnTour ==
    ASSUME StoreInv, LoadInv, PushChild
    PROVE  LoadInv'
<1> DEFINE f == flash
           V == visited
           S == stack
           D == due
           x == reading
           i == link_id
           y == LinkAddress(f, x, i)
           T == <<y>> \o S
           m == FindNext(x, i + 1)
           a == IF m \in LinkId THEN x ELSE NoAddr
           b0 == m % MAX_NUM_CHILD_NODES
<1>1. /\ op = Idle /\ x # NoAddr
      /\ stack' = T /\ visited' = V
      /\ link_id' = b0 /\ reading' = a
      /\ flash' = f /\ op' = op /\ loading' = loading /\ due' = D
  BY DEF PushChild, GoOnWith, vars
<1>2. loading /\ f[1].written
  BY <1>1 DEF LoadInv, NotLoading
<1>3. PICK W, up, r : Toured(f, W, up, r, V, S, x, i, D)
  BY <1>1, <1>2 DEF LoadInv, OnTour
<1>4. /\ up \in [Addr -> Addr \cup {NoAddr}] /\ Region(f, W, up, r)
      /\ Tour(f, W, up, r, V, S, x, i) /\ Cover(f, r, V, S, x, i, D)
  BY <1>3 DEF Toured
<1>5. /\ V \in Seq(W) /\ S \in Seq(W) /\ IsInjective(V) /\ IsInjective(S)
      /\ ToSet(V) \cap ToSet(S) = {}
      /\ r \in Pushed(V, S)
      /\ \A c \in Pushed(V, S) : c # r => up[c] \in ToSet(V)
      /\ x \in ToSet(V) /\ i \in LinkId
      /\ y \in W /\ y # r /\ up[y] = x
      /\ \A c \in Pushed(V, S) : c # r /\ up[c] = x =>
            \A j \in LinkId : j >= i => LinkAddress(f, x, j) # c
  BY <1>1, <1>4 DEF Tour
<1>6. /\ i \in Nat /\ LinkId \subseteq Nat
      /\ m \in LinkId => f[x].link[m] = "valid" /\ b0 = m /\ m > i
      /\ \A j \in LinkId : f[x].link[j] = "valid" /\ j > i => m \in LinkId /\ j >= m
  <2>1. i \in Nat /\ i + 1 \in Nat /\ LinkId \subseteq Nat
    BY <1>5, LinkIds
  <2>2. /\ m \in Nat
        /\ m \in LinkId => f[x].link[m] = "valid" /\ b0 = m /\ m >= i + 1
        /\ \A j \in LinkId : j >= i + 1 /\ f[x].link[j] = "valid" => m \in LinkId /\ m <= j
    BY <2>1, LinkFound
  <2> QED
    BY <2>1, <2>2
<1>7. /\ W \subseteq Addr /\ x \in W /\ x \in Addr /\ y \in Addr /\ NoAddr \notin Addr
      /\ NoAddr \notin ToSet(V)
  <2>1. W \subseteq Addr
    BY <1>4 DEF Region
  <2>2. \A c \in ToSet(V) : c \in W
    BY <1>5 DEF ToSet
  <2> QED
    BY <1>5, <2>1, <2>2, AddrFacts
\* The links of a node lead to different nodes.
<1>8. \A j \in LinkId : j > i => LinkAddress(f, x, j) # y
  <2> SUFFICES ASSUME NEW j \in LinkId, j > i, LinkAddress(f, x, j) = y PROVE FALSE
    OBVIOUS
  <2>1. LinksDown(f)
    BY DEF StoreInv, Safe
  <2>2. j # 0 /\ f[x].to[j] = y /\ f[x].to[j] < x
    BY <1>6, <1>7, <2>1 DEF LinkAddress, LinksDown
  <2>3. i # 0
    BY <1>7, <2>2, AddrFacts DEF LinkAddress
  <2>4. f[x].to[i] = y
    BY <2>3 DEF LinkAddress
  <2>5. i = j
    BY <1>5, <1>7, <2>1, <2>2, <2>4 DEF LinksDown
  <2> QED
    BY <1>6, <2>5
<1> HIDE DEF f, V, S, D, i, x, y, T, m, a, b0
<1>9. y \notin Pushed(V, S)
  BY <1>5, <1>6 DEF y
<1>10. /\ T \in Seq(W) /\ ToSet(T) = {y} \cup ToSet(S) /\ IsInjective(T)
       /\ Pushed(V, T) = Pushed(V, S) \cup {y}
  <2>1. y \notin ToSet(S)
    BY <1>9 DEF Pushed
  <2>2. T \in Seq(W) /\ ToSet(T) = {y} \cup ToSet(S) /\ IsInjective(T)
    BY <1>5, <2>1, PushedOnTop DEF T
  <2> QED
    BY <2>2 DEF Pushed
<1>11. Tour(f, W, up, r, V, T, a, b0)
  <2>1. ASSUME a # NoAddr
        PROVE  LET next == LinkAddress(f, a, b0)
               IN  /\ a \in ToSet(V) /\ b0 \in LinkId
                   /\ next \in W /\ next # r /\ up[next] = a
                   /\ \A c \in Pushed(V, T) : c # r /\ up[c] = a =>
                         \A j \in LinkId : j >= b0 => LinkAddress(f, a, j) # c
    <3>1. a = x /\ b0 = m /\ m \in LinkId /\ f[x].link[m] = "valid" /\ m > i
      BY <1>6, <2>1 DEF a
    <3>2. LET next == LinkAddress(f, x, m) IN next \in W /\ next # r /\ up[next] = x
      BY <1>4, <1>7, <3>1 DEF Region, LinksTo
    <3>3. \A j \in LinkId : j >= m => j > i /\ j >= i
      BY <1>6, <3>1
    <3>4. ASSUME NEW c \in Pushed(V, T), c # r, up[c] = x, NEW j \in LinkId, j >= m
          PROVE  LinkAddress(f, x, j) # c
      BY <1>5, <1>8, <1>10, <3>3, <3>4
    <3> QED
      BY <1>5, <3>1, <3>2, <3>4
  <2>2. ToSet(V) \cap ToSet(T) = {}
    BY <1>5, <1>9, <1>10 DEF Pushed
  <2>3. r \in Pushed(V, T) /\ \A c \in Pushed(V, T) : c # r => up[c] \in ToSet(V)
    BY <1>5, <1>10
  <2> QED
    BY <1>5, <1>10, <2>1, <2>2, <2>3 DEF Tour
<1>12. Cover(f, r, V, T, a, b0, D)
  <2>1. ASSUME NEW b \in ToSet(V), NEW j \in LinkId,
               f[b].link[j] = "valid", LinkAddress(f, b, j) \in D
        PROVE  LinkAddress(f, b, j) \in Pushed(V, T) \/ (b = a /\ j >= b0)
    <3>1. LinkAddress(f, b, j) \in Pushed(V, S) \/ (b = x /\ j >= i)
      BY <1>4, <2>1 DEF Cover
    <3>2. CASE b = x /\ j >= i
      <4>1. CASE j = i
        BY <1>10, <3>2, <4>1 DEF y
      <4>2. CASE j > i
        BY <1>6, <2>1, <3>2, <4>2 DEF a
      <4> QED
        BY <1>6, <3>2, <4>1, <4>2
    <3> QED
      BY <1>10, <3>1, <3>2
  <2> QED
    BY <1>4, <2>1 DEF Cover
<1>13. Toured(f, W, up, r, V, T, a, b0, D)
  BY <1>4, <1>11, <1>12 DEF Toured
<1>14. OnTour(W, up, r)'
  <2>1. Toured(flash', W, up, r, visited', stack', reading', link_id', due')
    BY <1>1, <1>13
  <2> QED
    BY <1>1, <2>1 DEF OnTour
<1> QED
  BY <1>1, <1>2, <1>14 DEF LoadInv

-----------------------------------------------------------------------------
LEMMA LoadInvKept ==
    ASSUME StoreInv, LoadInv, [LoadNext]_loadingVars
    PROVE  LoadInv'
<1>1. CASE \E k \in Keys : RemoteWrite(k)
  BY <1>1, RemoteWriteOnTour
<1>2. CASE ProgramFlash /\ UNCHANGED loadVars
  BY <1>2, ProgramFlashOnTour
<1>3. CASE StopsLoading
  BY <1>3 DEF StopsLoading, LoadInv, NotLoading
<1>4. CASE BeginLoad
  BY <1>4, BeginLoadOnTour
<1>5. CASE VisitNode
  BY <1>5, VisitNodeOnTour
<1>6. CASE PushChild
  BY <1>6, PushChildOnTour
<1>7. CASE UNCHANGED loadingVars
  BY <1>7 DEF loadingVars, loadVars, vars, LoadInv, NotLoading, OnTour
<1> QED
  BY <1>1, <1>2, <1>3, <1>4, <1>5, <1>6, <1>7 DEF LoadNext, EndLoad

\* At the end of the tour nothing that is due is left.
LEMMA LoadInvMissesOnlyEdited == LoadInv => LoadMissesOnlyEdited
<1> SUFFICES ASSUME LoadInv, loading, op = Idle, stack = <<>>, reading = NoAddr
             PROVE  due \subseteq ToSet(visited) /\ IsInjective(visited)
  BY DEF LoadMissesOnlyEdited
<1> DEFINE V == visited
           D == due
<1>1. PICK W, up, r : Toured(flash, W, up, r, V, <<>>, NoAddr, link_id, D)
  BY DEF LoadInv, OnTour
<1>2. /\ V \in Seq(W) /\ IsInjective(V) /\ r \in Pushed(V, <<>>)
      /\ W \subseteq Addr
      /\ Cover(flash, r, V, <<>>, NoAddr, link_id, D)
  BY <1>1 DEF Toured, Tour, Region
<1> HIDE DEF V, D
<1>3. Pushed(V, <<>>) = ToSet(V)
  BY DEF Pushed, ToSet
<1>4. ToSet(V) \subseteq W /\ ToSet(V) \in SUBSET Addr /\ NoAddr \notin ToSet(V)
  <2>1. \A c \in ToSet(V) : c \in W
    BY <1>2 DEF ToSet
  <2> QED
    BY <1>2, <2>1, AddrFacts
<1>5. \A b \in ToSet(V) \cap D, c \in D : LinksTo(flash, b, c) => c \in ToSet(V)
  BY <1>2, <1>3, <1>4 DEF Cover, LinksTo
<1>6. D \subseteq ToSet(V)
  BY <1>2, <1>3, <1>4, <1>5 DEF Cover
<1> QED
  BY <1>2, <1>6 DEF V, D

\* When main has loaded the configuration it has registered no node twice, and
\* missed no node that was stored when it began but those at and below one that
\* was edited meanwhile: however many writes there were, and wherever they came.
THEOREM LoadMissesNothingElse == LoadSpec => []LoadMissesOnlyEdited
<1>1. LoadInit => StoreInv /\ LoadInv
  BY InvAtStart DEF LoadInit, LoadInv, NotLoading
<1>2. StoreInv /\ LoadInv /\ [LoadNext]_loadingVars => (StoreInv /\ LoadInv)'
  BY InvKept, LoadInvKept, StepIsTreeStep
<1>3. StoreInv /\ LoadInv => LoadMissesOnlyEdited
  BY LoadInvMissesOnlyEdited
<1> QED
  BY <1>1, <1>2, <1>3, PTL DEF LoadSpec
=============================================================================
