-------------------------- MODULE LedgerChainProofs --------------------------
(***************************************************************************)
(* Proofs about the rows of the event table.  First for any finite set of  *)
(* rows: what ProjectChain makes of it, against the rows laid out as one   *)
(* chain.  Then for the writers of LedgerChain, any number of them: the    *)
(* rows always are one chain of legal edges, whoever overtakes whom, and   *)
(* so they implement LedgerAddress.                                        *)
(*                                                                         *)
(* The inductive invariant is about the chain itself: there is an order s  *)
(* of the rows and a sequence g of frames along it, and what a writer      *)
(* holds was drafted against one of these frames, which stays where it is  *)
(* while the chain grows.  The constraints let a draft in only at the end. *)
(***************************************************************************)
EXTENDS MCLedgerChain, FiniteSetTheorems, WellFoundedInduction, TLAPS

(* The id of the k-th row of a chain.                                      *)
Node(s, k) == IF k = 0 THEN None ELSE s[k].id

(* Rows of R, each after the one before it.                                *)
Line(R, n, s) ==
    /\ n \in Nat
    /\ s \in [1..n -> R]
    /\ \A i, j \in 1..n : i # j => s[i].id # s[j].id
    /\ \A i \in 1..n : s[i].predecessor = Node(s, i - 1)

(* All rows of R in one line.                                              *)
Chain(R, n, s) == Line(R, n, s) /\ \A x \in R : \E i \in 1..n : s[i] = x

(* The frames along it.                                                    *)
Along(g, s, n) ==
    /\ g = [i \in 0..n |-> g[i]]
    /\ g[0] = RootFrame
    /\ \A i \in 1..n : g[i] = Project(g[i - 1], s[i].event)

Named(R) == \A x \in R : x.id # None

-----------------------------------------------------------------------------
(* Numbers and finite sets.                                                *)

(* A set of numbers has a least one.                                       *)
LEMMA Least ==
    ASSUME NEW T, T \subseteq Nat, T # {}
    PROVE  \E n \in T : \A m \in T : n <= m
<1>1. PICK n \in T : \A m \in T : <<m, n>> \notin OpToRel(<, Nat)
  BY NatLessThanWellFounded, WFMin
<1>2. \A m \in T : ~(m < n)
  BY <1>1 DEF OpToRel
<1> QED
  BY <1>2

(* What is so of 0 and goes on from each number to the next is so of all.  *)
LEMMA Upward ==
    ASSUME NEW n \in Nat, NEW good, 0 \in good,
           \A k \in 1..n : k - 1 \in good => k \in good
    PROVE  \A k \in 0..n : k \in good
<1> SUFFICES ASSUME NEW k \in 0..n, k \notin good PROVE FALSE
  OBVIOUS
<1>1. PICK m \in {j \in 0..n : j \notin good} :
          \A j \in {i \in 0..n : i \notin good} : m <= j
  <2>1. {j \in 0..n : j \notin good} \subseteq Nat
    OBVIOUS
  <2> QED
    BY <2>1, Least
<1>2. m \in 1..n /\ m - 1 \in 0..n
  BY <1>1
<1>3. m - 1 \in good
  BY <1>1, <1>2
<1> QED
  BY <1>1, <1>2, <1>3

LEMMA ChainIsFinite ==
    ASSUME NEW R, NEW n, NEW s, Chain(R, n, s)
    PROVE  IsFiniteSet(R) /\ Cardinality(R) = n
<1>1. /\ n \in Nat /\ s \in [1..n -> R]
      /\ \A i, j \in 1..n : s[i] = s[j] => i = j
      /\ \A x \in R : \E i \in 1..n : s[i] = x
  BY DEF Chain, Line
<1>2. s \in Bijection(1..n, R)
  BY <1>1 DEF Bijection, Injection, Surjection, IsInjective
<1>3. IsFiniteSet(1..n) /\ Cardinality(1..n) = n
  BY <1>1, FS_Interval
<1> QED
  BY <1>2, <1>3, FS_Bijection DEF ExistsBijection

(* An injective order of as many rows as there are leaves none out.        *)
LEMMA OrdersAreChains ==
    ASSUME NEW R, IsFiniteSet(R), NEW s
    PROVE  s \in Orders(R) <=> Chain(R, Cardinality(R), s)
<1> DEFINE n == Cardinality(R)
<1>1. n \in Nat /\ IsFiniteSet(1..n) /\ Cardinality(1..n) = n
  BY FS_CardinalityType, FS_Interval
<1> HIDE DEF n
<1>2. s \in Orders(R) <=> Line(R, n, s)
  <2>1. \A i \in 1..n : Node(s, i - 1) = IF i = 1 THEN None ELSE s[i - 1].id
    BY <1>1 DEF Node
  <2> QED
    BY <1>1, <2>1 DEF Orders, Line, n
<1>3. ASSUME Line(R, n, s)
      PROVE  \A x \in R : \E i \in 1..n : s[i] = x
  <2>1. s \in Injection(1..n, R)
    BY <1>3 DEF Line, Injection, IsInjective
  <2>2. s \in Surjection(1..n, R)
    BY <1>1, <2>1, FS_Injection DEF n
  <2> QED
    BY <2>2 DEF Surjection
<1> QED
  BY <1>2, <1>3 DEF Chain, n

-----------------------------------------------------------------------------
(* The frames along a chain, and what the walk has at each of its steps.   *)

(* No edge leaves a malformed chain.                                       *)
LEMMA MalformedStays == ASSUME NEW e PROVE Project(Malformed, e) = Malformed
<1>1. Malformed.stable = "malformed" /\ ~IsOpen(Malformed)
  BY DEF Malformed, Frame, IsOpen
<1>2. ~LegalEdge(Malformed, e)
  <2>1. /\ "malformed" # "managed"
        /\ \A k \in ClaimKind : "malformed" \notin OpensFrom[k]
    BY DEF OpensFrom, StableState, ClaimKind
  <2> QED
    BY <1>1, <2>1 DEF LegalEdge, OpensClaim
<1> QED
  BY <1>2 DEF Project

(* A function whose values come one from the other exists: frames.         *)
LEMMA FramesExist ==
    ASSUME NEW n \in Nat, NEW s
    PROVE  \E g : Along(g, s, n)
<1> DEFINE good == {k \in 0..n : \E g : Along(g, s, k)}
<1>1. 0 \in good
  <2>1. Along([i \in 0..0 |-> RootFrame], s, 0)
    BY DEF Along
  <2> QED
    BY <2>1
<1>2. ASSUME NEW k \in 1..n, k - 1 \in good
      PROVE  k \in good
  <2>1. PICK g : Along(g, s, k - 1)
    BY <1>2
  <2> DEFINE h == [i \in 0..k |-> IF i = k THEN Project(g[k - 1], s[k].event)
                                  ELSE g[i]]
  <2>2. /\ h = [i \in 0..k |-> h[i]]
        /\ \A i \in 0..(k - 1) : h[i] = g[i]
        /\ h[k] = Project(g[k - 1], s[k].event)
    OBVIOUS
  <2>3. 0 \in 0..(k - 1) /\ k - 1 \in 0..(k - 1)
    OBVIOUS
  <2> HIDE DEF h
  <2>4. ASSUME NEW i \in 1..k PROVE h[i] = Project(h[i - 1], s[i].event)
    <3>1. CASE i = k
      BY <2>2, <2>3, <3>1
    <3>2. CASE i # k
      <4>1. i \in 1..(k - 1) /\ i \in 0..(k - 1) /\ i - 1 \in 0..(k - 1)
        BY <3>2
      <4> QED
        BY <2>1, <2>2, <4>1 DEF Along
    <3> QED
      BY <3>1, <3>2
  <2>5. h[0] = RootFrame
    BY <2>1, <2>2, <2>3 DEF Along
  <2>6. Along(h, s, k)
    BY <2>2, <2>4, <2>5 DEF Along
  <2> QED
    BY <2>6
<1> HIDE DEF good
<1>3. n \in good
  BY <1>1, <1>2, Upward
<1> QED
  BY <1>3 DEF good

(* And there is only one.                                                  *)
LEMMA FramesAgree ==
    ASSUME NEW n \in Nat, NEW s, NEW g, NEW h, Along(g, s, n), Along(h, s, n)
    PROVE  g = h
<1> DEFINE good == {k \in 0..n : g[k] = h[k]}
<1>1. 0 \in good
  BY DEF Along
<1>2. ASSUME NEW k \in 1..n, k - 1 \in good
      PROVE  k \in good
  <2>1. g[k - 1] = h[k - 1]
    BY <1>2
  <2>2. /\ g[k] = Project(g[k - 1], s[k].event)
        /\ h[k] = Project(h[k - 1], s[k].event)
    BY DEF Along
  <2> QED
    BY <2>1, <2>2
<1> HIDE DEF good
<1>3. \A k \in 0..n : k \in good
  BY <1>1, <1>2, Upward
<1> QED
  BY <1>3 DEF good, Along

LEMMA FrameAlongIs ==
    ASSUME NEW n \in Nat, NEW s, NEW g, Along(g, s, n)
    PROVE  FrameAlong(s, n) = g[n]
<1> DEFINE after[k \in 0..n] ==
        IF k = 0 THEN RootFrame ELSE Project(after[k - 1], s[k].event)
<1>1. g = [k \in 0..n |->
              IF k = 0 THEN RootFrame ELSE Project(g[k - 1], s[k].event)]
  <2>1. \A k \in 0..n : k = 0 \/ k \in 1..n
    OBVIOUS
  <2>2. \A k \in 0..n :
           g[k] = IF k = 0 THEN RootFrame ELSE Project(g[k - 1], s[k].event)
    BY <2>1 DEF Along
  <2> QED
    BY <2>2 DEF Along
<1>2. after = [k \in 0..n |->
                 IF k = 0 THEN RootFrame
                 ELSE Project(after[k - 1], s[k].event)]
  BY <1>1, Zenon
<1>3. FrameAlong(s, n) = after[n]
  BY Zenon DEF FrameAlong
<1> HIDE DEF after
<1>4. Along(after, s, n)
  <2>1. \A k \in 0..n :
           after[k] = IF k = 0 THEN RootFrame
                      ELSE Project(after[k - 1], s[k].event)
    BY <1>2
  <2>2. after[0] = RootFrame
    BY <2>1
  <2>3. \A k \in 1..n : after[k] = Project(after[k - 1], s[k].event)
    BY <2>1
  <2>4. after = [k \in 0..n |-> after[k]]
    BY <1>2
  <2> QED
    BY <2>2, <2>3, <2>4 DEF Along
<1> QED
  BY <1>3, <1>4, FramesAgree

Start == [frame |-> RootFrame, at |-> None, visited |-> {}]

Walking(R, a) ==
    /\ a[0] = Start
    /\ \A k \in 1..Cardinality(R) : a[k] = Follow(R, a[k - 1])

LEMMA WalkIs ==
    ASSUME NEW R, Cardinality(R) \in Nat
    PROVE  \E a : Walking(R, a) /\ Walk(R) = a[Cardinality(R)]
<1> DEFINE n == Cardinality(R)
<1> DEFINE Steps(h, k) ==
        h = [i \in 0..k |-> IF i = 0 THEN Start ELSE Follow(R, h[i - 1])]
<1> DEFINE good == {k \in 0..n : \E h : Steps(h, k)}
<1> DEFINE after[k \in 0..n] ==
        IF k = 0 THEN Start ELSE Follow(R, after[k - 1])
<1>1. 0 \in good
  <2>1. Steps([i \in 0..0 |-> Start], 0)
    OBVIOUS
  <2>2. 0 \in 0..n
    OBVIOUS
  <2> HIDE DEF Steps
  <2> QED
    BY <2>1, <2>2
<1>2. ASSUME NEW k \in 1..n, k - 1 \in good
      PROVE  k \in good
  <2>1. PICK h : Steps(h, k - 1)
    BY <1>2
  <2> DEFINE f == [i \in 0..k |-> IF i = k THEN Follow(R, h[k - 1]) ELSE h[i]]
  <2>2. /\ f = [i \in 0..k |-> f[i]] /\ f[k] = Follow(R, h[k - 1])
        /\ \A i \in 0..(k - 1) : f[i] = h[i]
    OBVIOUS
  <2>3. ASSUME NEW i \in 0..(k - 1)
        PROVE  h[i] = IF i = 0 THEN Start ELSE Follow(R, h[i - 1])
    BY <2>1, Zenon
  <2> HIDE DEF f
  <2>4. ASSUME NEW i \in 0..k
        PROVE  f[i] = IF i = 0 THEN Start ELSE Follow(R, f[i - 1])
    <3>1. CASE i = k
      <4>1. k - 1 \in 0..(k - 1) /\ k # 0
        OBVIOUS
      <4> QED
        BY <2>2, <3>1, <4>1
    <3>2. CASE i # k
      <4>1. i \in 0..(k - 1) /\ (i # 0 => i - 1 \in 0..(k - 1))
        BY <3>2
      <4> QED
        BY <2>2, <2>3, <4>1
    <3> QED
      BY <3>1, <3>2
  <2>5. Steps(f, k)
    BY <2>2, <2>4
  <2> QED
    BY <2>5
<1> HIDE DEF good
<1>3. n \in good
  BY <1>1, <1>2, Upward
<1>4. PICK h : h = [i \in 0..n |->
                       IF i = 0 THEN Start ELSE Follow(R, h[i - 1])]
  BY <1>3 DEF good
<1>5. after = [i \in 0..n |-> IF i = 0 THEN Start ELSE Follow(R, after[i - 1])]
  BY <1>4, Zenon
<1>6. Walk(R) = after[n]
  BY Zenon DEF Walk, Start
<1> HIDE DEF after, n
<1>7. \A i \in 0..n :
         after[i] = IF i = 0 THEN Start ELSE Follow(R, after[i - 1])
  BY <1>5
<1>8. n \in Nat
  BY DEF n
<1>9. Walking(R, after)
  BY <1>7, <1>8 DEF Walking, n
<1> QED
  BY <1>6, <1>9 DEF n

-----------------------------------------------------------------------------
(* What the rows of a chain look like to the projection.                   *)

LEMMA NodesDiffer ==
    ASSUME NEW R, NEW n, NEW s, Line(R, n, s), Named(R),
           NEW i \in 0..n, NEW j \in 0..n, Node(s, i) = Node(s, j)
    PROVE  i = j
<1>1. \A k \in 1..n : s[k].id # None
  BY DEF Line, Named
<1>2. n \in Nat /\ \A k, l \in 1..n : k # l => s[k].id # s[l].id
  BY DEF Line
<1>3. CASE i = 0 \/ j = 0
  BY <1>1, <1>2, <1>3 DEF Node
<1>4. CASE i # 0 /\ j # 0
  <2>1. i \in 1..n /\ j \in 1..n
    BY <1>2, <1>4
  <2> QED
    BY <1>2, <1>4, <2>1 DEF Node
<1> QED
  BY <1>3, <1>4

(* One row follows each row but the last, which none follows.              *)
LEMMA NextAlong ==
    ASSUME NEW R, NEW n, NEW s, Chain(R, n, s), Named(R), NEW k \in 0..n
    PROVE  Children(R, Node(s, k)) = IF k = n THEN {} ELSE {s[k + 1]}
<1>1. n \in Nat /\ Line(R, n, s)
  BY DEF Chain, Line
<1>2. ASSUME NEW x \in Children(R, Node(s, k))
      PROVE  k # n /\ x = s[k + 1]
  <2>1. PICK i \in 1..n : s[i] = x
    BY DEF Children, Chain
  <2>2. Node(s, i - 1) = Node(s, k)
    BY <2>1, <1>1, <1>2 DEF Children, Line
  <2>3. i - 1 = k
    <3>1. i - 1 \in 0..n
      BY <1>1
    <3> QED
      BY <1>1, <2>2, <3>1, NodesDiffer
  <2> QED
    BY <1>1, <2>1, <2>3
<1>3. ASSUME k # n
      PROVE  s[k + 1] \in Children(R, Node(s, k))
  <2>1. k + 1 \in 1..n /\ (k + 1) - 1 = k
    BY <1>1, <1>3
  <2> QED
    BY <1>1, <2>1 DEF Line, Children
<1> QED
  BY <1>2, <1>3

LEMMA ChainHasNoFault ==
    ASSUME NEW R, NEW n, NEW s, Chain(R, n, s), Named(R)
    PROVE  ~DuplicateId(R) /\ ~MissingPredecessor(R) /\ ~Fork(R)
<1>1. /\ n \in Nat /\ Line(R, n, s) /\ \A i \in 1..n : s[i] \in R
      /\ \A x \in R : \E i \in 1..n : s[i] = x
  BY DEF Chain, Line
<1>2. ASSUME NEW x \in R, NEW y \in R, x # y
      PROVE  x.id # y.id
  <2>1. PICK i \in 1..n : s[i] = x
    BY <1>1
  <2>2. PICK j \in 1..n : s[j] = y
    BY <1>1
  <2> QED
    BY <1>1, <1>2, <2>1, <2>2 DEF Line
<1>3. ASSUME NEW x \in R
      PROVE  x.predecessor \in {None} \cup {y.id : y \in R}
  <2>1. PICK i \in 1..n : s[i] = x
    BY <1>1
  <2>2. x.predecessor = Node(s, i - 1)
    BY <1>1, <2>1 DEF Line
  <2>3. CASE i = 1
    BY <2>2, <2>3 DEF Node
  <2>4. CASE i # 1
    <3>1. i - 1 \in 1..n
      BY <1>1, <2>4
    <3> QED
      BY <1>1, <2>2, <3>1 DEF Node
  <2> QED
    BY <2>3, <2>4
<1>4. ASSUME NEW x \in R, NEW y \in R, x.predecessor = y.predecessor
      PROVE  x = y
  <2>1. PICK i \in 1..n : s[i] = x
    BY <1>1
  <2>2. PICK j \in 1..n : s[j] = y
    BY <1>1
  <2>3. Node(s, i - 1) = Node(s, j - 1)
    BY <1>1, <1>4, <2>1, <2>2 DEF Line
  <2>4. i - 1 \in 0..n /\ j - 1 \in 0..n
    BY <1>1
  <2>5. i - 1 = j - 1
    BY <1>1, <2>3, <2>4, NodesDiffer
  <2> QED
    BY <2>1, <2>2, <2>5
<1> QED
  BY <1>2, <1>3, <1>4 DEF DuplicateId, MissingPredecessor, Fork

(* A chain of rows projects to the frame at its end.                       *)
LEMMA ProjectionOfChain ==
    ASSUME NEW R, NEW n, NEW s, NEW g, Chain(R, n, s), Named(R), Along(g, s, n)
    PROVE  ProjectChain(R) = g[n]
<1>1. /\ n \in Nat /\ \A i \in 1..n : s[i] \in R
      /\ \A x \in R : \E i \in 1..n : s[i] = x
      /\ Cardinality(R) = n
  <2>1. Cardinality(R) = n
    BY ChainIsFinite
  <2> QED
    BY <2>1 DEF Chain, Line
<1>2. PICK a : Walking(R, a) /\ Walk(R) = a[n]
  BY <1>1, WalkIs
<1> DEFINE Seen(k) == {s[i] : i \in 1..k}
           Kept(k) == a[k] = [frame |-> g[k], at |-> Node(s, k),
                              visited |-> Seen(k)]
           Lost(k) == a[k].frame = Malformed /\ g[k] = Malformed
           good == {k \in 0..n : Kept(k) \/ Lost(k)}
<1>3. 0 \in good
  <2>1. Node(s, 0) = None /\ Seen(0) = {} /\ 0 \in 0..n
    BY <1>1 DEF Node
  <2>2. a[0] = Start /\ g[0] = RootFrame
    BY <1>2 DEF Walking, Along
  <2> QED
    BY <2>1, <2>2 DEF Start
<1>4. ASSUME NEW k \in 1..n, k - 1 \in good
      PROVE  k \in good
  <2>1. /\ a[k] = Follow(R, a[k - 1])
        /\ g[k] = Project(g[k - 1], s[k].event)
        /\ k - 1 \in 0..n /\ k - 1 # n /\ (k - 1) + 1 = k /\ k \in 0..n
    <3>1. k - 1 \in 0..n /\ k - 1 # n /\ (k - 1) + 1 = k /\ k \in 0..n
      BY <1>1
    <3>2. a[k] = Follow(R, a[k - 1])
      BY <1>1, <1>2 DEF Walking
    <3>3. g[k] = Project(g[k - 1], s[k].event)
      BY DEF Along
    <3> QED
      BY <3>1, <3>2, <3>3
  <2>2. CASE a[k - 1].frame = Malformed /\ g[k - 1] = Malformed
    <3>1. a[k] = a[k - 1]
      BY <2>1, <2>2 DEF Follow
    <3>2. g[k] = Malformed
      BY <2>1, <2>2, MalformedStays
    <3> QED
      BY <2>1, <2>2, <3>1, <3>2
  <2>3. CASE Kept(k - 1) /\ g[k - 1] # Malformed
    <3>1. /\ a[k - 1].frame = g[k - 1] /\ a[k - 1].at = Node(s, k - 1)
          /\ a[k - 1].visited = Seen(k - 1)
      BY <2>3
    <3>2. Children(R, a[k - 1].at) = {s[k]}
      BY <2>1, <3>1, NextAlong
    <3>3. (CHOOSE x \in {s[k]} : TRUE) = s[k]
      OBVIOUS
    <3>4. a[k] = [frame   |-> Project(g[k - 1], s[k].event),
                  at      |-> s[k].id,
                  visited |-> Seen(k - 1) \cup {s[k]}]
      <4> HIDE DEF Seen
      <4> QED
        BY <2>1, <2>3, <3>1, <3>2, <3>3 DEF Follow
    <3>5. Seen(k) = Seen(k - 1) \cup {s[k]}
      <4>1. 1..k = (1..(k - 1)) \cup {k}
        BY <1>1
      <4> QED
        BY <4>1
    <3>6. Node(s, k) = s[k].id
      BY DEF Node
    <3> QED
      BY <2>1, <3>4, <3>5, <3>6
  <2> QED
    BY <1>4, <2>2, <2>3
<1> HIDE DEF good
<1>5. n \in good
  BY <1>1, <1>3, <1>4, Upward
<1>6. Kept(n) \/ Lost(n)
  BY <1>5 DEF good
<1>7. ProjectChain(R) =
         IF Walk(R).visited # R THEN Malformed ELSE Walk(R).frame
  BY ChainHasNoFault DEF ProjectChain
<1>8. CASE Kept(n)
  <2>1. Walk(R).visited = Seen(n) /\ Walk(R).frame = g[n]
    BY <1>2, <1>8
  <2>2. Seen(n) = R
    BY <1>1
  <2> QED
    BY <1>7, <2>1, <2>2
<1>9. CASE Lost(n)
  BY <1>2, <1>7, <1>9
<1> QED
  BY <1>6, <1>8, <1>9

-----------------------------------------------------------------------------
(* The other direction: what projects to a frame is a chain.               *)

(* A line goes on with any row that follows its last under a new id.       *)
LEMMA LineGrows ==
    ASSUME NEW R, NEW n, NEW s, Line(R, n, s), NEW x,
           x.predecessor = Node(s, n), \A i \in 1..n : s[i].id # x.id
    PROVE  \E t : /\ Line(R \cup {x}, n + 1, t)
                  /\ t[n + 1] = x
                  /\ \A i \in 1..n : t[i] = s[i]
<1>1. /\ n \in Nat /\ s \in [1..n -> R]
      /\ \A i, j \in 1..n : i # j => s[i].id # s[j].id
      /\ \A i \in 1..n : s[i].predecessor = Node(s, i - 1)
  BY DEF Line
<1> DEFINE t == [i \in 1..(n + 1) |-> IF i = n + 1 THEN x ELSE s[i]]
<1>2. /\ t \in [1..(n + 1) -> R \cup {x}] /\ t[n + 1] = x
      /\ \A i \in 1..n : t[i] = s[i] /\ i \in 1..(n + 1)
      /\ \A i \in 1..(n + 1) : i = n + 1 \/ i \in 1..n
  BY <1>1
<1> HIDE DEF t
<1>3. ASSUME NEW i \in 0..n PROVE Node(t, i) = Node(s, i)
  <2>1. i = 0 \/ i \in 1..n
    BY <1>1
  <2> QED
    BY <1>2, <2>1 DEF Node
<1>4. ASSUME NEW i \in 1..(n + 1), NEW j \in 1..(n + 1), i # j
      PROVE  t[i].id # t[j].id
  <2>1. CASE i \in 1..n /\ j \in 1..n
    BY <1>1, <1>2, <1>4, <2>1
  <2>2. CASE i = n + 1 /\ j \in 1..n
    BY <1>2, <2>2
  <2>3. CASE j = n + 1 /\ i \in 1..n
    BY <1>2, <2>3
  <2> QED
    BY <1>2, <1>4, <2>1, <2>2, <2>3
<1>5. ASSUME NEW i \in 1..(n + 1)
      PROVE  t[i].predecessor = Node(t, i - 1)
  <2>1. i - 1 \in 0..n
    BY <1>1
  <2>2. CASE i = n + 1
    BY <1>1, <1>2, <1>3, <2>1, <2>2
  <2>3. CASE i \in 1..n
    BY <1>1, <1>2, <1>3, <2>1, <2>3
  <2> QED
    BY <1>2, <2>2, <2>3
<1>6. Line(R \cup {x}, n + 1, t)
  BY <1>1, <1>2, <1>4, <1>5 DEF Line
<1> QED
  BY <1>2, <1>6

LEMMA ChainOfProjection ==
    ASSUME NEW R, IsFiniteSet(R), Named(R), ProjectChain(R) # Malformed
    PROVE  \E s : Chain(R, Cardinality(R), s)
<1> DEFINE n == Cardinality(R)
<1>1. n \in Nat
  BY FS_CardinalityType
<1>2. PICK a : Walking(R, a) /\ Walk(R) = a[n]
  BY <1>1, WalkIs
<1>3. ~DuplicateId(R) /\ Walk(R).visited = R
  BY DEF ProjectChain
<1> DEFINE Reached(k, m, s) ==
               /\ Line(R, m, s)
               /\ a[k].visited = {s[i] : i \in 1..m}
               /\ a[k].at = Node(s, m)
           good == {k \in 0..n : \E m, s : Reached(k, m, s)}
<1>4. 0 \in good
  <2>1. a[0] = Start
    BY <1>2 DEF Walking
  <2>2. PICK s : s = [i \in 1..0 |-> s[i]]
    <3>1. [i \in 1..0 |-> i] = [j \in 1..0 |-> [i \in 1..0 |-> i][j]]
      OBVIOUS
    <3> QED
      BY <3>1
  <2>3. Line(R, 0, s)
    BY <2>2 DEF Line
  <2>4. a[0].visited = {s[i] : i \in 1..0} /\ a[0].at = Node(s, 0)
    BY <2>1 DEF Start, Node
  <2>5. Reached(0, 0, s)
    BY <2>3, <2>4
  <2>6. 0 \in 0..n
    BY <1>1
  <2> HIDE DEF Reached
  <2> QED
    BY <2>5, <2>6
<1>5. ASSUME NEW k \in 1..n, k - 1 \in good
      PROVE  k \in good
  <2>1. PICK m, s : Reached(k - 1, m, s)
    BY <1>5
  <2>2. a[k] = Follow(R, a[k - 1]) /\ k \in 0..n
    BY <1>1, <1>2 DEF Walking
  <2> DEFINE next == Children(R, a[k - 1].at)
             x == CHOOSE x \in next : TRUE
  <2>3. CASE next = {} \/ a[k - 1].frame = Malformed
    <3>1. a[k] = a[k - 1]
      BY <2>2, <2>3 DEF Follow
    <3>2. Reached(k, m, s)
      BY <2>1, <3>1
    <3> HIDE DEF Reached
    <3> QED
      BY <2>2, <3>2
  <2>4. CASE ~(next = {} \/ a[k - 1].frame = Malformed)
    <3>1. x \in next
      BY <2>4
    <3>2. /\ a[k].visited = a[k - 1].visited \cup {x}
          /\ a[k].at = x.id
      <4>1. a[k] = [frame   |-> Project(a[k - 1].frame, x.event),
                    at      |-> x.id,
                    visited |-> a[k - 1].visited \cup {x}]
        BY <2>2, <2>4 DEF Follow
      <4> QED
        BY <4>1
    <3> HIDE DEF x
    <3>3. x \in R /\ x.predecessor = Node(s, m)
      BY <2>1, <3>1 DEF Children
    <3>4. ASSUME NEW i \in 1..m PROVE s[i].id # x.id
      <4> SUFFICES ASSUME s[i].id = x.id PROVE FALSE
        OBVIOUS
      <4>1. m \in Nat /\ s[i] \in R /\ s[i].predecessor = Node(s, i - 1)
        BY <2>1 DEF Line
      <4>2. s[i] = x
        BY <1>3, <3>3, <4>1 DEF DuplicateId
      <4>3. i - 1 \in 0..m /\ m \in 0..m /\ i - 1 # m
        BY <4>1
      <4> QED
        BY <2>1, <3>3, <4>1, <4>2, <4>3, NodesDiffer
    <3>5. PICK t : /\ Line(R \cup {x}, m + 1, t) /\ t[m + 1] = x
                   /\ \A i \in 1..m : t[i] = s[i]
      <4>1. Line(R, m, s) /\ x.predecessor = Node(s, m)
        BY <2>1, <3>3
      <4> HIDE DEF Reached
      <4> QED
        BY <3>4, <4>1, LineGrows
    <3>6. m \in Nat /\ R \cup {x} = R
      BY <2>1, <3>3 DEF Line
    <3>7. Node(t, m + 1) = x.id
      BY <3>5, <3>6 DEF Node
    <3>8. {t[i] : i \in 1..(m + 1)} = {s[i] : i \in 1..m} \cup {x}
      <4>1. 1..(m + 1) = (1..m) \cup {m + 1}
        BY <3>6
      <4> QED
        BY <3>5, <4>1
    <3>9. Reached(k, m + 1, t)
      BY <2>1, <3>2, <3>5, <3>6, <3>7, <3>8
    <3> HIDE DEF Reached
    <3> QED
      BY <2>2, <3>9
  <2> QED
    BY <2>3, <2>4
<1> HIDE DEF good
<1>6. n \in good
  BY <1>1, <1>4, <1>5, Upward
<1>7. PICK m, s : Line(R, m, s) /\ a[n].visited = {s[i] : i \in 1..m}
  BY <1>6 DEF good
<1>8. Chain(R, m, s)
  BY <1>2, <1>3, <1>7 DEF Chain
<1> QED
  BY <1>8, ChainIsFinite

(* There is one order at most.                                             *)
LEMMA OneOrder ==
    ASSUME NEW R, NEW n, NEW s, NEW t, Named(R), Chain(R, n, s), Chain(R, n, t)
    PROVE  s = t
<1>1. /\ n \in Nat /\ s \in [1..n -> R] /\ t \in [1..n -> R]
      /\ \A k \in 1..n : t[k].predecessor = Node(t, k - 1)
  BY DEF Chain, Line
<1> DEFINE good == {k \in 0..n : Node(s, k) = Node(t, k)}
<1>2. 0 \in good
  BY <1>1 DEF Node
<1>3. ASSUME NEW k \in 1..n, Node(s, k - 1) = Node(t, k - 1)
      PROVE  s[k] = t[k]
  <2>1. t[k] \in Children(R, Node(s, k - 1))
    BY <1>1, <1>3 DEF Children
  <2>2. k - 1 \in 0..n /\ k - 1 # n /\ (k - 1) + 1 = k
    BY <1>1
  <2>3. Children(R, Node(s, k - 1)) = {s[k]}
    BY <2>2, NextAlong
  <2> QED
    BY <2>1, <2>3
<1>4. ASSUME NEW k \in 1..n, k - 1 \in good
      PROVE  k \in good
  <2>1. s[k] = t[k]
    BY <1>3, <1>4
  <2> QED
    BY <1>1, <2>1 DEF Node
<1> HIDE DEF good
<1>5. \A k \in 0..n : k \in good
  BY <1>1, <1>2, <1>4, Upward
<1>6. \A k \in 1..n : s[k] = t[k]
  <2> TAKE k \in 1..n
  <2>1. k - 1 \in 0..n
    BY <1>1
  <2>2. Node(s, k - 1) = Node(t, k - 1)
    BY <1>5, <2>1 DEF good
  <2> QED
    BY <1>3, <2>2
<1> QED
  BY <1>1, <1>6

(* Any finite set of rows with identifiers of their own, whatever left     *)
(* them there, projects to a frame exactly when it is one chain of legal   *)
(* edges, and to the frame at its end (projectLedgerChain).                *)
THEOREM ProjectionIsExact ==
    ASSUME NEW R, IsFiniteSet(R), Named(R)
    PROVE  ExactFor(R)
<1> DEFINE n == Cardinality(R)
<1>1. n \in Nat
  BY FS_CardinalityType
<1>2. \A s : s \in Orders(R) <=> Chain(R, n, s)
  BY OrdersAreChains
<1> HIDE DEF n
<1>3. CASE Orders(R) = {}
  <2>1. ProjectChain(R) = Malformed
    BY <1>2, <1>3, ChainOfProjection DEF n
  <2> QED
    BY <1>3, <2>1, FS_EmptySet DEF ExactFor
<1>4. CASE Orders(R) # {}
  <2> DEFINE s == CHOOSE s \in Orders(R) : TRUE
  <2>1. s \in Orders(R) /\ Chain(R, n, s)
    BY <1>2, <1>4
  <2> HIDE DEF s
  <2>2. Orders(R) = {s}
    BY <1>2, <2>1, OneOrder
  <2>3. PICK g : Along(g, s, n)
    BY <1>1, FramesExist
  <2>4. ProjectChain(R) = FrameAlong(s, n)
    BY <1>1, <2>1, <2>3, ProjectionOfChain, FrameAlongIs
  <2>5. Cardinality(Orders(R)) = 1
    BY <2>2, FS_Singleton
  <2> QED
    BY <1>4, <2>4, <2>5 DEF ExactFor, n, s
<1> QED
  BY <1>3, <1>4

(* So do the rows the unprotected table of MCLedgerChain gathers.          *)
FoundInv == IsFiniteSet(found) /\ \A x \in found : x.id \in EventId

THEOREM FoundProjectExactly == MCSpec => []ProjectsExactlyTheChains
<1>1. MCInit => FoundInv
  BY FS_EmptySet DEF MCInit, FoundInv
<1>2. ASSUME FoundInv, [MCNext]_<<vars, found>>
      PROVE  FoundInv'
  <2>1. CASE Find
    <3>1. PICK id, p, e : id \in EventId /\ found' = found \cup {Row(id, p, e)}
      BY <2>1 DEF Find
    <3>2. IsFiniteSet(found')
      BY <1>2, <3>1, FS_AddElement DEF FoundInv
    <3>3. Row(id, p, e).id = id
      BY DEF Row
    <3> QED
      BY <1>2, <3>1, <3>2, <3>3 DEF FoundInv
  <2>2. CASE found' = found
    BY <1>2, <2>2 DEF FoundInv
  <2> QED
    BY <1>2, <2>1, <2>2 DEF MCNext, Write
<1>3. FoundInv => ProjectsExactlyTheChains
  <2>1. FoundInv => IsFiniteSet(found) /\ Named(found)
    BY ChainAssumption DEF FoundInv, Named
  <2> QED
    BY <2>1, ProjectionIsExact DEF ProjectsExactlyTheChains
<1> QED
  BY <1>1, <1>2, <1>3, PTL DEF MCSpec

-----------------------------------------------------------------------------
(* One legal edge, from a sound frame to a sound frame.                    *)

OpenClaims ==
    [kind : ClaimKind, id : EventId, pair : {None, Pair}, before : StableState,
     phase : Phase]

(* An open claim remembers the stable state it was opened from, a state    *)
(* its kind opens from, and nothing has changed that state since.          *)
Sound(f) ==
    /\ f \in [stable : StableState, claim : OpenClaims \cup {NoClaim}]
    /\ IsOpen(f) => /\ f.claim \in OpenClaims
                    /\ f.claim.before = f.stable
                    /\ f.stable \in OpensFrom[f.claim.kind]

LEMMA EventNamed ==
    ASSUME NEW id \in EventId, NEW e \in EventsNamed(id)
    PROVE  /\ e.kind \in EventKind
           /\ e.pair \in {None, Pair}
           /\ e.kind \in ClaimKind => e.id = id
BY DEF EventsNamed, Event, EventKind, ClaimKind

LEMMA LegalOpening ==
    ASSUME NEW f, Sound(f), ~IsOpen(f), NEW id \in EventId,
           NEW e \in EventsNamed(id), LegalEdge(f, e), e.kind # "released"
    PROVE  /\ e.kind \in ClaimKind /\ f.stable \in OpensFrom[e.kind]
           /\ Project(f, e) =
                Frame(f.stable, [kind |-> e.kind, id |-> id, pair |-> e.pair,
                                 before |-> f.stable, phase |-> "claimed"])
           /\ Sound(Project(f, e))
<1>1. e.kind \in ClaimKind /\ f.stable \in OpensFrom[e.kind]
  BY DEF LegalEdge, OpensClaim
<1> DEFINE c == [kind |-> e.kind, id |-> id, pair |-> e.pair,
                 before |-> f.stable, phase |-> "claimed"]
<1>2. Project(f, e) = Frame(f.stable, c)
  BY <1>1, EventNamed DEF Project, InterpretEdge, OpenedFrame
<1>3. c \in OpenClaims /\ f.stable \in StableState
  BY <1>1, EventNamed DEF OpenClaims, Phase, Sound
<1>4. Frame(f.stable, c).stable = f.stable /\ Frame(f.stable, c).claim = c
  BY DEF Frame
<1>5. Sound(Frame(f.stable, c))
  <2>1. c.before = f.stable /\ c.kind = e.kind
    OBVIOUS
  <2> HIDE DEF c
  <2> QED
    BY <1>1, <1>3, <1>4, <2>1 DEF Sound, Frame
<1> QED
  BY <1>1, <1>2, <1>5

(* A legal event of an open claim moves its phase forward or closes it in  *)
(* an outcome of its kind.                                                 *)
LEMMA LegalFollowing ==
    ASSUME NEW f, Sound(f), IsOpen(f), NEW e, LegalEdge(f, e)
    PROVE  /\ Sound(Project(f, e))
           /\ \/ /\ e.kind \in {"executing", "indeterminate"}
                 /\ f.claim.phase # "indeterminate"
                 /\ Project(f, e) =
                      Frame(f.stable, [f.claim EXCEPT !.phase = e.kind])
              \/ /\ Project(f, e).claim = NoClaim
                 /\ Project(f, e).stable
                      \in Ledger!Outcomes(f.claim.kind, f.claim.before)
<1> DEFINE k == f.claim.kind
           s == f.stable
<1>1. /\ f.claim \in OpenClaims /\ ResolvingEdge(f.claim, e)
      /\ Project(f, e) = ResolvedFrame(f, e)
      /\ k \in ClaimKind /\ f.claim.before = s /\ s \in OpensFrom[k]
      /\ s \in StableState
  BY DEF Sound, LegalEdge, Project, InterpretEdge, OpenClaims
<1>2. CASE e.kind \in {"executing", "indeterminate"}
  <2> DEFINE c == [f.claim EXCEPT !.phase = e.kind]
  <2>1. Project(f, e) = Frame(s, c)
    BY <1>1, <1>2 DEF ResolvedFrame
  <2>2. f.claim.phase # "indeterminate"
    BY <1>1, <1>2 DEF ResolvingEdge, OpenClaims
  <2>3. c \in OpenClaims /\ c.before = s /\ c.kind = k
    BY <1>1, <1>2 DEF OpenClaims, Phase
  <2>4. Sound(Frame(s, c))
    <3> HIDE DEF c
    <3>1. Frame(s, c).stable = s /\ Frame(s, c).claim = c
      BY DEF Frame
    <3> QED
      BY <1>1, <2>3, <3>1 DEF Sound, Frame
  <2> QED
    BY <1>2, <2>1, <2>2, <2>4
<1>3. CASE e.kind \notin {"executing", "indeterminate"}
  <2>1. \/ e.kind = "refused"
        \/ e.kind = "observed" /\ k = "intent"
        \/ e.kind = "absent" /\ k = "retire-intent"
        \/ e.kind = "resolved" /\ k \in {"intent", "retire-intent"}
        \/ e.kind = "adopt" /\ k = "adopt-intent"
        \/ e.kind = "readdressed-to" /\ k = "readdress-intent" /\ s = "managed"
        \/ /\ e.kind = "readdressed-from"
           /\ k = "readdress-intent" /\ s # "managed"
    BY <1>1, <1>3 DEF ResolvingEdge, ResolvesThrough, ClaimKind
  <2>2. \E t \in StableState : /\ ResolvedFrame(f, e) = Frame(t, NoClaim)
                               /\ t \in Ledger!Outcomes(k, s)
    <3>1. CASE e.kind = "refused"
      BY <1>1, <3>1 DEF ResolvedFrame, Ledger!Outcomes
    <3>2. CASE e.kind \in {"observed", "absent", "adopt"}
      BY <2>1, <3>2 DEF ResolvedFrame, Ledger!Outcomes, StableState
    <3>3. CASE e.kind = "resolved"
      <4>1. k = "retire-intent" => s = "managed"
        BY <1>1 DEF OpensFrom, ClaimKind
      <4> QED
        BY <1>1, <2>1, <3>3, <4>1
           DEF ResolvedFrame, ResolvedStable, Ledger!Outcomes, StableState
    <3>4. CASE e.kind \in {"readdressed-to", "readdressed-from"}
      BY <2>1, <3>4 DEF ResolvedFrame, Ledger!Outcomes, StableState
    <3> QED
      BY <2>1, <3>1, <3>2, <3>3, <3>4
  <2>3. PICK t \in StableState : /\ Project(f, e) = Frame(t, NoClaim)
                                 /\ t \in Ledger!Outcomes(k, s)
    BY <1>1, <2>2
  <2>4. Project(f, e).stable = t /\ Project(f, e).claim = NoClaim
    BY <2>3 DEF Frame
  <2>5. Sound(Project(f, e))
    BY <2>3, <2>4 DEF Sound, Frame, IsOpen
  <2> QED
    BY <1>1, <2>3, <2>4, <2>5
<1> QED
  BY <1>2, <1>3

LEMMA SoundStays ==
    ASSUME NEW f, Sound(f), NEW id \in EventId, NEW e \in EventsNamed(id),
           LegalEdge(f, e)
    PROVE  Sound(Project(f, e))
<1>1. CASE IsOpen(f)
  BY <1>1, LegalFollowing
<1>2. CASE ~IsOpen(f) /\ e.kind = "released"
  BY <1>2 DEF Project, InterpretEdge, Sound, Frame, IsOpen, StableState
<1>3. CASE ~IsOpen(f) /\ e.kind # "released"
  BY <1>3, LegalOpening
<1> QED
  BY <1>1, <1>2, <1>3

(* A legal edge is a step of LedgerAddress.                                *)
LEMMA EdgeImplements ==
    ASSUME Sound(frame), NEW id \in EventId, NEW e \in EventsNamed(id),
           LegalEdge(frame, e), frame' = Project(frame, e)
    PROVE  Ledger!Next
<1>1. CASE IsOpen(frame)
  <2>1. frame.claim \in OpenClaims
    BY <1>1 DEF Sound
  <2>2. CASE /\ e.kind \in {"executing", "indeterminate"}
             /\ frame.claim.phase # "indeterminate"
             /\ frame' = Frame(frame.stable,
                               [frame.claim EXCEPT !.phase = e.kind])
    <3> DEFINE c == [frame.claim EXCEPT !.phase = e.kind]
    <3>1. frame'.stable = frame.stable /\ frame'.claim = c
      <4> HIDE DEF c
      <4> QED
        BY <2>2 DEF Frame, c
    <3>2. /\ e.kind \in Phase
          /\ Ledger!PhaseOrder[frame.claim.phase] <= Ledger!PhaseOrder[e.kind]
      <4>1. frame.claim.phase = "claimed" \/ frame.claim.phase = "executing"
        BY <2>1, <2>2 DEF OpenClaims, Phase
      <4> QED
        BY <2>2, <4>1 DEF Ledger!PhaseOrder, Phase
    <3>3. Ledger!Progress
      BY <1>1, <3>1, <3>2
         DEF Ledger!Progress, Ledger!IsOpen, Ledger!NoClaim, Ledger!None,
             Ledger!Phase, IsOpen, NoClaim, None, Phase
    <3> QED
      BY <3>3 DEF Ledger!Next
  <2>3. CASE /\ frame'.claim = NoClaim
             /\ frame'.stable
                  \in Ledger!Outcomes(frame.claim.kind, frame.claim.before)
    <3>1. Ledger!Close
      BY <1>1, <2>3 DEF Ledger!Close, Ledger!IsOpen, Ledger!NoClaim,
                        Ledger!None, IsOpen, NoClaim, None
    <3> QED
      BY <3>1 DEF Ledger!Next
  <2> QED
    BY <1>1, <2>2, <2>3, LegalFollowing
<1>2. CASE ~IsOpen(frame) /\ e.kind = "released"
  <2>1. frame = Frame("managed", NoClaim)
    BY <1>2 DEF LegalEdge, Sound, IsOpen, Frame
  <2>2. frame' = RootFrame
    BY <1>2 DEF Project, InterpretEdge, RootFrame
  <2>3. Ledger!Release
    BY <2>1, <2>2 DEF Ledger!Release, Ledger!Frame, Ledger!RootFrame,
                      Ledger!NoClaim, Ledger!None, Frame, RootFrame,
                      NoClaim, None
  <2> QED
    BY <2>3 DEF Ledger!Next
<1>3. CASE ~IsOpen(frame) /\ e.kind # "released"
  <2>1. /\ e.kind \in ClaimKind /\ frame.stable \in OpensFrom[e.kind]
        /\ frame' = Frame(frame.stable,
                          [kind |-> e.kind, id |-> id, pair |-> e.pair,
                           before |-> frame.stable, phase |-> "claimed"])
    BY <1>3, LegalOpening
  <2>2. /\ frame'.stable = frame.stable /\ frame'.claim.kind = e.kind
        /\ frame'.claim.before = frame.stable /\ frame'.claim.phase = "claimed"
    BY <2>1 DEF Frame
  <2>3. Ledger!Open
    BY <1>3, <2>1, <2>2
       DEF Ledger!Open, Ledger!IsOpen, Ledger!NoClaim, Ledger!None,
           Ledger!ClaimKind, Ledger!OpensFrom, Ledger!StableState,
           IsOpen, NoClaim, None, ClaimKind, OpensFrom, StableState
  <2> QED
    BY <2>3 DEF Ledger!Next
<1> QED
  BY <1>1, <1>2, <1>3

-----------------------------------------------------------------------------
(* The writers.                                                            *)

(* The terminal row is the last one.                                       *)
LEMMA TerminalOfChain ==
    ASSUME NEW R, NEW n, NEW s, Chain(R, n, s), Named(R)
    PROVE  UniqueTerminal(R) = Node(s, n)
<1>1. /\ n \in Nat /\ \A i \in 1..n : s[i] \in R
      /\ \A x \in R : \E i \in 1..n : s[i] = x
  BY DEF Chain, Line
<1>2. ASSUME NEW i \in 1..n
      PROVE  Children(R, s[i].id) = {} <=> i = n
  <2>1. i \in 0..n /\ Node(s, i) = s[i].id
    BY <1>1 DEF Node
  <2> QED
    BY <2>1, NextAlong
<1>3. CASE n = 0
  <2>1. Terminals(R) = {}
    BY <1>1, <1>3 DEF Terminals
  <2> QED
    BY <1>3, <2>1, FS_EmptySet DEF UniqueTerminal, Node
<1>4. CASE n # 0
  <2>1. n \in 1..n
    BY <1>1, <1>4
  <2>2. Terminals(R) = {s[n]}
    BY <1>1, <1>2, <2>1 DEF Terminals
  <2>3. Cardinality(Terminals(R)) = 1
    BY <2>2, FS_Singleton
  <2> QED
    BY <1>4, <2>2, <2>3 DEF UniqueTerminal, Node
<1> QED
  BY <1>3, <1>4

(* A chain takes in one row at its end.                                    *)
LEMMA ChainGrows ==
    ASSUME NEW R, NEW n, NEW s, Chain(R, n, s),
           NEW x, x.predecessor = Node(s, n), x.id \notin {y.id : y \in R}
    PROVE  \E t : /\ Chain(R \cup {x}, n + 1, t)
                  /\ t[n + 1] = x
                  /\ \A i \in 1..n : t[i] = s[i]
<1>1. /\ n \in Nat /\ Line(R, n, s) /\ \A i \in 1..n : s[i] \in R
      /\ \A y \in R : \E i \in 1..n : s[i] = y
  BY DEF Chain, Line
<1>2. ASSUME NEW i \in 1..n PROVE s[i].id # x.id
  BY <1>1
<1>3. PICK t : /\ Line(R \cup {x}, n + 1, t) /\ t[n + 1] = x
               /\ \A i \in 1..n : t[i] = s[i]
  <2>1. Line(R, n, s)
    BY <1>1
  <2> QED
    BY <1>2, <2>1, LineGrows
<1>4. n + 1 \in 1..(n + 1) /\ \A i \in 1..n : i \in 1..(n + 1)
  BY <1>1
<1>5. ASSUME NEW y \in R \cup {x}
      PROVE  \E i \in 1..(n + 1) : t[i] = y
  <2>1. CASE y = x
    BY <1>3, <1>4, <2>1
  <2>2. CASE y \in R
    <3>1. PICK i \in 1..n : s[i] = y
      BY <1>1, <2>2
    <3> QED
      BY <1>3, <1>4, <3>1
  <2> QED
    BY <2>1, <2>2
<1> QED
  BY <1>3, <1>5 DEF Chain

(* What a writer holds was drafted against the k-th frame of the chain.    *)
Held(d, s, g, k) ==
    /\ d.id \in EventId /\ d.event \in EventsNamed(d.id)
    /\ d.predecessor = Node(s, k)
    /\ LegalEdge(g[k], d.event)

(* The rows are the chain s, with the frames g along it.                   *)
ChainOf(n, s, g) ==
    /\ Chain(rows, n, s)
    /\ Along(g, s, n)
    /\ \A i \in 0..n : Sound(g[i])
    /\ frame = g[n]

DraftsOf(n, s, g) ==
    \A w \in Writer :
        place[w] # "idle" => \E k \in 0..n : Held(draft[w], s, g, k)

WritersOK ==
    /\ \A x \in rows : x.id \in EventId
    /\ draft = [w \in Writer |-> draft[w]]
    /\ place = [w \in Writer |-> place[w]]

ChainInv == WritersOK /\ \E n, s, g : ChainOf(n, s, g) /\ DraftsOf(n, s, g)

LEMMA RowsNamed == WritersOK => Named(rows)
BY ChainAssumption DEF WritersOK, Named

LEMMA ChainInvInit == Init => ChainInv
<1> SUFFICES ASSUME Init PROVE ChainInv
  OBVIOUS
<1> DEFINE g == [i \in 0..0 |-> RootFrame]
<1>1. PICK s : s = [i \in 1..0 |-> s[i]]
  <2>1. [i \in 1..0 |-> i] = [j \in 1..0 |-> [i \in 1..0 |-> i][j]]
    OBVIOUS
  <2> QED
    BY <2>1
<1>2. Chain(rows, 0, s)
  BY <1>1 DEF Init, Chain, Line
<1>3. Along(g, s, 0)
  BY DEF Along
<1>4. Sound(RootFrame)
  BY DEF Sound, RootFrame, Frame, IsOpen, StableState
<1>5. WritersOK
  BY DEF Init, WritersOK
<1>6. frame = g[0]
  <2>1. ProjectChain(rows) = g[0]
    BY <1>2, <1>3, <1>5, RowsNamed, ProjectionOfChain
  <2> QED
    BY <2>1 DEF Init
<1>7. \A i \in 0..0 : Sound(g[i])
  BY <1>4
<1> HIDE DEF g
<1>8. ChainOf(0, s, g)
  BY <1>2, <1>3, <1>6, <1>7 DEF ChainOf
<1>9. DraftsOf(0, s, g)
  BY DEF DraftsOf, Init
<1> QED
  BY <1>5, <1>8, <1>9 DEF ChainInv

(* While the chain stays, so does what the writers hold.                   *)
LEMMA ChainInvStays ==
    ASSUME ChainInv, UNCHANGED <<rows, frame>>,
           draft' = [w \in Writer |-> draft'[w]],
           place' = [w \in Writer |-> place'[w]],
           \A w \in Writer : place'[w] # "idle" =>
              \/ place[w] # "idle" /\ draft'[w] = draft[w]
              \/ /\ draft'[w].id \in EventId
                 /\ draft'[w].event \in EventsNamed(draft'[w].id)
                 /\ draft'[w].predecessor = UniqueTerminal(rows)
                 /\ LegalEdge(frame, draft'[w].event)
    PROVE  ChainInv'
<1>1. PICK n, s, g : ChainOf(n, s, g) /\ DraftsOf(n, s, g)
  BY DEF ChainInv
<1>2. WritersOK'
  BY DEF ChainInv, WritersOK
<1>3. ChainOf(n, s, g)'
  BY <1>1 DEF ChainOf
<1>4. UniqueTerminal(rows) = Node(s, n) /\ frame = g[n] /\ n \in 0..n
  <2>1. UniqueTerminal(rows) = Node(s, n)
    BY <1>1, RowsNamed, TerminalOfChain DEF ChainOf, ChainInv
  <2> QED
    BY <1>1, <2>1 DEF ChainOf, Chain, Line
<1>5. ASSUME NEW w \in Writer, place'[w] # "idle"
      PROVE  \E k \in 0..n : Held(draft'[w], s, g, k)
  <2>1. CASE place[w] # "idle" /\ draft'[w] = draft[w]
    BY <1>1, <2>1 DEF DraftsOf
  <2>2. CASE /\ draft'[w].id \in EventId
             /\ draft'[w].event \in EventsNamed(draft'[w].id)
             /\ draft'[w].predecessor = UniqueTerminal(rows)
             /\ LegalEdge(frame, draft'[w].event)
    <3>1. Held(draft'[w], s, g, n)
      BY <1>4, <2>2 DEF Held
    <3> QED
      BY <1>4, <3>1
  <2> QED
    BY <1>5, <2>1, <2>2
<1>6. DraftsOf(n, s, g)'
  BY <1>5 DEF DraftsOf
<1> QED
  BY <1>2, <1>3, <1>6 DEF ChainInv

(* A row the constraints let in goes to the end of the chain, and it was   *)
(* drafted against the frame that is there.                                *)
LEMMA AppendGrows ==
    ASSUME ChainInv, NEW w \in Writer, AppendRow(w)
    PROVE  /\ ChainInv'
           /\ Sound(frame)
           /\ LegalEdge(frame, draft[w].event)
           /\ draft[w].id \in EventId
           /\ draft[w].event \in EventsNamed(draft[w].id)
           /\ frame' = Project(frame, draft[w].event)
<1> DEFINE x == draft[w]
<1>1. PICK n, s, g : ChainOf(n, s, g) /\ DraftsOf(n, s, g)
  BY DEF ChainInv
<1>2. /\ Chain(rows, n, s) /\ Along(g, s, n) /\ n \in Nat /\ n \in 0..n
      /\ \A i \in 0..n : Sound(g[i])
      /\ frame = g[n] /\ Named(rows) /\ WritersOK
  <2>1. n \in Nat
    BY <1>1 DEF ChainOf, Chain, Line
  <2> QED
    BY <1>1, <2>1, RowsNamed DEF ChainOf, ChainInv
<1>3. PICK k \in 0..n : Held(x, s, g, k)
  BY <1>1 DEF DraftsOf, AppendRow
<1>4. k = n
  <2>1. Children(rows, Node(s, k)) = {}
    BY <1>3 DEF AppendRow, Insertable, Held
  <2> QED
    BY <1>2, <2>1, NextAlong
<1>5. /\ x.id \in EventId /\ x.event \in EventsNamed(x.id)
      /\ x.predecessor = Node(s, n) /\ LegalEdge(frame, x.event)
  BY <1>2, <1>3, <1>4 DEF Held
<1>6. x.id \notin {y.id : y \in rows} /\ rows' = rows \cup {x}
  BY DEF AppendRow, Insertable
<1>7. frame' = ProjectChain(rows')
  BY DEF AppendRow
<1>8. /\ draft' = [v \in Writer |-> draft'[v]]
      /\ place' = [v \in Writer |-> place'[v]]
      /\ \A v \in Writer : place'[v] # "idle" =>
            /\ draft'[v] = draft[v]
            /\ place[v] # "idle"
  <2>1. /\ draft = [v \in Writer |-> draft[v]]
        /\ place = [v \in Writer |-> place[v]]
    BY <1>2 DEF WritersOK
  <2> QED
    BY <2>1 DEF AppendRow
<1> HIDE DEF x
<1>9. PICK t : /\ Chain(rows \cup {x}, n + 1, t) /\ t[n + 1] = x
               /\ \A i \in 1..n : t[i] = s[i]
  BY <1>2, <1>5, <1>6, ChainGrows
<1>10. PICK h :
           /\ h = [i \in 0..(n + 1) |-> h[i]]
           /\ h[n + 1] = Project(frame, x.event)
           /\ \A i \in 0..n : h[i] = g[i] /\ i \in 0..(n + 1)
           /\ \A i \in 0..(n + 1) : i = n + 1 \/ i \in 0..n
  <2> DEFINE h == [i \in 0..(n + 1) |->
                      IF i = n + 1 THEN Project(frame, x.event) ELSE g[i]]
  <2>1. /\ h = [i \in 0..(n + 1) |-> h[i]]
        /\ h[n + 1] = Project(frame, x.event)
        /\ \A i \in 0..n : h[i] = g[i] /\ i \in 0..(n + 1)
        /\ \A i \in 0..(n + 1) : i = n + 1 \/ i \in 0..n
    BY <1>2
  <2> HIDE DEF h
  <2> QED
    BY <2>1
<1>11. Along(h, t, n + 1)
  <2>1. h[0] = RootFrame
    <3>1. 0 \in 0..n
      BY <1>2
    <3> QED
      BY <1>2, <1>10, <3>1 DEF Along
  <2>2. ASSUME NEW i \in 1..(n + 1) PROVE h[i] = Project(h[i - 1], t[i].event)
    <3>1. CASE i = n + 1
      <4>1. i - 1 = n
        BY <1>2, <3>1
      <4> QED
        BY <1>2, <1>9, <1>10, <3>1, <4>1
    <3>2. CASE i # n + 1
      <4>1. i \in 1..n /\ i \in 0..n /\ i - 1 \in 0..n
        BY <1>2, <3>2
      <4>2. g[i] = Project(g[i - 1], s[i].event)
        BY <1>2, <4>1 DEF Along
      <4> QED
        BY <1>9, <1>10, <4>1, <4>2
    <3> QED
      BY <3>1, <3>2
  <2> QED
    BY <1>10, <2>1, <2>2 DEF Along
<1>12. WritersOK'
  BY <1>2, <1>5, <1>6, <1>8 DEF WritersOK
<1>13. Named(rows')
  BY <1>12, ChainAssumption DEF WritersOK, Named
<1>14. frame' = h[n + 1]
  BY <1>6, <1>7, <1>9, <1>11, <1>13, ProjectionOfChain
<1>15. \A i \in 0..(n + 1) : Sound(h[i])
  BY <1>2, <1>5, <1>10, SoundStays
<1>16. ChainOf(n + 1, t, h)'
  BY <1>6, <1>9, <1>11, <1>14, <1>15 DEF ChainOf
<1>17. ASSUME NEW v \in Writer, place'[v] # "idle"
       PROVE  \E i \in 0..(n + 1) : Held(draft'[v], t, h, i)
  <2>1. PICK i \in 0..n : Held(draft[v], s, g, i)
    BY <1>1, <1>8, <1>17 DEF DraftsOf
  <2>2. Node(t, i) = Node(s, i)
    <3>1. i = 0 \/ i \in 1..n
      BY <1>2
    <3> QED
      BY <1>9, <3>1 DEF Node
  <2>3. Held(draft'[v], t, h, i)
    BY <1>8, <1>10, <1>17, <2>1, <2>2 DEF Held
  <2> QED
    BY <1>10, <2>3
<1>18. DraftsOf(n + 1, t, h)'
  BY <1>17 DEF DraftsOf
<1>19. ChainInv'
  BY <1>12, <1>16, <1>18 DEF ChainInv
<1> QED
  BY <1>2, <1>5, <1>10, <1>14, <1>19 DEF x

LEMMA ChainInvStep == ChainInv /\ [Next]_vars => ChainInv'
<1> SUFFICES ASSUME ChainInv, [Next]_vars PROVE ChainInv'
  OBVIOUS
<1>1. /\ draft = [w \in Writer |-> draft[w]]
      /\ place = [w \in Writer |-> place[w]]
  BY DEF ChainInv, WritersOK
<1>2. ASSUME NEW w \in Writer, AppendRow(w) PROVE ChainInv'
  BY <1>2, AppendGrows
<1>3. ASSUME NEW w \in Writer, Read(w) PROVE ChainInv'
  <2> DEFINE Drafts(x) == draft' = [draft EXCEPT ![w] = x]
  <2>1. PICK id \in EventId :
            \E e \in EventsNamed(id) :
               LegalEdge(frame, e) /\ Drafts(Row(id, UniqueTerminal(rows), e))
    BY <1>3 DEF Read
  <2>2. PICK e \in EventsNamed(id) :
            LegalEdge(frame, e) /\ Drafts(Row(id, UniqueTerminal(rows), e))
    BY <2>1
  <2> DEFINE x == Row(id, UniqueTerminal(rows), e)
  <2>3. x.id = id /\ x.predecessor = UniqueTerminal(rows) /\ x.event = e
    BY DEF Row
  <2> HIDE DEF x
  <2>4. Drafts(x)
    BY <2>2 DEF x
  <2> QED
    BY <1>1, <1>3, <2>2, <2>3, <2>4, ChainInvStays DEF Read
<1>4. ASSUME NEW w \in Writer, Reject(w) PROVE ChainInv'
  BY <1>1, <1>4, ChainInvStays DEF Reject
<1>5. ASSUME NEW w \in Writer, Fail(w) PROVE ChainInv'
  BY <1>1, <1>5, ChainInvStays DEF Fail
<1>6. ASSUME NEW w \in Writer, Resume(w) PROVE ChainInv'
  BY <1>1, <1>6, ChainInvStays DEF Resume
<1>7. CASE UNCHANGED vars
  BY <1>1, <1>7, ChainInvStays DEF vars
<1> QED
  BY <1>2, <1>3, <1>4, <1>5, <1>6, <1>7 DEF Next

(* Whoever overtakes whom, fails, or sends a row twice: the rows are one   *)
(* chain, in an order that is theirs alone, and every frame along it is    *)
(* sound (PRIMARY KEY, UNIQUE NULLS NOT DISTINCT and the predecessor's     *)
(* foreign key of ledger-spec.ts).                                         *)
OneSoundChain == \E n, s, g : ChainOf(n, s, g)

THEOREM RowsAreOneChain == Spec => []OneSoundChain
<1>1. ChainInv => OneSoundChain
  BY DEF ChainInv, OneSoundChain
<1> QED
  BY <1>1, ChainInvInit, ChainInvStep, PTL DEF Spec

(* So the writers implement LedgerAddress with no lock at all              *)
(* ("constraints on the chain are the backstop", docs/adr/0006).           *)
THEOREM LedgerImplementedByRows == Spec => ChainImplementsLedger
<1>1. Init => Ledger!Init
  <2> SUFFICES ASSUME Init PROVE frame = RootFrame
    BY DEF Ledger!Init, Ledger!RootFrame, Ledger!Frame, Ledger!NoClaim,
           Ledger!None, RootFrame, Frame, NoClaim, None
  <2>1. PICK n, s, g : ChainOf(n, s, g)
    BY ChainInvInit DEF ChainInv
  <2>2. n = 0
    <3>1. n \in Nat /\ \A i \in 1..n : s[i] \in rows
      BY <2>1 DEF ChainOf, Chain, Line
    <3>2. n \notin 1..n
      BY <3>1 DEF Init
    <3> QED
      BY <3>1, <3>2
  <2> QED
    BY <2>1, <2>2 DEF ChainOf, Along
<1>2. ASSUME ChainInv, [Next]_vars
      PROVE  [Ledger!Next]_frame
  <2>1. ASSUME NEW w \in Writer, AppendRow(w) PROVE Ledger!Next
    BY <1>2, <2>1, AppendGrows, EdgeImplements
  <2>2. CASE UNCHANGED frame
    BY <2>2
  <2> QED
    BY <1>2, <2>1, <2>2 DEF Next, Read, Reject, Fail, Resume, vars
<1> QED
  BY <1>1, <1>2, ChainInvInit, ChainInvStep, PTL
     DEF Spec, ChainImplementsLedger, Ledger!Spec

=============================================================================
