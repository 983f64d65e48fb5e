----------------------------- MODULE HamtProofs -----------------------------
(***************************************************************************)
(* Proofs about module Hamt, for every set of keys, fan-out, digest length *)
(* and leaf bound.  Its operators are recursive functions over the way to  *)
(* a key, the levels or the height of a tree; induction on them goes       *)
(* through the least counterexample.                                       *)
(***************************************************************************)
EXTENDS Hamt, FiniteSetTheorems, WellFoundedInduction, TLAPS

(***************************************************************************)
(* A set of naturals that is not empty has a least member.                 *)
(***************************************************************************)
LEMMA LeastMember ==
    ASSUME NEW T, T \subseteq Nat, T # {}
    PROVE  \E x \in T : \A y \in T : x <= y
<1>1. PICK x \in T : \A y \in T : <<y, x>> \notin OpToRel(<, Nat)
  BY NatLessThanWellFounded, WFMin
<1>2. \A y \in T : ~(y < x)
  BY <1>1 DEF OpToRel
<1> QED
  BY <1>2

(***************************************************************************)
(* Induction from J to K, for a set.                                       *)
(***************************************************************************)
LEMMA FromTo ==
    ASSUME NEW J \in Nat, NEW K \in Nat, NEW T,
           J \in T, \A n \in J + 1 .. K : n - 1 \in T => n \in T
    PROVE  \A n \in J .. K : n \in T
<1> DEFINE Bad == {k \in J .. K : k \notin T}
<1>1. SUFFICES ASSUME Bad # {} PROVE FALSE
  OBVIOUS
<1>2. PICK k \in Bad : \A j \in Bad : k <= j
  <2>1. Bad \subseteq Nat
    OBVIOUS
  <2> HIDE DEF Bad
  <2> QED
    BY <1>1, <2>1, LeastMember
<1>3. k \in J + 1 .. K
  OBVIOUS
<1>4. k - 1 \in J .. K /\ k - 1 \notin Bad
  BY <1>2, <1>3
<1> QED
  BY <1>3, <1>4

-----------------------------------------------------------------------------
\* One step down on the way to a key.
Down(n, k, d) == IF n.kind = "intermediate" THEN n.slots[descent_byte(k, d)] ELSE n

(***************************************************************************)
(* The way to a key: it starts at the node and goes down one slot at a     *)
(* time.                                                                   *)
(***************************************************************************)
LEMMA PathIs ==
    ASSUME NEW node, NEW k, NEW depth \in 0 .. DigestLen
    PROVE  /\ Path(node, k, depth)[depth] = node
           /\ \A d \in depth + 1 .. DigestLen :
                 Path(node, k, depth)[d] = Down(Path(node, k, depth)[d - 1], k, d - 1)
           /\ DOMAIN Path(node, k, depth) = depth .. DigestLen
<1> DEFINE Sol(z, m) == z = [d \in depth .. m |-> IF d = depth THEN node ELSE Down(z[d - 1], k, d - 1)]
           P(z) == Sol(z, DigestLen)
           rec == CHOOSE z : P(z)
           Has == {m \in depth .. DigestLen : \E z : Sol(z, m)}
<1>1. DigestLen \in Nat /\ depth \in Nat /\ depth <= DigestLen
  BY HamtAssumption
<1>2. depth \in Has
  <2>1. Sol([d \in depth .. depth |-> node], depth)
    BY <1>1
  <2> HIDE DEF Sol
  <2> QED
    BY <1>1, <2>1
<1>3. ASSUME NEW m \in depth + 1 .. DigestLen, m - 1 \in Has PROVE m \in Has
  <2> HIDE DEF Sol
  <2>1. PICK z : Sol(z, m - 1)
    BY <1>3
  <2> DEFINE w == [d \in depth .. m |-> IF d = m THEN Down(z[m - 1], k, m - 1) ELSE z[d]]
  <2>2. \A d \in depth .. m - 1 : z[d] = IF d = depth THEN node ELSE Down(z[d - 1], k, d - 1)
    BY <2>1 DEF Sol
  <2>3. ASSUME NEW d \in depth .. m
        PROVE  w[d] = IF d = depth THEN node ELSE Down(w[d - 1], k, d - 1)
    <3>1. CASE d = m
      <4>1. m \in depth .. m /\ m - 1 \in depth .. m /\ m - 1 # m /\ m # depth
        BY <1>1
      <4> QED
        BY <3>1, <4>1
    <3>2. CASE d # m
      <4>1. d \in depth .. m - 1 /\ d # m
        BY <1>1, <3>2
      <4>2. d # depth => d - 1 \in depth .. m /\ d - 1 # m
        BY <1>1
      <4> QED
        BY <2>2, <4>1, <4>2
    <3> QED
      BY <3>1, <3>2
  <2>4. Sol(w, m)
    <3>1. w = [d \in depth .. m |-> w[d]]
      OBVIOUS
    <3> HIDE DEF w
    <3> QED
      BY <2>3, <3>1, Zenon DEF Sol
  <2>5. m \in depth .. DigestLen
    BY <1>1
  <2> QED
    BY <2>4, <2>5
<1>4. \E z : P(z)
  <2>1. DigestLen \in depth .. DigestLen
    BY <1>1
  <2>2. DigestLen \in Has
    <3> HIDE DEF Has
    <3> QED
      BY <1>1, <1>2, <1>3, <2>1, FromTo
  <2> QED
    BY <2>2
<1>5. P(rec)
  <2> HIDE DEF P
  <2> QED
    BY <1>4
<1>6. Path(node, k, depth) = rec
  BY DEF Path, Down
<1> HIDE DEF rec
<1>7. /\ DOMAIN rec = depth .. DigestLen
      /\ \A d \in depth .. DigestLen : rec[d] = IF d = depth THEN node ELSE Down(rec[d - 1], k, d - 1)
  BY <1>5
<1>8. depth \in depth .. DigestLen
      /\ \A d \in depth + 1 .. DigestLen : d \in depth .. DigestLen /\ d # depth
  BY <1>1
<1> QED
  BY <1>6, <1>7, <1>8

\* The next level down.
LevelStep(r, skip, above, d) == IF d = 0 THEN {r} \ {NoNode} ELSE ChildrenOf(above \ skip)

(***************************************************************************)
(* The levels of a tree.                                                   *)
(***************************************************************************)
LEMMA LevelsAre ==
    ASSUME NEW r, NEW skip
    PROVE  /\ DOMAIN Levels(r, skip) = 0 .. DigestLen
           /\ \A n \in 0 .. DigestLen : Levels(r, skip)[n] = LevelStep(r, skip, Levels(r, skip)[n - 1], n)
<1> DEFINE Step(x, n) == LevelStep(r, skip, x, n)
           Sol(z, m) == z = [n \in 0 .. m |-> Step(z[n - 1], n)]
           P(z) == Sol(z, DigestLen)
           rec == CHOOSE z : P(z)
           Has == {m \in 0 .. DigestLen : \E z : Sol(z, m)}
<1>1. DigestLen \in Nat
  BY HamtAssumption
<1>2. \A x, y : Step(x, 0) = Step(y, 0)
  BY DEF LevelStep
<1> HIDE DEF Step
<1>3. 0 \in Has
  <2>1. PICK x : x = Step(0, 0)
    OBVIOUS
  <2>2. Sol([n \in 0 .. 0 |-> x], 0)
    BY <1>2, <2>1
  <2> HIDE DEF Sol
  <2> QED
    BY <1>1, <2>2
<1>4. ASSUME NEW m \in 0 + 1 .. DigestLen, m - 1 \in Has PROVE m \in Has
  <2> HIDE DEF Sol
  <2>1. PICK z : Sol(z, m - 1)
    BY <1>4
  <2> DEFINE w == [n \in 0 .. m |-> IF n = m THEN Step(z[m - 1], m) ELSE z[n]]
  <2>2. \A n \in 0 .. m - 1 : z[n] = Step(z[n - 1], n)
    BY <2>1 DEF Sol
  <2>3. ASSUME NEW n \in 0 .. m PROVE w[n] = Step(w[n - 1], n)
    <3>1. CASE n = m
      <4>1. m \in 0 .. m /\ m - 1 \in 0 .. m /\ m - 1 # m
        BY <1>1
      <4> QED
        BY <3>1, <4>1
    <3>2. CASE n # m /\ n # 0
      <4>1. n \in 0 .. m - 1 /\ n - 1 \in 0 .. m /\ n - 1 # m
        BY <1>1, <3>2
      <4> QED
        BY <2>2, <3>2, <4>1
    <3>3. CASE n # m /\ n = 0
      <4>1. n \in 0 .. m - 1
        BY <1>1, <3>3
      <4>2. w[n] = z[n] /\ z[n] = Step(z[n - 1], n)
        BY <2>2, <3>3, <4>1
      <4> HIDE DEF w
      <4> QED
        BY <1>2, <3>3, <4>2
    <3> QED
      BY <3>1, <3>2, <3>3
  <2>4. Sol(w, m)
    <3>1. w = [n \in 0 .. m |-> w[n]]
      OBVIOUS
    <3> HIDE DEF w
    <3> QED
      BY <2>3, <3>1, Zenon DEF Sol
  <2>5. m \in 0 .. DigestLen
    BY <1>1
  <2> QED
    BY <2>4, <2>5
<1>5. \E z : P(z)
  <2>1. DigestLen \in 0 .. DigestLen /\ 0 \in Nat
    BY <1>1
  <2>2. DigestLen \in Has
    <3> HIDE DEF Has
    <3> QED
      BY <1>1, <1>3, <1>4, <2>1, FromTo
  <2> QED
    BY <2>2
<1>6. P(rec)
  <2> HIDE DEF P
  <2> QED
    BY <1>5
<1>7. Levels(r, skip) = rec
  BY DEF Levels, Step, LevelStep
<1> HIDE DEF rec
<1>8. DOMAIN rec = 0 .. DigestLen /\ \A n \in 0 .. DigestLen : rec[n] = Step(rec[n - 1], n)
  BY <1>6
<1> QED
  BY <1>7, <1>8 DEF Step

\* The node at height h on the way to the entry's key, over the new one below.
InsertStep(at, e, below, h) ==
    LET d == DigestLen - h
    IN  IF at[d] \in lost THEN Failed
        ELSE IF at[d].kind # "intermediate" THEN InsertIntoLeaf(at[d], e, d)
        ELSE IF h = 0 THEN Failed
        ELSE CopyOver(at[d], descent_byte(e.key, d), below)

(***************************************************************************)
(* The nodes on the way to a key after an insert, by height.               *)
(***************************************************************************)
LEMMA InsertIs ==
    ASSUME NEW r, NEW e
    PROVE  /\ DOMAIN insert_at(r, e) = 0 .. DigestLen
           /\ \A n \in 0 .. DigestLen : insert_at(r, e)[n] = InsertStep(Path(r, e.key, 0), e, insert_at(r, e)[n - 1], n)
<1> DEFINE Step(x, n) == InsertStep(Path(r, e.key, 0), e, x, n)
           Sol(z, m) == z = [n \in 0 .. m |-> Step(z[n - 1], n)]
           P(z) == Sol(z, DigestLen)
           rec == CHOOSE z : P(z)
           Has == {m \in 0 .. DigestLen : \E z : Sol(z, m)}
<1>1. DigestLen \in Nat
  BY HamtAssumption
<1>2. \A x, y : Step(x, 0) = Step(y, 0)
  BY DEF InsertStep
<1> HIDE DEF Step
<1>3. 0 \in Has
  <2>1. PICK x : x = Step(0, 0)
    OBVIOUS
  <2>2. Sol([n \in 0 .. 0 |-> x], 0)
    BY <1>2, <2>1
  <2> HIDE DEF Sol
  <2> QED
    BY <1>1, <2>2
<1>4. ASSUME NEW m \in 0 + 1 .. DigestLen, m - 1 \in Has PROVE m \in Has
  <2> HIDE DEF Sol
  <2>1. PICK z : Sol(z, m - 1)
    BY <1>4
  <2> DEFINE w == [n \in 0 .. m |-> IF n = m THEN Step(z[m - 1], m) ELSE z[n]]
  <2>2. \A n \in 0 .. m - 1 : z[n] = Step(z[n - 1], n)
    BY <2>1 DEF Sol
  <2>3. ASSUME NEW n \in 0 .. m PROVE w[n] = Step(w[n - 1], n)
    <3>1. CASE n = m
      <4>1. m \in 0 .. m /\ m - 1 \in 0 .. m /\ m - 1 # m
        BY <1>1
      <4> QED
        BY <3>1, <4>1
    <3>2. CASE n # m /\ n # 0
      <4>1. n \in 0 .. m - 1 /\ n - 1 \in 0 .. m /\ n - 1 # m
        BY <1>1, <3>2
      <4> QED
        BY <2>2, <3>2, <4>1
    <3>3. CASE n # m /\ n = 0
      <4>1. n \in 0 .. m - 1
        BY <1>1, <3>3
      <4>2. w[n] = z[n] /\ z[n] = Step(z[n - 1], n)
        BY <2>2, <3>3, <4>1
      <4> HIDE DEF w
      <4> QED
        BY <1>2, <3>3, <4>2
    <3> QED
      BY <3>1, <3>2, <3>3
  <2>4. Sol(w, m)
    <3>1. w = [n \in 0 .. m |-> w[n]]
      OBVIOUS
    <3> HIDE DEF w
    <3> QED
      BY <2>3, <3>1, Zenon DEF Sol
  <2>5. m \in 0 .. DigestLen
    BY <1>1
  <2> QED
    BY <2>4, <2>5
<1>5. \E z : P(z)
  <2>1. DigestLen \in 0 .. DigestLen /\ 0 \in Nat
    BY <1>1
  <2>2. DigestLen \in Has
    <3> HIDE DEF Has
    <3> QED
      BY <1>1, <1>3, <1>4, <2>1, FromTo
  <2> QED
    BY <2>2
<1>6. P(rec)
  <2> HIDE DEF P
  <2> QED
    BY <1>5
<1>7. insert_at(r, e) = rec
  BY DEF insert_at, Step, InsertStep
<1> HIDE DEF rec
<1>8. DOMAIN rec = 0 .. DigestLen /\ \A n \in 0 .. DigestLen : rec[n] = Step(rec[n - 1], n)
  BY <1>6
<1> QED
  BY <1>7, <1>8 DEF Step

-----------------------------------------------------------------------------
\* The tree after one more entry of a batch.
BatchStep(r, entries, acc, n) ==
    IF n = 0 THEN Kept(r)
    ELSE IF acc.root = ErrNode THEN acc
    ELSE [root  |-> insert_one(acc.root, entries[n]).root,
          wrote |-> acc.wrote \union insert_one(acc.root, entries[n]).wrote]

(***************************************************************************)
(* The tree after each entry of a batch.                                   *)
(***************************************************************************)
LEMMA BatchIs ==
    ASSUME NEW r, NEW entries \in Seq(Entry)
    PROVE  /\ DOMAIN InsertEach(r, entries) = 0 .. Len(entries)
           /\ \A n \in 0 .. Len(entries) : InsertEach(r, entries)[n] = BatchStep(r, entries, InsertEach(r, entries)[n - 1], n)
<1> DEFINE Step(x, n) == BatchStep(r, entries, x, n)
           Sol(z, m) == z = [n \in 0 .. m |-> Step(z[n - 1], n)]
           P(z) == Sol(z, Len(entries))
           rec == CHOOSE z : P(z)
           Has == {m \in 0 .. Len(entries) : \E z : Sol(z, m)}
<1>1. Len(entries) \in Nat
  OBVIOUS
<1>2. \A x, y : Step(x, 0) = Step(y, 0)
  BY DEF BatchStep
<1> HIDE DEF Step
<1>3. 0 \in Has
  <2>1. PICK x : x = Step(0, 0)
    OBVIOUS
  <2>2. Sol([n \in 0 .. 0 |-> x], 0)
    BY <1>2, <2>1
  <2> HIDE DEF Sol
  <2> QED
    BY <1>1, <2>2
<1>4. ASSUME NEW m \in 0 + 1 .. Len(entries), m - 1 \in Has PROVE m \in Has
  <2> HIDE DEF Sol
  <2>1. PICK z : Sol(z, m - 1)
    BY <1>4
  <2> DEFINE w == [n \in 0 .. m |-> IF n = m THEN Step(z[m - 1], m) ELSE z[n]]
  <2>2. \A n \in 0 .. m - 1 : z[n] = Step(z[n - 1], n)
    BY <2>1 DEF Sol
  <2>3. ASSUME NEW n \in 0 .. m PROVE w[n] = Step(w[n - 1], n)
    <3>1. CASE n = m
      <4>1. m \in 0 .. m /\ m - 1 \in 0 .. m /\ m - 1 # m
        BY <1>1
      <4> QED
        BY <3>1, <4>1
    <3>2. CASE n # m /\ n # 0
      <4>1. n \in 0 .. m - 1 /\ n - 1 \in 0 .. m /\ n - 1 # m
        BY <1>1, <3>2
      <4> QED
        BY <2>2, <3>2, <4>1
    <3>3. CASE n # m /\ n = 0
      <4>1. n \in 0 .. m - 1
        BY <1>1, <3>3
      <4>2. w[n] = z[n] /\ z[n] = Step(z[n - 1], n)
        BY <2>2, <3>3, <4>1
      <4> HIDE DEF w
      <4> QED
        BY <1>2, <3>3, <4>2
    <3> QED
      BY <3>1, <3>2, <3>3
  <2>4. Sol(w, m)
    <3>1. w = [n \in 0 .. m |-> w[n]]
      OBVIOUS
    <3> HIDE DEF w
    <3> QED
      BY <2>3, <3>1, Zenon DEF Sol
  <2>5. m \in 0 .. Len(entries)
    BY <1>1
  <2> QED
    BY <2>4, <2>5
<1>5. \E z : P(z)
  <2>1. Len(entries) \in 0 .. Len(entries) /\ 0 \in Nat
    BY <1>1
  <2>2. Len(entries) \in Has
    <3> HIDE DEF Has
    <3> QED
      BY <1>1, <1>3, <1>4, <2>1, FromTo
  <2> QED
    BY <2>2
<1>6. P(rec)
  <2> HIDE DEF P
  <2> QED
    BY <1>5
<1>7. InsertEach(r, entries) = rec
  BY DEF InsertEach, Step, BatchStep
<1> HIDE DEF rec
<1>8. DOMAIN rec = 0 .. Len(entries) /\ \A n \in 0 .. Len(entries) : rec[n] = Step(rec[n - 1], n)
  BY <1>6
<1> QED
  BY <1>7, <1>8 DEF Step

\* What was first inserted, after one more entry of a batch.
FirstStep(entries, before, n) ==
    IF n = 0 THEN inserted
    ELSE IF before[entries[n].key] = None
         THEN [before EXCEPT ![entries[n].key] = entries[n].hash]
    ELSE before

(***************************************************************************)
(* What was first inserted, after each entry of a batch.                   *)
(***************************************************************************)
LEMMA FirstIs ==
    ASSUME NEW entries \in Seq(Entry)
    PROVE  /\ DOMAIN FirstInserted(entries) = 0 .. Len(entries)
           /\ \A n \in 0 .. Len(entries) : FirstInserted(entries)[n] = FirstStep(entries, FirstInserted(entries)[n - 1], n)
<1> DEFINE Step(x, n) == FirstStep(entries, x, n)
           Sol(z, m) == z = [n \in 0 .. m |-> Step(z[n - 1], n)]
           P(z) == Sol(z, Len(entries))
           rec == CHOOSE z : P(z)
           Has == {m \in 0 .. Len(entries) : \E z : Sol(z, m)}
<1>1. Len(entries) \in Nat
  OBVIOUS
<1>2. \A x, y : Step(x, 0) = Step(y, 0)
  BY DEF FirstStep
<1> HIDE DEF Step
<1>3. 0 \in Has
  <2>1. PICK x : x = Step(0, 0)
    OBVIOUS
  <2>2. Sol([n \in 0 .. 0 |-> x], 0)
    BY <1>2, <2>1
  <2> HIDE DEF Sol
  <2> QED
    BY <1>1, <2>2
<1>4. ASSUME NEW m \in 0 + 1 .. Len(entries), m - 1 \in Has PROVE m \in Has
  <2> HIDE DEF Sol
  <2>1. PICK z : Sol(z, m - 1)
    BY <1>4
  <2> DEFINE w == [n \in 0 .. m |-> IF n = m THEN Step(z[m - 1], m) ELSE z[n]]
  <2>2. \A n \in 0 .. m - 1 : z[n] = Step(z[n - 1], n)
    BY <2>1 DEF Sol
  <2>3. ASSUME NEW n \in 0 .. m PROVE w[n] = Step(w[n - 1], n)
    <3>1. CASE n = m
      <4>1. m \in 0 .. m /\ m - 1 \in 0 .. m /\ m - 1 # m
        BY <1>1
      <4> QED
        BY <3>1, <4>1
    <3>2. CASE n # m /\ n # 0
      <4>1. n \in 0 .. m - 1 /\ n - 1 \in 0 .. m /\ n - 1 # m
        BY <1>1, <3>2
      <4> QED
        BY <2>2, <3>2, <4>1
    <3>3. CASE n # m /\ n = 0
      <4>1. n \in 0 .. m - 1
        BY <1>1, <3>3
      <4>2. w[n] = z[n] /\ z[n] = Step(z[n - 1], n)
        BY <2>2, <3>3, <4>1
      <4> HIDE DEF w
      <4> QED
        BY <1>2, <3>3, <4>2
    <3> QED
      BY <3>1, <3>2, <3>3
  <2>4. Sol(w, m)
    <3>1. w = [n \in 0 .. m |-> w[n]]
      OBVIOUS
    <3> HIDE DEF w
    <3> QED
      BY <2>3, <3>1, Zenon DEF Sol
  <2>5. m \in 0 .. Len(entries)
    BY <1>1
  <2> QED
    BY <2>4, <2>5
<1>5. \E z : P(z)
  <2>1. Len(entries) \in 0 .. Len(entries) /\ 0 \in Nat
    BY <1>1
  <2>2. Len(entries) \in Has
    <3> HIDE DEF Has
    <3> QED
      BY <1>1, <1>3, <1>4, <2>1, FromTo
  <2> QED
    BY <2>2
<1>6. P(rec)
  <2> HIDE DEF P
  <2> QED
    BY <1>5
<1>7. FirstInserted(entries) = rec
  BY DEF FirstInserted, Step, FirstStep
<1> HIDE DEF rec
<1>8. DOMAIN rec = 0 .. Len(entries) /\ \A n \in 0 .. Len(entries) : rec[n] = Step(rec[n - 1], n)
  BY <1>6
<1> QED
  BY <1>7, <1>8 DEF Step

\* The bulk-built trees of height h, over those below.
BuildStep(entries, below, h) ==
    [S \in SUBSET DOMAIN entries |->
        IF Cardinality(S) <= LeafMax THEN Leaf([k \in S |-> entries[k]])
        ELSE IF h = 0 THEN ErrNode
        ELSE LET slots == Slots(S, DigestLen - h, below)
             IN  IF ErrNode \in Range(slots) THEN ErrNode ELSE Intermediate(slots)]

(***************************************************************************)
(* The bulk-built trees of the key sets, by height.                        *)
(***************************************************************************)
LEMMA BuildIs ==
    ASSUME NEW entries
    PROVE  /\ DOMAIN build_subtree(entries) = 0 .. DigestLen
           /\ \A n \in 0 .. DigestLen : build_subtree(entries)[n] = BuildStep(entries, build_subtree(entries)[n - 1], n)
<1> DEFINE Step(x, n) == BuildStep(entries, x, n)
           Sol(z, m) == z = [n \in 0 .. m |-> Step(z[n - 1], n)]
           P(z) == Sol(z, DigestLen)
           rec == CHOOSE z : P(z)
           Has == {m \in 0 .. DigestLen : \E z : Sol(z, m)}
<1>1. DigestLen \in Nat
  BY HamtAssumption
<1>2. \A x, y : Step(x, 0) = Step(y, 0)
  BY DEF BuildStep
<1> HIDE DEF Step
<1>3. 0 \in Has
  <2>1. PICK x : x = Step(0, 0)
    OBVIOUS
  <2>2. Sol([n \in 0 .. 0 |-> x], 0)
    BY <1>2, <2>1
  <2> HIDE DEF Sol
  <2> QED
    BY <1>1, <2>2
<1>4. ASSUME NEW m \in 0 + 1 .. DigestLen, m - 1 \in Has PROVE m \in Has
  <2> HIDE DEF Sol
  <2>1. PICK z : Sol(z, m - 1)
    BY <1>4
  <2> DEFINE w == [n \in 0 .. m |-> IF n = m THEN Step(z[m - 1], m) ELSE z[n]]
  <2>2. \A n \in 0 .. m - 1 : z[n] = Step(z[n - 1], n)
    BY <2>1 DEF Sol
  <2>3. ASSUME NEW n \in 0 .. m PROVE w[n] = Step(w[n - 1], n)
    <3>1. CASE n = m
      <4>1. m \in 0 .. m /\ m - 1 \in 0 .. m /\ m - 1 # m
        BY <1>1
      <4> QED
        BY <3>1, <4>1
    <3>2. CASE n # m /\ n # 0
      <4>1. n \in 0 .. m - 1 /\ n - 1 \in 0 .. m /\ n - 1 # m
        BY <1>1, <3>2
      <4> QED
        BY <2>2, <3>2, <4>1
    <3>3. CASE n # m /\ n = 0
      <4>1. n \in 0 .. m - 1
        BY <1>1, <3>3
      <4>2. w[n] = z[n] /\ z[n] = Step(z[n - 1], n)
        BY <2>2, <3>3, <4>1
      <4> HIDE DEF w
      <4> QED
        BY <1>2, <3>3, <4>2
    <3> QED
      BY <3>1, <3>2, <3>3
  <2>4. Sol(w, m)
    <3>1. w = [n \in 0 .. m |-> w[n]]
      OBVIOUS
    <3> HIDE DEF w
    <3> QED
      BY <2>3, <3>1, Zenon DEF Sol
  <2>5. m \in 0 .. DigestLen
    BY <1>1
  <2> QED
    BY <2>4, <2>5
<1>5. \E z : P(z)
  <2>1. DigestLen \in 0 .. DigestLen /\ 0 \in Nat
    BY <1>1
  <2>2. DigestLen \in Has
    <3> HIDE DEF Has
    <3> QED
      BY <1>1, <1>3, <1>4, <2>1, FromTo
  <2> QED
    BY <2>2
<1>6. P(rec)
  <2> HIDE DEF P
  <2> QED
    BY <1>5
<1>7. build_subtree(entries) = rec
  BY DEF build_subtree, Step, BuildStep
<1> HIDE DEF rec
<1>8. DOMAIN rec = 0 .. DigestLen /\ \A n \in 0 .. DigestLen : rec[n] = Step(rec[n - 1], n)
  BY <1>6
<1> QED
  BY <1>7, <1>8 DEF Step

-----------------------------------------------------------------------------
(***************************************************************************)
(* The trees of height h over a set of keys: a leaf of some of them, or    *)
(* slots with a lower tree over the keys of each byte.                     *)
(***************************************************************************)
LeavesOf(S) == {Leaf(f) : f \in UNION {[R -> Hashes] : R \in SUBSET S}}

Branches(below, h, S) ==
    LET Any == {NoNode} \union UNION {below[T] : T \in SUBSET Keys}
        Fits(s) == \A b \in Bytes : s[b] \in below[KeysAt(S, DigestLen - h, b)] \union {NoNode}
    IN  {Intermediate(s) : s \in {t \in [Bytes -> Any] : Fits(t)}}

TreesStep(below, h) ==
    [S \in SUBSET Keys |-> LeavesOf(S) \union IF h = 0 THEN {} ELSE Branches(below, h, S)]

TreesAt[h \in 0 .. DigestLen] == TreesStep(TreesAt[h - 1], h)

(***************************************************************************)
(* The trees by height, over those below.                                  *)
(***************************************************************************)
LEMMA TreesAre ==
    /\ DOMAIN TreesAt = 0 .. DigestLen
    /\ \A n \in 0 .. DigestLen : TreesAt[n] = TreesStep(TreesAt[n - 1], n)
<1> DEFINE Step(x, n) == TreesStep(x, n)
           Sol(z, m) == z = [n \in 0 .. m |-> Step(z[n - 1], n)]
           P(z) == Sol(z, DigestLen)
           rec == CHOOSE z : P(z)
           Has == {m \in 0 .. DigestLen : \E z : Sol(z, m)}
<1>1. DigestLen \in Nat
  BY HamtAssumption
<1>2. \A x, y : Step(x, 0) = Step(y, 0)
  BY DEF TreesStep
<1> HIDE DEF Step
<1>3. 0 \in Has
  <2>1. PICK x : x = Step(0, 0)
    OBVIOUS
  <2>2. Sol([n \in 0 .. 0 |-> x], 0)
    BY <1>2, <2>1
  <2> HIDE DEF Sol
  <2> QED
    BY <1>1, <2>2
<1>4. ASSUME NEW m \in 0 + 1 .. DigestLen, m - 1 \in Has PROVE m \in Has
  <2> HIDE DEF Sol
  <2>1. PICK z : Sol(z, m - 1)
    BY <1>4
  <2> DEFINE w == [n \in 0 .. m |-> IF n = m THEN Step(z[m - 1], m) ELSE z[n]]
  <2>2. \A n \in 0 .. m - 1 : z[n] = Step(z[n - 1], n)
    BY <2>1 DEF Sol
  <2>3. ASSUME NEW n \in 0 .. m PROVE w[n] = Step(w[n - 1], n)
    <3>1. CASE n = m
      <4>1. m \in 0 .. m /\ m - 1 \in 0 .. m /\ m - 1 # m
        BY <1>1
      <4> QED
        BY <3>1, <4>1
    <3>2. CASE n # m /\ n # 0
      <4>1. n \in 0 .. m - 1 /\ n - 1 \in 0 .. m /\ n - 1 # m
        BY <1>1, <3>2
      <4> QED
        BY <2>2, <3>2, <4>1
    <3>3. CASE n # m /\ n = 0
      <4>1. n \in 0 .. m - 1
        BY <1>1, <3>3
      <4>2. w[n] = z[n] /\ z[n] = Step(z[n - 1], n)
        BY <2>2, <3>3, <4>1
      <4> HIDE DEF w
      <4> QED
        BY <1>2, <3>3, <4>2
    <3> QED
      BY <3>1, <3>2, <3>3
  <2>4. Sol(w, m)
    <3>1. w = [n \in 0 .. m |-> w[n]]
      OBVIOUS
    <3> HIDE DEF w
    <3> QED
      BY <2>3, <3>1, Zenon DEF Sol
  <2>5. m \in 0 .. DigestLen
    BY <1>1
  <2> QED
    BY <2>4, <2>5
<1>5. \E z : P(z)
  <2>1. DigestLen \in 0 .. DigestLen /\ 0 \in Nat
    BY <1>1
  <2>2. DigestLen \in Has
    <3> HIDE DEF Has
    <3> QED
      BY <1>1, <1>3, <1>4, <2>1, FromTo
  <2> QED
    BY <2>2
<1>6. P(rec)
  <2> HIDE DEF P
  <2> QED
    BY <1>5
<1>7. TreesAt = rec
  BY DEF TreesAt, Step
<1> HIDE DEF rec
<1>8. DOMAIN rec = 0 .. DigestLen /\ \A n \in 0 .. DigestLen : rec[n] = Step(rec[n - 1], n)
  BY <1>6
<1> QED
  BY <1>7, <1>8 DEF Step

IsLeaf(x, S) ==
    /\ x = Leaf(x.entries)
    /\ DOMAIN x.entries \subseteq S
    /\ x.entries \in [DOMAIN x.entries -> Hashes]

Below(h, S, b) == TreesAt[h - 1][KeysAt(S, DigestLen - h, b)] \union {NoNode}

IsBranch(x, h, S) ==
    /\ x = Intermediate(x.slots)
    /\ x.slots = [b \in Bytes |-> x.slots[b]]
    /\ \A b \in Bytes : x.slots[b] \in Below(h, S, b)

(***************************************************************************)
(* The leaves of a set of keys.                                            *)
(***************************************************************************)
LEMMA LeavesAre ==
    ASSUME NEW S, NEW x
    PROVE  x \in LeavesOf(S) <=> IsLeaf(x, S)
<1>1. ASSUME x \in LeavesOf(S) PROVE IsLeaf(x, S)
  <2>1. PICK f \in UNION {[R -> Hashes] : R \in SUBSET S} : x = Leaf(f)
    BY <1>1 DEF LeavesOf
  <2>2. PICK R \in SUBSET S : f \in [R -> Hashes]
    BY <2>1
  <2>3. x.entries = f
    BY <2>1 DEF Leaf
  <2> QED
    BY <2>1, <2>2, <2>3 DEF IsLeaf
<1>2. ASSUME IsLeaf(x, S) PROVE x \in LeavesOf(S)
  <2>1. PICK f : f = x.entries
    OBVIOUS
  <2>2. x = Leaf(f) /\ DOMAIN f \in SUBSET S /\ f \in [DOMAIN f -> Hashes]
    BY <1>2, <2>1 DEF IsLeaf
  <2>3. PICK R : R = DOMAIN f
    OBVIOUS
  <2>4. f \in UNION {[Q -> Hashes] : Q \in SUBSET S}
    BY <2>2, <2>3, Zenon
  <2> QED
    BY <2>2, <2>4, Zenon DEF LeavesOf
<1> QED
  BY <1>1, <1>2

(***************************************************************************)
(* A tree is a leaf, or an intermediate node over lower trees.             *)
(***************************************************************************)
LEMMA TreeIs ==
    ASSUME NEW h \in 0 .. DigestLen, NEW S \in SUBSET Keys, NEW x
    PROVE  x \in TreesAt[h][S] <=> IsLeaf(x, S) \/ (h # 0 /\ IsBranch(x, h, S))
<1> DEFINE below == TreesAt[h - 1]
           Any == {NoNode} \union UNION {below[T] : T \in SUBSET Keys}
           Fits(s) == \A b \in Bytes : s[b] \in below[KeysAt(S, DigestLen - h, b)] \union {NoNode}
<1>1. TreesAt[h][S] = LeavesOf(S) \union IF h = 0 THEN {} ELSE Branches(below, h, S)
  <2>1. TreesAt[h] = TreesStep(below, h)
    BY TreesAre
  <2> QED
    BY <2>1 DEF TreesStep
<1>2. ASSUME x \in Branches(below, h, S) PROVE IsBranch(x, h, S)
  <2>1. PICK s \in [Bytes -> Any] : x = Intermediate(s) /\ Fits(s)
    BY <1>2, Zenon DEF Branches
  <2>2. x.slots = s
    BY <2>1 DEF Intermediate
  <2>3. s = [b \in Bytes |-> s[b]]
    <3> HIDE DEF Any
    <3> QED
      BY <2>1
  <2>4. \A b \in Bytes : s[b] \in Below(h, S, b)
    BY <2>1 DEF Below
  <2> HIDE DEF Any, Fits
  <2> QED
    BY <2>1, <2>2, <2>3, <2>4 DEF IsBranch
<1>3. ASSUME IsBranch(x, h, S) PROVE x \in Branches(below, h, S)
  <2>1. PICK s : s = x.slots
    OBVIOUS
  <2>2. x = Intermediate(s) /\ s = [b \in Bytes |-> s[b]] /\ \A b \in Bytes : s[b] \in Below(h, S, b)
    <3> HIDE DEF below, Fits, Any
    <3> QED
      BY <1>3, <2>1, Zenon DEF IsBranch
  <2>3. Fits(s)
    BY <2>2 DEF Below
  <2>4. ASSUME NEW b \in Bytes PROVE s[b] \in Any
    <3>1. PICK T : T = KeysAt(S, DigestLen - h, b)
      OBVIOUS
    <3>2. T \in SUBSET Keys
      BY <3>1 DEF KeysAt
    <3>3. s[b] \in below[T] \/ s[b] = NoNode
      BY <2>2, <3>1 DEF Below
    <3> HIDE DEF below
    <3> QED
      BY <3>2, <3>3
  <2>5. s \in [Bytes -> Any]
    <3> HIDE DEF Any
    <3> QED
      BY <2>2, <2>4
  <2> QED
    BY <2>2, <2>3, <2>5, Zenon DEF Branches
<1> HIDE DEF below
<1> QED
  BY <1>1, <1>2, <1>3, LeavesAre

(***************************************************************************)
(* What the parts of a node are.                                           *)
(***************************************************************************)
LEMMA NodeParts ==
    /\ \A f : Leaf(f).kind = "leaf" /\ Leaf(f).entries = f
    /\ \A s : Intermediate(s).kind = "intermediate" /\ Intermediate(s).slots = s
    /\ \A f : Leaf(f) # NoNode /\ Leaf(f) # ErrNode
    /\ \A s : Intermediate(s) # NoNode /\ Intermediate(s) # ErrNode
    /\ NoNode # ErrNode /\ NoNode.kind = "none" /\ ErrNode.kind = "error"
<1>1. \A f : Leaf(f).kind = "leaf" /\ Leaf(f).entries = f
  BY DEF Leaf
<1>2. \A s : Intermediate(s).kind = "intermediate" /\ Intermediate(s).slots = s
  BY DEF Intermediate
<1>3. NoNode.kind = "none" /\ ErrNode.kind = "error"
  BY DEF NoNode, ErrNode
<1> QED
  BY <1>1, <1>2, <1>3

-----------------------------------------------------------------------------
(***************************************************************************)
(* The way to a key stays where it meets no intermediate node.             *)
(***************************************************************************)
LEMMA EndStays ==
    ASSUME NEW node, NEW k, NEW depth \in 0 .. DigestLen, NEW j \in depth .. DigestLen,
           Path(node, k, depth)[j].kind # "intermediate"
    PROVE  \A d \in j .. DigestLen : Path(node, k, depth)[d] = Path(node, k, depth)[j]
<1>1. PICK p : p = Path(node, k, depth)
  OBVIOUS
<1>2. DigestLen \in Nat /\ j \in Nat /\ depth \in Nat
  BY HamtAssumption
<1>3. \A d \in depth + 1 .. DigestLen : p[d] = Down(p[d - 1], k, d - 1)
  BY <1>1, PathIs
<1> DEFINE T == {d \in j .. DigestLen : p[d] = p[j]}
<1>4. j \in T
  BY <1>2
<1>5. ASSUME NEW d \in j + 1 .. DigestLen, d - 1 \in T PROVE d \in T
  <2>1. d \in depth + 1 .. DigestLen /\ d \in j .. DigestLen
    BY <1>2
  <2>2. p[d] = Down(p[d - 1], k, d - 1) /\ p[d - 1] = p[j]
    BY <1>3, <1>5, <2>1
  <2>3. p[j].kind # "intermediate"
    BY <1>1
  <2> QED
    BY <2>1, <2>2, <2>3 DEF Down
<1>6. \A d \in j .. DigestLen : d \in T
  <2> HIDE DEF T
  <2> QED
    BY <1>2, <1>4, <1>5, FromTo
<1> QED
  BY <1>1, <1>6

(***************************************************************************)
(* Below an intermediate node it is the way from its slot.                 *)
(***************************************************************************)
LEMMA WayDown ==
    ASSUME NEW node, NEW k, NEW depth \in 0 .. DigestLen, depth # DigestLen,
           node.kind = "intermediate"
    PROVE  \A d \in depth + 1 .. DigestLen :
              Path(node, k, depth)[d] = Path(node.slots[descent_byte(k, depth)], k, depth + 1)[d]
<1>1. PICK p : p = Path(node, k, depth)
  OBVIOUS
<1>2. PICK q : q = Path(node.slots[descent_byte(k, depth)], k, depth + 1)
  OBVIOUS
<1>3. DigestLen \in Nat /\ depth \in Nat /\ depth + 1 \in Nat /\ depth + 1 \in 0 .. DigestLen
  BY HamtAssumption
<1>4. p[depth] = node /\ \A d \in depth + 1 .. DigestLen : p[d] = Down(p[d - 1], k, d - 1)
  BY <1>1, PathIs
<1>5. /\ q[depth + 1] = node.slots[descent_byte(k, depth)]
      /\ \A d \in (depth + 1) + 1 .. DigestLen : q[d] = Down(q[d - 1], k, d - 1)
  BY <1>2, <1>3, PathIs
<1> DEFINE T == {d \in depth + 1 .. DigestLen : p[d] = q[d]}
<1>6. depth + 1 \in T
  <2>1. depth + 1 \in depth + 1 .. DigestLen /\ (depth + 1) - 1 = depth
    BY <1>3
  <2>2. p[depth + 1] = Down(node, k, depth)
    BY <1>4, <2>1
  <2> QED
    BY <1>5, <2>1, <2>2 DEF Down
<1>7. ASSUME NEW d \in (depth + 1) + 1 .. DigestLen, d - 1 \in T PROVE d \in T
  <2>1. d \in depth + 1 .. DigestLen
    BY <1>3
  <2> QED
    BY <1>4, <1>5, <1>7, <2>1
<1>8. \A d \in depth + 1 .. DigestLen : d \in T
  <2> HIDE DEF T
  <2> QED
    BY <1>3, <1>6, <1>7, FromTo
<1> QED
  BY <1>1, <1>2, <1>8

\* What the way from a node at some depth finds of a key.
FindAt(node, k, depth) == Found(Path(node, k, depth)[DigestLen], k)

(***************************************************************************)
(* What is found is what the node says, or what its slot's way finds.      *)
(***************************************************************************)
LEMMA FindIs ==
    ASSUME NEW node, NEW k, NEW depth \in 0 .. DigestLen
    PROVE  /\ node.kind # "intermediate" => FindAt(node, k, depth) = Found(node, k)
           /\ node.kind = "intermediate" /\ depth # DigestLen =>
                 FindAt(node, k, depth) = FindAt(node.slots[descent_byte(k, depth)], k, depth + 1)
<1>1. DigestLen \in depth .. DigestLen /\ depth \in depth .. DigestLen
  BY HamtAssumption
<1>2. depth # DigestLen => DigestLen \in depth + 1 .. DigestLen
  BY HamtAssumption
<1>3. ASSUME node.kind # "intermediate" PROVE FindAt(node, k, depth) = Found(node, k)
  <2>1. Path(node, k, depth)[depth] = node
    BY PathIs
  <2>2. Path(node, k, depth)[depth].kind # "intermediate"
    BY <1>3, <2>1
  <2>3. Path(node, k, depth)[DigestLen] = node
    BY <1>1, <2>1, <2>2, EndStays
  <2> QED
    BY <2>3 DEF FindAt
<1>4. ASSUME node.kind = "intermediate", depth # DigestLen
      PROVE  FindAt(node, k, depth) = FindAt(node.slots[descent_byte(k, depth)], k, depth + 1)
  BY <1>2, <1>4, WayDown DEF FindAt
<1> QED
  BY <1>3, <1>4

(***************************************************************************)
(* What empty slots and intermediate nodes say of a key.                   *)
(***************************************************************************)
LEMMA FindNode ==
    ASSUME NEW k, NEW depth \in 0 .. DigestLen
    PROVE  /\ FindAt(NoNode, k, depth) = None
           /\ depth # DigestLen => \A s : FindAt(Intermediate(s), k, depth) =
                                             FindAt(s[descent_byte(k, depth)], k, depth + 1)
<1>1. FindAt(NoNode, k, depth) = None
  <2>1. Found(NoNode, k) = None
    BY NodeParts DEF Found
  <2> QED
    BY <2>1, NodeParts, FindIs
<1>2. ASSUME depth # DigestLen, NEW s
      PROVE  FindAt(Intermediate(s), k, depth) = FindAt(s[descent_byte(k, depth)], k, depth + 1)
  <2>1. PICK x : x = Intermediate(s)
    OBVIOUS
  <2>2. x.kind = "intermediate" /\ x.slots = s
    BY <2>1, NodeParts
  <2> QED
    BY <1>2, <2>1, <2>2, FindIs
<1> QED
  BY <1>1, <1>2

(***************************************************************************)
(* A leaf says of a key what it holds.                                     *)
(***************************************************************************)
LEMMA FindLeaf ==
    ASSUME NEW f, NEW k, NEW depth \in 0 .. DigestLen
    PROVE  FindAt(Leaf(f), k, depth) = IF k \in DOMAIN f THEN f[k] ELSE None
<1>1. PICK x : x = Leaf(f)
  OBVIOUS
<1>2. x.kind = "leaf" /\ x.entries = f
  BY <1>1, NodeParts
<1>3. FindAt(x, k, depth) = Found(x, k)
  BY <1>2, FindIs
<1> QED
  BY <1>1, <1>2, <1>3 DEF Found

-----------------------------------------------------------------------------
\* y is the tree x after the insert of an entry: the key's hash is the entry's
\* if it had none, nothing else changes, and nothing at all if it had one.
Inserts(h, S, x, e, y) ==
    /\ y \in TreesAt[h][S]
    /\ \A k \in Keys : FindAt(y, k, DigestLen - h) =
          IF k = e.key /\ FindAt(x, k, DigestLen - h) = None THEN e.hash
          ELSE FindAt(x, k, DigestLen - h)
    /\ FindAt(x, e.key, DigestLen - h) # None => y = x

(***************************************************************************)
(* The entries of a leaf or of an empty slot.                              *)
(***************************************************************************)
LEMMA EntriesAre ==
    ASSUME NEW h \in 0 .. DigestLen, NEW S \in SUBSET Keys,
           NEW x \in TreesAt[h][S] \union {NoNode}, x.kind # "intermediate"
    PROVE  /\ DOMAIN EntriesOf(x) \subseteq S
           /\ EntriesOf(x) \in [DOMAIN EntriesOf(x) -> Hashes]
           /\ \A k : FindAt(x, k, DigestLen - h) =
                 IF k \in DOMAIN EntriesOf(x) THEN EntriesOf(x)[k] ELSE None
           /\ DOMAIN EntriesOf(x) # {} => x \in TreesAt[h][S]
<1>1. DigestLen - h \in 0 .. DigestLen
  BY HamtAssumption
<1>2. CASE x = NoNode
  <2>1. EntriesOf(x) = NoEntries
    BY <1>2, NodeParts DEF EntriesOf
  <2>2. DOMAIN NoEntries = {} /\ NoEntries \in [{} -> Hashes]
    BY DEF NoEntries
  <2> QED
    BY <1>1, <1>2, <2>1, <2>2, FindNode
<1>3. CASE x # NoNode
  <2>1. IsLeaf(x, S)
    <3>1. ~IsBranch(x, h, S)
      BY NodeParts DEF IsBranch
    <3> QED
      BY <1>3, <3>1, TreeIs
  <2>2. PICK f : f = x.entries
    OBVIOUS
  <2>3. x = Leaf(f) /\ DOMAIN f \subseteq S /\ f \in [DOMAIN f -> Hashes]
    BY <2>1, <2>2 DEF IsLeaf
  <2>4. EntriesOf(x) = f
    BY <2>3, NodeParts DEF EntriesOf
  <2> QED
    BY <1>1, <1>3, <2>3, <2>4, FindLeaf
<1> QED
  BY <1>2, <1>3

(***************************************************************************)
(* A leaf over some of the keys is a tree of any height.                   *)
(***************************************************************************)
LEMMA LeafTree ==
    ASSUME NEW h \in 0 .. DigestLen, NEW S \in SUBSET Keys, NEW R \in SUBSET S,
           NEW f \in [R -> Hashes]
    PROVE  Leaf(f) \in TreesAt[h][S]
<1>1. PICK x : x = Leaf(f)
  OBVIOUS
<1>2. x.entries = f
  BY <1>1, NodeParts
<1>3. IsLeaf(x, S)
  BY <1>1, <1>2 DEF IsLeaf
<1> QED
  BY <1>1, <1>3, TreeIs

(***************************************************************************)
(* So is an intermediate node over lower trees.                            *)
(***************************************************************************)
LEMMA BranchTree ==
    ASSUME NEW h \in 1 .. DigestLen, NEW S \in SUBSET Keys, NEW s,
           s = [b \in Bytes |-> s[b]], \A b \in Bytes : s[b] \in Below(h, S, b)
    PROVE  Intermediate(s) \in TreesAt[h][S]
<1>1. PICK x : x = Intermediate(s)
  OBVIOUS
<1>2. x.slots = s
  BY <1>1, NodeParts
<1>3. IsBranch(x, h, S)
  BY <1>1, <1>2, Zenon DEF IsBranch
<1>4. h \in 0 .. DigestLen /\ h # 0
  BY HamtAssumption
<1> QED
  BY <1>1, <1>3, <1>4, TreeIs

(***************************************************************************)
(* A split keeps every entry of the leaf, under its byte.                  *)
(***************************************************************************)
LEMMA SplitKeeps ==
    ASSUME NEW h \in 0 .. DigestLen, NEW S \in SUBSET Keys, NEW R \in SUBSET S,
           NEW f \in [R -> Hashes], Split(f, DigestLen - h).root # ErrNode
    PROVE  /\ Split(f, DigestLen - h).root \in TreesAt[h][S]
           /\ \A k \in Keys : FindAt(Split(f, DigestLen - h).root, k, DigestLen - h) =
                 IF k \in R THEN f[k] ELSE None
<1> DEFINE At(b) == KeysAt(R, DigestLen - h, b)
           slots == [b \in Bytes |-> IF At(b) = {} THEN NoNode ELSE Leaf([k \in At(b) |-> f[k]])]
<1>1. DigestLen - h # DigestLen
  BY DEF Split, Failed
<1>2. Split(f, DigestLen - h).root = Intermediate(slots)
  BY <1>1 DEF Split, Put
<1>3. h \in 1 .. DigestLen /\ h - 1 \in 0 .. DigestLen /\ DigestLen - h \in 0 .. DigestLen
      /\ DigestLen - h + 1 \in 0 .. DigestLen
  BY <1>1, HamtAssumption
<1>4. ASSUME NEW b \in Bytes PROVE slots[b] \in Below(h, S, b)
  <2>1. CASE At(b) = {}
    BY <2>1 DEF Below
  <2>2. CASE At(b) # {}
    <3>1. PICK Q : Q = KeysAt(S, DigestLen - h, b)
      OBVIOUS
    <3>2. At(b) \in SUBSET Q /\ Q \in SUBSET Keys
      BY <3>1 DEF KeysAt
    <3>3. [k \in At(b) |-> f[k]] \in [At(b) -> Hashes]
      BY DEF KeysAt
    <3> HIDE DEF At
    <3>4. Leaf([k \in At(b) |-> f[k]]) \in TreesAt[h - 1][Q]
      BY <1>3, <3>2, <3>3, LeafTree
    <3> QED
      BY <2>2, <3>1, <3>4 DEF Below
  <2> QED
    BY <2>1, <2>2
<1>5. Intermediate(slots) \in TreesAt[h][S]
  <2>1. slots = [b \in Bytes |-> slots[b]]
    OBVIOUS
  <2> HIDE DEF slots
  <2> QED
    BY <1>3, <1>4, <2>1, BranchTree
<1>6. ASSUME NEW k \in Keys
      PROVE  FindAt(Intermediate(slots), k, DigestLen - h) = IF k \in R THEN f[k] ELSE None
  <2>1. PICK b : b = descent_byte(k, DigestLen - h)
    OBVIOUS
  <2>2. b \in Bytes
    BY <1>1, <1>3, <2>1, HamtAssumption DEF descent_byte
  <2>3. FindAt(Intermediate(slots), k, DigestLen - h) = FindAt(slots[b], k, DigestLen - h + 1)
    <3> HIDE DEF slots
    <3> QED
      BY <1>1, <1>3, <2>1, FindNode
  <2>4. k \in At(b) <=> k \in R
    BY <2>1 DEF KeysAt
  <2>5. CASE At(b) = {}
    <3>1. slots[b] = NoNode
      BY <2>2, <2>5
    <3> HIDE DEF slots, At
    <3> QED
      BY <1>3, <2>3, <2>4, <2>5, <3>1, FindNode
  <2>6. CASE At(b) # {}
    <3>1. PICK g : g = [l \in At(b) |-> f[l]]
      OBVIOUS
    <3>2. slots[b] = Leaf(g)
      BY <2>2, <2>6, <3>1
    <3>3. DOMAIN g = At(b) /\ (k \in At(b) => g[k] = f[k])
      BY <3>1
    <3> HIDE DEF slots, At
    <3> QED
      BY <1>3, <2>3, <2>4, <3>2, <3>3, FindLeaf
  <2> QED
    BY <2>5, <2>6
<1> QED
  BY <1>2, <1>5, <1>6

(***************************************************************************)
(* Where the way ends, at a leaf or an empty slot, the entry is inserted.  *)
(***************************************************************************)
LEMMA LeafInserts ==
    ASSUME NEW h \in 0 .. DigestLen, NEW S \in SUBSET Keys, NEW e \in Entry, e.key \in S,
           NEW x \in TreesAt[h][S] \union {NoNode}, x.kind # "intermediate",
           InsertIntoLeaf(x, e, DigestLen - h).root # ErrNode
    PROVE  Inserts(h, S, x, e, InsertIntoLeaf(x, e, DigestLen - h).root)
<1>1. PICK f : f = EntriesOf(x)
  OBVIOUS
<1>2. /\ DOMAIN f \subseteq S
      /\ f \in [DOMAIN f -> Hashes]
      /\ \A k : FindAt(x, k, DigestLen - h) = IF k \in DOMAIN f THEN f[k] ELSE None
      /\ DOMAIN f # {} => x \in TreesAt[h][S]
  BY <1>1, EntriesAre
<1>3. e.key \in Keys /\ e.hash \in Hashes /\ DigestLen - h \in 0 .. DigestLen
  BY HamtAssumption DEF Entry
<1>4. PICK R : R = DOMAIN f \union {e.key}
  OBVIOUS
<1>5. PICK g : g = [k \in R |-> IF k = e.key THEN e.hash ELSE f[k]]
  OBVIOUS
<1>6. R \in SUBSET S /\ g \in [R -> Hashes] /\ DOMAIN g = R
  BY <1>2, <1>3, <1>4, <1>5
<1>7. InsertIntoLeaf(x, e, DigestLen - h) =
        IF e.key \in DOMAIN f THEN Kept(x)
        ELSE IF Cardinality(R) <= LeafMax THEN Put(Leaf(g), {})
        ELSE Split(g, DigestLen - h)
  BY <1>1, <1>4, <1>5, <1>6 DEF InsertIntoLeaf
<1>8. CASE e.key \in DOMAIN f
  <2>1. InsertIntoLeaf(x, e, DigestLen - h).root = x
    BY <1>7, <1>8 DEF Kept
  <2>2. FindAt(x, e.key, DigestLen - h) # None
    BY <1>2, <1>8, HamtAssumption
  <2>3. x \in TreesAt[h][S]
    BY <1>2, <1>8
  <2> QED
    BY <2>1, <2>2, <2>3 DEF Inserts
<1>9. CASE e.key \notin DOMAIN f
  <2>1. PICK y : y = InsertIntoLeaf(x, e, DigestLen - h).root
    OBVIOUS
  <2>2. /\ y \in TreesAt[h][S]
        /\ \A k \in Keys : FindAt(y, k, DigestLen - h) = IF k \in R THEN g[k] ELSE None
    <3>1. CASE Cardinality(R) <= LeafMax
      <4>1. y = Leaf(g)
        BY <1>7, <1>9, <2>1, <3>1 DEF Put
      <4> QED
        BY <1>3, <1>6, <4>1, LeafTree, FindLeaf
    <3>2. CASE ~(Cardinality(R) <= LeafMax)
      <4>1. y = Split(g, DigestLen - h).root /\ y # ErrNode
        BY <1>7, <1>9, <2>1, <3>2
      <4> QED
        BY <1>6, <4>1, SplitKeeps
    <3> QED
      BY <3>1, <3>2
  <2>3. FindAt(x, e.key, DigestLen - h) = None
    BY <1>2, <1>9
  <2>4. ASSUME NEW k \in Keys
        PROVE  FindAt(y, k, DigestLen - h) =
                  IF k = e.key /\ FindAt(x, k, DigestLen - h) = None THEN e.hash
                  ELSE FindAt(x, k, DigestLen - h)
    BY <1>2, <1>4, <1>5, <2>2, <2>3
  <2> QED
    BY <2>1, <2>2, <2>3, <2>4 DEF Inserts
<1> QED
  BY <1>8, <1>9

(***************************************************************************)
(* Above it, the copy over the new child keeps the other slots.            *)
(***************************************************************************)
LEMMA CopyInserts ==
    ASSUME NEW h \in 1 .. DigestLen, NEW S \in SUBSET Keys, NEW e \in Entry, e.key \in S,
           NEW x \in TreesAt[h][S], x.kind = "intermediate", NEW b, NEW y,
           b = descent_byte(e.key, DigestLen - h),
           Inserts(h - 1, KeysAt(S, DigestLen - h, b), x.slots[b], e, y)
    PROVE  Inserts(h, S, x, e, Intermediate([x.slots EXCEPT ![b] = y]))
<1>1. PICK s : s = x.slots
  OBVIOUS
<1>2. x = Intermediate(s) /\ s = [c \in Bytes |-> s[c]] /\ \A c \in Bytes : s[c] \in Below(h, S, c)
  <2>1. ~IsLeaf(x, S)
    BY NodeParts DEF IsLeaf
  <2>2. h \in 0 .. DigestLen
    BY HamtAssumption
  <2>3. IsBranch(x, h, S)
    BY <2>1, <2>2, TreeIs
  <2> QED
    BY <1>1, <2>3, Zenon DEF IsBranch
<1>3. /\ e.key \in Keys /\ DigestLen - h \in 0 .. DigestLen /\ DigestLen - h # DigestLen
      /\ DigestLen - h + 1 = DigestLen - (h - 1) /\ h \in 0 .. DigestLen
  BY HamtAssumption DEF Entry
<1>4. ASSUME NEW k \in Keys PROVE descent_byte(k, DigestLen - h) \in Bytes
  <2>1. DigestLen - h + 1 \in 1 .. DigestLen
    BY HamtAssumption
  <2>2. Digest[k] \in [1 .. DigestLen -> Bytes]
    BY HamtAssumption
  <2> QED
    BY <2>1, <2>2 DEF descent_byte
<1>5. PICK t : t = [s EXCEPT ![b] = y]
  OBVIOUS
<1>6. t = [c \in Bytes |-> t[c]] /\ \A c \in Bytes : t[c] = IF c = b THEN y ELSE s[c]
  BY <1>2, <1>5
<1>7. Intermediate(t) \in TreesAt[h][S]
  <2>1. y \in TreesAt[h - 1][KeysAt(S, DigestLen - h, b)]
    BY DEF Inserts
  <2>2. \A c \in Bytes : t[c] \in Below(h, S, c)
    BY <1>2, <1>6, <2>1 DEF Below
  <2> QED
    BY <1>6, <2>2, BranchTree
<1>8. \A k \in Keys :
        /\ FindAt(Intermediate(t), k, DigestLen - h) =
              FindAt(t[descent_byte(k, DigestLen - h)], k, DigestLen - (h - 1))
        /\ FindAt(x, k, DigestLen - h) =
              FindAt(s[descent_byte(k, DigestLen - h)], k, DigestLen - (h - 1))
  BY <1>2, <1>3, FindNode
<1>9. ASSUME NEW k \in Keys
      PROVE  FindAt(Intermediate(t), k, DigestLen - h) =
                IF k = e.key /\ FindAt(x, k, DigestLen - h) = None THEN e.hash
                ELSE FindAt(x, k, DigestLen - h)
  <2>1. CASE descent_byte(k, DigestLen - h) = b
    <3>1. t[b] = y
      BY <1>4, <1>6, <2>1
    <3> QED
      BY <1>1, <1>8, <2>1, <3>1 DEF Inserts
  <2>2. CASE descent_byte(k, DigestLen - h) # b
    <3>1. t[descent_byte(k, DigestLen - h)] = s[descent_byte(k, DigestLen - h)] /\ k # e.key
      BY <1>4, <1>6, <2>2
    <3> QED
      BY <1>8, <3>1
  <2> QED
    BY <2>1, <2>2
<1>10. ASSUME FindAt(x, e.key, DigestLen - h) # None PROVE Intermediate(t) = x
  <2>1. y = s[b]
    BY <1>1, <1>3, <1>8, <1>10 DEF Inserts
  <2>2. t = s
    BY <1>2, <1>6, <2>1
  <2> QED
    BY <1>2, <2>2
<1> QED
  BY <1>1, <1>5, <1>7, <1>9, <1>10 DEF Inserts

(***************************************************************************)
(* insert_at, by height: each node on the way back up has the entry.       *)
(***************************************************************************)
LEMMA InsertOne ==
    ASSUME NEW r \in TreesAt[DigestLen][Keys] \union {NoNode}, NEW e \in Entry,
           insert_one(r, e).root # ErrNode
    PROVE  Inserts(DigestLen, Keys, r, e, insert_one(r, e).root)
<1>1. PICK at : at = Path(r, e.key, 0)
  OBVIOUS
<1>2. PICK new : new = insert_at(r, e)
  OBVIOUS
<1>3. DigestLen \in Nat /\ 0 \in 0 .. DigestLen /\ 0 \in Nat
  BY HamtAssumption
<1>4. at[0] = r /\ \A d \in 1 .. DigestLen : at[d] = Down(at[d - 1], e.key, d - 1)
  BY <1>1, <1>3, PathIs
<1>5. \A h \in 0 .. DigestLen : new[h] = InsertStep(at, e, new[h - 1], h)
  BY <1>1, <1>2, InsertIs
<1> DEFINE Ok(h) == \A S \in SUBSET Keys :
              /\ e.key \in S
              /\ at[DigestLen - h] \in TreesAt[h][S] \union {NoNode}
              /\ new[h].root # ErrNode
              => Inserts(h, S, at[DigestLen - h], e, new[h].root)
           T == {h \in 0 .. DigestLen : Ok(h)}
<1>6. ASSUME NEW h \in 0 .. DigestLen, h # 0 => Ok(h - 1) PROVE Ok(h)
  <2>1. SUFFICES ASSUME NEW S \in SUBSET Keys, e.key \in S,
                        at[DigestLen - h] \in TreesAt[h][S] \union {NoNode},
                        new[h].root # ErrNode
                 PROVE  Inserts(h, S, at[DigestLen - h], e, new[h].root)
    OBVIOUS
  <2>2. PICK x : x = at[DigestLen - h]
    OBVIOUS
  <2>3. new[h] = InsertStep(at, e, new[h - 1], h)
    BY <1>5
  <2>4. x \notin lost
    BY <2>1, <2>2, <2>3 DEF InsertStep, Failed
  <2>5. CASE x.kind # "intermediate"
    <3>1. new[h] = InsertIntoLeaf(x, e, DigestLen - h)
      BY <2>2, <2>3, <2>4, <2>5 DEF InsertStep
    <3> HIDE DEF Ok
    <3> QED
      BY <2>1, <2>2, <2>5, <3>1, LeafInserts
  <2>6. CASE x.kind = "intermediate"
    <3>1. h # 0
      BY <2>1, <2>2, <2>3, <2>4, <2>6 DEF InsertStep, Failed
    <3>2. PICK b : b = descent_byte(e.key, DigestLen - h)
      OBVIOUS
    <3>3. PICK y : y = new[h - 1].root
      OBVIOUS
    <3>4. new[h] = CopyOver(x, b, new[h - 1])
      BY <2>2, <2>3, <2>4, <2>6, <3>1, <3>2 DEF InsertStep
    <3>5. y # ErrNode /\ new[h].root = Intermediate([x.slots EXCEPT ![b] = y])
      BY <2>1, <3>3, <3>4 DEF CopyOver, Failed, Put
    <3>6. x \in TreesAt[h][S]
      BY <2>1, <2>2, <2>6, NodeParts
    <3>7. /\ h \in 1 .. DigestLen /\ DigestLen - (h - 1) \in 1 .. DigestLen
          /\ (DigestLen - (h - 1)) - 1 = DigestLen - h
      BY <1>3, <3>1
    <3>8. at[DigestLen - (h - 1)] = x.slots[b]
      <4>1. at[DigestLen - (h - 1)] = Down(x, e.key, DigestLen - h)
        BY <1>4, <2>2, <3>7
      <4> QED
        BY <2>6, <3>2, <4>1 DEF Down
    <3>9. x.slots[b] \in TreesAt[h - 1][KeysAt(S, DigestLen - h, b)] \union {NoNode}
      <4>1. IsBranch(x, h, S)
        <5>1. ~IsLeaf(x, S)
          BY <2>6, NodeParts DEF IsLeaf
        <5> HIDE DEF Ok
        <5> QED
          BY <3>6, <5>1, TreeIs
      <4>2. b \in Bytes
        <5>1. DigestLen - h + 1 \in 1 .. DigestLen
          BY <1>3, <3>7
        <5> QED
          BY <3>2, <5>1, HamtAssumption DEF descent_byte, Entry
      <4> QED
        BY <4>1, <4>2 DEF IsBranch, Below
    <3>10. e.key \in KeysAt(S, DigestLen - h, b) /\ KeysAt(S, DigestLen - h, b) \in SUBSET Keys
      BY <2>1, <3>2 DEF KeysAt
    <3>11. Inserts(h - 1, KeysAt(S, DigestLen - h, b), x.slots[b], e, y)
      BY <1>6, <3>1, <3>3, <3>5, <3>8, <3>9, <3>10
    <3> HIDE DEF Ok
    <3> QED
      BY <2>1, <2>2, <2>6, <3>2, <3>5, <3>6, <3>7, <3>11, CopyInserts
  <2> QED
    BY <2>5, <2>6
<1>7. \A h \in 0 .. DigestLen : h \in T
  <2> HIDE DEF Ok
  <2>1. 0 \in T
    BY <1>3, <1>6
  <2>2. \A h \in 0 + 1 .. DigestLen : h - 1 \in T => h \in T
    BY <1>3, <1>6
  <2> HIDE DEF T
  <2> QED
    BY <1>3, <2>1, <2>2, FromTo
<1>8. DigestLen \in 0 .. DigestLen /\ DigestLen - DigestLen = 0 /\ e.key \in Keys
  BY <1>3 DEF Entry
<1>9. Ok(DigestLen)
  BY <1>7, <1>8
<1>10. insert_one(r, e) = new[DigestLen]
  BY <1>2 DEF insert_one
<1> QED
  BY <1>4, <1>8, <1>9, <1>10

\* The tree holds exactly what f says.
Holds(r, f) ==
    /\ r \in TreesAt[DigestLen][Keys] \union {NoNode}
    /\ f \in [Keys -> Hashes \union {None}]
    /\ \A k \in Keys : FindAt(r, k, 0) = f[k]

(***************************************************************************)
(* insert_batch: a batch that goes through leaves a tree that holds what   *)
(* was first inserted.                                                     *)
(***************************************************************************)
LEMMA BatchHolds ==
    ASSUME NEW r, Holds(r, inserted), NEW entries \in Seq(Entry),
           insert_batch(r, entries).root # ErrNode
    PROVE  Holds(insert_batch(r, entries).root, FirstInserted(entries)[Len(entries)])
<1>1. PICK acc : acc = InsertEach(r, entries)
  OBVIOUS
<1>2. PICK first : first = FirstInserted(entries)
  OBVIOUS
<1>3. PICK last : last = Len(entries)
  OBVIOUS
<1>4. last \in Nat /\ 0 \in Nat /\ last \in 0 .. last /\ 0 \in 0 .. last
      /\ \A n \in 1 .. last : entries[n] \in Entry
  BY <1>3
<1>5. \A n \in 0 .. last : /\ acc[n] = BatchStep(r, entries, acc[n - 1], n)
                           /\ first[n] = FirstStep(entries, first[n - 1], n)
  BY <1>1, <1>2, <1>3, BatchIs, FirstIs
<1> DEFINE T == {n \in 0 .. last : acc[n].root # ErrNode => Holds(acc[n].root, first[n])}
<1>6. 0 \in T
  <2>1. acc[0].root = r /\ first[0] = inserted
    <3>1. /\ acc[0] = BatchStep(r, entries, acc[0 - 1], 0)
          /\ first[0] = FirstStep(entries, first[0 - 1], 0)
      BY <1>4, <1>5
    <3> QED
      BY <3>1 DEF BatchStep, FirstStep, Kept
  <2> QED
    BY <1>4, <2>1
<1>7. ASSUME NEW n \in 0 + 1 .. last, n - 1 \in T PROVE n \in T
  <2>1. n \in 0 .. last /\ n \in 1 .. last /\ n # 0
    BY <1>4
  <2>2. SUFFICES ASSUME acc[n].root # ErrNode PROVE Holds(acc[n].root, first[n])
    BY <2>1
  <2>3. PICK e : e = entries[n]
    OBVIOUS
  <2>4. PICK x : x = acc[n - 1].root
    OBVIOUS
  <2>5. PICK g : g = first[n - 1]
    OBVIOUS
  <2>6. x # ErrNode /\ acc[n].root = insert_one(x, e).root
    <3>1. acc[n] = BatchStep(r, entries, acc[n - 1], n)
      BY <1>5, <2>1
    <3>2. acc[n] = IF x = ErrNode THEN acc[n - 1]
                   ELSE [root  |-> insert_one(x, e).root,
                         wrote |-> acc[n - 1].wrote \union insert_one(x, e).wrote]
      BY <2>1, <2>3, <2>4, <3>1, Zenon DEF BatchStep
    <3>3. x # ErrNode
      BY <2>2, <2>4, <3>2
    <3> QED
      BY <3>2, <3>3
  <2>7. Holds(x, g)
    BY <1>7, <2>4, <2>5, <2>6
  <2>8. first[n] = IF g[e.key] = None THEN [g EXCEPT ![e.key] = e.hash] ELSE g
    BY <1>5, <2>1, <2>3, <2>5 DEF FirstStep
  <2>9. e \in Entry /\ e.key \in Keys /\ e.hash \in Hashes
    BY <1>4, <2>1, <2>3 DEF Entry
  <2>10. Inserts(DigestLen, Keys, x, e, insert_one(x, e).root)
    BY <2>2, <2>6, <2>7, <2>9, InsertOne DEF Holds
  <2>11. PICK y : y = insert_one(x, e).root
    OBVIOUS
  <2>12. DigestLen - DigestLen = 0
    BY HamtAssumption
  <2>13. /\ y \in TreesAt[DigestLen][Keys]
         /\ \A k \in Keys : FindAt(y, k, 0) = IF k = e.key /\ FindAt(x, k, 0) = None
                                              THEN e.hash ELSE FindAt(x, k, 0)
    BY <2>10, <2>11, <2>12 DEF Inserts
  <2>14. Holds(y, first[n])
    <3>1. first[n] \in [Keys -> Hashes \union {None}]
      BY <2>7, <2>8, <2>9 DEF Holds
    <3>2. \A k \in Keys : FindAt(y, k, 0) = first[n][k]
      BY <2>7, <2>8, <2>9, <2>13 DEF Holds
    <3> QED
      BY <2>13, <3>1, <3>2 DEF Holds
  <2> QED
    BY <2>6, <2>11, <2>14
<1>8. last \in T
  <2> HIDE DEF T
  <2> QED
    BY <1>4, <1>6, <1>7, FromTo
<1>9. insert_batch(r, entries) = IF acc[last].root = NoNode THEN Put(Leaf(NoEntries), {}) ELSE acc[last]
  BY <1>1, <1>3 DEF insert_batch
<1>10. CASE acc[last].root = NoNode
  <2>1. Holds(NoNode, first[last])
    BY <1>8, <1>10, NodeParts
  <2>2. insert_batch(r, entries).root = Leaf(NoEntries)
    BY <1>9, <1>10 DEF Put
  <2>3. DOMAIN NoEntries = {} /\ NoEntries \in [{} -> Hashes] /\ {} \in SUBSET Keys
    BY DEF NoEntries
  <2>4. DigestLen \in 0 .. DigestLen /\ 0 \in 0 .. DigestLen
    BY HamtAssumption
  <2>5. Leaf(NoEntries) \in TreesAt[DigestLen][Keys]
    <3>1. PICK R : R = {}
      OBVIOUS
    <3>2. R \in SUBSET Keys /\ NoEntries \in [R -> Hashes] /\ Keys \in SUBSET Keys
      BY <2>3, <3>1
    <3> QED
      BY <2>4, <3>2, LeafTree
  <2>6. \A k \in Keys : FindAt(Leaf(NoEntries), k, 0) = None /\ FindAt(NoNode, k, 0) = None
    BY <2>3, <2>4, FindLeaf, FindNode
  <2> QED
    BY <1>2, <1>3, <2>1, <2>2, <2>5, <2>6 DEF Holds
<1>11. CASE acc[last].root # NoNode
  BY <1>2, <1>3, <1>8, <1>9, <1>11
<1> QED
  BY <1>10, <1>11

-----------------------------------------------------------------------------
(***************************************************************************)
(* The inductive invariant: the partition's tree is well formed (no key is *)
(* in a leaf off its way, no intermediate node is below the last byte) and *)
(* the way to each key ends at what was first inserted for it.             *)
(***************************************************************************)
HamtInv == Holds(root, inserted)

(***************************************************************************)
(* An empty partition holds nothing.                                       *)
(***************************************************************************)
LEMMA HamtInit ==
    Init => HamtInv
<1>1. SUFFICES ASSUME Init PROVE Holds(root, inserted)
  BY DEF HamtInv
<1>2. 0 \in 0 .. DigestLen
  BY HamtAssumption
<1>3. \A k \in Keys : FindAt(NoNode, k, 0) = None
  BY <1>2, FindNode
<1> QED
  BY <1>1, <1>3 DEF Init, Holds

(***************************************************************************)
(* Batches, whole or failed, and losses of nodes keep the invariant.       *)
(***************************************************************************)
LEMMA HamtStep ==
    HamtInv /\ [Next]_vars => HamtInv'
<1>1. SUFFICES ASSUME Holds(root, inserted), [Next]_vars PROVE Holds(root, inserted)'
  BY DEF HamtInv
<1>2. ASSUME NEW r, NEW f, root' = r, inserted' = f, Holds(r, f) PROVE Holds(root, inserted)'
  BY <1>2 DEF Holds, FindAt
<1>3. CASE UNCHANGED <<root, inserted>>
  BY <1>1, <1>2, <1>3
<1>4. ASSUME NEW entries \in Batches, Insert(entries) PROVE Holds(root, inserted)'
  <2>1. entries \in Seq(Entry)
    BY HamtAssumption
  <2>2. CASE insert_batch(root, entries).root = ErrNode
    <3>1. UNCHANGED <<root, inserted>>
      BY <1>4, <2>2 DEF Insert
    <3> QED
      BY <1>3, <3>1
  <2>3. CASE insert_batch(root, entries).root # ErrNode
    <3>1. /\ root' = insert_batch(root, entries).root
          /\ inserted' = FirstInserted(entries)[Len(entries)]
      BY <1>4, <2>3 DEF Insert
    <3>2. Holds(insert_batch(root, entries).root, FirstInserted(entries)[Len(entries)])
      BY <1>1, <2>1, <2>3, BatchHolds
    <3> QED
      BY <1>2, <3>1, <3>2
  <2> QED
    BY <2>2, <2>3
<1>5. CASE LoseNode \/ NodeBack
  BY <1>3, <1>5 DEF LoseNode, NodeBack
<1>6. CASE UNCHANGED vars
  BY <1>3, <1>6 DEF vars
<1> QED
  BY <1>1, <1>4, <1>5, <1>6 DEF Next

(***************************************************************************)
(* The tree of a partition always holds exactly the first inserted hash of *)
(* every key (hamt.rs insert_batch, insert_at, insert_into_leaf).          *)
(***************************************************************************)
THEOREM HamtInvariant == Spec => []HamtInv
<1>1. Init => HamtInv
  BY HamtInit
<1>2. HamtInv /\ [Next]_vars => HamtInv'
  BY HamtStep
<1> QED
  BY <1>1, <1>2, PTL DEF Spec

(***************************************************************************)
(* lookup finds what was first inserted or says that it could not read: it *)
(* never answers "absent" for a key behind an unreadable node.             *)
(***************************************************************************)
THEOREM LookupNeverLiesHolds == Spec => []LookupNeverLies
<1>1. HamtInv => LookupNeverLies
  <2>1. SUFFICES ASSUME Holds(root, inserted), NEW k \in Keys
                 PROVE  /\ lookup(root, k) \in {inserted[k], Err}
                        /\ lost = {} => lookup(root, k) = inserted[k]
    BY DEF HamtInv, LookupNeverLies
  <2>2. Found(Path(root, k, 0)[DigestLen], k) = inserted[k]
    BY <2>1 DEF Holds, FindAt
  <2>3. lookup(root, k) = IF Range(Path(root, k, 0)) \intersect lost # {} THEN Err ELSE inserted[k]
    BY <2>2 DEF lookup
  <2> QED
    BY <2>3
<1> QED
  BY <1>1, HamtInvariant, PTL

-----------------------------------------------------------------------------
(***************************************************************************)
(* The first level is the root ...                                         *)
(***************************************************************************)
LEMMA FirstLevel ==
    ASSUME NEW r, NEW skip, NEW x
    PROVE  x \in Levels(r, skip)[0] <=> x = r /\ x # NoNode
<1>1. 0 \in 0 .. DigestLen
  BY HamtAssumption
<1>2. Levels(r, skip)[0] = LevelStep(r, skip, Levels(r, skip)[0 - 1], 0)
  BY <1>1, LevelsAre
<1> QED
  BY <1>2 DEF LevelStep

ChildOf(x, y) == y.kind = "intermediate" /\ x # NoNode /\ \E b \in DOMAIN y.slots : x = y.slots[b]

(***************************************************************************)
(* ... and the next one the children of those that are not skipped.        *)
(***************************************************************************)
LEMMA NextLevel ==
    ASSUME NEW r, NEW skip, NEW x, NEW d \in 1 .. DigestLen
    PROVE  x \in Levels(r, skip)[d] <=>
              \E y \in Levels(r, skip)[d - 1] : y \notin skip /\ ChildOf(x, y)
<1>1. d \in 0 .. DigestLen /\ d # 0
  BY HamtAssumption
<1>2. PICK above : above = Levels(r, skip)[d - 1]
  OBVIOUS
<1>3. Levels(r, skip)[d] = ChildrenOf(above \ skip)
  <2>1. Levels(r, skip)[d] = LevelStep(r, skip, above, d)
    BY <1>1, <1>2, LevelsAre
  <2> QED
    BY <1>1, <2>1 DEF LevelStep
<1>4. x \in ChildrenOf(above \ skip) <=> \E y \in above \ skip : x \in Children(y)
  BY Zenon DEF ChildrenOf
<1>5. \A y : x \in Children(y) <=> ChildOf(x, y)
  BY DEF Children, Range, ChildOf
<1> QED
  BY <1>2, <1>3, <1>4, <1>5

(***************************************************************************)
(* A node of a tree is a tree over some keys, and the way to each of them  *)
(* passes it.                                                              *)
(***************************************************************************)
LEMMA LevelTyped ==
    ASSUME NEW r \in TreesAt[DigestLen][Keys] \union {NoNode}, NEW j \in 0 .. DigestLen,
           NEW x \in Levels(r, {})[j]
    PROVE  \E S \in SUBSET Keys :
              /\ x \in TreesAt[DigestLen - j][S]
              /\ \A k \in S : Path(r, k, 0)[j] = x
<1> DEFINE Level(i) == Levels(r, {})[i]
           Placed(i, y, S) == /\ y \in TreesAt[DigestLen - i][S]
                              /\ \A k \in S : Path(r, k, 0)[i] = y
           T == {i \in 0 .. DigestLen : \A y \in Level(i) : \E S \in SUBSET Keys : Placed(i, y, S)}
<1>1. DigestLen \in Nat /\ 0 \in Nat /\ 0 \in 0 .. DigestLen /\ DigestLen - 0 = DigestLen
  BY HamtAssumption
<1>2. \A k : /\ Path(r, k, 0)[0] = r
             /\ \A d \in 0 + 1 .. DigestLen : Path(r, k, 0)[d] = Down(Path(r, k, 0)[d - 1], k, d - 1)
  BY <1>1, PathIs
<1>3. 0 \in T
  <2>1. ASSUME NEW y \in Level(0) PROVE Placed(0, y, Keys)
    <3>1. y = r /\ y # NoNode
      BY FirstLevel
    <3> QED
      BY <1>1, <1>2, <3>1
  <2> HIDE DEF Placed, Level
  <2> QED
    BY <1>1, <2>1
<1>4. ASSUME NEW i \in 0 + 1 .. DigestLen, i - 1 \in T PROVE i \in T
  <2>1. i \in 0 .. DigestLen /\ i \in 1 .. DigestLen
    BY <1>1
  <2>2. ASSUME NEW y \in Level(i) PROVE \E S \in SUBSET Keys : Placed(i, y, S)
    <3>1. PICK z \in Level(i - 1) :
             z.kind = "intermediate" /\ y # NoNode /\ \E b \in DOMAIN z.slots : y = z.slots[b]
      <4>1. PICK none : none = {}
        OBVIOUS
      <4>2. y \in Levels(r, none)[i]
        BY <4>1
      <4>3. PICK z \in Levels(r, none)[i - 1] : ChildOf(y, z)
        BY <2>1, <4>2, NextLevel
      <4> QED
        BY <4>1, <4>3 DEF ChildOf
    <3>2. PICK S \in SUBSET Keys : Placed(i - 1, z, S)
      <4> HIDE DEF Placed, Level
      <4> QED
        BY <1>4
    <3>3. PICK h : h = DigestLen - (i - 1)
      OBVIOUS
    <3>4. h \in 0 .. DigestLen /\ h # 0 /\ h - 1 = DigestLen - i /\ DigestLen - h = i - 1
      BY <1>1, <2>1, <3>3
    <3>5. IsBranch(z, h, S)
      <4>1. ~IsLeaf(z, S)
        BY <3>1, NodeParts DEF IsLeaf
      <4>2. z \in TreesAt[h][S]
        BY <3>2, <3>3
      <4> HIDE DEF Placed, Level
      <4> QED
        BY <3>4, <4>1, <4>2, TreeIs
    <3>6. DOMAIN z.slots = Bytes
      <4>1. z.slots = [b \in Bytes |-> z.slots[b]]
        BY <3>5 DEF IsBranch
      <4> QED
        BY <4>1
    <3>7. PICK b \in Bytes : y = z.slots[b]
      BY <3>1, <3>6
    <3>8. PICK Q : Q = KeysAt(S, i - 1, b)
      OBVIOUS
    <3>9. Q \in SUBSET Keys /\ y \in TreesAt[DigestLen - i][Q]
      <4>1. Q \in SUBSET Keys
        BY <3>8 DEF KeysAt
      <4>2. y \in Below(h, S, b)
        BY <3>5, <3>7 DEF IsBranch
      <4> QED
        BY <3>1, <3>4, <3>8, <4>1, <4>2 DEF Below
    <3>10. ASSUME NEW k \in Q PROVE Path(r, k, 0)[i] = y
      <4>1. k \in S /\ descent_byte(k, i - 1) = b
        BY <3>8 DEF KeysAt
      <4>2. Path(r, k, 0)[i - 1] = z
        BY <3>2, <4>1
      <4>3. Path(r, k, 0)[i] = Down(z, k, i - 1)
        BY <1>2, <4>2
      <4> QED
        BY <3>1, <3>7, <4>1, <4>3 DEF Down
    <3> QED
      BY <3>9, <3>10
  <2> HIDE DEF Placed, Level
  <2> QED
    BY <2>1, <2>2
<1>5. j \in T
  <2> HIDE DEF T
  <2> QED
    BY <1>1, <1>3, <1>4, FromTo
<1> QED
  BY <1>5

(***************************************************************************)
(* The way to a key goes through the levels until it meets a leaf.         *)
(***************************************************************************)
LEMMA PathInNodes ==
    ASSUME NEW r \in TreesAt[DigestLen][Keys] \union {NoNode}, NEW k \in Keys,
           Path(r, k, 0)[DigestLen] # NoNode
    PROVE  \E d \in 0 .. DigestLen : Path(r, k, 0)[DigestLen] \in Levels(r, {})[d]
<1>1. PICK p : p = Path(r, k, 0)
  OBVIOUS
<1>2. DigestLen \in Nat /\ 0 \in Nat /\ 0 \in 0 .. DigestLen /\ DigestLen \in 0 .. DigestLen
  BY HamtAssumption
<1>3. p[0] = r /\ \A d \in 0 + 1 .. DigestLen : p[d] = Down(p[d - 1], k, d - 1)
  BY <1>1, <1>2, PathIs
<1> DEFINE In(d, x) == x \in Levels(r, {})[d]
           T == {j \in 0 .. DigestLen :
                    \/ p[j] = NoNode
                    \/ In(j, p[j])
                    \/ p[j].kind # "intermediate" /\ \E d \in 0 .. DigestLen : In(d, p[j])}
<1>4. 0 \in T
  <2>1. p[0] # NoNode => In(0, p[0])
    BY <1>3, FirstLevel
  <2> HIDE DEF In
  <2> QED
    BY <1>2, <2>1
<1>5. ASSUME NEW j \in 0 + 1 .. DigestLen, j - 1 \in T PROVE j \in T
  <2>1. j \in 0 .. DigestLen /\ j \in 1 .. DigestLen /\ j - 1 \in 0 .. DigestLen
    BY <1>2
  <2>2. p[j] = Down(p[j - 1], k, j - 1)
    BY <1>3
  <2>3. CASE p[j - 1].kind # "intermediate"
    <3>1. p[j] = p[j - 1]
      BY <2>2, <2>3 DEF Down
    <3> HIDE DEF In
    <3> QED
      BY <1>5, <2>1, <2>3, <3>1
  <2>4. CASE p[j - 1].kind = "intermediate"
    <3>1. In(j - 1, p[j - 1])
      <4> HIDE DEF In
      <4> QED
        BY <1>5, <2>4, NodeParts
    <3>2. PICK z : z = p[j - 1]
      OBVIOUS
    <3>3. PICK b : b = descent_byte(k, j - 1)
      OBVIOUS
    <3>4. p[j] = z.slots[b]
      BY <2>2, <2>4, <3>2, <3>3 DEF Down
    <3>5. b \in Bytes
      <4>1. (j - 1) + 1 \in 1 .. DigestLen
        BY <2>1
      <4> QED
        BY <3>3, <4>1, HamtAssumption DEF descent_byte
    <3>6. DOMAIN z.slots = Bytes
      <4>1. PICK S \in SUBSET Keys : z \in TreesAt[DigestLen - (j - 1)][S]
        BY <2>1, <3>1, <3>2, LevelTyped
      <4>2. ~IsLeaf(z, S)
        BY <2>4, <3>2, NodeParts DEF IsLeaf
      <4>3. DigestLen - (j - 1) \in 0 .. DigestLen
        BY <1>2, <2>1
      <4>4. IsBranch(z, DigestLen - (j - 1), S)
        BY <4>1, <4>2, <4>3, TreeIs
      <4>5. z.slots = [c \in Bytes |-> z.slots[c]]
        BY <4>4 DEF IsBranch
      <4> QED
        BY <4>5
    <3>7. p[j] # NoNode => In(j, p[j])
      <4>1. PICK none : none = {}
        OBVIOUS
      <4>2. z \in Levels(r, none)[j - 1] /\ z \notin none /\ z.kind = "intermediate"
        BY <2>4, <3>1, <3>2, <4>1
      <4>3. p[j] # NoNode => ChildOf(p[j], z)
        BY <3>4, <3>5, <3>6, <4>2 DEF ChildOf
      <4>4. p[j] # NoNode => p[j] \in Levels(r, none)[j]
        BY <2>1, <4>2, <4>3, NextLevel
      <4> QED
        BY <4>1, <4>4
    <3> HIDE DEF In
    <3> QED
      BY <2>1, <3>7
  <2> QED
    BY <2>3, <2>4
<1>6. DigestLen \in T
  <2> HIDE DEF T
  <2> QED
    BY <1>2, <1>4, <1>5, FromTo
<1> QED
  BY <1>1, <1>2, <1>6

(***************************************************************************)
(* What a tree holds of a key is in a leaf of the tree ...                 *)
(***************************************************************************)
LEMMA KeyInLeaf ==
    ASSUME NEW r, NEW f, Holds(r, f), NEW k \in Keys, f[k] # None
    PROVE  \E d \in 0 .. DigestLen : \E n \in Levels(r, {})[d] :
              n.kind = "leaf" /\ k \in DOMAIN n.entries /\ n.entries[k] = f[k]
<1>1. PICK n : n = Path(r, k, 0)[DigestLen]
  OBVIOUS
<1>2. Found(n, k) = f[k] /\ f[k] \in Hashes
  BY <1>1 DEF Holds, FindAt
<1>3. n.kind = "leaf" /\ k \in DOMAIN n.entries /\ n.entries[k] = f[k]
  BY <1>2, HamtAssumption DEF Found
<1>4. n # NoNode
  BY <1>3, NodeParts
<1>5. PICK d \in 0 .. DigestLen : n \in Levels(r, {})[d]
  BY <1>1, <1>4, PathInNodes DEF Holds
<1> QED
  BY <1>3, <1>5

(***************************************************************************)
(* ... and what a leaf of the tree says is what the tree holds.            *)
(***************************************************************************)
LEMMA LeafIsTrue ==
    ASSUME NEW r, NEW f, Holds(r, f), NEW d \in 0 .. DigestLen, NEW n \in Levels(r, {})[d],
           n.kind = "leaf", NEW k \in DOMAIN n.entries
    PROVE  k \in Keys /\ f[k] = n.entries[k] /\ f[k] # None
<1>1. PICK S \in SUBSET Keys : /\ n \in TreesAt[DigestLen - d][S]
                               /\ \A l \in S : Path(r, l, 0)[d] = n
  BY LevelTyped DEF Holds
<1>2. DigestLen - d \in 0 .. DigestLen /\ 0 \in 0 .. DigestLen /\ DigestLen \in d .. DigestLen
  BY HamtAssumption
<1>3. IsLeaf(n, S)
  <2>1. ~IsBranch(n, DigestLen - d, S)
    BY NodeParts DEF IsBranch
  <2> QED
    BY <1>1, <1>2, <2>1, TreeIs
<1>4. k \in S /\ n.entries[k] \in Hashes
  BY <1>3 DEF IsLeaf
<1>5. Path(r, k, 0)[d] = n /\ Path(r, k, 0)[d].kind # "intermediate"
  BY <1>1, <1>4
<1>6. Path(r, k, 0)[DigestLen] = n
  BY <1>2, <1>5, EndStays
<1>7. FindAt(r, k, 0) = n.entries[k]
  BY <1>6 DEF FindAt, Found
<1> QED
  BY <1>4, <1>7, HamtAssumption DEF Holds

(***************************************************************************)
(* A walk that skips nodes sees no other nodes than a whole walk, and all  *)
(* of them if it met none to skip.                                         *)
(***************************************************************************)
LEMMA FrontierIn ==
    ASSUME NEW r, NEW skip, NEW d \in 0 .. DigestLen
    PROVE  /\ Levels(r, skip)[d] \subseteq Levels(r, {})[d]
           /\ (\A i \in 0 .. DigestLen : Levels(r, skip)[i] \intersect skip = {}) =>
                 Levels(r, skip)[d] = Levels(r, {})[d]
<1>1. PICK none : none = {}
  OBVIOUS
<1>2. PICK all : all = Levels(r, none)
  OBVIOUS
<1>3. PICK seen : seen = Levels(r, skip)
  OBVIOUS
<1> DEFINE Whole == \A i \in 0 .. DigestLen : seen[i] \intersect skip = {}
           T == {i \in 0 .. DigestLen : seen[i] \subseteq all[i] /\ (Whole => all[i] \subseteq seen[i])}
<1>4. DigestLen \in Nat /\ 0 \in Nat /\ 0 \in 0 .. DigestLen
  BY HamtAssumption
<1>5. 0 \in T
  <2>1. \A x : (x \in seen[0] <=> x = r /\ x # NoNode) /\ (x \in all[0] <=> x = r /\ x # NoNode)
    BY <1>2, <1>3, FirstLevel
  <2> HIDE DEF Whole
  <2> QED
    BY <1>4, <2>1
<1>6. ASSUME NEW i \in 0 + 1 .. DigestLen, i - 1 \in T PROVE i \in T
  <2>1. i \in 0 .. DigestLen /\ i \in 1 .. DigestLen /\ i - 1 \in 0 .. DigestLen
    BY <1>4
  <2>2. \A x : x \in seen[i] <=> \E y \in seen[i - 1] : y \notin skip /\ ChildOf(x, y)
    BY <1>3, <2>1, NextLevel
  <2>3. \A x : x \in all[i] <=> \E y \in all[i - 1] : y \notin none /\ ChildOf(x, y)
    BY <1>2, <2>1, NextLevel
  <2>4. \A y : y \notin none
    BY <1>1
  <2>5. seen[i] \subseteq all[i]
    BY <1>6, <2>2, <2>3, <2>4
  <2>6. ASSUME Whole PROVE all[i] \subseteq seen[i]
    <3>1. \A y \in seen[i - 1] : y \notin skip
      BY <2>1, <2>6
    <3> HIDE DEF Whole
    <3> QED
      BY <1>6, <2>2, <2>3, <2>6, <3>1
  <2> HIDE DEF Whole
  <2> QED
    BY <2>1, <2>5, <2>6
<1>7. d \in T
  <2> HIDE DEF T
  <2> QED
    BY <1>4, <1>5, <1>6, FromTo
<1> QED
  BY <1>1, <1>2, <1>3, <1>7

(***************************************************************************)
(* The entries of nodes of the tree were inserted, and a set of nodes with *)
(* every leaf has them all.                                                *)
(***************************************************************************)
LEMMA EntriesTrue ==
    ASSUME Holds(root, inserted), NEW M, M \subseteq Nodes(root)
    PROVE  /\ EntriesIn(M) \subseteq AllEntries
           /\ Nodes(root) \subseteq M => AllEntries \subseteq EntriesIn(M)
<1>1. \A o : o \in EntriesIn(M) <=>
         \E n \in M : n.kind = "leaf" /\ \E k \in DOMAIN n.entries : o = [key |-> k, hash |-> n.entries[k]]
  <2>1. ASSUME NEW o, o \in EntriesIn(M)
        PROVE  \E n \in M : n.kind = "leaf" /\ \E k \in DOMAIN n.entries :
                  o = [key |-> k, hash |-> n.entries[k]]
    <3>1. PICK n \in {m \in M : m.kind = "leaf"} :
             o \in {[key |-> k, hash |-> n.entries[k]] : k \in DOMAIN n.entries}
      BY <2>1, Zenon DEF EntriesIn
    <3> QED
      BY <3>1
  <2>2. ASSUME NEW o, NEW n \in M, n.kind = "leaf", NEW k \in DOMAIN n.entries,
               o = [key |-> k, hash |-> n.entries[k]]
        PROVE  o \in EntriesIn(M)
    <3>1. o \in {[key |-> l, hash |-> n.entries[l]] : l \in DOMAIN n.entries}
      BY <2>2, Zenon
    <3>2. n \in {m \in M : m.kind = "leaf"}
      BY <2>2
    <3> QED
      BY <3>1, <3>2, Zenon DEF EntriesIn
  <2> QED
    BY <2>1, <2>2
<1>2. \A n : n \in Nodes(root) <=> \E d \in 0 .. DigestLen : n \in Levels(root, {})[d]
  BY Zenon DEF Nodes
<1>3. ASSUME NEW o \in EntriesIn(M) PROVE o \in AllEntries
  <2>1. PICK n \in M : n.kind = "leaf" /\ \E k \in DOMAIN n.entries : o = [key |-> k, hash |-> n.entries[k]]
    BY <1>1
  <2>2. PICK k \in DOMAIN n.entries : o = [key |-> k, hash |-> n.entries[k]]
    BY <2>1
  <2>3. PICK d \in 0 .. DigestLen : n \in Levels(root, {})[d]
    BY <1>2
  <2>4. k \in Keys /\ inserted[k] = n.entries[k] /\ inserted[k] # None
    BY <2>1, <2>3, LeafIsTrue
  <2> QED
    BY <2>2, <2>4 DEF AllEntries
<1>4. ASSUME NEW o \in AllEntries, Nodes(root) \subseteq M PROVE o \in EntriesIn(M)
  <2>1. PICK k \in Keys : inserted[k] # None /\ o = [key |-> k, hash |-> inserted[k]]
    BY DEF AllEntries
  <2>2. PICK d \in 0 .. DigestLen : \E n \in Levels(root, {})[d] :
              n.kind = "leaf" /\ k \in DOMAIN n.entries /\ n.entries[k] = inserted[k]
    BY <2>1, KeyInLeaf
  <2>3. PICK n \in Levels(root, {})[d] :
              n.kind = "leaf" /\ k \in DOMAIN n.entries /\ n.entries[k] = inserted[k]
    BY <2>2
  <2>4. n \in M
    BY <1>2, <1>4, <2>3
  <2> QED
    BY <1>1, <2>1, <2>3, <2>4
<1> QED
  BY <1>3, <1>4

(***************************************************************************)
(* collect_reachable, when it succeeds, has every node of the tree and the *)
(* value of every record in it: the collector deletes nothing a reader of  *)
(* this root needs.                                                        *)
(***************************************************************************)
THEOREM ProtectSetSufficesHolds == Spec => []ProtectSetSuffices
<1>1. HamtInv => ProtectSetSuffices
  <2>1. SUFFICES ASSUME Holds(root, inserted), collect_reachable(root) # {Err}
                 PROVE  /\ Nodes(root) \subseteq collect_reachable(root)
                        /\ \A k \in Keys : inserted[k] # None => inserted[k] \in collect_reachable(root)
    BY DEF HamtInv, ProtectSetSuffices
  <2>2. collect_reachable(root) = Nodes(root) \union UNION {Values(n) : n \in Nodes(root)}
    BY <2>1 DEF collect_reachable
  <2>3. ASSUME NEW k \in Keys, inserted[k] # None PROVE inserted[k] \in collect_reachable(root)
    <3>1. PICK d \in 0 .. DigestLen : \E n \in Levels(root, {})[d] :
              n.kind = "leaf" /\ k \in DOMAIN n.entries /\ n.entries[k] = inserted[k]
      BY <2>1, <2>3, KeyInLeaf
    <3>2. PICK n \in Levels(root, {})[d] :
              n.kind = "leaf" /\ k \in DOMAIN n.entries /\ n.entries[k] = inserted[k]
      BY <3>1
    <3>3. n \in Nodes(root)
      BY <3>2, Zenon DEF Nodes
    <3>4. inserted[k] \in Values(n)
      BY <3>2 DEF Values, Range
    <3> QED
      BY <2>2, <3>3, <3>4, Zenon
  <2> QED
    BY <2>2, <2>3
<1> QED
  BY <1>1, HamtInvariant, PTL

(***************************************************************************)
(* The parallel walk, cut off by its deadline or through, on a damaged     *)
(* tree or a whole one, returns only what was inserted, and all of it when *)
(* it says complete.                                                       *)
(***************************************************************************)
THEOREM WalkIsHonestHolds == Spec => []WalkIsHonest
<1>1. HamtInv => WalkIsHonest
  <2>1. SUFFICES ASSUME Holds(root, inserted), NEW o \in walk_entries_parallel(root)
                 PROVE  /\ o.entries \subseteq AllEntries
                        /\ o.complete => o.entries = AllEntries
    BY DEF HamtInv, WalkIsHonest
  <2>2. PICK seen : seen = Levels(root, lost)
    OBVIOUS
  <2>3. \A d \in 0 .. DigestLen : seen[d] \subseteq Nodes(root)
    <3>1. \A d \in 0 .. DigestLen : seen[d] \subseteq Levels(root, {})[d]
      BY <2>2, FrontierIn
    <3>2. \A d \in 0 .. DigestLen : Levels(root, {})[d] \subseteq Nodes(root)
      BY Zenon DEF Nodes
    <3> QED
      BY <3>1, <3>2
  <2>4. \A d, n : n \in ReadAbove(seen, d) <=>
           n \notin lost /\ \E i \in 0 .. DigestLen : i < d /\ n \in seen[i]
    BY DEF ReadAbove
  <2>5. \A d : ReadAbove(seen, d) \subseteq Nodes(root)
    BY <2>3, <2>4
  <2>6. CASE o \in CutOff(seen)
    <3>1. PICK d \in 0 .. DigestLen :
             o \in {[entries |-> EntriesIn(ReadAbove(seen, d) \union S), complete |-> FALSE] :
                       S \in SUBSET (seen[d] \ lost)}
      BY <2>6, Zenon DEF CutOff
    <3>2. PICK S \in SUBSET (seen[d] \ lost) :
             o = [entries |-> EntriesIn(ReadAbove(seen, d) \union S), complete |-> FALSE]
      BY <3>1, Zenon
    <3>3. PICK M : M = ReadAbove(seen, d) \union S
      OBVIOUS
    <3>4. M \subseteq Nodes(root)
      BY <2>3, <2>5, <3>3
    <3>5. o.entries = EntriesIn(M) /\ o.complete = FALSE
      BY <3>2, <3>3
    <3> QED
      BY <2>1, <3>4, <3>5, EntriesTrue
  <2>7. CASE o \notin CutOff(seen)
    <3>1. PICK M : M = ReadAbove(seen, DigestLen + 1)
      OBVIOUS
    <3>2. o = [entries  |-> EntriesIn(M),
               complete |-> \A d \in 0 .. DigestLen : seen[d] \intersect lost = {}]
      BY <2>1, <2>2, <2>7, <3>1 DEF walk_entries_parallel
    <3>3. o.entries = EntriesIn(M) /\ o.complete = (\A d \in 0 .. DigestLen : seen[d] \intersect lost = {})
      BY <3>2
    <3>4. M \subseteq Nodes(root)
      BY <2>5, <3>1
    <3>5. ASSUME o.complete PROVE Nodes(root) \subseteq M
      <4>1. \A d \in 0 .. DigestLen : seen[d] \intersect lost = {}
        BY <3>3, <3>5
      <4>2. \A d \in 0 .. DigestLen : seen[d] = Levels(root, {})[d]
        BY <2>2, <4>1, FrontierIn
      <4>3. ASSUME NEW n \in Nodes(root) PROVE n \in M
        <5>1. PICK d \in 0 .. DigestLen : n \in Levels(root, {})[d]
          BY Zenon DEF Nodes
        <5>2. n \in seen[d] /\ n \notin lost
          BY <4>1, <4>2, <5>1
        <5>3. d < DigestLen + 1
          BY HamtAssumption
        <5> QED
          BY <2>4, <3>1, <5>2, <5>3
      <4> QED
        BY <4>3
    <3>6. EntriesIn(M) \subseteq AllEntries /\ (Nodes(root) \subseteq M => AllEntries \subseteq EntriesIn(M))
      BY <2>1, <3>4, EntriesTrue
    <3> QED
      BY <3>3, <3>5, <3>6
  <2> QED
    BY <2>6, <2>7
<1> QED
  BY <1>1, HamtInvariant, PTL

-----------------------------------------------------------------------------
(***************************************************************************)
(* The bulk-built tree of a key set: a leaf if they fit, else slots over   *)
(* lower ones.                                                             *)
(***************************************************************************)
LEMMA BuiltIs ==
    ASSUME NEW entries, NEW h \in 0 .. DigestLen, NEW S \in SUBSET DOMAIN entries
    PROVE  build_subtree(entries)[h][S] =
              IF Cardinality(S) <= LeafMax THEN Leaf([k \in S |-> entries[k]])
              ELSE IF h = 0 \/ ErrNode \in Range(Slots(S, DigestLen - h, build_subtree(entries)[h - 1]))
                   THEN ErrNode
              ELSE Intermediate(Slots(S, DigestLen - h, build_subtree(entries)[h - 1]))
<1>1. build_subtree(entries)[h] = BuildStep(entries, build_subtree(entries)[h - 1], h)
  BY BuildIs
<1>2. PICK below : below = build_subtree(entries)[h - 1]
  OBVIOUS
<1> QED
  BY <1>1, <1>2 DEF BuildStep

\* The keys agree on the first d bytes of their digests.
SamePrefix(S, d) == \A k, l \in S : \A i \in 1 .. d : Digest[k][i] = Digest[l][i]

(***************************************************************************)
(* Keys that agree on every byte are one key: they fit in a leaf.          *)
(***************************************************************************)
LEMMA WholeDigest ==
    ASSUME NEW S \in SUBSET Keys, SamePrefix(S, DigestLen)
    PROVE  Cardinality(S) <= LeafMax
<1>1. ASSUME NEW k \in S, NEW l \in S PROVE k = l
  <2>1. Digest[k] \in [1 .. DigestLen -> Bytes] /\ Digest[l] \in [1 .. DigestLen -> Bytes]
    BY HamtAssumption
  <2>2. \A i \in 1 .. DigestLen : Digest[k][i] = Digest[l][i]
    BY DEF SamePrefix
  <2>3. PICK u \in [1 .. DigestLen -> Bytes] : u = Digest[k]
    BY <2>1
  <2>4. PICK v \in [1 .. DigestLen -> Bytes] : v = Digest[l]
    BY <2>1
  <2>5. u = v
    <3>1. \A i \in 1 .. DigestLen : u[i] = v[i]
      BY <2>2, <2>3, <2>4
    <3>2. u = [i \in 1 .. DigestLen |-> u[i]] /\ v = [i \in 1 .. DigestLen |-> v[i]]
      OBVIOUS
    <3> QED
      BY <3>1, <3>2, Zenon
  <2> QED
    BY <2>3, <2>4, <2>5, HamtAssumption
<1>2. CASE S = {}
  BY <1>2, FS_EmptySet, HamtAssumption
<1>3. CASE S # {}
  <2>1. PICK k : k \in S
    BY <1>3
  <2>2. S = {k}
    BY <1>1, <2>1
  <2>3. Cardinality(S) = 1
    BY <2>2, FS_Singleton
  <2> QED
    BY <2>3, HamtAssumption
<1> QED
  BY <1>2, <1>3

(***************************************************************************)
(* The keys of a slot agree on one byte more.                              *)
(***************************************************************************)
LEMMA PrefixGrows ==
    ASSUME NEW S, NEW d \in Nat, NEW b, SamePrefix(S, d)
    PROVE  SamePrefix(KeysAt(S, d, b), d + 1)
<1>1. SUFFICES ASSUME NEW k \in KeysAt(S, d, b), NEW l \in KeysAt(S, d, b), NEW i \in 1 .. d + 1
               PROVE  Digest[k][i] = Digest[l][i]
  BY DEF SamePrefix
<1>2. k \in S /\ l \in S /\ Digest[k][d + 1] = b /\ Digest[l][d + 1] = b
  BY DEF KeysAt, descent_byte
<1>3. i \in 1 .. d \/ i = d + 1
  OBVIOUS
<1> QED
  BY <1>2, <1>3 DEF SamePrefix

(***************************************************************************)
(* The bulk-built tree of keys with a common prefix never fails and holds  *)
(* exactly their entries.                                                  *)
(***************************************************************************)
LEMMA BuiltHolds ==
    ASSUME NEW entries, DOMAIN entries \subseteq Keys,
           NEW h \in 0 .. DigestLen, NEW S \in SUBSET DOMAIN entries,
           SamePrefix(S, DigestLen - h)
    PROVE  /\ build_subtree(entries)[h][S] # ErrNode
           /\ \A k \in Keys : FindAt(build_subtree(entries)[h][S], k, DigestLen - h) =
                 IF k \in S THEN entries[k] ELSE None
<1>1. PICK sub : sub = build_subtree(entries)
  OBVIOUS
<1>2. DigestLen \in Nat /\ 0 \in Nat /\ 0 \in 0 .. DigestLen
  BY HamtAssumption
<1> DEFINE Good(i, Q) == /\ sub[i][Q] # ErrNode
                         /\ \A k \in Keys : FindAt(sub[i][Q], k, DigestLen - i) =
                               IF k \in Q THEN entries[k] ELSE None
           Ok(i) == \A Q \in SUBSET DOMAIN entries : SamePrefix(Q, DigestLen - i) => Good(i, Q)
           T == {i \in 0 .. DigestLen : Ok(i)}
<1>3. ASSUME NEW i \in 0 .. DigestLen, i # 0 => Ok(i - 1) PROVE Ok(i)
  <2>1. SUFFICES ASSUME NEW Q \in SUBSET DOMAIN entries, SamePrefix(Q, DigestLen - i)
                 PROVE  Good(i, Q)
    OBVIOUS
  <2>2. PICK d : d = DigestLen - i
    OBVIOUS
  <2>3. d \in 0 .. DigestLen /\ d \in Nat
    BY <1>2, <2>2
  <2>4. CASE Cardinality(Q) <= LeafMax
    <3>1. PICK f : f = [k \in Q |-> entries[k]]
      OBVIOUS
    <3>2. sub[i][Q] = Leaf(f)
      <4> HIDE DEF Ok, Good
      <4> QED
        BY <1>1, <2>4, <3>1, BuiltIs
    <3>3. DOMAIN f = Q /\ \A k \in Q : f[k] = entries[k]
      BY <3>1
    <3>4. \A k : FindAt(Leaf(f), k, d) = IF k \in DOMAIN f THEN f[k] ELSE None
      <4> HIDE DEF Ok, Good
      <4> QED
        BY <2>3, FindLeaf
    <3>5. sub[i][Q] # ErrNode
      <4> HIDE DEF Ok, Good
      <4> QED
        BY <3>2, NodeParts
    <3> HIDE DEF Ok
    <3> QED
      BY <2>2, <3>2, <3>3, <3>4, <3>5
  <2>5. CASE ~(Cardinality(Q) <= LeafMax)
    <3>1. i # 0
      <4>1. i = 0 => DigestLen - i = DigestLen
        BY <1>2
      <4> QED
        BY <2>1, <2>5, <4>1, WholeDigest
    <3>2. PICK slots : slots = Slots(Q, d, sub[i - 1])
      OBVIOUS
    <3>3. /\ slots = [b \in Bytes |-> slots[b]]
          /\ \A b \in Bytes : slots[b] = IF KeysAt(Q, d, b) = {} THEN NoNode
                                         ELSE sub[i - 1][KeysAt(Q, d, b)]
      BY <3>2 DEF Slots
    <3>4. d + 1 = DigestLen - (i - 1) /\ d + 1 \in 0 .. DigestLen /\ d # DigestLen
          /\ i - 1 \in 0 .. DigestLen
      BY <1>2, <2>2, <3>1
    <3>5. \A b \in Bytes : KeysAt(Q, d, b) # {} => Good(i - 1, KeysAt(Q, d, b))
      <4>1. \A b : KeysAt(Q, d, b) \in SUBSET DOMAIN entries
        BY DEF KeysAt
      <4>2. \A b : SamePrefix(KeysAt(Q, d, b), DigestLen - (i - 1))
        <5> HIDE DEF Ok, Good
        <5> QED
          BY <2>1, <2>2, <2>3, <3>4, PrefixGrows
      <4>3. Ok(i - 1)
        BY <1>3, <3>1
      <4> HIDE DEF Good
      <4> QED
        BY <4>1, <4>2, <4>3
    <3>6. ErrNode \notin Range(slots)
      <4>1. \A b \in Bytes : slots[b] # ErrNode
        <5> HIDE DEF Ok
        <5> QED
          BY <3>3, <3>5, NodeParts
      <4>2. DOMAIN slots = Bytes
        BY <3>3
      <4> HIDE DEF Ok, Good
      <4> QED
        BY <4>1, <4>2 DEF Range
    <3>7. sub[i][Q] = Intermediate(slots)
      <4>1. sub[i][Q] = IF i = 0 \/ ErrNode \in Range(slots) THEN ErrNode ELSE Intermediate(slots)
        <5> HIDE DEF Ok, Good
        <5> QED
          BY <1>1, <2>2, <2>5, <3>2, BuiltIs
      <4> QED
        BY <3>1, <3>6, <4>1
    <3>8. sub[i][Q] # ErrNode
      <4> HIDE DEF Ok, Good
      <4> QED
        BY <3>7, NodeParts
    <3>9. ASSUME NEW k \in Keys
          PROVE  FindAt(sub[i][Q], k, d) = IF k \in Q THEN entries[k] ELSE None
      <4>1. PICK b : b = descent_byte(k, d)
        OBVIOUS
      <4>2. b \in Bytes
        <5>1. d + 1 \in 1 .. DigestLen
          BY <2>3, <3>4
        <5> HIDE DEF Ok, Good
        <5> QED
          BY <4>1, <5>1, HamtAssumption DEF descent_byte
      <4>3. FindAt(sub[i][Q], k, d) = FindAt(slots[b], k, d + 1)
        <5> HIDE DEF Ok, Good
        <5> QED
          BY <2>3, <3>4, <3>7, <4>1, FindNode
      <4>4. k \in KeysAt(Q, d, b) <=> k \in Q
        BY <4>1 DEF KeysAt
      <4>5. CASE KeysAt(Q, d, b) = {}
        <5>1. slots[b] = NoNode
          BY <3>3, <4>2, <4>5
        <5> HIDE DEF Ok, Good
        <5> QED
          BY <3>4, <4>3, <4>4, <4>5, <5>1, FindNode
      <4>6. CASE KeysAt(Q, d, b) # {}
        <5>1. slots[b] = sub[i - 1][KeysAt(Q, d, b)]
          BY <3>3, <4>2, <4>6
        <5>2. Good(i - 1, KeysAt(Q, d, b))
          <6> HIDE DEF Ok, Good
          <6> QED
            BY <3>5, <4>2, <4>6
        <5> QED
          BY <3>4, <4>3, <4>4, <5>1, <5>2
      <4> QED
        BY <4>5, <4>6
    <3> HIDE DEF Ok
    <3> QED
      BY <2>2, <3>8, <3>9
  <2> QED
    BY <2>4, <2>5
<1>4. h \in T
  <2> HIDE DEF Ok
  <2>1. 0 \in T
    BY <1>2, <1>3
  <2>2. \A i \in 0 + 1 .. DigestLen : i - 1 \in T => i \in T
    BY <1>2, <1>3
  <2> HIDE DEF T
  <2> QED
    BY <1>2, <2>1, <2>2, FromTo
<1>5. Good(h, S)
  <2> HIDE DEF Good
  <2> QED
    BY <1>4
<1> QED
  BY <1>1, <1>5

(***************************************************************************)
(* Every node of the bulk-built tree is the built tree of some keys.       *)
(***************************************************************************)
LEMMA BuiltNodes ==
    ASSUME NEW entries, NEW r, r = build_subtree(entries)[DigestLen][DOMAIN entries],
           NEW j \in 0 .. DigestLen, NEW n \in Levels(r, {})[j]
    PROVE  \E S \in SUBSET DOMAIN entries : n = build_subtree(entries)[DigestLen - j][S]
<1>1. PICK sub : sub = build_subtree(entries)
  OBVIOUS
<1>2. PICK none : none = {}
  OBVIOUS
<1>3. PICK level : level = Levels(r, none)
  OBVIOUS
<1>4. DigestLen \in Nat /\ 0 \in Nat /\ 0 \in 0 .. DigestLen /\ DigestLen - 0 = DigestLen
  BY HamtAssumption
<1> DEFINE T == {i \in 0 .. DigestLen :
                    \A x \in level[i] : \E S \in SUBSET DOMAIN entries : x = sub[DigestLen - i][S]}
<1>5. 0 \in T
  <2>1. \A x \in level[0] : x = r
    BY <1>3, FirstLevel
  <2> QED
    BY <1>1, <1>4, <2>1
<1>6. ASSUME NEW i \in 0 + 1 .. DigestLen, i - 1 \in T PROVE i \in T
  <2>1. i \in 0 .. DigestLen /\ i \in 1 .. DigestLen
    BY <1>4
  <2>2. ASSUME NEW x \in level[i] PROVE \E S \in SUBSET DOMAIN entries : x = sub[DigestLen - i][S]
    <3>1. PICK y \in level[i - 1] : ChildOf(x, y)
      BY <1>3, <2>1, NextLevel
    <3>2. PICK h : h = DigestLen - (i - 1)
      OBVIOUS
    <3>3. h \in 0 .. DigestLen /\ h - 1 = DigestLen - i /\ DigestLen - h = i - 1
      BY <1>4, <2>1, <3>2
    <3>4. PICK S \in SUBSET DOMAIN entries : y = sub[h][S]
      BY <1>6, <3>1, <3>2
    <3>5. PICK slots : slots = Slots(S, i - 1, sub[h - 1])
      OBVIOUS
    <3>6. y = IF Cardinality(S) <= LeafMax THEN Leaf([k \in S |-> entries[k]])
              ELSE IF h = 0 \/ ErrNode \in Range(slots) THEN ErrNode
              ELSE Intermediate(slots)
      BY <1>1, <3>3, <3>4, <3>5, BuiltIs
    <3>7. y.kind = "intermediate" /\ x # NoNode /\ \E b \in DOMAIN y.slots : x = y.slots[b]
      BY <3>1 DEF ChildOf
    <3>8. y = Intermediate(slots) /\ y.slots = slots
      BY <3>6, <3>7, NodeParts
    <3>9. PICK b \in DOMAIN slots : x = slots[b]
      BY <3>7, <3>8
    <3>10. x = sub[h - 1][KeysAt(S, i - 1, b)]
      BY <3>5, <3>7, <3>9 DEF Slots
    <3>11. KeysAt(S, i - 1, b) \in SUBSET DOMAIN entries
      BY DEF KeysAt
    <3> QED
      BY <3>3, <3>10, <3>11
  <2> QED
    BY <2>1, <2>2
<1>7. j \in T
  <2> HIDE DEF T
  <2> QED
    BY <1>4, <1>5, <1>6, FromTo
<1> QED
  BY <1>1, <1>2, <1>3, <1>7

(***************************************************************************)
(* build_from_entries over the records of a partition never runs out of    *)
(* digest bytes, answers every lookup as the incrementally grown tree does *)
(* and overfills no leaf.                                                  *)
(***************************************************************************)
THEOREM BulkBuildIsEquivalentHolds == Spec => []BulkBuildIsEquivalent
<1>1. HamtInv => BulkBuildIsEquivalent
  <2>1. SUFFICES ASSUME Holds(root, inserted), lost = {}
                 PROVE  /\ build_from_entries(Content) # ErrNode
                        /\ \A k \in Keys : lookup(build_from_entries(Content), k) = inserted[k]
                        /\ \A n \in Nodes(build_from_entries(Content)) : n.kind = "leaf" =>
                              Cardinality(DOMAIN n.entries) <= LeafMax
    BY DEF HamtInv, BulkBuildIsEquivalent
  <2>2. PICK c : c = Content
    OBVIOUS
  <2>3. /\ DOMAIN c = {k \in Keys : inserted[k] # None}
        /\ \A k \in DOMAIN c : c[k] = inserted[k]
    BY <2>2 DEF Content
  <2>4. PICK r : r = build_subtree(c)[DigestLen][DOMAIN c]
    OBVIOUS
  <2>5. build_from_entries(Content) = r
    BY <2>2, <2>4 DEF build_from_entries
  <2>6. DigestLen \in Nat /\ DigestLen \in 0 .. DigestLen /\ DigestLen - DigestLen = 0
    BY HamtAssumption
  <2>7. SamePrefix(DOMAIN c, DigestLen - DigestLen)
    BY <2>6 DEF SamePrefix
  <2>8. r # ErrNode /\ \A k \in Keys : FindAt(r, k, 0) = IF k \in DOMAIN c THEN c[k] ELSE None
    <3>1. DOMAIN c \subseteq Keys /\ DOMAIN c \in SUBSET DOMAIN c
      BY <2>3
    <3> QED
      BY <2>4, <2>6, <2>7, <3>1, BuiltHolds
  <2>9. \A k \in Keys : lookup(r, k) = inserted[k]
    <3>1. \A k \in Keys : lookup(r, k) = FindAt(r, k, 0)
      BY <2>1 DEF lookup, FindAt
    <3> QED
      BY <2>3, <2>8, <3>1
  <2>10. ASSUME NEW n \in Nodes(r), n.kind = "leaf" PROVE Cardinality(DOMAIN n.entries) <= LeafMax
    <3>1. PICK j \in 0 .. DigestLen : n \in Levels(r, {})[j]
      BY Zenon DEF Nodes
    <3>2. PICK S \in SUBSET DOMAIN c : n = build_subtree(c)[DigestLen - j][S]
      BY <2>4, <3>1, BuiltNodes
    <3>3. DigestLen - j \in 0 .. DigestLen
      BY <2>6
    <3>4. PICK f : f = [k \in S |-> c[k]]
      OBVIOUS
    <3>5. Cardinality(S) <= LeafMax /\ n = Leaf(f)
      BY <2>10, <3>2, <3>3, <3>4, BuiltIs, NodeParts
    <3>6. DOMAIN n.entries = S
      BY <3>4, <3>5, NodeParts
    <3> QED
      BY <3>5, <3>6
  <2> QED
    BY <2>5, <2>8, <2>9, <2>10
<1> QED
  BY <1>1, HamtInvariant, PTL

-----------------------------------------------------------------------------
(***************************************************************************)
(* The trie implements the map.  Position i is the first of its key:       *)
(***************************************************************************)
FirstAt(entries, i) == \A l \in 1 .. i - 1 : entries[l].key # entries[i].key

\* What a map has after the first n entries of a batch, key by key.
After(entries, n, before, after) ==
    /\ after \in [Keys -> Hashes \union {None}]
    /\ \A k \in Keys : before[k] # None => after[k] = before[k]
    /\ \A k \in Keys : (\A i \in 1 .. n : entries[i].key # k) => after[k] = before[k]
    /\ \A i \in 1 .. n : before[entries[i].key] = None /\ FirstAt(entries, i) =>
          after[entries[i].key] = entries[i].hash

(***************************************************************************)
(* One entry more: it counts when its key is still free, that is when it   *)
(* is the first of its key and the map had none.                           *)
(***************************************************************************)
LEMMA AfterStep ==
    ASSUME NEW entries \in Seq(Entry), NEW n \in 1 .. Len(entries),
           NEW before \in [Keys -> Hashes \union {None}], NEW g, NEW f,
           After(entries, n - 1, before, g),
           f = IF g[entries[n].key] = None THEN [g EXCEPT ![entries[n].key] = entries[n].hash] ELSE g
    PROVE  After(entries, n, before, f)
<1>1. \A i \in 1 .. Len(entries) : /\ entries[i].key \in Keys /\ entries[i].hash \in Hashes
                                   /\ entries[i].hash # None
  <2>1. ASSUME NEW i \in 1 .. Len(entries)
        PROVE  entries[i].key \in Keys /\ entries[i].hash \in Hashes
    <3>1. entries[i] \in Entry
      OBVIOUS
    <3> QED
      BY <3>1 DEF Entry
  <2> QED
    BY <2>1, HamtAssumption
<1>2. PICK c \in Keys : c = entries[n].key
  BY <1>1
<1>3. PICK v \in Hashes : v = entries[n].hash /\ v # None
  BY <1>1
<1>4. g \in [Keys -> Hashes \union {None}]
  BY DEF After
<1>5. f = IF g[c] = None THEN [g EXCEPT ![c] = v] ELSE g
  BY <1>2, <1>3
<1>6. f \in [Keys -> Hashes \union {None}]
  BY <1>4, <1>5
<1>7. ASSUME NEW k \in Keys, before[k] # None PROVE f[k] = before[k]
  <2>1. g[k] = before[k]
    BY <1>7 DEF After
  <2> QED
    BY <1>4, <1>5, <1>7, <2>1
<1>8. ASSUME NEW k \in Keys, \A i \in 1 .. n : entries[i].key # k PROVE f[k] = before[k]
  <2>1. k # c /\ \A i \in 1 .. n - 1 : entries[i].key # k
    BY <1>2, <1>8
  <2>2. g[k] = before[k]
    BY <2>1 DEF After
  <2> QED
    BY <1>4, <1>5, <2>1, <2>2
<1>9. ASSUME NEW i \in 1 .. n, before[entries[i].key] = None, FirstAt(entries, i)
      PROVE  f[entries[i].key] = entries[i].hash
  <2>1. PICK k \in Keys : k = entries[i].key
    BY <1>1
  <2>2. CASE i = n
    <3>1. k = c /\ \A l \in 1 .. n - 1 : entries[l].key # k
      BY <1>2, <1>9, <2>1, <2>2 DEF FirstAt
    <3>2. g[c] = None
      BY <1>9, <2>1, <3>1 DEF After
    <3> QED
      BY <1>3, <1>4, <1>5, <2>1, <2>2, <3>1, <3>2
  <2>3. CASE i # n
    <3>1. i \in 1 .. n - 1 /\ i \in 1 .. Len(entries)
      BY <2>3
    <3>2. g[k] = entries[i].hash
      BY <1>9, <2>1, <3>1 DEF After
    <3>3. g[k] # None
      BY <1>1, <3>1, <3>2
    <3> QED
      BY <1>4, <1>5, <2>1, <3>2, <3>3
  <2> QED
    BY <2>2, <2>3
<1> QED
  BY <1>6, <1>7, <1>8, <1>9 DEF After

(***************************************************************************)
(* Over the whole batch.                                                   *)
(***************************************************************************)
LEMMA FirstInsertedAfter ==
    ASSUME inserted \in [Keys -> Hashes \union {None}], NEW entries \in Seq(Entry)
    PROVE  After(entries, Len(entries), inserted, FirstInserted(entries)[Len(entries)])
<1>1. PICK first : first = FirstInserted(entries)
  OBVIOUS
<1>2. PICK last : last = Len(entries)
  OBVIOUS
<1>3. last \in Nat /\ 0 \in Nat /\ last \in 0 .. last /\ 0 \in 0 .. last
  BY <1>2
<1>4. \A n \in 0 .. last : first[n] = FirstStep(entries, first[n - 1], n)
  BY <1>1, <1>2, FirstIs
<1> DEFINE T == {n \in 0 .. last : After(entries, n, inserted, first[n])}
<1>5. 0 \in T
  <2>1. first[0] = FirstStep(entries, first[0 - 1], 0)
    BY <1>3, <1>4
  <2>2. first[0] = inserted
    BY <2>1 DEF FirstStep
  <2>3. After(entries, 0, inserted, inserted)
    BY DEF After
  <2> QED
    BY <1>3, <2>2, <2>3
<1>6. ASSUME NEW n \in 0 + 1 .. last, n - 1 \in T PROVE n \in T
  <2>1. n \in 0 .. last /\ n \in 1 .. Len(entries) /\ n # 0
    BY <1>2, <1>3
  <2>2. PICK g : g = first[n - 1]
    OBVIOUS
  <2>3. PICK f : f = first[n]
    OBVIOUS
  <2>4. f = IF g[entries[n].key] = None THEN [g EXCEPT ![entries[n].key] = entries[n].hash] ELSE g
    BY <1>4, <2>1, <2>2, <2>3 DEF FirstStep
  <2>5. After(entries, n - 1, inserted, g)
    BY <1>6, <2>2
  <2>6. After(entries, n, inserted, f)
    BY <2>1, <2>4, <2>5, AfterStep
  <2> QED
    BY <2>1, <2>3, <2>6
<1>7. last \in T
  <2> HIDE DEF T
  <2> QED
    BY <1>3, <1>5, <1>6, FromTo
<1> QED
  BY <1>1, <1>2, <1>7

(***************************************************************************)
(* A key of a batch has a first position.                                  *)
(***************************************************************************)
LEMMA HasFirst ==
    ASSUME NEW entries \in Seq(Entry), NEW j \in 1 .. Len(entries)
    PROVE  \E i \in 1 .. Len(entries) : entries[i].key = entries[j].key /\ FirstAt(entries, i)
<1>1. PICK T : T = {i \in 1 .. Len(entries) : entries[i].key = entries[j].key}
  OBVIOUS
<1>2. T \subseteq Nat /\ T # {}
  BY <1>1
<1>3. PICK i \in T : \A l \in T : i <= l
  BY <1>2, LeastMember
<1>4. i \in 1 .. Len(entries) /\ entries[i].key = entries[j].key
  BY <1>1, <1>3
<1>5. ASSUME NEW l \in 1 .. i - 1 PROVE entries[l].key # entries[i].key
  <2>1. l \in 1 .. Len(entries) /\ ~(i <= l)
    BY <1>4
  <2> QED
    BY <1>1, <1>3, <1>4, <2>1
<1> QED
  BY <1>4, <1>5 DEF FirstAt

(***************************************************************************)
(* So a batch that goes through does to the history what the map's insert  *)
(* does: the first entry of each free key is added.                        *)
(***************************************************************************)
LEMMA BatchIsFirstWins ==
    ASSUME inserted \in [Keys -> Hashes \union {None}], NEW entries \in Seq(Entry)
    PROVE  FirstInserted(entries)[Len(entries)] =
             Map!FirstWins(inserted, Map!FirstOfEach(entries))
<1>1. PICK f : f = FirstInserted(entries)[Len(entries)]
  OBVIOUS
<1>2. After(entries, Len(entries), inserted, f)
  BY <1>1, FirstInsertedAfter
<1>3. PICK items : items = Map!FirstOfEach(entries)
  OBVIOUS
<1>4. items = {entries[i] : i \in {j \in 1 .. Len(entries) : FirstAt(entries, j)}}
  BY <1>3 DEF Map!FirstOfEach, FirstAt
<1>5. ASSUME NEW k \in Keys
      PROVE  f[k] = IF inserted[k] = None /\ k \in Map!KeysOf(items)
                    THEN (CHOOSE e \in items : e.key = k).hash ELSE inserted[k]
  <2>1. CASE inserted[k] # None
    BY <1>2, <2>1 DEF After
  <2>2. CASE inserted[k] = None /\ k \in Map!KeysOf(items)
    <3>1. PICK e : e = CHOOSE e1 \in items : e1.key = k
      OBVIOUS
    <3>2. e \in items /\ e.key = k
      BY <2>2, <3>1 DEF Map!KeysOf
    <3>3. PICK i \in 1 .. Len(entries) : e = entries[i] /\ FirstAt(entries, i)
      BY <1>4, <3>2
    <3>4. f[k] = e.hash
      BY <1>2, <2>2, <3>2, <3>3 DEF After
    <3> QED
      BY <2>2, <3>1, <3>4
  <2>3. CASE inserted[k] = None /\ k \notin Map!KeysOf(items)
    <3>1. ASSUME NEW j \in 1 .. Len(entries), entries[j].key = k PROVE FALSE
      <4>1. PICK i \in 1 .. Len(entries) : entries[i].key = k /\ FirstAt(entries, i)
        BY <3>1, HasFirst
      <4>2. entries[i] \in items
        BY <1>4, <4>1
      <4> QED
        BY <2>3, <4>1, <4>2 DEF Map!KeysOf
    <3> QED
      BY <1>2, <2>3, <3>1 DEF After
  <2> QED
    BY <2>1, <2>2, <2>3
<1>6. f \in [Keys -> Hashes \union {None}]
  BY <1>2 DEF After
<1>7. f = [k \in Keys |-> f[k]]
  BY <1>6
<1>8. Map!FirstWins(inserted, items) =
        [k \in Keys |-> IF inserted[k] = None /\ k \in Map!KeysOf(items)
                        THEN (CHOOSE e \in items : e.key = k).hash ELSE inserted[k]]
  BY Zenon DEF Map!FirstWins
<1>9. f = Map!FirstWins(inserted, items)
  BY <1>5, <1>7, <1>8, Zenon
<1> QED
  BY <1>1, <1>3, <1>9

\* What the tree says is what was first inserted.
HeldInv == Held = inserted /\ inserted \in [Keys -> Hashes \union {None}]

(***************************************************************************)
(* That follows from the invariant.                                        *)
(***************************************************************************)
LEMMA HeldIsInserted == HamtInv => HeldInv
<1> SUFFICES ASSUME HamtInv PROVE HeldInv
  OBVIOUS
<1>1. inserted \in [Keys -> Hashes \union {None}]
      /\ \A k \in Keys : Found(Path(root, k, 0)[DigestLen], k) = inserted[k]
  BY DEF HamtInv, Holds, FindAt
<1>2. inserted = [k \in Keys |-> inserted[k]]
  BY <1>1
<1>3. Held = inserted
  BY <1>1, <1>2, Zenon DEF Held
<1> QED
  BY <1>1, <1>3 DEF HeldInv

(***************************************************************************)
(* The trie of hamt.rs implements the map that the publisher works with    *)
(* (publisher.rs, publish_cycle): with every node, split and failed batch  *)
(* hidden, each step adds a whole batch, first write wins, or nothing.     *)
(***************************************************************************)
THEOREM TrieImplementsMap == Spec => ImplementsMap
<1>1. Init => Map!Init
  <2>1. SUFFICES ASSUME Init PROVE Map!Init
    OBVIOUS
  <2>2. Held = inserted
    BY <2>1, HamtInit, HeldIsInserted DEF HeldInv
  <2> QED
    BY <2>1, <2>2 DEF Init, Map!Init, Map!EmptyTree
<1>2. HeldInv /\ HeldInv' /\ [Next]_vars => [Map!Next]_Held
  <2>1. SUFFICES ASSUME HeldInv, HeldInv', [Next]_vars PROVE [Map!Next]_Held
    OBVIOUS
  <2>2. Held = inserted /\ inserted \in [Keys -> Hashes \union {None}]
    BY <2>1 DEF HeldInv
  <2>3. Held' = inserted'
    BY <2>1 DEF HeldInv
  <2>4. CASE UNCHANGED inserted
    BY <2>2, <2>3, <2>4
  <2>5. ASSUME NEW entries \in Batches, Insert(entries) PROVE [Map!Next]_Held
    <3>1. CASE insert_batch(root, entries).root = ErrNode
      <4>1. UNCHANGED inserted
        BY <2>5, <3>1 DEF Insert
      <4> QED
        BY <2>4, <4>1
    <3>2. CASE insert_batch(root, entries).root # ErrNode
      <4>1. inserted' = FirstInserted(entries)[Len(entries)]
        BY <2>5, <3>2 DEF Insert
      <4>2. entries \in Seq(Entry)
        BY HamtAssumption
      <4>3. inserted' = Map!FirstWins(inserted, Map!FirstOfEach(entries))
        BY <2>2, <4>1, <4>2, BatchIsFirstWins
      <4>4. Map!Insert(entries)
        BY <2>2, <2>3, <4>3 DEF Map!Insert
      <4> QED
        BY <4>4 DEF Map!Next
    <3> QED
      BY <3>1, <3>2
  <2>6. CASE LoseNode \/ NodeBack
    BY <2>4, <2>6 DEF LoseNode, NodeBack
  <2>7. CASE UNCHANGED vars
    BY <2>4, <2>7 DEF vars
  <2> QED
    BY <2>1, <2>5, <2>6, <2>7 DEF Next
<1> QED
  BY <1>1, <1>2, HamtInvariant, HeldIsInserted, PTL DEF Spec, ImplementsMap, Map!Spec

-----------------------------------------------------------------------------
(***************************************************************************)
(* On a tree that can be read no insert fails.  Where the way ends: only a *)
(* leaf below the last byte cannot be split, and there is one key for it.  *)
(***************************************************************************)
LEMMA LeafTakes ==
    ASSUME NEW h \in 0 .. DigestLen, NEW S \in SUBSET Keys, NEW e \in Entry, e.key \in S,
           SamePrefix(S, DigestLen - h),
           NEW x \in TreesAt[h][S] \union {NoNode}, x.kind # "intermediate", x # ErrNode
    PROVE  InsertIntoLeaf(x, e, DigestLen - h).root # ErrNode
<1>1. PICK f : f = EntriesOf(x)
  OBVIOUS
<1>2. DOMAIN f \subseteq S
  BY <1>1, EntriesAre
<1>3. PICK R : R = DOMAIN f \union {e.key}
  OBVIOUS
<1>4. PICK g : g = [k \in R |-> IF k = e.key THEN e.hash ELSE f[k]]
  OBVIOUS
<1>5. InsertIntoLeaf(x, e, DigestLen - h) =
        IF e.key \in DOMAIN f THEN Kept(x)
        ELSE IF Cardinality(R) <= LeafMax THEN Put(Leaf(g), {})
        ELSE Split(g, DigestLen - h)
  BY <1>1, <1>3, <1>4 DEF InsertIntoLeaf
<1>6. CASE e.key \in DOMAIN f
  BY <1>5, <1>6 DEF Kept
<1>7. CASE e.key \notin DOMAIN f /\ Cardinality(R) <= LeafMax
  BY <1>5, <1>7, NodeParts DEF Put
<1>8. CASE e.key \notin DOMAIN f /\ ~(Cardinality(R) <= LeafMax)
  <2>1. DigestLen - h # DigestLen
    <3>1. SUFFICES ASSUME DigestLen - h = DigestLen PROVE FALSE
      OBVIOUS
    <3>2. R \in SUBSET Keys /\ SamePrefix(R, DigestLen)
      BY <1>2, <1>3, <3>1 DEF SamePrefix
    <3> QED
      BY <1>8, <3>2, WholeDigest
  <2>2. Split(g, DigestLen - h).root # ErrNode
    BY <2>1, NodeParts DEF Split, Put
  <2> QED
    BY <1>5, <1>8, <2>2
<1> QED
  BY <1>6, <1>7, <1>8

(***************************************************************************)
(* insert_at on a readable tree, by height.                                *)
(***************************************************************************)
LEMMA InsertWorks ==
    ASSUME NEW r \in TreesAt[DigestLen][Keys] \union {NoNode}, NEW e \in Entry, lost = {}
    PROVE  insert_one(r, e).root # ErrNode
<1>1. PICK at : at = Path(r, e.key, 0)
  OBVIOUS
<1>2. PICK new : new = insert_at(r, e)
  OBVIOUS
<1>3. DigestLen \in Nat /\ 0 \in 0 .. DigestLen /\ 0 \in Nat
  BY HamtAssumption
<1>4. at[0] = r /\ \A d \in 1 .. DigestLen : at[d] = Down(at[d - 1], e.key, d - 1)
  BY <1>1, <1>3, PathIs
<1>5. \A h \in 0 .. DigestLen : new[h] = InsertStep(at, e, new[h - 1], h)
  BY <1>1, <1>2, InsertIs
<1> DEFINE Ok(h) == \A S \in SUBSET Keys :
              /\ e.key \in S /\ SamePrefix(S, DigestLen - h)
              /\ at[DigestLen - h] \in TreesAt[h][S] \union {NoNode}
              => new[h].root # ErrNode
           T == {h \in 0 .. DigestLen : Ok(h)}
<1>6. ASSUME NEW h \in 0 .. DigestLen, h # 0 => Ok(h - 1) PROVE Ok(h)
  <2>1. SUFFICES ASSUME NEW S \in SUBSET Keys, e.key \in S, SamePrefix(S, DigestLen - h),
                        at[DigestLen - h] \in TreesAt[h][S] \union {NoNode}
                 PROVE  new[h].root # ErrNode
    OBVIOUS
  <2>2. PICK x : x = at[DigestLen - h]
    OBVIOUS
  <2>3. new[h] = InsertStep(at, e, new[h - 1], h)
    BY <1>5
  <2>4. x = NoNode \/ IsLeaf(x, S) \/ (h # 0 /\ IsBranch(x, h, S))
    <3> HIDE DEF Ok
    <3> QED
      BY <2>1, <2>2, TreeIs
  <2>5. CASE x.kind # "intermediate"
    <3>1. new[h] = InsertIntoLeaf(x, e, DigestLen - h)
      BY <2>2, <2>3, <2>5 DEF InsertStep
    <3>2. x # ErrNode
      BY <2>4, NodeParts DEF IsLeaf, IsBranch
    <3> HIDE DEF Ok
    <3> QED
      BY <2>1, <2>2, <2>5, <3>1, <3>2, LeafTakes
  <2>6. CASE x.kind = "intermediate"
    <3>1. h # 0 /\ IsBranch(x, h, S)
      BY <2>4, <2>6, NodeParts DEF IsLeaf
    <3>2. PICK b : b = descent_byte(e.key, DigestLen - h)
      OBVIOUS
    <3>3. new[h] = CopyOver(x, b, new[h - 1])
      BY <2>2, <2>3, <2>6, <3>1, <3>2 DEF InsertStep
    <3>4. /\ h \in 1 .. DigestLen /\ DigestLen - (h - 1) \in 1 .. DigestLen
          /\ (DigestLen - (h - 1)) - 1 = DigestLen - h /\ DigestLen - (h - 1) = (DigestLen - h) + 1
          /\ DigestLen - h \in Nat
      BY <1>3, <3>1
    <3>5. at[DigestLen - (h - 1)] = x.slots[b]
      <4>1. at[DigestLen - (h - 1)] = Down(x, e.key, DigestLen - h)
        BY <1>4, <2>2, <3>4
      <4> QED
        BY <2>6, <3>2, <4>1 DEF Down
    <3>6. x.slots[b] \in TreesAt[h - 1][KeysAt(S, DigestLen - h, b)] \union {NoNode}
      <4>1. b \in Bytes
        <5>1. DigestLen - h + 1 \in 1 .. DigestLen
          BY <1>3, <3>4
        <5> QED
          BY <3>2, <5>1, HamtAssumption DEF descent_byte, Entry
      <4> QED
        BY <3>1, <4>1 DEF IsBranch, Below
    <3>7. e.key \in KeysAt(S, DigestLen - h, b) /\ KeysAt(S, DigestLen - h, b) \in SUBSET Keys
      BY <2>1, <3>2 DEF KeysAt
    <3>8. SamePrefix(KeysAt(S, DigestLen - h, b), DigestLen - (h - 1))
      <4>1. SamePrefix(KeysAt(S, DigestLen - h, b), (DigestLen - h) + 1)
        BY <2>1, <3>4, PrefixGrows
      <4> QED
        BY <3>4, <4>1
    <3>9. new[h - 1].root # ErrNode
      BY <1>6, <3>1, <3>5, <3>6, <3>7, <3>8
    <3> QED
      BY <3>3, <3>9, NodeParts DEF CopyOver, Put
  <2> QED
    BY <2>5, <2>6
<1>7. \A h \in 0 .. DigestLen : h \in T
  <2> HIDE DEF Ok
  <2>1. 0 \in T
    BY <1>3, <1>6
  <2>2. \A h \in 0 + 1 .. DigestLen : h - 1 \in T => h \in T
    BY <1>3, <1>6
  <2> HIDE DEF T
  <2> QED
    BY <1>3, <2>1, <2>2, FromTo
<1>8. /\ DigestLen \in 0 .. DigestLen /\ DigestLen - DigestLen = 0 /\ e.key \in Keys
      /\ SamePrefix(Keys, 0)
  BY <1>3 DEF Entry, SamePrefix
<1>9. Ok(DigestLen)
  BY <1>7, <1>8
<1>10. insert_one(r, e) = new[DigestLen]
  BY <1>2 DEF insert_one
<1> QED
  BY <1>4, <1>8, <1>9, <1>10

(***************************************************************************)
(* insert_batch on a readable tree, entry by entry.                        *)
(***************************************************************************)
LEMMA BatchWorks ==
    ASSUME NEW r \in TreesAt[DigestLen][Keys] \union {NoNode}, NEW entries \in Seq(Entry),
           lost = {}
    PROVE  insert_batch(r, entries).root # ErrNode
<1>1. PICK acc : acc = InsertEach(r, entries)
  OBVIOUS
<1>2. PICK last : last = Len(entries)
  OBVIOUS
<1>3. last \in Nat /\ 0 \in Nat /\ last \in 0 .. last /\ 0 \in 0 .. last
      /\ \A n \in 1 .. last : entries[n] \in Entry
  BY <1>2
<1>4. \A n \in 0 .. last : acc[n] = BatchStep(r, entries, acc[n - 1], n)
  BY <1>1, <1>2, BatchIs
<1>5. \A x \in TreesAt[DigestLen][Keys] \union {NoNode} : x # ErrNode
  <2>1. SUFFICES ASSUME NEW x \in TreesAt[DigestLen][Keys] PROVE x # ErrNode
    BY <2>1, NodeParts
  <2>2. DigestLen \in 0 .. DigestLen /\ Keys \in SUBSET Keys
    BY HamtAssumption
  <2>3. IsLeaf(x, Keys) \/ IsBranch(x, DigestLen, Keys)
    BY <2>2, TreeIs
  <2> QED
    BY <2>3, NodeParts DEF IsLeaf, IsBranch
<1> DEFINE T == {n \in 0 .. last : acc[n].root \in TreesAt[DigestLen][Keys] \union {NoNode}}
<1>6. 0 \in T
  <2>1. acc[0] = BatchStep(r, entries, acc[0 - 1], 0)
    BY <1>3, <1>4
  <2>2. acc[0].root = r
    BY <2>1 DEF BatchStep, Kept
  <2> QED
    BY <1>3, <2>2
<1>7. ASSUME NEW n \in 0 + 1 .. last, n - 1 \in T PROVE n \in T
  <2>1. n \in 0 .. last /\ n \in 1 .. last /\ n # 0
    BY <1>3
  <2>2. PICK e : e = entries[n]
    OBVIOUS
  <2>3. PICK x : x = acc[n - 1].root
    OBVIOUS
  <2>4. e \in Entry /\ x \in TreesAt[DigestLen][Keys] \union {NoNode} /\ x # ErrNode
    BY <1>3, <1>5, <1>7, <2>1, <2>2, <2>3
  <2>5. acc[n].root = insert_one(x, e).root
    <3>1. acc[n] = BatchStep(r, entries, acc[n - 1], n)
      BY <1>4, <2>1
    <3>2. acc[n] = IF x = ErrNode THEN acc[n - 1]
                   ELSE [root  |-> insert_one(x, e).root,
                         wrote |-> acc[n - 1].wrote \union insert_one(x, e).wrote]
      BY <2>1, <2>2, <2>3, <3>1, Zenon DEF BatchStep
    <3> QED
      BY <2>4, <3>2
  <2>6. insert_one(x, e).root # ErrNode
    BY <2>4, InsertWorks
  <2>7. Inserts(DigestLen, Keys, x, e, insert_one(x, e).root)
    BY <2>4, <2>6, InsertOne
  <2>8. insert_one(x, e).root \in TreesAt[DigestLen][Keys]
    BY <2>7 DEF Inserts
  <2> QED
    BY <2>1, <2>5, <2>8
<1>8. last \in T
  <2> HIDE DEF T
  <2> QED
    BY <1>3, <1>6, <1>7, FromTo
<1>9. insert_batch(r, entries) = IF acc[last].root = NoNode THEN Put(Leaf(NoEntries), {}) ELSE acc[last]
  BY <1>1, <1>2 DEF insert_batch
<1>10. acc[last].root # ErrNode
  BY <1>5, <1>8
<1> QED
  BY <1>9, <1>10, NodeParts DEF Put

\* While every node can be read, every batch goes through.
BatchesGoThrough ==
    lost = {} => \A entries \in Batches : insert_batch(root, entries).root # ErrNode

(***************************************************************************)
(* A publish cycle cannot get stuck on the shape of its tree: whatever was *)
(* inserted and however full the leaves that a split leaves behind are,    *)
(* insert_at never meets DepthExhausted.  A batch fails only on a node     *)
(* that the store cannot read.                                             *)
(***************************************************************************)
THEOREM BatchesGoThroughHolds == Spec => []BatchesGoThrough
<1>1. HamtInv => BatchesGoThrough
  <2>1. SUFFICES ASSUME HamtInv, lost = {}, NEW entries \in Batches
                 PROVE  insert_batch(root, entries).root # ErrNode
    BY DEF BatchesGoThrough
  <2>2. root \in TreesAt[DigestLen][Keys] \union {NoNode}
    BY <2>1 DEF HamtInv, Holds
  <2>3. entries \in Seq(Entry)
    BY HamtAssumption
  <2> QED
    BY <2>1, <2>2, <2>3, BatchWorks
<1> QED
  BY <1>1, HamtInvariant, PTL

(***************************************************************************)
(* Inserting a key again, with whatever content, leaves the root as it is; *)
(* only a node that cannot be read makes it fail.                          *)
(***************************************************************************)
THEOREM ReplayIsNoopHolds == Spec => []ReplayIsNoop
<1>1. HamtInv => ReplayIsNoop
  <2>1. SUFFICES ASSUME Holds(root, inserted), NEW k \in Keys, NEW h \in Hashes,
                        inserted[k] # None, NEW e, e = [key |-> k, hash |-> h]
                 PROVE  \/ insert_one(root, e).root = root
                        \/ insert_one(root, e).root = ErrNode /\ lost # {}
    BY <2>1 DEF HamtInv, ReplayIsNoop
  <2>2. e \in Entry /\ e.key = k
    BY <2>1 DEF Entry
  <2>3. lost = {} => insert_one(root, e).root # ErrNode
    BY <2>1, <2>2, InsertWorks DEF Holds
  <2>4. ASSUME insert_one(root, e).root # ErrNode PROVE insert_one(root, e).root = root
    <3>1. Inserts(DigestLen, Keys, root, e, insert_one(root, e).root)
      BY <2>1, <2>2, <2>4, InsertOne DEF Holds
    <3>2. DigestLen - DigestLen = 0
      BY HamtAssumption
    <3>3. FindAt(root, k, 0) # None
      BY <2>1 DEF Holds
    <3> QED
      BY <2>2, <3>1, <3>2, <3>3 DEF Inserts
  <2> QED
    BY <2>3, <2>4
<1> QED
  BY <1>1, HamtInvariant, PTL

=============================================================================
