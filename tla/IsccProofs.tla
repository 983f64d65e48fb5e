----------------------------- MODULE IsccProofs -----------------------------
(***************************************************************************)
(* Proofs about module IsccStore, for every number of bits, bands, members *)
(* per segment and batches.  Its operators are recursive functions over a  *)
(* batch or over the bits of a mask; induction on them goes through the    *)
(* least counterexample.                                                   *)
(***************************************************************************)
EXTENDS IsccStore, FiniteSetTheorems, FunctionTheorems, SequenceTheorems, WellFoundedInduction, TLAPS

(***************************************************************************)
(* A set of naturals that is not empty has a least member.                 *)
(***************************************************************************)
LEMMA LeastMember ==
    ASSUME NEW T, T \subseteq Nat, T # {}
    PROVE  \E x \in T : \A y \in T : x <= y
<1>1. PICK x \in T : \A y \in T : <<y, x>> \notin OpToRel(<, Nat)
  BY NatLessThanWellFounded, WFMin
<1>2. \A y \in T : ~(y < x)
  BY <1>1 DEF OpToRel
<1> QED
  BY <1>2

-----------------------------------------------------------------------------
(***************************************************************************)
(* Recursion over the positions 1 .. K of a batch: the steps on values     *)
(* from U, and what a solution from x is.                                  *)
(***************************************************************************)
Steps(K, U) == [(1 .. K) \X U -> U]

Solution(z, K, U, x, op) ==
    /\ z \in [0 .. K -> U] /\ z[0] = x
    /\ \A n \in 1 .. K : z[n] = op[<<n, z[n - 1]>>]

\* Two sequences of values that go the same way from the same start.
SameWay(K, z, w) ==
    /\ z[0] = w[0]
    /\ \A n \in 1 .. K : z[n - 1] = w[n - 1] => z[n] = w[n]

(***************************************************************************)
(* There is a solution ...                                                 *)
(***************************************************************************)
LEMMA Recursion ==
    ASSUME NEW K \in Nat, NEW U, NEW x \in U, NEW op \in Steps(K, U)
    PROVE  \E z : Solution(z, K, U, x, op)
<1> DEFINE Bad == {k \in 0 .. K : ~\E z : Solution(z, k, U, x, op)}
<1>1. SUFFICES Bad = {}
  BY <1>1
<1>2. SUFFICES ASSUME Bad # {} PROVE FALSE
  OBVIOUS
<1>3. PICK k \in Bad : \A j \in Bad : k <= j
  <2>1. Bad \subseteq Nat
    OBVIOUS
  <2> HIDE DEF Bad
  <2> QED
    BY <1>2, <2>1, LeastMember
<1>4. k # 0
  <2>1. Solution([n \in 0 .. 0 |-> x], 0, U, x, op)
    BY DEF Solution
  <2> QED
    BY <2>1
<1>5. k \in 1 .. K /\ k - 1 \in 0 .. K /\ k - 1 \notin Bad
  BY <1>3, <1>4
<1>6. PICK z : Solution(z, k - 1, U, x, op)
  BY <1>5
<1> DEFINE w == [n \in 0 .. k |-> IF n = k THEN op[<<k, z[k - 1]>>] ELSE z[n]]
<1>7. Solution(w, k, U, x, op)
  <2>1. k - 1 \in 0 .. k - 1 /\ z[k - 1] \in U /\ <<k, z[k - 1]>> \in (1 .. K) \X U
    BY <1>5, <1>6 DEF Solution
  <2>2. op[<<k, z[k - 1]>>] \in U
    BY <2>1 DEF Steps
  <2>3. w \in [0 .. k -> U] /\ w[0] = x
    BY <1>5, <1>6, <2>2 DEF Solution
  <2>4. ASSUME NEW n \in 1 .. k PROVE w[n] = op[<<n, w[n - 1]>>]
    <3>1. CASE n = k
      <4>1. k \in 0 .. k /\ k - 1 \in 0 .. k /\ k - 1 # k
        BY <1>5
      <4>2. w[k] = op[<<k, z[k - 1]>>] /\ w[k - 1] = z[k - 1]
        BY <4>1
      <4> QED
        BY <3>1, <4>2
    <3>2. CASE n # k
      <4>1. n \in 1 .. k - 1 /\ n \in 0 .. k /\ n - 1 \in 0 .. k /\ n - 1 # k
        BY <1>5, <3>2
      <4>2. z[n] = op[<<n, z[n - 1]>>]
        BY <1>6, <4>1 DEF Solution
      <4> QED
        BY <3>2, <4>1, <4>2
    <3> QED
      BY <3>1, <3>2
  <2> QED
    BY <2>3, <2>4 DEF Solution
<1> QED
  BY <1>7

(***************************************************************************)
(* ... and only one.                                                       *)
(***************************************************************************)
LEMMA OneSolution ==
    ASSUME NEW K \in Nat, NEW z, NEW w, SameWay(K, z, w)
    PROVE  z[K] = w[K]
<1> DEFINE Bad == {k \in 0 .. K : z[k] # w[k]}
<1>1. SUFFICES ASSUME Bad # {} PROVE FALSE
  <2>1. K \in 0 .. K
    OBVIOUS
  <2> QED
    BY <1>1, <2>1
<1>2. PICK k \in Bad : \A j \in Bad : k <= j
  <2>1. Bad \subseteq Nat
    OBVIOUS
  <2> HIDE DEF Bad
  <2> QED
    BY <1>1, <2>1, LeastMember
<1>3. k \in 1 .. K
  BY DEF SameWay
<1>4. k - 1 \in 0 .. K /\ k - 1 \notin Bad
  BY <1>2, <1>3
<1> QED
  BY <1>3, <1>4 DEF SameWay

(***************************************************************************)
(* Extending a bucket's tail by a batch, member by member.                 *)
(***************************************************************************)
LEMMA ExtendedIs ==
    ASSUME NEW b, NEW tail \in Seq(IsccMember), NEW batch \in Seq(IsccMember)
    PROVE  \E f \in [0 .. Len(batch) -> Seq(IsccMember)] :
              /\ f[0] = tail
              /\ \A n \in 1 .. Len(batch) :
                    f[n] = IF b \in buckets(batch[n].content_code) /\ batch[n] \notin ToSet(f[n - 1])
                           THEN Append(f[n - 1], batch[n]) ELSE f[n - 1]
              /\ Extended(b, tail, batch) = f[Len(batch)]
<1> DEFINE last == Len(batch)
           Lists == Seq(IsccMember)
           Plus(n, list) == IF b \in buckets(batch[n].content_code) /\ batch[n] \notin ToSet(list)
                            THEN Append(list, batch[n]) ELSE list
           step == [p \in (1 .. last) \X Lists |-> Plus(p[1], p[2])]
           P(f) == f = [n \in 0 .. Len(batch) |-> IF n = 0 THEN tail ELSE
                        IF b \in buckets(batch[n].content_code) /\ batch[n] \notin ToSet(f[n - 1])
                        THEN Append(f[n - 1], batch[n]) ELSE f[n - 1]]
           rec == CHOOSE z : P(z)
<1>1. last \in Nat /\ \A n \in 1 .. last : n \in 0 .. last /\ n - 1 \in 0 .. last /\ n # 0
  OBVIOUS
<1>2. \A n \in 1 .. last, list \in Lists : Plus(n, list) \in Lists
  <2>1. \A n \in 1 .. last : batch[n] \in IsccMember
    OBVIOUS
  <2> QED
    BY <2>1
<1>3. PICK f \in [0 .. last -> Lists] : f[0] = tail /\ \A n \in 1 .. last : f[n] = Plus(n, f[n - 1])
  <2>1. step \in Steps(last, Lists) /\ tail \in Lists
    <3> HIDE DEF Plus, Lists, last
    <3> QED
      BY <1>2 DEF Lists, Steps
  <2>2. PICK f : Solution(f, last, Lists, tail, step)
    <3> HIDE DEF Plus, Lists, last, step
    <3> QED
      BY <1>1, <2>1, Recursion
  <2>3. \A n \in 1 .. last : <<n, f[n - 1]>> \in (1 .. last) \X Lists
    <3> HIDE DEF Lists, last, step
    <3> QED
      BY <1>1, <2>2 DEF Solution
  <2> HIDE DEF Plus
  <2> QED
    BY <2>2, <2>3 DEF Solution
<1>4. P(f)
  <2>1. f = [n \in 0 .. last |-> f[n]]
    OBVIOUS
  <2>2. \A n \in 0 .. last : f[n] = IF n = 0 THEN tail ELSE Plus(n, f[n - 1])
    <3>1. \A n \in 0 .. last : n # 0 => n \in 1 .. last
      BY <1>1
    <3> HIDE DEF Plus, last, Lists, P, rec
    <3> QED
      BY <1>3, <3>1
  <2> QED
    BY <2>1, <2>2, Zenon
<1>5. P(rec)
  <2> HIDE DEF P
  <2> QED
    BY <1>4
<1>6. Extended(b, tail, batch) = rec[last]
  BY DEF Extended
<1>7. rec[0] = tail /\ \A n \in 1 .. last : rec[n] = Plus(n, rec[n - 1])
  <2>1. rec = [n \in 0 .. last |-> IF n = 0 THEN tail ELSE Plus(n, rec[n - 1])]
    <3> HIDE DEF rec
    <3> QED
      BY <1>5
  <2> HIDE DEF rec, P, Plus
  <2>2. 0 \in 0 .. last
    BY <1>1
  <2> HIDE DEF last
  <2> QED
    BY <1>1, <2>1, <2>2
<1>8. f[last] = rec[last]
  <2> HIDE DEF rec, Plus, last, P, step, Lists
  <2>1. SameWay(last, f, rec)
    BY <1>3, <1>7 DEF SameWay
  <2> QED
    BY <1>1, <2>1, OneSolution
<1> QED
  BY <1>3, <1>6, <1>8

(***************************************************************************)
(* Induction up to K, for a set.                                           *)
(***************************************************************************)
LEMMA UpTo ==
    ASSUME NEW K \in Nat, NEW T, 0 \in T, \A n \in 1 .. K : n - 1 \in T => n \in T
    PROVE  \A n \in 0 .. K : n \in T
<1> DEFINE Bad == {k \in 0 .. K : k \notin T}
<1>1. SUFFICES ASSUME Bad # {} PROVE FALSE
  OBVIOUS
<1>2. PICK k \in Bad : \A j \in Bad : k <= j
  <2>1. Bad \subseteq Nat
    OBVIOUS
  <2> HIDE DEF Bad
  <2> QED
    BY <1>1, <2>1, LeastMember
<1>3. k \in 1 .. K
  OBVIOUS
<1>4. k - 1 \in 0 .. K /\ k - 1 \notin Bad
  BY <1>2, <1>3
<1> QED
  BY <1>3, <1>4

(***************************************************************************)
(* What the members of an extended sequence are.                           *)
(***************************************************************************)
LEMMA AppendMembers ==
    ASSUME NEW S, NEW s \in Seq(S), NEW x \in S
    PROVE  ToSet(Append(s, x)) = ToSet(s) \union {x}
<1> DEFINE t == Append(s, x)
<1>1. t \in Seq(S) /\ Len(t) = Len(s) + 1 /\ t[Len(s) + 1] = x
      /\ \A i \in 1 .. Len(s) : t[i] = s[i]
  OBVIOUS
<1>2. DOMAIN t = 1 .. Len(s) + 1 /\ DOMAIN s = 1 .. Len(s) /\ Len(s) \in Nat
  BY <1>1
<1> HIDE DEF t
<1>3. \A y : (\E i \in 1 .. Len(s) + 1 : t[i] = y) <=> (\E i \in 1 .. Len(s) : s[i] = y) \/ y = x
  <2>1. \A i \in 1 .. Len(s) + 1 : i \in 1 .. Len(s) \/ i = Len(s) + 1
    BY <1>2
  <2>2. Len(s) + 1 \in 1 .. Len(s) + 1 /\ \A i \in 1 .. Len(s) : i \in 1 .. Len(s) + 1
    BY <1>2
  <2> QED
    BY <1>1, <2>1, <2>2
<1>4. ToSet(t) = {t[i] : i \in 1 .. Len(s) + 1} /\ ToSet(s) = {s[i] : i \in 1 .. Len(s)}
  BY <1>2 DEF ToSet
<1> QED
  BY <1>3, <1>4 DEF t

\* The members of a batch that belong in a bucket.
Mine(b, list) == {m \in ToSet(list) : b \in buckets(m.content_code)}

(***************************************************************************)
(* The extended tail holds the tail's members and the batch's that belong  *)
(* in the bucket.                                                          *)
(***************************************************************************)
LEMMA ExtendedHolds ==
    ASSUME NEW b, NEW tail \in Seq(IsccMember), NEW batch \in Seq(IsccMember)
    PROVE  /\ Extended(b, tail, batch) \in Seq(IsccMember)
           /\ ToSet(Extended(b, tail, batch)) = ToSet(tail) \union Mine(b, batch)
<1>1. PICK f \in [0 .. Len(batch) -> Seq(IsccMember)] :
              /\ f[0] = tail
              /\ \A n \in 1 .. Len(batch) :
                    f[n] = IF b \in buckets(batch[n].content_code) /\ batch[n] \notin ToSet(f[n - 1])
                           THEN Append(f[n - 1], batch[n]) ELSE f[n - 1]
              /\ Extended(b, tail, batch) = f[Len(batch)]
  BY ExtendedIs
<1>2. Len(batch) \in Nat /\ Len(batch) \in 0 .. Len(batch)
  OBVIOUS
<1> DEFINE First(n) == {batch[i] : i \in {j \in 1 .. n : b \in buckets(batch[j].content_code)}}
           T == {n \in 0 .. Len(batch) : ToSet(f[n]) = ToSet(tail) \union First(n)}
<1>3. 0 \in T
  <2>1. First(0) = {}
    OBVIOUS
  <2> QED
    BY <1>1, <1>2, <2>1
<1>4. ASSUME NEW n \in 1 .. Len(batch), n - 1 \in T PROVE n \in T
  <2>1. n \in 0 .. Len(batch) /\ n - 1 \in 0 .. Len(batch)
    BY <1>2
  <2>2. f[n - 1] \in Seq(IsccMember) /\ batch[n] \in IsccMember
    BY <1>1, <2>1
  <2>3. First(n) = First(n - 1) \union {m \in {batch[n]} : b \in buckets(m.content_code)}
    <3>1. 1 .. n = (1 .. n - 1) \union {n}
      BY <1>2
    <3> QED
      BY <3>1, Zenon
  <2>4. ToSet(f[n - 1]) = ToSet(tail) \union First(n - 1)
    BY <1>4
  <2>5. ToSet(Append(f[n - 1], batch[n])) = ToSet(f[n - 1]) \union {batch[n]}
    BY <2>2, AppendMembers
  <2> HIDE DEF First
  <2>6. ToSet(f[n]) = ToSet(tail) \union First(n)
    <3>1. CASE b \in buckets(batch[n].content_code) /\ batch[n] \notin ToSet(f[n - 1])
      <4>1. f[n] = Append(f[n - 1], batch[n])
        BY <1>1, <3>1
      <4> QED
        BY <4>1, <3>1, <2>3, <2>4, <2>5, Zenon
    <3>2. CASE ~(b \in buckets(batch[n].content_code) /\ batch[n] \notin ToSet(f[n - 1]))
      <4>1. f[n] = f[n - 1]
        BY <1>1, <3>2
      <4> QED
        BY <4>1, <3>2, <2>3, <2>4, Zenon
    <3> QED
      BY <3>1, <3>2
  <2> QED
    BY <2>1, <2>6
<1>5. Len(batch) \in T
  <2> HIDE DEF T
  <2> QED
    BY <1>2, <1>3, <1>4, UpTo
<1>6. First(Len(batch)) = Mine(b, batch)
  <2>1. DOMAIN batch = 1 .. Len(batch)
    OBVIOUS
  <2> QED
    BY <2>1, Zenon DEF Mine, ToSet
<1> HIDE DEF First
<1> QED
  BY <1>1, <1>2, <1>5, <1>6

-----------------------------------------------------------------------------
(***************************************************************************)
(* Counting the places of lists: one more list adds its length.            *)
(***************************************************************************)
LEMMA PlacesOfOne ==
    ASSUME NEW i, NEW n \in Nat
    PROVE  IsFiniteSet({i} \X (1 .. n)) /\ Cardinality({i} \X (1 .. n)) = n
<1> DEFINE f == [j \in 1 .. n |-> <<i, j>>]
<1>1. f \in Bijection(1 .. n, {i} \X (1 .. n))
  BY DEF Bijection, Injection, Surjection, IsInjective
<1>2. ExistsBijection(1 .. n, {i} \X (1 .. n))
  BY <1>1 DEF ExistsBijection
<1>3. IsFiniteSet(1 .. n)
  BY FS_Interval
<1> QED
  BY <1>2, <1>3, FS_Bijection, FS_CountingElements

(***************************************************************************)
(* Another list adds its length to the places.                             *)
(***************************************************************************)
LEMMA PlacesAppend ==
    ASSUME NEW lists \in Seq(Seq(IsccMember)), NEW s \in Seq(IsccMember),
           IsFiniteSet(Places(lists))
    PROVE  /\ IsFiniteSet(Places(Append(lists, s)))
           /\ Cardinality(Places(Append(lists, s))) = Cardinality(Places(lists)) + Len(s)
<1> DEFINE t == Append(lists, s)
           k == Len(lists) + 1
           new == {k} \X (1 .. Len(s))
<1>1. /\ DOMAIN t = 1 .. k /\ DOMAIN lists = 1 .. k - 1 /\ k \in Nat \ {0} /\ t[k] = s
      /\ \A i \in 1 .. k - 1 : t[i] = lists[i]
  OBVIOUS
<1>2. Len(s) \in Nat
  OBVIOUS
<1> HIDE DEF t, k
<1>3. Places(t) = Places(lists) \union new
  <2>1. 1 .. k = (1 .. k - 1) \union {k}
    BY <1>1
  <2>2. \A i \in 1 .. k - 1 : {i} \X (1 .. Len(t[i])) = {i} \X (1 .. Len(lists[i]))
    BY <1>1
  <2>3. \A p : p \in Places(t) <=> \E i \in 1 .. k : p \in {i} \X (1 .. Len(t[i]))
    BY <1>1, Zenon DEF Places
  <2>4. \A p : p \in Places(lists) <=> \E i \in 1 .. k - 1 : p \in {i} \X (1 .. Len(lists[i]))
    BY <1>1, Zenon DEF Places
  <2>5. {k} \X (1 .. Len(t[k])) = new
    BY <1>1
  <2>6. \A p : (\E i \in 1 .. k : p \in {i} \X (1 .. Len(t[i]))) <=>
               (\E i \in 1 .. k - 1 : p \in {i} \X (1 .. Len(t[i]))) \/ p \in {k} \X (1 .. Len(t[k]))
    BY <2>1, Zenon
  <2>7. \A p : (\E i \in 1 .. k - 1 : p \in {i} \X (1 .. Len(t[i]))) <=>
               (\E i \in 1 .. k - 1 : p \in {i} \X (1 .. Len(lists[i])))
    BY <2>2, Zenon
  <2> HIDE DEF new
  <2> QED
    BY <2>3, <2>4, <2>5, <2>6, <2>7, Zenon
<1>4. Places(lists) \intersect new = {}
  <2>1. \A i \in 1 .. k - 1 : i # k
    BY <1>1
  <2> QED
    BY <1>1, <2>1 DEF Places
<1>5. IsFiniteSet(new) /\ Cardinality(new) = Len(s)
  BY <1>2, PlacesOfOne
<1> HIDE DEF new
<1>6. Cardinality(Places(lists)) \in Nat
  BY FS_CardinalityType
<1>7. /\ IsFiniteSet(Places(lists) \union new)
      /\ Cardinality(Places(lists) \union new) =
           Cardinality(Places(lists)) + Cardinality(new) - Cardinality(Places(lists) \intersect new)
  BY <1>5, FS_Union
<1>8. Cardinality(Places(lists) \intersect new) = 0
  BY <1>4, FS_EmptySet
<1> QED
  BY <1>2, <1>3, <1>5, <1>6, <1>7, <1>8 DEF t

-----------------------------------------------------------------------------
(***************************************************************************)
(* Cutting a tail into segments.                                           *)
(***************************************************************************)
Pieces(n) == (n + SEGMENT_MAX_MEMBERS - 1) \div SEGMENT_MAX_MEMBERS

End(i, n) == IF i * SEGMENT_MAX_MEMBERS < n THEN i * SEGMENT_MAX_MEMBERS ELSE n

(***************************************************************************)
(* There are enough pieces for n members and none is empty.                *)
(***************************************************************************)
LEMMA PiecesCover ==
    ASSUME NEW n \in Nat
    PROVE  /\ Pieces(n) \in Nat
           /\ n <= Pieces(n) * SEGMENT_MAX_MEMBERS
           /\ Pieces(n) * SEGMENT_MAX_MEMBERS < n + SEGMENT_MAX_MEMBERS
<1> DEFINE M == SEGMENT_MAX_MEMBERS
<1>1. M \in Nat \ {0}
  BY IsccAssumption
<1> HIDE DEF M
<1>2. \A a \in Nat : a \div M \in Nat /\ (a \div M) * M <= a /\ a < (a \div M) * M + M
  BY <1>1
<1> QED
  BY <1>1, <1>2 DEF Pieces, M

(***************************************************************************)
(* The multiples of SEGMENT_MAX_MEMBERS, for the arithmetic of the cuts.   *)
(***************************************************************************)
LEMMA Multiples ==
    ASSUME NEW i \in Nat, NEW j \in Nat, i <= j
    PROVE  /\ i * SEGMENT_MAX_MEMBERS \in Nat
           /\ i * SEGMENT_MAX_MEMBERS <= j * SEGMENT_MAX_MEMBERS
           /\ (i + 1) * SEGMENT_MAX_MEMBERS = i * SEGMENT_MAX_MEMBERS + SEGMENT_MAX_MEMBERS
<1> DEFINE M == SEGMENT_MAX_MEMBERS
<1>1. M \in Nat \ {0}
  BY IsccAssumption
<1> HIDE DEF M
<1>2. i * M \in Nat /\ (j - i) * M \in Nat /\ j * M = i * M + (j - i) * M /\ (i + 1) * M = i * M + M
  BY <1>1
<1> QED
  BY <1>2 DEF M

(***************************************************************************)
(* The i-th piece of n members begins after (i - 1) * SEGMENT_MAX_MEMBERS  *)
(* of them, is not empty, and is full unless it is the last.               *)
(***************************************************************************)
LEMMA PieceBounds ==
    ASSUME NEW n \in Nat, NEW i \in 1 .. Pieces(n)
    PROVE  /\ (i - 1) * SEGMENT_MAX_MEMBERS \in Nat /\ End(i, n) \in Nat
           /\ (i - 1) * SEGMENT_MAX_MEMBERS < End(i, n) /\ End(i, n) <= n
           /\ i # Pieces(n) => End(i, n) = (i - 1) * SEGMENT_MAX_MEMBERS + SEGMENT_MAX_MEMBERS
           /\ i = Pieces(n) => End(i, n) = n
           /\ End(i - 1, n) = (i - 1) * SEGMENT_MAX_MEMBERS
           /\ End(i, n) <= (i - 1) * SEGMENT_MAX_MEMBERS + SEGMENT_MAX_MEMBERS
<1> DEFINE M == SEGMENT_MAX_MEMBERS
           low == (i - 1) * M
           high == Pieces(n) * M
<1>1. M \in Nat \ {0}
  BY IsccAssumption
<1>2. Pieces(n) \in Nat /\ n <= high /\ high < n + M
  BY PiecesCover
<1>3. i - 1 \in Nat /\ i \in Nat /\ Pieces(n) \in Nat /\ Pieces(n) - 1 \in Nat /\ i - 1 <= Pieces(n) - 1 /\ i <= Pieces(n)
      /\ (i - 1) + 1 = i /\ (Pieces(n) - 1) + 1 = Pieces(n)
  BY <1>2
<1>4. low \in Nat /\ i * M = low + M
  BY <1>3, Multiples
<1>5. i * M <= high /\ i * M \in Nat
  BY <1>3, Multiples
<1>6. high \in Nat /\ (Pieces(n) - 1) * M \in Nat /\ high = (Pieces(n) - 1) * M + M /\ low <= (Pieces(n) - 1) * M
  BY <1>3, Multiples
<1>7. i # Pieces(n) => i * M <= (Pieces(n) - 1) * M
  <2>1. i # Pieces(n) => i <= Pieces(n) - 1
    BY <1>3
  <2> QED
    BY <1>3, <2>1, Multiples
<1>8. End(i, n) = (IF i * M < n THEN i * M ELSE n) /\ End(i - 1, n) = (IF low < n THEN low ELSE n)
  BY DEF End
<1>9. i = Pieces(n) => i * M = high
  OBVIOUS
<1>10. PICK mm, ll, hh, ii, pp : mm = M /\ ll = low /\ hh = high /\ ii = i * M /\ pp = (Pieces(n) - 1) * M
  OBVIOUS
<1> HIDE DEF M, low, high
<1>11. low < n
  BY <1>1, <1>2, <1>4, <1>6, <1>10
<1>12. i # Pieces(n) => i * M < n
  BY <1>1, <1>2, <1>5, <1>6, <1>7, <1>10
<1>13. i = Pieces(n) => ~(i * M < n)
  BY <1>1, <1>2, <1>6, <1>9, <1>10
<1>14. /\ low \in Nat /\ End(i, n) \in Nat
       /\ low < End(i, n) /\ End(i, n) <= n
       /\ i # Pieces(n) => End(i, n) = low + M
       /\ i = Pieces(n) => End(i, n) = n
       /\ End(i - 1, n) = low
       /\ End(i, n) <= low + M
  BY <1>1, <1>4, <1>8, <1>11, <1>12, <1>13, <1>10
<1> QED
  BY <1>14 DEF low, M

(***************************************************************************)
(* The pieces of a tail: every one but the last is full, and together they *)
(* hold the tail's members.                                                *)
(***************************************************************************)
LEMMA SegmentedIs ==
    ASSUME NEW tail \in Seq(IsccMember)
    PROVE  /\ Segmented(tail) \in Seq(Seq(IsccMember))
           /\ Len(Segmented(tail)) = Pieces(Len(tail))
           /\ \A i \in 1 .. Pieces(Len(tail)) :
                 /\ Len(Segmented(tail)[i]) = End(i, Len(tail)) - (i - 1) * SEGMENT_MAX_MEMBERS
                 /\ \A j \in 1 .. Len(Segmented(tail)[i]) :
                       Segmented(tail)[i][j] = tail[(i - 1) * SEGMENT_MAX_MEMBERS + j]
<1> DEFINE n == Len(tail)
           M == SEGMENT_MAX_MEMBERS
           piece(i) == SubSeq(tail, (i - 1) * M + 1, End(i, n))
<1>1. n \in Nat /\ Pieces(n) \in Nat
  BY PiecesCover
<1>2. Segmented(tail) = [i \in 1 .. Pieces(n) |-> piece(i)]
  BY DEF Segmented, Pieces, End
<1>3. ASSUME NEW i \in 1 .. Pieces(n)
      PROVE  /\ piece(i) \in Seq(IsccMember)
             /\ Len(piece(i)) = End(i, n) - (i - 1) * M
             /\ \A j \in 1 .. Len(piece(i)) : piece(i)[j] = tail[(i - 1) * M + j]
  <2>1. (i - 1) * M \in Nat /\ End(i, n) \in Nat /\ (i - 1) * M < End(i, n) /\ End(i, n) <= n
    BY <1>1, PieceBounds
  <2>2. PICK lo, hi : lo = (i - 1) * M /\ hi = End(i, n)
    OBVIOUS
  <2>3. lo \in Nat /\ hi \in Nat /\ lo < hi /\ hi <= Len(tail)
    BY <2>1, <2>2
  <2>4. /\ SubSeq(tail, lo + 1, hi) \in Seq(IsccMember)
        /\ Len(SubSeq(tail, lo + 1, hi)) = hi - lo
        /\ \A j \in 1 .. hi - lo : SubSeq(tail, lo + 1, hi)[j] = tail[lo + j]
    <3>1. lo + 1 \in 1 .. Len(tail) + 1 /\ hi \in lo + 1 - 1 .. Len(tail)
      BY <2>3
    <3>2. \A j \in lo + 1 .. hi : tail[j] \in IsccMember
      BY <2>3
    <3> QED
      BY <2>3, <3>1, <3>2
  <2> QED
    BY <2>2, <2>3, <2>4
<1> HIDE DEF piece, n
<1>4. Segmented(tail) \in Seq(Seq(IsccMember)) /\ Len(Segmented(tail)) = Pieces(n)
  <2>1. PICK s, p, T : s = Segmented(tail) /\ p = Pieces(n) /\ T = Seq(IsccMember)
    OBVIOUS
  <2>2. p \in Nat /\ s \in [1 .. p -> T]
    BY <1>1, <1>2, <1>3, <2>1
  <2>3. s \in Seq(T) /\ Len(s) = p
    BY <2>2
  <2> QED
    BY <2>1, <2>3
<1>5. \A i \in 1 .. Pieces(n) : Segmented(tail)[i] = piece(i)
  BY <1>2
<1> QED
  BY <1>3, <1>4, <1>5 DEF n

\* The members of all lists.
AllIn(lists) == UNION {ToSet(s) : s \in ToSet(lists)}

(***************************************************************************)
(* A member of all lists is at a place of one.                             *)
(***************************************************************************)
LEMMA InSome ==
    ASSUME NEW lists, NEW m
    PROVE  m \in AllIn(lists) <=> \E i \in DOMAIN lists : \E j \in DOMAIN lists[i] : m = lists[i][j]
<1>1. m \in AllIn(lists) <=> \E s \in ToSet(lists) : m \in ToSet(s)
  BY Zenon DEF AllIn
<1>2. (\E s \in ToSet(lists) : m \in ToSet(s)) <=> \E i \in DOMAIN lists : m \in ToSet(lists[i])
  BY Zenon DEF ToSet
<1>3. \A s : m \in ToSet(s) <=> \E j \in DOMAIN s : m = s[j]
  BY Zenon DEF ToSet
<1> QED
  BY <1>1, <1>2, <1>3, Zenon

(***************************************************************************)
(* Nothing of a tail is lost or made up by cutting it.                     *)
(***************************************************************************)
LEMMA SegmentedHolds ==
    ASSUME NEW tail \in Seq(IsccMember)
    PROVE  AllIn(Segmented(tail)) = ToSet(tail)
<1> DEFINE n == Len(tail)
           M == SEGMENT_MAX_MEMBERS
           segs == Segmented(tail)
<1>1. n \in Nat /\ Pieces(n) \in Nat /\ n <= Pieces(n) * M /\ M \in Nat \ {0} /\ DOMAIN tail = 1 .. n
  BY PiecesCover, IsccAssumption
<1>2. /\ DOMAIN segs = 1 .. Pieces(n)
      /\ \A i \in 1 .. Pieces(n) :
           /\ Len(segs[i]) = End(i, n) - (i - 1) * M
           /\ DOMAIN segs[i] = 1 .. Len(segs[i])
           /\ \A j \in 1 .. Len(segs[i]) : segs[i][j] = tail[(i - 1) * M + j]
  <2>1. segs \in Seq(Seq(IsccMember)) /\ Len(segs) = Pieces(n)
    BY SegmentedIs
  <2>2. \A i \in 1 .. Pieces(n) : segs[i] \in Seq(IsccMember)
    BY <2>1
  <2>3. \A i \in 1 .. Pieces(n) : DOMAIN segs[i] = 1 .. Len(segs[i])
    BY <2>2
  <2>4. DOMAIN segs = 1 .. Pieces(n)
    BY <2>1
  <2>5. \A i \in 1 .. Pieces(n) :
           /\ Len(segs[i]) = End(i, n) - (i - 1) * M
           /\ \A j \in 1 .. Len(segs[i]) : segs[i][j] = tail[(i - 1) * M + j]
    BY SegmentedIs, Zenon
  <2> HIDE DEF segs, n, M
  <2> QED
    BY <2>3, <2>4, <2>5, Zenon
<1> HIDE DEF segs, n
<1>3. \A m : m \in AllIn(segs) <=>
             \E i \in 1 .. Pieces(n) : \E j \in 1 .. Len(segs[i]) : m = segs[i][j]
  <2>1. \A m : m \in AllIn(segs) <=> \E i \in DOMAIN segs : \E j \in DOMAIN segs[i] : m = segs[i][j]
    BY InSome
  <2>2. DOMAIN segs = 1 .. Pieces(n)
    BY <1>2
  <2>3. \A i \in 1 .. Pieces(n) : DOMAIN segs[i] = 1 .. Len(segs[i])
    BY <1>2
  <2> QED
    BY <2>1, <2>2, <2>3
<1>4. \A m : m \in ToSet(tail) <=> \E p \in 1 .. n : m = tail[p]
  BY <1>1, Zenon DEF ToSet
<1>5. ASSUME NEW i \in 1 .. Pieces(n), NEW j \in 1 .. Len(segs[i])
      PROVE  \E p \in 1 .. n : segs[i][j] = tail[p]
  <2>1. (i - 1) * M \in Nat /\ End(i, n) \in Nat /\ End(i, n) <= n
    BY <1>1, PieceBounds
  <2>2. j \in 1 .. End(i, n) - (i - 1) * M
    BY <1>2
  <2>3. (i - 1) * M + j \in 1 .. n
    <3>1. PICK lo, hi : lo = (i - 1) * M /\ hi = End(i, n)
      OBVIOUS
    <3> QED
      BY <1>1, <2>1, <2>2, <3>1
  <2> QED
    BY <1>2, <2>3
<1>6. ASSUME NEW p \in 1 .. n
      PROVE  \E i \in 1 .. Pieces(n) : \E j \in 1 .. Len(segs[i]) : tail[p] = segs[i][j]
  <2> DEFINE Far == {k \in Nat : p <= k * M}
  <2>1. Pieces(n) \in Far
    <3>1. Pieces(n) * M \in Nat
      BY <1>1, Multiples
    <3> QED
      BY <1>1, <3>1
  <2>2. PICK i \in Far : \A k \in Far : i <= k
    <3>1. Far \subseteq Nat /\ Far # {}
      BY <2>1
    <3> HIDE DEF Far
    <3> QED
      BY <3>1, LeastMember
  <2>3. i \in Nat /\ p <= i * M /\ i <= Pieces(n)
    BY <2>1, <2>2
  <2>4. i # 0
    BY <1>1, <2>3
  <2>5. i \in 1 .. Pieces(n) /\ i - 1 \in Nat /\ i - 1 \notin Far
    BY <1>1, <2>2, <2>3, <2>4
  <2>6. ~(p <= (i - 1) * M)
    BY <2>5
  <2>7. (i - 1) * M \in Nat /\ End(i, n) \in Nat
    BY <1>1, <2>5, PieceBounds
  <2>8. p <= End(i, n)
    BY <1>1, <2>3 DEF End
  <2>9. PICK lo, hi : lo = (i - 1) * M /\ hi = End(i, n)
    OBVIOUS
  <2>10. p - lo \in 1 .. hi - lo /\ lo + (p - lo) = p
    BY <1>1, <2>6, <2>7, <2>8, <2>9
  <2>11. p - lo \in 1 .. Len(segs[i]) /\ segs[i][p - lo] = tail[lo + (p - lo)]
    BY <1>2, <2>5, <2>9, <2>10
  <2> QED
    BY <2>5, <2>10, <2>11
<1> QED
  BY <1>3, <1>4, <1>5, <1>6 DEF segs

(***************************************************************************)
(* The members of two sequences joined are those of both.                  *)
(***************************************************************************)
LEMMA JoinedMembers ==
    ASSUME NEW S, NEW s \in Seq(S), NEW t \in Seq(S)
    PROVE  ToSet(s \o t) = ToSet(s) \union ToSet(t)
<1> DEFINE k == Len(s)
           n == Len(t)
           u == s \o t
<1>1. /\ k \in Nat /\ n \in Nat /\ DOMAIN s = 1 .. k /\ DOMAIN t = 1 .. n /\ DOMAIN u = 1 .. k + n
      /\ \A i \in 1 .. k : u[i] = s[i]
      /\ \A i \in k + 1 .. k + n : u[i] = t[i - k]
  OBVIOUS
<1> HIDE DEF k, n, u
<1>2. \A i \in 1 .. k + n : i \in 1 .. k \/ (i \in k + 1 .. k + n /\ i - k \in 1 .. n)
  BY <1>1
<1>3. \A i \in 1 .. n : i + k \in k + 1 .. k + n /\ i + k \in 1 .. k + n /\ (i + k) - k = i
  BY <1>1
<1>4. \A i \in 1 .. k : i \in 1 .. k + n
  BY <1>1
<1>5. ASSUME NEW x PROVE (\E i \in 1 .. k + n : u[i] = x) <=>
                         (\E i \in 1 .. k : s[i] = x) \/ (\E i \in 1 .. n : t[i] = x)
  <2>1. ASSUME NEW i \in 1 .. n PROVE u[i + k] = t[i]
    BY <1>1, <1>3
  <2> QED
    BY <1>1, <1>2, <1>3, <1>4, <2>1
<1>6. ToSet(u) = {u[i] : i \in 1 .. k + n} /\ ToSet(s) = {s[i] : i \in 1 .. k} /\ ToSet(t) = {t[i] : i \in 1 .. n}
  BY <1>1 DEF ToSet
<1> QED
  BY <1>5, <1>6 DEF u

(***************************************************************************)
(* The pieces of a tail add its length to the places.                      *)
(***************************************************************************)
LEMMA PiecesCounted ==
    ASSUME NEW kept \in Seq(Seq(IsccMember)), NEW tail \in Seq(IsccMember),
           IsFiniteSet(Places(kept))
    PROVE  /\ IsFiniteSet(Places(kept \o Segmented(tail)))
           /\ Cardinality(Places(kept \o Segmented(tail))) = Cardinality(Places(kept)) + Len(tail)
<1> DEFINE n == Len(tail)
           segs == Segmented(tail)
           upto(k) == kept \o SubSeq(segs, 1, k)
           T == {k \in 0 .. Pieces(n) :
                    /\ IsFiniteSet(Places(upto(k)))
                    /\ Cardinality(Places(upto(k))) = Cardinality(Places(kept)) + End(k, n)}
<1>1. n \in Nat /\ Pieces(n) \in Nat /\ n <= Pieces(n) * SEGMENT_MAX_MEMBERS
  BY PiecesCover
<1>2. /\ segs \in Seq(Seq(IsccMember)) /\ Len(segs) = Pieces(n)
      /\ \A i \in 1 .. Pieces(n) : Len(segs[i]) = End(i, n) - (i - 1) * SEGMENT_MAX_MEMBERS
  BY SegmentedIs, Zenon
<1>3. SEGMENT_MAX_MEMBERS \in Nat
  BY IsccAssumption
<1>4. Cardinality(Places(kept)) \in Nat
  BY FS_CardinalityType
<1> HIDE DEF segs, n
<1>5. End(0, n) = 0
  BY <1>1, <1>3 DEF End
<1>6. upto(0) = kept /\ upto(Pieces(n)) = kept \o segs
  <2>1. SubSeq(segs, 1, 0) = <<>> /\ SubSeq(segs, 1, Pieces(n)) = segs
    BY <1>1, <1>2
  <2>2. kept \o <<>> = kept
    BY ConcatEmptySeq
  <2> QED
    BY <2>1, <2>2, Zenon
<1>7. 0 \in T
  <2> HIDE DEF upto
  <2>1. 0 \in 0 .. Pieces(n) /\ Cardinality(Places(kept)) = Cardinality(Places(kept)) + 0
    BY <1>1, <1>4
  <2> QED
    BY <1>5, <1>6, <2>1
<1>8. ASSUME NEW k \in 1 .. Pieces(n), k - 1 \in T PROVE k \in T
  <2>1. k \in 0 .. Pieces(n) /\ k - 1 \in 0 .. Pieces(n) /\ k \in 1 .. Len(segs)
    BY <1>1, <1>2
  <2>2. segs[k] \in Seq(IsccMember) /\ SubSeq(segs, 1, k - 1) \in Seq(Seq(IsccMember))
        /\ SubSeq(segs, 1, k) = Append(SubSeq(segs, 1, k - 1), segs[k])
    BY <1>1, <1>2, <2>1
  <2>3. upto(k - 1) \in Seq(Seq(IsccMember)) /\ upto(k) = Append(upto(k - 1), segs[k])
    BY <2>2
  <2>4. IsFiniteSet(Places(upto(k - 1)))
        /\ Cardinality(Places(upto(k - 1))) = Cardinality(Places(kept)) + End(k - 1, n)
    BY <1>8
  <2> HIDE DEF upto
  <2>5. IsFiniteSet(Places(upto(k))) /\ Cardinality(Places(upto(k))) = Cardinality(Places(upto(k - 1))) + Len(segs[k])
    BY <2>2, <2>3, <2>4, PlacesAppend
  <2>6. /\ End(k - 1, n) = (k - 1) * SEGMENT_MAX_MEMBERS /\ End(k, n) \in Nat
        /\ (k - 1) * SEGMENT_MAX_MEMBERS \in Nat
    BY <1>1, PieceBounds
  <2>7. Len(segs[k]) = End(k, n) - (k - 1) * SEGMENT_MAX_MEMBERS
    BY <1>2
  <2>8. Cardinality(Places(upto(k))) = Cardinality(Places(kept)) + End(k, n)
    <3>1. PICK lo, hi, c : lo = (k - 1) * SEGMENT_MAX_MEMBERS /\ hi = End(k, n) /\ c = Cardinality(Places(kept))
      OBVIOUS
    <3> QED
      BY <1>4, <2>4, <2>5, <2>6, <2>7, <3>1
  <2> QED
    BY <2>1, <2>5, <2>8
<1>9. Pieces(n) \in T
  <2>1. Pieces(n) \in 0 .. Pieces(n)
    BY <1>1
  <2> HIDE DEF T
  <2> QED
    BY <1>1, <1>7, <1>8, <2>1, UpTo
<1>10. End(Pieces(n), n) = n
  <2>1. CASE Pieces(n) = 0
    <3>1. n = 0
      BY <1>1, <1>3, <2>1
    <3> QED
      BY <1>5, <2>1, <3>1
  <2>2. CASE Pieces(n) # 0
    <3>1. Pieces(n) \in 1 .. Pieces(n)
      BY <1>1, <2>2
    <3> QED
      BY <1>1, <3>1, PieceBounds
  <2> QED
    BY <2>1, <2>2
<1> HIDE DEF upto
<1> QED
  BY <1>6, <1>9, <1>10 DEF n, segs

-----------------------------------------------------------------------------
(***************************************************************************)
(* A bucket's manifest as it should be: typed, counted, every segment but  *)
(* the last full.                                                          *)
(***************************************************************************)
Manifest == [count : Nat, segments : Seq(Seq(IsccMember))]

Tidy(m) ==
    /\ m \in Manifest
    /\ IsFiniteSet(Places(m.segments)) /\ m.count = Cardinality(Places(m.segments))
    /\ \A i \in 1 .. Len(m.segments) - 1 : Len(m.segments[i]) >= SEGMENT_MAX_MEMBERS

(***************************************************************************)
(* A sequence that is not empty, taken apart at its last member.           *)
(***************************************************************************)
LEMMA FrontAndLast ==
    ASSUME NEW S, NEW s \in Seq(S), s # <<>>
    PROVE  /\ Len(s) \in Nat \ {0} /\ Front(s) \in Seq(S) /\ Len(Front(s)) = Len(s) - 1
           /\ Last(s) \in S /\ Last(s) = s[Len(s)]
           /\ \A i \in 1 .. Len(s) - 1 : Front(s)[i] = s[i]
           /\ s = Append(Front(s), Last(s))
<1>1. Len(s) \in Nat \ {0}
  OBVIOUS
<1>2. Len(s) \in 1 .. Len(s) /\ \A i \in 1 .. Len(s) - 1 : i \in 1 .. Len(s)
  BY <1>1
<1>3. Last(s) = s[Len(s)] /\ Last(s) \in S
  BY <1>2 DEF Last
<1>4. PICK n : n = Len(s) - 1
  OBVIOUS
<1>5. n \in Nat /\ Len(s) = n + 1
  BY <1>1, <1>4
<1>6. PICK k : k = SubSeq(s, 1, n)
  OBVIOUS
<1>7. k \in Seq(S) /\ Len(k) = n /\ \A i \in 1 .. n : k[i] = s[i]
  BY <1>5, <1>6
<1>8. k = Front(s)
  BY <1>4, <1>6 DEF Front
<1>9. s = Append(k, Last(s))
  <2>1. Append(k, Last(s)) \in Seq(S) /\ Len(Append(k, Last(s))) = Len(s)
    BY <1>3, <1>5, <1>7
  <2>2. ASSUME NEW i \in 1 .. Len(s) PROVE s[i] = Append(k, Last(s))[i]
    <3>1. CASE i = Len(s)
      BY <1>3, <1>5, <1>7, <3>1
    <3>2. CASE i # Len(s)
      <4>1. i \in 1 .. n
        BY <1>5, <3>2
      <4> QED
        BY <1>3, <1>7, <4>1
    <3> QED
      BY <3>1, <3>2
  <2> QED
    BY <2>1, <2>2, SeqEqual
<1> QED
  BY <1>1, <1>3, <1>4, <1>7, <1>8, <1>9

(***************************************************************************)
(* What is left of a bucket when its open segment is taken up: full        *)
(* segments, in their places, with what was taken up making up the rest.   *)
(***************************************************************************)
LEMMA KeptIs ==
    ASSUME NEW b, Tidy(load_bucket_manifest(b))
    PROVE  /\ Kept(b) \in Seq(Seq(IsccMember)) /\ Popped(b) \in Seq(IsccMember)
           /\ \A i \in 1 .. Len(Kept(b)) : Len(Kept(b)[i]) >= SEGMENT_MAX_MEMBERS
           /\ StillThere(load_bucket_manifest(b).segments, Kept(b))
           /\ ToSet(Kept(b)) \subseteq ToSet(load_bucket_manifest(b).segments)
           /\ IsFiniteSet(Places(Kept(b)))
           /\ load_bucket_manifest(b).count = Cardinality(Places(Kept(b))) + Len(Popped(b))
           /\ AllIn(load_bucket_manifest(b).segments) = AllIn(Kept(b)) \union ToSet(Popped(b))
<1>1. PICK m : m = load_bucket_manifest(b)
  OBVIOUS
<1>2. PICK o \in Seq(Seq(IsccMember)) : o = m.segments
  BY <1>1 DEF Tidy, Manifest
<1>3. /\ IsFiniteSet(Places(o)) /\ m.count = Cardinality(Places(o))
      /\ \A i \in 1 .. Len(o) - 1 : Len(o[i]) >= SEGMENT_MAX_MEMBERS
  BY <1>1, <1>2 DEF Tidy
<1>4. SEGMENT_MAX_MEMBERS \in Nat \ {0}
  BY IsccAssumption
<1>5. Open(b) <=> o # <<>> /\ Len(Last(o)) < SEGMENT_MAX_MEMBERS
  BY <1>1, <1>2 DEF Open
<1>6. CASE Open(b)
  <2> DEFINE k == Front(o)
             p == Last(o)
  <2>1. Kept(b) = k /\ Popped(b) = p
    BY <1>1, <1>2, <1>6 DEF Kept, Popped
  <2>2. o # <<>> /\ Len(p) < SEGMENT_MAX_MEMBERS
    BY <1>5, <1>6
  <2>3. /\ Len(o) \in Nat \ {0} /\ k \in Seq(Seq(IsccMember)) /\ Len(k) = Len(o) - 1
        /\ p \in Seq(IsccMember) /\ p = o[Len(o)] /\ \A i \in 1 .. Len(o) - 1 : k[i] = o[i]
        /\ o = Append(k, p)
    BY <2>2, FrontAndLast
  <2> HIDE DEF k, p
  <2>5. \A i \in 1 .. Len(k) : Len(k[i]) >= SEGMENT_MAX_MEMBERS
    BY <1>3, <2>3
  <2>6. StillThere(o, k)
    <3>1. ASSUME NEW i \in DOMAIN o, Len(o[i]) >= SEGMENT_MAX_MEMBERS
          PROVE  i \in DOMAIN k /\ k[i] = o[i]
      <4>1. i # Len(o)
        BY <2>2, <2>3, <3>1, <1>4
      <4>2. i \in 1 .. Len(o) - 1
        BY <2>3, <4>1
      <4>3. DOMAIN k = 1 .. Len(o) - 1
        BY <2>3
      <4> QED
        BY <2>3, <4>2, <4>3
    <3> QED
      BY <3>1 DEF StillThere
  <2>7. ToSet(o) = ToSet(k) \union {p}
    BY <2>3, AppendMembers
  <2>8. AllIn(o) = AllIn(k) \union ToSet(p)
    BY <2>7, Zenon DEF AllIn
  <2>9. IsFiniteSet(Places(k))
    <3>1. Places(k) \subseteq Places(o)
      <4>1. DOMAIN k \subseteq DOMAIN o /\ \A i \in DOMAIN k : k[i] = o[i]
        <5>1. DOMAIN k = 1 .. Len(o) - 1 /\ DOMAIN o = 1 .. Len(o) /\ Len(o) \in Nat
          BY <2>3
        <5> QED
          BY <2>3, <5>1
      <4> QED
        BY <4>1, Zenon DEF Places
    <3> QED
      BY <1>3, <3>1, FS_Subset
  <2>10. m.count = Cardinality(Places(k)) + Len(p)
    BY <1>3, <2>3, <2>9, PlacesAppend
  <2> QED
    BY <1>1, <1>2, <2>1, <2>3, <2>5, <2>6, <2>7, <2>8, <2>9, <2>10
<1>7. CASE ~Open(b)
  <2>1. Kept(b) = o /\ Popped(b) = <<>>
    BY <1>1, <1>2, <1>7 DEF Kept, Popped
  <2>2. \A i \in 1 .. Len(o) : Len(o[i]) >= SEGMENT_MAX_MEMBERS
    <3>1. ASSUME NEW i \in 1 .. Len(o) PROVE Len(o[i]) >= SEGMENT_MAX_MEMBERS
      <4>1. CASE i = Len(o)
        <5>1. o # <<>> /\ o[i] \in Seq(IsccMember) /\ Len(o[i]) \in Nat
          OBVIOUS
        <5> QED
          BY <1>4, <1>5, <1>7, <4>1, <5>1 DEF Last
      <4>2. CASE i # Len(o)
        BY <1>3, <4>2
      <4> QED
        BY <4>1, <4>2
    <3> QED
      BY <3>1
  <2>3. ToSet(<<>>) = {} /\ Len(<<>>) = 0
    BY DEF ToSet
  <2>4. StillThere(o, o)
    BY DEF StillThere
  <2>5. Cardinality(Places(o)) \in Nat
    BY <1>3, FS_CardinalityType
  <2>6. m.count = Cardinality(Places(o)) + Len(<<>>)
    BY <1>3, <2>3, <2>5
  <2>7. AllIn(o) = AllIn(o) \union ToSet(<<>>)
    BY <2>3
  <2>8. <<>> \in Seq(IsccMember)
    OBVIOUS
  <2> QED
    BY <1>1, <1>2, <1>3, <2>1, <2>2, <2>4, <2>6, <2>7, <2>8
<1> QED
  BY <1>6, <1>7

(***************************************************************************)
(* What insert_batch makes of a bucket it touches: a tidy manifest with    *)
(* the old members and the batch's, the full segments untouched.           *)
(***************************************************************************)
LEMMA NewManifestIs ==
    ASSUME NEW b, NEW batch \in Seq(IsccMember), Tidy(load_bucket_manifest(b))
    PROVE  /\ Tidy(NewManifest(b, batch))
           /\ AllIn(NewManifest(b, batch).segments) =
                AllIn(load_bucket_manifest(b).segments) \union Mine(b, batch)
           /\ StillThere(load_bucket_manifest(b).segments, NewManifest(b, batch).segments)
           /\ ToSet(NewManifest(b, batch).segments) \subseteq
                ToSet(load_bucket_manifest(b).segments) \union ToSet(Segmented(NewTail(b, batch)))
<1> DEFINE tail == NewTail(b, batch)
           segs == Segmented(tail)
           k    == Kept(b)
           new  == NewManifest(b, batch)
<1>1. /\ k \in Seq(Seq(IsccMember)) /\ Popped(b) \in Seq(IsccMember)
      /\ \A i \in 1 .. Len(k) : Len(k[i]) >= SEGMENT_MAX_MEMBERS
      /\ StillThere(load_bucket_manifest(b).segments, k)
      /\ ToSet(k) \subseteq ToSet(load_bucket_manifest(b).segments)
      /\ IsFiniteSet(Places(k))
      /\ load_bucket_manifest(b).count = Cardinality(Places(k)) + Len(Popped(b))
      /\ AllIn(load_bucket_manifest(b).segments) = AllIn(k) \union ToSet(Popped(b))
  BY KeptIs
<1>2. tail \in Seq(IsccMember) /\ ToSet(tail) = ToSet(Popped(b)) \union Mine(b, batch)
  BY <1>1, ExtendedHolds DEF NewTail
<1>3. /\ segs \in Seq(Seq(IsccMember)) /\ Len(segs) = Pieces(Len(tail))
      /\ \A i \in 1 .. Len(segs) : Len(segs[i]) = End(i, Len(tail)) - (i - 1) * SEGMENT_MAX_MEMBERS
  <2> HIDE DEF tail
  <2> QED
    BY <1>2, SegmentedIs
<1>4. AllIn(segs) = ToSet(tail)
  <2> HIDE DEF tail
  <2> QED
    BY <1>2, SegmentedHolds
<1>5. /\ IsFiniteSet(Places(k \o segs))
      /\ Cardinality(Places(k \o segs)) = Cardinality(Places(k)) + Len(tail)
  <2> HIDE DEF tail, k
  <2> QED
    BY <1>1, <1>2, PiecesCounted
<1>6. new.segments = k \o segs /\ new = [count |-> new.count, segments |-> k \o segs]
      /\ new.count = load_bucket_manifest(b).count - Len(Popped(b)) + Len(tail)
  BY DEF NewManifest
<1>7. Len(tail) \in Nat /\ Len(Popped(b)) \in Nat /\ Cardinality(Places(k)) \in Nat
  <2> HIDE DEF tail
  <2> QED
    BY <1>1, <1>2, FS_CardinalityType
<1> HIDE DEF tail, segs, k, new
<1>8. new.count = Cardinality(Places(k \o segs)) /\ new.count \in Nat
  BY <1>1, <1>5, <1>6, <1>7
<1>9. /\ k \o segs \in Seq(Seq(IsccMember)) /\ Len(k \o segs) = Len(k) + Len(segs)
      /\ Len(k) \in Nat /\ Len(segs) \in Nat
      /\ \A i \in 1 .. Len(k) : (k \o segs)[i] = k[i]
      /\ \A i \in Len(k) + 1 .. Len(k) + Len(segs) : (k \o segs)[i] = segs[i - Len(k)]
  <2>1. k \in Seq(Seq(IsccMember)) /\ segs \in Seq(Seq(IsccMember))
    BY <1>1, <1>3
  <2> QED
    BY <2>1
<1>10. \A i \in 1 .. Len(k \o segs) - 1 : Len((k \o segs)[i]) >= SEGMENT_MAX_MEMBERS
  <2>1. SUFFICES ASSUME NEW i \in 1 .. Len(k \o segs) - 1
                 PROVE  Len((k \o segs)[i]) >= SEGMENT_MAX_MEMBERS
    OBVIOUS
  <2>2. CASE i <= Len(k)
    <3>1. i \in 1 .. Len(k)
      BY <1>9, <2>2
    <3> QED
      BY <1>1, <1>9, <3>1
  <2>3. CASE ~(i <= Len(k))
    <3>1. PICK j \in 1 .. Len(segs) : j = i - Len(k) /\ j # Len(segs)
      BY <1>9, <2>3
    <3>2. (k \o segs)[i] = segs[j]
      BY <1>9, <2>3, <3>1
    <3>3. j \in 1 .. Pieces(Len(tail)) /\ j # Pieces(Len(tail))
      BY <1>3, <3>1
    <3>4. (j - 1) * SEGMENT_MAX_MEMBERS \in Nat
          /\ End(j, Len(tail)) = (j - 1) * SEGMENT_MAX_MEMBERS + SEGMENT_MAX_MEMBERS
      BY <1>7, <3>3, PieceBounds
    <3>5. Len(segs[j]) = End(j, Len(tail)) - (j - 1) * SEGMENT_MAX_MEMBERS
      BY <1>3
    <3>6. SEGMENT_MAX_MEMBERS \in Nat
      BY IsccAssumption
    <3>7. PICK lo : lo = (j - 1) * SEGMENT_MAX_MEMBERS
      OBVIOUS
    <3> QED
      BY <3>2, <3>4, <3>5, <3>6, <3>7
  <2> QED
    BY <2>2, <2>3
<1>11. Tidy(new)
  BY <1>5, <1>6, <1>8, <1>9, <1>10 DEF Tidy, Manifest
<1>12. ToSet(k \o segs) = ToSet(k) \union ToSet(segs)
  BY <1>1, <1>3, JoinedMembers
<1>13. AllIn(k \o segs) = AllIn(k) \union AllIn(segs)
  BY <1>12, Zenon DEF AllIn
<1>14. AllIn(new.segments) = AllIn(load_bucket_manifest(b).segments) \union Mine(b, batch)
  BY <1>1, <1>2, <1>4, <1>6, <1>13
<1>15. StillThere(load_bucket_manifest(b).segments, k \o segs)
  <2>1. \A i \in DOMAIN k : i \in DOMAIN (k \o segs) /\ (k \o segs)[i] = k[i]
    <3>1. DOMAIN k = 1 .. Len(k) /\ DOMAIN (k \o segs) = 1 .. Len(k) + Len(segs)
      BY <1>1, <1>9
    <3> QED
      BY <1>9, <3>1
  <2> QED
    BY <1>1, <2>1, Zenon DEF StillThere
<1> QED
  BY <1>1, <1>6, <1>11, <1>12, <1>14, <1>15 DEF new, segs, tail

-----------------------------------------------------------------------------
(***************************************************************************)
(* The reference index takes a batch in, member by member.                 *)
(***************************************************************************)
Memories == [BucketIds -> SUBSET IsccMember]

KeysOf(members) == {m.key : m \in members}

With(lists, m) ==
    [b \in BucketIds |->
       IF b \in buckets(m.content_code) /\ ~\E e \in lists[b] : e.key = m.key
       THEN lists[b] \union {m} ELSE lists[b]]

(***************************************************************************)
(* IsccIndex::insert for a batch, as a chain of single inserts.            *)
(***************************************************************************)
LEMMA MemoryInsertIs ==
    ASSUME NEW index \in Memories, NEW batch \in Seq(IsccMember)
    PROVE  \E f \in [0 .. Len(batch) -> Memories] :
              /\ f[0] = index
              /\ \A n \in 1 .. Len(batch) : f[n] = With(f[n - 1], batch[n])
              /\ MemoryInsert(index, batch) = f[Len(batch)]
<1> DEFINE last == Len(batch)
           step == [p \in (1 .. last) \X Memories |-> With(p[2], batch[p[1]])]
           P(f) == f = [n \in 0 .. Len(batch) |-> IF n = 0 THEN index ELSE With(f[n - 1], batch[n])]
           rec == CHOOSE z : P(z)
<1>1. last \in Nat /\ \A n \in 1 .. last : n \in 0 .. last /\ n - 1 \in 0 .. last /\ n # 0
  OBVIOUS
<1>2. \A n \in 1 .. last, lists \in Memories : With(lists, batch[n]) \in Memories
  <2>1. \A n \in 1 .. last : batch[n] \in IsccMember
    OBVIOUS
  <2>2. \A m \in IsccMember, lists \in Memories : With(lists, m) \in Memories
    BY DEF With, Memories
  <2> QED
    BY <2>1, <2>2
<1>3. PICK f \in [0 .. last -> Memories] :
         f[0] = index /\ \A n \in 1 .. last : f[n] = With(f[n - 1], batch[n])
  <2>1. step \in Steps(last, Memories)
    <3> HIDE DEF last
    <3> QED
      BY <1>2 DEF Steps
  <2>2. PICK f : Solution(f, last, Memories, index, step)
    <3> HIDE DEF last, step
    <3> QED
      BY <1>1, <2>1, Recursion
  <2>3. \A n \in 1 .. last : <<n, f[n - 1]>> \in (1 .. last) \X Memories
    <3> HIDE DEF last, step
    <3> QED
      BY <1>1, <2>2 DEF Solution
  <2> QED
    BY <2>2, <2>3 DEF Solution
<1>4. P(f)
  <2>1. f = [n \in 0 .. last |-> f[n]]
    OBVIOUS
  <2>2. \A n \in 0 .. last : f[n] = IF n = 0 THEN index ELSE With(f[n - 1], batch[n])
    <3>1. \A n \in 0 .. last : n # 0 => n \in 1 .. last
      BY <1>1
    <3> HIDE DEF last, P, rec
    <3> QED
      BY <1>3, <3>1
  <2> QED
    BY <2>1, <2>2, Zenon
<1>5. P(rec)
  <2> HIDE DEF P
  <2> QED
    BY <1>4
<1>6. MemoryInsert(index, batch) = rec[last]
  BY DEF MemoryInsert, With
<1>7. rec[0] = index /\ \A n \in 1 .. last : rec[n] = With(rec[n - 1], batch[n])
  <2>1. rec = [n \in 0 .. last |-> IF n = 0 THEN index ELSE With(rec[n - 1], batch[n])]
    <3> HIDE DEF rec
    <3> QED
      BY <1>5
  <2> HIDE DEF rec, P
  <2>2. 0 \in 0 .. last
    BY <1>1
  <2> HIDE DEF last
  <2> QED
    BY <1>1, <2>1, <2>2
<1>8. f[last] = rec[last]
  <2> HIDE DEF rec, last, P, step
  <2>1. SameWay(last, f, rec)
    BY <1>3, <1>7 DEF SameWay
  <2> QED
    BY <1>1, <2>1, OneSolution
<1> QED
  BY <1>3, <1>6, <1>8

(***************************************************************************)
(* Afterwards a bucket has the keys it had and those of the members that   *)
(* belong there.                                                           *)
(***************************************************************************)
LEMMA MemoryInsertHolds ==
    ASSUME NEW index \in Memories, NEW batch \in Seq(IsccMember)
    PROVE  /\ MemoryInsert(index, batch) \in Memories
           /\ \A b \in BucketIds : KeysOf(MemoryInsert(index, batch)[b]) =
                                     KeysOf(index[b]) \union KeysOf(Mine(b, batch))
<1>1. PICK f \in [0 .. Len(batch) -> Memories] :
              /\ f[0] = index
              /\ \A n \in 1 .. Len(batch) : f[n] = With(f[n - 1], batch[n])
              /\ MemoryInsert(index, batch) = f[Len(batch)]
  BY MemoryInsertIs
<1>2. Len(batch) \in Nat /\ Len(batch) \in 0 .. Len(batch)
  OBVIOUS
<1>3. MemoryInsert(index, batch) \in Memories
  BY <1>1, <1>2
<1>4. SUFFICES ASSUME NEW b \in BucketIds
               PROVE  KeysOf(f[Len(batch)][b]) = KeysOf(index[b]) \union KeysOf(Mine(b, batch))
  BY <1>1, <1>3
<1> DEFINE First(n) == {batch[i] : i \in {j \in 1 .. n : b \in buckets(batch[j].content_code)}}
           T == {n \in 0 .. Len(batch) : KeysOf(f[n][b]) = KeysOf(index[b]) \union KeysOf(First(n))}
<1>5. 0 \in T
  <2>1. First(0) = {}
    OBVIOUS
  <2>2. KeysOf({}) = {}
    BY DEF KeysOf
  <2> HIDE DEF First
  <2>3. KeysOf(f[0][b]) = KeysOf(index[b]) \union KeysOf(First(0))
    <3>1. f[0] = index
      BY <1>1
    <3> QED
      BY <3>1, <2>1, <2>2, Zenon
  <2>4. 0 \in 0 .. Len(batch)
    BY <1>2
  <2> QED
    BY <2>3, <2>4, Zenon
<1>6. ASSUME NEW n \in 1 .. Len(batch), n - 1 \in T PROVE n \in T
  <2>1. n \in 0 .. Len(batch) /\ n - 1 \in 0 .. Len(batch)
    BY <1>2
  <2>2. First(n) = First(n - 1) \union {m \in {batch[n]} : b \in buckets(m.content_code)}
    <3>1. 1 .. n = (1 .. n - 1) \union {n}
      BY <1>2
    <3> QED
      BY <3>1, Zenon
  <2>3. KeysOf(f[n - 1][b]) = KeysOf(index[b]) \union KeysOf(First(n - 1))
    BY <1>6
  <2> HIDE DEF First
  <2>4. KeysOf(f[n][b]) = KeysOf(index[b]) \union KeysOf(First(n))
    <3>1. f[n][b] = IF b \in buckets(batch[n].content_code) /\ ~\E e \in f[n - 1][b] : e.key = batch[n].key
                    THEN f[n - 1][b] \union {batch[n]} ELSE f[n - 1][b]
      BY <1>1 DEF With
    <3>2. CASE b \in buckets(batch[n].content_code)
      <4>1. First(n) = First(n - 1) \union {batch[n]}
        BY <2>2, <3>2
      <4>2. KeysOf(First(n)) = KeysOf(First(n - 1)) \union {batch[n].key}
        BY <4>1, Zenon DEF KeysOf
      <4>3. KeysOf(f[n][b]) = KeysOf(f[n - 1][b]) \union {batch[n].key}
        <5>1. CASE \E e \in f[n - 1][b] : e.key = batch[n].key
          <6>1. f[n][b] = f[n - 1][b]
            BY <3>1, <5>1
          <6>2. batch[n].key \in KeysOf(f[n - 1][b])
            BY <5>1, Zenon DEF KeysOf
          <6> QED
            BY <6>1, <6>2
        <5>2. CASE ~\E e \in f[n - 1][b] : e.key = batch[n].key
          <6>1. f[n][b] = f[n - 1][b] \union {batch[n]}
            BY <3>1, <3>2, <5>2
          <6> QED
            BY <6>1, Zenon DEF KeysOf
        <5> QED
          BY <5>1, <5>2
      <4> QED
        BY <2>3, <4>2, <4>3
    <3>3. CASE b \notin buckets(batch[n].content_code)
      <4>1. First(n) = First(n - 1) /\ f[n][b] = f[n - 1][b]
        BY <2>2, <3>1, <3>3
      <4> QED
        BY <2>3, <4>1
    <3> QED
      BY <3>2, <3>3
  <2> QED
    BY <2>1, <2>4
<1>7. Len(batch) \in T
  <2> HIDE DEF T
  <2> QED
    BY <1>2, <1>5, <1>6, UpTo
<1>8. First(Len(batch)) = Mine(b, batch)
  <2>1. DOMAIN batch = 1 .. Len(batch)
    OBVIOUS
  <2> QED
    BY <2>1, Zenon DEF Mine, ToSet
<1> HIDE DEF First
<1> QED
  BY <1>7, <1>8

-----------------------------------------------------------------------------
(***************************************************************************)
(* The bands of a code.                                                    *)
(***************************************************************************)
Shift(band) == CONTENT_CODE_BITS - band_width * (band + 1)

(***************************************************************************)
(* The bands cover the code exactly: BandParams::new sees to it.           *)
(***************************************************************************)
LEMMA BandWidth ==
    /\ band_width \in Nat \ {0} /\ NumBands \in Nat \ {0} /\ CONTENT_CODE_BITS \in Nat
    /\ CONTENT_CODE_BITS = band_width * NumBands
<1>1. CONTENT_CODE_BITS \in Nat /\ NumBands \in Nat \ {0} /\ NumBands <= CONTENT_CODE_BITS
  BY BandParams
<1>2. PICK q : q = CONTENT_CODE_BITS \div NumBands
  OBVIOUS
<1>3. q \in Nat /\ CONTENT_CODE_BITS = q * NumBands
  BY <1>1, <1>2, BandParams
<1>4. q # 0
  BY <1>1, <1>3
<1> QED
  BY <1>1, <1>2, <1>3, <1>4 DEF band_width

(***************************************************************************)
(* A band ends where the one before it begins.                             *)
(***************************************************************************)
LEMMA ShiftIs ==
    ASSUME NEW band \in 0 .. NumBands - 1
    PROVE  /\ Shift(band) \in Nat /\ band_width * band \in Nat
           /\ Shift(band) + band_width = CONTENT_CODE_BITS - band_width * band
           /\ band_width * (band + 1) \in Nat
<1>1. PICK w, n, k : w = band_width /\ n = NumBands /\ k = band
  OBVIOUS
<1>2. w \in Nat \ {0} /\ n \in Nat \ {0} /\ CONTENT_CODE_BITS = w * n /\ k \in Nat /\ k + 1 <= n
  BY <1>1, BandWidth
<1>3. w * k \in Nat /\ w * (k + 1) \in Nat /\ w * (k + 1) = w * k + w
  BY <1>2
<1>4. w * (n - (k + 1)) \in Nat /\ w * n = w * (k + 1) + w * (n - (k + 1))
  BY <1>2
<1>5. PICK a, c, d : a = w * k /\ c = w * (k + 1) /\ d = w * n
  OBVIOUS
<1>6. d - c \in Nat /\ (d - c) + w = d - a
  BY <1>2, <1>3, <1>4, <1>5
<1> QED
  BY <1>1, <1>2, <1>3, <1>5, <1>6 DEF Shift

(***************************************************************************)
(* The buckets of a code are bucket identities.                            *)
(***************************************************************************)
LEMMA BucketsTyped ==
    ASSUME NEW code \in Codes
    PROVE  buckets(code) \subseteq BucketIds
<1>1. ASSUME NEW band \in 0 .. NumBands - 1, NEW bit \in band_value(code, band)
      PROVE  bit \in 0 .. band_width - 1
  <2>1. Shift(band) \in Nat /\ band_width \in Nat
    BY ShiftIs, BandWidth
  <2>2. PICK c \in code : Shift(band) <= c /\ c < Shift(band) + band_width /\ bit = c - Shift(band)
    BY DEF band_value, Shift
  <2>3. c \in Nat
    BY DEF Codes
  <2> QED
    BY <2>1, <2>2, <2>3
<1>2. \A band \in 0 .. NumBands - 1 : band_value(code, band) \in SUBSET (0 .. band_width - 1)
  BY <1>1
<1> QED
  BY <1>2 DEF buckets, BucketIds

-----------------------------------------------------------------------------
(***************************************************************************)
(* The inductive invariant.  A query, an insert and a sweep see the index  *)
(* through load_bucket_manifest; what they see is tidy, in the store, and  *)
(* holds under every bucket the delivered members that belong there.       *)
(***************************************************************************)
Belong(b) == {m \in delivered : b \in buckets(m.content_code)}

TypesHold ==
    /\ Directory \subseteq BucketIds
    /\ delivered \subseteq IsccMember /\ memory \in Memories

AllTidy == \A b \in Directory : Tidy(load_bucket_manifest(b))

AllReadable ==
    \/ root = NoRoot
    \/ root \in directories /\ \A b \in Directory : BucketReadable(b)

AllPlaced == \A b \in BucketIds : BucketMembers(b) = Belong(b)

AllMirrored == \A b \in BucketIds : KeysOf(memory[b]) = KeysOf(Belong(b))

IndexInv == TypesHold /\ AllTidy /\ AllReadable /\ AllPlaced /\ AllMirrored

(***************************************************************************)
(* BucketMembers in terms of the loaded manifest.                          *)
(***************************************************************************)
LEMMA MembersAre ==
    ASSUME NEW b
    PROVE  BucketMembers(b) = AllIn(load_bucket_manifest(b).segments)
BY DEF BucketMembers, AllIn

(***************************************************************************)
(* A bucket that is not in the directory is an empty manifest.             *)
(***************************************************************************)
LEMMA EmptyIsTidy == Tidy(EmptyManifest) /\ AllIn(EmptyManifest.segments) = {}
<1>1. DOMAIN <<>> = {} /\ Len(<<>>) = 0 /\ <<>> \in Seq(Seq(IsccMember))
  OBVIOUS
<1>2. Places(<<>>) = {} /\ ToSet(<<>>) = {}
  BY <1>1, Zenon DEF Places, ToSet
<1>3. AllIn(<<>>) = {}
  BY <1>2, Zenon DEF AllIn
<1>4. IsFiniteSet({}) /\ Cardinality({}) = 0
  BY FS_EmptySet
<1>5. \A i \in 1 .. 0 - 1 : FALSE
  OBVIOUS
<1> QED
  BY <1>1, <1>2, <1>3, <1>4, <1>5 DEF EmptyManifest, Tidy, Manifest

(***************************************************************************)
(* What load_bucket_manifest returns is tidy, for any bucket.              *)
(***************************************************************************)
LEMMA LoadedIsTidy ==
    ASSUME AllTidy, NEW b
    PROVE  Tidy(load_bucket_manifest(b))
<1>1. CASE b \in Directory
  BY <1>1 DEF AllTidy
<1>2. CASE b \notin Directory
  BY <1>2, EmptyIsTidy DEF load_bucket_manifest
<1> QED
  BY <1>1, <1>2

(***************************************************************************)
(* A batch is a sequence of members.                                       *)
(***************************************************************************)
LEMMA BatchTyped ==
    ASSUME NEW batch \in Batches
    PROVE  batch \in Seq(IsccMember)
<1>1. PICK n \in 1 .. MaxBatch : batch \in [1 .. n -> Members]
  BY DEF Batches
<1>2. Members \subseteq IsccMember /\ MaxBatch \in Nat
  BY IsccAssumption
<1> QED
  BY <1>1, <1>2

(***************************************************************************)
(* What the next reader loads after an insert.                             *)
(***************************************************************************)
LEMMA InsertLoads ==
    ASSUME NEW batch, root' = insert_batch(batch)
    PROVE  /\ Directory' = Directory \union Touched(batch)
           /\ root'.v = 2 /\ root' # NoRoot
           /\ \A b \in Directory' : root'.buckets[b] = load_bucket_manifest(b)'
           /\ \A b : load_bucket_manifest(b)' =
                       IF b \in Touched(batch) THEN NewManifest(b, batch) ELSE load_bucket_manifest(b)
<1> DEFINE D == Directory \union Touched(batch)
           loaded(b) == IF b \in Touched(batch) THEN NewManifest(b, batch) ELSE load_bucket_manifest(b)
<1>1. root' = [v |-> 2, buckets |-> [b \in D |-> loaded(b)]]
  BY DEF insert_batch
<1> HIDE DEF loaded, D
<1>2. /\ root'.v = 2 /\ DOMAIN root'.buckets = D
      /\ \A b \in D : root'.buckets[b] = loaded(b)
  BY <1>1
<1>3. Directory' = D
  BY <1>2 DEF Directory
<1>4. root' # NoRoot
  BY <1>2 DEF NoRoot
<1>5. \A b \in D : load_bucket_manifest(b)' = root'.buckets[b]
  BY <1>2, <1>3 DEF load_bucket_manifest
<1>6. \A b : b \notin D => load_bucket_manifest(b)' = EmptyManifest
  BY <1>3 DEF load_bucket_manifest, EmptyManifest
<1>7. \A b : b \notin D => loaded(b) = EmptyManifest
  BY DEF D, loaded, load_bucket_manifest
<1>8. \A b : load_bucket_manifest(b)' = loaded(b)
  BY <1>2, <1>5, <1>6, <1>7
<1> QED
  BY <1>2, <1>3, <1>4, <1>5, <1>8 DEF D, loaded

(***************************************************************************)
(* A bucket is touched when some member of the batch belongs there.        *)
(***************************************************************************)
LEMMA TouchedIs ==
    ASSUME NEW batch \in Seq(IsccMember)
    PROVE  /\ Touched(batch) \subseteq BucketIds
           /\ \A b : b \in Touched(batch) <=> Mine(b, batch) # {}
<1>1. ToSet(batch) \subseteq IsccMember
  <2>1. DOMAIN batch = 1 .. Len(batch) /\ \A i \in 1 .. Len(batch) : batch[i] \in IsccMember
    OBVIOUS
  <2> QED
    BY <2>1 DEF ToSet
<1>2. \A m \in IsccMember : buckets(m.content_code) \subseteq BucketIds
  <2>1. \A m \in IsccMember : m.content_code \in Codes
    BY DEF IsccMember
  <2> QED
    BY <2>1, BucketsTyped
<1>3. Touched(batch) \subseteq BucketIds
  BY <1>1, <1>2, Zenon DEF Touched
<1>4. \A b : b \in Touched(batch) <=> Mine(b, batch) # {}
  BY Zenon DEF Touched, Mine
<1> QED
  BY <1>3, <1>4

(***************************************************************************)
(* A successful insert.                                                    *)
(***************************************************************************)
LEMMA InsertInv ==
    ASSUME IndexInv, NEW batch \in Seq(IsccMember), Insert(batch)
    PROVE  IndexInv'
<1>1. /\ Directory' = Directory \union Touched(batch)
      /\ root'.v = 2 /\ root' # NoRoot
      /\ \A b \in Directory' : root'.buckets[b] = load_bucket_manifest(b)'
      /\ \A b : load_bucket_manifest(b)' =
                  IF b \in Touched(batch) THEN NewManifest(b, batch) ELSE load_bucket_manifest(b)
  BY InsertLoads DEF Insert
<1>2. Touched(batch) \subseteq BucketIds /\ \A b : b \in Touched(batch) <=> Mine(b, batch) # {}
  BY TouchedIs
<1>3. \A b : /\ Tidy(NewManifest(b, batch))
             /\ AllIn(NewManifest(b, batch).segments) =
                  AllIn(load_bucket_manifest(b).segments) \union Mine(b, batch)
             /\ ToSet(NewManifest(b, batch).segments) \subseteq
                  ToSet(load_bucket_manifest(b).segments) \union ToSet(Segmented(NewTail(b, batch)))
  <2>1. \A b : Tidy(load_bucket_manifest(b))
    BY LoadedIsTidy DEF IndexInv
  <2> QED
    BY <2>1, NewManifestIs
<1>4. ToSet(batch) \subseteq IsccMember
  <2>1. DOMAIN batch = 1 .. Len(batch) /\ \A i \in 1 .. Len(batch) : batch[i] \in IsccMember
    OBVIOUS
  <2> QED
    BY <2>1 DEF ToSet
<1>5. delivered' = delivered \union ToSet(batch) /\ memory' = MemoryInsert(memory, batch)
  BY DEF Insert
<1>6. /\ memory' \in Memories
      /\ \A b \in BucketIds : KeysOf(memory'[b]) = KeysOf(memory[b]) \union KeysOf(Mine(b, batch))
  BY <1>5, MemoryInsertHolds DEF IndexInv, TypesHold
<1>7. TypesHold'
  <2>1. Directory' \subseteq BucketIds
    BY <1>1, <1>2 DEF IndexInv, TypesHold
  <2>2. delivered' \subseteq IsccMember
    BY <1>4, <1>5 DEF IndexInv, TypesHold
  <2> QED
    BY <1>6, <2>1, <2>2 DEF TypesHold
<1>8. AllTidy'
  <2>1. \A b : Tidy(load_bucket_manifest(b)')
    <3>1. \A b : Tidy(load_bucket_manifest(b))
      BY LoadedIsTidy DEF IndexInv
    <3> QED
      BY <1>1, <1>3, <3>1
  <2>2. \A b : Tidy(load_bucket_manifest(b))' <=> Tidy(load_bucket_manifest(b)')
    BY DEF Tidy
  <2> QED
    BY <2>1, <2>2 DEF AllTidy
<1>9. AllReadable'
  <2>1. root' \in directories'
    BY DEF Insert
  <2>2. ASSUME NEW b \in Directory' PROVE BucketReadable(b)'
    <3>1. root'.buckets[b] \in manifests'
      <4>1. manifests' = manifests \union {root'.buckets[c] : c \in Directory \union Touched(batch)}
        BY DEF Insert, NewManifests
      <4> QED
        BY <1>1, <4>1
    <3>2. ToSet(load_bucket_manifest(b)'.segments) \subseteq segments'
      <4>1. segments' = segments \union NewSegments(batch)
        BY DEF Insert
      <4>2. ToSet(load_bucket_manifest(b).segments) \subseteq segments
        <5>1. CASE b \in Directory
          <6>1. root # NoRoot
            BY <5>1 DEF Directory, NoRoot
          <6> QED
            BY <5>1, <6>1 DEF IndexInv, AllReadable, BucketReadable
        <5>2. CASE b \notin Directory
          <6>1. load_bucket_manifest(b).segments = <<>>
            BY <5>2 DEF load_bucket_manifest, EmptyManifest
          <6> QED
            BY <6>1 DEF ToSet
        <5> QED
          BY <5>1, <5>2
      <4>3. CASE b \in Touched(batch)
        <5>1. ToSet(Segmented(NewTail(b, batch))) \subseteq NewSegments(batch)
          BY <4>3, Zenon DEF NewSegments
        <5>2. load_bucket_manifest(b)' = NewManifest(b, batch)
          BY <1>1, <4>3
        <5> QED
          BY <1>3, <4>1, <4>2, <5>1, <5>2
      <4>4. CASE b \notin Touched(batch)
        <5>1. load_bucket_manifest(b)' = load_bucket_manifest(b)
          BY <1>1, <4>4
        <5> QED
          BY <4>1, <4>2, <5>1
      <4> QED
        BY <4>3, <4>4
    <3> QED
      BY <3>1, <3>2 DEF BucketReadable
  <2> QED
    BY <2>1, <2>2 DEF AllReadable
<1>10. \A b : Belong(b)' = Belong(b) \union Mine(b, batch)
  BY <1>5, Zenon DEF Belong, Mine
<1>11. AllPlaced'
  <2>1. ASSUME NEW b \in BucketIds PROVE BucketMembers(b)' = Belong(b)'
    <3>1. BucketMembers(b)' = AllIn(load_bucket_manifest(b)'.segments)
      BY DEF BucketMembers, AllIn
    <3>2. AllIn(load_bucket_manifest(b).segments) = Belong(b)
      BY MembersAre DEF IndexInv, AllPlaced
    <3>3. CASE b \in Touched(batch)
      <4>1. load_bucket_manifest(b)' = NewManifest(b, batch)
        BY <1>1, <3>3
      <4> QED
        BY <1>3, <1>10, <3>1, <3>2, <4>1
    <3>4. CASE b \notin Touched(batch)
      <4>1. load_bucket_manifest(b)' = load_bucket_manifest(b) /\ Mine(b, batch) = {}
        BY <1>1, <1>2, <3>4
      <4> QED
        BY <1>10, <3>1, <3>2, <4>1
    <3> QED
      BY <3>3, <3>4
  <2> QED
    BY <2>1 DEF AllPlaced
<1>12. AllMirrored'
  <2>1. ASSUME NEW b \in BucketIds PROVE KeysOf(memory'[b]) = KeysOf(Belong(b)')
    <3>1. KeysOf(memory[b]) = KeysOf(Belong(b))
      BY DEF IndexInv, AllMirrored
    <3>2. KeysOf(Belong(b) \union Mine(b, batch)) = KeysOf(Belong(b)) \union KeysOf(Mine(b, batch))
      BY Zenon DEF KeysOf
    <3> QED
      BY <1>6, <1>10, <3>1, <3>2
  <2>2. \A b \in BucketIds : KeysOf(memory[b])' = KeysOf(memory'[b]) /\ KeysOf(Belong(b))' = KeysOf(Belong(b)')
    BY DEF KeysOf
  <2> QED
    BY <2>1, <2>2 DEF AllMirrored
<1> QED
  BY <1>7, <1>8, <1>9, <1>11, <1>12 DEF IndexInv

(***************************************************************************)
(* A step that leaves the root, the deliveries and the reference index     *)
(* alone only has to keep the blobs the root needs.                        *)
(***************************************************************************)
LEMMA SameRootInv ==
    ASSUME IndexInv, AllReadable', UNCHANGED <<root, delivered, memory>>
    PROVE  IndexInv'
<1>1. Directory' = Directory /\ \A b : load_bucket_manifest(b)' = load_bucket_manifest(b)
  BY DEF Directory, load_bucket_manifest, EmptyManifest
<1>2. TypesHold'
  BY <1>1 DEF IndexInv, TypesHold, Memories
<1>3. AllTidy'
  BY <1>1 DEF IndexInv, AllTidy, Tidy
<1>4. \A b : BucketMembers(b)' = BucketMembers(b) /\ Belong(b)' = Belong(b)
  BY <1>1 DEF BucketMembers, Belong
<1>5. AllPlaced'
  BY <1>4 DEF IndexInv, AllPlaced
<1>6. AllMirrored'
  BY <1>4 DEF IndexInv, AllMirrored, KeysOf
<1> QED
  BY <1>2, <1>3, <1>5, <1>6 DEF IndexInv

(***************************************************************************)
(* An insert that fails half way only adds blobs.                          *)
(***************************************************************************)
LEMMA InsertFailsInv ==
    ASSUME IndexInv, NEW batch, InsertFails(batch)
    PROVE  IndexInv'
<1>1. /\ segments \subseteq segments' /\ manifests \subseteq manifests'
      /\ UNCHANGED <<directories, root, delivered, memory>>
  BY DEF InsertFails
<1>2. Directory' = Directory /\ \A b : load_bucket_manifest(b)' = load_bucket_manifest(b)
  BY <1>1 DEF Directory, load_bucket_manifest, EmptyManifest
<1>3. AllReadable'
  <2>1. \A b : BucketReadable(b) => BucketReadable(b)'
    BY <1>1, <1>2 DEF BucketReadable
  <2> QED
    BY <1>1, <1>2, <2>1 DEF IndexInv, AllReadable, NoRoot
<1> QED
  BY <1>1, <1>3, SameRootInv

(***************************************************************************)
(* The sweep keeps what the walk records, and the walk records what the    *)
(* root needs.                                                             *)
(***************************************************************************)
LEMMA SweepInv ==
    ASSUME IndexInv, Sweep
    PROVE  IndexInv'
<1>1. /\ UNCHANGED <<root, delivered, memory>>
      /\ segments' = segments \intersect Reachable.segments
      /\ manifests' = manifests \intersect Reachable.manifests
      /\ directories' = directories \intersect {root}
  BY DEF Sweep
<1>2. Directory' = Directory /\ \A b : load_bucket_manifest(b)' = load_bucket_manifest(b)
  BY <1>1 DEF Directory, load_bucket_manifest, EmptyManifest
<1>3. Reachable.segments = UNION {ToSet(load_bucket_manifest(b).segments) : b \in Directory}
      /\ Reachable.manifests =
           IF root # NoRoot /\ root.v = 2 THEN {root.buckets[b] : b \in Directory} ELSE {}
  BY DEF Reachable
<1>4. CASE root = NoRoot
  <2>1. AllReadable'
    BY <1>1, <1>4 DEF AllReadable, NoRoot
  <2> QED
    BY <1>1, <2>1, SameRootInv
<1>5. CASE root # NoRoot
  <2>1. root \in directories /\ \A b \in Directory : BucketReadable(b)
    BY <1>5 DEF IndexInv, AllReadable
  <2>2. ASSUME NEW b \in Directory PROVE BucketReadable(b)'
    <3>1. root.v = 2 => root.buckets[b] \in manifests'
      BY <1>1, <1>3, <1>5, <2>1 DEF BucketReadable
    <3>2. ToSet(load_bucket_manifest(b).segments) \subseteq segments'
      <4>1. ToSet(load_bucket_manifest(b).segments) \subseteq Reachable.segments
        BY <1>3, Zenon
      <4>2. ToSet(load_bucket_manifest(b).segments) \subseteq segments
        BY <2>1 DEF BucketReadable
      <4> QED
        BY <1>1, <4>1, <4>2
    <3> QED
      BY <1>1, <1>2, <3>1, <3>2 DEF BucketReadable
  <2>3. AllReadable'
    BY <1>1, <1>2, <2>1, <2>2 DEF AllReadable
  <2> QED
    BY <1>1, <2>3, SameRootInv
<1> QED
  BY <1>4, <1>5

(***************************************************************************)
(* Before the first batch there is no index, or one of the old format.     *)
(***************************************************************************)
LEMMA InitInv ==
    ASSUME Init
    PROVE  IndexInv
<1>1. PICK list \in LegacyLists \union {<<>>} :
          /\ root = IF list = <<>> THEN NoRoot ELSE Legacy(list)
          /\ directories = {root} \ {NoRoot}
          /\ segments = UNION {ToSet(load_bucket_manifest(b).segments) : b \in Directory}
          /\ delivered = ToSet(list)
          /\ memory = MemoryInsert(NoMemory, list)
  BY DEF Init
<1>2. list \in Seq(IsccMember)
  <2>1. <<>> \in Seq(IsccMember)
    OBVIOUS
  <2>2. LegacyLists \subseteq Seq(IsccMember)
    BY IsccAssumption
  <2> QED
    BY <2>1, <2>2, Zenon
<1>3. ToSet(list) \subseteq IsccMember
  <2>1. DOMAIN list = 1 .. Len(list) /\ \A i \in 1 .. Len(list) : list[i] \in IsccMember
    BY <1>2
  <2> QED
    BY <2>1 DEF ToSet
<1>4. \A b : Belong(b) = Mine(b, list)
  BY <1>1 DEF Belong, Mine
<1>5. NoMemory \in Memories /\ \A b \in BucketIds : NoMemory[b] = {}
  BY DEF NoMemory, Memories
<1>6. memory \in Memories /\ \A b \in BucketIds : KeysOf(memory[b]) = KeysOf(Mine(b, list))
  <2>1. KeysOf({}) = {}
    BY Zenon DEF KeysOf
  <2>2. /\ memory \in Memories
        /\ \A b \in BucketIds : KeysOf(memory[b]) = KeysOf(NoMemory[b]) \union KeysOf(Mine(b, list))
    BY <1>1, <1>2, <1>5, MemoryInsertHolds
  <2> QED
    BY <1>5, <2>1, <2>2
<1>7. AllMirrored
  BY <1>4, <1>6 DEF AllMirrored
<1>8. Directory = Touched(list)
  <2>1. CASE list = <<>>
    <3>1. ToSet(list) = {}
      BY <2>1 DEF ToSet
    <3>2. Touched(list) = {}
      BY <3>1, Zenon DEF Touched
    <3>3. Directory = {}
      BY <1>1, <2>1 DEF Directory, NoRoot
    <3> QED
      BY <3>2, <3>3
  <2>2. CASE list # <<>>
    BY <1>1, <2>2 DEF Directory, Legacy, Touched
  <2> QED
    BY <2>1, <2>2
<1>9. Touched(list) \subseteq BucketIds /\ \A b : b \in Touched(list) <=> Mine(b, list) # {}
  BY <1>2, TouchedIs
<1>10. TypesHold
  BY <1>1, <1>3, <1>6, <1>8, <1>9 DEF TypesHold
<1>11. ASSUME NEW b \in Directory
       PROVE  /\ root.v = 1 /\ Tidy(load_bucket_manifest(b))
              /\ AllIn(load_bucket_manifest(b).segments) = Mine(b, list)
  <2> DEFINE ext == Extended(b, <<>>, list)
  <2>1. list # <<>>
    BY <1>1 DEF Directory, NoRoot
  <2>2. root = Legacy(list)
    BY <1>1, <2>1
  <2>3. root.v = 1 /\ root.buckets[b] = [count |-> 0, segments |-> <<ext>>]
    BY <1>8, <2>2 DEF Legacy, Touched
  <2>4. ext \in Seq(IsccMember) /\ ToSet(ext) = Mine(b, list)
    <3>1. <<>> \in Seq(IsccMember) /\ ToSet(<<>>) = {}
      BY DEF ToSet
    <3>2. PICK none : none = <<>>
      OBVIOUS
    <3>3. /\ Extended(b, none, list) \in Seq(IsccMember)
          /\ ToSet(Extended(b, none, list)) = ToSet(none) \union Mine(b, list)
      <4>1. none \in Seq(IsccMember)
        BY <3>1, <3>2
      <4> QED
        BY <1>2, <4>1, ExtendedHolds
    <3>4. ToSet(none) = {}
      BY <3>1, <3>2
    <3>5. ToSet(Extended(b, none, list)) = Mine(b, list)
      BY <3>3, <3>4
    <3> QED
      BY <3>2, <3>3, <3>5, Zenon
  <2> HIDE DEF ext
  <2>5. load_bucket_manifest(b) = [count |-> Len(ext), segments |-> <<ext>>]
    BY <2>3 DEF load_bucket_manifest
  <2>6. <<ext>> \in Seq(Seq(IsccMember)) /\ Len(<<ext>>) = 1 /\ <<ext>> = Append(<<>>, ext)
    BY <2>4
  <2>7. IsFiniteSet(Places(<<ext>>)) /\ Cardinality(Places(<<ext>>)) = Len(ext)
    <3>1. Places(<<>>) = {}
      <4>1. DOMAIN <<>> = {}
        OBVIOUS
      <4> QED
        BY <4>1, Zenon DEF Places
    <3>2. IsFiniteSet({}) /\ Cardinality({}) = 0
      BY FS_EmptySet
    <3>3. <<>> \in Seq(Seq(IsccMember))
      OBVIOUS
    <3>4. /\ IsFiniteSet(Places(Append(<<>>, ext)))
          /\ Cardinality(Places(Append(<<>>, ext))) = Cardinality(Places(<<>>)) + Len(ext)
      BY <2>4, <3>1, <3>2, <3>3, PlacesAppend
    <3>5. Cardinality(Places(Append(<<>>, ext))) = Len(ext)
      <4>1. Len(ext) \in Nat
        BY <2>4
      <4>2. Cardinality(Places(<<>>)) = 0
        BY <3>1, <3>2, Zenon
      <4>3. PICK c, l : c = Cardinality(Places(Append(<<>>, ext))) /\ l = Len(ext)
        OBVIOUS
      <4>4. c = 0 + l /\ l \in Nat
        BY <3>4, <4>1, <4>2, <4>3, Zenon
      <4>5. c = l
        BY <4>4
      <4> QED
        BY <4>3, <4>5, Zenon
    <3> QED
      BY <2>6, <3>4, <3>5, Zenon
  <2>8. Len(ext) \in Nat
    BY <2>4
  <2>9. Tidy(load_bucket_manifest(b))
    BY <2>5, <2>6, <2>7, <2>8 DEF Tidy, Manifest
  <2>10. ToSet(<<ext>>) = {ext}
    BY DEF ToSet
  <2>11. AllIn(<<ext>>) = Mine(b, list)
    BY <2>4, <2>10, Zenon DEF AllIn
  <2> QED
    BY <2>3, <2>5, <2>9, <2>11
<1>12. AllTidy
  BY <1>11 DEF AllTidy
<1>13. AllReadable
  <2>1. root # NoRoot => root \in directories
    BY <1>1
  <2>2. ASSUME NEW b \in Directory PROVE BucketReadable(b)
    <3>1. ToSet(load_bucket_manifest(b).segments) \subseteq segments
      BY <1>1, Zenon
    <3> QED
      BY <1>11, <3>1 DEF BucketReadable
  <2> QED
    BY <2>1, <2>2 DEF AllReadable
<1>14. AllPlaced
  <2>1. ASSUME NEW b \in BucketIds PROVE BucketMembers(b) = Belong(b)
    <3>1. CASE b \in Directory
      BY <1>4, <1>11, <3>1, MembersAre
    <3>2. CASE b \notin Directory
      <4>1. load_bucket_manifest(b) = EmptyManifest
        BY <3>2 DEF load_bucket_manifest
      <4> QED
        BY <1>4, <1>8, <1>9, <3>2, <4>1, EmptyIsTidy, MembersAre
    <3> QED
      BY <3>1, <3>2
  <2> QED
    BY <2>1 DEF AllPlaced
<1> QED
  BY <1>7, <1>10, <1>12, <1>13, <1>14 DEF IndexInv

(***************************************************************************)
(* Every step keeps the invariant.                                         *)
(***************************************************************************)
LEMMA StepInv ==
    ASSUME IndexInv, [Next]_vars
    PROVE  IndexInv'
<1>1. ASSUME NEW batch \in Batches, Insert(batch) PROVE IndexInv'
  BY <1>1, BatchTyped, InsertInv
<1>2. ASSUME NEW batch \in Batches, InsertFails(batch) PROVE IndexInv'
  BY <1>2, InsertFailsInv
<1>3. CASE Sweep
  BY <1>3, SweepInv
<1>4. CASE UNCHANGED vars
  <2>1. UNCHANGED <<segments, manifests, directories, root, delivered, memory>>
    BY <1>4 DEF vars
  <2>2. AllReadable'
    BY <2>1 DEF IndexInv, AllReadable, BucketReadable, Directory, load_bucket_manifest,
                EmptyManifest, NoRoot
  <2> QED
    BY <2>1, <2>2, SameRootInv
<1> QED
  BY <1>1, <1>2, <1>3, <1>4 DEF Next

(***************************************************************************)
(* The published index is readable, tidy and complete, after any batches   *)
(* in any order, repeated, migrated, cut short or swept in between: what   *)
(* insert_batch, collect_reachable and load_bucket_manifest keep up.       *)
(***************************************************************************)
THEOREM IndexInvariant == Spec => []IndexInv
<1>1. Init => IndexInv
  BY InitInv
<1>2. IndexInv /\ [Next]_vars => IndexInv'
  BY StepInv
<1> QED
  BY <1>1, <1>2, PTL DEF Spec

(***************************************************************************)
(* Only the last segment of a bucket may be non-full and a manifest counts *)
(* its members: insert_batch gives back the count of the segment it takes  *)
(* up, and cuts the rest at SEGMENT_MAX_MEMBERS.                           *)
(***************************************************************************)
THEOREM SegmentsAreTidyHolds == Spec => []SegmentsAreTidy
<1>1. IndexInv => SegmentsAreTidy
  BY DEF IndexInv, AllTidy, Tidy, SegmentsAreTidy
<1> QED
  BY <1>1, IndexInvariant, PTL

(***************************************************************************)
(* The blob-backed index and IsccIndex hold the same keys in every bucket, *)
(* although the one drops a repeated member and the other a repeated key.  *)
(***************************************************************************)
THEOREM MirrorsReferenceHolds == Spec => []MirrorsReference
<1>1. IndexInv => MirrorsReference
  BY DEF IndexInv, AllPlaced, AllMirrored, MirrorsReference, KeysOf
<1> QED
  BY <1>1, IndexInvariant, PTL

(***************************************************************************)
(* A full segment is the same segment of its bucket after any step: an     *)
(* insert takes up a last segment only when it is not full.                *)
(***************************************************************************)
THEOREM FullSegmentsStayHolds == Spec => FullSegmentsStay
<1> DEFINE Stay == \A b \in Directory : StillThere(load_bucket_manifest(b).segments,
                                                   load_bucket_manifest(b).segments')
<1>1. ASSUME IndexInv, [Next]_vars PROVE Stay
  <2>1. \A lists : StillThere(lists, lists)
    BY DEF StillThere
  <2>2. ASSUME NEW batch \in Batches, Insert(batch) PROVE Stay
    <3>1. batch \in Seq(IsccMember)
      BY BatchTyped
    <3>2. \A b : load_bucket_manifest(b)' =
                   IF b \in Touched(batch) THEN NewManifest(b, batch) ELSE load_bucket_manifest(b)
      BY <2>2, InsertLoads DEF Insert
    <3>3. \A b : StillThere(load_bucket_manifest(b).segments, NewManifest(b, batch).segments)
      BY <1>1, <3>1, LoadedIsTidy, NewManifestIs DEF IndexInv
    <3> QED
      BY <2>1, <3>2, <3>3
  <2>3. ASSUME root' = root PROVE Stay
    <3>1. \A b : load_bucket_manifest(b)' = load_bucket_manifest(b)
      BY <2>3 DEF Directory, load_bucket_manifest, EmptyManifest
    <3> QED
      BY <2>1, <3>1
  <2>4. (\E batch \in Batches : InsertFails(batch)) \/ Sweep \/ UNCHANGED vars => root' = root
    BY DEF InsertFails, Sweep, vars
  <2> HIDE DEF Stay
  <2> QED
    BY <1>1, <2>2, <2>3, <2>4 DEF Next
<1>2. IndexInv /\ [Next]_vars => [Stay]_vars
  BY <1>1
<1> QED
  BY <1>2, IndexInvariant, PTL DEF Spec, FullSegmentsStay

-----------------------------------------------------------------------------
(***************************************************************************)
(* Probing.  A mask's bits are added from below, so every mask of n bits   *)
(* comes from the one without its highest bit.                             *)
(***************************************************************************)
Highest(m, width) == CHOOSE h \in 0 .. width : (\A b \in m : b < h) /\ (h = 0 \/ h - 1 \in m)

NextLevel(masks, width) ==
    UNION {{m \union {bit} : bit \in Highest(m, width) .. width - 1} : m \in masks}

(***************************************************************************)
(* What a level holds.                                                     *)
(***************************************************************************)
LEMMA NextLevelIs ==
    ASSUME NEW masks, NEW width, NEW x
    PROVE  x \in NextLevel(masks, width) <=>
             \E m \in masks : \E bit \in Highest(m, width) .. width - 1 : x = m \union {bit}
<1>1. x \in NextLevel(masks, width) <=>
        \E m \in masks : x \in {m \union {bit} : bit \in Highest(m, width) .. width - 1}
  BY Zenon DEF NextLevel
<1> QED
  BY <1>1, Zenon

(***************************************************************************)
(* A mask has a highest bit, unless it is empty.                           *)
(***************************************************************************)
LEMMA HighestIs ==
    ASSUME NEW width \in Nat, NEW m \in SUBSET (0 .. width - 1)
    PROVE  /\ Highest(m, width) \in 0 .. width
           /\ \A b \in m : b < Highest(m, width)
           /\ Highest(m, width) = 0 \/ Highest(m, width) - 1 \in m
<1> DEFINE Above == {h \in 0 .. width : \A b \in m : b < h}
           IsHighest(h) == (\A b \in m : b < h) /\ (h = 0 \/ h - 1 \in m)
<1>1. width \in Above /\ Above \subseteq Nat
  OBVIOUS
<1>2. PICK h \in Above : \A y \in Above : h <= y
  <2> HIDE DEF Above
  <2> QED
    BY <1>1, LeastMember
<1>3. h \in 0 .. width /\ \A b \in m : b < h
  OBVIOUS
<1>4. ASSUME h # 0 PROVE h - 1 \in m
  <2>1. h - 1 \in 0 .. width /\ h - 1 \notin Above
    BY <1>2, <1>3, <1>4
  <2>2. PICK b \in m : ~(b < h - 1)
    BY <2>1
  <2>3. b = h - 1
    BY <1>3, <2>2
  <2> QED
    BY <2>3
<1>5. \E x \in 0 .. width : IsHighest(x)
  BY <1>3, <1>4
<1>6. Highest(m, width) = CHOOSE x \in 0 .. width : IsHighest(x)
  BY DEF Highest
<1>7. Highest(m, width) \in 0 .. width /\ IsHighest(Highest(m, width))
  <2> HIDE DEF IsHighest
  <2> QED
    BY <1>5, <1>6
<1> QED
  BY <1>7

(***************************************************************************)
(* The levels bit_flip_masks computes.                                     *)
(***************************************************************************)
LEMMA MasksAre ==
    ASSUME NEW width \in Nat, NEW radius \in Nat
    PROVE  \E f : /\ f[0] = {{}}
                  /\ \A n \in 1 .. radius : f[n] = NextLevel(f[n - 1], width)
                  /\ bit_flip_masks(width, radius) = UNION {f[n] : n \in 0 .. radius}
<1> DEFINE Masks == SUBSET (0 .. width - 1)
           Levels == SUBSET Masks
           step == [p \in (1 .. radius) \X Levels |-> NextLevel(p[2], width)]
           P(f) == f = [n \in 0 .. radius |-> IF n = 0 THEN {{}} ELSE NextLevel(f[n - 1], width)]
           rec == CHOOSE z : P(z)
<1>1. \A n \in 1 .. radius : n \in 0 .. radius /\ n - 1 \in 0 .. radius /\ n # 0
  OBVIOUS
<1>2. \A masks \in Levels : NextLevel(masks, width) \in Levels
  <2>1. ASSUME NEW m \in Masks, NEW bit \in Highest(m, width) .. width - 1
        PROVE  m \union {bit} \in Masks
    <3>1. Highest(m, width) \in 0 .. width
      BY HighestIs
    <3>2. bit \in 0 .. width - 1
      BY <3>1
    <3> QED
      BY <3>2
  <2> HIDE DEF Masks
  <2>2. ASSUME NEW masks \in Levels, NEW x \in NextLevel(masks, width) PROVE x \in Masks
    <3>1. PICK m \in masks : \E bit \in Highest(m, width) .. width - 1 : x = m \union {bit}
      BY NextLevelIs
    <3>2. PICK bit \in Highest(m, width) .. width - 1 : x = m \union {bit}
      BY <3>1
    <3> QED
      BY <2>1, <3>2
  <2> QED
    BY <2>2
<1>3. {{}} \in Levels
  OBVIOUS
<1> HIDE DEF Levels
<1>4. PICK f \in [0 .. radius -> Levels] :
         f[0] = {{}} /\ \A n \in 1 .. radius : f[n] = NextLevel(f[n - 1], width)
  <2>1. step \in Steps(radius, Levels)
    BY <1>2 DEF Steps
  <2>2. PICK f : Solution(f, radius, Levels, {{}}, step)
    <3> HIDE DEF step
    <3>1. PICK first : first = {{}}
      OBVIOUS
    <3>2. \E f : Solution(f, radius, Levels, first, step)
      BY <1>3, <2>1, <3>1, Recursion
    <3> QED
      BY <3>1, <3>2, Zenon
  <2>3. \A n \in 1 .. radius : <<n, f[n - 1]>> \in (1 .. radius) \X Levels
    <3> HIDE DEF step
    <3> QED
      BY <1>1, <2>2 DEF Solution
  <2> QED
    BY <2>2, <2>3 DEF Solution
<1>5. P(f)
  <2>1. f = [n \in 0 .. radius |-> f[n]]
    OBVIOUS
  <2>2. \A n \in 0 .. radius : f[n] = IF n = 0 THEN {{}} ELSE NextLevel(f[n - 1], width)
    <3>1. \A n \in 0 .. radius : n # 0 => n \in 1 .. radius
      OBVIOUS
    <3> HIDE DEF P, rec
    <3> QED
      BY <1>4, <3>1
  <2> QED
    BY <2>1, <2>2, Zenon
<1>6. P(rec)
  <2> HIDE DEF P
  <2> QED
    BY <1>5
<1>7. bit_flip_masks(width, radius) = UNION {rec[n] : n \in 0 .. radius}
  BY DEF bit_flip_masks, NextLevel, Highest
<1>8. rec[0] = {{}} /\ \A n \in 1 .. radius : rec[n] = NextLevel(rec[n - 1], width)
  <2>1. rec = [n \in 0 .. radius |-> IF n = 0 THEN {{}} ELSE NextLevel(rec[n - 1], width)]
    <3> HIDE DEF rec
    <3> QED
      BY <1>6
  <2> HIDE DEF rec, P
  <2>2. 0 \in 0 .. radius
    OBVIOUS
  <2> QED
    BY <1>1, <2>1, <2>2
<1> HIDE DEF rec
<1> QED
  BY <1>7, <1>8

(***************************************************************************)
(* bit_flip_masks leaves out no mask of at most radius bits.               *)
(***************************************************************************)
LEMMA MasksComplete ==
    ASSUME NEW width \in Nat, NEW radius \in Nat, NEW m \in SUBSET (0 .. width - 1),
           Cardinality(m) <= radius
    PROVE  m \in bit_flip_masks(width, radius)
<1>1. PICK f : /\ f[0] = {{}}
               /\ \A n \in 1 .. radius : f[n] = NextLevel(f[n - 1], width)
               /\ bit_flip_masks(width, radius) = UNION {f[n] : n \in 0 .. radius}
  BY MasksAre
<1> DEFINE Masks == SUBSET (0 .. width - 1)
           T == {n \in 0 .. radius : \A x \in Masks : Cardinality(x) = n => x \in f[n]}
<1>2. \A x \in Masks : IsFiniteSet(x) /\ Cardinality(x) \in Nat
  <2>1. IsFiniteSet(0 .. width - 1)
    BY FS_Interval
  <2> QED
    BY <2>1, FS_Subset, FS_CardinalityType
<1>3. 0 \in T
  <2>1. \A x \in Masks : Cardinality(x) = 0 => x = {}
    BY <1>2, FS_EmptySet
  <2>2. {} \in f[0] /\ 0 \in 0 .. radius
    BY <1>1
  <2> HIDE DEF Masks
  <2> QED
    BY <2>1, <2>2, Zenon
<1>4. ASSUME NEW n \in 1 .. radius, n - 1 \in T PROVE n \in T
  <2>1. SUFFICES ASSUME NEW x \in Masks, Cardinality(x) = n PROVE x \in f[n]
    OBVIOUS
  <2>2. PICK h : h = Highest(x, width)
    OBVIOUS
  <2>3. h \in 0 .. width /\ (\A b \in x : b < h) /\ (h = 0 \/ h - 1 \in x)
    BY <2>2, HighestIs
  <2>4. x # {}
    BY <2>1, FS_EmptySet
  <2>5. h # 0 /\ h - 1 \in x
    <3>1. PICK b \in x : TRUE
      BY <2>4
    <3>2. b \in Nat /\ b < h
      BY <2>3
    <3> QED
      BY <2>3, <3>2
  <2> DEFINE rest == x \ {h - 1}
  <2>6. rest \in Masks /\ Cardinality(rest) = n - 1
    <3>1. Cardinality(rest) = Cardinality(x) - 1
      BY <1>2, <2>5, FS_RemoveElement
    <3> QED
      BY <2>1, <3>1
  <2>7. rest \in f[n - 1]
    BY <1>4, <2>6
  <2>8. h - 1 \in Highest(rest, width) .. width - 1
    <3>1. PICK g : g = Highest(rest, width)
      OBVIOUS
    <3>2. g \in 0 .. width /\ (g = 0 \/ g - 1 \in rest)
      <4> HIDE DEF rest
      <4> QED
        BY <2>6, <3>1, HighestIs
    <3>3. g <= h - 1
      BY <2>3, <2>5, <3>2
    <3> QED
      BY <2>3, <2>5, <3>1, <3>2, <3>3
  <2>9. x = rest \union {h - 1}
    BY <2>5
  <2> HIDE DEF rest
  <2>10. x \in NextLevel(f[n - 1], width)
    <3>1. \E y \in f[n - 1] : \E bit \in Highest(y, width) .. width - 1 : x = y \union {bit}
      BY <2>7, <2>8, <2>9, Zenon
    <3> QED
      BY <3>1, NextLevelIs
  <2> QED
    BY <1>1, <2>10
<1>5. \A n \in 0 .. radius : n \in T
  <2> HIDE DEF T
  <2> QED
    BY <1>3, <1>4, UpTo
<1>6. Cardinality(m) \in 0 .. radius
  BY <1>2
<1> QED
  BY <1>1, <1>5, <1>6, Zenon

-----------------------------------------------------------------------------
(***************************************************************************)
(* The bits of a set that lie in a band, and those in the first k bands.   *)
(***************************************************************************)
Part(bits, band) == {b \in bits : Shift(band) <= b /\ b < Shift(band) + band_width}

FirstBands(bits, k) == {b \in bits : CONTENT_CODE_BITS - band_width * k <= b}

(***************************************************************************)
(* A set of bits that has more than probe bits in each of the first k      *)
(* bands has at least k * (probe + 1) of them: the bands do not overlap.   *)
(***************************************************************************)
LEMMA CrowdedBands ==
    ASSUME NEW D \in Codes, NEW probe \in Nat,
           \A band \in 0 .. NumBands - 1 : Cardinality(Part(D, band)) > probe
    PROVE  IsFiniteSet(D) /\ Cardinality(D) >= NumBands * (probe + 1)
<1>1. /\ band_width \in Nat \ {0} /\ NumBands \in Nat \ {0} /\ CONTENT_CODE_BITS \in Nat
      /\ CONTENT_CODE_BITS = band_width * NumBands
  BY BandWidth
<1>2. IsFiniteSet(D) /\ D \subseteq 0 .. CONTENT_CODE_BITS - 1
  <2>1. IsFiniteSet(0 .. CONTENT_CODE_BITS - 1)
    BY <1>1, FS_Interval
  <2> QED
    BY <2>1, FS_Subset DEF Codes
<1>3. \A S \in SUBSET D : IsFiniteSet(S) /\ Cardinality(S) \in Nat
  BY <1>2, FS_Subset, FS_CardinalityType
<1> DEFINE T == {k \in 0 .. NumBands : Cardinality(FirstBands(D, k)) >= k * (probe + 1)}
<1>4. 0 \in T
  <2>1. FirstBands(D, 0) \in SUBSET D
    BY DEF FirstBands
  <2>2. Cardinality(FirstBands(D, 0)) \in Nat
    BY <1>3, <2>1
  <2> QED
    BY <1>1, <2>2
<1>5. ASSUME NEW k \in 1 .. NumBands, k - 1 \in T PROVE k \in T
  <2>1. k - 1 \in 0 .. NumBands - 1 /\ k \in Nat /\ k \in 0 .. NumBands
    BY <1>1
  <2>2. PICK band \in 0 .. NumBands - 1 : band = k - 1
    BY <2>1
  <2>3. /\ Shift(band) \in Nat
        /\ Shift(band) + band_width = CONTENT_CODE_BITS - band_width * band
        /\ Shift(band) = CONTENT_CODE_BITS - band_width * (band + 1)
    BY ShiftIs DEF Shift
  <2>4. PICK lo, hi : lo = CONTENT_CODE_BITS - band_width * k /\ hi = CONTENT_CODE_BITS - band_width * (k - 1)
    OBVIOUS
  <2>5. lo = Shift(band) /\ hi = Shift(band) + band_width /\ band + 1 = k
    BY <2>1, <2>2, <2>3, <2>4
  <2>6. lo \in Nat /\ hi = lo + band_width
    BY <2>3, <2>5
  <2>7. /\ FirstBands(D, k) = {b \in D : lo <= b} /\ FirstBands(D, k - 1) = {b \in D : hi <= b}
        /\ Part(D, band) = {b \in D : lo <= b /\ b < hi}
    BY <2>4, <2>5 DEF FirstBands, Part
  <2>8. /\ FirstBands(D, k) = FirstBands(D, k - 1) \union Part(D, band)
        /\ FirstBands(D, k - 1) \intersect Part(D, band) = {}
    <3>1. \A b \in D : b \in Nat
      BY <1>2
    <3> QED
      BY <1>1, <2>6, <2>7, <3>1
  <2>9. FirstBands(D, k - 1) \in SUBSET D /\ Part(D, band) \in SUBSET D
    BY <2>7
  <2>10. PICK a, c : a = Cardinality(FirstBands(D, k - 1)) /\ c = Cardinality(Part(D, band))
    OBVIOUS
  <2>11. a \in Nat /\ c \in Nat /\ c >= probe + 1
    BY <1>3, <2>9, <2>10
  <2>12. Cardinality(FirstBands(D, k)) = a + c
    <3>1. IsFiniteSet(FirstBands(D, k - 1)) /\ IsFiniteSet(Part(D, band))
      BY <1>3, <2>9
    <3>2. Cardinality(FirstBands(D, k - 1) \union Part(D, band)) =
            a + c - Cardinality(FirstBands(D, k - 1) \intersect Part(D, band))
      BY <2>10, <3>1, FS_Union
    <3>3. Cardinality(FirstBands(D, k - 1) \intersect Part(D, band)) = 0
      BY <2>8, FS_EmptySet
    <3> QED
      BY <2>8, <2>11, <3>2, <3>3
  <2>13. a >= (k - 1) * (probe + 1)
    BY <1>5, <2>10
  <2>14. k * (probe + 1) = (k - 1) * (probe + 1) + (probe + 1)
    BY <2>1
  <2>15. PICK u, v : u = (k - 1) * (probe + 1) /\ v = k * (probe + 1)
    OBVIOUS
  <2>16. u \in Nat /\ v = u + probe + 1
    BY <2>1, <2>14, <2>15
  <2>17. a + c >= v
    BY <2>11, <2>13, <2>15, <2>16
  <2> QED
    BY <2>1, <2>12, <2>15, <2>17
<1>6. NumBands \in T
  <2>1. NumBands \in 0 .. NumBands
    BY <1>1
  <2> HIDE DEF T
  <2> QED
    BY <1>1, <1>4, <1>5, <2>1, UpTo
<1>7. FirstBands(D, NumBands) = D
  <2>1. CONTENT_CODE_BITS - band_width * NumBands = 0
    BY <1>1
  <2>2. \A b \in D : 0 <= b
    BY <1>2
  <2> QED
    BY <2>1, <2>2 DEF FirstBands
<1> QED
  BY <1>2, <1>6, <1>7

\* Where two codes differ.
Differing(a, c) == (a \ c) \union (c \ a)

\* The bits of a band's value that have to be flipped.
Flip(D, band) == {b - Shift(band) : b \in Part(D, band)}

(***************************************************************************)
(* The value of a band, bit by bit.                                        *)
(***************************************************************************)
LEMMA BandBits ==
    ASSUME NEW code \in Codes, NEW band \in 0 .. NumBands - 1
    PROVE  /\ band_value(code, band) = Flip(code, band)
           /\ \A x : x \in Flip(code, band) <=> x \in 0 .. band_width - 1 /\ x + Shift(band) \in code
<1>1. Shift(band) \in Nat /\ band_width \in Nat
  BY ShiftIs, BandWidth
<1>2. \A b \in code : b \in Nat
  BY DEF Codes
<1>3. band_value(code, band) = Flip(code, band)
  BY DEF band_value, Flip, Part, Shift
<1>4. ASSUME NEW x \in Flip(code, band)
      PROVE  x \in 0 .. band_width - 1 /\ x + Shift(band) \in code
  <2>1. PICK b \in code : Shift(band) <= b /\ b < Shift(band) + band_width /\ x = b - Shift(band)
    BY DEF Flip, Part
  <2>2. b \in Nat
    BY <1>2
  <2>3. x + Shift(band) = b
    BY <1>1, <2>1, <2>2
  <2> QED
    BY <1>1, <2>1, <2>2, <2>3
<1>5. ASSUME NEW x \in 0 .. band_width - 1, x + Shift(band) \in code
      PROVE  x \in Flip(code, band)
  <2>1. PICK b \in code : b = x + Shift(band)
    BY <1>5
  <2>2. b \in Part(code, band) /\ x = b - Shift(band)
    BY <1>1, <1>2, <2>1 DEF Part
  <2> QED
    BY <2>2 DEF Flip
<1> QED
  BY <1>3, <1>4, <1>5

(***************************************************************************)
(* Flipping the differing bits of a band turns one code's value into the   *)
(* other's.                                                                *)
(***************************************************************************)
LEMMA FlipTurns ==
    ASSUME NEW a \in Codes, NEW c \in Codes, NEW band \in 0 .. NumBands - 1
    PROVE  LET flip == Flip(Differing(a, c), band)
           IN  band_value(c, band) = (band_value(a, band) \ flip) \union (flip \ band_value(a, band))
<1>1. Differing(a, c) \in Codes
  BY DEF Differing, Codes
<1>2. PICK D : D = Differing(a, c)
  OBVIOUS
<1>3. \A x : x \in D <=> (x \in a /\ x \notin c) \/ (x \in c /\ x \notin a)
  BY <1>2 DEF Differing
<1>4. \A x : x \in Flip(D, band) <=> x \in 0 .. band_width - 1 /\ x + Shift(band) \in D
  BY <1>1, <1>2, BandBits
<1>5. \A x : /\ x \in band_value(a, band) <=> x \in 0 .. band_width - 1 /\ x + Shift(band) \in a
             /\ x \in band_value(c, band) <=> x \in 0 .. band_width - 1 /\ x + Shift(band) \in c
  BY BandBits
<1>6. \A x : x \in band_value(c, band) <=>
               (x \in band_value(a, band) /\ x \notin Flip(D, band)) \/
               (x \in Flip(D, band) /\ x \notin band_value(a, band))
  BY <1>3, <1>4, <1>5, Zenon
<1> QED
  BY <1>2, <1>6

(***************************************************************************)
(* As many bits are flipped as differ in the band, or fewer.               *)
(***************************************************************************)
LEMMA FlipCounted ==
    ASSUME NEW D \in Codes, NEW band \in 0 .. NumBands - 1
    PROVE  /\ Flip(D, band) \in SUBSET (0 .. band_width - 1)
           /\ Cardinality(Flip(D, band)) \in Nat /\ Cardinality(Part(D, band)) \in Nat
           /\ Cardinality(Flip(D, band)) <= Cardinality(Part(D, band))
           /\ Cardinality(Flip(D, band)) <= band_width
<1>1. band_width \in Nat \ {0} /\ CONTENT_CODE_BITS \in Nat
  BY BandWidth
<1>2. Flip(D, band) \in SUBSET (0 .. band_width - 1)
  BY BandBits
<1>3. IsFiniteSet(Part(D, band))
  <2>1. IsFiniteSet(0 .. CONTENT_CODE_BITS - 1)
    BY <1>1, FS_Interval
  <2>2. Part(D, band) \in SUBSET (0 .. CONTENT_CODE_BITS - 1)
    BY DEF Part, Codes
  <2> QED
    BY <2>1, <2>2, FS_Subset
<1>4. [b \in Part(D, band) |-> b - Shift(band)] \in Surjection(Part(D, band), Flip(D, band))
  BY DEF Flip, Surjection
<1>5. Cardinality(Flip(D, band)) <= Cardinality(Part(D, band))
  BY <1>3, <1>4, FS_Surjection
<1>6. IsFiniteSet(0 .. band_width - 1) /\ Cardinality(0 .. band_width - 1) = band_width
  BY <1>1, FS_Interval
<1>7. IsFiniteSet(Flip(D, band)) /\ Cardinality(Flip(D, band)) <= band_width
  BY <1>2, <1>6, FS_Subset
<1> QED
  BY <1>2, <1>3, <1>5, <1>7, FS_CardinalityType

(***************************************************************************)
(* Below bands * (probe + 1) differing bits, some bucket of the one code   *)
(* is among those probed for the other.                                    *)
(***************************************************************************)
LEMMA SomeBucketProbed ==
    ASSUME NEW a \in Codes, NEW c \in Codes, NEW probe \in Nat,
           hamming(a, c) < NumBands * (probe + 1)
    PROVE  \E b \in buckets(c) : b \in query_buckets(a, probe)
<1> DEFINE most == IF probe < band_width THEN probe ELSE band_width
<1>1. PICK D \in Codes : D = Differing(a, c)
  BY DEF Differing, Codes
<1>2. hamming(a, c) = Cardinality(D)
  BY <1>1 DEF hamming, Differing
<1>3. \A band \in 0 .. NumBands - 1 : Cardinality(Part(D, band)) \in Nat
  BY FlipCounted
<1>4. PICK band \in 0 .. NumBands - 1 : ~(Cardinality(Part(D, band)) > probe)
  <2>1. SUFFICES ASSUME \A band \in 0 .. NumBands - 1 : Cardinality(Part(D, band)) > probe
                 PROVE  FALSE
    OBVIOUS
  <2>2. IsFiniteSet(D) /\ Cardinality(D) >= NumBands * (probe + 1)
    BY <2>1, CrowdedBands
  <2>3. Cardinality(D) \in Nat
    BY <2>2, FS_CardinalityType
  <2>4. PICK v : v = NumBands * (probe + 1)
    OBVIOUS
  <2>5. v \in Nat
    BY <2>4, BandWidth
  <2> QED
    BY <1>2, <2>2, <2>3, <2>4, <2>5
<1>5. PICK flip : flip = Flip(D, band)
  OBVIOUS
<1>6. /\ flip \in SUBSET (0 .. band_width - 1) /\ Cardinality(flip) \in Nat
      /\ Cardinality(flip) <= Cardinality(Part(D, band)) /\ Cardinality(flip) <= band_width
  BY <1>5, FlipCounted
<1>7. most \in Nat /\ Cardinality(flip) <= most /\ band_width \in Nat
  BY <1>3, <1>4, <1>6, BandWidth
<1> HIDE DEF most
<1>8. flip \in bit_flip_masks(band_width, most)
  BY <1>6, <1>7, MasksComplete
<1>9. band_value(c, band) = (band_value(a, band) \ flip) \union (flip \ band_value(a, band))
  BY <1>1, <1>5, FlipTurns
<1>10. <<band, band_value(c, band)>> \in buckets(c)
  BY DEF buckets
<1>11. <<band, band_value(c, band)>> \in query_buckets(a, probe)
  <2> DEFINE probed(k, f) == <<k, (band_value(a, k) \ f) \union (f \ band_value(a, k))>>
             masks == bit_flip_masks(band_width, most)
  <2>1. query_buckets(a, probe) = UNION {{probed(k, f) : f \in masks} : k \in 0 .. NumBands - 1}
    BY DEF query_buckets, most
  <2>2. <<band, band_value(c, band)>> = probed(band, flip)
    BY <1>9
  <2> HIDE DEF probed, masks
  <2>3. probed(band, flip) \in {probed(band, f) : f \in masks}
    BY <1>8, Zenon DEF masks
  <2>4. probed(band, flip) \in UNION {{probed(k, f) : f \in masks} : k \in 0 .. NumBands - 1}
    BY <2>3, Zenon
  <2> QED
    BY <2>1, <2>2, <2>4
<1> QED
  BY <1>10, <1>11

\* The members a verification has left to choose from.
Near(code, candidates, radius) == {m \in candidates : hamming(code, m.content_code) <= radius}

(***************************************************************************)
(* A distance is a natural number.                                         *)
(***************************************************************************)
LEMMA HammingIsNat ==
    ASSUME NEW a \in Codes, NEW b \in Codes
    PROVE  hamming(a, b) \in Nat
<1>1. CONTENT_CODE_BITS \in Nat
  BY BandWidth
<1>2. IsFiniteSet(0 .. CONTENT_CODE_BITS - 1)
  BY <1>1, FS_Interval
<1>3. Differing(a, b) \in SUBSET (0 .. CONTENT_CODE_BITS - 1)
  BY DEF Codes, Differing
<1>4. Cardinality(Differing(a, b)) \in Nat
  BY <1>2, <1>3, FS_Subset, FS_CardinalityType
<1> QED
  BY <1>4 DEF hamming, Differing

(***************************************************************************)
(* verify looks at the members within the radius and at no others.         *)
(***************************************************************************)
LEMMA VerifySeesNear ==
    ASSUME NEW code, NEW radius, NEW S, NEW R, Near(code, S, radius) = Near(code, R, radius)
    PROVE  verify(code, S, radius) = verify(code, R, radius)
<1> DEFINE best(near) ==
             {[key |-> m.key, distance |-> hamming(code, m.content_code)] :
                m \in {n \in near : \A o \in near : o.key = n.key =>
                         hamming(code, n.content_code) <= hamming(code, o.content_code)}}
<1>1. verify(code, S, radius) = best(Near(code, S, radius))
  BY DEF verify, Near
<1>2. verify(code, R, radius) = best(Near(code, R, radius))
  BY DEF verify, Near
<1> HIDE DEF best
<1> QED
  BY <1>1, <1>2

(***************************************************************************)
(* What verify returns is the distance of a candidate within the radius.   *)
(***************************************************************************)
LEMMA VerifyIsHonest ==
    ASSUME NEW code, NEW radius, NEW S, NEW r \in verify(code, S, radius)
    PROVE  \E m \in S : /\ m.key = r.key /\ hamming(code, m.content_code) = r.distance
                        /\ r.distance <= radius
<1>1. PICK m \in Near(code, S, radius) :
         r = [key |-> m.key, distance |-> hamming(code, m.content_code)]
  BY DEF verify, Near
<1>2. m \in S /\ hamming(code, m.content_code) <= radius
  BY DEF Near
<1>3. r.key = m.key /\ r.distance = hamming(code, m.content_code)
  BY <1>1
<1> QED
  BY <1>2, <1>3

(***************************************************************************)
(* A query at the published root finds its blobs, returns only delivered   *)
(* members at their distance, and as long as the radius is below           *)
(* bands * (probe + 1) returns exactly what a scan of everything that was  *)
(* delivered would: query, query_buckets and verify together with the      *)
(* index that insert_batch keeps and the sweep leaves.                     *)
(***************************************************************************)
THEOREM SearchIsExactHolds == Spec => []SearchIsExact
<1>1. ASSUME IndexInv PROVE SearchIsExact
  <2>1. SUFFICES ASSUME NEW code \in QueryCodes, NEW radius \in 0 .. SearchMaxRadius,
                        NEW probe \in 0 .. band_width
        PROVE  /\ QueryReadable(code, probe)
               /\ radius < NumBands * (probe + 1) =>
                     similar(code, radius, probe) = verify(code, delivered, radius)
               /\ \A r \in similar(code, radius, probe) : \E m \in delivered :
                     m.key = r.key /\ hamming(code, m.content_code) = r.distance
                     /\ r.distance <= radius
    BY DEF SearchIsExact
  <2>2. code \in Codes /\ SearchMaxRadius \in Nat /\ radius \in Nat /\ radius <= SearchMaxRadius
    BY IsccAssumption
  <2>3. probe \in Nat /\ NumBands * (probe + 1) \in Nat
    BY BandWidth
  <2>4. QueryReadable(code, probe)
    BY <1>1 DEF IndexInv, AllReadable, QueryReadable
  <2> DEFINE candidates == UNION {BucketMembers(b) : b \in query_buckets(code, probe) \intersect Directory}
  <2>5. similar(code, radius, probe) = verify(code, candidates, radius)
    BY <2>2 DEF similar, query
  <2>6. candidates \subseteq delivered
    <3>1. \A b \in Directory : BucketMembers(b) \subseteq delivered
      BY <1>1 DEF IndexInv, TypesHold, AllPlaced, Belong
    <3> QED
      BY <3>1, Zenon
  <2>7. ASSUME radius < NumBands * (probe + 1), NEW m \in delivered,
               hamming(code, m.content_code) <= radius
        PROVE  m \in candidates
    <3>1. m.content_code \in Codes
      BY <1>1 DEF IndexInv, TypesHold, IsccMember
    <3>2. hamming(code, m.content_code) \in Nat
      BY <2>2, <3>1, HammingIsNat
    <3>3. hamming(code, m.content_code) < NumBands * (probe + 1)
      <4>1. PICK v : v = NumBands * (probe + 1)
        OBVIOUS
      <4> QED
        BY <2>2, <2>3, <2>7, <3>2, <4>1
    <3>4. PICK b \in buckets(m.content_code) : b \in query_buckets(code, probe)
      BY <2>2, <2>3, <3>1, <3>3, SomeBucketProbed
    <3>5. b \in BucketIds
      BY <3>1, BucketsTyped
    <3>6. m \in BucketMembers(b)
      BY <1>1, <3>4, <3>5 DEF IndexInv, AllPlaced, Belong
    <3>7. b \in Directory
      <4>1. SUFFICES ASSUME b \notin Directory PROVE FALSE
        OBVIOUS
      <4>2. load_bucket_manifest(b) = EmptyManifest
        BY <4>1 DEF load_bucket_manifest
      <4> QED
        BY <3>6, <4>2, EmptyIsTidy, MembersAre
    <3> QED
      BY <3>4, <3>6, <3>7, Zenon
  <2> HIDE DEF candidates
  <2>8. radius < NumBands * (probe + 1) =>
          similar(code, radius, probe) = verify(code, delivered, radius)
    <3>1. SUFFICES ASSUME radius < NumBands * (probe + 1)
                   PROVE  verify(code, candidates, radius) = verify(code, delivered, radius)
      BY <2>5
    <3>2. Near(code, candidates, radius) = Near(code, delivered, radius)
      BY <2>6, <2>7, <3>1 DEF Near
    <3> QED
      BY <3>2, VerifySeesNear
  <2>9. ASSUME NEW r \in similar(code, radius, probe)
        PROVE  \E m \in delivered : m.key = r.key /\ hamming(code, m.content_code) = r.distance
                                    /\ r.distance <= radius
    BY <2>5, <2>6, VerifyIsHonest
  <2> QED
    BY <2>4, <2>8, <2>9
<1> QED
  BY <1>1, IndexInvariant, PTL

-----------------------------------------------------------------------------
(***************************************************************************)
(* The viewer's scan.  Below: the hits that come before a hit; Rank: how   *)
(* many they are; Nth: the hit at a place of the sorted list.              *)
(***************************************************************************)
Below(codes, code, hits, i) == {j \in hits : Before(codes, code, j, i)}

Rank(codes, code, hits, i) == Cardinality(Below(codes, code, hits, i))

Nth(codes, code, hits, n) == CHOOSE i \in hits : Rank(codes, code, hits, i) = n - 1

\* How far the code at a place of the list is.
At(codes, code, i) == hamming(code, codes[i].content_code)

\* An answer: as many of the near members as were asked for, each once and
\* none that is left is nearer.
Answers(found, near, code, limit) ==
    /\ Len(found) = IF Cardinality(near) < limit THEN Cardinality(near) ELSE limit
    /\ \A i \in DOMAIN found :
          /\ found[i] \in near \ {found[h] : h \in 1 .. i - 1}
          /\ \A m \in near \ {found[h] : h \in 1 .. i} :
                hamming(code, found[i].content_code) <= hamming(code, m.content_code)

FinitelyMany == IsFiniteSet(delivered)

(***************************************************************************)
(* A hit that comes before another one has the smaller rank.               *)
(***************************************************************************)
LEMMA RankGrows ==
    ASSUME NEW codes, NEW code, NEW hits, hits \subseteq Nat, IsFiniteSet(hits),
           \A k \in hits : At(codes, code, k) \in Nat,
           NEW i \in hits, NEW j \in hits, Before(codes, code, i, j)
    PROVE  Rank(codes, code, hits, i) < Rank(codes, code, hits, j)
<1>1. PICK bi, bj : bi = Below(codes, code, hits, i) /\ bj = Below(codes, code, hits, j)
  OBVIOUS
<1>2. bi \subseteq bj
  <2>1. SUFFICES ASSUME NEW h \in hits, Before(codes, code, h, i)
                 PROVE  Before(codes, code, h, j)
    BY <1>1, <2>1 DEF Below
  <2>2. PICK dh \in Nat, di \in Nat, dj \in Nat :
          dh = At(codes, code, h) /\ di = At(codes, code, i) /\ dj = At(codes, code, j)
    OBVIOUS
  <2>3. (dh < di \/ (dh = di /\ h < i)) /\ (di < dj \/ (di = dj /\ i < j))
    BY <2>1, <2>2 DEF Before, At
  <2>4. dh < dj \/ (dh = dj /\ h < j)
    BY <2>3
  <2> QED
    BY <2>2, <2>4 DEF Before, At
<1>3. i \in bj /\ i \notin bi
  BY <1>1 DEF Below, Before, At
<1>4. IsFiniteSet(bj) /\ Cardinality(bj) \in Nat
  <2>1. bj \in SUBSET hits
    BY <1>1 DEF Below
  <2> QED
    BY <2>1, FS_Subset, FS_CardinalityType
<1>5. IsFiniteSet(bi) /\ Cardinality(bi) \in Nat /\ Cardinality(bi) <= Cardinality(bj)
      /\ Cardinality(bi) # Cardinality(bj)
  <2>1. bi \in SUBSET bj
    BY <1>2
  <2>2. IsFiniteSet(bi) /\ Cardinality(bi) <= Cardinality(bj)
        /\ (Cardinality(bj) = Cardinality(bi) => bj = bi)
    BY <1>4, <2>1, FS_Subset
  <2> QED
    BY <1>3, <2>2, FS_CardinalityType
<1> QED
  BY <1>1, <1>4, <1>5 DEF Rank

(***************************************************************************)
(* Every place of the sorted list has its one hit: ranks are different     *)
(* and below the number of hits, so none is left out.                      *)
(***************************************************************************)
LEMMA RanksFill ==
    ASSUME NEW codes, NEW code, NEW hits, hits \subseteq Nat, IsFiniteSet(hits),
           \A k \in hits : At(codes, code, k) \in Nat
    PROVE  /\ Cardinality(hits) \in Nat
           /\ \A i \in hits : Rank(codes, code, hits, i) \in 0 .. Cardinality(hits) - 1
           /\ \A i, j \in hits : Rank(codes, code, hits, i) = Rank(codes, code, hits, j) => i = j
           /\ \A n \in 1 .. Cardinality(hits) :
                 /\ Nth(codes, code, hits, n) \in hits
                 /\ Rank(codes, code, hits, Nth(codes, code, hits, n)) = n - 1
<1>1. Cardinality(hits) \in Nat
  BY FS_CardinalityType
<1>2. ASSUME NEW i \in hits PROVE Rank(codes, code, hits, i) \in 0 .. Cardinality(hits) - 1
  <2>1. PICK bi : bi = Below(codes, code, hits, i)
    OBVIOUS
  <2>2. bi \in SUBSET hits /\ i \notin bi
    BY <2>1 DEF Below, Before, At
  <2>3. IsFiniteSet(bi) /\ Cardinality(bi) <= Cardinality(hits)
        /\ (Cardinality(hits) = Cardinality(bi) => hits = bi)
    BY <2>2, FS_Subset
  <2>4. Cardinality(bi) \in Nat
    BY <2>3, FS_CardinalityType
  <2>5. Cardinality(bi) \in 0 .. Cardinality(hits) - 1
    BY <1>1, <2>2, <2>3, <2>4
  <2> QED
    BY <2>1, <2>5 DEF Rank
<1>3. ASSUME NEW i \in hits, NEW j \in hits,
             Rank(codes, code, hits, i) = Rank(codes, code, hits, j)
      PROVE  i = j
  <2>1. SUFFICES ASSUME i # j PROVE FALSE
    OBVIOUS
  <2>2. Before(codes, code, i, j) \/ Before(codes, code, j, i)
    BY <2>1 DEF Before, At
  <2>3. Rank(codes, code, hits, i) < Rank(codes, code, hits, j)
        \/ Rank(codes, code, hits, j) < Rank(codes, code, hits, i)
    BY <2>2, RankGrows
  <2> QED
    BY <1>2, <1>3, <2>3
<1>4. ASSUME NEW n \in 1 .. Cardinality(hits)
      PROVE  \E i \in hits : Rank(codes, code, hits, i) = n - 1
  <2>1. PICK c : c = Cardinality(hits)
    OBVIOUS
  <2>2. PICK T : T = 0 .. c - 1
    OBVIOUS
  <2>3. IsFiniteSet(T) /\ Cardinality(T) = c
    BY <1>1, <2>1, <2>2, FS_Interval
  <2>4. PICK f : f = [i \in hits |-> Rank(codes, code, hits, i)]
    OBVIOUS
  <2>5. f \in [hits -> T] /\ \A i \in hits : f[i] = Rank(codes, code, hits, i)
    BY <1>2, <2>1, <2>2, <2>4
  <2>6. \A i, j \in hits : f[i] = f[j] => i = j
    BY <1>3, <2>5
  <2>7. f \in Injection(hits, T)
    BY <2>5, <2>6, Fun_IsInj
  <2>8. f \in Surjection(hits, T)
    BY <2>1, <2>3, <2>7, FS_Injection
  <2>9. \A t \in T : \E i \in hits : f[i] = t
    BY <2>8, Fun_SurjectionProperties
  <2>10. n - 1 \in T
    BY <1>1, <1>4, <2>1, <2>2
  <2> QED
    BY <2>5, <2>9, <2>10
<1>5. ASSUME NEW n \in 1 .. Cardinality(hits)
      PROVE  /\ Nth(codes, code, hits, n) \in hits
             /\ Rank(codes, code, hits, Nth(codes, code, hits, n)) = n - 1
  BY <1>4 DEF Nth
<1> QED
  BY <1>1, <1>2, <1>3, <1>5

(***************************************************************************)
(* An order of a finite set lists each of its members once.                *)
(***************************************************************************)
LEMMA OrderLists ==
    ASSUME NEW S, IsFiniteSet(S), NEW codes \in SetToSeqs(S)
    PROVE  /\ Cardinality(S) \in Nat
           /\ codes \in [1 .. Cardinality(S) -> S]
           /\ \A i, j \in 1 .. Cardinality(S) : codes[i] = codes[j] => i = j
           /\ \A m \in S : \E i \in 1 .. Cardinality(S) : codes[i] = m
<1>1. PICK c : c = Cardinality(S)
  OBVIOUS
<1>2. c \in Nat
  BY <1>1, FS_CardinalityType
<1>3. codes \in [1 .. c -> S] /\ \A i, j \in 1 .. c : codes[i] = codes[j] => i = j
  BY <1>1 DEF SetToSeqs
<1>4. PICK D : D = 1 .. c
  OBVIOUS
<1>5. IsFiniteSet(D) /\ Cardinality(D) = c
  BY <1>2, <1>4, FS_Interval
<1>6. codes \in Injection(D, S)
  BY <1>3, <1>4, Fun_IsInj
<1>7. codes \in Surjection(D, S)
  BY <1>1, <1>5, <1>6, FS_Injection
<1>8. \A m \in S : \E i \in D : codes[i] = m
  BY <1>7, Fun_SurjectionProperties
<1> QED
  BY <1>1, <1>2, <1>3, <1>4, <1>8

(***************************************************************************)
(* There are as many matching places as matching members.                  *)
(***************************************************************************)
LEMMA MatchesCounted ==
    ASSUME NEW S, IsFiniteSet(S), NEW codes \in SetToSeqs(S), NEW code, NEW radius,
           NEW near, near = {m \in S : hamming(code, m.content_code) <= radius},
           NEW places, places = Matches(codes, code, radius)
    PROVE  /\ places \subseteq 1 .. Cardinality(S) /\ IsFiniteSet(places)
           /\ \A i \in places : codes[i] \in near
           /\ \A m \in near : \E i \in places : codes[i] = m
           /\ Cardinality(places) = Cardinality(near)
<1>1. PICK c \in Nat : c = Cardinality(S)
  BY OrderLists
<1>2. codes \in [1 .. c -> S] /\ (\A i, j \in 1 .. c : codes[i] = codes[j] => i = j)
      /\ \A m \in S : \E i \in 1 .. c : codes[i] = m
  BY <1>1, OrderLists
<1>3. places = {i \in 1 .. c : hamming(code, codes[i].content_code) <= radius}
  BY <1>2 DEF Matches
<1>4. places \subseteq 1 .. c
  BY <1>3
<1>5. IsFiniteSet(places)
  <2>1. IsFiniteSet(1 .. c)
    BY <1>1, FS_Interval
  <2> QED
    BY <1>4, <2>1, FS_Subset
<1>6. \A i \in places : codes[i] \in near
  BY <1>2, <1>3
<1>7. \A m \in near : \E i \in places : codes[i] = m
  BY <1>2, <1>3
<1>8. PICK f : f = [i \in places |-> codes[i]]
  OBVIOUS
<1>9. f \in [places -> near] /\ \A i \in places : f[i] = codes[i]
  BY <1>6, <1>8
<1>10. f \in Injection(places, near)
  <2>1. \A i, j \in places : f[i] = f[j] => i = j
    BY <1>2, <1>4, <1>9
  <2> QED
    BY <1>9, <2>1, Fun_IsInj
<1>11. f \in Surjection(places, near)
  <2>1. \A m \in near : \E i \in places : f[i] = m
    BY <1>7, <1>9
  <2> QED
    BY <1>9, <2>1, Fun_IsSurj
<1>12. Cardinality(places) = Cardinality(near)
  BY <1>5, <1>10, <1>11, FS_Surjection
<1> QED
  BY <1>1, <1>4, <1>5, <1>6, <1>7, <1>12

(***************************************************************************)
(* Stopping at n hits leaves nothing out of places that are no more.       *)
(***************************************************************************)
LEMMA NothingCutOff ==
    ASSUME NEW places, places \subseteq Nat, IsFiniteSet(places),
           NEW n \in Nat, Cardinality(places) <= n
    PROVE  FirstPlaces(places, n) = places
<1>1. SUFFICES ASSUME NEW i \in places PROVE Cardinality({j \in places : j < i}) < n
  BY <1>1 DEF FirstPlaces
<1>2. PICK less : less = {j \in places : j < i}
  OBVIOUS
<1>3. less \in SUBSET places /\ i \notin less
  BY <1>2
<1>4. IsFiniteSet(less) /\ Cardinality(less) <= Cardinality(places)
      /\ (Cardinality(places) = Cardinality(less) => places = less)
  BY <1>3, FS_Subset
<1>5. Cardinality(less) \in Nat /\ Cardinality(places) \in Nat
  BY <1>4, FS_CardinalityType
<1>6. Cardinality(less) < n
  BY <1>3, <1>4, <1>5
<1> QED
  BY <1>2, <1>6

(***************************************************************************)
(* What the scan answers with when the matches fit: its i-th entry is the  *)
(* code at the i-th of the sorted matching places.                         *)
(***************************************************************************)
LEMMA ScanIs ==
    ASSUME NEW codes, NEW code, NEW radius, NEW limit \in Nat, NEW c \in Nat,
           NEW places, places = FirstPlaces(Matches(codes, code, radius), MAX_HITS),
           Cardinality(places) = c,
           NEW k, k = IF c < limit THEN c ELSE limit,
           NEW found, found = scan(codes, code, radius, limit)
    PROVE  /\ DOMAIN found = 1 .. k /\ Len(found) = k
           /\ \A i \in 1 .. k : found[i] = codes[Nth(codes, code, places, i)]
<1>1. PICK sorted : sorted = [n \in 1 .. c |-> codes[Nth(codes, code, places, n)]]
  OBVIOUS
<1>2. Sorted(codes, code, places) = sorted
  BY <1>1 DEF Sorted, Nth, Rank, Below
<1>3. found = FirstOf(limit, sorted)
  BY <1>2 DEF scan
<1>4. Len(sorted) = c
  BY <1>1
<1>5. k \in 0 .. c
  OBVIOUS
<1>6. found = SubSeq(sorted, 1, k)
  BY <1>3, <1>4 DEF FirstOf
<1>7. found = [i \in 1 .. k |-> sorted[i]]
  BY <1>1, <1>4, <1>5, <1>6
<1> QED
  BY <1>1, <1>5, <1>7

(***************************************************************************)
(* The scan over any order of a finite set of members, when the matches    *)
(* fit: as many as were asked for, each a match not given before, and none *)
(* that is left is nearer.                                                 *)
(***************************************************************************)
LEMMA ScanOfSet ==
    ASSUME NEW S, IsFiniteSet(S), S \subseteq IsccMember, NEW codes \in SetToSeqs(S),
           NEW code \in Codes, NEW radius \in Nat, NEW limit \in Nat,
           NEW near, near = {m \in S : hamming(code, m.content_code) <= radius},
           Cardinality(near) <= MAX_HITS,
           NEW found, found = scan(codes, code, radius, limit)
    PROVE  Answers(found, near, code, limit)
<1>1. PICK places : places = Matches(codes, code, radius)
  OBVIOUS
<1>2. /\ places \subseteq 1 .. Cardinality(S) /\ IsFiniteSet(places)
      /\ \A i \in places : codes[i] \in near
      /\ \A m \in near : \E i \in places : codes[i] = m
      /\ Cardinality(places) = Cardinality(near)
  BY <1>1, MatchesCounted
<1>3. Cardinality(S) \in Nat /\ \A i, j \in 1 .. Cardinality(S) : codes[i] = codes[j] => i = j
  BY OrderLists
<1>4. PICK c \in Nat : c = Cardinality(places)
  BY <1>2, FS_CardinalityType
<1>5. places \subseteq Nat
  BY <1>2, <1>3
<1>6. places = FirstPlaces(Matches(codes, code, radius), MAX_HITS)
  <2>1. MAX_HITS \in Nat
    BY IsccAssumption
  <2>2. FirstPlaces(places, MAX_HITS) = places
    BY <1>2, <1>5, <2>1, NothingCutOff
  <2> QED
    BY <1>1, <2>2
<1>7. \A i \in places : At(codes, code, i) \in Nat
  <2>1. ASSUME NEW i \in places PROVE codes[i].content_code \in Codes
    BY <1>2 DEF IsccMember
  <2> QED
    BY <2>1, HammingIsNat DEF At
<1>8. PICK k : k = IF c < limit THEN c ELSE limit
  OBVIOUS
<1>9. /\ DOMAIN found = 1 .. k /\ Len(found) = k
      /\ \A i \in 1 .. k : found[i] = codes[Nth(codes, code, places, i)]
  BY <1>4, <1>6, <1>8, ScanIs
<1>10. /\ \A i \in places : Rank(codes, code, places, i) \in 0 .. c - 1
       /\ \A i, j \in places : Rank(codes, code, places, i) = Rank(codes, code, places, j) => i = j
       /\ \A n \in 1 .. c : /\ Nth(codes, code, places, n) \in places
                            /\ Rank(codes, code, places, Nth(codes, code, places, n)) = n - 1
  BY <1>2, <1>4, <1>5, <1>7, RanksFill
<1>11. k \in Nat /\ k <= c
  BY <1>8
<1>12. ASSUME NEW i \in 1 .. k
       PROVE  found[i] \in near /\ found[i] \notin {found[h] : h \in 1 .. i - 1}
  <2>1. PICK p \in places : p = Nth(codes, code, places, i)
    BY <1>10, <1>11
  <2>2. found[i] = codes[p]
    BY <1>9, <2>1
  <2>3. ASSUME NEW h \in 1 .. i - 1, found[h] = found[i] PROVE FALSE
    <3>1. h \in 1 .. k /\ h \in 1 .. c /\ i \in 1 .. c /\ h # i
      BY <1>11
    <3>2. PICK q \in places : q = Nth(codes, code, places, h)
      BY <1>10, <3>1
    <3>3. found[h] = codes[q]
      BY <1>9, <3>1, <3>2
    <3>4. p = q
      BY <1>2, <1>3, <2>2, <2>3, <3>3
    <3>5. Rank(codes, code, places, p) = i - 1 /\ Rank(codes, code, places, q) = h - 1
      BY <1>10, <2>1, <3>1, <3>2
    <3> QED
      BY <3>1, <3>4, <3>5
  <2> QED
    BY <1>2, <2>2, <2>3
<1>13. ASSUME NEW i \in 1 .. k, NEW m \in near, m \notin {found[h] : h \in 1 .. i}
       PROVE  hamming(code, found[i].content_code) <= hamming(code, m.content_code)
  <2>1. PICK p \in places : p = Nth(codes, code, places, i)
    BY <1>10, <1>11
  <2>2. found[i] = codes[p] /\ Rank(codes, code, places, p) = i - 1
    BY <1>9, <1>10, <1>11, <2>1
  <2>3. PICK q \in places : codes[q] = m
    BY <1>2
  <2>4. PICK r \in 0 .. c - 1 : r = Rank(codes, code, places, q)
    BY <1>10
  <2>5. r >= i
    <3>1. SUFFICES ASSUME r < i PROVE FALSE
      BY <2>4
    <3>2. r + 1 \in 1 .. i /\ r + 1 \in 1 .. k /\ r + 1 \in 1 .. c
      BY <1>11, <3>1
    <3>3. PICK q1 \in places : q1 = Nth(codes, code, places, r + 1)
      BY <1>10, <3>2
    <3>4. Rank(codes, code, places, q1) = r + 1 - 1
      BY <1>10, <3>2, <3>3
    <3>5. q1 = q
      BY <1>10, <2>4, <3>4
    <3>6. found[r + 1] = m
      BY <1>9, <2>3, <3>2, <3>3, <3>5
    <3> QED
      BY <1>13, <3>2, <3>6
  <2>6. ~Before(codes, code, q, p)
    <3>1. Before(codes, code, q, p) =>
            Rank(codes, code, places, q) < Rank(codes, code, places, p)
      BY <1>2, <1>5, <1>7, RankGrows
    <3> QED
      BY <2>2, <2>4, <2>5, <3>1
  <2>7. At(codes, code, p) <= At(codes, code, q)
    BY <1>7, <2>6 DEF Before, At
  <2> QED
    BY <2>2, <2>3, <2>7 DEF At
<1> QED
  BY <1>2, <1>4, <1>8, <1>9, <1>12, <1>13 DEF Answers

(***************************************************************************)
(* A sequence has finitely many members.                                   *)
(***************************************************************************)
LEMMA FiniteMembers ==
    ASSUME NEW T, NEW n \in Nat, NEW seq \in [1 .. n -> T]
    PROVE  IsFiniteSet(ToSet(seq))
<1>1. PICK D : D = 1 .. n
  OBVIOUS
<1>2. IsFiniteSet(D) /\ seq \in [D -> T]
  BY <1>1, FS_Interval
<1>3. seq \in Surjection(D, Range(seq))
  BY <1>2, Fun_RangeProperties
<1>4. IsFiniteSet(Range(seq))
  BY <1>2, <1>3, FS_Surjection
<1>5. ToSet(seq) = Range(seq)
  BY DEF ToSet, Range
<1> QED
  BY <1>4, <1>5

(***************************************************************************)
(* What was delivered is finitely many members: batches and old lists are  *)
(* finite, and a run has taken finitely many.                              *)
(***************************************************************************)
LEMMA DeliveredFinite == Spec => []FinitelyMany
<1>1. Init => FinitelyMany
  <2>1. SUFFICES ASSUME NEW list \in LegacyLists \union {<<>>}, delivered = ToSet(list)
                 PROVE  IsFiniteSet(delivered)
    BY <2>1 DEF Init, FinitelyMany
  <2>2. list \in Seq(IsccMember)
    <3>1. LegacyLists \subseteq Seq(IsccMember)
      BY IsccAssumption
    <3>2. CASE list \in LegacyLists
      BY <3>1, <3>2, Zenon
    <3>3. CASE list = <<>>
      BY <3>3
    <3> QED
      BY <3>2, <3>3, Zenon
  <2>3. Len(list) \in Nat /\ list \in [1 .. Len(list) -> IsccMember]
    BY <2>2
  <2> QED
    BY <2>1, <2>3, FiniteMembers
<1>2. FinitelyMany /\ [Next]_vars => FinitelyMany'
  <2>1. SUFFICES ASSUME IsFiniteSet(delivered), [Next]_vars PROVE IsFiniteSet(delivered')
    BY DEF FinitelyMany
  <2>2. ASSUME NEW batch \in Batches, Insert(batch) PROVE IsFiniteSet(delivered')
    <3>1. PICK n \in 1 .. MaxBatch : batch \in [1 .. n -> Members]
      BY DEF Batches
    <3>2. n \in Nat
      BY IsccAssumption
    <3>3. IsFiniteSet(ToSet(batch))
      BY <3>1, <3>2, FiniteMembers
    <3>4. delivered' = delivered \union ToSet(batch)
      BY <2>2 DEF Insert
    <3> QED
      BY <2>1, <3>3, <3>4, FS_Union
  <2>3. ASSUME NEW batch \in Batches, InsertFails(batch) PROVE IsFiniteSet(delivered')
    BY <2>1, <2>3 DEF InsertFails
  <2>4. CASE Sweep
    BY <2>1, <2>4 DEF Sweep
  <2>5. CASE UNCHANGED vars
    BY <2>1, <2>5 DEF vars
  <2> QED
    BY <2>1, <2>2, <2>3, <2>4, <2>5 DEF Next
<1> QED
  BY <1>1, <1>2, PTL DEF Spec

(***************************************************************************)
(* The viewer's search is exact while the matches fit in MAX_HITS: for     *)
(* every number of members, in every order the listings may have them, and *)
(* for every limit, the scan gives the nearest matches, nearest first.     *)
(***************************************************************************)
THEOREM ScanIsExactHolds == Spec => []ScanIsExact
<1>1. IndexInv /\ FinitelyMany => ScanIsExact
  <2>1. SUFFICES ASSUME IndexInv, IsFiniteSet(delivered) PROVE ScanIsExact
    BY DEF FinitelyMany
  <2>2. delivered \subseteq IsccMember
    BY <2>1 DEF IndexInv, TypesHold
  <2>3. ASSUME NEW code \in QueryCodes, NEW radius \in 0 .. SearchMaxRadius,
               Cardinality({m \in delivered : hamming(code, m.content_code) <= radius}) <= MAX_HITS,
               NEW codes \in SetToSeqs(delivered), NEW limit \in 1 .. MAX_HITS
        PROVE  Answers(scan(codes, code, radius, limit),
                       {m \in delivered : hamming(code, m.content_code) <= radius}, code, limit)
    <3>1. code \in Codes /\ radius \in Nat /\ limit \in Nat
      BY IsccAssumption
    <3>2. PICK near : near = {m \in delivered : hamming(code, m.content_code) <= radius}
      OBVIOUS
    <3>3. PICK found : found = scan(codes, code, radius, limit)
      OBVIOUS
    <3>4. Cardinality(near) <= MAX_HITS
      BY <2>3, <3>2
    <3>5. Answers(found, near, code, limit)
      BY <2>1, <2>2, <3>1, <3>2, <3>3, <3>4, ScanOfSet
    <3> QED
      BY <3>2, <3>3, <3>5
  <2> QED
    BY <2>3, Zenon DEF ScanIsExact, Answers
<1> QED
  BY <1>1, IndexInvariant, DeliveredFinite, PTL

=============================================================================
