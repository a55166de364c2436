------------------------- MODULE RegionGroupsProofs -------------------------
(***************************************************************************)
(* The schedule of the regional collector, for any number of regions and   *)
(* any shares of them: every region stays in one group, once; refinement   *)
(* counts the summaries it waits for; and, unless a region becomes         *)
(* infamous after it was chosen, infamy ends by marking only.              *)
(*                                                                         *)
(* What moves regions between groups is reduced to one fact, EnqSomeFacts: *)
(* the regions that were moved are in their new group and all others where *)
(* they were.  After that a state of the summarizer is known by which      *)
(* region is in which group, and Kept says where regions may have gone     *)
(* between two such states; it is transitive, so that the steps of a pass  *)
(* compose.                                                                *)
(***************************************************************************)
EXTENDS RegionGroups, FiniteSetTheorems, SequenceTheorems, WellFoundedInduction, TLAPS

Has(G, r, g) == r \in ToSet(G[g])

(* Regions 1 .. n are in one group each, once.                             *)
Sorted(G, n) ==
  /\ G \in [Groups -> Seq(1 .. n)]
  /\ \A g \in Groups : IsInjective(G[g])
  /\ \A r \in 1 .. n : \E g \in Groups : Has(G, r, g)
  /\ \A g, h \in Groups, r \in 1 .. n : Has(G, r, g) /\ Has(G, r, h) => g = h
-----------------------------------------------------------------------------
(* A set of naturals has a least element.                                  *)
LEMMA LeastNat ==
  ASSUME NEW T, T \subseteq Nat, T # {}
  PROVE  \E n \in T : \A m \in T : n <= m
<1>1. IsWellFoundedOn(OpToRel(<, Nat), Nat)  BY NatLessThanWellFounded
<1>2. PICK n \in T : \A m \in T : ~ <<m, n>> \in OpToRel(<, Nat)
  BY <1>1, WFMin, Zenon
<1>3. \A m \in T : ~(m < n)  BY <1>2 DEF OpToRel
<1> QED  BY <1>3

LEMMA ToSetFacts ==
  ASSUME NEW S, NEW s \in Seq(S)
  PROVE  /\ ToSet(s) \subseteq S
         /\ \A x : x \in ToSet(s) <=> \E i \in 1 .. Len(s) : s[i] = x
<1>1. DOMAIN s = 1 .. Len(s) /\ \A i \in 1 .. Len(s) : s[i] \in S  BY LenProperties
<1> QED  BY <1>1 DEF ToSet

LEMMA RemoveFirstFacts ==
  ASSUME NEW S, NEW s \in Seq(S), IsInjective(s), NEW r
  PROVE  /\ RemoveFirst(s, r) \in Seq(S) /\ IsInjective(RemoveFirst(s, r))
         /\ \A x : x \in ToSet(RemoveFirst(s, r)) <=> x \in ToSet(s) /\ x # r
<1>0. Len(s) \in Nat /\ DOMAIN s = 1 .. Len(s) /\ \A i \in 1 .. Len(s) : s[i] \in S
  BY LenProperties
<1>1. CASE ~ \E i \in 1 .. Len(s) : s[i] = r
  <2>1. RemoveFirst(s, r) = s  BY <1>1 DEF RemoveFirst
  <2> QED  BY <1>1, <2>1, ToSetFacts
<1>2. CASE \E i \in 1 .. Len(s) : s[i] = r
  <2> DEFINE I == {i \in 1 .. Len(s) : s[i] = r}
  <2>1. PICK k \in I : \A m \in I : k <= m
    <3>1. I \subseteq Nat /\ I # {}  BY <1>0, <1>2
    <3> HIDE DEF I
    <3> QED  BY <3>1, LeastNat
  <2>2. \A i \in I : i = k  BY <1>0, <2>1 DEF IsInjective
  <2>3. SelectInSeq(s, LAMBDA v : v = r) = k
    <3>1. SelectInSeq(s, LAMBDA v : v = r) = Min(I)  BY <1>2 DEF SelectInSeq
    <3>2. PICK m : m = Min(I)  OBVIOUS
    <3>3. m \in I  BY <2>1, <3>2 DEF Min
    <3> QED  BY <2>2, <3>1, <3>2, <3>3
  <2>4. RemoveFirst(s, r) = RemoveAt(s, k)  BY <1>2, <2>3 DEF RemoveFirst
  <2> DEFINE a == SubSeq(s, 1, k - 1)
             b == SubSeq(s, k + 1, Len(s))
             q == a \o b
  <2>5. k \in 1 .. Len(s) /\ s[k] = r  BY <2>1
  <2>6. /\ a \in Seq(S) /\ Len(a) = k - 1 /\ \A i \in 1 .. k - 1 : a[i] = s[i]
    <3>1. 1 \in Int /\ k - 1 \in Int /\ \A i \in 1 .. k - 1 : s[i] \in S  BY <1>0, <2>5
    <3>2. /\ SubSeq(s, 1, k - 1) \in Seq(S)
          /\ Len(SubSeq(s, 1, k - 1)) = IF 1 <= k - 1 THEN k - 1 - 1 + 1 ELSE 0
          /\ \A i \in 1 .. k - 1 - 1 + 1 : SubSeq(s, 1, k - 1)[i] = s[1 + i - 1]
      BY <3>1, SubSeqProperties
    <3> QED  BY <2>5, <3>2
  <2>7. /\ b \in Seq(S) /\ Len(b) = Len(s) - k /\ \A i \in 1 .. Len(s) - k : b[i] = s[k + i]
    <3>1. k + 1 \in Int /\ Len(s) \in Int /\ \A i \in k + 1 .. Len(s) : s[i] \in S  BY <1>0, <2>5
    <3>2. /\ SubSeq(s, k + 1, Len(s)) \in Seq(S)
          /\ Len(SubSeq(s, k + 1, Len(s))) = IF k + 1 <= Len(s) THEN Len(s) - (k + 1) + 1 ELSE 0
          /\ \A i \in 1 .. Len(s) - (k + 1) + 1 : SubSeq(s, k + 1, Len(s))[i] = s[k + 1 + i - 1]
      BY <3>1, SubSeqProperties
    <3>3. k \in Nat /\ Len(s) \in Nat /\ k <= Len(s)  BY <1>0, <2>5
    <3>4. Len(s) - (k + 1) + 1 = Len(s) - k /\ \A i \in 1 .. Len(s) - k : k + 1 + i - 1 = k + i
      BY <3>3
    <3>5. (IF k + 1 <= Len(s) THEN Len(s) - (k + 1) + 1 ELSE 0) = Len(s) - k  BY <3>3
    <3>6. \A i \in 1 .. Len(s) - k : b[i] = s[k + i]  BY <3>2, <3>4
    <3> QED  BY <3>2, <3>5, <3>6
  <2>8. /\ q \in Seq(S) /\ Len(q) = Len(s) - 1
        /\ \A i \in 1 .. Len(s) - 1 : q[i] = IF i < k THEN s[i] ELSE s[i + 1]
    <3> HIDE DEF a, b
    <3>1. /\ q \in Seq(S) /\ Len(q) = Len(a) + Len(b)
          /\ \A i \in 1 .. Len(a) + Len(b) : q[i] = IF i <= Len(a) THEN a[i] ELSE b[i - Len(a)]
      BY <2>6, <2>7, ConcatProperties
    <3>2. k \in Nat /\ Len(s) \in Nat /\ 1 <= k /\ k <= Len(s)  BY <1>0, <2>5
    <3>3. Len(a) + Len(b) = Len(s) - 1  BY <2>6, <2>7, <3>2
    <3>4. ASSUME NEW i \in 1 .. Len(s) - 1 PROVE q[i] = IF i < k THEN s[i] ELSE s[i + 1]
      <4>1. q[i] = IF i <= Len(a) THEN a[i] ELSE b[i - Len(a)]  BY <3>1, <3>3
      <4>2. CASE i < k
        <5>1. i <= Len(a) /\ i \in 1 .. k - 1  BY <2>6, <3>2, <4>2
        <5> QED  BY <2>6, <4>1, <4>2, <5>1
      <4>3. CASE ~(i < k)
        <5>1. ~(i <= Len(a)) /\ i - Len(a) \in 1 .. Len(s) - k /\ k + (i - Len(a)) = i + 1
          BY <2>6, <3>2, <4>3
        <5> QED  BY <2>7, <4>1, <4>3, <5>1
      <4> QED  BY <4>2, <4>3
    <3> QED  BY <3>1, <3>3, <3>4
  <2>9. RemoveFirst(s, r) = q  BY <2>4 DEF RemoveAt
  <2> HIDE DEF q, I
  <2>10. IsInjective(q)
    <3>1. DOMAIN q = 1 .. Len(s) - 1  BY <2>8, LenProperties
    <3> SUFFICES ASSUME NEW i \in 1 .. Len(s) - 1, NEW j \in 1 .. Len(s) - 1, q[i] = q[j] PROVE i = j
      BY <3>1 DEF IsInjective
    <3> DEFINE at(m) == IF m < k THEN m ELSE m + 1
    <3>2. at(i) \in DOMAIN s /\ at(j) \in DOMAIN s /\ s[at(i)] = s[at(j)]  BY <1>0, <2>5, <2>8
    <3>3. at(i) = at(j)  BY <3>2 DEF IsInjective
    <3> QED  BY <1>0, <2>5, <3>3
  <2>11. ASSUME NEW x PROVE x \in ToSet(q) <=> x \in ToSet(s) /\ x # r
    <3>1. ASSUME x \in ToSet(q) PROVE x \in ToSet(s) /\ x # r
      <4>1. PICK i \in 1 .. Len(s) - 1 : q[i] = x  BY <2>8, <3>1, ToSetFacts
      <4>2. PICK j \in 1 .. Len(s) : s[j] = x /\ j # k  BY <1>0, <2>5, <2>8, <4>1
      <4> QED  BY <1>0, <2>5, <4>2, ToSetFacts DEF IsInjective
    <3>2. ASSUME x \in ToSet(s), x # r PROVE x \in ToSet(q)
      <4>1. PICK j \in 1 .. Len(s) : s[j] = x  BY <3>2, ToSetFacts
      <4>2. PICK i \in 1 .. Len(s) - 1 : q[i] = x
        <5>1. CASE j < k  BY <1>0, <2>5, <2>8, <4>1, <5>1
        <5>2. CASE j > k
          <6>1. j - 1 \in 1 .. Len(s) - 1 /\ ~(j - 1 < k) /\ (j - 1) + 1 = j  BY <1>0, <2>5, <5>2
          <6> QED  BY <2>8, <4>1, <6>1
        <5> QED  BY <1>0, <2>5, <3>2, <4>1, <5>1, <5>2
      <4> QED  BY <2>8, <4>2, ToSetFacts
    <3> QED  BY <3>1, <3>2
  <2> QED  BY <2>8, <2>9, <2>10, <2>11
<1> QED  BY <1>1, <1>2

LEMMA AppendFacts ==
  ASSUME NEW S, NEW s \in Seq(S), IsInjective(s), NEW r \in S, r \notin ToSet(s)
  PROVE  /\ Append(s, r) \in Seq(S) /\ IsInjective(Append(s, r))
         /\ \A x : x \in ToSet(Append(s, r)) <=> x \in ToSet(s) \/ x = r
<1>1. /\ Append(s, r) \in Seq(S) /\ Len(Append(s, r)) = Len(s) + 1
      /\ \A i \in 1 .. Len(s) : Append(s, r)[i] = s[i]
      /\ Append(s, r)[Len(s) + 1] = r
  BY AppendProperties
<1>2. Len(s) \in Nat /\ DOMAIN s = 1 .. Len(s) /\ DOMAIN Append(s, r) = 1 .. Len(s) + 1
  BY <1>1, LenProperties
<1>3. \A i \in 1 .. Len(s) : s[i] # r  BY ToSetFacts
<1>4. IsInjective(Append(s, r))  BY <1>1, <1>2, <1>3 DEF IsInjective
<1>5. ASSUME NEW x PROVE x \in ToSet(Append(s, r)) <=> x \in ToSet(s) \/ x = r
  <2>1. x \in ToSet(Append(s, r)) <=> \E i \in 1 .. Len(s) + 1 : Append(s, r)[i] = x
    <3>1. PICK q \in Seq(S) : q = Append(s, r)  BY <1>1
    <3>2. x \in ToSet(q) <=> \E i \in 1 .. Len(q) : q[i] = x  BY ToSetFacts
    <3> QED  BY <1>1, <3>1, <3>2
  <2>2. x \in ToSet(s) <=> \E i \in 1 .. Len(s) : s[i] = x  BY ToSetFacts
  <2> QED  BY <1>1, <1>2, <2>1, <2>2
<1> QED  BY <1>1, <1>4, <1>5

LEMMA SetToSeqFacts ==
  ASSUME NEW S, IsFiniteSet(S)
  PROVE  /\ SetToSeq(S) \in Seq(S)
         /\ \A x : x \in ToSet(SetToSeq(S)) <=> x \in S
<1> DEFINE n == Cardinality(S)
<1>1. n \in Nat /\ ExistsBijection(1 .. n, S)  BY FS_CardinalityType
<1>2. PICK f \in [1 .. n -> S] : IsInjective(f)
  BY <1>1 DEF ExistsBijection, Bijection, Injection, IsInjective
<1>3. PICK s : s = SetToSeq(S)  OBVIOUS
<1>4. s \in [1 .. n -> S] /\ IsInjective(s)  BY <1>2, <1>3 DEF SetToSeq
<1>5. s \in Seq(S) /\ Len(s) = n  BY <1>1, <1>4
<1>6. \A x \in S : \E i \in 1 .. n : s[i] = x
  <2>1. Range(s) \in SUBSET S  BY <1>4 DEF Range
  <2>2. s \in Bijection(1 .. n, Range(s))
    BY <1>4 DEF Bijection, Injection, Surjection, IsInjective, Range
  <2>3. Cardinality(Range(s)) = n
    <3>1. IsFiniteSet(Range(s))  BY <2>1, FS_Subset
    <3>2. ExistsBijection(1 .. n, Range(s))  BY <2>2 DEF ExistsBijection
    <3> QED  BY <1>1, <3>1, <3>2, FS_CountingElements
  <2>4. Range(s) = S  BY <2>1, <2>3, FS_Subset
  <2> QED  BY <1>4, <2>4 DEF Range
<1> QED  BY <1>3, <1>5, <1>6, ToSetFacts
-----------------------------------------------------------------------------
(* A region that is moved is in its new group, the others stay.            *)
LEMMA EnqFacts ==
  ASSUME NEW n \in Nat, NEW G, Sorted(G, n), NEW r \in 1 .. n, NEW h \in Groups
  PROVE  /\ Sorted(Enq(G, r, h), n)
         /\ \A x \in 1 .. n, g \in Groups :
              Has(Enq(G, r, h), x, g) <=> IF x = r THEN g = h ELSE Has(G, x, g)
<1> DEFINE W == Without(G, r)
           E == Enq(G, r, h)
<1>1. \A g \in Groups : G[g] \in Seq(1 .. n) /\ IsInjective(G[g])  BY DEF Sorted
<1>2. ASSUME NEW g \in Groups
      PROVE  /\ W[g] \in Seq(1 .. n) /\ IsInjective(W[g])
             /\ \A x : x \in ToSet(W[g]) <=> Has(G, x, g) /\ x # r
  BY <1>1, RemoveFirstFacts DEF Without, Has
<1>3. /\ Append(W[h], r) \in Seq(1 .. n) /\ IsInjective(Append(W[h], r))
      /\ \A x : x \in ToSet(Append(W[h], r)) <=> x \in ToSet(W[h]) \/ x = r
  <2>1. W[h] \in Seq(1 .. n) /\ IsInjective(W[h]) /\ r \notin ToSet(W[h])  BY <1>2
  <2> HIDE DEF W
  <2> QED  BY <2>1, AppendFacts
<1>4. E = [W EXCEPT ![h] = Append(W[h], r)] /\ W = [g \in Groups |-> W[g]]
  BY DEF Enq, Without
<1> HIDE DEF W, E
<1>5. /\ E \in [Groups -> Seq(1 .. n)]
      /\ \A g \in Groups : E[g] = IF g = h THEN Append(W[h], r) ELSE W[g]
  BY <1>2, <1>3, <1>4
<1>6. \A x \in 1 .. n, g \in Groups : Has(E, x, g) <=> IF x = r THEN g = h ELSE Has(G, x, g)
  BY <1>2, <1>3, <1>5 DEF Has
<1>7. Sorted(E, n)
  <2>1. \A g \in Groups : IsInjective(E[g])  BY <1>2, <1>3, <1>5
  <2> QED  BY <1>5, <1>6, <2>1 DEF Sorted
<1> QED  BY <1>6, <1>7 DEF E

(* So it is for a sequence of regions, moved one after the other.          *)
LEMMA EnqSomeFacts ==
  ASSUME NEW n \in Nat, NEW G, Sorted(G, n), NEW s \in Seq(1 .. n), NEW h \in Groups
  PROVE  /\ Sorted(EnqSome(G, s, h), n)
         /\ \A x \in 1 .. n, g \in Groups :
              Has(EnqSome(G, s, h), x, g) <=> IF x \in ToSet(s) THEN g = h ELSE Has(G, x, g)
<1> DEFINE N == Len(s)
           Step(H, i) == Enq(H, s[i], h)
           Is(f, k) == f = [i \in 0 .. k |-> IF i = 0 THEN G ELSE Step(f[i - 1], i)]
<1>0. N \in Nat /\ \A i \in 1 .. N : s[i] \in 1 .. n  BY LenProperties
<1>1. \E f : Is(f, N)
  <2> DEFINE T == {k \in Nat : ~ \E f : Is(f, k)}
  <2> SUFFICES ASSUME T # {} PROVE FALSE  BY <1>0
  <2>1. PICK k \in T : \A m \in T : k <= m  BY LeastNat
  <2>2. k # 0
    <3>1. Is([i \in 0 .. 0 |-> G], 0)  OBVIOUS
    <3> QED  BY <2>1, <3>1
  <2>3. PICK f : Is(f, k - 1)
    <3> HIDE DEF Is
    <3>1. k \in Nat /\ k - 1 \in Nat  BY <2>1, <2>2
    <3>2. k - 1 \notin T  BY <2>1, <3>1
    <3> QED  BY <3>1, <3>2
  <2>4. Is([i \in 0 .. k |-> IF i < k THEN f[i] ELSE Step(f[k - 1], k)], k)
    <3> HIDE DEF Step
    <3> QED  BY <2>1, <2>2, <2>3
  <2> QED  BY <2>1, <2>4
<1>2. EnqSome(G, s, h) = (CHOOSE f : Is(f, N))[N]  BY DEF EnqSome
<1>3. PICK f : f = (CHOOSE g : Is(g, N))  OBVIOUS
<1>4. Is(f, N)
  <2> HIDE DEF Is
  <2> QED  BY <1>1, <1>3
<1>5. f[0] = G /\ \A i \in 1 .. N : f[i] = Enq(f[i - 1], s[i], h)
  <2> HIDE DEF Step
  <2>1. f = [i \in 0 .. N |-> IF i = 0 THEN G ELSE Step(f[i - 1], i)]  BY <1>4
  <2>2. \A i \in 0 .. N : f[i] = IF i = 0 THEN G ELSE Step(f[i - 1], i)  BY <2>1, Zenon
  <2>3. f[0] = G  BY <1>0, <2>2
  <2>4. ASSUME NEW i \in 1 .. N PROVE f[i] = Step(f[i - 1], i)
    <3>1. i \in 0 .. N /\ i # 0  BY <1>0
    <3> QED  BY <2>2, <3>1
  <2> QED  BY <2>3, <2>4 DEF Step
<1> DEFINE Before(x, k) == \E i \in 1 .. k : s[i] = x
           Good(k) ==
             /\ Sorted(f[k], n)
             /\ \A x \in 1 .. n, g \in Groups :
                  Has(f[k], x, g) <=> IF Before(x, k) THEN g = h ELSE Has(G, x, g)
<1>6. \A k \in 0 .. N : Good(k)
  <2> DEFINE T == {k \in 0 .. N : ~Good(k)}
  <2> SUFFICES ASSUME T # {} PROVE FALSE  OBVIOUS
  <2>1. T \subseteq Nat  BY <1>0
  <2> HIDE DEF Good
  <2>2. PICK k \in T : \A m \in T : k <= m  BY <2>1, LeastNat
  <2>3. k # 0
    <3>1. Good(0)  BY <1>5 DEF Good
    <3> QED  BY <2>2, <3>1
  <2>4. k \in 1 .. N /\ k - 1 \in 0 .. N /\ k - 1 \notin T  BY <1>0, <2>2, <2>3
  <2>5. Good(k - 1)  BY <2>4
  <2>6. f[k] = Enq(f[k - 1], s[k], h) /\ s[k] \in 1 .. n  BY <1>0, <1>5, <2>4
  <2>7. Sorted(f[k - 1], n)  BY <2>5 DEF Good
  <2>8. /\ Sorted(f[k], n)
        /\ \A x \in 1 .. n, g \in Groups :
             Has(f[k], x, g) <=> IF x = s[k] THEN g = h ELSE Has(f[k - 1], x, g)
    <3>1. \A K, r : Sorted(K, n) /\ r \in 1 .. n =>
            /\ Sorted(Enq(K, r, h), n)
            /\ \A x \in 1 .. n, g \in Groups :
                 Has(Enq(K, r, h), x, g) <=> IF x = r THEN g = h ELSE Has(K, x, g)
      BY EnqFacts
    <3>2. PICK K, r : K = f[k - 1] /\ r = s[k]  OBVIOUS
    <3>3. f[k] = Enq(K, r, h) /\ Sorted(K, n) /\ r \in 1 .. n  BY <2>6, <2>7, <3>2
    <3> HIDE DEF N, Step, Is, Before, T
    <3> QED  BY <3>1, <3>2, <3>3
  <2>9. \A x : Before(x, k) <=> Before(x, k - 1) \/ x = s[k]  BY <1>0, <2>4
  <2>10. Good(k)  BY <2>5, <2>8, <2>9 DEF Good
  <2> QED  BY <2>2, <2>10
<1>7. Good(N)  BY <1>0, <1>6
<1>8. \A x : x \in ToSet(s) <=> Before(x, N)  BY ToSetFacts
<1>9. EnqSome(G, s, h) = f[N]  BY <1>2, <1>3
<1> QED  BY <1>7, <1>8, <1>9
-----------------------------------------------------------------------------
(* The group a region is in.                                               *)
At(G, r) == CHOOSE g \in Groups : Has(G, r, g)

LEMMA AtFacts ==
  ASSUME NEW n \in Nat, NEW G, Sorted(G, n), NEW r \in 1 .. n
  PROVE  /\ At(G, r) \in Groups
         /\ \A g \in Groups : Has(G, r, g) <=> At(G, r) = g
<1>1. \E g \in Groups : Has(G, r, g)  BY DEF Sorted
<1>2. PICK g : g = At(G, r)  OBVIOUS
<1>3. g \in Groups /\ Has(G, r, g)  BY <1>1, <1>2 DEF At
<1>4. \A h \in Groups : Has(G, r, h) => h = g  BY <1>3 DEF Sorted
<1> QED  BY <1>2, <1>3, <1>4

LEMMA GroupAt ==
  ASSUME NEW n \in Nat, NEW G, Sorted(G, n), NEW g \in Groups
  PROVE  \A r \in ToSet(G[g]) : r \in 1 .. n /\ At(G, r) = g
<1>1. G[g] \in Seq(1 .. n)  BY DEF Sorted
<1>2. ToSet(G[g]) \subseteq 1 .. n  BY <1>1, ToSetFacts
<1> QED  BY <1>2, AtFacts DEF Has

LEMMA EnqAt ==
  ASSUME NEW n \in Nat, NEW G, Sorted(G, n), NEW r \in 1 .. n, NEW h \in Groups
  PROVE  /\ Sorted(Enq(G, r, h), n)
         /\ \A x \in 1 .. n : At(Enq(G, r, h), x) = IF x = r THEN h ELSE At(G, x)
<1> DEFINE E == Enq(G, r, h)
<1>1. /\ Sorted(E, n)
      /\ \A x \in 1 .. n, g \in Groups :
           Has(E, x, g) <=> IF x = r THEN g = h ELSE Has(G, x, g)
  BY EnqFacts
<1> HIDE DEF E
<1>2. ASSUME NEW x \in 1 .. n PROVE At(E, x) = IF x = r THEN h ELSE At(G, x)
  BY <1>1, AtFacts
<1> QED  BY <1>1, <1>2 DEF E

LEMMA EnqSomeAt ==
  ASSUME NEW n \in Nat, NEW G, Sorted(G, n), NEW s \in Seq(1 .. n), NEW h \in Groups
  PROVE  /\ Sorted(EnqSome(G, s, h), n)
         /\ \A x \in 1 .. n :
              At(EnqSome(G, s, h), x) = IF x \in ToSet(s) THEN h ELSE At(G, x)
<1> DEFINE E == EnqSome(G, s, h)
<1>1. /\ Sorted(E, n)
      /\ \A x \in 1 .. n, g \in Groups :
           Has(E, x, g) <=> IF x \in ToSet(s) THEN g = h ELSE Has(G, x, g)
  BY EnqSomeFacts
<1> HIDE DEF E
<1>2. ASSUME NEW x \in 1 .. n PROVE At(E, x) = IF x \in ToSet(s) THEN h ELSE At(G, x)
  BY <1>1, AtFacts
<1> QED  BY <1>1, <1>2 DEF E

LEMMA EnqAllAt ==
  ASSUME NEW n \in Nat, NEW G, Sorted(G, n), NEW j \in Groups, NEW h \in Groups
  PROVE  /\ Sorted(EnqAll(G, j, h), n)
         /\ \A x \in 1 .. n :
              At(EnqAll(G, j, h), x) = IF At(G, x) = j THEN h ELSE At(G, x)
<1>1. G[j] \in Seq(1 .. n)  BY DEF Sorted
<1>2. \A x \in 1 .. n : x \in ToSet(G[j]) <=> At(G, x) = j  BY AtFacts DEF Has
<1> QED  BY <1>1, <1>2, EnqSomeAt DEF EnqAll

LEMMA EnqSetAt ==
  ASSUME NEW n \in Nat, NEW G, Sorted(G, n), NEW R \in SUBSET (1 .. n), NEW h \in Groups
  PROVE  /\ Sorted(EnqSome(G, SetToSeq(R), h), n)
         /\ \A x \in 1 .. n :
              At(EnqSome(G, SetToSeq(R), h), x) = IF x \in R THEN h ELSE At(G, x)
<1>1. IsFiniteSet(R)
  <2>1. 1 \in Int /\ n \in Int  OBVIOUS
  <2>2. IsFiniteSet(1 .. n)  BY <2>1, FS_Interval
  <2> QED  BY <2>2, FS_Subset
<1>2. SetToSeq(R) \in Seq(R) /\ \A x : x \in ToSet(SetToSeq(R)) <=> x \in R  BY <1>1, SetToSeqFacts
<1>3. SetToSeq(R) \in Seq(1 .. n)  BY <1>2, SeqMonotonic
<1> QED  BY <1>2, <1>3, EnqSomeAt

(* switch_some_to_summarizing takes filled regions and risen stars only.   *)
LEMMA SwitchedAt ==
  ASSUME NEW n \in Nat, NEW G, Sorted(G, n), NEW m \in Int
  PROVE  /\ Sorted(Switched(G, m), n)
         /\ \A x \in 1 .. n :
              \/ At(Switched(G, m), x) = At(G, x)
              \/ /\ At(G, x) \in {"filled", "risingstar"}
                 /\ At(Switched(G, m), x) = "summzing"
<1> DEFINE pool == G["filled"] \o G["risingstar"]
           k == IF m < Len(pool) THEN m ELSE Len(pool)
           q == SubSeq(pool, 1, k)
<1>1. "filled" \in Groups /\ "risingstar" \in Groups /\ "summzing" \in Groups  BY DEF Groups
<1>2. G["filled"] \in Seq(1 .. n) /\ G["risingstar"] \in Seq(1 .. n)  BY <1>1 DEF Sorted
<1>3. /\ pool \in Seq(1 .. n) /\ Len(pool) \in Nat
      /\ \A i \in 1 .. Len(pool) :
           pool[i] \in 1 .. n /\ (Has(G, pool[i], "filled") \/ Has(G, pool[i], "risingstar"))
  <2> DEFINE a == G["filled"]
             b == G["risingstar"]
  <2>1. /\ pool \in Seq(1 .. n) /\ Len(pool) = Len(a) + Len(b)
        /\ \A i \in 1 .. Len(a) + Len(b) : pool[i] = IF i <= Len(a) THEN a[i] ELSE b[i - Len(a)]
    BY <1>2, ConcatProperties
  <2>2. Len(a) \in Nat /\ Len(b) \in Nat  BY <1>2, LenProperties
  <2> HIDE DEF pool, a, b
  <2>3. ASSUME NEW i \in 1 .. Len(pool) PROVE pool[i] \in ToSet(a) \/ pool[i] \in ToSet(b)
    <3>1. a \in Seq(1 .. n) /\ b \in Seq(1 .. n)  BY <1>2 DEF a, b
    <3>2. CASE i <= Len(a)
      <4>1. i \in 1 .. Len(a) /\ pool[i] = a[i]  BY <2>1, <2>2, <3>2
      <4> QED  BY <3>1, <4>1, ToSetFacts
    <3>3. CASE ~(i <= Len(a))
      <4>1. i - Len(a) \in 1 .. Len(b) /\ pool[i] = b[i - Len(a)]  BY <2>1, <2>2, <3>3
      <4> QED  BY <3>1, <4>1, ToSetFacts
    <3> QED  BY <3>2, <3>3
  <2>4. \A i \in 1 .. Len(pool) : pool[i] \in 1 .. n  BY <2>1, LenProperties
  <2>5. Len(pool) \in Nat  BY <2>1, <2>2
  <2>6. \A i \in 1 .. Len(pool) : Has(G, pool[i], "filled") \/ Has(G, pool[i], "risingstar")
    BY <2>3 DEF Has, a, b
  <2> QED  BY <2>1, <2>4, <2>5, <2>6
<1> HIDE DEF pool
<1>4. k \in Int /\ k <= Len(pool)  BY <1>3
<1> HIDE DEF k
<1>5. q \in Seq(1 .. n) /\ \A x \in ToSet(q) : Has(G, x, "filled") \/ Has(G, x, "risingstar")
  <2>1. 1 \in Int /\ k \in Int /\ \A i \in 1 .. k : pool[i] \in 1 .. n  BY <1>3, <1>4
  <2>2. /\ SubSeq(pool, 1, k) \in Seq(1 .. n)
        /\ Len(SubSeq(pool, 1, k)) = IF 1 <= k THEN k - 1 + 1 ELSE 0
        /\ \A i \in 1 .. k - 1 + 1 : SubSeq(pool, 1, k)[i] = pool[1 + i - 1]
    BY <2>1, SubSeqProperties
  <2> HIDE DEF q
  <2>3. ASSUME NEW x \in ToSet(q) PROVE \E i \in 1 .. Len(pool) : x = pool[i]
    <3>1. q \in Seq(1 .. n)  BY <2>2 DEF q
    <3>2. PICK i \in 1 .. Len(q) : q[i] = x  BY <3>1, ToSetFacts
    <3>3. i \in 1 .. k /\ k - 1 + 1 = k /\ 1 + i - 1 = i  BY <1>4, <2>2, <3>2 DEF q
    <3>4. i \in 1 .. k - 1 + 1 /\ q[i] = pool[i]  BY <2>2, <3>3 DEF q
    <3> QED  BY <1>3, <1>4, <3>2, <3>3, <3>4
  <2> QED  BY <1>3, <2>2, <2>3 DEF q
<1>6. Switched(G, m) = EnqSome(G, q, "summzing")  BY DEF Switched, q, k, pool
<1> HIDE DEF q
<1>7. \A x \in 1 .. n : x \in ToSet(q) => At(G, x) \in {"filled", "risingstar"}
  BY <1>1, <1>5, AtFacts
<1> QED  BY <1>1, <1>5, <1>6, <1>7, EnqSomeAt
-----------------------------------------------------------------------------
Stages == {"none", "construction", "refinement", "completed"}
SmType(n) == [on : BOOLEAN, waiting : BOOLEAN, complete : BOOLEAN,
              cursor : 0 .. n + 2, goal : Int, ready0 : Int, over : Int]
RefType(n) == [stage : Stages, predates : SUBSET (1 .. n), left : Nat, passed : BOOLEAN]

(* Refinement counts the old summaries; Counted, also that it has ended.   *)
Counting(f, n) ==
  /\ f \in RefType(n)
  /\ f.left = Cardinality(f.predates)
  /\ f.stage # "refinement" => f.predates = {}
Counted(f, n) ==
  /\ Counting(f, n)
  /\ f.stage = "refinement" => ~(f.passed /\ f.left = 0)

(* A state of the summarizer between two of the program's steps.           *)
Good(s, n) ==
  /\ s \in [G : [Groups -> Seq(1 .. n)], sm : SmType(n), ref : RefType(n)]
  /\ Sorted(s.G, n)
  /\ Counted(s.ref, n)
  /\ \A r \in s.ref.predates : At(s.G, r) \in {"summzing", "wait_w_sum"}

(* Where regions may go while the summarizer works: infamous ones leave    *)
(* for hasbeen only, and those that were chosen do not become infamous.    *)
Famous == {"infamous", "hasbeen"}
Plain == {"wait_nosum", "wait_w_sum", "summzing", "filled", "risingstar"}

Kept(G, H, n, C) ==
  \A r \in 1 .. n :
    /\ At(G, r) \in Famous => At(H, r) \in Famous
    /\ At(G, r) = "advertised" => At(H, r) \in Famous \union {"advertised"}
    /\ At(G, r) = "unfilled" => At(H, r) \in Famous \union {"unfilled"}
    /\ ~ChosenRises /\ r \in C =>
          /\ At(G, r) = "unfilled" => At(H, r) = "unfilled"
          /\ At(G, r) \in Plain => At(H, r) \in Plain

(* What InfamyEndsByMarking says of a step.                                *)
EndsByMarking(G, f, H, h, n) ==
  \A r \in 1 .. n :
    /\ At(G, r) = "infamous" => At(H, r) \in Famous
    /\ At(G, r) = "hasbeen" => At(H, r) \in Famous \/ f.stage # "construction"
    /\ At(G, r) = "advertised" =>
          \/ At(H, r) \in Famous \union {"advertised"}
          \/ At(H, r) = "filled" /\ h.stage = "refinement"

Copying == {"pause", "minor", "major"}

(* What is copied to has room unless it rose to infamy, and what is        *)
(* collected waits for it: the counts hold because neither is moved by     *)
(* anything else between the pause and the end of the collection.          *)
IInv ==
  /\ nrgn \in 2 .. MaxRegions /\ count \in 2 .. nrgn /\ to \in Regions
  /\ victim \in 0 .. nrgn /\ (victim # 0 <=> phase = "major")
  /\ phase \in {"mutate", "rolled"} \union Copying
  /\ Good(Now, nrgn)
  /\ phase \in Copying => At(grp, to) \in Famous \union {"unfilled"}
  /\ ~ChosenRises =>
        /\ phase \in Copying => At(grp, to) = "unfilled"
        /\ phase = "major" => At(grp, victim) \in Plain
-----------------------------------------------------------------------------
LEMMA KeptComposes ==
  ASSUME NEW n, NEW C, NEW G, NEW H, NEW J, Kept(G, H, n, C), Kept(H, J, n, C)
  PROVE  Kept(G, J, n, C)
BY DEF Kept, Plain, Famous

LEMMA Finite ==
  ASSUME NEW n \in Nat, NEW R \in SUBSET (1 .. n)
  PROVE  /\ IsFiniteSet(R) /\ Cardinality(R) \in Nat
         /\ Cardinality(R) = 0 <=> R = {}
<1>1. 1 \in Int /\ n \in Int  OBVIOUS
<1>2. IsFiniteSet(1 .. n)  BY <1>1, FS_Interval
<1>3. IsFiniteSet(R)  BY <1>2, FS_Subset
<1> QED  BY <1>3, FS_CardinalityType, FS_EmptySet

(* When refinement has nothing left to wait for, it is over.               *)
LEMMA CheckedCounts ==
  ASSUME NEW n \in Nat, NEW f, Counting(f, n)
  PROVE  /\ Counted(Checked(f), n) /\ Checked(f).predates = f.predates
         /\ Checked(f).stage = f.stage \/ f.stage = "refinement"
<1>1. f \in RefType(n) /\ f.predates \in SUBSET (1 .. n)  BY DEF Counting, RefType
<1>2. f.left = 0 => f.predates = {}  BY <1>1, Finite DEF Counting
<1>3. CASE f.stage = "refinement" /\ f.passed /\ f.left = 0
  <2>1. Checked(f) = [f EXCEPT !.stage = "completed"]  BY <1>3 DEF Checked
  <2> QED  BY <1>1, <1>2, <1>3, <2>1 DEF Counting, Counted, RefType, Stages
<1>4. CASE ~(f.stage = "refinement" /\ f.passed /\ f.left = 0)
  <2>1. Checked(f) = f  BY <1>4, Zenon DEF Checked
  <2> QED  BY <1>4, <2>1 DEF Counting, Counted
<1> QED  BY <1>3, <1>4

(* clear_col_cells takes each old summary from the count once.             *)
LEMMA ClearedCounts ==
  ASSUME NEW n \in Nat, NEW f, Counting(f, n), NEW R
  PROVE  /\ Counted(Cleared(f, R), n) /\ Cleared(f, R).predates = f.predates \ R
         /\ Cleared(f, R).stage = f.stage \/ f.stage = "refinement"
<1> DEFINE P == f.predates
           old == R \intersect P
           c == [f EXCEPT !.predates = @ \ old, !.left = @ - Cardinality(old)]
<1>1. f \in RefType(n) /\ P \in SUBSET (1 .. n)  BY DEF Counting, RefType
<1>2. Cleared(f, R) = Checked(c)  BY DEF Cleared
<1>3. P \ old \in SUBSET (1 .. n) /\ P \ old = P \ R  BY <1>1
<1>4. /\ IsFiniteSet(P) /\ Cardinality(P \ old) \in Nat
      /\ Cardinality(P \ old) = Cardinality(P) - Cardinality(old)
  <2>1. IsFiniteSet(P) /\ IsFiniteSet(old)  BY <1>1, Finite
  <2>2. Cardinality(P \ old) = Cardinality(P) - Cardinality(P \intersect old)
    BY <2>1, FS_Difference
  <2>3. P \intersect old = old  OBVIOUS
  <2> QED  BY <1>1, <1>3, <2>1, <2>2, <2>3, Finite
<1>5. Counting(c, n) /\ c.predates = P \ R /\ c.stage = f.stage
  <2>1. /\ c \in RefType(n) /\ c.predates = P \ old /\ c.stage = f.stage
        /\ c.left = f.left - Cardinality(old)
    <3>0. f.left - Cardinality(old) = Cardinality(P \ old)  BY <1>4 DEF Counting
    <3>1. f.left - Cardinality(old) \in Nat  BY <1>4, <3>0
    <3> HIDE DEF old
    <3> QED  BY <1>1, <1>3, <3>1 DEF RefType
  <2>2. f.left = Cardinality(P) /\ (f.stage # "refinement" => P = {})  BY DEF Counting
  <2> HIDE DEF c, old, P
  <2> QED  BY <1>3, <1>4, <2>1, <2>2 DEF Counting
<1> HIDE DEF c
<1> QED  BY <1>2, <1>5, CheckedCounts

LEMMA Ranges ==
  ASSUME nrgn \in Nat, count \in Int, NEW G, Sorted(G, nrgn)
  PROVE  /\ \A g \in Groups : Number(G, g) \in Nat
         /\ Nonempty(G) \in Int /\ GnoCount \in Nat /\ GnoCount = nrgn + 2
         /\ \A ne \in Int : Goal(ne) \in Int /\ Coverage(ne) \in Int
<1>1. \A g \in Groups : Len(G[g]) \in Nat  BY LenProperties DEF Sorted
<1>2. "unfilled" \in Groups  BY DEF Groups
<1>3. \A ne \in Int, k \in Nat \ {0} : AtLeast1(ne \div k) \in Int  BY DEF AtLeast1
<1>4. CoverInv \in Nat \ {0} /\ CoverInv * BudgetInv \in Nat \ {0}
  <2>1. \A a, b \in Nat \ {0} : a * b \in Nat \ {0}  OBVIOUS
  <2> QED  BY <2>1, GroupsAssumption
<1>5. ASSUME NEW ne \in Int PROVE Goal(ne) \in Int /\ Coverage(ne) \in Int
  <2> DEFINE k == CoverInv * BudgetInv
  <2>1. AtLeast1(ne \div CoverInv) \in Int  BY <1>3, <1>4
  <2>2. k \in Nat \ {0}  BY <1>4
  <2> HIDE DEF k
  <2>3. AtLeast1(ne \div k) \in Int  BY <1>3, <2>2
  <2> QED  BY <2>1, <2>3 DEF Goal, Coverage, k
<1> QED  BY <1>1, <1>2, <1>5 DEF Number, Nonempty, GnoCount

(* A state is Good, and has what an earlier one kept, if its parts are.    *)
LEMMA GoodParts ==
  ASSUME NEW n, NEW s
  PROVE  Good(s, n) =>
           /\ s = [G |-> s.G, sm |-> s.sm, ref |-> s.ref]
           /\ Sorted(s.G, n) /\ s.sm \in SmType(n) /\ Counted(s.ref, n)
           /\ s.ref \in RefType(n) /\ s.ref.predates \in SUBSET (1 .. n)
           /\ \A r \in s.ref.predates : At(s.G, r) \in {"summzing", "wait_w_sum"}
BY DEF Good, RefType

LEMMA GoodMade ==
  ASSUME NEW n, NEW G, NEW m, NEW f, Sorted(G, n), m \in SmType(n), Counted(f, n),
         \A r \in f.predates : At(G, r) \in {"summzing", "wait_w_sum"}
  PROVE  Good([G |-> G, sm |-> m, ref |-> f], n)
BY DEF Good, Counted, Counting, Sorted

LEMMA SmOne ==
  ASSUME NEW n, NEW m \in SmType(n)
  PROVE  /\ m.cursor \in 0 .. n + 2 /\ m.goal \in Int /\ m.over \in Int /\ m.ready0 \in Int
         /\ \A b \in BOOLEAN : /\ [m EXCEPT !.on = b] \in SmType(n)
                              /\ [m EXCEPT !.waiting = b] \in SmType(n)
                              /\ [m EXCEPT !.complete = b] \in SmType(n)
         /\ \A c \in 0 .. n + 2 : [m EXCEPT !.cursor = c] \in SmType(n)
         /\ \A v \in Int : /\ [m EXCEPT !.goal = v] \in SmType(n)
                          /\ [m EXCEPT !.ready0 = v] \in SmType(n)
                          /\ [m EXCEPT !.over = v] \in SmType(n)
<1> DEFINE I == 0 .. n + 2
           T == [on : BOOLEAN, waiting : BOOLEAN, complete : BOOLEAN,
                 cursor : I, goal : Int, ready0 : Int, over : Int]
<1>1. m \in T  BY DEF SmType
<1> HIDE DEF I
<1>2. m.cursor \in I /\ m.goal \in Int /\ m.over \in Int /\ m.ready0 \in Int  BY <1>1
<1>3. \A c \in I : [m EXCEPT !.cursor = c] \in T  BY <1>1
<1>4. \A v \in Int : [m EXCEPT !.over = v] \in T  BY <1>1
<1>5. \A v \in Int : [m EXCEPT !.goal = v] \in T  BY <1>1
<1>6. \A v \in Int : [m EXCEPT !.ready0 = v] \in T  BY <1>1
<1>7. \A b \in BOOLEAN : [m EXCEPT !.waiting = b] \in T  BY <1>1
<1>8. \A b \in BOOLEAN : [m EXCEPT !.complete = b] \in T  BY <1>1
<1>9. \A b \in BOOLEAN : [m EXCEPT !.on = b] \in T  BY <1>1
<1>10. T = SmType(n)  BY DEF SmType, I
<1> HIDE DEF T
<1> QED  BY <1>2, <1>3, <1>4, <1>5, <1>6, <1>7, <1>8, <1>9, <1>10 DEF I

LEMMA SmSet ==
  ASSUME NEW n, NEW m \in SmType(n), NEW c \in 0 .. n + 2
  PROVE  /\ [m EXCEPT !.waiting = TRUE, !.complete = TRUE, !.goal = 0, !.ready0 = 0, !.cursor = c]
              \in SmType(n)
         /\ [m EXCEPT !.cursor = c, !.over = 0] \in SmType(n)
         /\ \A g, y \in Int :
              [m EXCEPT !.waiting = FALSE, !.complete = FALSE, !.goal = g,
                        !.cursor = c, !.over = 0, !.ready0 = y] \in SmType(n)
<1>0. 0 \in Int  OBVIOUS
<1>1. /\ \A q \in SmType(n), b \in BOOLEAN : /\ [q EXCEPT !.waiting = b] \in SmType(n)
                                           /\ [q EXCEPT !.complete = b] \in SmType(n)
      /\ \A q \in SmType(n) : [q EXCEPT !.cursor = c] \in SmType(n)
      /\ \A q \in SmType(n), v \in Int : /\ [q EXCEPT !.goal = v] \in SmType(n)
                                       /\ [q EXCEPT !.ready0 = v] \in SmType(n)
                                       /\ [q EXCEPT !.over = v] \in SmType(n)
  BY SmOne
<1>2. [m EXCEPT !.waiting = TRUE, !.complete = TRUE, !.goal = 0, !.ready0 = 0, !.cursor = c]
        \in SmType(n)
  <2> DEFINE m1 == [m EXCEPT !.waiting = TRUE]
             m2 == [m1 EXCEPT !.complete = TRUE]
             m3 == [m2 EXCEPT !.goal = 0]
             m4 == [m3 EXCEPT !.ready0 = 0]
             m5 == [m4 EXCEPT !.cursor = c]
  <2>1. m1 \in SmType(n)  BY <1>0, <1>1, Zenon
  <2> HIDE DEF m1
  <2>2. m2 \in SmType(n)  BY <1>0, <1>1, <2>1, Zenon
  <2> HIDE DEF m2
  <2>3. m3 \in SmType(n)  BY <1>0, <1>1, <2>2, Zenon
  <2> HIDE DEF m3
  <2>4. m4 \in SmType(n)  BY <1>0, <1>1, <2>3, Zenon
  <2> HIDE DEF m4
  <2>5. m5 \in SmType(n)  BY <1>0, <1>1, <2>4, Zenon
  <2> QED  BY <2>5, Zenon DEF m1, m2, m3, m4
<1>3. [m EXCEPT !.cursor = c, !.over = 0] \in SmType(n)
  <2> DEFINE m1 == [m EXCEPT !.cursor = c]
  <2>1. m1 \in SmType(n)  BY <1>0, <1>1, Zenon
  <2> HIDE DEF m1
  <2>2. [m1 EXCEPT !.over = 0] \in SmType(n)  BY <1>0, <1>1, <2>1, Zenon
  <2> QED  BY <2>2, Zenon DEF m1
<1>4. ASSUME NEW g \in Int, NEW y \in Int
      PROVE  [m EXCEPT !.waiting = FALSE, !.complete = FALSE, !.goal = g,
                       !.cursor = c, !.over = 0, !.ready0 = y] \in SmType(n)
  <2> DEFINE m1 == [m EXCEPT !.waiting = FALSE]
             m2 == [m1 EXCEPT !.complete = FALSE]
             m3 == [m2 EXCEPT !.goal = g]
             m4 == [m3 EXCEPT !.cursor = c]
             m5 == [m4 EXCEPT !.over = 0]
             m6 == [m5 EXCEPT !.ready0 = y]
  <2>1. m1 \in SmType(n)  BY <1>0, <1>1, Zenon
  <2> HIDE DEF m1
  <2>2. m2 \in SmType(n)  BY <1>0, <1>1, <2>1, Zenon
  <2> HIDE DEF m2
  <2>3. m3 \in SmType(n)  BY <1>0, <1>1, <2>2, Zenon
  <2> HIDE DEF m3
  <2>4. m4 \in SmType(n)  BY <1>0, <1>1, <2>3, Zenon
  <2> HIDE DEF m4
  <2>5. m5 \in SmType(n)  BY <1>0, <1>1, <2>4, Zenon
  <2> HIDE DEF m5
  <2>6. m6 \in SmType(n)  BY <1>0, <1>1, <2>5, Zenon
  <2> QED  BY <2>6, Zenon DEF m1, m2, m3, m4, m5
<1> QED  BY <1>2, <1>3, <1>4

(* sm_build_summaries_iteration_complete: the end of a pass.               *)
LEMMA IterationGood ==
  ASSUME nrgn \in Nat, count \in Int, NEW s, Good(s, nrgn), NEW ne \in Int,
         NEW drop \in Seq(1 .. nrgn), \A r \in ToSet(drop) : At(s.G, r) = "infamous",
         NEW C
  PROVE  /\ Good(IterationComplete(s, ne, drop), nrgn)
         /\ Kept(s.G, IterationComplete(s, ne, drop).G, nrgn, C)
<1> DEFINE n == nrgn
           f == IF s.ref.stage = "refinement"
                THEN Checked([s.ref EXCEPT !.passed = TRUE]) ELSE s.ref
           D == EnqSome(s.G, drop, "hasbeen")
           W == EnqAll(D, "summzing", "wait_w_sum")
           wait == [s.sm EXCEPT !.waiting = TRUE, !.complete = TRUE,
                                !.goal = 0, !.ready0 = 0, !.cursor = GnoCount]
           k == (ne + CoverInv - 1) \div CoverInv
           again == [s.sm EXCEPT !.cursor = GnoCount, !.over = 0]
           t1 == [G |-> W, sm |-> wait, ref |-> f]
           t2 == [G |-> Switched(W, k), sm |-> again, ref |-> f]
<1>1. /\ Sorted(s.G, n) /\ s.sm \in SmType(n) /\ Counted(s.ref, n)
      /\ s.ref \in RefType(n) /\ s.ref.predates \in SUBSET (1 .. n)
      /\ \A r \in s.ref.predates : At(s.G, r) \in {"summzing", "wait_w_sum"}
  BY GoodParts
<1>2. Counted(f, n) /\ f.predates = s.ref.predates
  <2>1. CASE s.ref.stage = "refinement"
    <3> DEFINE c == [s.ref EXCEPT !.passed = TRUE]
    <3>1. Counting(c, n) /\ c.predates = s.ref.predates
      BY <1>1, <2>1 DEF Counted, Counting, RefType
    <3> HIDE DEF c
    <3>2. Counted(Checked(c), n) /\ Checked(c).predates = c.predates  BY <3>1, CheckedCounts
    <3>3. f = Checked(c)  BY <2>1 DEF c
    <3> QED  BY <3>1, <3>2, <3>3
  <2>2. CASE s.ref.stage # "refinement"  BY <1>1, <2>2
  <2> QED  BY <2>1, <2>2
<1>3. {"hasbeen", "summzing", "wait_w_sum", "infamous"} \subseteq Groups  BY DEF Groups
<1>4. /\ Sorted(D, n)
      /\ \A x \in 1 .. n : At(D, x) = IF x \in ToSet(drop) THEN "hasbeen" ELSE At(s.G, x)
  BY <1>1, <1>3, EnqSomeAt
<1> HIDE DEF D
<1>5. /\ Sorted(W, n)
      /\ \A x \in 1 .. n : At(W, x) = IF At(D, x) = "summzing" THEN "wait_w_sum" ELSE At(D, x)
  BY <1>3, <1>4, EnqAllAt
<1> HIDE DEF W
<1>6. k \in Int /\ wait \in SmType(n) /\ again \in SmType(n)
  <2>1. k \in Int  BY GroupsAssumption
  <2>2. GnoCount \in 0 .. n + 2  BY DEF GnoCount
  <2>3. PICK c \in 0 .. n + 2 : c = GnoCount  BY <2>2
  <2>4. wait = [s.sm EXCEPT !.waiting = TRUE, !.complete = TRUE,
                            !.goal = 0, !.ready0 = 0, !.cursor = c]  BY <2>3
  <2>5. again = [s.sm EXCEPT !.cursor = c, !.over = 0]  BY <2>3
  <2> HIDE DEF wait, again
  <2>6. wait \in SmType(n) /\ again \in SmType(n)  BY <1>1, <2>4, <2>5, SmSet
  <2> QED  BY <2>1, <2>6
<1> HIDE DEF k, wait, again, f
<1>7. /\ Sorted(Switched(W, k), n)
      /\ \A x \in 1 .. n :
           \/ At(Switched(W, k), x) = At(W, x)
           \/ At(W, x) \in {"filled", "risingstar"} /\ At(Switched(W, k), x) = "summzing"
  BY <1>5, <1>6, SwitchedAt
<1>8. Good(t1, n) /\ Kept(s.G, W, n, C)
  <2>1. \A r \in f.predates : At(W, r) \in {"summzing", "wait_w_sum"}
    BY <1>1, <1>2, <1>4, <1>5
  <2>2. Kept(s.G, W, n, C)  BY <1>4, <1>5 DEF Kept, Famous, Plain
  <2> QED  BY <1>2, <1>5, <1>6, <2>1, <2>2, GoodMade
<1>9. Good(t2, n) /\ Kept(s.G, Switched(W, k), n, C)
  <2>1. \A r \in f.predates : At(Switched(W, k), r) \in {"summzing", "wait_w_sum"}
    BY <1>1, <1>2, <1>4, <1>5, <1>7
  <2>2. Kept(W, Switched(W, k), n, C)  BY <1>7 DEF Kept, Famous, Plain
  <2> QED  BY <1>2, <1>6, <1>7, <1>8, <2>1, <2>2, GoodMade, KeptComposes
<1>10. IterationComplete(s, ne, drop) = t1 \/ IterationComplete(s, ne, drop) = t2
  BY DEF IterationComplete, f, D, W, wait, again, k
<1>11. t1.G = W /\ t2.G = Switched(W, k)  OBVIOUS
<1> HIDE DEF t1, t2
<1> QED  BY <1>8, <1>9, <1>10, <1>11

(* Regions that rise to infamy have no summary, and were not chosen.       *)
MayRise(s, R, C) ==
  /\ R \in SUBSET (1 .. nrgn)
  /\ \A r \in R : At(s.G, r) \notin {"summzing", "wait_w_sum"}
  /\ ~ChosenRises => R \intersect C = {}

LEMMA InfamousGood ==
  ASSUME nrgn \in Nat, NEW s, Good(s, nrgn), NEW R, NEW C, MayRise(s, R, C)
  PROVE  /\ Good(InfamousToo(s, R), nrgn)
         /\ Kept(s.G, InfamousToo(s, R).G, nrgn, C)
         /\ \A x \in 1 .. nrgn :
              At(InfamousToo(s, R).G, x) = IF x \in R THEN "infamous" ELSE At(s.G, x)
         /\ InfamousToo(s, R).ref = s.ref /\ InfamousToo(s, R).sm = s.sm
<1> DEFINE n == nrgn
           H == EnqSome(s.G, SetToSeq(R), "infamous")
           t == [G |-> H, sm |-> s.sm, ref |-> s.ref]
<1>1. /\ s = [G |-> s.G, sm |-> s.sm, ref |-> s.ref]
      /\ Sorted(s.G, n) /\ s.sm \in SmType(n) /\ Counted(s.ref, n)
      /\ s.ref.predates \in SUBSET (1 .. n)
      /\ \A r \in s.ref.predates : At(s.G, r) \in {"summzing", "wait_w_sum"}
  BY GoodParts
<1>2. InfamousToo(s, R) = t
  <2>1. s = [G |-> s.G, sm |-> s.sm, ref |-> s.ref]  BY GoodParts
  <2>2. InfamousToo(s, R) = [s EXCEPT !.G = H]  BY DEF InfamousToo
  <2> HIDE DEF H
  <2> QED  BY <2>1, <2>2
<1>3. "infamous" \in Groups  BY DEF Groups
<1>4. Sorted(H, n) /\ \A x \in 1 .. n : At(H, x) = IF x \in R THEN "infamous" ELSE At(s.G, x)
  <2>1. R \in SUBSET (1 .. n)  BY DEF MayRise
  <2> QED  BY <1>1, <1>3, <2>1, EnqSetAt
<1> HIDE DEF H
<1>5. \A r \in s.ref.predates : At(H, r) \in {"summzing", "wait_w_sum"}
  BY <1>1, <1>4 DEF MayRise
<1>6. Kept(s.G, H, n, C)  BY <1>4 DEF Kept, Famous, Plain, MayRise
<1>7. Good(t, n)  BY <1>1, <1>4, <1>5, GoodMade
<1>8. t.G = H /\ t.ref = s.ref /\ t.sm = s.sm  OBVIOUS
<1> HIDE DEF t
<1> QED  BY <1>2, <1>4, <1>6, <1>7, <1>8

LEMMA Remade ==
  ASSUME NEW s, s = [G |-> s.G, sm |-> s.sm, ref |-> s.ref]
  PROVE  /\ \A H, m, f : [s EXCEPT !.G = H, !.ref = f, !.sm = m] = [G |-> H, sm |-> m, ref |-> f]
         /\ \A H, m : [s EXCEPT !.G = H, !.sm = m] = [G |-> H, sm |-> m, ref |-> s.ref]
         /\ \A H, f : [s EXCEPT !.G = H, !.ref = f] = [G |-> H, sm |-> s.sm, ref |-> f]
         /\ \A H : [s EXCEPT !.G = H] = [G |-> H, sm |-> s.sm, ref |-> s.ref]
         /\ \A f : [s EXCEPT !.ref = f] = [G |-> s.G, sm |-> s.sm, ref |-> f]
         /\ \A m : [s EXCEPT !.sm = m] = [G |-> s.G, sm |-> m, ref |-> s.ref]
<1> DEFINE r(a, b, c) == [G |-> a, sm |-> b, ref |-> c]
<1>1. ASSUME NEW q, NEW a, NEW b, NEW c, q = r(a, b, c), NEW x
      PROVE  /\ [q EXCEPT !.G = x] = r(x, b, c) /\ [q EXCEPT !.sm = x] = r(a, x, c)
             /\ [q EXCEPT !.ref = x] = r(a, b, x)
  <2>1. [r(a, b, c) EXCEPT !.G = x] = r(x, b, c)  OBVIOUS
  <2>2. [r(a, b, c) EXCEPT !.sm = x] = r(a, x, c)  OBVIOUS
  <2>3. [r(a, b, c) EXCEPT !.ref = x] = r(a, b, x)  OBVIOUS
  <2> HIDE DEF r
  <2> QED  BY <1>1, <2>1, <2>2, <2>3
<1>2. s = r(s.G, s.sm, s.ref)  OBVIOUS
<1> HIDE DEF r
<1>3. ASSUME NEW x
      PROVE  /\ [s EXCEPT !.G = x] = r(x, s.sm, s.ref) /\ [s EXCEPT !.sm = x] = r(s.G, x, s.ref)
             /\ [s EXCEPT !.ref = x] = r(s.G, s.sm, x)
  <2>1. PICK a, b, c : a = s.G /\ b = s.sm /\ c = s.ref  OBVIOUS
  <2>2. s = r(a, b, c)  BY <1>2, <2>1
  <2>3. /\ [s EXCEPT !.G = x] = r(x, b, c) /\ [s EXCEPT !.sm = x] = r(a, x, c)
        /\ [s EXCEPT !.ref = x] = r(a, b, x)
    BY <1>1, <2>2
  <2> QED  BY <2>1, <2>3
<1>6. ASSUME NEW H, NEW m PROVE [s EXCEPT !.G = H, !.sm = m] = r(H, m, s.ref)
  <2> DEFINE g == [s EXCEPT !.G = H]
  <2>1. g = r(H, s.sm, s.ref)  BY <1>3
  <2> HIDE DEF g
  <2>2. [g EXCEPT !.sm = m] = r(H, m, s.ref)  BY <1>1, <2>1
  <2> QED  BY <2>2, Zenon DEF g
<1>7. ASSUME NEW H, NEW f PROVE [s EXCEPT !.G = H, !.ref = f] = r(H, s.sm, f)
  <2> DEFINE g == [s EXCEPT !.G = H]
  <2>1. g = r(H, s.sm, s.ref)  BY <1>3
  <2> HIDE DEF g
  <2>2. [g EXCEPT !.ref = f] = r(H, s.sm, f)  BY <1>1, <2>1
  <2> QED  BY <2>2, Zenon DEF g
<1>8. ASSUME NEW H, NEW m, NEW f PROVE [s EXCEPT !.G = H, !.ref = f, !.sm = m] = r(H, m, f)
  <2> DEFINE g == [s EXCEPT !.G = H, !.ref = f]
  <2>1. g = r(H, s.sm, f)  BY <1>7
  <2> HIDE DEF g
  <2>2. [g EXCEPT !.sm = m] = r(H, m, f)  BY <1>1, <2>1
  <2> QED  BY <2>2, Zenon DEF g
<1> QED  BY <1>3, <1>6, <1>7, <1>8, Zenon DEF r

(* Summaries that overflow: their regions are popular, and refinement does *)
(* not wait for them any longer.                                           *)
LEMMA OverflowGood ==
  ASSUME nrgn \in Nat, NEW s, Good(s, nrgn), NEW R \in SUBSET (1 .. nrgn), NEW C, NEW G,
         \A r \in R : At(s.G, r) \in {"summzing", "wait_w_sum"},
         Sorted(G, nrgn),
         \A x \in 1 .. nrgn : At(G, x) = IF x \in R THEN "risingstar" ELSE At(s.G, x),
         NEW m \in SmType(nrgn)
  PROVE  /\ Good([G |-> G, sm |-> m, ref |-> Cleared(s.ref, R)], nrgn)
         /\ Kept(s.G, G, nrgn, C)
<1>1. /\ Counting(s.ref, nrgn) /\ s.ref.predates \in SUBSET (1 .. nrgn)
      /\ \A r \in s.ref.predates : At(s.G, r) \in {"summzing", "wait_w_sum"}
  BY GoodParts DEF Counted
<1>2. /\ Counted(Cleared(s.ref, R), nrgn)
      /\ Cleared(s.ref, R).predates = s.ref.predates \ R
  BY <1>1, ClearedCounts
<1>3. \A r \in s.ref.predates \ R : At(G, r) \in {"summzing", "wait_w_sum"}  BY <1>1
<1>4. Kept(s.G, G, nrgn, C)  BY DEF Kept, Famous, Plain
<1> QED  BY <1>2, <1>3, <1>4, GoodMade

(* sm_build_summaries_partial_n, for one choice of what happens in it.     *)
LEMMA ScannedGood ==
  ASSUME nrgn \in Nat, count \in Int, NEW s, Good(s, nrgn), NEW ne \in Int, NEW m, NEW chosen,
         NEW w \in Scanned(s, ne, m, chosen)
  PROVE  Good(w, nrgn) /\ Kept(s.G, w.G, nrgn, chosen)
<1> DEFINE n == nrgn
<1>1. PICK stop \in 1 .. s.sm.cursor - 1, over \in Overflowing(s),
           up \in Risen(s, chosen), drop \in Dropping(s) :
        w = ScannedTo(s, ne, stop, over, up, drop)
  BY DEF Scanned
<1>2. /\ s = [G |-> s.G, sm |-> s.sm, ref |-> s.ref]
      /\ Sorted(s.G, n) /\ s.sm \in SmType(n)
  BY GoodParts
<1>3. {"summzing", "risingstar", "infamous", "wait_w_sum"} \subseteq Groups  BY DEF Groups
<1>4. over \in SUBSET (1 .. n) /\ \A r \in over : At(s.G, r) = "summzing"
  <2>1. s.G["summzing"] \in Seq(1 .. n)  BY <1>2, <1>3 DEF Sorted
  <2>2. ToSet(s.G["summzing"]) \subseteq 1 .. n  BY <2>1, ToSetFacts
  <2>3. over \subseteq ToSet(s.G["summzing"])  BY DEF Overflowing
  <2> QED  BY <1>2, <1>3, <2>2, <2>3, AtFacts DEF Has
<1>5. /\ up \in SUBSET (1 .. n) /\ (~ChosenRises => up \intersect chosen = {})
      /\ \A r \in up : At(s.G, r) \notin {"summzing", "wait_w_sum", "infamous"}
  <2> DEFINE safe == (UNION {ToSet(s.G[g]) : g \in {"wait_w_sum", "summzing", "infamous"}})
                       \union (IF ChosenRises THEN {} ELSE chosen)
  <2>1. up \in SUBSET (Regions \ safe)  BY DEF Risen
  <2>2. \A r \in up : ~Has(s.G, r, "wait_w_sum") /\ ~Has(s.G, r, "summzing") /\ ~Has(s.G, r, "infamous")
    BY <2>1 DEF Has
  <2>3. up \in SUBSET (1 .. n) /\ (~ChosenRises => up \intersect chosen = {})
    <3>1. ~ChosenRises => chosen \subseteq safe  OBVIOUS
    <3> HIDE DEF safe
    <3> QED  BY <2>1, <3>1 DEF Regions
  <2>4. \A r \in up : r \in 1 .. n  BY <2>3
  <2>5. \A r \in up, g \in Groups : Has(s.G, r, g) <=> At(s.G, r) = g
    <3> SUFFICES ASSUME NEW r \in up, NEW g \in Groups PROVE Has(s.G, r, g) <=> At(s.G, r) = g
      OBVIOUS
    <3>1. n \in Nat /\ Sorted(s.G, n) /\ r \in 1 .. n  BY <1>2, <2>4
    <3> HIDE DEF n, safe
    <3> QED  BY <3>1, AtFacts
  <2>6. {"summzing", "wait_w_sum", "infamous"} \subseteq Groups  BY DEF Groups
  <2> QED  BY <2>2, <2>3, <2>5, <2>6
<1>6. drop \in Seq(1 .. n) /\ \A r \in ToSet(drop) : At(s.G, r) = "infamous"
  <2>1. s.G["infamous"] \in Seq(1 .. n)  BY <1>2, <1>3 DEF Sorted
  <2>2. \A r \in ToSet(s.G["infamous"]) : r \in 1 .. n /\ At(s.G, r) = "infamous"
    BY <1>2, <1>3, GroupAt
  <2>3. CASE drop = <<>>
    <3>1. drop \in Seq(1 .. n) /\ Len(drop) = 0  BY <2>3, EmptySeq
    <3>2. \A r : r \in ToSet(drop) <=> \E i \in 1 .. Len(drop) : drop[i] = r  BY <3>1, ToSetFacts
    <3>3. \A r : r \notin ToSet(drop)  BY <3>1, <3>2
    <3> QED  BY <3>1, <3>3
  <2>4. CASE \E r \in ToSet(s.G["infamous"]) : drop = <<r>>
    <3>1. PICK r \in ToSet(s.G["infamous"]) : drop = <<r>>  BY <2>4
    <3>2. drop \in Seq(1 .. n) /\ Len(drop) = 1 /\ drop[1] = r  BY <2>2, <3>1
    <3>3. \A x \in ToSet(drop) : x = r  BY <3>2, ToSetFacts
    <3> QED  BY <2>2, <3>2, <3>3
  <2> QED  BY <2>3, <2>4 DEF Dropping
<1> DEFINE H == EnqSome(s.G, SetToSeq(over), "risingstar")
           sm1 == [s.sm EXCEPT !.over = @ + Cardinality(over)]
           t0 == [G |-> H, sm |-> sm1, ref |-> Cleared(s.ref, over)]
           t1 == InfamousToo(t0, up)
           mid == [s EXCEPT !.G = H, !.ref = Cleared(s.ref, over), !.sm.over = @ + Cardinality(over)]
<1>7. mid = t0
  <2>1. mid = [s EXCEPT !.G = H, !.ref = Cleared(s.ref, over), !.sm = sm1]
    <3>1. DOMAIN s = {"G", "sm", "ref"}  BY <1>2
    <3> HIDE DEF H
    <3> QED  BY <1>2
  <2> HIDE DEF H, sm1, mid
  <2> QED  BY <1>2, <2>1, Remade
<1>8. Sorted(H, n) /\ \A x \in 1 .. n : At(H, x) = IF x \in over THEN "risingstar" ELSE At(s.G, x)
  BY <1>2, <1>3, <1>4, EnqSetAt
<1>9. sm1 \in SmType(n) /\ sm1.cursor = s.sm.cursor
  <2>1. s.sm.over + Cardinality(over) \in Int  BY <1>2, <1>4, Finite, SmOne
  <2>2. sm1 \in SmType(n)  BY <1>2, <2>1, SmOne
  <2> QED  BY <1>2, <2>2 DEF SmType
<1> HIDE DEF H, sm1, mid
<1>10. Good(t0, n) /\ Kept(s.G, H, n, chosen)
  BY <1>4, <1>8, <1>9, OverflowGood
<1>11. t0.G = H  OBVIOUS
<1> HIDE DEF t0
<1>12. \A r \in up : At(t0.G, r) \notin {"summzing", "wait_w_sum"}
  BY <1>5, <1>8, <1>11
<1>13. /\ Good(t1, n) /\ Kept(t0.G, t1.G, n, chosen)
       /\ \A x \in 1 .. n : At(t1.G, x) = IF x \in up THEN "infamous" ELSE At(t0.G, x)
  <2>1. up \in SUBSET (1 .. nrgn) /\ (~ChosenRises => up \intersect chosen = {})  BY <1>5
  <2>2. Good(t0, nrgn)  BY <1>10
  <2>3. /\ Good(InfamousToo(t0, up), nrgn)
        /\ Kept(t0.G, InfamousToo(t0, up).G, nrgn, chosen)
        /\ \A x \in 1 .. nrgn :
             At(InfamousToo(t0, up).G, x) = IF x \in up THEN "infamous" ELSE At(t0.G, x)
    <3>1. MayRise(t0, up, chosen)  BY <1>12, <2>1 DEF MayRise
    <3>2. nrgn \in Nat  OBVIOUS
    <3> HIDE DEF n, t1
    <3> QED  BY <2>2, <3>1, <3>2, InfamousGood
  <2> QED  BY <2>3
<1> HIDE DEF t1
<1>14. Kept(s.G, t1.G, n, chosen)  BY <1>10, <1>11, <1>13, KeptComposes
<1>15. CASE stop > 1
  <2> DEFINE sm2 == [t1.sm EXCEPT !.cursor = stop]
  <2>1. w = [t1 EXCEPT !.sm.cursor = stop]  BY <1>1, <1>7, <1>15, Zenon DEF ScannedTo, mid, H, t1
  <2>2. /\ t1 = [G |-> t1.G, sm |-> t1.sm, ref |-> t1.ref] /\ t1.sm \in SmType(n)
        /\ Sorted(t1.G, n) /\ Counted(t1.ref, n)
        /\ \A r \in t1.ref.predates : At(t1.G, r) \in {"summzing", "wait_w_sum"}
    BY <1>13, GoodParts
  <2>3. stop \in 0 .. n + 2
    <3>1. s.sm.cursor \in 0 .. n + 2  BY <1>2, SmOne
    <3> QED  BY <3>1
  <2>4. sm2 \in SmType(n)  BY <2>2, <2>3, SmOne
  <2>5. w = [t1 EXCEPT !.sm = sm2]
    <3>1. t1 = [G |-> t1.G, sm |-> t1.sm, ref |-> t1.ref]  BY <2>2
    <3> QED  BY <2>1, <3>1
  <2> HIDE DEF sm2
  <2>6. w = [G |-> t1.G, sm |-> sm2, ref |-> t1.ref]  BY <2>2, <2>5, Remade
  <2>7. Good(w, n)  BY <2>2, <2>4, <2>6, GoodMade
  <2>8. w.G = t1.G  BY <2>6
  <2> QED  BY <1>14, <2>7, <2>8
<1>16. CASE ~(stop > 1)
  <2>1. w = IterationComplete(t1, ne, drop)  BY <1>1, <1>7, <1>16, Zenon DEF ScannedTo, mid, H, t1
  <2>2. \A r \in ToSet(drop) : At(t1.G, r) = "infamous"
    <3>1. \A r \in ToSet(drop) : r \in 1 .. n  BY <1>6, ToSetFacts
    <3> QED  BY <1>4, <1>5, <1>6, <1>8, <1>11, <1>13, <3>1
  <2>3. Good(w, n) /\ Kept(t1.G, w.G, n, chosen)
    BY <1>6, <1>13, <2>1, <2>2, IterationGood
  <2> QED  BY <1>14, <2>3, KeptComposes
<1> QED  BY <1>15, <1>16

(* setup_next_wave, with the first row of the pass that it begins.         *)
LEMMA SetupGood ==
  ASSUME nrgn \in Nat, count \in Int, NEW s, Good(s, nrgn), NEW ne \in Int, NEW chosen,
         NEW w \in Setup(s, ne, chosen)
  PROVE  Good(w, nrgn) /\ Kept(s.G, w.G, nrgn, chosen)
<1> DEFINE n == nrgn
           H == Switched(s.G, Coverage(ne))
           y == Number(H, "wait_w_sum")
           m == [s.sm EXCEPT !.waiting = FALSE, !.complete = FALSE, !.goal = Goal(ne),
                             !.cursor = GnoCount, !.over = 0, !.ready0 = y]
           t0 == [G |-> H, sm |-> m, ref |-> s.ref]
<1>1. /\ s = [G |-> s.G, sm |-> s.sm, ref |-> s.ref]
      /\ Sorted(s.G, n) /\ s.sm \in SmType(n) /\ Counted(s.ref, n)
      /\ s.ref.predates \in SUBSET (1 .. n)
      /\ \A r \in s.ref.predates : At(s.G, r) \in {"summzing", "wait_w_sum"}
  BY GoodParts
<1>2. Coverage(ne) \in Int /\ Goal(ne) \in Int /\ GnoCount \in 0 .. n + 2
  BY <1>1, Ranges
<1>3. /\ Sorted(H, n)
      /\ \A x \in 1 .. n :
           \/ At(H, x) = At(s.G, x)
           \/ At(s.G, x) \in {"filled", "risingstar"} /\ At(H, x) = "summzing"
  BY <1>1, <1>2, SwitchedAt
<1>4. w \in Scanned(t0, ne, 1, chosen)
  <2>1. w \in Scanned([s EXCEPT !.G = H, !.sm = m], ne, 1, chosen)  BY Zenon DEF Setup
  <2>2. s = [G |-> s.G, sm |-> s.sm, ref |-> s.ref]  BY GoodParts
  <2> HIDE DEF H, m
  <2>3. \A a, b : [s EXCEPT !.G = a, !.sm = b] = [G |-> a, sm |-> b, ref |-> s.ref]
    BY <2>2, Remade
  <2>4. [s EXCEPT !.G = H, !.sm = m] = t0  BY <2>3, Zenon
  <2> QED  BY <2>1, <2>4
<1> HIDE DEF H
<1>5. y \in Int
  <2>1. "wait_w_sum" \in Groups  BY DEF Groups
  <2> QED  BY <1>3, <2>1, Ranges
<1> HIDE DEF y
<1>6. m \in SmType(n)  BY <1>1, <1>2, <1>5, SmSet
<1> HIDE DEF m
<1>7. Kept(s.G, H, n, chosen)  BY <1>3 DEF Kept, Famous, Plain
<1>8. Good(t0, n)
  <2>1. \A r \in s.ref.predates : At(H, r) \in {"summzing", "wait_w_sum"}  BY <1>1, <1>3
  <2> QED  BY <1>1, <1>3, <1>6, <2>1, GoodMade
<1>9. t0.G = H  OBVIOUS
<1> HIDE DEF t0
<1>10. Good(w, n) /\ Kept(t0.G, w.G, n, chosen)  BY <1>4, <1>8, ScannedGood
<1> QED  BY <1>7, <1>9, <1>10, KeptComposes

LEMMA KeptSame ==
  ASSUME NEW n, NEW C, NEW G
  PROVE  Kept(G, G, n, C)
BY DEF Kept

LEMMA ProgressGood ==
  ASSUME nrgn \in Nat, count \in Int, NEW s, Good(s, nrgn), NEW kind, NEW chosen,
         NEW w \in Progress(s, kind, chosen)
  PROVE  Good(w, nrgn) /\ Kept(s.G, w.G, nrgn, chosen)
<1> DEFINE ne == Nonempty(s.G)
           begun == IF s.sm.waiting THEN Setup(s, ne, chosen) ELSE {s}
<1>1. Nonempty(s.G) \in Int  BY GoodParts, Ranges
<1>2. CASE ~s.sm.on \/ (s.sm.waiting /\ KeepsWaiting(s, ne))
  <2>1. w = s  BY <1>2 DEF Progress
  <2> QED  BY <2>1, KeptSame
<1>3. CASE ~(~s.sm.on \/ (s.sm.waiting /\ KeepsWaiting(s, ne)))
  <2>1. PICK t \in begun :
          w \in Scanned(t, ne, AtLeast1(RowsToScan(t, kind)), chosen) \/ w = t
    BY <1>3 DEF Progress
  <2>2. Good(t, nrgn) /\ Kept(s.G, t.G, nrgn, chosen)
    <3>1. CASE s.sm.waiting  BY <1>1, <3>1, SetupGood
    <3>2. CASE ~s.sm.waiting
      <4>1. t = s  BY <3>2
      <4> QED  BY <4>1, KeptSame
    <3> QED  BY <3>1, <3>2
  <2>3. CASE w = t  BY <2>2, <2>3
  <2>4. CASE w \in Scanned(t, ne, AtLeast1(RowsToScan(t, kind)), chosen)
    <3>1. Good(w, nrgn) /\ Kept(t.G, w.G, nrgn, chosen)  BY <1>1, <2>2, <2>4, ScannedGood
    <3> QED  BY <2>2, <3>1, KeptComposes
  <2> QED  BY <2>1, <2>3, <2>4
<1> QED  BY <1>2, <1>3

(* initialize_summaries.                                                   *)
LEMMA InitializedGood ==
  ASSUME nrgn \in Nat, count \in Int, Good(Now, nrgn), Number(grp, "filled") >= 2,
         NEW w \in Initialized(grp, nrgn)
  PROVE  Good(w, nrgn) /\ Kept(grp, w.G, nrgn, {})
<1> DEFINE n == nrgn
           r == Head(grp["filled"])
           H == Enq(grp, r, "wait_nosum")
           m == [NoSummaries EXCEPT !.on = TRUE, !.goal = Goal(nrgn), !.cursor = GnoCount]
           t0 == [G |-> H, sm |-> m, ref |-> ref]
<1>1. /\ Sorted(grp, n) /\ Counted(ref, n) /\ ref.predates \in SUBSET (1 .. n)
      /\ \A x \in ref.predates : At(grp, x) \in {"summzing", "wait_w_sum"}
  <2>1. Now.G = grp /\ Now.ref = ref  BY DEF Now
  <2> QED  BY <2>1, GoodParts
<1>2. {"filled", "wait_nosum"} \subseteq Groups  BY DEF Groups
<1>3. r \in 1 .. n /\ At(grp, r) = "filled"
  <2>1. grp["filled"] \in Seq(1 .. n)  BY <1>1, <1>2 DEF Sorted
  <2>2. Len(grp["filled"]) \in Nat /\ Len(grp["filled"]) >= 2  BY <2>1, LenProperties DEF Number
  <2>3. r = grp["filled"][1] /\ 1 \in 1 .. Len(grp["filled"])  BY <2>1, <2>2
  <2>4. r \in ToSet(grp["filled"])  BY <2>1, <2>3, ToSetFacts
  <2>5. r \in 1 .. n  BY <2>1, <2>4, ToSetFacts
  <2> QED  BY <1>1, <1>2, <2>4, <2>5, AtFacts DEF Has
<1> HIDE DEF r
<1>4. Sorted(H, n) /\ \A x \in 1 .. n : At(H, x) = IF x = r THEN "wait_nosum" ELSE At(grp, x)
  BY <1>1, <1>2, <1>3, EnqAt
<1>5. w \in Scanned(t0, nrgn, GnoCount, {})  BY DEF Initialized, r
<1> HIDE DEF H
<1>6. m \in SmType(n)
  <2>1. Goal(nrgn) \in Int /\ GnoCount \in 0 .. n + 2  BY <1>1, Ranges
  <2> DEFINE m1 == [NoSummaries EXCEPT !.on = TRUE]
             m2 == [m1 EXCEPT !.goal = Goal(nrgn)]
  <2>2. m1 \in SmType(n)
    <3>1. 0 \in 0 .. n + 2  OBVIOUS
    <3>2. NoSummaries \in SmType(n)  BY <3>1 DEF NoSummaries, SmType
    <3> QED  BY <3>2, SmOne
  <2> HIDE DEF m1
  <2>3. m2 \in SmType(n)  BY <2>1, <2>2, SmOne
  <2> HIDE DEF m2
  <2>4. [m2 EXCEPT !.cursor = GnoCount] \in SmType(n)  BY <2>1, <2>3, SmOne
  <2> QED  BY <2>4, Zenon DEF m1, m2
<1> HIDE DEF m
<1>7. Kept(grp, H, n, {})  BY <1>3, <1>4 DEF Kept, Famous, Plain
<1>8. Good(t0, n)
  <2>1. \A x \in ref.predates : At(H, x) \in {"summzing", "wait_w_sum"}  BY <1>1, <1>3, <1>4
  <2> QED  BY <1>1, <1>4, <1>6, <2>1, GoodMade
<1>9. t0.G = H  OBVIOUS
<1> HIDE DEF t0
<1>10. nrgn \in Int  OBVIOUS
<1>11. Good(w, n) /\ Kept(t0.G, w.G, n, {})  BY <1>5, <1>8, <1>10, ScannedGood
<1> QED  BY <1>7, <1>9, <1>11, KeptComposes

LEMMA KeptEnds ==
  ASSUME NEW n, NEW C, NEW G, NEW H, NEW f, NEW h, Kept(G, H, n, C)
  PROVE  EndsByMarking(G, f, H, h, n)
BY DEF Kept, EndsByMarking, Famous

(* sm_start_refinement.                                                    *)
LEMMA RefinementGood ==
  ASSUME NEW n \in Nat, NEW s, Good(s, n), s.ref.stage = "construction"
  PROVE  /\ Good(RefinementStarts(s), n) /\ RefinementStarts(s).ref.stage = "refinement"
         /\ \A x \in 1 .. n :
              At(RefinementStarts(s).G, x) =
                IF At(s.G, x) = "advertised" THEN "filled" ELSE At(s.G, x)
<1> DEFINE old == ToSet(s.G["summzing"]) \union ToSet(s.G["wait_w_sum"])
           H == EnqAll(s.G, "advertised", "filled")
           f == [stage |-> "refinement", predates |-> s.ref.predates \union old,
                 left |-> Cardinality(old), passed |-> FALSE]
<1>1. /\ s = [G |-> s.G, sm |-> s.sm, ref |-> s.ref]
      /\ Sorted(s.G, n) /\ s.sm \in SmType(n) /\ Counted(s.ref, n)
  BY GoodParts
<1>2. {"summzing", "wait_w_sum", "advertised", "filled"} \subseteq Groups  BY DEF Groups
<1>3. RefinementStarts(s) = [G |-> H, sm |-> s.sm, ref |-> f]
  <2>1. RefinementStarts(s) = [s EXCEPT !.G = H, !.ref = f]  BY Zenon DEF RefinementStarts
  <2>2. s = [G |-> s.G, sm |-> s.sm, ref |-> s.ref]  BY GoodParts
  <2> HIDE DEF H, f
  <2>3. \A a, b : [s EXCEPT !.G = a, !.ref = b] = [G |-> a, sm |-> s.sm, ref |-> b]
    BY <2>2, Remade
  <2> QED  BY <2>1, <2>3
<1>4. old \in SUBSET (1 .. n) /\ \A x \in old : At(s.G, x) \in {"summzing", "wait_w_sum"}
  <2>1. s.G["summzing"] \in Seq(1 .. n) /\ s.G["wait_w_sum"] \in Seq(1 .. n)
    BY <1>1, <1>2 DEF Sorted
  <2>2. old \in SUBSET (1 .. n)  BY <2>1, ToSetFacts
  <2>3. \A x \in old : Has(s.G, x, "summzing") \/ Has(s.G, x, "wait_w_sum")  BY DEF Has
  <2> HIDE DEF old
  <2> QED  BY <1>1, <1>2, <2>2, <2>3, AtFacts
<1>5. Sorted(H, n) /\ \A x \in 1 .. n : At(H, x) = IF At(s.G, x) = "advertised" THEN "filled" ELSE At(s.G, x)
  BY <1>1, <1>2, EnqAllAt
<1> HIDE DEF H, old
<1>6. Counted(f, n) /\ f.predates = old /\ f.stage = "refinement"
  <2>1. s.ref.predates = {}  BY <1>1 DEF Counted, Counting
  <2>2. Cardinality(old) \in Nat  BY <1>4, Finite
  <2>3. f = [stage |-> "refinement", predates |-> old, left |-> Cardinality(old), passed |-> FALSE]
    BY <2>1
  <2> HIDE DEF f
  <2> QED  BY <1>4, <2>2, <2>3 DEF Counted, Counting, RefType, Stages
<1> HIDE DEF f
<1>7. \A x \in f.predates : At(H, x) \in {"summzing", "wait_w_sum"}  BY <1>4, <1>5, <1>6
<1>8. Good([G |-> H, sm |-> s.sm, ref |-> f], n)  BY <1>1, <1>5, <1>6, <1>7, GoodMade
<1> QED  BY <1>3, <1>5, <1>6, <1>8

(* smircy_step: only a new marking lets hasbeen regions go on, and they    *)
(* can be collected when it is through.                                    *)
LEMMA MarkerGood ==
  ASSUME nrgn \in Nat, NEW s, Good(s, nrgn), NEW w \in MarkerSteps(s)
  PROVE  Good(w, nrgn) /\ EndsByMarking(s.G, s.ref, w.G, w.ref, nrgn)
<1> DEFINE n == nrgn
           f == IF s.ref.stage = "completed" THEN NoMarker ELSE s.ref
           ended == [s EXCEPT !.ref = f]
           begun == IF ended.ref.stage # "none" THEN ended
                    ELSE [ended EXCEPT !.G = EnqAll(@, "hasbeen", "advertised"),
                                       !.ref.stage = "construction"]
           marked == {InfamousToo(begun, R) : R \in Risen(begun, {})}
<1>1. /\ s = [G |-> s.G, sm |-> s.sm, ref |-> s.ref]
      /\ Sorted(s.G, n) /\ s.sm \in SmType(n) /\ Counted(s.ref, n)
      /\ s.ref \in RefType(n) /\ s.ref.predates \in SUBSET (1 .. n)
      /\ \A x \in s.ref.predates : At(s.G, x) \in {"summzing", "wait_w_sum"}
  BY GoodParts
<1>2. \/ w = ended
      \/ \E m \in marked : w = m \/ (begun.ref.stage = "construction" /\ w = RefinementStarts(m))
  <2>1. w \in IF count <= 2 THEN {ended}
             ELSE marked \union IF begun.sm.on /\ begun.ref.stage = "construction"
                                THEN {RefinementStarts(m) : m \in marked} ELSE {}
    BY Zenon DEF MarkerSteps
  <2> HIDE DEF ended, begun, marked
  <2>2. \/ w = ended
        \/ w \in marked
        \/ begun.ref.stage = "construction" /\ w \in {RefinementStarts(m) : m \in marked}
    BY <2>1
  <2> QED  BY <2>2
<1>3. /\ Counted(f, n) /\ f \in RefType(n) /\ f.predates \subseteq s.ref.predates
      /\ f.stage = "none" => s.ref.stage # "construction"
  <2>1. CASE s.ref.stage = "completed"
    <3>1. f = NoMarker  BY <2>1
    <3>2. Cardinality({}) = 0  BY FS_EmptySet
    <3>3. {} \in SUBSET (1 .. n)  OBVIOUS
    <3>4. NoMarker \in RefType(n)  BY <3>3 DEF NoMarker, RefType, Stages
    <3>5. NoMarker.stage = "none" /\ NoMarker.left = 0 /\ NoMarker.predates = {}  BY DEF NoMarker
    <3> HIDE DEF f
    <3> QED  BY <2>1, <3>1, <3>2, <3>4, <3>5 DEF Counted, Counting
  <2>2. CASE s.ref.stage # "completed"  BY <1>1, <2>2
  <2> QED  BY <2>1, <2>2
<1> HIDE DEF f
<1>4. /\ ended = [G |-> s.G, sm |-> s.sm, ref |-> f]
      /\ ended.G = s.G /\ ended.sm = s.sm /\ ended.ref = f
  <2>1. s = [G |-> s.G, sm |-> s.sm, ref |-> s.ref]  BY GoodParts
  <2>2. ended = [G |-> s.G, sm |-> s.sm, ref |-> f]  BY <2>1, Remade
  <2> HIDE DEF ended
  <2> QED  BY <2>2
<1>5. Good(ended, n) /\ EndsByMarking(s.G, s.ref, ended.G, ended.ref, n)
  <2>1. Good(ended, n)  BY <1>1, <1>3, <1>4, GoodMade
  <2>2. Kept(s.G, ended.G, n, {})  BY <1>4, KeptSame
  <2> QED  BY <2>1, <2>2, KeptEnds
<1> HIDE DEF ended
<1>6. /\ Good(begun, n)
      /\ \A x \in 1 .. n :
           \/ At(begun.G, x) = At(s.G, x)
           \/ /\ At(s.G, x) = "hasbeen" /\ At(begun.G, x) = "advertised"
              /\ s.ref.stage # "construction"
  <2>1. CASE ended.ref.stage # "none"
    <3>1. begun = ended  BY <2>1
    <3> HIDE DEF begun
    <3> QED  BY <1>4, <1>5, <3>1
  <2>2. CASE ended.ref.stage = "none"
    <3> DEFINE H == EnqAll(s.G, "hasbeen", "advertised")
               h == [f EXCEPT !.stage = "construction"]
    <3>1. begun = [G |-> H, sm |-> s.sm, ref |-> h]
      <4>1. begun = [ended EXCEPT !.G = EnqAll(@, "hasbeen", "advertised"), !.ref.stage = "construction"]
        BY <2>2
      <4> HIDE DEF begun
      <4>2. begun = [ended EXCEPT !.G = H, !.ref = h]  BY <1>4, <4>1
      <4> HIDE DEF H, h
      <4>3. ended = [G |-> ended.G, sm |-> ended.sm, ref |-> ended.ref]  BY <1>5, GoodParts
      <4>4. \A a, b : [ended EXCEPT !.G = a, !.ref = b] = [G |-> a, sm |-> ended.sm, ref |-> b]
        BY <4>3, Remade
      <4> QED  BY <1>4, <4>2, <4>4
    <3>2. {"hasbeen", "advertised"} \subseteq Groups  BY DEF Groups
    <3>3. Sorted(H, n) /\ \A x \in 1 .. n : At(H, x) = IF At(s.G, x) = "hasbeen" THEN "advertised" ELSE At(s.G, x)
      BY <1>1, <3>2, EnqAllAt
    <3>4. Counted(h, n) /\ h.predates = f.predates
      BY <1>3, <1>4, <2>2 DEF Counted, Counting, RefType, Stages
    <3> HIDE DEF H, h, begun
    <3>5. \A x \in h.predates : At(H, x) \in {"summzing", "wait_w_sum"}  BY <1>1, <1>3, <3>3, <3>4
    <3>6. Good(begun, n)  BY <1>1, <3>1, <3>3, <3>4, <3>5, GoodMade
    <3>7. begun.G = H  BY <3>1
    <3> QED  BY <1>3, <1>4, <2>2, <3>3, <3>6, <3>7
  <2> QED  BY <2>1, <2>2
<1> HIDE DEF begun
<1>7. ASSUME NEW m \in marked
      PROVE  /\ Good(m, n) /\ m.ref = begun.ref
             /\ \A x \in 1 .. n :
                  \/ At(m.G, x) = At(s.G, x)
                  \/ At(m.G, x) = "infamous"
                  \/ /\ At(s.G, x) = "hasbeen" /\ At(m.G, x) = "advertised"
                     /\ s.ref.stage # "construction"
  <2>1. PICK R \in Risen(begun, {}) : m = InfamousToo(begun, R)  OBVIOUS
  <2> HIDE DEF marked
  <2>2. R \in SUBSET Regions /\ \A g \in {"wait_w_sum", "summzing"} : \A r \in R : ~Has(begun.G, r, g)
    BY DEF Risen, Has
  <2>3. R \in SUBSET (1 .. nrgn) /\ R \intersect {} = {}  BY <2>2 DEF Regions
  <2>4. \A r \in R : At(begun.G, r) \notin {"summzing", "wait_w_sum"}
    <3>1. {"wait_w_sum", "summzing"} \subseteq Groups  BY DEF Groups
    <3>2. Sorted(begun.G, nrgn)  BY <1>6, GoodParts
    <3> QED  BY <2>2, <2>3, <3>1, <3>2, AtFacts
  <2>5. /\ Good(m, n) /\ m.ref = begun.ref
        /\ \A x \in 1 .. n : At(m.G, x) = IF x \in R THEN "infamous" ELSE At(begun.G, x)
    <3>1. MayRise(begun, R, {})  BY <2>3, <2>4 DEF MayRise
    <3> QED  BY <1>6, <2>1, <3>1, InfamousGood
  <2> QED  BY <1>6, <2>5
<1>8. CASE w = ended  BY <1>5, <1>8
<1>9. ASSUME NEW m \in marked, w = m PROVE Good(w, n) /\ EndsByMarking(s.G, s.ref, w.G, w.ref, n)
  <2>1. EndsByMarking(s.G, s.ref, m.G, m.ref, n)
    <3> HIDE DEF marked
    <3> QED  BY <1>7 DEF EndsByMarking, Famous
  <2> QED  BY <1>7, <1>9, <2>1
<1>10. ASSUME NEW m \in marked, begun.ref.stage = "construction", w = RefinementStarts(m)
       PROVE  Good(w, n) /\ EndsByMarking(s.G, s.ref, w.G, w.ref, n)
  <2> HIDE DEF marked
  <2>1. Good(m, n) /\ m.ref.stage = "construction"  BY <1>7, <1>10
  <2>2. /\ Good(w, n) /\ w.ref.stage = "refinement"
        /\ \A x \in 1 .. n : At(w.G, x) = IF At(m.G, x) = "advertised" THEN "filled" ELSE At(m.G, x)
    BY <1>10, <2>1, RefinementGood
  <2>3. EndsByMarking(s.G, s.ref, w.G, w.ref, n)  BY <1>7, <2>2 DEF EndsByMarking, Famous
  <2> QED  BY <2>2, <2>3
<1> QED  BY <1>2, <1>8, <1>9, <1>10
-----------------------------------------------------------------------------
LEMMA Typed ==
  ASSUME IInv
  PROVE  /\ nrgn \in Nat /\ nrgn \in 2 .. MaxRegions /\ count \in Int /\ to \in 1 .. nrgn
         /\ Sorted(grp, nrgn) /\ sm \in SmType(nrgn) /\ Counted(ref, nrgn)
         /\ ref \in RefType(nrgn) /\ ref.predates \in SUBSET (1 .. nrgn)
         /\ \A r \in ref.predates : At(grp, r) \in {"summzing", "wait_w_sum"}
         /\ Now.G = grp /\ Now.sm = sm /\ Now.ref = ref
<1>1. Now.G = grp /\ Now.sm = sm /\ Now.ref = ref  BY DEF Now
<1>2. nrgn \in 2 .. MaxRegions /\ count \in 2 .. nrgn /\ to \in 1 .. nrgn /\ Good(Now, nrgn)
  BY DEF IInv, Regions
<1>3. nrgn \in Nat /\ count \in Int  BY <1>2
<1> QED  BY <1>1, <1>2, <1>3, GoodParts

LEMMA BecomesGood ==
  ASSUME NEW n, NEW w, Good(w, n), Becomes(w)
  PROVE  Good(Now', n) /\ grp' = w.G /\ ref' = w.ref
<1>1. w = [G |-> w.G, sm |-> w.sm, ref |-> w.ref]  BY GoodParts
<1>2. Now' = w  BY <1>1 DEF Now, Becomes
<1> QED  BY <1>2 DEF Becomes

(* The region that is copied to is a new one, or has been emptied.         *)
LEMMA NewToFacts ==
  ASSUME nrgn \in 2 .. MaxRegions, NEW G, Sorted(G, nrgn), NewTo(G)
  PROVE  /\ nrgn' \in 2 .. MaxRegions /\ nrgn' >= nrgn /\ to' \in 1 .. nrgn'
         /\ Sorted(grp', nrgn') /\ At(grp', to') = "unfilled"
         /\ \A x \in 1 .. nrgn : At(grp', x) = At(G, x)
<1>0. nrgn \in Nat /\ "unfilled" \in Groups  BY DEF Groups
<1>1. CASE G["unfilled"] # <<>>
  <2>1. to' = Head(G["unfilled"]) /\ grp' = G /\ nrgn' = nrgn  BY <1>1 DEF NewTo
  <2>2. G["unfilled"] \in Seq(1 .. nrgn)  BY <1>0 DEF Sorted
  <2>3. to' = G["unfilled"][1] /\ 1 \in 1 .. Len(G["unfilled"])  BY <1>1, <2>1, <2>2, EmptySeq
  <2>4. to' \in ToSet(G["unfilled"]) /\ to' \in 1 .. nrgn  BY <2>2, <2>3, ToSetFacts
  <2>5. At(G, to') = "unfilled"  BY <1>0, <2>4, AtFacts DEF Has
  <2> QED  BY <1>0, <2>1, <2>4, <2>5
<1>2. CASE G["unfilled"] = <<>>
  <2> DEFINE n == nrgn + 1
  <2>1. /\ nrgn < MaxRegions /\ nrgn' = n /\ to' = n
        /\ grp' = [G EXCEPT !["unfilled"] = <<n>>]
    BY <1>2 DEF NewTo
  <2>2. n \in Nat /\ 1 .. nrgn \subseteq 1 .. n /\ n \in 1 .. n /\ n \notin 1 .. nrgn
        /\ \A x \in 1 .. n : x \in 1 .. nrgn \/ x = n
    BY <1>0
  <2> HIDE DEF n
  <2>3. G \in [Groups -> Seq(1 .. nrgn)]  BY DEF Sorted
  <2>4. ASSUME NEW g \in Groups
        PROVE  /\ grp'[g] \in Seq(1 .. n) /\ IsInjective(grp'[g])
               /\ \A x \in 1 .. n : Has(grp', x, g) <=> IF x = n THEN g = "unfilled" ELSE Has(G, x, g)
    <3>1. CASE g = "unfilled"
      <4>1. grp'[g] = <<n>>  BY <1>0, <2>1, <2>3, <3>1
      <4>2. <<n>> \in Seq(1 .. n) /\ Len(<<n>>) = 1 /\ <<n>>[1] = n  BY <2>2
      <4>3. \A x : x \in ToSet(<<n>>) <=> x = n
        <5>1. \A x : x \in ToSet(<<n>>) <=> \E i \in 1 .. Len(<<n>>) : <<n>>[i] = x
          BY <4>2, ToSetFacts
        <5> QED  BY <4>2, <5>1
      <4>4. IsInjective(<<n>>)  BY DEF IsInjective
      <4>5. \A x : ~Has(G, x, "unfilled")
        <5>1. <<>> \in Seq(1 .. n) /\ Len(<<>>) = 0  BY EmptySeq
        <5>2. \A x : x \in ToSet(<<>>) <=> \E i \in 1 .. Len(<<>>) : <<>>[i] = x  BY <5>1, ToSetFacts
        <5> QED  BY <1>2, <5>1, <5>2 DEF Has
      <4> QED  BY <3>1, <4>1, <4>2, <4>3, <4>4, <4>5 DEF Has
    <3>2. CASE g # "unfilled"
      <4>1. grp'[g] = G[g]  BY <2>1, <2>3, <3>2
      <4>2. G[g] \in Seq(1 .. nrgn) /\ IsInjective(G[g])  BY DEF Sorted
      <4>3. G[g] \in Seq(1 .. n)  BY <2>2, <4>2, SeqMonotonic
      <4>4. ~Has(G, n, g)  BY <2>2, <4>2, ToSetFacts DEF Has
      <4> QED  BY <3>2, <4>1, <4>2, <4>3, <4>4 DEF Has
    <3> QED  BY <3>1, <3>2
  <2>5. Sorted(grp', n)
    <3>1. grp' \in [Groups -> Seq(1 .. n)]
      <4>1. DOMAIN grp' = Groups /\ grp' = [g \in Groups |-> grp'[g]]  BY <2>1, <2>3
      <4> QED  BY <2>4, <4>1
    <3>2. \A r \in 1 .. n : \E g \in Groups : Has(grp', r, g)
      BY <1>0, <2>2, <2>4 DEF Sorted
    <3>3. \A g, h \in Groups, r \in 1 .. n : Has(grp', r, g) /\ Has(grp', r, h) => g = h
      BY <2>2, <2>4 DEF Sorted
    <3> QED  BY <2>4, <3>1, <3>2, <3>3 DEF Sorted
  <2>6. ASSUME NEW x \in 1 .. nrgn PROVE At(grp', x) = At(G, x)
    <3>1. At(G, x) \in Groups /\ Has(G, x, At(G, x))  BY <1>0, AtFacts
    <3>2. x \in 1 .. n /\ x # n  BY <2>2
    <3>3. Has(grp', x, At(G, x))  BY <2>4, <3>1, <3>2
    <3> QED  BY <2>2, <2>5, <3>1, <3>2, <3>3, AtFacts
  <2>7. Has(grp', n, "unfilled")  BY <1>0, <2>2, <2>4
  <2>8. At(grp', n) = "unfilled"  BY <1>0, <2>2, <2>5, <2>7, AtFacts
  <2>9. n \in 2 .. MaxRegions /\ n >= nrgn  BY <2>1, GroupsAssumption DEF n
  <2> QED  BY <2>1, <2>2, <2>5, <2>6, <2>8, <2>9
<1> QED  BY <1>1, <1>2

(* More regions change nothing for the summarizer.                         *)
LEMMA GrowGood ==
  ASSUME IInv, nrgn' \in Nat, nrgn' >= nrgn, Sorted(grp', nrgn'), sm' = sm, ref' = ref,
         \A r \in ref.predates : At(grp', r) = At(grp, r)
  PROVE  Good(Now', nrgn')
<1>1. /\ nrgn \in Nat /\ sm \in SmType(nrgn) /\ Counted(ref, nrgn) /\ ref \in RefType(nrgn)
      /\ ref.predates \in SUBSET (1 .. nrgn)
      /\ \A r \in ref.predates : At(grp, r) \in {"summzing", "wait_w_sum"}
  BY Typed
<1>2. 1 .. nrgn \subseteq 1 .. nrgn' /\ 0 .. nrgn + 2 \subseteq 0 .. nrgn' + 2
  <2>1. \A a, b \in Nat : b >= a => 1 .. a \subseteq 1 .. b /\ 0 .. a + 2 \subseteq 0 .. b + 2
    OBVIOUS
  <2> QED  BY <1>1, <2>1
<1>3. sm' \in SmType(nrgn')
  <2> DEFINE I == 0 .. nrgn + 2
             J == 0 .. nrgn' + 2
  <2>1. I \subseteq J  BY <1>2
  <2>2. sm \in [on : BOOLEAN, waiting : BOOLEAN, complete : BOOLEAN,
                cursor : I, goal : Int, ready0 : Int, over : Int]
    BY <1>1 DEF SmType
  <2> HIDE DEF I, J
  <2>3. sm' \in [on : BOOLEAN, waiting : BOOLEAN, complete : BOOLEAN,
                 cursor : J, goal : Int, ready0 : Int, over : Int]
    BY <2>1, <2>2
  <2> QED  BY <2>3 DEF SmType, J
<1>4. ref' \in RefType(nrgn')
  <2>1. SUBSET (1 .. nrgn) \subseteq SUBSET (1 .. nrgn')  BY <1>2
  <2> QED  BY <1>1, <2>1 DEF RefType
<1>5. Counted(ref', nrgn')  BY <1>1, <1>4 DEF Counted, Counting
<1>6. Good([G |-> grp', sm |-> sm', ref |-> ref'], nrgn')  BY <1>1, <1>3, <1>5, GoodMade
<1>7. Now' = [G |-> grp', sm |-> sm', ref |-> ref']  BY DEF Now
<1> QED  BY <1>6, <1>7
-----------------------------------------------------------------------------
LEMMA InitGood == Init => IInv
<1> SUFFICES ASSUME Init PROVE IInv  OBVIOUS
<1>1. nrgn = 2 /\ count = 2 /\ to = 1 /\ victim = 0 /\ phase = "mutate"  BY DEF Init
<1>2. grp = [g \in Groups |-> IF g = "unfilled" THEN <<1, 2>> ELSE <<>>]  BY DEF Init
<1>3. "unfilled" \in Groups  BY DEF Groups
<1>4. ASSUME NEW g \in Groups
      PROVE  /\ grp[g] \in Seq(1 .. 2) /\ IsInjective(grp[g])
             /\ \A r \in 1 .. 2 : Has(grp, r, g) <=> g = "unfilled"
  <2>1. CASE g = "unfilled"
    <3> DEFINE s == <<1, 2>>
    <3>1. grp[g] = s  BY <1>2, <2>1
    <3>2. s \in Seq(1 .. 2) /\ Len(s) = 2 /\ s[1] = 1 /\ s[2] = 2  OBVIOUS
    <3>3. DOMAIN s = 1 .. 2  BY <3>2
    <3> HIDE DEF s
    <3>4. IsInjective(s)  BY <3>2, <3>3 DEF IsInjective
    <3>5. \A r \in 1 .. 2 : r \in ToSet(s)  BY <3>2, ToSetFacts
    <3> QED  BY <2>1, <3>1, <3>2, <3>4, <3>5 DEF Has
  <2>2. CASE g # "unfilled"
    <3>1. grp[g] = <<>>  BY <1>2, <2>2
    <3>2. <<>> \in Seq(1 .. 2) /\ Len(<<>>) = 0  BY EmptySeq
    <3>3. \A x : x \in ToSet(<<>>) <=> \E i \in 1 .. Len(<<>>) : <<>>[i] = x  BY <3>2, ToSetFacts
    <3>4. IsInjective(<<>>)  BY DEF IsInjective
    <3> QED  BY <2>2, <3>1, <3>2, <3>3, <3>4 DEF Has
  <2> QED  BY <2>1, <2>2
<1>5. Sorted(grp, nrgn)
  <2>1. grp \in [Groups -> Seq(1 .. 2)]  BY <1>2, <1>4
  <2> QED  BY <1>1, <1>3, <1>4, <2>1 DEF Sorted
<1>6. sm \in SmType(nrgn) /\ Counted(ref, nrgn) /\ ref.predates = {}
  <2>1. sm = NoSummaries /\ ref = NoMarker  BY DEF Init
  <2>2. 0 \in 0 .. nrgn + 2 /\ {} \in SUBSET (1 .. nrgn)  BY <1>1
  <2>3. Cardinality({}) = 0  BY FS_EmptySet
  <2>4. sm \in SmType(nrgn)  BY <2>1, <2>2 DEF NoSummaries, SmType
  <2> QED  BY <2>1, <2>2, <2>3, <2>4 DEF NoMarker, Counted, Counting, RefType, Stages
<1>7. Good(Now, nrgn)  BY <1>5, <1>6, GoodMade DEF Now
<1>8. nrgn \in 2 .. MaxRegions /\ count \in 2 .. nrgn /\ to \in Regions /\ victim \in 0 .. nrgn
  BY <1>1, GroupsAssumption DEF Regions
<1> QED  BY <1>1, <1>7, <1>8 DEF IInv, Copying

(* What every step keeps.                                                  *)
Steps == IInv' /\ nrgn' >= nrgn /\ (~ChosenRises => EndsByMarking(grp, ref, grp', ref', nrgn))

LEMMA TimerStep == ASSUME IInv, Timer PROVE Steps
<1>1. nrgn \in Nat /\ count \in Int /\ Good(Now, nrgn) /\ Now.G = grp  BY Typed DEF IInv
<1>2. PICK w \in Progress(Now, "timer", {}) : Becomes(w)  BY DEF Timer
<1>3. Good(w, nrgn) /\ Kept(grp, w.G, nrgn, {})  BY <1>1, <1>2, ProgressGood
<1>4. Good(Now', nrgn) /\ grp' = w.G /\ ref' = w.ref  BY <1>2, <1>3, BecomesGood
<1>5. EndsByMarking(grp, ref, grp', ref', nrgn)  BY <1>3, <1>4, KeptEnds
<1>6. phase = "mutate" /\ UNCHANGED <<nrgn, count, to, victim, phase>>  BY DEF Timer
<1> QED  BY <1>4, <1>5, <1>6 DEF Steps, IInv, Regions, Copying

LEMMA OverflowStep == ASSUME IInv, NEW r, Overflow(r) PROVE Steps
<1> DEFINE n == nrgn
<1>1. /\ n \in Nat /\ to \in 1 .. n /\ Good(Now, n) /\ Now.G = grp /\ Now.ref = ref
      /\ Sorted(grp, n) /\ sm \in SmType(n)
  BY Typed DEF IInv
<1>2. {"summzing", "wait_w_sum", "risingstar"} \subseteq Groups  BY DEF Groups
<1>3. r \in 1 .. n /\ r # victim /\ (Has(grp, r, "summzing") \/ Has(grp, r, "wait_w_sum"))
  BY DEF Overflow, Regions, In, Has
<1>4. At(grp, r) \in {"summzing", "wait_w_sum"}  BY <1>1, <1>2, <1>3, AtFacts
<1>5. /\ grp' = Enq(grp, r, "risingstar") /\ ref' = Cleared(ref, {r})
      /\ sm' = [sm EXCEPT !.over = @ + 1]
      /\ UNCHANGED <<nrgn, count, to, victim, phase>>
  BY DEF Overflow
<1>6. Sorted(grp', n) /\ \A x \in 1 .. n : At(grp', x) = IF x = r THEN "risingstar" ELSE At(grp, x)
  BY <1>1, <1>2, <1>3, <1>5, EnqAt
<1>7. sm' \in SmType(n)
  <2>1. sm.over + 1 \in Int  BY <1>1, SmOne
  <2>2. sm' = [sm EXCEPT !.over = sm.over + 1]  BY <1>5
  <2> QED  BY <1>1, <2>1, <2>2, SmOne
<1>8. Good([G |-> grp', sm |-> sm', ref |-> Cleared(Now.ref, {r})], n) /\ Kept(Now.G, grp', n, {})
  <2>1. {r} \in SUBSET (1 .. n) /\ \A x \in {r} : At(Now.G, x) \in {"summzing", "wait_w_sum"}
    BY <1>1, <1>3, <1>4
  <2>2. \A x \in 1 .. n : At(grp', x) = IF x \in {r} THEN "risingstar" ELSE At(Now.G, x)
    BY <1>1, <1>6
  <2> QED  BY <1>1, <1>6, <1>7, <2>1, <2>2, OverflowGood
<1>9. Good(Now', n)  BY <1>1, <1>5, <1>8 DEF Now
<1>10. EndsByMarking(grp, ref, grp', ref', n)  BY <1>1, <1>8, KeptEnds
<1>11. phase \in Copying => At(grp', to) = At(grp, to)
  <2>1. phase \in Copying => At(grp, to) \in Famous \union {"unfilled"}  BY DEF IInv
  <2> QED  BY <1>1, <1>4, <1>6, <2>1 DEF Famous
<1>12. phase = "major" => At(grp', victim) = At(grp, victim)
  <2>1. victim \in 0 .. n /\ (phase = "major" => victim # 0)  BY DEF IInv
  <2>2. phase = "major" => victim \in 1 .. n  BY <1>1, <2>1
  <2> QED  BY <1>3, <1>6, <2>2
<1> QED  BY <1>5, <1>9, <1>10, <1>11, <1>12 DEF Steps, IInv, Regions

LEMMA StartPauseStep == ASSUME IInv, StartPause PROVE Steps
<1>1. /\ nrgn \in 2 .. MaxRegions /\ nrgn \in Nat /\ count \in 2 .. nrgn /\ to \in 1 .. nrgn
      /\ Sorted(grp, nrgn) /\ ref.predates \in SUBSET (1 .. nrgn) /\ Good(Now, nrgn)
  BY Typed DEF IInv
<1>2. phase = "mutate" /\ phase' = "pause" /\ UNCHANGED <<count, victim, sm, ref>>
  BY DEF StartPause
<1>3. victim = 0  BY <1>2 DEF IInv
<1>4. /\ nrgn' \in 2 .. MaxRegions /\ nrgn' >= nrgn /\ to' \in 1 .. nrgn'
      /\ Sorted(grp', nrgn') /\ At(grp', to') = "unfilled"
      /\ \A x \in 1 .. nrgn : At(grp', x) = At(grp, x)
  <2>1. CASE In("unfilled", to)
    <3>1. UNCHANGED <<grp, nrgn, to>>  BY <2>1 DEF StartPause
    <3>2. "unfilled" \in Groups /\ Has(grp, to, "unfilled")  BY <2>1 DEF Groups, In, Has
    <3>3. At(grp, to) = "unfilled"  BY <1>1, <3>2, AtFacts
    <3> QED  BY <1>1, <3>1, <3>3
  <2>2. CASE ~In("unfilled", to)
    <3>1. NewTo(grp)  BY <2>2 DEF StartPause
    <3> QED  BY <1>1, <3>1, NewToFacts
  <2> QED  BY <2>1, <2>2
<1>5. Good(Now', nrgn')
  <2>1. nrgn' \in Nat /\ \A r \in ref.predates : At(grp', r) = At(grp, r)  BY <1>1, <1>4
  <2> QED  BY <1>2, <1>4, <2>1, GrowGood
<1>6. EndsByMarking(grp, ref, grp', ref', nrgn)
  <2>1. Kept(grp, grp', nrgn, {})  BY <1>4 DEF Kept
  <2> QED  BY <2>1, KeptEnds
<1>7. count' \in 2 .. nrgn'  BY <1>1, <1>2, <1>4
<1>8. victim' = 0 /\ victim' \in 0 .. nrgn'  BY <1>1, <1>2, <1>3, <1>4
<1> QED  BY <1>2, <1>4, <1>5, <1>6, <1>7, <1>8 DEF Steps, IInv, Regions, Copying

LEMMA MinorStep == ASSUME IInv, Minor PROVE Steps
<1>1. nrgn \in Nat /\ count \in Int /\ to \in 1 .. nrgn /\ Good(Now, nrgn) /\ Now.G = grp
  BY Typed DEF IInv
<1>2. PICK w \in Progress(Now, "minor", {to}) : Becomes(w)  BY DEF Minor
<1>3. Good(w, nrgn) /\ Kept(grp, w.G, nrgn, {to})  BY <1>1, <1>2, ProgressGood
<1>4. Good(Now', nrgn) /\ grp' = w.G /\ ref' = w.ref  BY <1>2, <1>3, BecomesGood
<1>5. EndsByMarking(grp, ref, grp', ref', nrgn)  BY <1>3, <1>4, KeptEnds
<1>6. phase = "pause" /\ phase' = "minor" /\ UNCHANGED <<nrgn, count, to, victim>>  BY DEF Minor
<1>7. /\ At(grp, to) \in Famous \union {"unfilled"}
      /\ ~ChosenRises => At(grp, to) = "unfilled"
  BY <1>6 DEF IInv, Copying
<1>8. /\ At(grp', to) \in Famous \union {"unfilled"}
      /\ ~ChosenRises => At(grp', to) = "unfilled"
  BY <1>1, <1>3, <1>4, <1>7 DEF Kept
<1> QED  BY <1>4, <1>5, <1>6, <1>8 DEF Steps, IInv, Regions, Copying

LEMMA MajorStep == ASSUME IInv, Major PROVE Steps
<1>1. /\ nrgn \in Nat /\ count \in Int /\ to \in 1 .. nrgn /\ Good(Now, nrgn) /\ Now.G = grp
      /\ Sorted(grp, nrgn)
  BY Typed DEF IInv
<1>2. /\ victim' = Head(Candidates) /\ phase = "pause" /\ phase' = "major" /\ Candidates # <<>>
      /\ UNCHANGED <<nrgn, count, to>>
  BY DEF Major, MayMajor, Candidates
<1>3. victim' \in 1 .. nrgn /\ At(grp, victim') \in Plain
  <2> DEFINE a == grp["wait_nosum"]
             b == grp["wait_w_sum"]
             c == grp["filled"]
             ab == a \o b
  <2>1. {"wait_nosum", "wait_w_sum", "filled"} \subseteq Groups  BY DEF Groups
  <2>2. a \in Seq(1 .. nrgn) /\ b \in Seq(1 .. nrgn) /\ c \in Seq(1 .. nrgn)
    BY <1>1, <2>1 DEF Sorted
  <2>3. Candidates = ab \o c  BY DEF Candidates
  <2>4. \A x : x \in ToSet(a) \/ x \in ToSet(b) \/ x \in ToSet(c)
            => x \in 1 .. nrgn /\ (Has(grp, x, "wait_nosum") \/ Has(grp, x, "wait_w_sum") \/ Has(grp, x, "filled"))
    BY <2>2, ToSetFacts DEF Has
  <2> HIDE DEF a, b, c
  <2>5. /\ ab \in Seq(1 .. nrgn) /\ Len(ab) = Len(a) + Len(b)
        /\ \A i \in 1 .. Len(a) + Len(b) : ab[i] = IF i <= Len(a) THEN a[i] ELSE b[i - Len(a)]
    BY <2>2, ConcatProperties
  <2> HIDE DEF ab
  <2>6. /\ ab \o c \in Seq(1 .. nrgn) /\ Len(ab \o c) = Len(ab) + Len(c)
        /\ \A i \in 1 .. Len(ab) + Len(c) : (ab \o c)[i] = IF i <= Len(ab) THEN ab[i] ELSE c[i - Len(ab)]
    <3>1. ab \in Seq(1 .. nrgn) /\ c \in Seq(1 .. nrgn)  BY <2>2, <2>5
    <3> QED  BY <3>1, ConcatProperties
  <2>7. Len(a) \in Nat /\ Len(b) \in Nat /\ Len(c) \in Nat  BY <2>2, LenProperties
  <2>8. Candidates \in Seq(1 .. nrgn) /\ Len(Candidates) \in Nat \ {0}
    BY <1>2, <2>3, <2>6, EmptySeq
  <2>9. victim' = Candidates[1]  BY <1>2, <2>8
  <2>10. victim' \in ToSet(a) \/ victim' \in ToSet(b) \/ victim' \in ToSet(c)
    <3>1. CASE Len(a) > 0
      <4>1. victim' = a[1] /\ 1 \in 1 .. Len(a)  BY <2>3, <2>5, <2>6, <2>7, <2>9, <3>1
      <4> QED  BY <2>2, <4>1, ToSetFacts
    <3>2. CASE Len(a) = 0 /\ Len(b) > 0
      <4>1. victim' = b[1] /\ 1 \in 1 .. Len(b)  BY <2>3, <2>5, <2>6, <2>7, <2>9, <3>2
      <4> QED  BY <2>2, <4>1, ToSetFacts
    <3>3. CASE Len(a) = 0 /\ Len(b) = 0
      <4>1. victim' = c[1] /\ 1 \in 1 .. Len(c)  BY <2>3, <2>5, <2>6, <2>7, <2>8, <2>9, <3>3
      <4> QED  BY <2>2, <4>1, ToSetFacts
    <3> QED  BY <2>7, <3>1, <3>2, <3>3
  <2>11. victim' \in 1 .. nrgn  BY <2>4, <2>10
  <2>12. Has(grp, victim', "wait_nosum") \/ Has(grp, victim', "wait_w_sum") \/ Has(grp, victim', "filled")
    BY <2>4, <2>10
  <2>13. At(grp, victim') \in {"wait_nosum", "wait_w_sum", "filled"}
    BY <1>1, <2>1, <2>11, <2>12, AtFacts
  <2> QED  BY <2>11, <2>13 DEF Plain
<1>4. PICK w \in Progress(Now, "major", {to, victim'}) : Becomes(w)  BY DEF Major
<1>5. Good(w, nrgn) /\ Kept(grp, w.G, nrgn, {to, victim'})  BY <1>1, <1>4, ProgressGood
<1>6. Good(Now', nrgn) /\ grp' = w.G /\ ref' = w.ref  BY <1>4, <1>5, BecomesGood
<1>7. EndsByMarking(grp, ref, grp', ref', nrgn)  BY <1>5, <1>6, KeptEnds
<1>8. /\ At(grp, to) \in Famous \union {"unfilled"}
      /\ ~ChosenRises => At(grp, to) = "unfilled"
  BY <1>2 DEF IInv, Copying
<1>9. /\ At(grp', to) \in Famous \union {"unfilled"}
      /\ ~ChosenRises => At(grp', to) = "unfilled"
  BY <1>1, <1>5, <1>6, <1>8 DEF Kept
<1>10. ~ChosenRises => At(grp', victim') \in Plain  BY <1>3, <1>5, <1>6 DEF Kept
<1>11. victim' \in 0 .. nrgn /\ victim' # 0  BY <1>1, <1>3
<1> QED  BY <1>2, <1>6, <1>7, <1>9, <1>10, <1>11 DEF Steps, IInv, Regions, Copying

(* find_space_rgnl.                                                        *)
LEMMA FillStep == ASSUME IInv, Fill PROVE Steps
<1> DEFINE F == Enq(grp, to, "filled")
<1>1. /\ nrgn \in 2 .. MaxRegions /\ nrgn \in Nat /\ count \in 2 .. nrgn /\ to \in 1 .. nrgn
      /\ Sorted(grp, nrgn) /\ ref.predates \in SUBSET (1 .. nrgn)
      /\ \A r \in ref.predates : At(grp, r) \in {"summzing", "wait_w_sum"}
  BY Typed DEF IInv
<1>2. /\ phase \in {"minor", "major"} /\ NewTo(F)
      /\ UNCHANGED <<count, victim, sm, ref, phase>>
  BY DEF Fill
<1>3. /\ At(grp, to) \in Famous \union {"unfilled"}
      /\ ~ChosenRises => At(grp, to) = "unfilled"
  BY <1>2 DEF IInv, Copying
<1>4. Sorted(F, nrgn) /\ \A x \in 1 .. nrgn : At(F, x) = IF x = to THEN "filled" ELSE At(grp, x)
  <2>1. "filled" \in Groups  BY DEF Groups
  <2> QED  BY <1>1, <2>1, EnqAt
<1> HIDE DEF F
<1>5. /\ nrgn' \in 2 .. MaxRegions /\ nrgn' >= nrgn /\ to' \in 1 .. nrgn'
      /\ Sorted(grp', nrgn') /\ At(grp', to') = "unfilled"
      /\ \A x \in 1 .. nrgn : At(grp', x) = At(F, x)
  BY <1>1, <1>2, <1>4, NewToFacts
<1>6. Good(Now', nrgn')
  <2>1. nrgn' \in Nat /\ \A r \in ref.predates : At(grp', r) = At(grp, r)
    BY <1>1, <1>3, <1>4, <1>5 DEF Famous
  <2> QED  BY <1>2, <1>5, <2>1, GrowGood
<1>7. ~ChosenRises => EndsByMarking(grp, ref, grp', ref', nrgn)
  BY <1>1, <1>3, <1>4, <1>5 DEF EndsByMarking, Famous
<1>8. count' \in 2 .. nrgn' /\ victim' \in 0 .. nrgn'
  <2>1. victim \in 0 .. nrgn  BY DEF IInv
  <2> QED  BY <1>1, <1>2, <1>5, <2>1
<1>9. ~ChosenRises /\ phase = "major" => At(grp', victim) \in Plain
  <2> SUFFICES ASSUME ~ChosenRises, phase = "major" PROVE At(grp', victim) \in Plain  OBVIOUS
  <2>1. victim \in 0 .. nrgn /\ victim # 0 /\ At(grp, victim) \in Plain  BY DEF IInv
  <2>2. victim \in 1 .. nrgn /\ victim # to  BY <1>1, <1>3, <2>1 DEF Plain
  <2> QED  BY <1>4, <1>5, <2>1, <2>2
<1>10. (victim' # 0 <=> phase' = "major") /\ phase' \in {"mutate", "rolled"} \union Copying
  BY <1>2 DEF IInv
<1>11. victim' = victim /\ phase' = phase  BY <1>2
<1> QED  BY <1>5, <1>6, <1>7, <1>8, <1>9, <1>10, <1>11 DEF Steps, IInv, Regions, Copying

LEMMA EndMinorStep == ASSUME IInv, EndMinor PROVE Steps
<1>1. nrgn \in Nat /\ Good(Now, nrgn) /\ Now.G = grp /\ Now.ref = ref  BY Typed DEF IInv
<1>2. PICK w \in IF sm.on THEN MarkerSteps(Now) ELSE {Now} : Becomes(w)  BY DEF EndMinor
<1>3. Good(w, nrgn) /\ EndsByMarking(grp, ref, w.G, w.ref, nrgn)
  <2>1. CASE w \in MarkerSteps(Now)  BY <1>1, <2>1, MarkerGood
  <2>2. CASE w = Now
    <3>1. Kept(grp, w.G, nrgn, {})  BY <1>1, <2>2, KeptSame
    <3> QED  BY <1>1, <2>2, <3>1, KeptEnds
  <2> QED  BY <1>2, <2>1, <2>2
<1>4. Good(Now', nrgn) /\ grp' = w.G /\ ref' = w.ref  BY <1>2, <1>3, BecomesGood
<1>5. phase = "minor" /\ phase' = "mutate" /\ UNCHANGED <<nrgn, count, to, victim>>  BY DEF EndMinor
<1> QED  BY <1>3, <1>4, <1>5 DEF Steps, IInv, Regions, Copying

LEMMA EndMajorStep == ASSUME IInv, EndMajor PROVE Steps
<1> DEFINE n == nrgn
           H == Enq(grp, victim, "unfilled")
           f == Cleared(ref, {victim})
           t == [G |-> H, sm |-> sm, ref |-> f]
<1>1. /\ n \in Nat /\ Sorted(grp, n) /\ sm \in SmType(n) /\ Counted(ref, n)
      /\ ref.predates \in SUBSET (1 .. n)
      /\ \A r \in ref.predates : At(grp, r) \in {"summzing", "wait_w_sum"}
  BY Typed
<1>2. /\ phase = "major" /\ phase' \in {"mutate", "rolled"} /\ victim' = 0
      /\ UNCHANGED <<nrgn, count, to>>
  BY DEF EndMajor
<1>3. PICK w \in {t} \union MarkerSteps(t) : Becomes(w)  BY Zenon DEF EndMajor
<1>4. victim \in 1 .. n /\ (~ChosenRises => At(grp, victim) \in Plain)  BY <1>1, <1>2 DEF IInv
<1>5. Sorted(H, n) /\ \A x \in 1 .. n : At(H, x) = IF x = victim THEN "unfilled" ELSE At(grp, x)
  <2>1. "unfilled" \in Groups  BY DEF Groups
  <2> QED  BY <1>1, <1>4, <2>1, EnqAt
<1> HIDE DEF H
<1>6. /\ Counted(f, n) /\ f.predates = ref.predates \ {victim}
      /\ f.stage = ref.stage \/ ref.stage = "refinement"
  <2>1. Counting(ref, n)  BY <1>1 DEF Counted
  <2> QED  BY <1>1, <2>1, ClearedCounts
<1> HIDE DEF f
<1>7. \A x \in f.predates : At(H, x) \in {"summzing", "wait_w_sum"}  BY <1>1, <1>5, <1>6
<1>8. Good(t, n) /\ t.G = H /\ t.ref = f  BY <1>1, <1>5, <1>6, <1>7, GoodMade
<1> HIDE DEF t
<1>9. Good(w, n) /\ EndsByMarking(H, f, w.G, w.ref, n)
  <2>1. CASE w \in MarkerSteps(t)  BY <1>1, <1>8, <2>1, MarkerGood
  <2>2. CASE w = t
    <3>1. Kept(H, w.G, n, {})  BY <1>8, <2>2, KeptSame
    <3> QED  BY <1>8, <2>2, <3>1, KeptEnds
  <2> QED  BY <1>3, <2>1, <2>2
<1>10. Good(Now', n) /\ grp' = w.G /\ ref' = w.ref  BY <1>3, <1>9, BecomesGood
<1>11. ~ChosenRises => EndsByMarking(grp, ref, w.G, w.ref, n)
  BY <1>4, <1>5, <1>6, <1>9 DEF EndsByMarking, Plain, Famous
<1> QED  BY <1>2, <1>10, <1>11 DEF Steps, IInv, Regions, Copying

LEMMA EndCycleStep == ASSUME IInv, EndCycle PROVE Steps
<1>1. /\ nrgn \in Nat /\ nrgn \in 2 .. MaxRegions /\ count \in Int /\ Good(Now, nrgn)
      /\ Now.G = grp /\ Now.ref = ref
  BY Typed DEF IInv
<1>2. /\ phase = "rolled" /\ phase' = "mutate" /\ count' = nrgn /\ UNCHANGED <<nrgn, to, victim>>
      /\ Begins => Number(grp, "filled") >= 2
  BY DEF EndCycle
<1>3. PICK w \in IF Begins THEN Initialized(grp, nrgn) ELSE {Now} : Becomes(w)  BY DEF EndCycle
<1>4. Good(w, nrgn) /\ Kept(grp, w.G, nrgn, {})
  <2>1. CASE Begins  BY <1>1, <1>2, <1>3, <2>1, InitializedGood
  <2>2. CASE ~Begins
    <3>1. w = Now  BY <1>3, <2>2
    <3> QED  BY <1>1, <3>1, KeptSame
  <2> QED  BY <2>1, <2>2
<1>5. Good(Now', nrgn) /\ grp' = w.G /\ ref' = w.ref  BY <1>3, <1>4, BecomesGood
<1>6. EndsByMarking(grp, ref, grp', ref', nrgn)  BY <1>4, <1>5, KeptEnds
<1>7. count' \in 2 .. nrgn  BY <1>1, <1>2
<1> QED  BY <1>2, <1>5, <1>6, <1>7 DEF Steps, IInv, Regions, Copying

LEMMA NextStep == IInv /\ [Next]_vars => Steps
<1> SUFFICES ASSUME IInv, [Next]_vars PROVE Steps  OBVIOUS
<1>1. CASE Timer  BY <1>1, TimerStep
<1>2. CASE StartPause  BY <1>2, StartPauseStep
<1>3. CASE Minor  BY <1>3, MinorStep
<1>4. CASE Major  BY <1>4, MajorStep
<1>5. CASE Fill  BY <1>5, FillStep
<1>6. CASE EndMinor  BY <1>6, EndMinorStep
<1>7. CASE EndMajor  BY <1>7, EndMajorStep
<1>8. CASE EndCycle  BY <1>8, EndCycleStep
<1>9. CASE \E r \in 1 .. MaxRegions : Overflow(r)  BY <1>9, OverflowStep
<1>10. CASE UNCHANGED vars
  <2>1. UNCHANGED <<nrgn, count, to, victim, grp, phase, sm, ref>>  BY <1>10 DEF vars
  <2>2. Now' = Now  BY <2>1 DEF Now
  <2>3. IInv'  BY <2>1, <2>2 DEF IInv, Regions
  <2>4. Kept(grp, grp', nrgn, {})  BY <2>1, KeptSame
  <2>5. nrgn' >= nrgn  BY <2>1, Typed
  <2> QED  BY <2>3, <2>4, <2>5, KeptEnds DEF Steps
<1> QED  BY <1>1, <1>2, <1>3, <1>4, <1>5, <1>6, <1>7, <1>8, <1>9, <1>10 DEF Next
-----------------------------------------------------------------------------
(* The inductive invariant behind the theorems below: the groups, the      *)
(* summaries that refinement waits for, the marker, and where the step     *)
(* that is under way has got to.                                           *)
THEOREM Inductive == Spec => []IInv
<1>1. Init => IInv  BY InitGood
<1>2. IInv /\ [Next]_vars => IInv'  BY NextStep DEF Steps
<1> QED  BY <1>1, <1>2, PTL DEF Spec

(* Every region is in exactly one group, once, whatever the pass over the  *)
(* summaries, the marker and the policy do to the groups, and however      *)
(* many regions the heap grows to.                                         *)
THEOREM GroupsTyped == Spec => []TypeOK
<1>1. IInv => TypeOK
  <2> SUFFICES ASSUME IInv PROVE TypeOK  OBVIOUS
  <2>1. /\ nrgn \in Nat /\ Sorted(grp, nrgn) /\ sm \in SmType(nrgn) /\ ref \in RefType(nrgn)
    BY Typed
  <2>2. DOMAIN grp = Groups /\ \A g \in Groups : grp[g] \in Seq(1 .. nrgn) /\ IsInjective(grp[g])
    BY <2>1 DEF Sorted
  <2>3. \A g \in Groups : ToSet(grp[g]) \subseteq Regions  BY <2>2, ToSetFacts DEF Regions
  <2>4. ASSUME NEW r \in Regions
        PROVE  \E g \in Groups : In(g, r) /\ \A h \in Groups \ {g} : ~In(h, r)
    <3>1. At(grp, r) \in Groups /\ \A g \in Groups : Has(grp, r, g) <=> At(grp, r) = g
      BY <2>1, AtFacts DEF Regions
    <3> QED  BY <3>1 DEF Has, In
  <2>5. sm.cursor \in 0 .. GnoCount  BY <2>1, SmOne DEF GnoCount
  <2>6. ref.stage \in {"none", "construction", "refinement", "completed"}
    BY <2>1 DEF RefType, Stages
  <2> QED  BY <2>2, <2>3, <2>4, <2>5, <2>6 DEF IInv, TypeOK
<1> QED  BY <1>1, Inductive, PTL

(* check_if_refining_is_now_done: refinement waits for exactly the         *)
(* summaries that are older than the snapshot and have not been used or    *)
(* discarded, and it is over with the last of them.                        *)
THEOREM RefinementIsCounted == Spec => []RefinementCounts
<1>1. IInv => RefinementCounts
  <2> SUFFICES ASSUME IInv PROVE RefinementCounts  OBVIOUS
  <2>1. /\ nrgn \in Nat /\ Sorted(grp, nrgn) /\ Counted(ref, nrgn)
        /\ ref.predates \in SUBSET (1 .. nrgn)
        /\ \A r \in ref.predates : At(grp, r) \in {"summzing", "wait_w_sum"}
    BY Typed
  <2>2. {"summzing", "wait_w_sum"} \subseteq Groups  BY DEF Groups
  <2>3. \A r \in ref.predates : Has(grp, r, "summzing") \/ Has(grp, r, "wait_w_sum")
    BY <2>1, <2>2, AtFacts
  <2> QED  BY <2>1, <2>3 DEF RefinementCounts, Has, Counted, Counting
<1> QED  BY <1>1, Inductive, PTL

(* collect_rgnl_majorgc, collect_rgnl_minorgc, find_space_rgnl: none of    *)
(* the steps between the choice of a region and its use takes it out of    *)
(* the group it was chosen from, under the same hypothesis as below.       *)
THEOREM ChosenAreKept == ~ChosenRises => (Spec => []ChosenStayChosen)
<1> SUFFICES ASSUME ~ChosenRises PROVE Spec => []ChosenStayChosen  OBVIOUS
<1>1. IInv => ChosenStayChosen
  <2> SUFFICES ASSUME IInv PROVE ChosenStayChosen  OBVIOUS
  <2>1. nrgn \in Nat /\ to \in 1 .. nrgn /\ Sorted(grp, nrgn)  BY Typed
  <2>2. {"unfilled", "infamous", "hasbeen"} \subseteq Groups  BY DEF Groups
  <2>3. phase \in {"minor", "major"} => In("unfilled", to)
    <3>1. phase \in {"minor", "major"} => At(grp, to) = "unfilled"  BY DEF IInv, Copying
    <3> QED  BY <2>1, <2>2, <3>1, AtFacts DEF Has, In
  <2>4. victim # 0 => ~In("infamous", victim) /\ ~In("hasbeen", victim)
    <3>1. victim # 0 => victim \in 1 .. nrgn /\ At(grp, victim) \in Plain
      BY <2>1 DEF IInv
    <3> QED  BY <2>1, <2>2, <3>1, AtFacts DEF Has, In, Plain
  <2> QED  BY <2>3, <2>4 DEF ChosenStayChosen
<1> QED  BY <1>1, Inductive, PTL

(* A region that is infamous is collected only after a marking that began  *)
(* after its infamy, provided that no region becomes infamous after it was *)
(* chosen as the one to copy to or to collect.                             *)
THEOREM OnlyMarkingEndsInfamy == ~ChosenRises => (Spec => InfamyEndsByMarking)
<1> SUFFICES ASSUME ~ChosenRises PROVE Spec => InfamyEndsByMarking  OBVIOUS
<1> DEFINE A ==
      \A r \in Regions :
         /\ In("infamous", r) => (In("infamous", r) \/ In("hasbeen", r))'
         /\ In("hasbeen", r) => \/ (In("infamous", r) \/ In("hasbeen", r))'
                               \/ ref.stage # "construction"
         /\ In("advertised", r) =>
               \/ (In("advertised", r) \/ In("infamous", r) \/ In("hasbeen", r))'
               \/ (In("filled", r) /\ ref.stage = "refinement")'
<1>1. IInv /\ [Next]_vars => [A]_vars
  <2> SUFFICES ASSUME IInv, [Next]_vars, NEW r \in Regions
               PROVE  /\ In("infamous", r) => (In("infamous", r) \/ In("hasbeen", r))'
                      /\ In("hasbeen", r) => \/ (In("infamous", r) \/ In("hasbeen", r))'
                                            \/ ref.stage # "construction"
                      /\ In("advertised", r) =>
                            \/ (In("advertised", r) \/ In("infamous", r) \/ In("hasbeen", r))'
                            \/ (In("filled", r) /\ ref.stage = "refinement")'
    OBVIOUS
  <2>1. /\ nrgn \in Nat /\ Sorted(grp, nrgn) /\ r \in 1 .. nrgn
    BY Typed DEF Regions
  <2>2. IInv' /\ nrgn' >= nrgn /\ EndsByMarking(grp, ref, grp', ref', nrgn)
    BY NextStep DEF Steps
  <2>3. nrgn' \in Nat /\ nrgn' >= nrgn /\ Sorted(grp', nrgn')
    <3>1. nrgn' \in Nat /\ Sorted(grp', nrgn')
      <4>1. Now'.G = grp'  BY DEF Now
      <4>2. Good(Now', nrgn') /\ nrgn' \in 2 .. MaxRegions  BY <2>2 DEF IInv
      <4> QED  BY <4>1, <4>2, GoodParts
    <3>2. nrgn' >= nrgn  BY <2>2
    <3> QED  BY <3>1, <3>2
  <2>4. r \in 1 .. nrgn'  BY <2>1, <2>3
  <2>5. {"infamous", "hasbeen", "advertised", "filled"} \subseteq Groups  BY DEF Groups
  <2>6. \A g \in {"infamous", "hasbeen", "advertised", "filled"} :
          (In(g, r) <=> At(grp, r) = g) /\ (In(g, r)' <=> At(grp', r) = g)
    BY <2>1, <2>3, <2>4, <2>5, AtFacts DEF In, Has
  <2> QED  BY <2>2, <2>1, <2>6 DEF EndsByMarking, Famous
<1> QED  BY <1>1, Inductive, PTL DEF InfamyEndsByMarking, Spec
=============================================================================
