--------------------------- MODULE StackCacheProofs ---------------------------
(***************************************************************************)
(* The stack cache keeps the continuation, for any procedures, return      *)
(* points and sizes of frames.                                             *)
(*                                                                         *)
(* Chain is the continuation as stk_flush would leave it in the heap.  Of  *)
(* every operation on the cache there is a lemma that says what it does to *)
(* the chain (nothing, mostly) and that it keeps the layout; the actions   *)
(* are compositions of these.                                              *)
(***************************************************************************)
EXTENDS StackCache, SequenceTheorems, WellFoundedInduction, TLAPS

FrameSizes == Sizes \cup {CalloutSize}
Saved == Controls \cup {Lost}
HeapFrames == [size : Sizes, proc : Procs, ret : Points, saved : {Lost}]
                \cup [size : {CalloutSize}, proc : {NoProc}, ret : {0, 1}, saved : Saved]
Places == [Procs -> {0, 1}]
CacheFrames(place) == {AddressIn(place, f) : f \in HeapFrames}
Records ==
  [etop : Int, stkp : Int, stkbot : Int, stack : Seq(UNION {CacheFrames(p) : p \in Places}),
   cont : Seq(HeapFrames), place : Places]

(* The frames lie between the top and the bottom of the cache.             *)
Laid(s) ==
  /\ 0 <= s.etop /\ s.etop <= s.stkp /\ s.stkbot <= NurserySize
  /\ s.stkp + Words(s.stack) = s.stkbot
Good(s) == s \in Records /\ s.stack \in Seq(CacheFrames(s.place)) /\ Laid(s)
Heaped(s) == [i \in 1 .. Len(s.stack) |-> OffsetIn(s.place, s.stack[i])]
Chain(s) == Heaped(s) \o s.cont
Targets(frames) == [i \in 1 .. Len(frames) |-> HeapTarget(frames[i])]

(* What can be returned to, but for the last, which is the bottom.         *)
Konts == {q \in Seq(Saved) : \A i \in 1 .. Len(q) : i < Len(q) => q[i] \in Controls}

StackInv ==
  /\ Good(cache) /\ Targets(Chain(cache)) = kont /\ kont \in Konts /\ kont # << >>
  /\ captured \in Seq(HeapFrames) /\ Targets(captured) = capturedKont /\ capturedKont \in Konts
  /\ wanted \in {None} \cup [size : Sizes, point : Points]
  /\ control \in Controls
-----------------------------------------------------------------------------
(* A set of naturals has a least element.                                  *)
LEMMA LeastNat ==
  ASSUME NEW T, T \subseteq Nat, T # {}
  PROVE  \E n \in T : \A m \in T : n <= m
<1>1. IsWellFoundedOn(OpToRel(<, Nat), Nat)  BY NatLessThanWellFounded
<1>2. PICK n \in T : \A m \in T : ~ <<m, n>> \in OpToRel(<, Nat)
  BY <1>1, WFMin, Zenon
<1>3. \A m \in T : ~(m < n)  BY <1>2 DEF OpToRel
<1> QED  BY <1>3

(* The sums that Words adds up.                                            *)
IsSum(sum, s, n) ==
  sum = [i \in 0 .. n |-> IF i = 0 THEN 0 ELSE sum[i - 1] + s[i].size]
Sized(s) == \A i \in 1 .. Len(s) : s[i].size \in Nat

LEMMA SumExists ==
  ASSUME NEW F, NEW s \in Seq(F), Sized(s)
  PROVE  /\ \E sum : IsSum(sum, s, Len(s))
         /\ \E sum : /\ IsSum(sum, s, Len(s)) /\ Words(s) = sum[Len(s)]
                     /\ \A i \in 0 .. Len(s) : sum[i] \in Nat
<1> DEFINE N == Len(s)
<1>0. N \in Nat  BY LenProperties
<1>1. \E f : IsSum(f, s, N)
  <2> DEFINE T == {k \in 0 .. N : ~ \E f : IsSum(f, s, k)}
  <2> SUFFICES ASSUME T # {} PROVE FALSE  BY <1>0
  <2>1. PICK k \in T : \A m \in T : k <= m
    <3>1. T \subseteq Nat  BY <1>0
    <3> QED  BY <3>1, LeastNat
  <2>2. k # 0
    <3>1. IsSum([i \in 0 .. 0 |-> 0], s, 0)  BY DEF IsSum
    <3> QED  BY <2>1, <3>1
  <2>3. PICK f : IsSum(f, s, k - 1)
    <3>1. k - 1 \in 0 .. N /\ k - 1 \notin T  BY <1>0, <2>1, <2>2
    <3> QED  BY <3>1
  <2>4. IsSum([i \in 0 .. k |-> IF i < k THEN f[i] ELSE f[k - 1] + s[k].size], s, k)
    BY <1>0, <2>1, <2>2, <2>3 DEF IsSum
  <2> QED  BY <2>1, <2>4
<1>2. PICK f : f = CHOOSE g : IsSum(g, s, N)  OBVIOUS
<1>3. IsSum(f, s, N)  BY <1>1, <1>2
<1>4. Words(s) = f[N]  BY <1>2 DEF Words, IsSum
<1>5. \A i \in 0 .. N : f[i] = IF i = 0 THEN 0 ELSE f[i - 1] + s[i].size
  BY <1>3, Zenon DEF IsSum
<1>6. \A i \in 0 .. N : f[i] \in Nat
  <2> DEFINE T == {i \in 0 .. N : f[i] \notin Nat}
  <2> SUFFICES ASSUME T # {} PROVE FALSE  OBVIOUS
  <2>1. PICK k \in T : \A m \in T : k <= m
    <3>1. T \subseteq Nat  BY <1>0
    <3> QED  BY <3>1, LeastNat
  <2>2. k # 0  BY <1>0, <1>5, <2>1
  <2>3. k - 1 \in 0 .. N /\ k - 1 \notin T /\ k \in 1 .. N  BY <1>0, <2>1, <2>2
  <2> QED  BY <1>5, <2>1, <2>2, <2>3 DEF Sized
<1> QED  BY <1>1, <1>3, <1>4, <1>6

LEMMA WordsEmpty == Words(<< >>) = 0
<1>1. << >> \in Seq({}) /\ Len(<< >>) = 0  OBVIOUS
<1>2. Sized(<< >>)  BY <1>1 DEF Sized
<1>3. PICK f : IsSum(f, << >>, 0) /\ Words(<< >>) = f[0]  BY <1>1, <1>2, SumExists
<1>4. \A i \in 0 .. 0 : f[i] = IF i = 0 THEN 0 ELSE f[i - 1] + << >>[i].size
  BY <1>3, Zenon DEF IsSum
<1> QED  BY <1>3, <1>4

LEMMA WordsPush ==
  ASSUME NEW F, NEW s \in Seq(F), Sized(s), NEW x \in F, x.size \in Nat
  PROVE  Words(<<x>> \o s) = x.size + Words(s) /\ Words(s) \in Nat
<1> DEFINE t == <<x>> \o s
           N == Len(s)
<1>0. N \in Nat  BY LenProperties
<1>1. t \in Seq(F) /\ Len(t) = N + 1 /\ t[1] = x /\ \A i \in 1 .. N : t[i + 1] = s[i]
  BY <1>0
<1> HIDE DEF t
<1>2. Sized(t)
  <2> SUFFICES ASSUME NEW i \in 1 .. Len(t) PROVE t[i].size \in Nat  BY DEF Sized
  <2>1. CASE i = 1  BY <1>1, <2>1
  <2>2. CASE i # 1
    <3>1. i - 1 \in 1 .. N /\ t[i] = s[i - 1]  BY <1>0, <1>1, <2>2
    <3> QED  BY <3>1 DEF Sized
  <2> QED  BY <2>1, <2>2
<1>3. PICK f : IsSum(f, s, N) /\ Words(s) = f[N] /\ \A i \in 0 .. N : f[i] \in Nat
  BY SumExists
<1>4. PICK g : IsSum(g, t, N + 1) /\ Words(t) = g[N + 1]  BY <1>1, <1>2, SumExists
<1>5. \A i \in 0 .. N : f[i] = IF i = 0 THEN 0 ELSE f[i - 1] + s[i].size
  BY <1>3, Zenon DEF IsSum
<1>6. \A i \in 0 .. N + 1 : g[i] = IF i = 0 THEN 0 ELSE g[i - 1] + t[i].size
  BY <1>4, Zenon DEF IsSum
<1>7. \A i \in 0 .. N : g[i + 1] = x.size + f[i]
  <2> DEFINE T == {i \in 0 .. N : g[i + 1] # x.size + f[i]}
  <2> SUFFICES ASSUME T # {} PROVE FALSE  OBVIOUS
  <2>1. PICK k \in T : \A m \in T : k <= m
    <3>1. T \subseteq Nat  BY <1>0
    <3> QED  BY <3>1, LeastNat
  <2>2. k # 0
    <3>1. g[0] = 0 /\ g[1] = g[0] + t[1].size /\ f[0] = 0  BY <1>0, <1>5, <1>6
    <3> QED  BY <1>1, <2>1, <3>1
  <2>3. k - 1 \in 0 .. N /\ k - 1 \notin T /\ k \in 1 .. N /\ k + 1 \in 0 .. N + 1
    BY <1>0, <2>1, <2>2
  <2>4. g[k] = x.size + f[k - 1]  BY <2>3
  <2>5. g[k + 1] = g[k] + s[k].size  BY <1>1, <1>6, <2>3
  <2>6. f[k] = f[k - 1] + s[k].size  BY <1>5, <2>2, <2>3
  <2>7. s[k].size \in Nat /\ f[k - 1] \in Nat  BY <1>3, <2>3 DEF Sized
  <2> QED  BY <2>1, <2>4, <2>5, <2>6, <2>7
<1> QED  BY <1>0, <1>3, <1>4, <1>7 DEF t
-----------------------------------------------------------------------------
LEMMA SizeFacts ==
  ASSUME StackCacheAssumption
  PROVE  /\ FrameSizes \subseteq Nat \ {0} /\ NurserySize \in Nat /\ SceBuffer \in Nat
         /\ UnderflowSize \in Nat /\ CalloutSize \in FrameSizes /\ CalloutSize \in Nat
         /\ \A a, b \in FrameSizes : SceBuffer + 2 * UnderflowSize + a + b <= NurserySize
<1>1. FrameSizes \subseteq Nat \ {0} /\ NurserySize \in Nat /\ SceBuffer \in Nat /\ UnderflowSize \in Nat
  BY DEF StackCacheAssumption, FrameSizes
<1>2. \A a \in FrameSizes : SceBuffer + 2 * (UnderflowSize + a) <= NurserySize
  BY DEF StackCacheAssumption, FrameSizes
<1>3. ASSUME NEW a \in FrameSizes, NEW b \in FrameSizes
      PROVE  SceBuffer + 2 * UnderflowSize + a + b <= NurserySize
  <2>1. a \in Nat /\ b \in Nat  BY <1>1
  <2>2. CASE a <= b  BY <1>1, <1>2, <2>1, <2>2
  <2>3. CASE b <= a  BY <1>1, <1>2, <2>1, <2>3
  <2> QED  BY <2>1, <2>2, <2>3
<1> QED  BY <1>1, <1>3 DEF FrameSizes

(* A frame of the heap and the same in the cache.                          *)
LEMMA HeapFrameFacts ==
  ASSUME StackCacheAssumption, NEW place \in Places, NEW h \in HeapFrames
  PROVE  LET f == AddressIn(place, h)
         IN  /\ f \in CacheFrames(place) /\ OffsetIn(place, f) = h
             /\ f.size = h.size /\ f.proc = h.proc /\ f.saved = h.saved /\ h.size \in FrameSizes
             /\ Target(place, f) = HeapTarget(h) /\ HeapTarget(h) \in Saved
             /\ h.proc = NoProc => f = h
<1> DEFINE f == AddressIn(place, h)
<1>0. NoProc \notin Procs  BY DEF StackCacheAssumption
<1>1. CASE h.proc = NoProc
  <2>1. h \in [size : {CalloutSize}, proc : {NoProc}, ret : {0, 1}, saved : Saved]
    BY <1>0, <1>1 DEF HeapFrames
  <2>2. f = h  BY <1>1 DEF AddressIn
  <2> QED  BY <1>1, <2>1, <2>2 DEF OffsetIn, Target, HeapTarget, CacheFrames, FrameSizes
<1>2. CASE h.proc # NoProc
  <2>1. h \in [size : Sizes, proc : Procs, ret : Points, saved : {Lost}]
    BY <1>2 DEF HeapFrames
  <2>2. f = [h EXCEPT !.ret = <<place[h.proc], h.ret>>]  BY <1>2 DEF AddressIn, Address
  <2>3. /\ f.size = h.size /\ f.proc = h.proc /\ f.saved = h.saved
        /\ f.ret = <<place[h.proc], h.ret>> /\ h = [f EXCEPT !.ret = h.ret]
    BY <2>1, <2>2
  <2>4. OffsetIn(place, f) = h  BY <1>2, <2>3 DEF OffsetIn
  <2>5. Target(place, f) = HeapTarget(h)  BY <1>2, <2>3 DEF Target, HeapTarget
  <2>6. HeapTarget(h) \in Saved  BY <1>2, <2>1 DEF HeapTarget, Saved, Controls
  <2>7. f \in CacheFrames(place)  BY DEF CacheFrames
  <2> HIDE DEF f
  <2> QED  BY <1>2, <2>1, <2>3, <2>4, <2>5, <2>6, <2>7 DEF FrameSizes, f
<1> QED  BY <1>1, <1>2

LEMMA CacheFrameFacts ==
  ASSUME StackCacheAssumption, NEW place \in Places, NEW f \in CacheFrames(place)
  PROVE  /\ OffsetIn(place, f) \in HeapFrames
         /\ f.size = OffsetIn(place, f).size /\ f.size \in FrameSizes /\ f.size \in Nat
         /\ Target(place, f) = HeapTarget(OffsetIn(place, f)) /\ Target(place, f) \in Saved
         /\ f.proc = NoProc => f = OffsetIn(place, f)
<1>1. PICK h \in HeapFrames : f = AddressIn(place, h)  BY DEF CacheFrames
<1>2. OffsetIn(place, f) = h  BY <1>1, HeapFrameFacts
<1> QED  BY <1>1, <1>2, HeapFrameFacts, SizeFacts

(* What a good cache is made of.                                           *)
LEMMA GoodFacts ==
  ASSUME StackCacheAssumption, NEW s, Good(s)
  PROVE  /\ s.place \in Places /\ s.cont \in Seq(HeapFrames)
         /\ s.etop \in Nat /\ s.stkp \in Nat /\ s.stkbot \in Nat
         /\ s.etop <= s.stkp /\ s.stkp <= s.stkbot /\ s.stkbot <= NurserySize
         /\ Heaped(s) \in Seq(HeapFrames) /\ Chain(s) \in Seq(HeapFrames)
         /\ Sized(s.stack) /\ Words(s.stack) \in Nat
         /\ s.stack = << >> => s.stkp = s.stkbot /\ Chain(s) = s.cont
<1>1. /\ s.place \in Places /\ s.cont \in Seq(HeapFrames) /\ s.stack \in Seq(CacheFrames(s.place))
      /\ s.etop \in Int /\ s.stkp \in Int /\ s.stkbot \in Int
  BY DEF Good, Records
<1>2. Len(s.stack) \in Nat /\ \A i \in 1 .. Len(s.stack) : s.stack[i] \in CacheFrames(s.place)
  BY <1>1, LenProperties
<1>3. Heaped(s) \in Seq(HeapFrames)
  <2>1. \A i \in 1 .. Len(s.stack) : OffsetIn(s.place, s.stack[i]) \in HeapFrames
    BY <1>1, <1>2, CacheFrameFacts
  <2> QED  BY <1>2, <2>1, IsASeq DEF Heaped
<1>4. Chain(s) \in Seq(HeapFrames)  BY <1>1, <1>3, ConcatProperties DEF Chain
<1>5. Sized(s.stack)  BY <1>1, <1>2, CacheFrameFacts DEF Sized
<1>6. Words(s.stack) \in Nat
  <2>1. PICK sum : Words(s.stack) = sum[Len(s.stack)] /\ \A i \in 0 .. Len(s.stack) : sum[i] \in Nat
    BY <1>1, <1>5, SumExists
  <2> QED  BY <1>2, <2>1
<1>7. s.stack = << >> => s.stkp = s.stkbot  BY <1>1, WordsEmpty DEF Good, Laid
<1>8. ASSUME s.stack = << >> PROVE Chain(s) = s.cont
  <2>1. Len(Heaped(s)) = 0  BY <1>8, <1>3, LenProperties DEF Heaped
  <2>2. Heaped(s) = << >>  BY <1>3, <2>1, EmptySeq
  <2> QED  BY <1>1, <2>2, ConcatEmptySeq DEF Chain
<1> QED  BY <1>1, <1>3, <1>4, <1>5, <1>6, <1>7, <1>8 DEF Good, Laid
-----------------------------------------------------------------------------
LEMMA ConsFacts ==
  ASSUME NEW S, NEW x \in S, NEW s \in Seq(S)
  PROVE  /\ <<x>> \o s \in Seq(S) /\ <<x>> \o s # << >> /\ Len(<<x>> \o s) = Len(s) + 1
         /\ Head(<<x>> \o s) = x /\ Tail(<<x>> \o s) = s
         /\ (<<x>> \o s)[1] = x /\ \A i \in 1 .. Len(s) : (<<x>> \o s)[i + 1] = s[i]
<1> DEFINE t == <<x>> \o s
<1>0. Len(s) \in Nat  BY LenProperties
<1>1. <<x>> \in Seq(S) /\ Len(<<x>>) = 1 /\ <<x>>[1] = x  OBVIOUS
<1>2. /\ t \in Seq(S) /\ Len(t) = Len(s) + 1
      /\ \A i \in 1 .. Len(s) + 1 : t[i] = IF i <= 1 THEN <<x>>[i] ELSE s[i - 1]
  BY <1>1, ConcatProperties
<1> HIDE DEF t
<1>3. t[1] = x /\ \A i \in 1 .. Len(s) : t[i + 1] = s[i]  BY <1>0, <1>1, <1>2
<1>4. t # << >>  BY <1>0, <1>2
<1>5. Head(t) = x  BY <1>2, <1>3, <1>4
<1>6. Tail(t) = s
  <2>1. /\ Tail(t) \in Seq(S) /\ Len(Tail(t)) = Len(s)
        /\ \A i \in 1 .. Len(Tail(t)) : Tail(t)[i] = t[i + 1]
    BY <1>0, <1>2, <1>4, HeadTailProperties
  <2> QED  BY <1>3, <2>1, SeqEqual
<1> QED  BY <1>2, <1>3, <1>4, <1>5, <1>6 DEF t

LEMMA ConsOfParts ==
  ASSUME NEW S, NEW s \in Seq(S), s # << >>
  PROVE  Head(s) \in S /\ Tail(s) \in Seq(S) /\ s = <<Head(s)>> \o Tail(s) /\ Head(s) = s[1]
<1>0. Len(s) \in Nat \ {0}  BY EmptySeq
<1>1. /\ Head(s) \in S /\ Tail(s) \in Seq(S) /\ Len(Tail(s)) = Len(s) - 1 /\ Head(s) = s[1]
      /\ \A i \in 1 .. Len(Tail(s)) : Tail(s)[i] = s[i + 1]
  BY HeadTailProperties
<1>2. PICK t : t = <<Head(s)>> \o Tail(s)  OBVIOUS
<1>3. /\ t \in Seq(S) /\ Len(t) = Len(s) /\ t[1] = s[1]
      /\ \A i \in 1 .. Len(Tail(s)) : t[i + 1] = s[i + 1]
  BY <1>0, <1>1, <1>2, ConsFacts
<1>4. ASSUME NEW i \in 1 .. Len(s) PROVE t[i] = s[i]
  <2>1. CASE i = 1  BY <1>3, <2>1
  <2>2. CASE i # 1
    <3>1. i - 1 \in 1 .. Len(Tail(s)) /\ (i - 1) + 1 = i  BY <1>0, <1>1, <2>2
    <3> QED  BY <1>3, <3>1
  <2> QED  BY <2>1, <2>2
<1>5. t = s  BY <1>3, <1>4, SeqEqual
<1> QED  BY <1>1, <1>2, <1>5

LEMMA PushGood ==
  ASSUME StackCacheAssumption, NEW s, Good(s), NEW h \in HeapFrames, s.stkp - h.size >= s.etop
  PROVE  LET t == Push(s, AddressIn(s.place, h))
         IN  Good(t) /\ Chain(t) = <<h>> \o Chain(s) /\ t.stack # << >>
<1> DEFINE f == AddressIn(s.place, h)
           t == Push(s, f)
<1>0. /\ f \in CacheFrames(s.place) /\ OffsetIn(s.place, f) = h /\ f.size = h.size
      /\ h.size \in Nat /\ s.place \in Places
  BY GoodFacts, HeapFrameFacts, SizeFacts
<1> HIDE DEF f
<1>1. s \in Records /\ s.stack \in Seq(CacheFrames(s.place)) /\ s.cont \in Seq(HeapFrames)
  BY DEF Good, Records
<1>2. /\ t.stkp = s.stkp - f.size /\ t.stack = <<f>> \o s.stack
      /\ t.etop = s.etop /\ t.stkbot = s.stkbot /\ t.cont = s.cont /\ t.place = s.place
  BY <1>1 DEF Push, Records
<1>3. /\ t.stack \in Seq(CacheFrames(s.place)) /\ t.stack # << >> /\ Len(t.stack) = Len(s.stack) + 1
      /\ t.stack[1] = f /\ \A i \in 1 .. Len(s.stack) : t.stack[i + 1] = s.stack[i]
  BY <1>0, <1>1, <1>2, ConsFacts
<1>4. t.stack \in Seq(UNION {CacheFrames(p) : p \in Places})
  <2>1. CacheFrames(s.place) \subseteq UNION {CacheFrames(p) : p \in Places}  BY <1>0
  <2> QED  BY <1>3, <2>1, SeqMonotonic
<1>5. t \in Records
  <2>1. s.stkp - f.size \in Int  BY <1>0, GoodFacts
  <2> QED  BY <1>1, <1>2, <1>4, <2>1 DEF Push, Records
<1>6. Words(t.stack) = f.size + Words(s.stack)
  BY <1>0, <1>1, <1>2, GoodFacts, WordsPush
<1>7. Good(t)
  <2>1. Laid(t)  BY <1>0, <1>2, <1>6, GoodFacts DEF Good, Laid
  <2> QED  BY <1>2, <1>3, <1>5, <2>1 DEF Good
<1>8. Heaped(t) = <<h>> \o Heaped(s)
  <2>0. Len(s.stack) \in Nat  BY <1>1, LenProperties
  <2>1. Heaped(t) \in Seq(HeapFrames) /\ Heaped(s) \in Seq(HeapFrames)  BY <1>7, GoodFacts
  <2>2. Len(Heaped(t)) = Len(s.stack) + 1 /\ Len(Heaped(s)) = Len(s.stack)
    BY <1>3, <2>0 DEF Heaped
  <2>3. PICK c : c = <<h>> \o Heaped(s)  OBVIOUS
  <2>4. /\ c \in Seq(HeapFrames) /\ Len(c) = Len(s.stack) + 1 /\ c[1] = h
        /\ \A i \in 1 .. Len(s.stack) : c[i + 1] = Heaped(s)[i]
    BY <2>1, <2>2, <2>3, ConsFacts
  <2>5. ASSUME NEW i \in 1 .. Len(s.stack) + 1 PROVE Heaped(t)[i] = c[i]
    <3>1. Heaped(t)[i] = OffsetIn(s.place, t.stack[i])  BY <1>2, <1>3, <2>5 DEF Heaped
    <3>2. CASE i = 1  BY <1>0, <1>3, <2>4, <3>1, <3>2
    <3>3. CASE i # 1
      <4>1. i - 1 \in 1 .. Len(s.stack) /\ (i - 1) + 1 = i  BY <2>0, <3>3
      <4>2. t.stack[i] = s.stack[i - 1] /\ c[i] = Heaped(s)[i - 1]  BY <1>3, <2>4, <4>1
      <4> QED  BY <3>1, <4>1, <4>2 DEF Heaped
    <3> QED  BY <3>2, <3>3
  <2>6. PICK H : H = Heaped(t)  OBVIOUS
  <2>7. /\ H \in Seq(HeapFrames) /\ Len(H) = Len(c)
        /\ \A i \in 1 .. Len(c) : H[i] = c[i]
    BY <2>1, <2>2, <2>4, <2>5, <2>6
  <2>8. H = c  BY <2>4, <2>7, SeqEqual
  <2> QED  BY <2>3, <2>6, <2>8
<1>9. Chain(t) = <<h>> \o Chain(s)
  <2>1. Heaped(s) \in Seq(HeapFrames) /\ <<h>> \in Seq(HeapFrames)  BY GoodFacts
  <2>2. \A a, b, c \in Seq(HeapFrames) : (a \o b) \o c = a \o (b \o c)
    BY ConcatAssociative, SMTT(60)
  <2>3. (<<h>> \o Heaped(s)) \o s.cont = <<h>> \o (Heaped(s) \o s.cont)
    BY <1>1, <2>1, <2>2, Zenon
  <2> QED  BY <1>2, <1>8, <2>3 DEF Chain
<1> QED  BY <1>3, <1>7, <1>9 DEF f

(* The frame that is popped is the first of the chain.                     *)
LEMMA PopGood ==
  ASSUME StackCacheAssumption, NEW s, Good(s), s.stack # << >>
  PROVE  LET h == OffsetIn(s.place, Head(s.stack))
         IN  /\ Good(Pop(s)) /\ h \in HeapFrames /\ Head(s.stack) = AddressIn(s.place, h)
             /\ Chain(s) = <<h>> \o Chain(Pop(s)) /\ Pop(s).place = s.place
<1> DEFINE f == Head(s.stack)
           h == OffsetIn(s.place, f)
           t == Pop(s)
<1>1. s \in Records /\ s.stack \in Seq(CacheFrames(s.place)) /\ s.cont \in Seq(HeapFrames)
  BY DEF Good, Records
<1>2. f \in CacheFrames(s.place) /\ Tail(s.stack) \in Seq(CacheFrames(s.place)) /\ s.stack = <<f>> \o Tail(s.stack)
  BY <1>1, ConsOfParts
<1>3. s.place \in Places /\ h \in HeapFrames /\ f = AddressIn(s.place, h) /\ f.size \in Nat
  <2>1. s.place \in Places  BY GoodFacts
  <2>2. PICK g \in HeapFrames : f = AddressIn(s.place, g)  BY <1>2 DEF CacheFrames
  <2>3. h = g  BY <2>1, <2>2, HeapFrameFacts
  <2> QED  BY <1>2, <2>1, <2>2, <2>3, CacheFrameFacts
<1> HIDE DEF f, h
<1>4. /\ t.stkp = s.stkp + f.size /\ t.stack = Tail(s.stack)
      /\ t.etop = s.etop /\ t.stkbot = s.stkbot /\ t.cont = s.cont /\ t.place = s.place
  BY <1>1 DEF Pop, Records, f
<1>5. t.stack \in Seq(UNION {CacheFrames(p) : p \in Places})
  <2>1. CacheFrames(s.place) \subseteq UNION {CacheFrames(p) : p \in Places}  BY <1>3
  <2>2. t.stack \in Seq(CacheFrames(s.place))  BY <1>2, <1>4
  <2> QED  BY <2>1, <2>2, SeqMonotonic
<1>6. t \in Records
  <2>1. s.stkp + f.size \in Int  BY <1>3, GoodFacts
  <2> QED  BY <1>1, <1>4, <1>5, <2>1 DEF Pop, Records, f
<1>7. Sized(t.stack)
  BY <1>2, <1>3, <1>4, LenProperties, CacheFrameFacts DEF Sized
<1>8. Words(s.stack) = f.size + Words(t.stack) /\ Words(t.stack) \in Nat
  BY <1>2, <1>3, <1>4, <1>7, WordsPush
<1>9. Good(t)
  <2>1. Laid(t)  BY <1>3, <1>4, <1>8, GoodFacts, SMTT(60) DEF Good, Laid
  <2> QED  BY <1>2, <1>4, <1>6, <2>1 DEF Good
<1>10. s.stkp = t.stkp - h.size /\ h.size = f.size  BY <1>3, <1>4, HeapFrameFacts, GoodFacts
<1>11. Push(t, f) = s
  <2>1. Push(t, f) \in Records
    <3>1. t.stkp - f.size = s.stkp  BY <1>10
    <3> QED  BY <1>1, <1>2, <1>4, <1>6, <3>1 DEF Push, Records
  <2>2. /\ Push(t, f).etop = s.etop /\ Push(t, f).stkp = s.stkp /\ Push(t, f).stkbot = s.stkbot
        /\ Push(t, f).stack = s.stack /\ Push(t, f).cont = s.cont /\ Push(t, f).place = s.place
    BY <1>2, <1>4, <1>6, <1>10 DEF Push, Records
  <2> QED  BY <1>1, <2>1, <2>2 DEF Records
<1>12. Chain(s) = <<h>> \o Chain(t)
  BY <1>3, <1>4, <1>9, <1>10, <1>11, PushGood, GoodFacts
<1> QED  BY <1>3, <1>4, <1>9, <1>12 DEF f, h

LEMMA FlushGood ==
  ASSUME StackCacheAssumption, NEW s, Good(s)
  PROVE  LET t == Flush(s)
         IN  /\ Good(t) /\ t.stack = << >> /\ t.cont = Chain(s) /\ Chain(t) = Chain(s)
             /\ t.etop = s.etop /\ t.stkp = s.stkp /\ t.place = s.place
<1> DEFINE t == Flush(s)
<1>1. s \in Records /\ s.stack \in Seq(CacheFrames(s.place))  BY DEF Good
<1>2. DOMAIN s.stack = 1 .. Len(s.stack)  BY <1>1, LenProperties
<1>3. t = [s EXCEPT !.cont = Chain(s), !.stack = << >>, !.stkbot = s.stkp]
  BY <1>2 DEF Flush, Chain, Heaped
<1>4. << >> \in Seq(UNION {CacheFrames(p) : p \in Places}) /\ << >> \in Seq(CacheFrames(s.place))
  OBVIOUS
<1>5. /\ t \in Records /\ t.cont = Chain(s) /\ t.stack = << >> /\ t.stkbot = s.stkp
      /\ t.etop = s.etop /\ t.stkp = s.stkp /\ t.place = s.place
  BY <1>1, <1>3, <1>4, GoodFacts DEF Records
<1> HIDE DEF t
<1>6. Good(t)
  <2>1. /\ t.etop \in Nat /\ t.stkp \in Nat /\ t.etop <= t.stkp /\ t.stkp <= NurserySize
        /\ Words(t.stack) = 0
    BY <1>5, WordsEmpty, GoodFacts, SizeFacts, SMTT(60)
  <2>2. Laid(t)  BY <1>5, <2>1 DEF Laid
  <2> QED  BY <1>4, <1>5, <2>2 DEF Good
<1> QED  BY <1>5, <1>6, GoodFacts DEF t

(* stk_create and stk_restore_frame, where they succeed.                   *)
LEMMA CreateGood ==
  ASSUME StackCacheAssumption, NEW s, Good(s), s.stack = << >>, s.stkp - UnderflowSize >= s.etop
  PROVE  LET t == Create(s)
         IN  /\ Good(t) /\ t.stack = << >> /\ t.cont = s.cont /\ Chain(t) = Chain(s)
             /\ t.etop = s.etop /\ t.stkp = s.stkp - UnderflowSize /\ t.place = s.place
<1> DEFINE t == Create(s)
<1>1. s \in Records /\ UnderflowSize \in Nat /\ NurserySize \in Nat  BY SizeFacts DEF Good
<1>2. /\ t \in Records /\ t.cont = s.cont /\ t.stack = s.stack /\ t.stkbot = s.stkp - UnderflowSize
      /\ t.etop = s.etop /\ t.stkp = s.stkp - UnderflowSize /\ t.place = s.place
  <2>1. s.stkp - UnderflowSize \in Int  BY <1>1, GoodFacts
  <2> QED  BY <1>1, <2>1 DEF Records, Create
<1> HIDE DEF t
<1>3. Good(t)
  <2>1. Laid(t)  BY <1>1, <1>2, WordsEmpty, GoodFacts DEF Laid
  <2> QED  BY <1>2, <2>1 DEF Good
<1> QED  BY <1>2, <1>3, GoodFacts DEF t

LEMMA RestoreGood ==
  ASSUME StackCacheAssumption, NEW s, Good(s), s.stack = << >>, s.cont # << >>, Fits(s)
  PROVE  LET t == Restore(s)
         IN  /\ Good(t) /\ t.stack # << >> /\ Chain(t) = Chain(s) /\ t.place = s.place
             /\ t.etop = s.etop /\ t.stkp = s.stkp - Head(s.cont).size
             /\ Head(t.stack).size = Head(s.cont).size
<1> DEFINE h == Head(s.cont)
           f == AddressIn(s.place, h)
           r == [s EXCEPT !.cont = Tail(s.cont)]
<1>1. s \in Records /\ s.cont \in Seq(HeapFrames)  BY GoodFacts DEF Good
<1>2. h \in HeapFrames /\ Tail(s.cont) \in Seq(HeapFrames) /\ s.cont = <<h>> \o Tail(s.cont)
  BY <1>1, ConsOfParts
<1> HIDE DEF h
<1>3. /\ r \in Records /\ r.cont = Tail(s.cont) /\ r.stack = s.stack /\ r.stkbot = s.stkbot
      /\ r.etop = s.etop /\ r.stkp = s.stkp /\ r.place = s.place
  BY <1>1, <1>2 DEF Records
<1> HIDE DEF r
<1>4. Good(r)  BY <1>3 DEF Good, Laid
<1>5. Chain(r) = Tail(s.cont) /\ Chain(s) = s.cont  BY <1>3, <1>4, GoodFacts
<1>6. r.stkp - h.size >= r.etop  BY <1>3 DEF Fits, h
<1>7. Good(Push(r, f)) /\ Chain(Push(r, f)) = <<h>> \o Tail(s.cont) /\ Push(r, f).stack # << >>
  BY <1>2, <1>3, <1>4, <1>5, <1>6, PushGood
<1>8. f.size = h.size  BY <1>2, GoodFacts, HeapFrameFacts
<1>9. Restore(s) = Push(r, f)
  <2>1. <<f>> \o << >> = <<f>>
    <3>1. <<f>> \in Seq({f})  OBVIOUS
    <3> QED  BY <3>1, ConcatEmptySeq
  <2> QED  BY <1>1, <1>3, <1>8, <2>1 DEF Restore, Push, Records, h, r
<1>10. Push(r, f).stack = <<f>> \o r.stack /\ Push(r, f).stkp = r.stkp - f.size
       /\ Push(r, f).etop = r.etop /\ Push(r, f).place = r.place
  BY <1>3 DEF Push, Records
<1>11. Head(<<f>> \o << >>) = f
  <2>1. << >> \in Seq({f})  OBVIOUS
  <2> QED  BY <2>1, ConsFacts
<1> QED  BY <1>2, <1>3, <1>5, <1>7, <1>8, <1>9, <1>10, <1>11 DEF h

(* A collection fits: the nursery holds the bases and two frames.          *)
LEMMA CollectGood ==
  ASSUME StackCacheAssumption, NEW s, Good(s), Chain(s) # << >>, NEW moved
  PROVE  LET t == Collect(s, moved)
         IN  /\ Good(t) /\ t.stack # << >> /\ Chain(t) = Chain(s) /\ t.etop = 0
             /\ t.stkp = NurserySize - UnderflowSize - Head(Chain(s)).size
             /\ Head(t.stack).size = Head(Chain(s)).size
<1> DEFINE f == Flush(s)
           e == [f EXCEPT !.etop = 0, !.stkp = NurserySize, !.place = Moved(s, moved)]
           g == [f EXCEPT !.etop = 0, !.stkp = NurserySize, !.stkbot = NurserySize,
                          !.place = Moved(s, moved)]
           h == Head(Chain(s))
<1>0. NurserySize \in Nat /\ UnderflowSize \in Nat /\ SceBuffer \in Nat  BY SizeFacts
<1>1. Good(f) /\ f.stack = << >> /\ f.cont = Chain(s) /\ f \in Records
  BY FlushGood DEF Good
<1> HIDE DEF f
<1>2. Moved(s, moved) \in Places
  <2>1. s.place \in [Procs -> {0, 1}]  BY GoodFacts DEF Places
  <2> QED  BY <2>1 DEF Moved, Places
<1>3. h \in HeapFrames /\ h.size \in FrameSizes
  <2>1. h \in HeapFrames  BY GoodFacts, ConsOfParts
  <2>2. PICK p \in Places : TRUE  BY GoodFacts
  <2> QED  BY <2>1, <2>2, HeapFrameFacts
<1>4. h.size \in Nat /\ UnderflowSize + h.size <= NurserySize
  <2>1. h.size \in Nat /\ SceBuffer + 2 * UnderflowSize + h.size + h.size <= NurserySize
    BY <1>3, SizeFacts
  <2> QED  BY <1>0, <2>1
<1>5. /\ g \in Records /\ g.etop = 0 /\ g.stkp = NurserySize /\ g.stkbot = NurserySize
      /\ g.stack = << >> /\ g.cont = Chain(s)
  <2> DEFINE m == Moved(s, moved)
  <2> HIDE DEF m
  <2>1. m \in Places /\ NurserySize \in Int /\ 0 \in Int  BY <1>0, <1>2 DEF m
  <2>2. g \in Records  BY <1>1, <2>1 DEF Records, m
  <2>3. /\ g.etop = 0 /\ g.stkp = NurserySize /\ g.stkbot = NurserySize
        /\ g.stack = f.stack /\ g.cont = f.cont
    BY <1>1 DEF Records
  <2> QED  BY <1>1, <2>2, <2>3
<1>6. Create(e) = Create(g)  BY <1>1 DEF Create, Records
<1> HIDE DEF g, e, h
<1>7. Good(g)
  <2>1. << >> \in Seq(CacheFrames(g.place))  OBVIOUS
  <2>2. Laid(g)  BY <1>0, <1>5, WordsEmpty DEF Laid
  <2> QED  BY <1>5, <2>1, <2>2 DEF Good
<1>8. Chain(g) = Chain(s)  BY <1>5, <1>7, GoodFacts
<1>9. PICK c : c = Create(g)  OBVIOUS
<1>10. /\ Good(c) /\ c.stack = << >> /\ c.cont = Chain(s) /\ Chain(c) = Chain(s)
       /\ c.etop = 0 /\ c.stkp = NurserySize - UnderflowSize
  <2>1. g.stkp - UnderflowSize >= g.etop  BY <1>0, <1>4, <1>5
  <2> QED  BY <1>5, <1>7, <1>8, <1>9, <2>1, CreateGood
<1>11. Fits(c)  BY <1>0, <1>4, <1>10 DEF Fits, h
<1>12. Collect(s, moved) = Restore(c)  BY <1>6, <1>9 DEF Collect, e, f
<1> QED  BY <1>10, <1>11, <1>12, RestoreGood

LEMMA RefilledGood ==
  ASSUME StackCacheAssumption, NEW s, Good(s), s.stack = << >>, Chain(s) # << >>, NEW moved
  PROVE  LET t == Refilled(s, moved)
         IN  Good(t) /\ t.stack # << >> /\ Chain(t) = Chain(s)
<1>1. s.cont # << >>  BY GoodFacts
<1>2. CASE Fits(s)  BY <1>1, <1>2, RestoreGood DEF Refilled
<1>3. CASE ~Fits(s)  BY <1>3, CollectGood DEF Refilled
<1> QED  BY <1>2, <1>3

LEMMA WithRoomGood ==
  ASSUME StackCacheAssumption, NEW s, Good(s), Chain(s) # << >>, NEW moved, NEW room \in Nat,
         SceBuffer + UnderflowSize + Head(Chain(s)).size + room <= NurserySize
  PROVE  LET t == WithRoom(s, room, moved)
         IN  Good(t) /\ Chain(t) = Chain(s) /\ FreeSpace(t) >= room
<1>1. CASE FreeSpace(s) < room
  <2>1. PICK t : t = Collect(s, moved)  OBVIOUS
  <2>2. /\ Good(t) /\ Chain(t) = Chain(s) /\ t.etop = 0
        /\ t.stkp = NurserySize - UnderflowSize - Head(Chain(s)).size
    BY <2>1, CollectGood
  <2>3. Head(Chain(s)).size \in Nat
    <3>1. Head(Chain(s)) \in HeapFrames  BY GoodFacts, ConsOfParts
    <3> QED  BY <3>1, GoodFacts, HeapFrameFacts, SizeFacts
  <2>4. FreeSpace(t) >= room  BY <2>2, <2>3, SizeFacts, SMTT(60) DEF FreeSpace
  <2> QED  BY <1>1, <2>1, <2>2, <2>4 DEF WithRoom
<1>2. CASE ~(FreeSpace(s) < room)
  <2>1. FreeSpace(s) \in Int  BY GoodFacts, SizeFacts, SMTT(60) DEF FreeSpace
  <2> QED  BY <1>2, <2>1 DEF WithRoom
<1> QED  BY <1>1, <1>2

(* The first frame of the chain has the size that creg_get asks for.       *)
LEMMA TopSizeFacts ==
  ASSUME StackCacheAssumption, NEW s, Good(s), Chain(s) # << >>
  PROVE  /\ TopSize(s) = UnderflowSize + Head(Chain(s)).size
         /\ Head(Chain(s)).size \in FrameSizes
<1>1. CASE s.stack = << >>
  <2>1. Chain(s) = s.cont  BY <1>1, GoodFacts
  <2> QED  BY <1>1, <2>1, GoodFacts, ConsOfParts, HeapFrameFacts DEF TopSize
<1>2. CASE s.stack # << >>
  <2>1. PICK h \in HeapFrames : /\ Head(s.stack) = AddressIn(s.place, h)
                                /\ Chain(s) = <<h>> \o Chain(Pop(s)) /\ Good(Pop(s))
    BY <1>2, PopGood
  <2>2. Head(Chain(s)) = h
    <3>1. Chain(Pop(s)) \in Seq(HeapFrames)  BY <2>1, GoodFacts
    <3> QED  BY <2>1, <3>1, ConsFacts
  <2>3. Head(s.stack).size = h.size /\ h.size \in FrameSizes  BY <2>1, GoodFacts, HeapFrameFacts
  <2> QED  BY <1>2, <2>2, <2>3 DEF TopSize
<1> QED  BY <1>1, <1>2

LEMMA RoomMadeGood ==
  ASSUME StackCacheAssumption, NEW s, Good(s), Chain(s) # << >>, NEW moved
  PROVE  LET t == RoomMade(s, moved)
         IN  /\ Good(t) /\ Chain(t) = Chain(s)
             /\ FreeSpace(t) >= UnderflowSize + Head(Chain(s)).size
             /\ TopSize(s) = UnderflowSize + Head(Chain(s)).size
<1> DEFINE a == Head(Chain(s)).size
<1>1. TopSize(s) = UnderflowSize + a /\ a \in FrameSizes  BY TopSizeFacts
<1>2. a \in Nat /\ SceBuffer + 2 * UnderflowSize + a + a <= NurserySize /\ UnderflowSize \in Nat
  BY <1>1, SizeFacts
<1>3. TopSize(s) \in Nat /\ SceBuffer + UnderflowSize + a + TopSize(s) <= NurserySize
  BY <1>1, <1>2, SizeFacts, SMTT(60)
<1> QED  BY <1>1, <1>3, WithRoomGood DEF RoomMade
-----------------------------------------------------------------------------
(* What is to be returned to.                                              *)
LEMMA HeapTargetType ==
  ASSUME StackCacheAssumption, NEW h \in HeapFrames, NEW place \in Places
  PROVE  HeapTarget(h) \in Saved
BY HeapFrameFacts

LEMMA TargetsFacts ==
  ASSUME StackCacheAssumption, NEW c \in Seq(HeapFrames), NEW place \in Places
  PROVE  /\ Targets(c) \in Seq(Saved) /\ Len(Targets(c)) = Len(c)
         /\ Targets(c) = << >> <=> c = << >>
         /\ \A h \in HeapFrames : Targets(<<h>> \o c) = <<HeapTarget(h)>> \o Targets(c)
<1>0. Len(c) \in Nat /\ \A i \in 1 .. Len(c) : c[i] \in HeapFrames  BY LenProperties
<1>1. Targets(c) \in Seq(Saved) /\ Len(Targets(c)) = Len(c)
  <2>1. \A i \in 1 .. Len(c) : HeapTarget(c[i]) \in Saved  BY <1>0, HeapTargetType
  <2>2. Targets(c) \in Seq(Saved)  BY <1>0, <2>1, IsASeq DEF Targets
  <2> QED  BY <1>0, <2>2 DEF Targets
<1>2. Targets(c) = << >> <=> c = << >>  BY <1>1, EmptySeq
<1>3. ASSUME NEW h \in HeapFrames PROVE Targets(<<h>> \o c) = <<HeapTarget(h)>> \o Targets(c)
  <2>1. PICK d : d = <<h>> \o c  OBVIOUS
  <2>2. /\ d \in Seq(HeapFrames) /\ Len(d) = Len(c) + 1 /\ d[1] = h
        /\ \A i \in 1 .. Len(c) : d[i + 1] = c[i]
    BY <2>1, ConsFacts
  <2>3. PICK e : e = <<HeapTarget(h)>> \o Targets(c)  OBVIOUS
  <2>4. /\ e \in Seq(Saved) /\ Len(e) = Len(c) + 1 /\ e[1] = HeapTarget(h)
        /\ \A i \in 1 .. Len(c) : e[i + 1] = Targets(c)[i]
    BY <1>1, <2>3, HeapTargetType, ConsFacts
  <2>5. Targets(d) \in Seq(Saved) /\ Len(Targets(d)) = Len(c) + 1
    <3>1. \A i \in 1 .. Len(c) + 1 : d[i] \in HeapFrames  BY <2>2, LenProperties
    <3>2. \A i \in 1 .. Len(c) + 1 : HeapTarget(d[i]) \in Saved  BY <3>1, HeapTargetType
    <3>3. Len(c) + 1 \in Nat  BY <1>0
    <3>4. [i \in 1 .. Len(c) + 1 |-> HeapTarget(d[i])] \in Seq(Saved)  BY <3>2, <3>3, IsASeq
    <3> QED  BY <2>2, <3>3, <3>4 DEF Targets
  <2>6. ASSUME NEW i \in 1 .. Len(c) + 1 PROVE Targets(d)[i] = e[i]
    <3>1. Targets(d)[i] = HeapTarget(d[i])  BY <2>2 DEF Targets
    <3>2. CASE i = 1  BY <2>2, <2>4, <3>1, <3>2
    <3>3. CASE i # 1
      <4>1. i - 1 \in 1 .. Len(c) /\ (i - 1) + 1 = i  BY <1>0, <3>3
      <4>2. d[i] = c[i - 1] /\ e[i] = Targets(c)[i - 1]  BY <2>2, <2>4, <4>1
      <4> QED  BY <3>1, <4>1, <4>2 DEF Targets
    <3> QED  BY <3>2, <3>3
  <2>7. Targets(d) = e  BY <2>4, <2>5, <2>6, SeqEqual
  <2> QED  BY <2>1, <2>3, <2>7
<1> QED  BY <1>1, <1>2, <1>3

LEMMA KontFacts ==
  ASSUME NEW k \in Konts, k # << >>
  PROVE  /\ \A x \in Controls : <<x>> \o k \in Konts /\ <<x>> \o k # << >>
         /\ Tail(k) \in Konts
         /\ Len(k) > 1 => Head(k) \in Controls /\ Tail(k) # << >>
<1>0. k \in Seq(Saved) /\ Len(k) \in Nat \ {0}  BY EmptySeq DEF Konts
<1>1. ASSUME NEW x \in Controls PROVE <<x>> \o k \in Konts /\ <<x>> \o k # << >>
  <2>1. PICK q : q = <<x>> \o k  OBVIOUS
  <2>2. /\ q \in Seq(Saved) /\ Len(q) = Len(k) + 1 /\ q[1] = x /\ q # << >>
        /\ \A i \in 1 .. Len(k) : q[i + 1] = k[i]
    BY <1>0, <2>1, ConsFacts DEF Saved
  <2>3. ASSUME NEW i \in 1 .. Len(q), i < Len(q) PROVE q[i] \in Controls
    <3>1. CASE i = 1  BY <2>2, <3>1
    <3>2. CASE i # 1
      <4>1. i - 1 \in 1 .. Len(k) /\ (i - 1) + 1 = i /\ i - 1 < Len(k)  BY <1>0, <2>2, <2>3, <3>2
      <4>2. q[i] = k[i - 1]  BY <2>2, <4>1
      <4> QED  BY <4>1, <4>2 DEF Konts
    <3> QED  BY <3>1, <3>2
  <2> QED  BY <2>1, <2>2, <2>3 DEF Konts
<1>2. /\ Tail(k) \in Seq(Saved) /\ Len(Tail(k)) = Len(k) - 1 /\ Head(k) = k[1]
      /\ \A i \in 1 .. Len(Tail(k)) : Tail(k)[i] = k[i + 1]
  BY <1>0, HeadTailProperties, ConsOfParts
<1>3. Tail(k) \in Konts
  <2>1. ASSUME NEW i \in 1 .. Len(Tail(k)), i < Len(Tail(k)) PROVE Tail(k)[i] \in Controls
    <3>1. i + 1 \in 1 .. Len(k) /\ i + 1 < Len(k)  BY <1>0, <1>2, <2>1
    <3> QED  BY <1>2, <3>1 DEF Konts
  <2> QED  BY <1>2, <2>1 DEF Konts
<1>4. ASSUME Len(k) > 1 PROVE Head(k) \in Controls /\ Tail(k) # << >>
  <2>1. 1 \in 1 .. Len(k)  BY <1>0
  <2>2. Len(Tail(k)) # 0  BY <1>0, <1>2, <1>4
  <2> QED  BY <1>2, <1>4, <2>1, <2>2, EmptySeq DEF Konts
<1> QED  BY <1>1, <1>3, <1>4

(* The first frame of the chain is where the program returns to.           *)
LEMMA TopReturns ==
  ASSUME StackCacheAssumption, StackInv, Len(kont) > 1,
         NEW s, Good(s), Chain(s) = Chain(cache), s.stack # << >>
  PROVE  LET f == Head(s.stack)
         IN  /\ Target(s.place, f) = Head(kont) /\ Target(s.place, f) \in Controls
             /\ f.proc = NoProc => f.saved \in Controls
             /\ Good(Pop(s)) /\ Targets(Chain(Pop(s))) = Tail(kont)
             /\ Tail(kont) \in Konts /\ Tail(kont) # << >> /\ Chain(Pop(s)) # << >>
<1> DEFINE f == Head(s.stack)
<1>1. PICK h \in HeapFrames : /\ f = AddressIn(s.place, h)
                              /\ Chain(s) = <<h>> \o Chain(Pop(s)) /\ Good(Pop(s))
  BY PopGood
<1> HIDE DEF f
<1>2. s.place \in Places /\ Chain(Pop(s)) \in Seq(HeapFrames)  BY <1>1, GoodFacts
<1>3. kont = <<HeapTarget(h)>> \o Targets(Chain(Pop(s)))
  BY <1>1, <1>2, TargetsFacts, SMTT(60) DEF StackInv
<1>4. HeapTarget(h) \in Saved /\ Targets(Chain(Pop(s))) \in Seq(Saved)
  BY <1>2, HeapTargetType, TargetsFacts
<1>5. Head(kont) = HeapTarget(h) /\ Tail(kont) = Targets(Chain(Pop(s)))
  BY <1>3, <1>4, ConsFacts
<1>6. Head(kont) \in Controls /\ Tail(kont) \in Konts /\ Tail(kont) # << >>
  BY KontFacts DEF StackInv
<1>7. Target(s.place, f) = HeapTarget(h) /\ f.proc = h.proc /\ f.saved = h.saved
  BY <1>1, <1>2, HeapFrameFacts
<1>8. f.proc = NoProc => f.saved = HeapTarget(h)  BY <1>7 DEF HeapTarget
<1>9. Chain(Pop(s)) # << >>  BY <1>2, <1>5, <1>6, TargetsFacts
<1> QED  BY <1>1, <1>5, <1>6, <1>7, <1>8, <1>9 DEF f
-----------------------------------------------------------------------------
(* THE STEPS                                                               *)
NewControls == Procs \X {0}

LEMMA InvFacts ==
  ASSUME StackCacheAssumption, StackInv
  PROVE  /\ Good(cache) /\ Chain(cache) \in Seq(HeapFrames) /\ Chain(cache) # << >>
         /\ cache.place \in Places /\ Head(Chain(cache)).size \in FrameSizes
         /\ cache.stack = << >> => cache.cont # << >>
<1>1. Good(cache) /\ Chain(cache) \in Seq(HeapFrames) /\ cache.place \in Places
  BY GoodFacts DEF StackInv
<1>2. Chain(cache) # << >>  BY <1>1, TargetsFacts DEF StackInv
<1> QED  BY <1>1, <1>2, TopSizeFacts, GoodFacts

(* A frame is pushed on a cache that holds what is to be returned to.      *)
LEMMA PushKeeps ==
  ASSUME StackCacheAssumption, StackInv, NEW s, Good(s), Chain(s) = Chain(cache),
         NEW h \in HeapFrames, s.stkp - h.size >= s.etop, HeapTarget(h) \in Controls,
         cache' = Push(s, AddressIn(s.place, h)), kont' = <<HeapTarget(h)>> \o kont,
         wanted' \in {None} \cup [size : Sizes, point : Points], control' \in Controls,
         UNCHANGED <<captured, capturedKont>>
  PROVE  StackInv'
<1>1. Good(cache') /\ Chain(cache') = <<h>> \o Chain(cache)  BY PushGood
<1>2. Chain(cache) \in Seq(HeapFrames) /\ cache.place \in Places  BY InvFacts
<1>3. Targets(Chain(cache')) = kont'  BY <1>1, <1>2, TargetsFacts DEF StackInv
<1>4. kont' \in Konts /\ kont' # << >>  BY KontFacts DEF StackInv
<1> QED  BY <1>1, <1>3, <1>4 DEF StackInv

LEMMA SaveKeeps ==
  ASSUME StackCacheAssumption, StackInv, NEW size \in Sizes, NEW point \in Points, Save(size, point)
  PROVE  StackInv'
<1>1. wanted' \in {None} \cup [size : Sizes, point : Points]  BY DEF Save
<1> QED  BY <1>1 DEF Save, StackInv

LEMMA PushFrameKeeps ==
  ASSUME StackCacheAssumption, StackInv, PushFrame
  PROVE  StackInv'
<1> DEFINE h == Frame(wanted.size, control[1], wanted.point, Lost)
<1>1. wanted \in [size : Sizes, point : Points] /\ control \in Procs \X (Points \cup {0})
  BY DEF PushFrame, StackInv, Controls
<1>2. h \in HeapFrames /\ h.size = wanted.size /\ h.proc = control[1] /\ h.ret = wanted.point
  BY <1>1 DEF Frame, HeapFrames
<1>3. HeapTarget(h) = <<control[1], wanted.point>> /\ control[1] \in Procs /\ control[1] # NoProc
  BY <1>1, <1>2 DEF HeapTarget, StackCacheAssumption
<1>4. HeapTarget(h) \in Controls  BY <1>1, <1>3 DEF Controls
<1>5. AddressIn(cache.place, h) =
        Frame(wanted.size, control[1], Address(cache.place, control[1], wanted.point), Lost)
  BY <1>2, <1>3 DEF AddressIn, Frame
<1> HIDE DEF h
<1>6. /\ cache' = Push(cache, AddressIn(cache.place, h)) /\ kont' = <<HeapTarget(h)>> \o kont
      /\ wanted' = None /\ cache.stkp - h.size >= cache.etop
      /\ UNCHANGED <<control, captured, capturedKont>>
  BY <1>2, <1>3, <1>5 DEF PushFrame
<1>7. control' \in Controls /\ Good(cache)  BY <1>6 DEF StackInv
<1> QED  BY <1>2, <1>4, <1>6, <1>7, PushKeeps

(* The cache changes, what is to be returned to does not.                  *)
LEMMA SameChainKeeps ==
  ASSUME StackCacheAssumption, StackInv, Good(cache'), Chain(cache') = Chain(cache),
         UNCHANGED <<wanted, captured, kont, capturedKont>>, control' \in Controls
  PROVE  StackInv'
BY DEF StackInv

LEMMA StackOverflowKeeps ==
  ASSUME StackCacheAssumption, StackInv, StackOverflow
  PROVE  StackInv'
<1>1. PICK moved \in SUBSET Movable : cache' = Collect(cache, moved)  BY DEF StackOverflow
<1>2. Good(cache') /\ Chain(cache') = Chain(cache)  BY <1>1, InvFacts, CollectGood
<1>3. UNCHANGED <<wanted, control, captured, kont, capturedKont>>  BY DEF StackOverflow
<1>4. control' \in Controls  BY <1>3 DEF StackInv
<1> QED  BY <1>2, <1>3, <1>4, SameChainKeeps

LEMMA InvokeKeeps ==
  ASSUME StackCacheAssumption, StackInv, NEW p \in Procs, Invoke(p)
  PROVE  StackInv'
<1>1. control' \in Controls  BY DEF Invoke, Controls
<1> QED  BY <1>1 DEF Invoke, StackInv

(* The frames of callouts and callbacks.                                   *)
LEMMA CallKeeps ==
  ASSUME StackCacheAssumption, StackInv, NEW s, Good(s), Chain(s) = Chain(cache),
         NEW ret \in {0, 1}, s.stkp - CalloutSize >= s.etop,
         cache' = Push(s, Frame(CalloutSize, NoProc, ret, control)), kont' = <<control>> \o kont,
         wanted' = wanted, control' \in Controls, UNCHANGED <<captured, capturedKont>>
  PROVE  StackInv'
<1> DEFINE h == Frame(CalloutSize, NoProc, ret, control)
<1>1. control \in Controls  BY DEF StackInv
<1>2. h \in [size : {CalloutSize}, proc : {NoProc}, ret : {0, 1}, saved : Saved]
  BY <1>1 DEF Frame, Saved
<1>3. h \in HeapFrames /\ h.size = CalloutSize /\ h.proc = NoProc /\ h.saved = control
  BY <1>2 DEF HeapFrames, Frame
<1> HIDE DEF h
<1>4. HeapTarget(h) = control /\ AddressIn(s.place, h) = h  BY <1>3 DEF HeapTarget, AddressIn
<1>5. wanted' \in {None} \cup [size : Sizes, point : Points]  BY DEF StackInv
<1>6. cache' = Push(s, AddressIn(s.place, h))  BY <1>4 DEF h
<1> QED  BY <1>1, <1>3, <1>4, <1>5, <1>6, PushKeeps

LEMMA CallbackKeeps ==
  ASSUME StackCacheAssumption, StackInv, NEW p \in Procs, Callback(p)
  PROVE  StackInv'
<1>1. cache.stkp - CalloutSize >= cache.etop
  <2>1. cache.stkp \in Nat /\ cache.etop \in Nat  BY InvFacts, GoodFacts
  <2>2. SceBuffer \in Nat /\ CalloutSize \in Nat  BY SizeFacts
  <2>3. cache.stkp - SceBuffer - cache.etop >= CalloutSize  BY DEF Callback, FreeSpace
  <2> QED  BY <2>1, <2>2, <2>3
<1>2. control' \in Controls  BY DEF Callback, Controls
<1> QED  BY <1>1, <1>2, InvFacts, CallKeeps DEF Callback

LEMMA CalloutKeeps ==
  ASSUME StackCacheAssumption, StackInv, Callout
  PROVE  StackInv'
<1> DEFINE full == cache.stkp - CalloutSize < cache.etop + SceBuffer
           s(moved) == IF full THEN Collect(cache, moved) ELSE cache
<1>1. PICK moved \in Moves(full) :
        cache' = Push(s(moved), Frame(CalloutSize, NoProc, 0, control))
  BY DEF Callout
<1>2. /\ kont' = <<control>> \o kont /\ UNCHANGED <<wanted, captured, capturedKont>>
      /\ control' = <<Handler, 0>>
  BY DEF Callout
<1>3. control' \in Controls  BY <1>2 DEF Controls, StackCacheAssumption
<1>4. PICK t : t = s(moved)  OBVIOUS
<1>5. Good(t) /\ Chain(t) = Chain(cache) /\ t.stkp - CalloutSize >= t.etop
  <2>1. CASE full
    <3>1. t = Collect(cache, moved)  BY <1>4, <2>1
    <3>2. /\ Good(t) /\ Chain(t) = Chain(cache) /\ t.etop = 0
          /\ t.stkp = NurserySize - UnderflowSize - Head(Chain(cache)).size
      BY <3>1, InvFacts, CollectGood
    <3>3. Head(Chain(cache)).size \in FrameSizes /\ Head(Chain(cache)).size \in Nat
      BY InvFacts, SizeFacts
    <3>4. SceBuffer + 2 * UnderflowSize + Head(Chain(cache)).size + CalloutSize <= NurserySize
      BY <3>3, SizeFacts
    <3> QED  BY <3>2, <3>3, <3>4, SizeFacts
  <2>2. CASE ~full
    <3>1. t = cache  BY <1>4, <2>2
    <3>2. cache.stkp - CalloutSize >= cache.etop
      <4>1. cache.stkp \in Nat /\ cache.etop \in Nat  BY InvFacts, GoodFacts
      <4>2. SceBuffer \in Nat /\ CalloutSize \in Nat  BY SizeFacts
      <4> QED  BY <2>2, <4>1, <4>2
    <3> QED  BY <3>1, <3>2, InvFacts
  <2> QED  BY <2>1, <2>2
<1> HIDE DEF s
<1>6. cache' = Push(t, Frame(CalloutSize, NoProc, 0, control))  BY <1>1, <1>4
<1> QED  BY <1>2, <1>3, <1>5, <1>6, CallKeeps

(* The underflow handler refills an empty cache.                           *)
LEMMA RefillKeepsChain ==
  ASSUME StackCacheAssumption, NEW s, Good(s), Chain(s) # << >>, NEW moved
  PROVE  LET t == IF s.stack = << >> THEN Refilled(s, moved) ELSE s
         IN  Good(t) /\ Chain(t) = Chain(s) /\ t.stack # << >>
<1>1. CASE s.stack = << >>  BY <1>1, RefilledGood
<1>2. CASE s.stack # << >>  BY <1>2
<1> QED  BY <1>1, <1>2

LEMMA ReturnKeeps ==
  ASSUME StackCacheAssumption, StackInv, Return
  PROVE  StackInv'
<1>1. PICK moved \in Moves(RefillCollects(cache)) :
        LET s == IF cache.stack = << >> THEN Refilled(cache, moved) ELSE cache
        IN  control' = Target(s.place, Head(s.stack)) /\ cache' = Pop(s)
  BY DEF Return
<1>2. PICK s : s = IF cache.stack = << >> THEN Refilled(cache, moved) ELSE cache  OBVIOUS
<1>3. Good(s) /\ Chain(s) = Chain(cache) /\ s.stack # << >>
  BY <1>2, InvFacts, RefillKeepsChain
<1>4. control' = Target(s.place, Head(s.stack)) /\ cache' = Pop(s)  BY <1>1, <1>2
<1>5. Len(kont) > 1 /\ kont' = Tail(kont) /\ UNCHANGED <<wanted, captured, capturedKont>>
  BY DEF Return
<1>6. /\ control' \in Controls /\ Good(cache') /\ Targets(Chain(cache')) = kont'
      /\ kont' \in Konts /\ kont' # << >>
  BY <1>3, <1>4, <1>5, TopReturns
<1> QED  BY <1>5, <1>6 DEF StackInv

LEMMA RestoreContextKeeps ==
  ASSUME StackCacheAssumption, StackInv, RestoreContext
  PROVE  StackInv'
<1> DEFINE s0(first) == IF cache.stack = << >> THEN Refilled(cache, first) ELSE cache
<1>1. PICK first \in Moves(RefillCollects(cache)) : \E moved \in Moves(RefillCollects(Pop(s0(first)))) :
        /\ Head(s0(first).stack).proc = NoProc
        /\ control' = Head(s0(first).stack).saved
        /\ cache' = IF Head(s0(first).stack).ret = 0 /\ Pop(s0(first)).stack = << >>
                    THEN Refilled(Pop(s0(first)), moved) ELSE Pop(s0(first))
  BY DEF RestoreContext
<1>2. PICK s : s = s0(first)  OBVIOUS
<1>3. PICK moved : /\ Head(s.stack).proc = NoProc /\ control' = Head(s.stack).saved
                   /\ cache' = IF Head(s.stack).ret = 0 /\ Pop(s).stack = << >>
                               THEN Refilled(Pop(s), moved) ELSE Pop(s)
  BY <1>1, <1>2
<1>4. Good(s) /\ Chain(s) = Chain(cache) /\ s.stack # << >>
  BY <1>2, InvFacts, RefillKeepsChain
<1> HIDE DEF s0
<1>5. PICK t : t = Pop(s)  OBVIOUS
<1>6. Len(kont) > 1 /\ kont' = Tail(kont) /\ UNCHANGED <<wanted, captured, capturedKont>>
  BY DEF RestoreContext
<1>7. /\ Head(s.stack).saved \in Controls /\ Good(t) /\ Targets(Chain(t)) = kont'
      /\ kont' \in Konts /\ kont' # << >> /\ Chain(t) # << >>
  BY <1>3, <1>4, <1>5, <1>6, TopReturns
<1>8. cache' = t \/ (t.stack = << >> /\ cache' = Refilled(t, moved))  BY <1>3, <1>5
<1>9. Good(cache') /\ Chain(cache') = Chain(t)  BY <1>7, <1>8, RefilledGood
<1>10. control' \in Controls  BY <1>3, <1>7
<1> QED  BY <1>6, <1>7, <1>9, <1>10 DEF StackInv

LEMMA AllocKeeps ==
  ASSUME StackCacheAssumption, StackInv, NEW n \in Sizes, Alloc(n)
  PROVE  StackInv'
<1>1. PICK moved \in Moves(FreeSpace(cache) < n) :
        cache' = [WithRoom(cache, n, moved) EXCEPT !.etop = @ + n]
  BY DEF Alloc
<1>2. PICK s : s = WithRoom(cache, n, moved)  OBVIOUS
<1>3. n \in FrameSizes /\ n \in Nat  BY SizeFacts DEF FrameSizes
<1>4. SceBuffer + UnderflowSize + Head(Chain(cache)).size + n <= NurserySize
  <2>1. Head(Chain(cache)).size \in FrameSizes /\ Head(Chain(cache)).size \in Nat
    BY InvFacts, SizeFacts
  <2>2. SceBuffer + 2 * UnderflowSize + Head(Chain(cache)).size + n <= NurserySize
    BY <1>3, <2>1, SizeFacts
  <2> QED  BY <1>3, <2>1, <2>2, SizeFacts
<1>5. Good(s) /\ Chain(s) = Chain(cache) /\ FreeSpace(s) >= n
  BY <1>2, <1>3, <1>4, InvFacts, WithRoomGood
<1>6. s.etop \in Nat /\ s.stkp \in Nat /\ SceBuffer \in Nat /\ s \in Records
  BY <1>5, GoodFacts, SizeFacts DEF Good
<1>7. 0 <= s.etop + n /\ s.etop + n <= s.stkp /\ s.etop + n \in Int
  BY <1>3, <1>5, <1>6 DEF FreeSpace
<1>8. /\ cache' \in Records /\ cache'.etop = s.etop + n /\ cache'.stkp = s.stkp
      /\ cache'.stkbot = s.stkbot /\ cache'.stack = s.stack /\ cache'.cont = s.cont
      /\ cache'.place = s.place
  BY <1>1, <1>2, <1>6, <1>7 DEF Records
<1>9. Good(cache')  BY <1>5, <1>7, <1>8 DEF Good, Laid
<1>10. Chain(cache') = Chain(cache)  BY <1>5, <1>8 DEF Chain, Heaped
<1>11. UNCHANGED <<wanted, control, captured, kont, capturedKont>>  BY DEF Alloc
<1>12. control' \in Controls  BY <1>11 DEF StackInv
<1> QED  BY <1>9, <1>10, <1>11, <1>12, SameChainKeeps

LEMMA CaptureKeeps ==
  ASSUME StackCacheAssumption, StackInv, Capture
  PROVE  StackInv'
<1>1. PICK moved \in Moves(FreeSpace(cache) < TopSize(cache)) :
        LET s == Flush(RoomMade(cache, moved))
        IN  captured' = s.cont /\ cache' = Restore(Create(s))
  BY DEF Capture
<1>2. PICK r : r = RoomMade(cache, moved)  OBVIOUS
<1>3. PICK s : s = Flush(r)  OBVIOUS
<1> DEFINE a == Head(Chain(cache)).size
<1>4. Good(r) /\ Chain(r) = Chain(cache) /\ FreeSpace(r) >= UnderflowSize + a
  BY <1>2, InvFacts, RoomMadeGood
<1>5. /\ Good(s) /\ s.stack = << >> /\ s.cont = Chain(cache) /\ Chain(s) = Chain(cache)
      /\ s.etop = r.etop /\ s.stkp = r.stkp
  BY <1>3, <1>4, FlushGood
<1>6. a \in Nat /\ UnderflowSize \in Nat /\ SceBuffer \in Nat /\ s.stkp \in Nat /\ s.etop \in Nat
  <2>1. Head(Chain(cache)).size \in FrameSizes  BY InvFacts
  <2> QED  BY <1>5, <2>1, GoodFacts, SizeFacts
<1> HIDE DEF a
<1>7. s.stkp - UnderflowSize >= s.etop /\ (s.stkp - UnderflowSize) - a >= s.etop
  <2>1. s.stkp - SceBuffer - s.etop >= UnderflowSize + a  BY <1>4, <1>5 DEF FreeSpace
  <2> QED  BY <1>6, <2>1
<1>8. PICK c : c = Create(s)  OBVIOUS
<1>9. /\ Good(c) /\ c.stack = << >> /\ c.cont = Chain(cache) /\ Chain(c) = Chain(cache)
      /\ c.etop = s.etop /\ c.stkp = s.stkp - UnderflowSize
  BY <1>5, <1>7, <1>8, CreateGood
<1>10. Fits(c)  BY <1>7, <1>9 DEF Fits, a
<1>11. captured' = Chain(cache) /\ cache' = Restore(c)  BY <1>1, <1>2, <1>3, <1>5, <1>8
<1>12. Good(cache') /\ Chain(cache') = Chain(cache)
  BY <1>9, <1>10, <1>11, InvFacts, RestoreGood
<1>13. capturedKont' = kont /\ UNCHANGED <<wanted, control, kont>>  BY DEF Capture
<1>14. captured' \in Seq(HeapFrames) /\ Targets(captured') = capturedKont'
  BY <1>11, <1>13, InvFacts DEF StackInv
<1> QED  BY <1>12, <1>13, <1>14 DEF StackInv

LEMMA ReinstateKeeps ==
  ASSUME StackCacheAssumption, StackInv, Reinstate
  PROVE  StackInv'
<1> DEFINE s0 == [Cleared(cache) EXCEPT !.cont = captured]
<1>1. PICK moved \in Moves(~Fits(s0)) : cache' = Refilled(s0, moved)  BY DEF Reinstate
<1>2. PICK s : s = s0  OBVIOUS
<1>3. Good(cache) /\ cache \in Records /\ captured \in Seq(HeapFrames) /\ captured # << >>
  BY DEF StackInv, Good, Reinstate
<1>4. /\ s \in Records /\ s.etop = cache.etop /\ s.stkp = cache.stkbot /\ s.stkbot = cache.stkbot
      /\ s.stack = << >> /\ s.cont = captured
  <2>1. << >> \in Seq(UNION {CacheFrames(p) : p \in Places})  OBVIOUS
  <2> QED  BY <1>2, <1>3, <2>1 DEF Cleared, Clear, Records
<1> HIDE DEF s0
<1>5. Good(s)
  <2>1. /\ cache.etop \in Nat /\ cache.stkp \in Nat /\ cache.stkbot \in Nat
        /\ cache.etop <= cache.stkp /\ cache.stkp <= cache.stkbot /\ cache.stkbot <= NurserySize
    BY <1>3, GoodFacts
  <2>2. Laid(s)  BY <1>4, <2>1, WordsEmpty DEF Laid
  <2>3. << >> \in Seq(CacheFrames(s.place))  OBVIOUS
  <2> QED  BY <1>4, <2>2, <2>3 DEF Good
<1>6. Chain(s) = captured  BY <1>4, <1>5, GoodFacts
<1>7. Good(cache') /\ Chain(cache') = captured
  BY <1>1, <1>2, <1>3, <1>4, <1>5, <1>6, RefilledGood
<1>8. kont' = capturedKont /\ UNCHANGED <<wanted, control, captured, capturedKont>>
  BY DEF Reinstate
<1>9. capturedKont # << >>
  <2>1. cache.place \in Places  BY InvFacts
  <2> QED  BY <1>3, <2>1, TargetsFacts DEF StackInv
<1> QED  BY <1>7, <1>8, <1>9 DEF StackInv

LEMMA StackInit ==
  ASSUME StackCacheAssumption, Init
  PROVE  StackInv
<1> DEFINE s == [etop |-> 0, stkp |-> NurserySize, stkbot |-> NurserySize,
                 stack |-> << >>, cont |-> << >>, place |-> [p \in Procs |-> 0]]
<1>0. /\ NurserySize \in Nat /\ UnderflowSize \in Nat /\ SceBuffer \in Nat /\ CalloutSize \in Nat
      /\ SceBuffer + 2 * UnderflowSize + CalloutSize + CalloutSize <= NurserySize
  BY SizeFacts
<1>1. /\ s.etop = 0 /\ s.stkp = NurserySize /\ s.stkbot = NurserySize
      /\ s.stack = << >> /\ s.cont = << >> /\ s \in Records
  <2>1. << >> \in Seq(UNION {CacheFrames(p) : p \in Places}) /\ << >> \in Seq(HeapFrames)
    OBVIOUS
  <2>2. [p \in Procs |-> 0] \in Places  BY DEF Places
  <2> QED  BY <1>0, <2>1, <2>2 DEF Records
<1> HIDE DEF s
<1>2. Good(s)
  <2>1. << >> \in Seq(CacheFrames(s.place))  OBVIOUS
  <2> QED  BY <1>0, <1>1, <2>1, WordsEmpty DEF Good, Laid
<1>3. Chain(s) = << >>  BY <1>1, <1>2, GoodFacts
<1>4. PICK c : c = Create(s)  OBVIOUS
<1>5. Good(c) /\ Chain(c) = << >> /\ c.etop = 0 /\ c.stkp = NurserySize - UnderflowSize
  BY <1>0, <1>1, <1>2, <1>3, <1>4, CreateGood
<1>6. /\ Bottom \in HeapFrames /\ Bottom.size = CalloutSize /\ HeapTarget(Bottom) = Lost
      /\ Bottom.saved = Lost /\ AddressIn(c.place, Bottom) = Bottom
  <2>1. Bottom \in [size : {CalloutSize}, proc : {NoProc}, ret : {0, 1}, saved : Saved]
    BY DEF Bottom, Frame, Saved, Lost
  <2>2. Bottom.proc = NoProc /\ Bottom.size = CalloutSize /\ Bottom.saved = Lost
    BY DEF Bottom, Frame, Lost
  <2> QED  BY <2>1, <2>2 DEF HeapFrames, HeapTarget, AddressIn
<1>7. cache = Push(c, AddressIn(c.place, Bottom))  BY <1>4, <1>6 DEF Init, s
<1>8. Good(cache) /\ Chain(cache) = <<Bottom>> \o << >>
  <2>1. c.stkp - Bottom.size >= c.etop  BY <1>0, <1>5, <1>6
  <2> HIDE DEF s
  <2>2. /\ Good(Push(c, AddressIn(c.place, Bottom)))
        /\ Chain(Push(c, AddressIn(c.place, Bottom))) = <<Bottom>> \o Chain(c)
    BY <1>5, <1>6, <2>1, PushGood
  <2> QED  BY <1>5, <1>7, <2>2
<1>9. Targets(Chain(cache)) = <<Lost>> \o Targets(<< >>) /\ Targets(<< >>) = << >>
  <2>1. << >> \in Seq(HeapFrames) /\ c.place \in Places  BY <1>5, GoodFacts
  <2> QED  BY <1>6, <1>8, <2>1, TargetsFacts
<1>10. <<Lost>> \o << >> = <<Lost>> /\ <<Lost>> \in Konts /\ <<Lost>> # << >> /\ << >> \in Konts
  <2>1. <<Lost>> \in Seq(Saved) /\ Len(<<Lost>>) = 1 /\ << >> \in Seq(Saved) /\ Len(<< >>) = 0
    BY DEF Saved
  <2> QED  BY <2>1, ConcatEmptySeq DEF Konts
<1>11. kont = <<Lost>> /\ captured = << >> /\ capturedKont = << >> /\ wanted = None
       /\ control \in Controls /\ << >> \in Seq(HeapFrames)
  BY <1>6 DEF Init, Controls
<1> QED  BY <1>8, <1>9, <1>10, <1>11 DEF StackInv

LEMMA StackNext ==
  ASSUME StackCacheAssumption, StackInv, [Next]_vars
  PROVE  StackInv'
<1>1. CASE UNCHANGED vars  BY <1>1 DEF vars, StackInv
<1>2. CASE Next
  BY <1>2, SaveKeeps, PushFrameKeeps, StackOverflowKeeps, InvokeKeeps, CallbackKeeps,
     CalloutKeeps, ReturnKeeps, RestoreContextKeeps, CaptureKeeps, ReinstateKeeps, AllocKeeps
     DEF Next
<1> QED  BY <1>1, <1>2

LEMMA StackShows ==
  ASSUME StackCacheAssumption, StackInv
  PROVE  StackSound
<1>1. CacheTypeOK
  <2>1. /\ cache.etop \in Nat /\ cache.stkp \in Nat /\ cache.stkbot \in Nat
        /\ cache.etop <= cache.stkp /\ cache.stkp <= cache.stkbot /\ cache.stkbot <= NurserySize
        /\ cache.place \in Places
    BY InvFacts, GoodFacts
  <2>2. NurserySize \in Nat  BY SizeFacts
  <2> QED  BY <2>1, <2>2 DEF CacheTypeOK, StackInv, Places
<1>2. FramesLaidOut  BY DEF FramesLaidOut, StackInv, Good, Laid
<1>3. CaptureHasRoom
  <2>1. ASSUME NEW moved PROVE FreeSpace(RoomMade(cache, moved)) >= TopSize(cache)
    BY InvFacts, RoomMadeGood
  <2> QED  BY <2>1 DEF CaptureHasRoom
<1>4. ContinuationKept
  <2> DEFINE a == [i \in DOMAIN cache.stack |-> Target(cache.place, cache.stack[i])]
             b == [i \in DOMAIN cache.cont |-> HeapTarget(cache.cont[i])]
             c == Chain(cache)
  <2>1. /\ cache.stack \in Seq(CacheFrames(cache.place)) /\ cache.cont \in Seq(HeapFrames)
        /\ cache.place \in Places /\ c \in Seq(HeapFrames) /\ Heaped(cache) \in Seq(HeapFrames)
    BY InvFacts, GoodFacts DEF Good
  <2>2. PICK m \in Nat, n \in Nat : /\ m = Len(cache.stack) /\ DOMAIN cache.stack = 1 .. m
                                   /\ n = Len(cache.cont) /\ DOMAIN cache.cont = 1 .. n
    BY <2>1, LenProperties
  <2>3. a \in Seq(Saved) /\ Len(a) = m
    <3>1. \A i \in 1 .. m : cache.stack[i] \in CacheFrames(cache.place)  BY <2>1, <2>2, LenProperties
    <3>2. \A i \in 1 .. m : Target(cache.place, cache.stack[i]) \in Saved
      BY <2>1, <3>1, CacheFrameFacts
    <3>3. [i \in 1 .. m |-> Target(cache.place, cache.stack[i])] \in Seq(Saved)  BY <3>2, IsASeq
    <3> QED  BY <2>2, <3>3
  <2>4. b = Targets(cache.cont) /\ b \in Seq(Saved) /\ Len(b) = n
    <3>1. b = Targets(cache.cont)  BY <2>2 DEF Targets
    <3> QED  BY <2>1, <2>2, <3>1, TargetsFacts
  <2>5. /\ Len(Heaped(cache)) = m /\ Len(c) = m + n
        /\ \A i \in 1 .. m + n : c[i] = IF i <= m THEN Heaped(cache)[i] ELSE cache.cont[i - m]
    <3>1. Len(Heaped(cache)) = m  BY <2>2 DEF Heaped
    <3>2. c = Heaped(cache) \o cache.cont  BY DEF Chain
    <3> HIDE DEF a, b, c
    <3>3. PICK x : x = Heaped(cache)  OBVIOUS
    <3>4. PICK y : y = cache.cont  OBVIOUS
    <3>5. /\ Len(x \o y) = Len(x) + Len(y)
          /\ \A i \in 1 .. Len(x) + Len(y) : (x \o y)[i] = IF i <= Len(x) THEN x[i] ELSE y[i - Len(x)]
      BY <2>1, <3>3, <3>4, ConcatProperties
    <3>6. Len(x) = m /\ Len(y) = n /\ c = x \o y  BY <2>2, <3>1, <3>2, <3>3, <3>4
    <3>7. Len(c) = m + n /\ \A i \in 1 .. m + n : c[i] = IF i <= m THEN x[i] ELSE y[i - m]
      BY <3>5, <3>6
    <3> QED  BY <3>1, <3>3, <3>4, <3>7
  <2>6. \A i \in 1 .. m : a[i] = HeapTarget(Heaped(cache)[i])
    <3> SUFFICES ASSUME NEW i \in 1 .. m PROVE a[i] = HeapTarget(Heaped(cache)[i])  OBVIOUS
    <3>1. cache.stack[i] \in CacheFrames(cache.place)  BY <2>1, <2>2, LenProperties
    <3>2. Target(cache.place, cache.stack[i]) = HeapTarget(OffsetIn(cache.place, cache.stack[i]))
      BY <2>1, <3>1, CacheFrameFacts
    <3> QED  BY <2>2, <3>2 DEF Heaped
  <2>7. \A i \in 1 .. n : b[i] = HeapTarget(cache.cont[i])  BY <2>2
  <2>8. Targets(c) \in Seq(Saved) /\ Len(Targets(c)) = m + n
    BY <2>1, <2>5, TargetsFacts
  <2>9. \A i \in 1 .. m + n : Targets(c)[i] = HeapTarget(c[i])  BY <2>5 DEF Targets
  <2> HIDE DEF a, b, c
  <2>10. /\ a \o b \in Seq(Saved) /\ Len(a \o b) = m + n
         /\ \A i \in 1 .. m + n : (a \o b)[i] = IF i <= m THEN a[i] ELSE b[i - m]
    <3>1. PICK x, y : x = a /\ y = b  OBVIOUS
    <3>2. /\ x \o y \in Seq(Saved) /\ Len(x \o y) = Len(x) + Len(y)
          /\ \A i \in 1 .. Len(x) + Len(y) : (x \o y)[i] = IF i <= Len(x) THEN x[i] ELSE y[i - Len(x)]
      BY <2>3, <2>4, <3>1, ConcatProperties
    <3>3. Len(x) = m /\ Len(y) = n  BY <2>3, <2>4, <3>1
    <3> QED  BY <3>1, <3>2, <3>3
  <2>11. ASSUME NEW i \in 1 .. m + n PROVE (a \o b)[i] = Targets(c)[i]
    <3>1. CASE i <= m
      <4>1. i \in 1 .. m  BY <2>2, <3>1
      <4> QED  BY <2>5, <2>6, <2>9, <2>10, <3>1, <4>1
    <3>2. CASE ~(i <= m)
      <4>1. i - m \in 1 .. n
        <5> HIDE DEF Saved
        <5>1. m \in Nat /\ n \in Nat /\ i \in 1 .. m + n  BY <2>11
        <5> QED  BY <5>1, <3>2
      <4> QED  BY <2>5, <2>7, <2>9, <2>10, <3>2, <4>1
    <3> QED  BY <3>1, <3>2
  <2>12. a \o b = Targets(c)  BY <2>8, <2>10, <2>11, SeqEqual
  <2>13. [i \in DOMAIN captured |-> HeapTarget(captured[i])] = Targets(captured)
    <3>1. DOMAIN captured = 1 .. Len(captured)  BY LenProperties DEF StackInv
    <3> QED  BY <3>1 DEF Targets
  <2> QED  BY <2>12, <2>13 DEF ContinuationKept, StackInv, a, b, c
<1> QED  BY <1>1, <1>2, <1>3, <1>4 DEF StackSound

(* stack.c, nursery.c: the frames of the cache are laid out in its space,  *)
(* and with those in the heap they are the continuation that the program   *)
(* built, for any procedures, return points and sizes of frames, wherever  *)
(* the cache is flushed and its frames are restored.                       *)
THEOREM ContinuationIsKept ==
  ASSUME StackCacheAssumption PROVE Spec => []StackSound
<1>1. Init => StackInv  BY StackInit
<1>2. StackInv /\ [Next]_vars => StackInv'  BY StackNext
<1>3. StackInv => StackSound  BY StackShows
<1> QED  BY <1>1, <1>2, <1>3, PTL DEF Spec
===============================================================================
