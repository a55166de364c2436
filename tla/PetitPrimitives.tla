---------------------------- MODULE PetitPrimitives ----------------------------
(***************************************************************************)
(* The primitives that Petit Larceny inlines in compiled code: the macros  *)
(* twobit_op1_*, twobit_op2_*, twobit_op3_*, the compare-and-branch forms  *)
(* twobit_*_branchf_* and the checks twobit_reg_*_check_* of               *)
(* include/Standard-C/petit-instr.h, on words of a bounded width.  A       *)
(* primitive takes RESULT and a register and leaves a value in RESULT,     *)
(* jumps, or gives up: to the generic arithmetic or to an exception.       *)
(***************************************************************************)
EXTENDS Integers, FiniteSets

CONSTANTS Half,                    \* the weight of the sign bit
          CharBits,                \* characters carry their code above this many values
          CharTag, CharLimit, SurrogateFirst, SurrogateLast,
          ByteLimit, ShiftLimit,   \* 256, SHIFT_LIMIT
          Heap,                    \* what the pointers point to: [hdr, size in bytes]
          Words, Fills             \* the operands tried, the values stored
TRUE_CONST == 6
FALSE_CONST == 14
PrimitivesAssumption ==
  /\ Half % 8 = 0 /\ ShiftLimit \in Nat /\ CharTag < CharBits \div 4
  /\ {TRUE_CONST, FALSE_CONST} \cup Fills \subseteq 0 .. 2 * Half - 1
  /\ Words \subseteq 0 .. 2 * Half - 1 /\ DOMAIN Heap \subseteq 0 .. 2 * Half - 1
  /\ \A w \in Words : w % 2 = 1 => w \in DOMAIN Heap

VARIABLES RESULT, reg, \* the operands
          ran          \* the primitive that was executed, its operands and what came of it
vars == <<RESULT, reg, ran>>

(* Words, tags and immediates: macros.h.  Broken variant: wider registers. *)
Uncut(x) == x
Word(x) == x % (2 * Half)
Signed(w) == IF w >= Half THEN w - 2 * Half ELSE w
Fix(n) == Word(4 * n)
IsFixnum(w) == w % 4 = 0
BothFixnums(a, b) == IsFixnum(a) /\ IsFixnum(b)
IsChar(w) == w % CharBits = CharTag
Tag(w) == w % 8
PAIR_TAG == 1
VEC_TAG == 3
BVEC_TAG == 5
PROC_TAG == 7
HasHeader(a, tag, hdr) == Tag(a) = tag /\ Heap[a].hdr = hdr
SignsDiffer(a, b) == (a >= Half) # (b >= Half)   \* (s_word)(a ^ b) < 0

(* What a primitive comes to.                                              *)
Value(v) == [kind |-> "value", v |-> v]
Truth(c) == Value(IF c THEN TRUE_CONST ELSE FALSE_CONST)
Raise == [kind |-> "exception", v |-> 0]
Millicode == [kind |-> "generic", v |-> 0]
Slot(n) == [kind |-> "slot", v |-> n]           \* a memory access, n bytes into the object
Branches(c) == [kind |-> IF c THEN "branch" ELSE "next", v |-> 0]

-----------------------------------------------------------------------------
(* twobit_add and twobit_subtract: + and -, also with an immediate.        *)
Added(a, b, no) ==
  LET res == Word(a + b)
  IN  IF BothFixnums(a, b) /\ (SignsDiffer(a, b) \/ ~SignsDiffer(res, a)) THEN Value(res) ELSE no
Subtracted(a, b, no) ==
  LET res == Word(a - b)
  IN  IF BothFixnums(a, b) /\ (~SignsDiffer(a, b) \/ ~SignsDiffer(res, a)) THEN Value(res) ELSE no
Sum(a, b) == Added(a, b, Millicode)
Difference(a, b) == Subtracted(a, b, Millicode)
(* fx+, fx-.  Broken variant: the test for overflow of addition.           *)
FxSum(a, b) == Added(a, b, Raise)
AddsInstead(a, b) ==
  LET res == Word(a - b)
  IN  IF BothFixnums(a, b) /\ (SignsDiffer(a, b) \/ ~SignsDiffer(res, a)) THEN Value(res) ELSE Raise
FxDifference(a, b) == Subtracted(a, b, Raise)
(* fx--, fx*                                                               *)
FxNegated(a) == IF IsFixnum(a) /\ a # Word(-a) THEN Value(Word(-a)) ELSE Raise
FxProduct(a, b) ==
  LET product == Signed(a) * (Signed(b) \div 4)
  IN  IF BothFixnums(a, b) /\ Signed(Word(product)) = product THEN Value(Word(product)) ELSE Raise

(* The five comparisons of signed words.  Broken variant: unsigned.        *)
Unsigned(op, a, b) ==
  CASE op = "<" -> a < b [] op = "<=" -> a <= b [] op = "=" -> a = b
    [] op = ">" -> a > b [] op = ">=" -> a >= b
Holds(op, a, b) ==
  LET x == Signed(a) y == Signed(b)
  IN  CASE op = "<" -> x < y [] op = "<=" -> x <= y [] op = "=" -> x = y
        [] op = ">" -> x > y [] op = ">=" -> x >= y
Comparisons == {"<", "<=", "=", ">", ">="}
Compare(op, a, b) == IF BothFixnums(a, b) THEN Truth(Holds(op, a, b)) ELSE Millicode
FxCompare(op, a, b) == IF BothFixnums(a, b) THEN Truth(Holds(op, a, b)) ELSE Raise
FxCompareZero(op, a) == IF IsFixnum(a) THEN Truth(Holds(op, a, 0)) ELSE Raise

(* fxlogand, fxlogior, fxlogxor, fxlognot; fxlsh, fxrsha, fxrshl: the      *)
(* count is compared as an unsigned word.                                  *)
Bit(w, i) == (w \div 2^i) % 2
Bits == {i \in 0 .. 30 : 2^i < 2 * Half}
RECURSIVE FromBits(_, _)
FromBits(set, i) == IF 2^i >= 2 * Half THEN 0 ELSE (IF i \in set THEN 2^i ELSE 0) + FromBits(set, i + 1)
Logical(op, a, b) ==
  LET keep(x, y) == CASE op = "and" -> x = 1 /\ y = 1 [] op = "ior" -> x = 1 \/ y = 1 [] op = "xor" -> x # y
  IN  IF BothFixnums(a, b) THEN Value(FromBits({i \in Bits : keep(Bit(a, i), Bit(b, i))}, 0)) ELSE Raise
Complement(a) == IF IsFixnum(a) THEN Value(FromBits({i \in Bits \ {0, 1} : Bit(a, i) = 0}, 0)) ELSE Raise
Shift(op, a, b) ==
  LET count == b \div 4
      untagged(x) == Word(x - (x % 4))
  IN  IF BothFixnums(a, b) /\ b < Fix(ShiftLimit)
      THEN Value(CASE op = "lsh" -> Word(a * 2^count)
                   [] op = "rsha" -> untagged(Signed(a) \div 2^count)
                   [] op = "rshl" -> untagged(a \div 2^count))
      ELSE Raise

-----------------------------------------------------------------------------
(* integer->char, char->integer, the comparisons of characters.  Broken    *)
(* variant: the limit itself is taken.                                     *)
TakesLimit(a) ==
  LET code == a \div 4
  IN  IF /\ IsFixnum(a) /\ (code < SurrogateFirst \/ code > SurrogateLast)
         /\ code <= CharLimit
      THEN Value(Word(a * (CharBits \div 4) + CharTag)) ELSE Raise
IntegerToChar(a) ==
  LET code == a \div 4
  IN  IF /\ IsFixnum(a) /\ (code < SurrogateFirst \/ code > SurrogateLast)
         /\ code < CharLimit
      THEN Value(Word(a * (CharBits \div 4) + CharTag)) ELSE Raise
CharToInteger(a) == IF IsChar(a) THEN Value(a \div (CharBits \div 4)) ELSE Raise
CharCompare(op, a, b) == IF IsChar(a) /\ IsChar(b) THEN Truth(Unsigned(op, a, b)) ELSE Raise

(* vector-ref, procedure-ref, vector-like-ref and the stores: the index    *)
(* and the header give the offset in bytes.                                *)
WordAt(a, b, isObject) ==
  IF isObject THEN IF IsFixnum(b) /\ b < Heap[a].size THEN Slot(b) ELSE Raise ELSE Raise
ByteAt(a, b, isObject) ==
  IF isObject THEN IF IsFixnum(b) /\ b \div 4 < Heap[a].size THEN Slot(b \div 4) ELSE Raise ELSE Raise
VectorRef(a, b) == WordAt(a, b, HasHeader(a, VEC_TAG, "vector"))
ProcedureRef(a, b) == WordAt(a, b, Tag(a) = PROC_TAG)
VectorLikeRef(a, b) == WordAt(a, b, Tag(a) = VEC_TAG)
StringRef(a, b) == ByteAt(a, b, HasHeader(a, BVEC_TAG, "string"))
BytevectorRef(a, b) == ByteAt(a, b, HasHeader(a, BVEC_TAG, "bytevector"))
BytevectorLikeRef(a, b) == ByteAt(a, b, Tag(a) = BVEC_TAG)
StringSet(a, b, c) == IF IsChar(c) THEN StringRef(a, b) ELSE Raise
BytevectorSet(a, b, c) == IF IsFixnum(c) /\ c < Fix(ByteLimit) THEN BytevectorRef(a, b) ELSE Raise
BytevectorLikeSet(a, b, c) == IF IsFixnum(c) /\ c < Fix(ByteLimit) THEN BytevectorLikeRef(a, b) ELSE Raise
(* car, cdr, set-car!, set-cdr!                                            *)
PairRef(a, field) == IF Tag(a) = PAIR_TAG THEN Slot(4 * field) ELSE Raise
(* The lengths.                                                            *)
Length(a, isObject, inBytes) ==
  IF isObject THEN Value(IF inBytes THEN Fix(Heap[a].size) ELSE Heap[a].size) ELSE Raise

(* What the compiler emits for a safe vector-ref: check-fixnum?, check-    *)
(* vector?/vector-length:vec, check-range ("unsigned comparison computes   *)
(* !(0 <= y1 < y2)") and vector-ref:trusted.  Broken variant: the range is *)
(* checked with signed words.                                              *)
ChecksSigned(i, length) == Signed(i) < Signed(length)
InRange(i, length) == i < length
TrustedVectorRef(a, b) ==
  IF IsFixnum(b) /\ Tag(a) = VEC_TAG
  THEN IF Heap[a].hdr = "vector" /\ InRange(b, Fix(Heap[a].size \div 4)) THEN Slot(4 * (b \div 4)) ELSE Raise
  ELSE Raise

-----------------------------------------------------------------------------
(* Compare and branch if false, fused by the peephole optimizer: the same  *)
(* test inlined again.  Broken variant: the branch is taken when it holds. *)
BranchesIfTrue(op, a, b, generic) ==
  IF BothFixnums(a, b) THEN Branches(Holds(op, a, b)) ELSE IF generic THEN Millicode ELSE Raise
NumBranch(op, a, b, generic) ==
  IF BothFixnums(a, b) THEN Branches(~Holds(op, a, b)) ELSE IF generic THEN Millicode ELSE Raise
FxBranchZero(op, a) == IF IsFixnum(a) THEN Branches(~Holds(op, a, 0)) ELSE Raise
CharBranch(op, a, b) == IF IsChar(a) /\ IsChar(b) THEN Branches(~Unsigned(op, a, b)) ELSE Raise
PredicateBranch(op, a) ==
  Branches(~CASE op = "pair?" -> Tag(a) = PAIR_TAG [] op = "fixnum?" -> IsFixnum(a) [] op = "char?" -> IsChar(a))

(* One primitive is executed; the operands stay in history.                *)
Ran(op, test, a, b, c, out) ==
  /\ ran = <<>> /\ ran' = [op |-> op, test |-> test, a |-> a, b |-> b, c |-> c, out |-> out]
  /\ RESULT' = IF out.kind = "value" THEN out.v ELSE RESULT
  /\ UNCHANGED reg
Tests(op, test, out) == Ran(op, test, RESULT, reg, 0, out)
Binary(op, out) == Tests(op, "", out)
Arithmetic ==
  \/ Binary("+", Sum(RESULT, reg)) \/ Binary("fx+", FxSum(RESULT, reg))
  \/ Binary("-", Difference(RESULT, reg)) \/ Binary("fx-", FxDifference(RESULT, reg))
  \/ Binary("fx--", FxNegated(RESULT)) \/ Binary("fx*", FxProduct(RESULT, reg))
  \/ Binary("fxlognot", Complement(RESULT))
  \/ \E op \in {"and", "ior", "xor"} : Binary(op, Logical(op, RESULT, reg))
  \/ \E op \in {"lsh", "rsha", "rshl"} : Binary(op, Shift(op, RESULT, reg))
Comparing ==
  \E op \in Comparisons :
    \/ Tests("num", op, Compare(op, RESULT, reg))
    \/ Tests("fx", op, FxCompare(op, RESULT, reg))
    \/ Tests("char", op, CharCompare(op, RESULT, reg))
    \/ Tests("num branch", op, NumBranch(op, RESULT, reg, TRUE))
    \/ Tests("fx branch", op, NumBranch(op, RESULT, reg, FALSE))
    \/ Tests("char branch", op, CharBranch(op, RESULT, reg))
Testing ==
  \/ \E op \in {"<", "=", ">"} : \/ Tests("zero", op, FxCompareZero(op, RESULT))
                                 \/ Tests("zero branch", op, FxBranchZero(op, RESULT))
  \/ \E op \in {"pair?", "fixnum?", "char?"} : Tests("branch", op, PredicateBranch(op, RESULT))
  \/ Binary("integer->char", IntegerToChar(RESULT)) \/ Binary("char->integer", CharToInteger(RESULT))
Accessing ==
  \/ Binary("vector", VectorRef(RESULT, reg)) \/ Binary("procedure", ProcedureRef(RESULT, reg))
  \/ Binary("vector-like", VectorLikeRef(RESULT, reg)) \/ Binary("vector", TrustedVectorRef(RESULT, reg))
  \/ Binary("string", StringRef(RESULT, reg)) \/ Binary("bytevector", BytevectorRef(RESULT, reg))
  \/ Binary("bytevector-like", BytevectorLikeRef(RESULT, reg))
  \/ \E field \in {0, 1} : Binary("pair", PairRef(RESULT, field))
  \/ \E c \in Fills : \/ Ran("string-set!", "", RESULT, reg, c, StringSet(RESULT, reg, c))
                      \/ Ran("bytevector-set!", "", RESULT, reg, c, BytevectorSet(RESULT, reg, c))
                      \/ Ran("bytevector-set!", "", RESULT, reg, c, BytevectorLikeSet(RESULT, reg, c))
Measuring ==
  \/ Binary("length", Length(RESULT, HasHeader(RESULT, VEC_TAG, "vector"), FALSE))
  \/ Binary("length", Length(RESULT, HasHeader(RESULT, BVEC_TAG, "string"), TRUE))
  \/ Binary("length", Length(RESULT, HasHeader(RESULT, BVEC_TAG, "bytevector"), TRUE))
  \/ Binary("length", Length(RESULT, Tag(RESULT) = VEC_TAG, FALSE))
  \/ Binary("length", Length(RESULT, Tag(RESULT) = BVEC_TAG, TRUE))
  \/ Binary("length", Length(RESULT, Tag(RESULT) = PROC_TAG, FALSE))
(* The program goes on: an exception or a generic operation supplies some  *)
(* other value.                                                            *)
Continue == ran # <<>> /\ ran' = <<>> /\ UNCHANGED <<RESULT, reg>>

Init == RESULT \in Words /\ reg \in Words /\ ran = <<>>
Next == Arithmetic \/ Comparing \/ Testing \/ Accessing \/ Measuring \/ Continue
Spec == Init /\ [][Next]_vars
-----------------------------------------------------------------------------
PrimitivesTypeOK ==
  /\ RESULT \in 0 .. 2 * Half - 1 /\ reg \in Words
  /\ ran # <<>> => ran.out.kind \in {"value", "exception", "generic", "slot", "branch", "next"}

(* The integers that fixnums stand for, and what the procedures promise.   *)
IntegerOf(w) == Signed(w) \div 4
IsRepresentable(n) == -Half <= 4 * n /\ 4 * n < Half
Exact(op, a, b) ==
  CASE op \in {"+", "fx+"} -> IntegerOf(a) + IntegerOf(b) [] op \in {"-", "fx-"} -> IntegerOf(a) - IntegerOf(b)
    [] op = "fx*" -> IntegerOf(a) * IntegerOf(b)
Against == IF ran.op = "zero" THEN 0 ELSE ran.b

(* "If the result is not representable as a fixnum, then an error is       *)
(* signalled" (UserManual, fixnums), or the generic operation is called;   *)
(* otherwise the result is the exact one.  Comparisons are those of the    *)
(* integers.                                                               *)
FixnumsExact ==
  ran # <<>> =>
    /\ ran.op \in {"+", "fx+", "-", "fx-", "fx*"} =>
         IF BothFixnums(ran.a, ran.b) /\ IsRepresentable(Exact(ran.op, ran.a, ran.b))
         THEN ran.out = Value(Fix(Exact(ran.op, ran.a, ran.b)))
         ELSE ran.out \in {Raise, Millicode}
    /\ ran.op \in {"rsha", "lsh"} /\ ran.out.kind = "value" =>
         LET count == IntegerOf(ran.b)
         IN  /\ count \in 0 .. ShiftLimit - 1
             /\ ran.out.v = Fix(IF ran.op = "lsh" THEN IntegerOf(ran.a) * 2^count ELSE IntegerOf(ran.a) \div 2^count)
    /\ ran.op \in {"num", "fx", "zero"} /\ ran.out.kind = "value" =>
         LET x == IntegerOf(ran.a) y == IntegerOf(Against)
         IN  ran.out.v = TRUE_CONST <=> CASE ran.test = "<" -> x < y [] ran.test = "<=" -> x <= y
               [] ran.test = "=" -> x = y [] ran.test = ">" -> x > y [] ran.test = ">=" -> x >= y

(* The fused compare-and-branch does what the comparison followed by a     *)
(* branch on #f would: it jumps where the comparison answers #f, falls     *)
(* through where it answers #t, and gives up on the same operands.         *)
Plain(op, test, a, b) ==
  CASE op = "num branch" -> Compare(test, a, b) [] op = "fx branch" -> FxCompare(test, a, b)
    [] op = "char branch" -> CharCompare(test, a, b) [] op = "zero branch" -> FxCompareZero(test, a)
FusedAgrees ==
  ran # <<>> /\ ran.op \in {"num branch", "fx branch", "char branch", "zero branch"} =>
    LET plain == Plain(ran.op, ran.test, ran.a, ran.b)
    IN  CASE plain.kind = "value" -> ran.out = Branches(plain.v = FALSE_CONST)
          [] OTHER -> ran.out = plain

(* An access stays inside an object of the right kind, and none that would *)
(* is refused.                                                             *)
Width == IF ran.op \in {"vector", "procedure", "vector-like"} THEN 4 ELSE 1
OfKind ==
  CASE ran.op = "vector" -> HasHeader(ran.a, VEC_TAG, "vector") [] ran.op = "procedure" -> Tag(ran.a) = PROC_TAG
    [] ran.op = "vector-like" -> Tag(ran.a) = VEC_TAG [] ran.op = "string" -> HasHeader(ran.a, BVEC_TAG, "string")
    [] ran.op = "bytevector" -> HasHeader(ran.a, BVEC_TAG, "bytevector")
    [] ran.op = "bytevector-like" -> Tag(ran.a) = BVEC_TAG
AccessInside ==
  ran # <<>> =>
    /\ ran.op \in {"vector", "procedure", "vector-like", "string", "bytevector", "bytevector-like"} =>
         ran.out = IF /\ OfKind /\ IsFixnum(ran.b)
                      /\ 0 <= IntegerOf(ran.b) /\ Width * (IntegerOf(ran.b) + 1) <= Heap[ran.a].size
                   THEN Slot(Width * IntegerOf(ran.b)) ELSE Raise
    /\ ran.op \in {"string-set!", "bytevector-set!"} /\ ran.out.kind = "slot" =>
         /\ ran.out.v < Heap[ran.a].size
         /\ IF ran.op = "string-set!" THEN IsChar(ran.c) ELSE IntegerOf(ran.c) \in 0 .. ByteLimit - 1

(* Characters are the scalar values: integer->char takes no surrogate and  *)
(* nothing above the limit, and char->integer undoes it.                   *)
CharsAreScalars ==
  ran # <<>> /\ ran.op = "integer->char" =>
    /\ ran.out.kind = "value" <=>
         /\ IsFixnum(ran.a) /\ IntegerOf(ran.a) \in 0 .. CharLimit - 1
         /\ IntegerOf(ran.a) \notin SurrogateFirst .. SurrogateLast
    /\ ran.out.kind = "value" => IsChar(ran.out.v) /\ CharToInteger(ran.out.v) = Value(ran.a)

(* UserManual, fixnums, fx--: "Returns the fixnum negative of its          *)
(* argument.  If the result is not representable as a fixnum, then an      *)
(* error is signalled."                                                    *)
NegativeExact ==
  ran # <<>> /\ ran.op = "fx--" /\ IsFixnum(ran.a) =>
    ran.out = IF IsRepresentable(-IntegerOf(ran.a)) THEN Value(Fix(-IntegerOf(ran.a))) ELSE Raise

(* The arithmetic, comparisons and accesses of petit-instr.h give what     *)
(* their operands stand for, or trap.                                      *)
PrimitivesExact ==
  /\ PrimitivesTypeOK /\ FixnumsExact /\ FusedAgrees /\ AccessInside
  /\ CharsAreScalars
===============================================================================
