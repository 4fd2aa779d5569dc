--------------------------- MODULE SioLtoaProofs ---------------------------
(***************************************************************************)
(* Proofs about SioLtoa for every width of a long and every radix: the     *)
(* text is the number, the loops end, and only LONG_MIN overflows.         *)
(*                                                                         *)
(* The value of a text is defined by recursion on it.  What the recursion  *)
(* gives is shown by induction: a set of numbers for which a claim fails   *)
(* has a least element (LeastNumber), and there is none.                   *)
(***************************************************************************)
EXTENDS SioLtoa, WellFoundedInduction, TLAPS

(* Induction over the naturals, as a fact about sets.                      *)
LEMMA LeastNumber ==
  ASSUME NEW T, T \subseteq Nat, T # {}
  PROVE  \E x \in T : \A y \in T : x <= y
<1> DEFINE R == OpToRel(<, Nat)
<1>1. IsWellFoundedOn(R, Nat)
  BY NatLessThanWellFounded
<1>2. R = {s \in Nat \X Nat : s[1] < s[2]}
  BY DEF OpToRel
<1> HIDE DEF R
<1>3. PICK x \in T : \A y \in T : <<y, x>> \notin R
  BY <1>1, WFMin
<1> QED
  <2> SUFFICES ASSUME NEW y \in T PROVE x <= y
    OBVIOUS
  <2>1. ~(y < x)
    <3> SUFFICES ASSUME y < x PROVE <<y, x>> \in R
      BY <1>3
    <3>1. <<y, x>> \in Nat \X Nat /\ <<y, x>>[1] < <<y, x>>[2]
      OBVIOUS
    <3> QED
      BY <1>2, <3>1
  <2> QED
    BY <2>1

-----------------------------------------------------------------------------
(* f[i] is the value of the first i digits of s, for i up to k.            *)
Horner(f, s, n, k) ==
  f = [i \in 0 .. k |-> IF i = 0 THEN 0 ELSE f[i - 1] * n + s[i]]

(* There is such a function: each value follows from the one before.      *)
LEMMA HornerExists ==
  ASSUME NEW s \in Seq(Nat), NEW n \in Nat
  PROVE  \A k \in 0 .. Len(s) : \E f : Horner(f, s, n, k)
<1> DEFINE T == {k \in 0 .. Len(s) : ~ \E f : Horner(f, s, n, k)}
<1> SUFFICES ASSUME T # {} PROVE FALSE
  OBVIOUS
<1>1. PICK k \in T : \A j \in T : k <= j
  <2>1. T \subseteq Nat
    OBVIOUS
  <2> HIDE DEF T
  <2> QED
    BY <2>1, LeastNumber
<1>2. CASE k = 0
  <2>1. Horner([i \in 0 .. 0 |-> 0], s, n, 0)
    BY DEF Horner
  <2> QED
    BY <1>1, <1>2, <2>1
<1>3. CASE k # 0
  <2>1. k - 1 \in 0 .. Len(s) /\ k - 1 \notin T
    <3>1. k \in 0 .. Len(s)
      BY <1>1
    <3> HIDE DEF T
    <3> QED
      BY <1>1, <1>3, <3>1
  <2>2. PICK f : Horner(f, s, n, k - 1)
    BY <2>1
  <2> DEFINE g == [i \in 0 .. k |-> IF i = k THEN f[k - 1] * n + s[k] ELSE f[i]]
  <2>3. \A i \in 0 .. k - 1 : g[i] = f[i]
    BY <1>1
  <2>4. ASSUME NEW i \in 0 .. k
        PROVE  g[i] = IF i = 0 THEN 0 ELSE g[i - 1] * n + s[i]
    <3>1. CASE i = k
      BY <1>3, <2>3, <3>1
    <3>2. CASE i # k
      <4>1. i \in 0 .. k - 1 /\ g[i] = f[i]
        BY <2>3, <3>2
      <4>2. f[i] = IF i = 0 THEN 0 ELSE f[i - 1] * n + s[i]
        BY <2>2, <4>1 DEF Horner
      <4>3. i # 0 => g[i - 1] = f[i - 1]
        BY <2>3, <4>1
      <4> QED
        BY <4>1, <4>2, <4>3
    <3> QED
      BY <3>1, <3>2
  <2>5. Horner(g, s, n, k)
    <3>1. g = [i \in 0 .. k |-> g[i]]
      OBVIOUS
    <3> HIDE DEF g
    <3> QED
      BY <2>4, <3>1 DEF Horner
  <2> QED
    BY <1>1, <2>5
<1> QED
  BY <1>2, <1>3

(* It gives naturals, and the same ones for any text that goes on from s.  *)
LEMMA HornerValues ==
  ASSUME NEW s \in Seq(Nat), NEW n \in Nat, NEW t \in Seq(Nat),
         NEW f, Horner(f, s, n, Len(s)), NEW g, Horner(g, t, n, Len(t)),
         Len(s) <= Len(t), \A i \in 1 .. Len(s) : s[i] = t[i]
  PROVE  \A i \in 0 .. Len(s) : f[i] = g[i] /\ f[i] \in Nat
<1> DEFINE T == {i \in 0 .. Len(s) : ~(f[i] = g[i] /\ f[i] \in Nat)}
<1> SUFFICES ASSUME T # {} PROVE FALSE
  OBVIOUS
<1>1. PICK k \in T : \A j \in T : k <= j
  <2>1. T \subseteq Nat
    OBVIOUS
  <2> HIDE DEF T
  <2> QED
    BY <2>1, LeastNumber
<1>2. k \in 0 .. Len(s) /\ k \in 0 .. Len(t)
  BY <1>1
<1>3. /\ f[k] = IF k = 0 THEN 0 ELSE f[k - 1] * n + s[k]
      /\ g[k] = IF k = 0 THEN 0 ELSE g[k - 1] * n + t[k]
  BY <1>2 DEF Horner
<1>4. CASE k = 0
  BY <1>1, <1>3, <1>4
<1>5. CASE k # 0
  <2>1. k - 1 \in 0 .. Len(s) /\ k - 1 \notin T
    BY <1>1, <1>5
  <2>2. f[k - 1] = g[k - 1] /\ f[k - 1] \in Nat
    BY <2>1
  <2>3. s[k] = t[k] /\ s[k] \in Nat
    BY <1>2, <1>5
  <2>4. \A a, b, c \in Nat : a * b + c \in Nat
    OBVIOUS
  <2> QED
    BY <1>1, <1>3, <1>5, <2>2, <2>3, <2>4
<1> QED
  BY <1>4, <1>5

(* So the recursive definition in SioLtoa defines it.                      *)
LEMMA ValueIsHorner ==
  ASSUME NEW s \in Seq(Nat), NEW n \in Nat
  PROVE  Horner(ValueUpTo(s, n), s, n, Len(s))
<1>1. \E f : Horner(f, s, n, Len(s))
  BY HornerExists
<1>2. ValueUpTo(s, n) = CHOOSE f : Horner(f, s, n, Len(s))
  BY DEF ValueUpTo, Horner
<1> QED
  BY <1>1, <1>2

(* The equations of ValueOf, which all proofs below use.                   *)
LEMMA ValueOfEmpty ==
  ASSUME NEW n \in Nat
  PROVE  ValueOf(<<>>, n) = 0
<1>1. <<>> \in Seq(Nat) /\ Len(<<>>) = 0
  OBVIOUS
<1>2. Horner(ValueUpTo(<<>>, n), <<>>, n, 0)
  BY <1>1, ValueIsHorner
<1> QED
  BY <1>1, <1>2 DEF Horner, ValueOf

LEMMA ValueOfAppend ==
  ASSUME NEW s \in Seq(Nat), NEW n \in Nat, NEW d \in Nat
  PROVE  /\ ValueOf(s, n) \in Nat
         /\ ValueOf(Append(s, d), n) = ValueOf(s, n) * n + d
<1> DEFINE t == Append(s, d)
           f == ValueUpTo(s, n)
           g == ValueUpTo(t, n)
<1>1. t \in Seq(Nat) /\ Len(t) = Len(s) + 1 /\ \A i \in 1 .. Len(s) : s[i] = t[i]
  OBVIOUS
<1>2. t[Len(t)] = d
  OBVIOUS
<1>3. Horner(f, s, n, Len(s)) /\ Horner(g, t, n, Len(t))
  BY <1>1, ValueIsHorner
<1> HIDE DEF f, g, t
<1>4. \A i \in 0 .. Len(s) : f[i] = g[i] /\ f[i] \in Nat
  BY <1>1, <1>3, HornerValues
<1>5. g[Len(t)] = g[Len(s)] * n + d
  BY <1>1, <1>2, <1>3 DEF Horner
<1>6. f[Len(s)] = g[Len(s)] /\ f[Len(s)] \in Nat
  BY <1>4
<1> QED
  BY <1>5, <1>6 DEF ValueOf, f, g, t

LEMMA ValueOfNat ==
  ASSUME NEW s \in Seq(Nat), NEW n \in Nat
  PROVE  ValueOf(s, n) \in Nat
BY 0 \in Nat, ValueOfAppend

-----------------------------------------------------------------------------
(* b is a power of n: it is in every set that holds 1 and, with each x,    *)
(* x * n.                                                                  *)
IsPower(b, n) ==
  \A S \in SUBSET Nat :
    1 \in S /\ (\A x \in S : x * n \in S) => b \in S

(* base *= n                                                               *)
LEMMA PowerStep ==
  ASSUME NEW n \in Nat, NEW b \in Nat, IsPower(b, n)
  PROVE  IsPower(b * n, n)
<1> SUFFICES ASSUME NEW S \in SUBSET Nat, 1 \in S, \A x \in S : x * n \in S
             PROVE  b * n \in S
  BY DEF IsPower
<1> QED
  BY DEF IsPower

(* A power other than 1 is n times a power: sio_ltoa() divides it exactly. *)
LEMMA PowerDivides ==
  ASSUME NEW n \in Nat, NEW b \in Nat, IsPower(b, n), b # 1
  PROVE  \E c \in Nat : IsPower(c, n) /\ b = c * n
<1> DEFINE Quot(x) == \E c \in Nat : IsPower(c, n) /\ x = c * n
           S == {x \in Nat : IsPower(x, n) /\ (x = 1 \/ Quot(x))}
<1>1. 1 \in S
  BY DEF IsPower
<1>2. ASSUME NEW x \in S PROVE x * n \in S
  <2>1. x \in Nat /\ IsPower(x, n)
    OBVIOUS
  <2>2. x * n \in Nat /\ IsPower(x * n, n)
    BY <2>1, PowerStep
  <2>3. Quot(x * n)
    BY <2>1
  <2> QED
    BY <2>2, <2>3
<1>3. S \in SUBSET Nat
  OBVIOUS
<1> HIDE DEF S
<1>4. b \in S
  BY <1>1, <1>2, <1>3 DEF IsPower
<1> QED
  BY <1>4 DEF S

(* One digit: what is left of the number is divided by c * n, and the rest *)
(* is less than that.                                                      *)
LEMMA DigitArithmetic ==
  ASSUME NEW w \in Nat, NEW u \in Nat, NEW n \in Nat, NEW b \in Nat \ {0},
         u < b * n
  PROVE  /\ u \div b \in 0 .. n - 1
         /\ u % b \in 0 .. b - 1
         /\ u = b * (u \div b) + (u % b)
         /\ w * (b * n) + u = (w * n + (u \div b)) * b + (u % b)
<1> DEFINE q == u \div b
           r == u % b
<1>1. q \in Nat /\ r \in 0 .. b - 1 /\ u = b * q + r
  OBVIOUS
<1> HIDE DEF q, r
<1>2. q < n
  <2> SUFFICES ASSUME n <= q PROVE FALSE
    BY <1>1
  <2>1. q - n \in Nat /\ b * (q - n) \in Nat
    BY <1>1
  <2>2. b * q = b * n + b * (q - n)
    BY <1>1
  <2> QED
    BY <1>1, <2>1, <2>2
<1>3. (w * n + q) * b = w * (b * n) + b * q
  <2>1. w * n \in Nat /\ (w * n + q) * b = (w * n) * b + q * b
    BY <1>1
  <2>2. (w * n) * b = w * (b * n) /\ q * b = b * q
    BY <1>1
  <2> QED
    BY <2>1, <2>2
<1>4. w * (b * n) \in Nat /\ b * q \in Nat
  BY <1>1
<1>5. w * (b * n) + u = (w * n + q) * b + r
  BY <1>1, <1>3, <1>4
<1> QED
  BY <1>1, <1>2, <1>5 DEF q, r

-----------------------------------------------------------------------------
(* A quotient of at least n leaves room for n times the divisor.           *)
LEMMA QuotientBound ==
  ASSUME NEW a \in Nat, NEW b \in Nat \ {0}, NEW n \in Nat, a \div b >= n
  PROVE  b * n <= a
<1>1. a = b * (a \div b) + (a % b) /\ a % b \in Nat /\ a \div b \in Nat
  OBVIOUS
<1> DEFINE q == a \div b
<1>2. q \in Nat /\ q - n \in Nat /\ a = b * q + (a % b)
  BY <1>1
<1> HIDE DEF q
<1>3. b * (q - n) \in Nat /\ b * q = b * n + b * (q - n)
  BY <1>2
<1> QED
  BY <1>1, <1>2, <1>3

(* What sio_ltoa() works on until it writes digits: -|v| and a power of n  *)
(* that a long can hold.                                                   *)
GrowInv ==
  /\ stage \in LtoaStage
  /\ stage = "grow" =>
       /\ arg \in Long /\ radix \in 2 .. 16
       /\ v = (IF arg < 0 THEN arg ELSE -arg)
       /\ base \in 1 .. LongMax

OverflowInv == GrowInv /\ OverflowOnlyAtLongMin

(* base *= n is done only when the product is no more than |v|.            *)
LEMMA ProductBound ==
  ASSUME GrowInv, stage = "grow", Grows
  PROVE  base * radix \in 1 .. LongMax + 1 /\ base * radix <= -v
<1>1. /\ v \in Int /\ v <= 0 /\ -v \in 0 .. LongMax + 1 /\ -v \in Nat
      /\ base \in Nat \ {0} /\ ~(base < 0) /\ radix \in Nat /\ radix >= 2
  BY LongAssumption DEF GrowInv, Long
<1>2. v < 0
  <2> SUFFICES ASSUME v = 0 PROVE FALSE
    BY <1>1
  <2>1. Quotient(v, base) = 0
    BY <1>1 DEF Quotient
  <2> QED
    BY <1>1, <2>1 DEF Grows
<1>3. Quotient(v, base) = -((-v) \div base)
  BY <1>1, <1>2 DEF Quotient
<1>4. (-v) \div base >= radix
  <2>1. (-v) \div base \in Int
    BY <1>1
  <2> QED
    BY <1>1, <1>3, <2>1 DEF Grows
<1>5. base * radix <= -v
  BY <1>1, <1>4, QuotientBound
<1>6. base * radix \in Nat \ {0}
  BY <1>1
<1> QED
  BY <1>1, <1>5, <1>6, LongAssumption

(* The invariant is inductive.                                             *)
LEMMA OverflowStep == OverflowInv /\ [LtoaNext]_ltoaVars => OverflowInv'
<1> SUFFICES ASSUME OverflowInv, [LtoaNext]_ltoaVars PROVE OverflowInv'
  OBVIOUS
<1> USE LongAssumption
<1>1. CASE UNCHANGED ltoaVars
  BY <1>1 DEF ltoaVars, OverflowInv, GrowInv, OverflowOnlyAtLongMin
<1>2. ASSUME NEW a \in Long, NEW n \in Radix, Putl(a, n) PROVE OverflowInv'
  <2>1. n \in 2 .. 16 /\ 1 \in 1 .. LongMax
    OBVIOUS
  <2> QED
    BY <1>2, <2>1 DEF Putl, OverflowInv, GrowInv, OverflowOnlyAtLongMin, LtoaStage
<1>3. CASE Grow
  <2>1. base * radix \in 1 .. LongMax + 1 /\ base * radix <= -v
    BY <1>3, ProductBound DEF Grow, OverflowInv
  <2>2. arg \in Long /\ v = (IF arg < 0 THEN arg ELSE -arg)
    BY <1>3 DEF Grow, OverflowInv, GrowInv
  <2> DEFINE product == base * radix
  <2>3. CASE product \in Long
    <3>1. base' = product /\ product \in 1 .. LongMax
      BY <1>3, <2>1, <2>3 DEF Grow, Long
    <3> HIDE DEF product
    <3>2. /\ stage = "grow" /\ stage' = "grow"
          /\ arg' = arg /\ radix' = radix /\ v' = v
      BY <1>3, <2>3 DEF Grow, product
    <3>3. base' \in 1 .. LongMax
      BY <3>1
    <3> QED
      BY <3>2, <3>3 DEF OverflowInv, GrowInv, OverflowOnlyAtLongMin
  <2>4. CASE product \notin Long
    <3>1. product = LongMax + 1 /\ arg = -LongMax - 1
      <4>1. product \in 1 .. LongMax + 1 /\ product <= -v
        BY <2>1
      <4> HIDE DEF product
      <4> QED
        BY <2>2, <2>4, <4>1 DEF Long
    <3>2. stage' = "overflow" /\ base' = base /\ arg' = arg /\ radix' = radix
      BY <1>3, <2>4 DEF Grow
    <3> QED
      BY <3>1, <3>2 DEF OverflowInv, GrowInv, OverflowOnlyAtLongMin, LtoaStage
  <2> QED
    BY <2>3, <2>4
<1>4. CASE Grown \/ Digit \/ LastDigit \/ (\E k \in 0 .. Len(text) : Puts(k)) \/ PutsFails
  BY <1>4 DEF Grown, Digit, LastDigit, Puts, PutsFails, OverflowInv, GrowInv,
     OverflowOnlyAtLongMin, LtoaStage
<1> QED
  BY <1>1, <1>2, <1>3, <1>4 DEF LtoaNext

(* Only LONG_MIN can overflow, whatever the width of a long.               *)
THEOREM OnlyLongMinOverflows == LtoaSpec => []OverflowOnlyAtLongMin
<1>1. LtoaInit => OverflowInv
  BY DEF LtoaInit, OverflowInv, GrowInv, OverflowOnlyAtLongMin, LtoaStage
<1>2. OverflowInv => OverflowOnlyAtLongMin
  BY DEF OverflowInv
<1> QED
  BY <1>1, <1>2, OverflowStep, PTL DEF LtoaSpec
-----------------------------------------------------------------------------
(* Between the calls of sio_ltoa(): the digits so far, times what base     *)
(* stands for, and the rest in v make the number.                          *)
TextInv ==
  /\ text \in Seq(Int)
  /\ stage # "idle" => arg \in Long /\ radix \in 2 .. 16
  /\ stage # "idle" /\ arg < 0 => text # <<>> /\ text[1] = Minus
  /\ Digits \in Seq(Nat)
  /\ \A i \in 1 .. Len(Digits) : Digits[i] \in 0 .. radix - 1
  /\ stage \in {"idle", "grow", "digit", "puts"} => put = 0

BaseInv ==
  stage \in {"grow", "digit"} =>
    /\ v \in Int /\ -v \in Nat /\ base \in Nat \ {0}
    /\ IsPower(base, radix)
    /\ Digits = <<>> => -v = Magnitude /\ (base = 1 \/ base <= -v)

RestInv ==
  /\ stage = "grow" => Digits = <<>>
  /\ stage = "digit" =>
       /\ -v < base * radix
       /\ Magnitude = ValueOf(Digits, radix) * (base * radix) + (-v)
       /\ Digits # <<>> => Digits[1] # 0

DigitInv == TextInv /\ BaseInv /\ RestInv /\ DigitsAreRight

(* A digit put behind the text is one behind the digits.                   *)
LEMMA AppendDigit ==
  ASSUME TextInv, stage = "digit", NEW d \in 0 .. radix - 1,
         text' = Append(text, d), arg' = arg, radix' = radix
  PROVE  /\ text' \in Seq(Int)
         /\ arg < 0 => text' # <<>> /\ text'[1] = Minus
         /\ Digits' = Append(Digits, d)
         /\ Digits' \in Seq(Nat) /\ Digits' # <<>>
         /\ Len(Digits') = Len(Digits) + 1
         /\ Digits'[1] = IF Digits = <<>> THEN d ELSE Digits[1]
         /\ \A i \in 1 .. Len(Digits') : Digits'[i] \in 0 .. radix - 1
<1>1. d \in Nat /\ d \in Int /\ text \in Seq(Int) /\ Digits \in Seq(Nat)
  BY DEF TextInv
<1>2. text' \in Seq(Int)
  BY <1>1
<1>3. arg < 0 => text # <<>> /\ text[1] = Minus
  BY DEF TextInv
<1>4. arg < 0 => text' # <<>> /\ text'[1] = Minus
  <2> SUFFICES ASSUME arg < 0 PROVE text' # <<>> /\ text'[1] = Minus
    OBVIOUS
  <2>1. Len(text') = Len(text) + 1 /\ Len(text) \in Nat
    BY <1>1
  <2>2. 1 \in 1 .. Len(text)
    BY <1>1, <1>3
  <2>3. text'[1] = text[1]
    BY <1>1, <2>2
  <2> QED
    BY <1>3, <2>1, <2>3
<1>5. Digits' = Append(Digits, d)
  <2>1. CASE arg < 0
    <3>1. Tail(Append(text, d)) = Append(Tail(text), d)
      BY <1>1, <1>3, <2>1
    <3> QED
      BY <2>1, <3>1 DEF Digits
  <2>2. CASE ~(arg < 0)
    BY <2>2 DEF Digits
  <2> QED
    BY <2>1, <2>2
<1> DEFINE s == Digits
<1>6. s \in Seq(Nat) /\ \A i \in 1 .. Len(s) : s[i] \in 0 .. radix - 1
  BY DEF TextInv
<1> HIDE DEF s
<1>7. /\ Append(s, d) \in Seq(Nat) /\ Append(s, d) # <<>>
      /\ Len(Append(s, d)) = Len(s) + 1
      /\ Append(s, d)[1] = IF s = <<>> THEN d ELSE s[1]
  <2>1. /\ Append(s, d) \in Seq(Nat) /\ Append(s, d) # <<>>
        /\ Len(Append(s, d)) = Len(s) + 1
    <3>1. s \in Seq(Nat) /\ d \in Nat
      BY <1>1, <1>6
    <3>2. Append(s, d) \in Seq(Nat) /\ Len(Append(s, d)) = Len(s) + 1
      BY <3>1
    <3>3. Len(s) + 1 # 0
      BY <3>1
    <3> QED
      BY <3>2, <3>3
  <2>2. CASE s = <<>>
    BY <2>1, <2>2
  <2>3. CASE s # <<>>
    <3>1. 1 \in 1 .. Len(s)
      BY <1>6, <2>3
    <3> QED
      BY <1>1, <1>6, <2>1, <2>3, <3>1
  <2> QED
    BY <2>1, <2>2, <2>3
<1>8. ASSUME NEW i \in 1 .. Len(Append(s, d)) PROVE Append(s, d)[i] \in 0 .. radix - 1
  <2>1. CASE i = Len(s) + 1
    BY <1>1, <1>6, <2>1
  <2>2. CASE i # Len(s) + 1
    <3>1. i \in 1 .. Len(s) /\ Append(s, d)[i] = s[i]
      BY <1>1, <1>6, <1>7, <2>2
    <3> QED
      BY <1>6, <3>1
  <2> QED
    BY <2>1, <2>2
<1> QED
  BY <1>2, <1>4, <1>5, <1>7, <1>8 DEF s

(* v / -base and v % base for v <= 0 < base, with C's rounding.            *)
LEMMA NegativeDivision ==
  ASSUME NEW x \in Int, NEW b \in Nat \ {0}, -x \in Nat
  PROVE  /\ Quotient(x, -b) = (-x) \div b
         /\ -Rest(x, b) = (-x) - b * ((-x) \div b)
         /\ Rest(x, b) \in Int
<1> DEFINE q == (-x) \div b
<1>1. q \in Nat
  OBVIOUS
<1>2. x = 0 => q = 0
  OBVIOUS
<1>3. Quotient(x, -b) = q
  BY <1>1, <1>2 DEF Quotient
<1>4. Quotient(x, b) = -q
  BY <1>1, <1>2 DEF Quotient
<1> HIDE DEF q
<1>5. Rest(x, b) = x - b * (-q)
  BY <1>4 DEF Rest
<1>6. b * (-q) = -(b * q) /\ b * q \in Nat
  BY <1>1
<1>7. -Rest(x, b) = (-x) - b * q /\ Rest(x, b) \in Int
  BY <1>5, <1>6
<1> QED
  BY <1>3, <1>7 DEF q

(* What each step does to the text, one lemma per step: Putl() begins.     *)
LEMMA PutlText ==
  ASSUME DigitInv, NEW a \in Long, NEW n \in Radix, Putl(a, n)
  PROVE  DigitInv'
<1>1. /\ a \in Int /\ n \in 2 .. 16 /\ stage' = "grow" /\ arg' = a /\ radix' = n
      /\ text' = (IF a < 0 THEN <<Minus>> ELSE <<>>)
      /\ v' = (IF a < 0 THEN a ELSE -a) /\ base' = 1 /\ put' = 0
  BY LongAssumption DEF Putl, Long, DigitInv, TextInv
<1>2. Digits' = <<>>
  BY <1>1 DEF Digits
<1>3. text' \in Seq(Int)
  BY <1>1 DEF Minus
<1>4. TextInv'
  BY <1>1, <1>2, <1>3 DEF TextInv, Minus
<1>5. IsPower(1, n)
  BY DEF IsPower
<1>6. BaseInv'
  BY <1>1, <1>2, <1>5 DEF BaseInv, Magnitude
<1> QED
  BY <1>1, <1>2, <1>4, <1>6 DEF DigitInv, RestInv, DigitsAreRight

(* base grows by a factor of n, and stays at most |v|.                     *)
LEMMA GrowText ==
  ASSUME DigitInv, GrowInv, Grow
  PROVE  DigitInv'
<1>1. base * radix <= -v /\ base * radix \in 1 .. LongMax + 1
  BY ProductBound DEF Grow
<1>2. /\ stage = "grow" /\ stage' \in {"grow", "overflow"}
      /\ arg' = arg /\ radix' = radix /\ text' = text /\ put' = put /\ v' = v
      /\ stage' = "grow" => base' = base * radix
  BY DEF Grow
<1>3. Digits' = Digits /\ Magnitude' = Magnitude
  BY <1>2 DEF Digits, Magnitude
<1>4. TextInv'
  BY <1>2, <1>3 DEF DigitInv, TextInv
<1>5. BaseInv'
  <2>1. /\ v \in Int /\ -v \in Nat /\ base \in Nat \ {0} /\ radix \in Nat
        /\ IsPower(base, radix)
        /\ Digits = <<>> => -v = Magnitude /\ (base = 1 \/ base <= -v)
    <3>1. radix \in 2 .. 16
      BY <1>2 DEF DigitInv, TextInv
    <3>2. BaseInv /\ stage \in {"grow", "digit"}
      BY <1>2 DEF DigitInv
    <3> QED
      BY <3>1, <3>2 DEF BaseInv
  <2> DEFINE product == base * radix
  <2>2. IsPower(product, radix) /\ product \in Nat \ {0} /\ product <= -v
    BY <1>1, <2>1, LongAssumption, PowerStep
  <2>3. stage' = "grow" => base' = product
    BY <1>2
  <2> HIDE DEF product
  <2> QED
    BY <1>2, <1>3, <2>1, <2>2, <2>3 DEF BaseInv
<1> QED
  BY <1>2, <1>3, <1>4, <1>5 DEF DigitInv, RestInv, DigitsAreRight

(* The loop ends when v is less than n times base.                         *)
LEMMA GrownText ==
  ASSUME DigitInv, Grown
  PROVE  DigitInv'
<1>1. /\ stage = "grow" /\ stage' = "digit" /\ ~Grows
      /\ arg' = arg /\ radix' = radix /\ text' = text /\ put' = put
      /\ v' = v /\ base' = base
  BY DEF Grown
<1>2. Digits' = Digits /\ Magnitude' = Magnitude /\ Digits = <<>>
  BY <1>1 DEF Digits, Magnitude, DigitInv, RestInv
<1>3. /\ v \in Int /\ -v \in Nat /\ base \in Nat \ {0} /\ radix \in 2 .. 16
      /\ -v = Magnitude
  BY <1>1, <1>2 DEF DigitInv, BaseInv, TextInv
<1>4. -v < base * radix
  <2> DEFINE q == (-v) \div base
  <2>1. q \in Nat /\ -v = base * q + ((-v) % base) /\ (-v) % base \in 0 .. base - 1
    BY <1>3
  <2>2. Quotient(v, base) = -q
    <3>1. v = 0 => q = 0
      BY <1>3
    <3> QED
      BY <1>3, <2>1, <3>1 DEF Quotient
  <2> HIDE DEF q
  <2>3. q + 1 <= radix
    BY <1>1, <1>3, <2>1, <2>2 DEF Grows
  <2>4. base * (radix - (q + 1)) \in Nat
    BY <1>3, <2>1, <2>3
  <2>5. base * radix = base * q + base + base * (radix - (q + 1))
    BY <1>3, <2>1, <2>3
  <2> QED
    BY <1>3, <2>1, <2>4, <2>5
<1>5. ValueOf(Digits, radix) = 0
  BY <1>2, <1>3, ValueOfEmpty
<1>6. base * radix \in Nat
  BY <1>3
<1>7. Magnitude = ValueOf(Digits, radix) * (base * radix) + (-v)
  BY <1>3, <1>5, <1>6
<1>8. TextInv' /\ BaseInv'
  BY <1>1, <1>2 DEF DigitInv, TextInv, BaseInv
<1>9. ValueOf(Digits, radix)' = ValueOf(Digits, radix)
  BY <1>1, <1>2
<1> QED
  BY <1>1, <1>2, <1>4, <1>7, <1>8, <1>9 DEF DigitInv, RestInv, DigitsAreRight

(* *s++ = v / -base; v %= base; base /= n                                  *)
LEMMA DigitText ==
  ASSUME DigitInv, Digit
  PROVE  DigitInv'
<1> DEFINE u == -v
           d == u \div base
           w == ValueOf(Digits, radix)
<1>1. /\ stage = "digit" /\ stage' = "digit" /\ base # 1
      /\ arg' = arg /\ radix' = radix /\ put' = put
      /\ text' = Append(text, Quotient(v, -base))
      /\ v' = Rest(v, base) /\ base' = Quotient(base, radix)
  BY DEF Digit
<1>2. /\ v \in Int /\ u \in Nat /\ base \in Nat \ {0} /\ radix \in 2 .. 16
      /\ IsPower(base, radix) /\ u < base * radix
      /\ Magnitude = w * (base * radix) + u
      /\ Digits = <<>> => u = Magnitude /\ (base = 1 \/ base <= u)
      /\ Digits # <<>> => Digits[1] # 0
      /\ Digits \in Seq(Nat)
  BY <1>1 DEF DigitInv, BaseInv, RestInv, TextInv
<1>3. PICK c \in Nat : IsPower(c, radix) /\ base = c * radix
  BY <1>1, <1>2, PowerDivides
<1>4. c # 0 /\ Quotient(base, radix) = c
  <2>1. c # 0
    BY <1>2, <1>3
  <2>2. (c * radix) \div radix = c
    BY <1>2, <1>3
  <2> QED
    BY <1>2, <1>3, <2>1, <2>2 DEF Quotient
<1>5. Quotient(v, -base) = d /\ -Rest(v, base) = u - base * d /\ Rest(v, base) \in Int
  BY <1>2, NegativeDivision
<1>6. /\ w \in Nat
      /\ ValueOf(Append(Digits, d), radix) = w * radix + d
      /\ d \in 0 .. radix - 1 /\ u % base \in 0 .. base - 1
      /\ u = base * d + (u % base)
      /\ w * (base * radix) + u = (w * radix + d) * base + (u % base)
  <2> radix \in Nat
    BY <1>2
  <2>1. w \in Nat
    BY <1>2, ValueOfNat
  <2>2. /\ d \in 0 .. radix - 1 /\ u % base \in 0 .. base - 1
        /\ u = base * d + (u % base)
        /\ w * (base * radix) + u = (w * radix + d) * base + (u % base)
    <3>1. u \in Nat /\ base \in Nat \ {0} /\ u < base * radix
      BY <1>2
    <3> HIDE DEF u, w
    <3> QED
      BY <2>1, <3>1, DigitArithmetic
  <2>3. ValueOf(Append(Digits, d), radix) = w * radix + d
    <3>1. d \in Nat /\ Digits \in Seq(Nat)
      BY <1>2, <2>2
    <3> HIDE DEF d
    <3> QED
      BY <3>1, ValueOfAppend
  <2> QED
    BY <2>1, <2>2, <2>3
<1>7. text' = Append(text, d) /\ base' = c /\ TextInv
  BY <1>1, <1>4, <1>5 DEF DigitInv
<1> HIDE DEF d, w
<1>8. /\ text' \in Seq(Int)
      /\ arg < 0 => text' # <<>> /\ text'[1] = Minus
      /\ Digits' = Append(Digits, d)
      /\ Digits' \in Seq(Nat) /\ Digits' # <<>>
      /\ Digits'[1] = IF Digits = <<>> THEN d ELSE Digits[1]
      /\ \A i \in 1 .. Len(Digits') : Digits'[i] \in 0 .. radix - 1
  BY <1>1, <1>6, <1>7, AppendDigit
<1>9. -v' = u % base /\ v' \in Int /\ -v' \in Nat
  <2>1. u - base * d = u % base
    <3>1. base * d \in Int
      BY <1>2, <1>6
    <3> HIDE DEF u
    <3> QED
      BY <1>2, <1>6, <3>1
  <2> QED
    BY <1>1, <1>5, <1>6, <2>1
<1>10. Digits = <<>> => d # 0
  <2> SUFFICES ASSUME Digits = <<>>, d = 0 PROVE FALSE
    OBVIOUS
  <2>1. base <= u
    BY <1>1, <1>2
  <2>2. u = u % base
    BY <1>2, <1>6
  <2> HIDE DEF u
  <2> QED
    BY <1>2, <1>6, <2>1, <2>2
<1>11. TextInv'
  <2>1. put' = 0
    BY <1>1 DEF DigitInv, TextInv
  <2> QED
    BY <1>1, <1>8, <2>1 DEF DigitInv, TextInv
<1>12. BaseInv'
  BY <1>1, <1>3, <1>4, <1>7, <1>8, <1>9 DEF BaseInv
<1>13. RestInv'
  <2>1. Magnitude' = Magnitude
    BY <1>1 DEF Magnitude
  <2>2. ValueOf(Digits, radix)' = w * radix + d
    BY <1>1, <1>6, <1>8
  <2>3. base' * radix' = base
    BY <1>1, <1>3, <1>7
  <2>4. Magnitude = (w * radix + d) * base + (u % base)
    BY <1>2, <1>6 DEF w
  <2>5. -v' < base' * radix'
    <3>1. u % base < base
      BY <1>2
    <3> QED
      BY <1>9, <2>3, <3>1
  <2>6. Digits'[1] # 0
    BY <1>2, <1>8, <1>10
  <2>7. Magnitude' = ValueOf(Digits, radix)' * (base' * radix') + (-v')
    BY <1>9, <2>1, <2>2, <2>3, <2>4
  <2> QED
    BY <1>1, <2>5, <2>6, <2>7 DEF RestInv
<1> QED
  BY <1>1, <1>11, <1>12, <1>13 DEF DigitInv, DigitsAreRight

(* The digit at which base is 1.                                           *)
LEMMA LastDigitText ==
  ASSUME DigitInv, LastDigit
  PROVE  DigitInv'
<1> DEFINE u == -v
           w == ValueOf(Digits, radix)
<1>1. /\ stage = "digit" /\ stage' = "puts" /\ base = 1
      /\ arg' = arg /\ radix' = radix /\ put' = put
      /\ text' = Append(text, u)
  BY DEF LastDigit
<1>2. /\ v \in Int /\ u \in Nat /\ radix \in 2 .. 16
      /\ u < base * radix /\ Magnitude = w * (base * radix) + u
      /\ Digits = <<>> => u = Magnitude
      /\ Digits # <<>> => Digits[1] # 0
      /\ Digits \in Seq(Nat) /\ TextInv /\ put = 0 /\ arg \in Long
  BY <1>1 DEF DigitInv, BaseInv, RestInv, TextInv
<1>3. base * radix = radix /\ u \in 0 .. radix - 1
  BY <1>1, <1>2
<1>4. w \in Nat /\ ValueOf(Append(Digits, u), radix) = w * radix + u
  <2>1. u \in Nat /\ radix \in Nat /\ Digits \in Seq(Nat)
    BY <1>2
  <2> HIDE DEF u
  <2> QED
    BY <2>1, ValueOfNat, ValueOfAppend
<1> HIDE DEF u, w
<1>5. /\ text' \in Seq(Int)
      /\ arg < 0 => text' # <<>> /\ text'[1] = Minus
      /\ Digits' = Append(Digits, u)
      /\ Digits' \in Seq(Nat) /\ Digits' # <<>>
      /\ Len(Digits') = Len(Digits) + 1
      /\ Digits'[1] = IF Digits = <<>> THEN u ELSE Digits[1]
      /\ \A i \in 1 .. Len(Digits') : Digits'[i] \in 0 .. radix - 1
  BY <1>1, <1>2, <1>3, AppendDigit
<1>6. Magnitude' = Magnitude
  BY <1>1 DEF Magnitude
<1>7. ValueOf(Digits', radix') = Magnitude'
  BY <1>1, <1>2, <1>3, <1>4, <1>5, <1>6 DEF w
<1>8. Digits'[1] = 0 => arg' = 0 /\ Len(Digits') = 1
  <2> SUFFICES ASSUME Digits'[1] = 0 PROVE arg' = 0 /\ Len(Digits') = 1
    OBVIOUS
  <2>1. Digits = <<>> /\ u = 0 /\ Magnitude = 0
    BY <1>2, <1>5
  <2>2. Len(Digits) = 0
    BY <2>1
  <2>3. arg = 0
    BY <1>2, <2>1, LongAssumption DEF Magnitude, Long
  <2> QED
    BY <1>1, <1>5, <2>2, <2>3
<1>9. put' <= Len(text')
  BY <1>1, <1>2, <1>5
<1>10. TextInv' /\ BaseInv' /\ RestInv'
  BY <1>1, <1>2, <1>5 DEF TextInv, BaseInv, RestInv
<1>11. arg' < 0 => text'[1] = Minus
  BY <1>1, <1>5
<1>12. \A i \in 1 .. Len(Digits') : Digits'[i] \in 0 .. radix' - 1
  BY <1>1, <1>5
<1> QED
  BY <1>5, <1>7, <1>8, <1>9, <1>10, <1>11, <1>12 DEF DigitInv, DigitsAreRight

(* write() does nothing to the text.                                       *)
LEMMA PutsText ==
  ASSUME DigitInv, (\E k \in 0 .. Len(text) : Puts(k)) \/ PutsFails
  PROVE  DigitInv'
<1>1. /\ stage = "puts" /\ stage' \in {"done", "exit"}
      /\ arg' = arg /\ radix' = radix /\ text' = text
      /\ put' \in Int /\ put' <= Len(text)
  BY DEF Puts, PutsFails, DigitInv, TextInv
<1>2. Digits' = Digits /\ Magnitude' = Magnitude
  BY <1>1 DEF Digits, Magnitude
<1>3. ValueOf(Digits, radix)' = ValueOf(Digits, radix)
  BY <1>1, <1>2
<1> QED
  BY <1>1, <1>2, <1>3 DEF DigitInv, TextInv, BaseInv, RestInv, DigitsAreRight

(* The invariant is inductive.                                             *)
LEMMA DigitStep == DigitInv /\ GrowInv /\ [LtoaNext]_ltoaVars => DigitInv'
<1> SUFFICES ASSUME DigitInv, GrowInv, [LtoaNext]_ltoaVars PROVE DigitInv'
  OBVIOUS
<1>1. CASE UNCHANGED ltoaVars
  <2>1. Digits' = Digits /\ Magnitude' = Magnitude
        /\ ValueOf(Digits, radix)' = ValueOf(Digits, radix)
    BY <1>1 DEF ltoaVars, Digits, Magnitude
  <2> QED
    BY <1>1, <2>1
       DEF ltoaVars, DigitInv, TextInv, BaseInv, RestInv, DigitsAreRight
<1> QED
  BY <1>1, PutlText, GrowText, GrownText, DigitText, LastDigitText, PutsText
     DEF LtoaNext

(* The text of sio_ltoa() is the number, for every number of every width   *)
(* and in every radix.                                                     *)
THEOREM TextIsNumber == LtoaSpec => []DigitsAreRight
<1>1. LtoaInit => DigitInv /\ OverflowInv
  BY DEF LtoaInit, DigitInv, TextInv, BaseInv, RestInv, DigitsAreRight, Digits,
     OverflowInv, GrowInv, OverflowOnlyAtLongMin, LtoaStage
<1>2. DigitInv => DigitsAreRight
  BY DEF DigitInv
<1>3. OverflowInv => GrowInv
  BY DEF OverflowInv
<1> QED
  BY <1>1, <1>2, <1>3, OverflowStep, DigitStep, PTL DEF LtoaSpec

(* Both loops of sio_ltoa() end: each step lowers a natural number.  The   *)
(* second would not if base were no power of n, or 0 where it overflows.   *)
THEOREM ConversionEnds == LtoaSpec => LtoaAdvances
<1>1. ASSUME DigitInv, GrowInv, LtoaNext, stage # "idle"
      PROVE  LtoaRank \in Nat /\ LtoaRank' < LtoaRank
  <2>1. CASE Grow
    <3>1. base \in 1 .. LongMax /\ radix \in 2 .. 16 /\ stage = "grow"
      BY <1>1, <2>1 DEF Grow, GrowInv
    <3>2. LtoaRank = 2 * LongMax + 2 - base /\ LtoaRank \in Nat /\ LtoaRank > 0
      BY <3>1, LongAssumption DEF LtoaRank
    <3>3. CASE stage' = "grow"
      <4>1. base' = base * radix /\ base' \in Int /\ base < base'
        <5>1. base' = base * radix
          BY <2>1, <3>3 DEF Grow
        <5>2. base * radix = base + base * (radix - 1) /\ base * (radix - 1) >= 1
          BY <3>1
        <5> QED
          BY <3>1, <5>1, <5>2
      <4> QED
        BY <3>1, <3>2, <3>3, <4>1, LongAssumption DEF LtoaRank
    <3>4. CASE stage' # "grow"
      <4>1. stage' = "overflow"
        BY <2>1, <3>4 DEF Grow
      <4> QED
        BY <3>2, <4>1 DEF LtoaRank
    <3> QED
      BY <3>3, <3>4
  <2>2. CASE Grown
    <3>1. stage = "grow" /\ stage' = "digit" /\ base' = base
      BY <2>2 DEF Grown
    <3>2. base \in 1 .. LongMax
      BY <1>1, <3>1 DEF GrowInv
    <3> QED
      BY <3>1, <3>2, LongAssumption DEF LtoaRank
  <2>3. CASE Digit
    <3>1. /\ stage = "digit" /\ stage' = "digit" /\ base # 1
          /\ base' = Quotient(base, radix)
      BY <2>3 DEF Digit
    <3>2. base \in Nat \ {0} /\ IsPower(base, radix) /\ radix \in 2 .. 16
      BY <1>1, <3>1 DEF DigitInv, BaseInv, TextInv
    <3>3. PICK c \in Nat : base = c * radix
      <4>1. base \in Nat /\ radix \in Nat
        BY <3>2
      <4> QED
        BY <3>1, <3>2, <4>1, PowerDivides
    <3>4. Quotient(base, radix) = c
      <4>1. (c * radix) \div radix = c
        BY <3>2, <3>3
      <4> QED
        BY <3>2, <3>3, <4>1 DEF Quotient
    <3>5. c < base
      BY <3>2, <3>3
    <3> QED
      BY <3>1, <3>2, <3>4, <3>5 DEF LtoaRank
  <2>4. CASE LastDigit
    BY <2>4 DEF LastDigit, LtoaRank
  <2>5. CASE (\E k \in 0 .. Len(text) : Puts(k)) \/ PutsFails
    BY <2>5 DEF Puts, PutsFails, LtoaRank
  <2> QED
    BY <1>1, <2>1, <2>2, <2>3, <2>4, <2>5 DEF LtoaNext, Putl
<1>2. DigitInv /\ GrowInv /\ [LtoaNext]_ltoaVars
      => [stage # "idle" => LtoaRank \in Nat /\ LtoaRank' < LtoaRank]_ltoaVars
  BY <1>1
<1>3. LtoaInit => DigitInv /\ OverflowInv
  BY DEF LtoaInit, DigitInv, TextInv, BaseInv, RestInv, DigitsAreRight, Digits,
     OverflowInv, GrowInv, OverflowOnlyAtLongMin, LtoaStage
<1>4. OverflowInv => GrowInv
  BY DEF OverflowInv
<1> QED
  BY <1>2, <1>3, <1>4, OverflowStep, DigitStep, PTL DEF LtoaSpec, LtoaAdvances
=============================================================================
