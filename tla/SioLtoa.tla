------------------------------ MODULE SioLtoa ------------------------------
(***************************************************************************)
(* Sio_putl() of lib/unix_api.c, which signal handlers may call, and the   *)
(* conversion sio_ltoa() under it.  It works on -|v|, as LONG_MIN has no   *)
(* positive counterpart.  base *= n overflows a long for some v and n; what*)
(* happens then is undefined, and the model stops there.                   *)
(***************************************************************************)
EXTENDS Integers, Sequences

CONSTANTS
  LongMax,       \* LONG_MAX
  Radix          \* the n that callers pass

ASSUME LongAssumption == LongMax \in Nat \ {0} /\ Radix \subseteq 2 .. 16

Long == -LongMax - 1 .. LongMax

VARIABLES
  stage,         \* where Sio_putl() is
  arg, radix,    \* its argument, and the n of sio_ltoa()
  v, base,       \* locals of sio_ltoa()
  text,          \* s: a Minus and digits
  put            \* characters that write() has taken; -1: it failed

ltoaVars == <<stage, arg, radix, v, base, text, put>>

LtoaStage == {"idle", "grow", "digit", "puts", "done", "overflow", "exit"}
Minus == -1      \* '-'

(* / and % of C round towards zero.                                        *)
Quotient(a, b) ==
  LET q == (IF a < 0 THEN -a ELSE a) \div (IF b < 0 THEN -b ELSE b)
  IN  IF (a < 0) = (b < 0) THEN q ELSE -q
Rest(a, b) == a - b * Quotient(a, b)

(* while (v / base <= -n)                                                  *)
WrongGrows == Quotient(v, base) < -radix
EagerGrows == Quotient(v, base) < 0
Grows == Quotient(v, base) <= -radix

-----------------------------------------------------------------------------
Putl(a, n) ==
  /\ stage = "idle"
  /\ arg' = a /\ radix' = n
  /\ text' = IF a < 0 THEN <<Minus>> ELSE <<>>
  /\ v' = IF a < 0 THEN a ELSE -a
  /\ base' = 1
  /\ stage' = "grow"
  /\ UNCHANGED put

Grow ==
  /\ stage = "grow" /\ Grows
  /\ IF base * radix \in Long
     THEN base' = base * radix /\ UNCHANGED stage
     ELSE stage' = "overflow" /\ UNCHANGED base
  /\ UNCHANGED <<arg, radix, v, text, put>>

Grown ==
  /\ stage = "grow" /\ ~Grows
  /\ stage' = "digit"
  /\ UNCHANGED <<arg, radix, v, base, text, put>>

Digit ==
  /\ stage = "digit" /\ base # 1
  /\ text' = Append(text, Quotient(v, -base))
  /\ v' = Rest(v, base)
  /\ base' = Quotient(base, radix)
  /\ UNCHANGED <<stage, arg, radix, put>>

LastDigit ==
  /\ stage = "digit" /\ base = 1
  /\ text' = Append(text, -v)
  /\ stage' = "puts"
  /\ UNCHANGED <<arg, radix, v, base, put>>

(* sio_puts(): one write() of sio_strlen(s) characters, perhaps a short one*)
Puts(k) ==
  /\ stage = "puts" /\ k <= Len(text)
  /\ put' = k
  /\ stage' = "done"
  /\ UNCHANGED <<arg, radix, v, base, text>>

(* sio_error(): _exit(1).                                                  *)
PutsFails ==
  /\ stage = "puts"
  /\ put' = -1
  /\ stage' = "exit"
  /\ UNCHANGED <<arg, radix, v, base, text>>

-----------------------------------------------------------------------------
LtoaInit ==
  /\ stage = "idle" /\ arg = 0 /\ radix = 10
  /\ v = 0 /\ base = 1 /\ text = <<>> /\ put = 0

LtoaNext ==
  \/ \E a \in Long, n \in Radix : Putl(a, n)
  \/ Grow \/ Grown \/ Digit \/ LastDigit
  \/ \E k \in 0 .. Len(text) : Puts(k)
  \/ PutsFails

LtoaSpec == LtoaInit /\ [][LtoaNext]_ltoaVars
-----------------------------------------------------------------------------
(* Properties                                                              *)

(* s without its sign.                                                     *)
Digits == IF arg < 0 THEN Tail(text) ELSE text

(* The number that digits s stand for in radix n.                          *)
ValueUpTo(s, n) ==
  LET sum[i \in 0 .. Len(s)] == IF i = 0 THEN 0 ELSE sum[i - 1] * n + s[i]
  IN  sum
ValueOf(s, n) == ValueUpTo(s, n)[Len(s)]

Magnitude == IF arg < 0 THEN -arg ELSE arg

(* The text is the number: the sign of v, then digits below n whose value  *)
(* is |v|, the first of them not 0 unless it is the only one.  Nothing but *)
(* them is ever written.                                                   *)
DigitsAreRight ==
  stage \in {"puts", "done", "exit"} =>
    /\ arg < 0 => text[1] = Minus
    /\ Digits # <<>>
    /\ \A i \in 1 .. Len(Digits) : Digits[i] \in 0 .. radix - 1
    /\ Digits[1] = 0 => arg = 0 /\ Len(Digits) = 1
    /\ ValueOf(Digits, radix) = Magnitude
    /\ put <= Len(text)

(* Only LONG_MIN overflows, and only in a radix that it is a power of: the *)
(* code takes care of -LONG_MIN, and not of the base.  No handler that     *)
(* writes in decimal gets there.                                           *)
OverflowOnlyAtLongMin ==
  stage = "overflow" =>
    arg = -LongMax - 1 /\ base * radix = LongMax + 1

(* Both loops of sio_ltoa() end: base grows up to |v|, then falls to 1.    *)
LtoaRank ==
  IF stage = "grow" THEN 2 * LongMax + 2 - base
  ELSE IF stage = "digit" THEN base + 1
  ELSE IF stage = "puts" THEN 1 ELSE 0
LtoaAdvances ==
  [][stage # "idle" => LtoaRank \in Nat /\ LtoaRank' < LtoaRank]_ltoaVars
=============================================================================
