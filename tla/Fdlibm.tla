------------------------------- MODULE Fdlibm -------------------------------
(***************************************************************************)
(* The fdlibm kernels whose results depend only on the bit pattern and on  *)
(* exact arithmetic: __ieee754_remainder (e_remainder.c) and logb          *)
(* (s_logb.c), reached through the StrictMath JNI entry point and the      *)
(* remainder wrapper (w_remainder.c); and the band selection of sinh and   *)
(* cosh (module Hyperbolic), called through StrictMath.sinh / cosh.        *)
(*                                                                         *)
(* jfdlibm.h defines _IEEE_LIBM, so every wrapper of this build returns    *)
(* the kernel's result unchanged; the _LIB_VERSION / __kernel_standard     *)
(* branch is compiled out and is not modelled.                             *)
(*                                                                         *)
(* The caller makes one call after another with arbitrary patterns: from  *)
(* the idle state it calls a function and gets its result, then returns to *)
(* idle.  The variables hold the arguments and the result of the call.     *)
(***************************************************************************)
EXTENDS IEEE754

VARIABLES
  last,   \* the call returned: "none" (idle), "remainder" or "logb"
  x,      \* its first argument (a pattern)
  p,      \* the divisor of the last remainder call
  rem,    \* the pattern remainder returned
  lgb,    \* the value logb returned
  arg,    \* the argument of the last sinh / cosh call (a real-width double)
  endian, \* the byte order of the build that ran it
  hyp,    \* the formula sinh / cosh returned, and its sign
  scl     \* the pattern scalb(x, p) returned

vars == <<last, x, p, rem, lgb, arg, endian, hyp, scl>>

H == INSTANCE Hyperbolic
NoHyp == H!Result("none", 0)

-----------------------------------------------------------------------------
(* logb results: the exact integer (double)(ix-1023), or a special value. *)
Num(k)  == [cls |-> "num", val |-> k]
NegInf  == [cls |-> "-inf", val |-> 0]
PosInf  == [cls |-> "+inf", val |-> 0]
NaNVal  == [cls |-> "nan", val |-> 0]
LogbResults == {Num(k) : k \in (1 - Bias)..(MaxExp - 1 - Bias)}
                 \cup {NegInf, PosInf, NaNVal}

(* 0.5*p rounded to nearest-even: exact unless p is below 2^(2-Bias),      *)
(* where the format's spacing is one unit.                                 *)
HalfRound(m) ==
  IF m % 2 = 0 \/ (m \div 2) % 2 = 0 THEN m \div 2 ELSE m \div 2 + 1

ReduceTiny(xm, pm) ==
  IF xm + xm > pm
  THEN LET y == xm - pm IN IF y + y >= pm THEN y - pm ELSE y
  ELSE xm

(* The reduction for larger p, against p_half = 0.5*p. *)
ReduceHalf(xm, pm) ==
  LET ph == HalfRound(pm)
  IN  IF xm > ph
      THEN LET y == xm - pm IN IF y >= ph THEN y - pm ELSE y
      ELSE xm

(* __ieee754_remainder(x, p).  fmod(x, p+p) is exact and keeps the sign of *)
(* x, which fabs then drops; it is skipped when p+p would overflow (hp >   *)
(* 0x7fdfffff), and then |x| < 2p already.  The zero test compares the     *)
(* words of the original |x| and |p|.  (x*p)/(x*p) is always NaN on the   *)
(* inputs that reach it.                                                   *)
Remainder(a, b) ==
  LET hx == AbsHI(a)  lx == LO(a)
      hp == AbsHI(b)  lp == LO(b)
      sx == SignOf(a)
      xr == IF hp <= HiWord(MaxExp - 1) - 1 THEN Mag(a) % (2 * Mag(b))
            ELSE Mag(a)
      v  == IF hp < HiWord(2) THEN ReduceTiny(xr, MagExt(b))
            ELSE ReduceHalf(xr, MagExt(b))
  IN  IF hp = 0 /\ lp = 0 THEN QNaN
      ELSE IF hx >= InfHI \/ (hp >= InfHI /\ (hp - InfHI # 0 \/ lp # 0))
           THEN QNaN
      ELSE IF hx = hp /\ lx = lp THEN Pattern(sx, 0)
      ELSE WithSignXor(sx, v)

(* remainder(x, y): with _IEEE_LIBM the wrapper is the kernel. *)
WRemainder(a, b) == Remainder(a, b)

(* Mutation variant: the zero test reads only the high word. *)
LogbHighZero(a) ==
  LET ix == AbsHI(a)
  IN  IF ix = 0 THEN NegInf
      ELSE IF ix >= InfHI THEN (IF IsNaN(a) THEN NaNVal ELSE PosInf)
      ELSE IF ix \div 2^HiFracBits = 0 THEN Num(1 - Bias)
      ELSE Num(ix \div 2^HiFracBits - Bias)

(* Mutation variant: the exponent taken without the shift (ix - 1023). *)
LogbNoShift(a) ==
  LET ix == AbsHI(a)  lx == LO(a)
  IN  IF ix = 0 /\ lx = 0 THEN NegInf
      ELSE IF ix >= InfHI THEN (IF IsNaN(a) THEN NaNVal ELSE PosInf)
      ELSE IF ix \div 2^HiFracBits = 0 THEN Num(1 - Bias)
      ELSE Num(ix - Bias)

(* logb(x).  -1.0/fabs(x) is -Inf for either zero; x*x is +Inf for an     *)
(* infinity and NaN for a NaN.                                             *)
Logb(a) ==
  LET ix == AbsHI(a)  lx == LO(a)
  IN  IF ix = 0 /\ lx = 0 THEN NegInf
      ELSE IF ix >= InfHI THEN (IF IsNaN(a) THEN NaNVal ELSE PosInf)
      ELSE IF ix \div 2^HiFracBits = 0 THEN Num(1 - Bias)
      ELSE Num(ix \div 2^HiFracBits - Bias)

(* The pattern of +/-Inf. *)
InfPattern(s) == (s * SignBit + InfHI) * 2^LoBits

(* The finite pattern of sign s nearest to num/den units (den a power of  *)
(* two), ties to an even last bit, or Inf when it rounds past the largest *)
(* finite magnitude: the rounding of scalbn (libm, outside this            *)
(* repository), which C defines as x*2^n computed exactly and rounded.     *)
RECURSIVE Log2Floor(_)
Log2Floor(v) == IF v < 2 THEN 0 ELSE 1 + Log2Floor(v \div 2)
RoundDiv(num, den) ==
  LET q == num \div den  r == num % den
  IN  IF 2 * r < den \/ (2 * r = den /\ q % 2 = 0) THEN q ELSE q + 1
RoundTo(s, num, den) ==
  LET q   == num \div den
      ulp == IF q < 2^(FracBits + 1) THEN 1 ELSE 2^(Log2Floor(q) - FracBits)
      c   == RoundDiv(num, den * ulp) * ulp
  IN  IF c >= 2^(FracBits + MaxExp - 1) THEN InfPattern(s) ELSE Pattern(s, c)

scalbn(a, n) ==
  IF ~IsFinite(a) THEN a
  ELSE IF n >= 0 THEN RoundTo(SignOf(a), Mag(a) * 2^n, 1)
  ELSE RoundTo(SignOf(a), Mag(a), 2^(-n))

(* The value of a finite pattern is an integer: rint(fn) == fn. *)
Unit == 2^(Bias + FracBits - 1)
IsIntegral(b) == IsFinite(b) /\ Mag(b) % Unit = 0
(* (int)fn of an integral fn. *)
IntOf(b) == IF SignOf(b) = 1 THEN -(Mag(b) \div Unit) ELSE Mag(b) \div Unit

(* x*y and x/y when y is an infinity and x is not NaN: NaN for 0*Inf and  *)
(* Inf/Inf, else an infinity or a zero with the XOR of the signs.          *)
MulInf(a, b) == IF IsZero(a) THEN QNaN ELSE InfPattern((SignOf(a) + SignOf(b)) % 2)
DivInf(a, b) == IF IsInf(a) THEN QNaN ELSE Pattern((SignOf(a) + SignOf(b)) % 2, 0)
Negate(b) == (b + SignBit * 2^LoBits) % 2^Width

(* Mutation variant: the rint(fn) != fn test left out, so a fractional fn *)
(* is truncated by the (int) conversion.                                   *)
ScalbNoRint(a, f) ==
  IF IsNaN(a) \/ IsNaN(f) THEN QNaN
  ELSE IF ~IsFinite(f) THEN IF SignOf(f) = 0 THEN MulInf(a, f) ELSE DivInf(a, Negate(f))
  ELSE IF IntOf(f) > 65000 THEN scalbn(a, 65000)
  ELSE IF -IntOf(f) > 65000 THEN scalbn(a, -65000)
  ELSE LET t == Mag(f) \div Unit
       IN  scalbn(a, IF SignOf(f) = 1 THEN -t ELSE t)

(* __ieee754_scalb(x, fn) with a double fn (_SCALB_INT is not defined):   *)
(* NaN in, NaN out; an infinite fn multiplies or divides by it; a         *)
(* fractional fn is an invalid operation; |fn| is clamped to 65000.        *)
Scalb(a, f) ==
  IF IsNaN(a) \/ IsNaN(f) THEN QNaN
  ELSE IF ~IsFinite(f) THEN IF SignOf(f) = 0 THEN MulInf(a, f) ELSE DivInf(a, Negate(f))
  ELSE IF ~IsIntegral(f) THEN QNaN
  ELSE IF IntOf(f) > 65000 THEN scalbn(a, 65000)
  ELSE IF -IntOf(f) > 65000 THEN scalbn(a, -65000)
  ELSE scalbn(a, IntOf(f))

-----------------------------------------------------------------------------
Init ==
  /\ last = "none"
  /\ x = 0
  /\ p = 0
  /\ rem = 0
  /\ lgb = NaNVal
  /\ arg = H!Double(0, 0, <<0, 0>>) /\ endian = "little" /\ hyp = NoHyp
  /\ scl = 0

(* Java_java_lang_StrictMath_IEEEremainder(dividend, divisor). *)
IEEEremainder ==
  /\ last = "none"
  /\ \E a, b \in Bits :
       /\ last' = "remainder"
       /\ x' = a
       /\ p' = b
       /\ rem' = WRemainder(a, b)
       /\ UNCHANGED <<lgb, arg, endian, hyp, scl>>

(* A call of logb(x). *)
CallLogb ==
  /\ last = "none"
  /\ \E a \in Bits :
       /\ last' = "logb"
       /\ x' = a
       /\ lgb' = Logb(a)
       /\ UNCHANGED <<p, rem, arg, endian, hyp, scl>>

(* Java_java_lang_StrictMath_sinh / _cosh (StrictMath.c:79-88): the       *)
(* kernel's result, on a build of either byte order.                       *)
CallSinh ==
  /\ last = "none"
  /\ \E a \in H!Arguments, e \in H!Endians :
       /\ last' = "sinh" /\ arg' = a /\ endian' = e /\ hyp' = H!Sinh(a, e)
  /\ UNCHANGED <<x, p, rem, lgb, scl>>

(* A call of scalb(x, fn) (an fdlibm entry point; no StrictMath caller).  *)
CallScalb ==
  /\ last = "none"
  /\ \E a, b \in Bits :
       /\ last' = "scalb" /\ x' = a /\ p' = b /\ scl' = Scalb(a, b)
  /\ UNCHANGED <<rem, lgb, arg, endian, hyp>>

CallCosh ==
  /\ last = "none"
  /\ \E a \in H!Arguments, e \in H!Endians :
       /\ last' = "cosh" /\ arg' = a /\ endian' = e /\ hyp' = H!Cosh(a, e)
  /\ UNCHANGED <<x, p, rem, lgb, scl>>

(* The caller takes the result; the next call starts from idle. *)
Return ==
  /\ last # "none"
  /\ last' = "none"
  /\ x' = 0 /\ p' = 0 /\ rem' = 0 /\ lgb' = NaNVal
  /\ arg' = H!Double(0, 0, <<0, 0>>) /\ endian' = "little" /\ hyp' = NoHyp
  /\ scl' = 0

Next == IEEEremainder \/ CallLogb \/ CallSinh \/ CallCosh \/ CallScalb
          \/ Return

Spec == Init /\ [][Next]_vars

-----------------------------------------------------------------------------
TypeOK ==
  /\ last \in {"none", "remainder", "logb", "sinh", "cosh", "scalb"}
  /\ x \in Bits /\ p \in Bits /\ rem \in Bits /\ scl \in Bits
  /\ lgb \in LogbResults
  /\ arg \in H!Arguments /\ endian \in H!Endians /\ hyp.neg \in 0..1

(* The IEEE 754 remainder, from its definition: r = x - n*p with n the     *)
(* integer nearest x/p, ties to even; a zero r has the sign of x; NaN when *)
(* x is infinite or NaN, p is zero or NaN; x itself when p is infinite.    *)
RefRemainder(a, b) ==
  IF IsNaN(a) \/ IsNaN(b) \/ IsInf(a) \/ IsZero(b) THEN QNaN
  ELSE IF IsInf(b) THEN a
  ELSE LET q == Mag(a) \div Mag(b)
           r == Mag(a) % Mag(b)
           n == IF 2 * r < Mag(b) THEN q
                ELSE IF 2 * r > Mag(b) THEN q + 1
                ELSE IF q % 2 = 0 THEN q ELSE q + 1
       IN  WithSignXor(SignOf(a), Mag(a) - n * Mag(b))

(* The unbiased exponent of x, from its magnitude: the k with             *)
(* 2^k <= |x| < 2^(k+1) for a normal x, 1-Bias (-1022) for a subnormal.   *)
RefLogb(a) ==
  IF IsNaN(a) THEN NaNVal
  ELSE IF IsInf(a) THEN PosInf
  ELSE IF Mag(a) = 0 THEN NegInf
  ELSE IF Mag(a) < 2^FracBits THEN Num(1 - Bias)
  ELSE Num(CHOOSE k \in (1 - Bias)..(MaxExp - 1 - Bias) :
             /\ 2^(k + Bias + FracBits - 1) <= Mag(a)
             /\ Mag(a) < 2^(k + Bias + FracBits))

LogbIsExponent ==
  last = "logb" => lgb = RefLogb(x)

(* spec.md 4.4 and 8: "the result has the same sign as x" whenever the     *)
(* result is nonzero.                                                      *)
RemainderSignOfX ==
  (last = "remainder" /\ IsFinite(rem) /\ ~IsZero(rem))
    => SignOf(rem) = SignOf(x)

(* x * 2^n from its definition (IEC 60559 / XPG scalb): NaN when either    *)
(* operand is NaN or n is not an integer, and for 0 * 2^+Inf and           *)
(* Inf * 2^-Inf; an infinity scaled by a finite n stays infinite; else the *)
(* exact product rounded to the format.                                    *)
RefScalb(a, f) ==
  LET n == (IF SignOf(f) = 1 THEN -1 ELSE 1) * (Mag(f) \div Unit)
  IN  CASE IsNaN(a) \/ IsNaN(f)            -> QNaN
        [] IsInf(f) /\ SignOf(f) = 0       ->
             IF IsZero(a) THEN QNaN ELSE InfPattern(SignOf(a))
        [] IsInf(f)                        ->
             IF IsInf(a) THEN QNaN ELSE Pattern(SignOf(a), 0)
        [] Mag(f) % Unit # 0               -> QNaN
        [] IsInf(a)                        -> a
        [] n >= 0 -> RoundTo(SignOf(a), Mag(a) * 2^n, 1)
        [] OTHER  -> RoundTo(SignOf(a), Mag(a), 2^(-n))

(* scalb(x, fn) is x * 2^fn for every pair of patterns: the NaN, Inf and   *)
(* fractional-fn policy of e_scalb.c agrees with the definition, and the   *)
(* integral case goes through scalbn with the exact (int) conversion.      *)
ScalbIsScaling ==
  last = "scalb" => SameDouble(scl, RefScalb(x, p))

(* StrictMath.sinh is odd and cosh is even, on either byte order: both     *)
(* kernels pick their band from |x| alone, sinh carries the sign of x in   *)
(* every band (h = -0.5 on jx < 0, x itself when tiny, x+x, x*shuge) and   *)
(* cosh is positive in every band (x*x for an infinity).                   *)
HyperbolicSymmetry ==
  /\ last = "sinh" =>
       /\ hyp.neg = arg.neg
       /\ hyp.form = H!Sinh(H!Neg(arg), endian).form
  /\ last = "cosh" => hyp = H!Cosh(H!Neg(arg), endian) /\ hyp.neg = 0

(* The overflow threshold of both kernels as a 63-bit magnitude: the      *)
(* double 0x408633CE_8FB9F87D, about 710.4758600739439.                   *)
OverflowMag == <<\h408633CE, \h8fb9, \hf87d>>
MagOf(d) == <<d.ix, d.lo[1], d.lo[2]>>
MagGreater(u, v) ==
  \E i \in 1..3 : u[i] > v[i] /\ \A j \in 1..(i - 1) : u[j] = v[j]

(* sinh and cosh of a finite x overflow exactly when |x| exceeds the      *)
(* threshold, on either byte order: the low word read through the         *)
(* endianness trick of e_sinh.c:46 / e_cosh.c:49 is the low word of x,    *)
(* and it is compared unsigned.                                            *)
OverflowIffAboveThreshold ==
  (last \in {"sinh", "cosh"} /\ arg.ix < \h7ff00000)
    => (hyp.form \in H!Overflows <=> MagGreater(MagOf(arg), OverflowMag))
=============================================================================
