----------------------------- MODULE Hyperbolic -----------------------------
(***************************************************************************)
(* The band selection of __ieee754_sinh (e_sinh.c) and __ieee754_cosh     *)
(* (e_cosh.c) at the real widths of a double.                              *)
(*                                                                         *)
(* Both kernels choose one of five formulas from the high word of |x|,    *)
(* and at the top band from the low word as well, which they read through *)
(* the pointer trick of e_sinh.c:46 / e_cosh.c:49: the index of the low   *)
(* word in memory is the top three bits of the first 32-bit word of 1.0   *)
(* -- 0 on a little-endian machine, where that word is the low word of    *)
(* 1.0, and 1 on a big-endian one, where it is 0x3ff00000.                *)
(*                                                                         *)
(* The values the formulas compute (expm1, exp) are outside this module:  *)
(* a result is the formula chosen and the sign it carries.  A 32-bit word *)
(* is a pair of 16-bit halves, so every unsigned word fits TLC's integers.*)
(***************************************************************************)
EXTENDS Integers

(* A double: its sign bit, ix = the high word & 0x7fffffff, and the low   *)
(* word as <<upper 16 bits, lower 16 bits>>.                               *)
Double(neg, ix, lo) == [neg |-> neg, ix |-> ix, lo |-> lo]

Neg(d) == [d EXCEPT !.neg = 1 - @]

(* The two 32-bit words of d: the high word (with the sign) and the low.  *)
HighWord(d) == <<d.neg * \h8000 + d.ix \div \h10000, d.ix % \h10000>>
LowWord(d)  == d.lo

(* The 32-bit words of d in memory order for each byte order. *)
Memory(d, endian) ==
  IF endian = "little" THEN [i \in 0..1 |-> IF i = 0 THEN LowWord(d) ELSE HighWord(d)]
  ELSE [i \in 0..1 |-> IF i = 0 THEN HighWord(d) ELSE LowWord(d)]

(* w >> n for an unsigned word and 16 <= n <= 31. *)
Shr(w, n) == w[1] \div 2^(n - 16)

(* w <= v as unsigned 32-bit words. *)
ULE(w, v) == w[1] < v[1] \/ (w[1] = v[1] /\ w[2] <= v[2])

One == Double(0, \h3ff00000, <<0, 0>>)

(* Mutation variant: the index shifted by 30, which reads word 0 on both  *)
(* byte orders.                                                            *)
LowWordOfShift30(x, endian) ==
  Memory(x, endian)[Shr(Memory(One, endian)[0], 30)]

(* lx: the word at index (first word of one) >> 29 of the words of x. *)
LowWordOf(x, endian) ==
  Memory(x, endian)[Shr(Memory(One, endian)[0], 29)]

Result(form, neg) == [form |-> form, neg |-> neg]

(* The last band: ix < 0x408633CE, or ix == 0x408633ce and lx <=           *)
(* (unsigned)0x8fb9f87d, is the largest |x| whose result is finite.       *)
BelowOverflow(x, endian) ==
  \/ x.ix < \h408633CE
  \/ x.ix = \h408633ce /\ ULE(LowWordOf(x, endian), <<\h8fb9, \hf87d>>)

(* Mutation variant: h negated on ix < 0 instead of jx < 0. *)
SinhIxSign(x, endian) ==
  LET h == 0
  IN  CASE x.ix >= \h7ff00000 -> Result("x+x", x.neg)
        [] x.ix < \h40360000 ->
             CASE x.ix < \h3e300000 -> Result("x", x.neg)
               [] x.ix < \h3ff00000 -> Result("h*(2t-t*t/(t+1))", h)
               [] OTHER             -> Result("h*(t+t/(t+1))", h)
        [] x.ix < \h40862E42 -> Result("h*exp(|x|)", h)
        [] BelowOverflow(x, endian) -> Result("(h*w)*w", h)
        [] OTHER -> Result("x*shuge", x.neg)

(* __ieee754_sinh(x).  h = -0.5 when jx < 0; the tiny band returns x      *)
(* (shuge + x > one holds for every |x| < 2^-28); x+x keeps the sign of   *)
(* an infinity, and x*shuge overflows to the infinity of x's sign.         *)
Sinh(x, endian) ==
  LET h == x.neg
  IN  CASE x.ix >= \h7ff00000 -> Result("x+x", x.neg)
        [] x.ix < \h40360000 ->
             CASE x.ix < \h3e300000 -> Result("x", x.neg)
               [] x.ix < \h3ff00000 -> Result("h*(2t-t*t/(t+1))", h)
               [] OTHER             -> Result("h*(t+t/(t+1))", h)
        [] x.ix < \h40862E42 -> Result("h*exp(|x|)", h)
        [] BelowOverflow(x, endian) -> Result("(h*w)*w", h)
        [] OTHER -> Result("x*shuge", x.neg)

(* __ieee754_cosh(x): every band is a positive value; x*x is +Inf for    *)
(* either infinity, huge*huge overflows to +Inf.                           *)
Cosh(x, endian) ==
  CASE x.ix >= \h7ff00000 -> Result("x*x", 0)
    [] x.ix < \h3fd62e43 ->
         IF x.ix < \h3c800000 THEN Result("1+t", 0)
         ELSE Result("1+(t*t)/(w+w)", 0)
    [] x.ix < \h40360000 -> Result("half*t+half/t", 0)
    [] x.ix < \h40862E42 -> Result("half*exp(|x|)", 0)
    [] BelowOverflow(x, endian) -> Result("(half*w)*w", 0)
    [] OTHER -> Result("huge*huge", 0)

-----------------------------------------------------------------------------
(* The arguments the models call with: high words at and on either side of *)
(* every threshold of both kernels and of Inf, low words at the edges of   *)
(* the unsigned compare and of the sign bit, both signs.                   *)
Thresholds == {\h3c800000, \h3e300000, \h3fd62e43, \h3ff00000, \h40360000,
               \h40862E42, \h408633CE, \h7ff00000}
LowWords == {<<0, 0>>, <<\h7fff, \hffff>>, <<\h8fb9, \hf87d>>,
             <<\h8fb9, \hf87e>>, <<\hffff, \hffff>>}
Arguments ==
  {Double(s, t + k, l) : s \in 0..1, t \in Thresholds, k \in -1..1,
                         l \in LowWords} \cup {Double(0, 0, <<0, 0>>)}

Endians == {"little", "big"}

Overflows == {"x*shuge", "huge*huge"}
=============================================================================
