------------------------------- MODULE IEEE754 -------------------------------
(***************************************************************************)
(* The bit-level view of a binary floating-point double that every fdlibm  *)
(* kernel works on: a pattern of 1 sign bit, ExpBits exponent bits and     *)
(* FracBits fraction bits, read as a "high word" (sign, exponent and the   *)
(* upper fraction bits) and a "low word" (the LoBits lowest fraction       *)
(* bits), the __HI/__LO accessors of fdlibm.h.                             *)
(*                                                                         *)
(* The IEEE double is ExpBits = 11, FracBits = 52, LoBits = 32.  The       *)
(* models use a scaled-down format with the same layout so that TLC can    *)
(* enumerate every pattern; every literal of the C code (0x7fffffff,       *)
(* 0x7ff00000, ix>>20, 1023, ...) is written below as the same expression  *)
(* of the field widths, so that it denotes the same boundary in the small  *)
(* format as the literal does in the double.                               *)
(*                                                                         *)
(* A pattern is a natural number in Bits.  Magnitudes are exact integers   *)
(* in units of the smallest subnormal, so exact IEEE operations (fmod,     *)
(* Sterbenz subtraction, doubling) are integer operations.                 *)
(***************************************************************************)
EXTENDS Integers

CONSTANTS
  ExpBits,   \* width of the biased exponent field (11 in a double)
  FracBits,  \* width of the fraction field (52 in a double)
  LoBits     \* fraction bits held by the low word (32 in a double)

ASSUME ExpBits \in 2..11 /\ FracBits \in 2..52 /\ LoBits \in 0..(FracBits - 1)

HiFracBits == FracBits - LoBits          \* fraction bits in the high word (20)
HiBits     == 1 + ExpBits + HiFracBits   \* width of the high word (32)
Width      == HiBits + LoBits
Bits       == 0 .. (2^Width - 1)

(* __HI(x) and __LO(x): the two words of the pattern. *)
HI(b) == b \div 2^LoBits
LO(b) == b % 2^LoBits

SignBit   == 2^(HiBits - 1)        \* 0x80000000
AbsHI(b)  == HI(b) % SignBit       \* __HI(x) & 0x7fffffff
SignOf(b) == HI(b) \div SignBit    \* 1 iff hx & 0x80000000
ExpOf(b)  == AbsHI(b) \div 2^HiFracBits            \* ix >> 20
FracOf(b) == (AbsHI(b) % 2^HiFracBits) * 2^LoBits + LO(b)

MaxExp == 2^ExpBits - 1                \* 0x7ff
Bias   == 2^(ExpBits - 1) - 1          \* 1023

(* High-word thresholds of the C code, as expressions of the layout. *)
InfHI  == MaxExp * 2^HiFracBits        \* 0x7ff00000: |x| is Inf or NaN
HiWord(e) == e * 2^HiFracBits          \* high word of 2^(e - Bias)

IsNaN(b)    == ExpOf(b) = MaxExp /\ FracOf(b) # 0
IsInf(b)    == ExpOf(b) = MaxExp /\ FracOf(b) = 0
IsFinite(b) == ExpOf(b) < MaxExp
IsZero(b)   == AbsHI(b) = 0 /\ LO(b) = 0

(* |b| in units of the smallest subnormal 2^(1 - Bias - FracBits). *)
Mag(b) == IF ExpOf(b) = 0 THEN FracOf(b)
          ELSE (2^FracBits + FracOf(b)) * 2^(ExpOf(b) - 1)

(* A stand-in for the magnitude of +Inf: larger than twice every finite    *)
(* magnitude, so the comparisons and halvings the kernels apply to an      *)
(* infinite operand come out as they do for Inf.                           *)
InfMag == 2^(FracBits + MaxExp + 2)
MagExt(b) == IF IsInf(b) THEN InfMag ELSE Mag(b)

Finite == {b \in Bits : IsFinite(b)}

(* The finite pattern with sign s and magnitude m (m representable),     *)
(* tabulated once.                                                        *)
PatternTable ==
  [sm \in {<<SignOf(b), Mag(b)>> : b \in Finite} |->
     CHOOSE b \in Finite : <<SignOf(b), Mag(b)>> = sm]
Pattern(s, m) == PatternTable[<<s, m>>]

(* A signed exact result v given the sign of the operand it came from:    *)
(* the pattern of |v| with its sign bit XORed with s, i.e. __HI(x) ^= sx   *)
(* applied to the pattern of v (a zero v is +0 before the XOR).            *)
WithSignXor(s, v) ==
  LET neg == IF v < 0 THEN 1 ELSE 0
  IN  Pattern((neg + s) % 2, IF v < 0 THEN -v ELSE v)

(* The NaN produced by an invalid operation; its payload and sign are set  *)
(* by the hardware, and no property tells NaNs apart.                      *)
QNaN == (MaxExp * 2^HiFracBits + 2^(HiFracBits - 1)) * 2^LoBits

(* Equality of two results as doubles: identical patterns, or both NaN. *)
SameDouble(a, b) == a = b \/ (IsNaN(a) /\ IsNaN(b))
=============================================================================
