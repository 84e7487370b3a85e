\* Scaled-down double: 3 exponent bits, 3 fraction bits, 1 in the low word
\* (128 patterns: zeros, subnormals, four normal binades, Inf, NaNs).
CONSTANTS
  ExpBits = 3
  FracBits = 3
  LoBits = 1
SPECIFICATION Spec



INVARIANT RemainderSignOfX
