CONSTANT Inputs <- MCInputs
SPECIFICATION Spec
INVARIANT NoJNICallWithPending
