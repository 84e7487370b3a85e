CONSTANTS
  NameBufSize = 128
  SourceBufSize = 1024
SPECIFICATION Spec
INVARIANT NoJNICallWithPending
