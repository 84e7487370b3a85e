\* Three descriptors (the inherited one and a pipe, or a dup and a file),
\* two callers sharing two configureBlocking calls, a drain buffer and a
\* pipe of two bytes and two wakeups (so that drain's loop goes round), two
\* InheritedChannel natives, and an inherited Unix-domain stream socket.
CONSTANTS
  MaxFd = 2
  Callers = {c1, c2}
  BufSize = 2
  PipeCap = 2
  MaxWrites = 2
  SockTypes = {"stream"}
  Families = {"unix"}
  MaxICCalls = 2
  MaxCbCalls = 2
SPECIFICATION Spec
INVARIANT TypeOK
INVARIANT NoFdLeak
INVARIANT NoLostWakeup
INVARIANT OpenDupHonest
