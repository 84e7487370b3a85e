CONSTANTS
  MaxFd = 3
  Callers = {c1}
  BufSize = 2
  PipeCap = 3
  MaxWrites = 4
SPECIFICATION Spec
INVARIANT ConfigureBlockingHonest
