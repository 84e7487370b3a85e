\* Other threads may setenv while environ() runs.
CONSTANTS
  Inputs <- MCInputs
  NameBufSize = 128
  SourceBufSize = 1024
  Times <- MCTimes
  AttrSize = 16
  PathMax = 1024
  Lengths <- MCLengths
  Strings <- MCStrings
  MaxEnv = 2
  Race = TRUE
  m1 = m1
  m2 = m2
  m3 = m3
  Garbage = Garbage
  Mounts <- MCMounts
  InitTable <- MCInitTable
  MaxMountOps = 3
  ProxyInputs <- MCProxyInputs
SPECIFICATION Spec
INVARIANT EnvArrayExact
