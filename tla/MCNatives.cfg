\* Paths of up to 8 characters, the stack buffers of ClassLoader.c, three
\* times, environments of up to two entries (no setenv inside environ()),
\* three file systems and up to three mounts or unmounts, and proxy lists
\* of up to two entries.
CONSTANTS
  Inputs <- MCInputs
  NameBufSize = 128
  SourceBufSize = 1024
  Times <- MCTimes
  AttrSize = 16
  PathMax = 1024
  Lengths <- MCLengths
  Strings <- MCStrings
  MaxEnv = 2
  Race = FALSE
  m1 = m1
  m2 = m2
  m3 = m3
  Garbage = Garbage
  Mounts <- MCMounts
  InitTable <- MCInitTable
  MaxMountOps = 3
  ProxyInputs <- MCProxyInputs
SPECIFICATION Spec
INVARIANT CollapsePreservesMeaning
INVARIANT CollapseComplete
INVARIANT NoLeak
INVARIANT MemorySafe
INVARIANT NullIffException
INVARIANT AttrBufferPacked
INVARIANT NormalizeReleasesInBounds
INVARIANT NormalizeJNIDiscipline
INVARIANT EnvArrayExact
INVARIANT FsTypeOK
INVARIANT FsMemorySafe
INVARIANT FsNoLeak
INVARIANT ListingFollowsSnapshot
INVARIANT ProxyTypeOK
INVARIANT CFBalanced
INVARIANT ResultIsExpansion
PROPERTY ProxyLookupRefined
PROPERTY EnvironReturns
