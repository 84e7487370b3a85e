CONSTANTS
  m1 = m1
  m2 = m2
  m3 = m3
  Garbage = Garbage
  Mounts <- MCMounts
  InitTable <- MCInitTable
  MaxMountOps = 3
SPECIFICATION Spec
INVARIANT SnapshotComplete
