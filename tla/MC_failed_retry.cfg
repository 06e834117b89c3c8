CONSTANTS
  t1 = t1
  t2 = t2
  u1 = u1
  u2 = u2
  k1 = k1
  k2 = k2
  a1 = a1
  None = None
  Threads <- MC_Threads
  Uids <- MC_Uids
  Uid <- MC_Uid
  KeyIds <- MC_KeyIds
  Aliases <- MC_Aliases
  CurVer = 2
  MaxOps = 1
  Requests <- MC_NoWrappedImport
SYMMETRY MC_Symmetry
INIT Init
NEXT Next
PROPERTY FailedRetryKeepsBlob
