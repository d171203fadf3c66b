CONSTANTS
  SIGAR_WHO_LIST_MAX = 2
  MaxRecords = 5
  MaxAllocFailures = 0
  MaxRewrites = 2

SPECIFICATION Spec

INVARIANT TypeOK
INVARIANT WhoListFaithful
INVARIANT NoDoubleFree
