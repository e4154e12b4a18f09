CONSTANTS
  Names <- MCNames
  NoName = 0
  Segs <- MCSegs
  MAX_ALIGNMENT = 6
  LAST_PRIME = 3
  Jobs <- MCJobs
SPECIFICATION Spec
INVARIANTS
  TypeOK
  CountersExact
  NeededOnly
  SearchComplete
  LoadedOnce
  CompleteLink
  WeakGivesWay
  InsideAndApart
  AlignedUnlessWarned
  WrittenWherePlaced
PROPERTIES
  OwnerKept
  Terminates
