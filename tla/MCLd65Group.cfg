CONSTANTS
  Names <- MCNames
  NoName = 0
  Segs <- MCSegs
  MAX_ALIGNMENT = 6
  LAST_PRIME = 3
  Jobs <- LinkJobs
SPECIFICATION Spec
INVARIANT ReferencedIsLoaded
