CONSTANTS
  CurTag = "v1"
  NewTag = "v2"
SPECIFICATION FairSpec
INVARIANTS TypeOK HalfPublishedResumable
PROPERTIES ReleaseCarriedThrough
