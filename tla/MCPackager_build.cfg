CONSTANTS
  CurTag = "v1"
  NewTag = "v2"
SPECIFICATION Spec
INVARIANT VersionCheckAcceptsTaggedHead
