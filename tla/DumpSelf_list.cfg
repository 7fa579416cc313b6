\* Two address spaces of seven pages; malloc moves anything of its own.
CONSTANTS
  Top = 7
  MAX_SIZE_50MB = 3
  Images <- SmallImages
  Faulting = {7}
SPECIFICATION Spec
INVARIANTS EachReportedOnce FilesAsReported
PROPERTIES ListEnds
