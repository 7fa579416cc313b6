\* Every byte in every mode, short files, and what a stopped run leaves.
CONSTANTS
  BUFFER_SIZE = 2
  Files <- ShortFiles
  CommandLines <- SomeLines
  MaxRuns = 2
SPECIFICATION Spec
INVARIANTS TypeOK PrefixTransformed SuccessMeansAll AsNamed UndoneByRerun
