SPECIFICATION Spec
CONSTANTS
  Files = {1}
  Selections <- OneFile
  MaxQuota = 1
  MaxFaults = 2
PROPERTY EveryRepostWarned
