SPECIFICATION Spec
CONSTANTS
  Histories <- ThreeHistories
  MaxCrashes = 2
INVARIANT TypeOK
INVARIANT NoPanic
INVARIANT MergedWhole
INVARIANT SourceKept
INVARIANT RangesDisjoint
PROPERTY MergeFinishes
CHECK_DEADLOCK FALSE
