CONSTANTS
  AddCount = 8
  Diffs <- MCDiffs
  MenuInputs <- MCMenuInputs
SPECIFICATION FairSpec
INVARIANTS
  OutroInOrder
PROPERTIES
  OutroProgresses
