SPECIFICATION Spec
CONSTANTS
  NoRange = NoRange
  MaxOffset = 3
  MaxProposals = 4
INVARIANTS
  AcceptedIsDisjoint
  OverlapIsReal
  LateRejectionIsExplained
CHECK_DEADLOCK FALSE
