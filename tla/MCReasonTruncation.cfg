SPECIFICATION Spec
CONSTANTS
  MaxReasonBytes = 9
  EllipsisBytes = 3
  MaxRunes = 5
  Reasons <- MCReasons
INVARIANTS ReasonBounded ReasonFaithful
PROPERTY Returns
