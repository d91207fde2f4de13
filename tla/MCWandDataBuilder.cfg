CONSTANTS
  Inputs <- MCInputs
SPECIFICATION Spec
INVARIANTS
  BlockBoundsHold
  BlocksAsSpecified
  RangeBounds
