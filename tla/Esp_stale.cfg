SPECIFICATION Spec
CONSTANTS
  Counts = {1, 3}
  MaxData = 2
INVARIANTS
  TransferHasCommand
