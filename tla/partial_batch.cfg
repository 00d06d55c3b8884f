SPECIFICATION Spec
CONSTANTS
  c1 = c1
  c2 = c2
  NoRange = NoRange
  Commands <- MCCommands
  Inputs <- MCInput
  Batches <- MCBatches
  MaxStream <- MCMaxStream
CHECK_DEADLOCK FALSE
INVARIANT
  RefusedBatchStoresNothing
