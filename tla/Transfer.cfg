SPECIFICATION Spec
CONSTANTS
  Table = {1, 2, 3}
  Column = {0, 1}
  Null = Null
  Value = {0, 1, Null}
  MaxRows = 2
  Queries <- AllQueries
  Databases <- MCDatabases
  FalsePositives <- OneLucky
INVARIANTS EveryTransferHappens FullyReduced CreatorAlwaysFound ResultPreserved
PROPERTIES ImplementsReduction ExecutionCompletes
