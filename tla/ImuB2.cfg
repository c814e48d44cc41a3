SPECIFICATION FairSpec
CONSTANTS
  Transactions <- MCTransactions
  SlaveOf <- MCSlaveOf
  Select <- MCSelect
  LockAfter = {"max1168_req"}
  NoSlave = "unlocked"
  NoTransaction = "none"
  SPI_TRANSACTION_QUEUE_LEN = 6
  LATE = FALSE
  MAX1168_NB_CHAN = 2
  OTHER_LENGTHS <- MCLengths
INVARIANTS TypeOK BusExclusive ClockRuns OwnBuffers
PROPERTIES Complete ImplementsFifo SensorsDeliver
