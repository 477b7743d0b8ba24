SPECIFICATION Spec
CONSTANTS
  BUFMAX = 16
  NUMREGS = 3
  ESP = 0
  PC = 1
  PS = 2
  Addr = {1, 2}
  Vectors = {3, 13}
  Pcs = {5}
  Requests <- MCRequests
  MaxRequests = 2
  MaxFaults = 1
INVARIANTS GdbInv AsAsked
PROPERTIES ReplyIsCurrent Answered
CHECK_DEADLOCK FALSE
