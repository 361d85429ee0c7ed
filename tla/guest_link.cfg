SPECIFICATION Spec
CONSTANTS
  Users <- MCUsers
  Tester = "tester"
  Calls <- MCCalls
  Ops <- MCOps
  MaxStarts = 2
  Nobody = "nobody"
INVARIANTS TypeOK OneConnection SuccessTruthful BootTruthful
PROPERTIES CallsEnd
