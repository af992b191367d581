SPECIFICATION Spec
CONSTANTS
  HeaderSize = 3
  StackSize = 8
  HeapSize = 10
  Width <- MCWidth
  Literals <- MCLiterals
  Args <- MCArgs
  MaxArgs = 4
INVARIANTS
  InBuffer
  PrintedAsLogged
CHECK_DEADLOCK FALSE
