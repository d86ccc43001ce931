SPECIFICATION Spec
CONSTANTS
  Signatures <- MCSignatures
  Operands <- MCOperands
  MaxI32 = 7
  MaxI64 = 15
CHECK_DEADLOCK FALSE
INVARIANTS
  PackStaysInBounds
  NativeSlotsMatchEntry
  NativeAddressesAgree
  InterpreterAddressesAgree
