\* Converting a point of the verification key.
CONSTANTS
  Byte = 2
  FP_BYTES = 2
  FP_MODULUS = 3
  CircleBytes = 2
  RoundBytes = 1
  IC_LENGTH = 2
SPECIFICATION WireSpec
INVARIANT VerificationKeyIsReadBack
CHECK_DEADLOCK FALSE
