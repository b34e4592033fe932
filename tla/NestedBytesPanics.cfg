\* Slices of slices of a named byte type.
CONSTANTS
  Go <- Universe
  Calls <- NestedBytesCalls
  Answers <- EncoderAnswers
  EncodeSpanner <- Encodes
  StackLimit = 8
SPECIFICATION Spec
INVARIANTS
  InferableNeverPanics
