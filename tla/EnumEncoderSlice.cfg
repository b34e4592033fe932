\* A slice of enums that implement spanner.Encoder.
CONSTANTS
  Go <- Universe
  Calls <- EnumEncoderCalls
  Answers <- EncoderAnswers
  EncodeSpanner <- Encodes
  StackLimit = 8
SPECIFICATION Spec
INVARIANTS
  InferableEncodes
