\* A struct type that refers to itself.
CONSTANTS
  Go <- NodeUniverse
  Calls <- NodeCalls
  Answers <- EncoderAnswers
  EncodeSpanner <- Encodes
  StackLimit = 12
SPECIFICATION Spec
INVARIANTS
  InferenceReturns
