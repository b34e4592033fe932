\* An encoder registered for string, and a value of a named string type.
CONSTANTS
  Go <- Universe
  Calls <- NamedStringCalls
  Answers <- EncoderAnswers
  EncodeSpanner <- Encodes
  StackLimit = 8
SPECIFICATION Spec
INVARIANTS
  ExactTypeMatching
