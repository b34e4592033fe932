\* TypeFromGoType on slices of interfaces.
CONSTANTS
  Go <- Universe
  Calls <- InterfaceCalls
  Answers <- EncoderAnswers
  EncodeSpanner <- Encodes
  StackLimit = 8
SPECIFICATION Spec
INVARIANTS
  InferenceNeverPanics
