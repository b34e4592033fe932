\* Calls whose encoding re-enters encodeValue.
CONSTANTS
  Go <- Universe
  Calls <- ReenteringCalls
  Answers <- EncoderAnswers
  EncodeSpanner <- Encodes
  StackLimit = 8
SPECIFICATION Spec
PROPERTY
  Returns
