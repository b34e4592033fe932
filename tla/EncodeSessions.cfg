\* The built-in rules on every Go type of the universe; registered encoders,
\* WithGoType and numeric rounding on some, where the caller's code runs
\* inside the encode and answers freely.
CONSTANTS
  Go <- Universe
  Calls <- AllCalls
  Answers <- EncoderAnswers
  EncodeSpanner <- Encodes
  StackLimit = 8
SPECIFICATION Spec
INVARIANTS
  TypeOK
  UsableType
  TypeAgreement
  ValueMirrored
  FailureNamesFirstCulprit
  SliceHelperAgreement
  PanicsOnInterfaceEncoder
  NoOverflow
  FallthroughStaysInside
  HomogeneousElements
  ResultFitsType
  OverrideIsTotal
  LastRegistrationWins
