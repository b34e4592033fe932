\* Two goroutines that compile encoders and share them, and callers that
\* write to everything they were handed.
CONSTANTS
  g1 = g1
  g2 = g2
  Goroutines = {g1, g2}
  T = "Row"
  Decls <- Structs
  Masks <- MaskSet
  Items <- ItemMap
  Options <- OptionSet
  Refused = {"refused"}
  Encode <- Encodes
  Inference <- FieldInference
  MaxCalls = 3
  Zero = Zero
  Junk = Junk
SPECIFICATION Spec
SYMMETRY Interchangeable
CHECK_DEADLOCK FALSE
INVARIANTS
  TypeOK
  CacheIntact
  EncodersIntact
  ResultsIntact
  CompilesWithoutRowType
  FailureNamesColumn
