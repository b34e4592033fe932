\* Every helper on every struct, under up to two mask options.
CONSTANTS
  Decls <- Structs
  Arguments <- Args
  NameLists <- Lists
  MaxOptions = 2
  Inference <- FieldInference
  Encoding <- FieldEncoding
  Refused = {"refused"}
SPECIFICATION Spec
INVARIANTS
  TypeOK
  MaskKeptExactly
  MistakesReported
  AlignedWithRowType
  FirstFailureNamed
  PanicsOnWantedOnly
