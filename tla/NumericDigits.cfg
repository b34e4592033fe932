\* Two digits in all, one of them fractional.
CONSTANTS
  Base = 10
  ScaleUnit = 10
  WholeUnit = 10
  Rats <- Multiples
SPECIFICATION Spec
CHECK_DEADLOCK FALSE
INVARIANTS
  TypeOK
  RepresentableIsExact
  AcceptedFits
