\* A digit so far right that the rendering does not reach it.
CONSTANTS
  Base = 10
  ScaleUnit = 10
  WholeUnit = 10
  Rats <- Thirds
SPECIFICATION Spec
CHECK_DEADLOCK FALSE
INVARIANT InexactRefused
