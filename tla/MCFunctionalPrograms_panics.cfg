\* A function that panics in Rust and that F* accepts.
SPECIFICATION PhasesSpec
CONSTANTS
  Bodies <- PanickingBodies
  Arguments <- MCArguments
INVARIANTS NeverPanics
CHECK_DEADLOCK FALSE
