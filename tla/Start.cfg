\* Arguments at and just outside the limits the program's hints state.
CONSTANTS
  NaN = NaN
  MaxLength = 11
SPECIFICATION Spec
CHECK_DEADLOCK FALSE
INVARIANT ArgumentsAsHinted
