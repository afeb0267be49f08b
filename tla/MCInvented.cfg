\* A peer that ends its lines with CR LF, or with LF before delimiter is set.
CONSTANTS
  Text = {"a"}
  MaxLength = 1
  MaxLines = 2
  BufSize = 4
SPECIFICATION Spec
CHECK_DEADLOCK FALSE
INVARIANT NothingInvented
