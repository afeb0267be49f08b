\* Three lines of up to two symbols, each ended with CR LF or LF, received in pieces of up to four bytes.
CONSTANTS
  Text = {"a", "b"}
  MaxLength = 2
  MaxLines = 3
  BufSize = 4
SPECIFICATION Spec
CHECK_DEADLOCK FALSE
INVARIANTS LinesWhole TailKept NothingLost
