\* one command word; up to seven lines typed: room for three swaps, commands
\* on both sides and the exit
CONSTANTS
  Cmds = {ls}
  MaxLines = 7
SPECIFICATION Spec
INVARIANT TypeOK
INVARIANT RolesMatch
INVARIANT SwapIsLast
PROPERTY EveryLineRead
PROPERTY ExitEndsSession
\* the children wait for the user's next line, which may never come
CHECK_DEADLOCK FALSE
