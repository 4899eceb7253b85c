CONSTANTS
  root = root
  a = a
  b = b
  n = n
  m = m
  Servers = {root, a, b}
  NsNames = {n, m}
  Roots <- MCRoots
  Fallback <- MCFallback
  Replies <- MCReplies
  Books <- MCAll
  MaxHops = 3
SPECIFICATION FairSpec
INVARIANTS TypeOK NoteIsTrue FindsAnswer
PROPERTY Terminates
CHECK_DEADLOCK FALSE
