SPECIFICATION Spec
CONSTANTS
  s1 = s1  s2 = s2  ghost = ghost  c1 = c1  c2 = c2  n1 = n1  t1 = t1
  h1 = h1  h2 = h2  h3 = h3  None = None
  Names <- MCNames
  Servers <- MCServers
  Contents <- MCContents
  Handles <- MCHandles
  Large = {c2}
  Notices = {}
  Chatter = {}
  MaxLines = 0
SYMMETRY Symmetry
INVARIANTS TypeOK AnswersMatch KeptProcessOwesNothing
PROPERTIES ImplementsRpc
CHECK_DEADLOCK FALSE
