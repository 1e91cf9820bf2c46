SPECIFICATION FairSpec
CONSTANTS
  s1 = s1  s2 = s2  ghost = ghost  c1 = c1  c2 = c2  n1 = n1  t1 = t1
  h1 = h1  h2 = h2  h3 = h3  None = None
  Names <- OneServer
  Servers <- OneServer
  Contents = {c1}
  Handles <- TwoHandles
  Large = {c1}
  Notices = {n1}
  Chatter = {t1}
  MaxLines = 1
INVARIANTS NoStrayProcess
PROPERTIES CallsTerminate
CHECK_DEADLOCK FALSE
