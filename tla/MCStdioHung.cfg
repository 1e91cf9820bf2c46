SPECIFICATION BrokerSpec
CONSTANTS
  s1 = s1  s2 = s2  ghost = ghost  c1 = c1  c2 = c2  n1 = n1  t1 = t1
  h1 = h1  h2 = h2  h3 = h3  None = None
  Names <- OneName
  Servers <- OneServer
  Contents <- MCContents
  Handles <- TwoHandles
  Large = {c2}
  Notices = {}
  Chatter = {}
  MaxLines = 0
PROPERTIES CallsTerminate
CHECK_DEADLOCK FALSE
