SPECIFICATION Spec
CONSTANTS
  k1 = k1  k2 = k2  None = None
  write = write  stream = stream  plain = plain  bad = bad  off = off
  garbled = garbled  deep = deep  role = role  lost = lost
  Clients <- TwoClients
  Requests = {write}
  Cached = {write}
  Streams = {}
  Anthropic = {}
  Unrouted = {}
  Malformed = {}
  Unparsable = {}
  Invalid = {}
  Unchecked = {}
  Allowed = {write}
  MaxChunks = 0
INVARIANTS ExecutedOnce
CHECK_DEADLOCK FALSE
