SPECIFICATION FairSpec
CONSTANTS
  k1 = k1  k2 = k2  None = None
  write = write  stream = stream  plain = plain  bad = bad  off = off
  garbled = garbled  deep = deep  role = role  lost = lost
  Clients <- TwoClients
  Requests <- AllRequests
  Cached = {write, bad}
  Streams = {stream}
  Anthropic = {stream, plain, bad, role}
  Unrouted = {lost}
  Malformed = {garbled}
  Unparsable = {deep}
  Invalid = {bad}
  Unchecked = {role}
  Allowed = {write, stream, plain, bad, role}
  MaxChunks = 2
INVARIANTS TypeOK EffectsAccounted OneResponse HonestStream QuietWhenClosed
PROPERTIES AnsweredInFull RequestsServed StopTerminates ImplementsGateway
CHECK_DEADLOCK FALSE
