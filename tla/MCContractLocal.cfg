SPECIFICATION Spec
CONSTANTS
  Text <- MCText
  Configs <- MCConfigs
  Requests <- MCRequests
  Altered <- MCAltered
INVARIANTS ServersServed
