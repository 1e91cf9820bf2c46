SPECIFICATION Spec
CONSTANTS
  Text <- MCText
  Configs <- MCConfigs
  Requests <- MCRequests
  Altered <- MCAltered
INVARIANTS TypeOK OnlyTheDerivedContract AdmittedStaysInScope WritesStayOnBranches SpellingIrrelevant GateAndAllowlistAgree DeclaredIsUsable
