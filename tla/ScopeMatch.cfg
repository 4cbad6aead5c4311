SPECIFICATION Spec
CONSTANTS
  Session = {s1}
  Name <- MCName
  Address <- MCAddress
  V6 = {"v", "w"}
  Canonical = {"i", "v"}
  Contract = {"0xc", "0xd"}
  Network <- MCNetwork
  Rule <- MCRule
  Target <- MCTarget
  MaxRules = 3
  MaxRows = 1
INVARIANTS TypeOK EnforcerIsExact ToolsStayInScope FlagWasRight
CHECK_DEADLOCK FALSE
