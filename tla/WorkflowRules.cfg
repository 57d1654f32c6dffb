SPECIFICATION RulesSpec
CONSTANTS
  Symbol <- MCSymbol
  Variable <- MCVariable
  NoPrefix = NoPrefix
  Written <- MCWritten
  Path <- MCPath
  Text <- MCText
  Rule <- MCRule
  None = None
INVARIANTS
  SettingsAsWritten
  InvalidCostsOnlyItself
  FilesLandInPlace
CHECK_DEADLOCK FALSE
