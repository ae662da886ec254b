SPECIFICATION Spec
CONSTANTS
  Hosts <- MCHosts
  Ancestors <- MCAncestors
  Stems <- MCStems
  Raws <- MCRaws
  Batches <- MCBatches
  Policies <- MCPolicies
  Tree <- MCTree
  Patterns <- MCPatterns
  Codes = {0, 1}
  PageElements = {e1, e2}
  MaxDocs = 3
  Calls = {c1, c2}
  MaxLaunches = 2
  Files = {f1}
  Symbols = {x, y}
  MaxText = 3
  Finds <- MCFinds
  Replacements <- MCReplacements
  PrivateHosts = {"site.local"}
  MaxRedirects = 2
  SkipDirs = {".git"}
  Lines = {"x", "nul"}
  Binary = {"nul"}
  MaxLines = 2
  Unreadables <- MCUnreadables
  MaxFileLines = 1
  MaxResults = 2
  MaxWalkFiles = 2
INVARIANTS
  AsksOnceThenHonours StatusIsTheCommands CloseReleasesChrome
  EditIsExact SearchTellsAll
PROPERTIES
  ExecReturns NumbersAreLatest
CHECK_DEADLOCK FALSE
