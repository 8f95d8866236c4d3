SPECIFICATION Spec
CONSTANTS
  MaxName = 5
  MaxArgs = 2
  NameLens <- SmallNames
  ArgCounts <- FewArgs
  WasmLens <- SmallModules
INVARIANTS
  DecodedAsSent
  ArgsFitArgv
