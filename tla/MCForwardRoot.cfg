SPECIFICATION Spec
CHECK_DEADLOCK FALSE
CONSTANTS
  Nodes <- MCNodes
  Placeholder = "placeholder"
  Broken = "broken"
  Kind <- MCKind
  Inline <- MCInline
  Contents <- MCContents
  Inputs <- MCInputs
  Concurrency = 2
  MaxForwardDepth = 0
INVARIANT
  RootSortsFirst
