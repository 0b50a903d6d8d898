SPECIFICATION ReplaySpec
CONSTANTS
  Contracts = {c1, c2, c3}
  None = None
  Packages = {"one", "two", "shared"}
  Dars = {"dar1", "dar2"}
  Main <- TwoMains
  Prints = {"x", "y"}
  NoPackage = NoPackage
  MaxRequired = 2
  SourceMappers = {FALSE, TRUE}
  MaxFrames = 3
  MaxSteps <- TraceLengths
CHECK_DEADLOCK FALSE
INVARIANTS
  EnvironmentExact
  AskedOnce
  ClosureComplete
  SourcesAgree
  StackIsControl
PROPERTIES
  LoadingEnds
  SkipsExactlyTheCallee
