CONSTANTS
  Row <- MCRow
  Datasets <- MCDatasets
  N_ROWS = 5
  Page = 2
  DocInput <- MCDocInput
  SimCpt <- MCSimCpt
  LoadBounds <- MCLoadBounds
  TraceDefault <- MCTraceDefault
  BdGrid <- MCBdGrid
  FGrid <- MCFGrid
  BatchMax = 12
  SloBisections = 4
  FitBisections = 3
  MixGrid <- MCMixGrid
  BcGrid <- MCBcGrid
  BwRdma <- MCBwRdma
  BGrid <- MCBdGrid
  EpImbalance <- MCEpImbalance
  EtaGrid <- MCEtaGrid
  EtaGridJoint <- MCEtaGridJoint
  TdGrid <- MCTdGrid
  Cases <- MCDramCases
  Arguments <- MCNoArguments
  MixClasses <- MCMixClasses
  DefaultWork <- Long
SPECIFICATION ToolsSpec
INVARIANT OffloadedKvFits
CHECK_DEADLOCK FALSE
