CONSTANTS
  Row <- MCRow
  Datasets <- MCDatasets
  N_ROWS = 5
  Page = 2
  DocInput <- MCDocInput
  SimCpt <- MCSimCpt
  LoadBounds <- MCLoadBounds
  TraceDefault <- MCTraceDefault
  BdGrid <- MCBdGrid
  FGrid <- MCFGrid
  BatchMax = 12
  SloBisections = 4
  FitBisections = 3
  MixGrid <- MCMixGrid
  BcGrid <- MCBcGrid
  BwRdma <- MCBwRdma
  BGrid <- MCBdGrid
  EpImbalance <- MCEpImbalance
  EtaGrid <- MCEtaGrid
  EtaGridJoint <- MCEtaGridJoint
  TdGrid <- MCTdGrid
  Cases <- MCCases
  Arguments <- MCArguments
  MixClasses <- MCMixClasses
  DefaultWork <- Long
SPECIFICATION ToolsSpec
INVARIANTS
  TypeOK TraceUsable SegmentsTile BestPoint LargestWithinSlo OverlapFitted
  PhysicalBounds CalibrationRecovers VerdictHolds
CHECK_DEADLOCK FALSE
