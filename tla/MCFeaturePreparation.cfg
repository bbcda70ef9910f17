CONSTANTS
  Strength = 50
  Trailing = 3
  None = None
  Refused = Refused
  SampleCap = 2
  Datasets <- MCDatasets
  Manifests <- MCManifests
SPECIFICATION Spec
CHECK_DEADLOCK FALSE
INVARIANTS NoLookAhead ServingParity RowsKeepTheirLabels DescribedData
