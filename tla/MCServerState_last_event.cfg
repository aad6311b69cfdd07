\* One alert record of 100 bytes, within spec 3's 1024-byte limit.
CONSTANTS
  RecordKinds <- MCRecordKinds
  MaxAlerts = 1
  RecordLens = {100}
  NoEntry = NoEntry
  W = 3
  Deltas <- MCDeltas
  MaxMaps = 6
  MaxReqs = 4
SPECIFICATION Spec
INVARIANT AlertTextsTerminated
