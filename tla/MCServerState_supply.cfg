\* Supply requests on both transports with 3-bit counters and six mappings.

CONSTANTS
  RecordKinds <- MCRecordKinds
  MaxAlerts = 3
  RecordLens = {40}
  NoEntry = NoEntry
  W = 3
  Deltas <- MCDeltas
  MaxMaps = 6
  MaxReqs = 4
SPECIFICATION Spec
INVARIANT SupplyRequestHonoured
