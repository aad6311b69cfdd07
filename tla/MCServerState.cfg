\* Alerts: up to three records of 40 bytes, read together or apart, one of
\* them naming two entries.  Supplies: 3-bit ints, six mappings (two taken
\* at start-up), four requests on either transport.
CONSTANTS
  RecordKinds <- MCRecordKinds
  MaxAlerts = 3
  RecordLens = {40}
  NoEntry = NoEntry
  W = 3
  Deltas <- MCDeltas
  MaxMaps = 6
  MaxReqs = 4
SPECIFICATION Spec
INVARIANT TypeOK
 
