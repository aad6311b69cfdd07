----------------------------- MODULE AlertBridge -----------------------------
(***************************************************************************)
(* The alert path of src/src/server/server.c: the sensor worker writes    *)
(* alert records into the FIFO; when select reports the FIFO readable the  *)
(* parent's check_alerts does ONE read of at most BUFFER_SIZE bytes,       *)
(* copies the text into emergency_info.last_event, broadcasts it, and     *)
(* credits the entry detect_entry finds in it to entry_alerts_count.       *)
(*                                                                         *)
(* A record is abstracted to the set of entry names its text contains (the *)
(* only thing strstr looks for) and its length in bytes.  A read of a pipe *)
(* returns every byte pending up to the size asked for: here every pending *)
(* record, the constants keeping their total within BUFFER_SIZE (a read    *)
(* that cuts a record in two is not modelled).                             *)
(***************************************************************************)
EXTENDS Naturals, Sequences, FiniteSets, EmergencyInfo
LOCAL INSTANCE SequencesExt

CONSTANTS
  RecordKinds,   \* the entry names a record the sensor worker writes may contain
  RecordLens,    \* the lengths in bytes such a record may have
  MaxAlerts,     \* records the sensor worker writes at most
  NoEntry        \* detect_entry's NULL

(* sizeof(alert_message) in check_alerts.                                  *)
BUFFER_SIZE == 1024

(* The order of the strstr tests in detect_entry and of the increments in  *)
(* check_alerts.                                                           *)
Priority == <<"NORTH", "SOUTH", "EAST", "WEST">>
Entries == Range(Priority)

ASSUME /\ RecordKinds \subseteq SUBSET Entries
       /\ RecordLens \subseteq 1..BUFFER_SIZE /\ MaxAlerts \in Nat
       /\ \A n \in RecordLens : MaxAlerts * n <= BUFFER_SIZE
       /\ NoEntry \notin Entries

VARIABLES
  fifo,      \* records written and not yet read
  emitted,   \* records the sensor worker has written
  counts,    \* entry_alerts_count
  reads,     \* the texts check_alerts has read, each a sequence of records
  lastEvent  \* emergency_info.last_event (EmergencyInfo)

vars == <<fifo, emitted, counts, reads, lastEvent>>

(* The entry names a text contains, and its length.                       *)
Names(text) == UNION {text[i].names : i \in DOMAIN text}

TextLen(text) == FoldLeft(LAMBDA acc, r : acc + r.len, 0, text)

(* detect_entry: the first entry of the priority order whose name occurs  *)
(* in the text, or NULL.                                                   *)
RECURSIVE FirstNamed(_, _)
FirstNamed(order, names) ==
  IF order = <<>> THEN NoEntry
  ELSE IF Head(order) \in names THEN Head(order)
  ELSE FirstNamed(Tail(order), names)

DetectEntry(text) == FirstNamed(Priority, Names(text))

(* The if/else-if chain of check_alerts on detect_entry's result.          *)
CreditEntry(cnt, text) ==
  LET e == DetectEntry(text) IN
    IF e = NoEntry THEN cnt ELSE [cnt EXCEPT ![e] = @ + 1]

(* check_temperature_threshold writes one record into the FIFO (a write    *)
(* below PIPE_BUF is atomic).                                              *)
SensorWrite(r, n) ==
  /\ emitted < MaxAlerts
  /\ fifo' = Append(fifo, [names |-> r, len |-> n])
  /\ emitted' = emitted + 1
  /\ UNCHANGED <<counts, reads, lastEvent>>

(* check_alerts, called when select reports the FIFO readable: the read    *)
(* returns every pending record at once; on data it copies the text into   *)
(* emergency_info, broadcasts it (EventLoop) and credits one entry.        *)
CheckAlerts ==
  /\ fifo # <<>>
  /\ fifo' = <<>>
  /\ counts' = CreditEntry(counts, fifo)
  /\ reads' = Append(reads, fifo)
  /\ lastEvent' = UpdateEmergencyInfo(TextLen(fifo))
  /\ UNCHANGED emitted

Init ==
  /\ fifo = <<>>
  /\ emitted = 0
  /\ counts = [e \in Entries |-> 0]     \* initialize_entry_alerts_count
  /\ reads = <<>>
  /\ lastEvent = NoEvent

Next == (\E r \in RecordKinds, n \in RecordLens : SensorWrite(r, n)) \/ CheckAlerts

Spec == Init /\ [][Next]_vars

-----------------------------------------------------------------------------

TypeOK ==
  /\ fifo \in Seq([names : RecordKinds, len : RecordLens]) /\ Len(fifo) <= MaxAlerts
  /\ emitted \in 0..MaxAlerts
  /\ counts \in [Entries -> 0..MaxAlerts]
  /\ EventTypeOK(lastEvent)

(* The entry spec 4.3 credits for a text, stated without detect_entry's   *)
(* scan: of the entries the text names, the one first in the fixed order  *)
(* north, south, east, west (Scenario C: "NORTH and SOUTH" counts NORTH).  *)
Rank(e) == CHOOSE i \in DOMAIN Priority : Priority[i] = e

SpecEntry(text) ==
  IF Names(text) = {} THEN NoEntry
  ELSE CHOOSE e \in Names(text) : \A f \in Names(text) : Rank(e) <= Rank(f)

AlertTextsTerminated ==
  /\ \A i \in DOMAIN reads : TextLen(reads[i]) < BUFFER_SIZE
  /\ lastEvent.terminated

=============================================================================
