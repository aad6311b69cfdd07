---------------------------- MODULE EmergencyInfo ----------------------------
(***************************************************************************)
(* emergency_info.last_event (src/include/server.h: char last_event[100]) *)
(* as the request and alert handlers of src/src/server/server.c write it  *)
(* through update_emergency_info.  A text is abstracted to its length in   *)
(* bytes; what is stored is the number of bytes copied and whether a NUL   *)
(* ends them.                                                              *)
(***************************************************************************)
EXTENDS Naturals

(* sizeof(emergency_info.last_event).                                     *)
LAST_EVENT_SIZE == 100

(* The zero-initialised global: an empty, terminated string.               *)
NoEvent == [bytes |-> 0, terminated |-> TRUE]

(* update_emergency_info(ts, event): strncpy(last_event, event, 100)       *)
(* copies at most 100 bytes and writes the NUL only when the event is      *)
(* shorter than that.                                                      *)
UpdateEmergencyInfo(n) ==
  [bytes |-> IF n < LAST_EVENT_SIZE THEN n ELSE LAST_EVENT_SIZE,
   terminated |-> n < LAST_EVENT_SIZE]

EventTypeOK(e) == e \in [bytes : 0..LAST_EVENT_SIZE, terminated : BOOLEAN]

=============================================================================
