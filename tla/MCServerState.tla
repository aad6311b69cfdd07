---------------------------- MODULE MCServerState ----------------------------
(* The data components of the parent process composed: the alert         *)
(* counters fed through the FIFO (AlertBridge) and the supply counters in  *)
(* shared memory (Supplies).  They share emergency_info, which the alert   *)
(* path and the TCP status and update requests both overwrite.  Each step  *)
(* is a step of one of them, as the parent runs one handler at a time; the *)
(* sensor worker keeps writing after the parent has crashed, the parent    *)
(* reads the FIFO only while it is alive.                                  *)
EXTENDS Integers

CONSTANTS RecordKinds, RecordLens, MaxAlerts, NoEntry, W, Deltas, MaxMaps, MaxReqs

VARIABLES fifo, emitted, counts, reads, lastEvent, stock, maps, pc, handled, last

A == INSTANCE AlertBridge
S == INSTANCE Supplies

alertVars  == <<fifo, emitted, counts, reads>>
supplyVars == <<stock, maps, pc, handled, last>>

Init == A!Init /\ S!Init

Next == \/ \E r \in RecordKinds, n \in RecordLens :
             A!SensorWrite(r, n) /\ UNCHANGED supplyVars
        \/ pc = "up" /\ A!CheckAlerts /\ UNCHANGED supplyVars
        \/ S!Next /\ UNCHANGED alertVars

Spec == Init /\ [][Next]_<<alertVars, supplyVars, lastEvent>>

(* A record naming SOUTH, and one naming NORTH and SOUTH (Scenario C).    *)
MCRecordKinds == {{"SOUTH"}, {"NORTH", "SOUTH"}}

(* A withdrawal, a small delivery, and a delivery that overflows a 3-bit   *)
(* counter already holding 1 or more.                                      *)
MCDeltas == {-2, 1, 3}

(* Both components keep their types: the FIFO and alert counters within  *)
(* their bounds, the supply counters within 0..INT_MAX.                    *)
TypeOK == A!TypeOK /\ S!TypeOK

SupplyRequestHonoured == S!SupplyRequestHonoured

(* Every alert text and emergency_info.last_event is NUL-terminated       *)
(* (AlertBridge!AlertTextsTerminated), whichever handler wrote it last.    *)
AlertTextsTerminated == A!AlertTextsTerminated

=============================================================================
