------------------------------- MODULE Supplies -------------------------------
(***************************************************************************)
(* The supply counters (src/lib/suppliesData/src/supplies_module.c) as the *)
(* request handlers of src/src/server/server.c use them.  Every status,    *)
(* update, summary or invalid request on TCP, and every UDP datagram with  *)
(* both fields, attaches the two shared-memory segments again             *)
(* (get_food_supply, get_medicine_supply: shmat, never shmdt); summary     *)
(* attaches them once more in create_summary_json.  shmat fails once the   *)
(* process holds MaxMaps mappings and the getter returns NULL.             *)
(*                                                                         *)
(* The counters are C ints of W bits; `x += valueint` overflows with the   *)
(* build's two's-complement wrap before the clamp `if (x < 0) x = 0`.     *)
(***************************************************************************)
EXTENDS Integers, FiniteSets, EmergencyInfo

CONSTANTS
  W,          \* width of int
  Deltas,     \* values a request may carry for an item (cJSON valueint)
  MaxMaps,    \* shared-memory mappings the process can hold
  MaxReqs     \* supply requests handled at most

FoodItems     == {"meat", "vegetables", "fruits", "water"}
MedicineItems == {"antibiotics", "analgesics", "bandages"}
Items == FoodItems \cup MedicineItems

IntMin == -(2^(W - 1))
IntMax == 2^(W - 1) - 1
Int_ == IntMin..IntMax

ASSUME /\ W \in Nat \ {0} /\ Deltas \subseteq Int_
       /\ MaxMaps \in Nat /\ MaxReqs \in Nat

(* The deltas one update carries: "food" and "medicine" objects with some  *)
(* of their fields.  Kept to one item of each group to stay small.        *)
Updates ==
  {[i \in {} |-> 0]}
  \cup {[i \in {f} |-> d] : f \in {"fruits"}, d \in Deltas}
  \cup {[i \in {m} |-> d] : m \in {"bandages"}, d \in Deltas}

VARIABLES
  stock,    \* the seven counters in shared memory
  maps,     \* mappings attached so far
  pc,       \* "up" or "segv"
  handled,  \* requests handled
  last,     \* the last request: [via, kind, upd, admin, before] for the properties
  lastEvent \* emergency_info.last_event (EmergencyInfo)

vars == <<stock, maps, pc, handled, last, lastEvent>>

(* The longest "Status request from TCP client %s" or "Update request      *)
(* from TCP client %s": 31 bytes and an address of INET6_ADDRSTRLEN - 1.   *)
TCP_LOG_LEN == 31 + (46 - 1)

(* Two's-complement wrap of an int result.                                 *)
Wrap(x) == ((x - IntMin) % (2^W)) + IntMin

(* Mutant: the clamp forgotten.                                            *)
AddNoClamp(v, d) == Wrap(v + d)

(* `x += valueint; if (x < 0) x = 0;`                                      *)
ClampedAdd(v, d) == IF Wrap(v + d) < 0 THEN 0 ELSE Wrap(v + d)

(* update_supplies_from_json with both pointers valid.                     *)
ApplyUpdate(st, upd) ==
  [i \in Items |-> IF i \in DOMAIN upd THEN ClampedAdd(st[i], upd[i]) ELSE st[i]]

(* get_food_supply then get_medicine_supply: which of the two attached.   *)
FoodOk == maps < MaxMaps
MedOk  == maps + (IF FoodOk THEN 1 ELSE 0) < MaxMaps
Attached == (IF FoodOk THEN 1 ELSE 0) + (IF MedOk THEN 1 ELSE 0)

(* convert_supplies_to_json reads every field through both pointers        *)
(* without a NULL check: it survives only when both were attached.         *)
ConvertOk == FoodOk /\ MedOk

(* update_supplies_from_json dereferences a NULL pointer when the update   *)
(* names an item of its group.                                             *)
UpdateFaults(upd) ==
  \/ ~FoodOk /\ DOMAIN upd \cap FoodItems # {}
  \/ ~MedOk  /\ DOMAIN upd \cap MedicineItems # {}

(* The mappings after create_summary_json attached both segments again.    *)
SummaryMaps(m) == m + (IF m < MaxMaps THEN 1 ELSE 0) + (IF m + 1 < MaxMaps THEN 1 ELSE 0)

(* The update branch of check_udp_clients_messages: applied only when the  *)
(* hostname is the admin user, and with the pointers unchecked.            *)
UdpUpdate(upd, admin) ==
  IF ~admin THEN UNCHANGED <<stock, pc>>
  ELSE IF UpdateFaults(upd) THEN pc' = "segv" /\ UNCHANGED stock
  ELSE stock' = ApplyUpdate(stock, upd) /\ UNCHANGED pc

Record(via, kind, upd, admin) ==
  last' = [via |-> via, kind |-> kind, upd |-> upd, admin |-> admin, before |-> stock]

(* One supply request of check_tcp_clients_messages (via "tcp") or       *)
(* check_udp_clients_messages (via "udp", admin: the hostname matched).  *)
(* A TCP status or update first records its log text in emergency_info. *)
(* status converts both pointers (NULL: crash); TCP update skips the       *)
(* update when either pointer is NULL, UDP update does not check;         *)
(* summary goes through create_summary_json.                               *)
Request(via, kind, upd, admin) ==
  /\ pc = "up" /\ handled < MaxReqs
  /\ handled' = handled + 1
  /\ Record(via, kind, upd, admin)
  /\ lastEvent' = IF via = "tcp" /\ kind \in {"status", "update"}
                  THEN UpdateEmergencyInfo(TCP_LOG_LEN) ELSE lastEvent
  /\ CASE kind = "status" ->
            /\ maps' = maps + Attached
            /\ pc' = IF ConvertOk THEN "up" ELSE "segv"
            /\ UNCHANGED stock
       [] kind = "update" /\ via = "tcp" ->
            /\ maps' = maps + Attached
            /\ stock' = IF FoodOk /\ MedOk THEN ApplyUpdate(stock, upd) ELSE stock
            /\ UNCHANGED pc
       [] kind = "update" /\ via = "udp" ->
            /\ maps' = maps + Attached
            /\ UdpUpdate(upd, admin)
       [] kind = "summary" ->
            LET m == maps + Attached IN
              /\ maps' = SummaryMaps(m)
              /\ pc' = IF m + 2 <= MaxMaps THEN "up" ELSE "segv"
              /\ UNCHANGED stock
       [] kind = "invalid" ->
            /\ maps' = maps + Attached
            /\ UNCHANGED <<stock, pc>>

(* The clients stop sending, or the process has crashed: nothing happens.  *)
Idle == (pc = "segv" \/ handled = MaxReqs) /\ UNCHANGED vars

Kinds == {"status", "update", "summary", "invalid"}

Init ==
  /\ stock = [i \in Items |-> 0]      \* init_shared_memory_supplies
  /\ maps = 2                         \* its two shmat, never detached
  /\ pc = "up"
  /\ handled = 0
  /\ last = [via |-> "none", kind |-> "none", upd |-> [i \in {} |-> 0],
             admin |-> FALSE, before |-> stock]
  /\ lastEvent = NoEvent

Next ==
  \E via \in {"tcp", "udp"}, kind \in Kinds, upd \in Updates, admin \in BOOLEAN :
    /\ (kind # "update" => upd = [i \in {} |-> 0])
    /\ (via = "tcp" => admin = FALSE)
    /\ Request(via, kind, upd, admin)
  \/ Idle

Spec == Init /\ [][Next]_vars

-----------------------------------------------------------------------------

TypeOK ==
  /\ stock \in [Items -> 0..IntMax]
  /\ maps \in 0..MaxMaps
  /\ pc \in {"up", "segv"}
  /\ handled \in 0..MaxReqs
  /\ EventTypeOK(lastEvent)

(* An update the server accepts: any TCP one (no authentication check on  *)
(* the TCP path), a UDP one only with the admin hostname.                  *)
Authorized(r) == r.kind = "update" /\ (r.via = "tcp" \/ r.admin)

(* The update the specification describes: each present field's delta     *)
(* added, the floor clamped at zero, in the integers.                      *)
SpecUpdate(st, upd) ==
  [i \in Items |-> IF i \in DOMAIN upd
                   THEN IF st[i] + upd[i] < 0 THEN 0 ELSE st[i] + upd[i]
                   ELSE st[i]]

(* Every supply request is served as spec 4.4 says: the server survives it *)
(* and an accepted update leaves each named counter at max(0, old + delta). *)
SupplyRequestHonoured ==
  /\ pc = "up"
  /\ Authorized(last) => stock = SpecUpdate(last.before, last.upd)

=============================================================================
