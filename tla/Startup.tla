------------------------------- MODULE Startup -------------------------------
(***************************************************************************)
(* Start-up of the alert path (src/src/server/main.c, server.c): main      *)
(* forks the sensor worker and the power worker and enters start_server,   *)
(* which sleeps one second "to make sure that child process created the   *)
(* fifo" and opens FIFO_PATH O_RDWR as descriptor 6.  The sensor worker    *)
(* first removes FIFO_PATH (cleanup_fifo) and then creates it               *)
(* (initiateAlertModule).  Nothing orders the parent's open after the      *)
(* child's mkfifo but the sleep, and nothing removes FIFO_PATH at exit, so *)
(* a FIFO from an earlier run may still be there.                          *)
(*                                                                         *)
(* A FIFO is named by the file it is: STALE (left by an earlier run) or    *)
(* CHILD (made by this run's mkfifo).  Opening a FIFO for writing blocks   *)
(* until the same FIFO has a reader; the parent's O_RDWR descriptor is     *)
(* both, so check_alerts' own open of FIFO_PATH O_RDONLY returns at once   *)
(* when FIFO_PATH is the parent's FIFO.                                    *)
(***************************************************************************)
EXTENDS Naturals

CONSTANTS
  MaxAlerts   \* alerts the sensor worker raises in a behaviour

ASSUME MaxAlerts \in Nat \ {0}

NONE  == "none"
STALE == "stale"
CHILD == "child"

VARIABLES
  parent,     \* "main", "forked", "server", "loop" or "exited"
  sensor,     \* "unborn", "cleanup", "mkfifo", "loop" or "write"
  path,       \* the FIFO named FIFO_PATH, or NONE
  fifoFd,     \* the FIFO start_server's fifo_fd refers to, or NONE
  pending,    \* records written into the parent's FIFO and not yet read
  raised,     \* alerts check_temperature_threshold decided to write
  delivered   \* records check_alerts has read

vars == <<parent, sensor, path, fifoFd, pending, raised, delivered>>

(* main: the SIGINT handler and the ports are set before the first fork   *)
(* and hold no state of this module; FIFO_PATH may be left from before.    *)
Init ==
  /\ parent = "main"
  /\ sensor = "unborn"
  /\ path \in {NONE, STALE}
  /\ fifoFd = NONE
  /\ pending = 0 /\ raised = 0 /\ delivered = 0

(* create_infection_alerts_process: the fork; the child starts.            *)
ForkSensor ==
  /\ parent = "main"
  /\ parent' = "forked" /\ sensor' = "cleanup"
  /\ UNCHANGED <<path, fifoFd, pending, raised, delivered>>

(* create_power_outage_alert_process: the power worker connects to the     *)
(* Unix socket minutes later and does not touch FIFO_PATH.                 *)
ForkPower ==
  /\ parent = "forked"
  /\ parent' = "server"
  /\ UNCHANGED <<sensor, path, fifoFd, pending, raised, delivered>>

(* start_server up to the select loop: sockets, sleep(1), then             *)
(* open(FIFO_PATH, O_RDWR); on failure perror and exit(EXIT_FAILURE),      *)
(* leaving both workers running.                                           *)
StartServer ==
  /\ parent = "server"
  /\ IF path = NONE
       THEN parent' = "exited" /\ fifoFd' = NONE
       ELSE parent' = "loop" /\ fifoFd' = path
  /\ UNCHANGED <<sensor, path, pending, raised, delivered>>

(* cleanup_fifo(FIFO_PATH) in the child: unlink, ENOENT ignored.           *)
CleanupFifo ==
  /\ sensor = "cleanup"
  /\ sensor' = "mkfifo" /\ path' = NONE
  /\ UNCHANGED <<parent, fifoFd, pending, raised, delivered>>

(* initiateAlertModule: mkfifo(FIFO_PATH) makes a new FIFO (only this      *)
(* child creates one, right after unlinking it); the sensors are set up.   *)
InitiateAlertModule ==
  /\ sensor = "mkfifo"
  /\ sensor' = "loop" /\ path' = CHILD
  /\ UNCHANGED <<parent, fifoFd, pending, raised, delivered>>

(* One pass of the worker's while loop: sleep(30), update_sensor_values,   *)
(* and check_temperature_threshold finds a reading above the threshold.   *)
RaiseAlert ==
  /\ sensor = "loop" /\ raised < MaxAlerts
  /\ sensor' = "write" /\ raised' = raised + 1
  /\ UNCHANGED <<parent, path, fifoFd, pending, delivered>>

(* The record written into FIFO_PATH: the open for writing returns only    *)
(* once that FIFO has a reader, which only the running parent's fd 6 is.  *)
HasReader(f) == parent = "loop" /\ fifoFd = f

WriteAlert ==
  /\ sensor = "write" /\ path # NONE /\ HasReader(path)
  /\ sensor' = "loop" /\ pending' = pending + 1
  /\ UNCHANGED <<parent, path, fifoFd, raised, delivered>>

(* select reports fd 6 readable; check_alerts opens FIFO_PATH O_RDONLY,   *)
(* which returns because the parent's O_RDWR end is a writer of the same  *)
(* FIFO, and one read takes every pending record.                         *)
CheckAlerts ==
  /\ parent = "loop" /\ pending > 0 /\ path = fifoFd
  /\ delivered' = delivered + pending /\ pending' = 0
  /\ UNCHANGED <<parent, sensor, path, fifoFd, raised>>

Next ==
  \/ ForkSensor \/ ForkPower \/ StartServer \/ CheckAlerts
  \/ CleanupFifo \/ InitiateAlertModule \/ RaiseAlert \/ WriteAlert

(* Both processes are scheduled by the kernel: each step the parent or the *)
(* worker can take is eventually taken.  Raising an alert depends on the   *)
(* simulated temperatures and gets no fairness.                            *)
Fairness ==
  /\ WF_vars(ForkSensor) /\ WF_vars(ForkPower) /\ WF_vars(StartServer)
  /\ WF_vars(CheckAlerts) /\ WF_vars(CleanupFifo)
  /\ WF_vars(InitiateAlertModule) /\ WF_vars(WriteAlert)

Spec == Init /\ [][Next]_vars /\ Fairness

-----------------------------------------------------------------------------

TypeOK ==
  /\ parent \in {"main", "forked", "server", "loop", "exited"}
  /\ sensor \in {"unborn", "cleanup", "mkfifo", "loop", "write"}
  /\ path \in {NONE, STALE, CHILD} /\ fifoFd \in {NONE, STALE, CHILD}
  /\ pending \in 0..MaxAlerts /\ raised \in 0..MaxAlerts
  /\ delivered \in 0..MaxAlerts

(* Every alert the sensor worker raises is eventually read by the parent's *)
(* check_alerts (spec 4.3: the worker's records are consumed by the loop). *)
(* The one-second sleep before start_server's open is what is meant to    *)
(* make the parent read the FIFO the worker writes.                        *)
AlertsReachParent ==
  \A k \in 1..MaxAlerts : (raised >= k) ~> (delivered >= k)

=============================================================================
