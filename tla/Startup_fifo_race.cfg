\* Start-up with one alert, from a fresh /tmp or with a FIFO left behind.
\* The system stops once the alert is read, or stays blocked when it is not.
CONSTANTS
  MaxAlerts = 1
SPECIFICATION Spec
PROPERTY AlertsReachParent
CHECK_DEADLOCK FALSE
