\* One client, a controller that sends or hangs up, the power worker and one alert: the loop keeps returning to select, requests get read, SIGINT ends the parent.
CONSTANTS
  Clients = {c1}
  ClientFds = {7}
  MAX_CLIENTS = 1
  Requests = {"auth_ok", "update", "summary", "invalid", "malformed"}
  MaxSends = 1
  OneReadOneMessage = FALSE
  Controllers = {"ctl"}
  SilentPeers = {}
  MaxAlerts = 1
  UdpPeers = {}
  UdpRequests = {}
  MaxDatagrams = 0
  SigSources = {"terminal"}
  UDP_FAMILY = "AF_INET6"
  NoFd = NoFd
  NoPeer = NoPeer
SPECIFICATION Spec
PROPERTY LoopProgress
PROPERTY ShutdownAtNextEvent
PROPERTY RequestsEventuallyRead
