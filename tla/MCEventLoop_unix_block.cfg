\* A local process connects to the Unix socket and never sends.
CONSTANTS
  Clients = {c1}
  ClientFds = {7}
  MAX_CLIENTS = 1
  Requests = {"status"}
  MaxSends = 1
  OneReadOneMessage = TRUE
  Controllers = {"ctl"}
  SilentPeers = {"ctl"}
  MaxAlerts = 0
  UdpPeers = {}
  UdpRequests = {}
  MaxDatagrams = 0
  SigSources = {"terminal"}
  UDP_FAMILY = "AF_INET6"
  NoFd = NoFd
  NoPeer = NoPeer
SPECIFICATION Spec
PROPERTY LoopProgress
