\* SIGINT from the terminal (process group) or from kill -INT to the parent alone.
CONSTANTS
  Clients = {c1}
  ClientFds = {7}
  MAX_CLIENTS = 1
  Requests = {"status"}
  MaxSends = 1
  OneReadOneMessage = TRUE
  Controllers = {}
  SilentPeers = {}
  MaxAlerts = 0
  UdpPeers = {}
  UdpRequests = {}
  MaxDatagrams = 0
  SigSources = {"terminal", "kill"}
  UDP_FAMILY = "AF_INET6"
  NoFd = NoFd
  NoPeer = NoPeer
SPECIFICATION Spec
INVARIANT SigintStopsGracefully
