\* A connection accepted while tcp_clients is full is served but never listed.
CONSTANTS
  Clients = {c1, c2}
  ClientFds = {7, 8}
  MAX_CLIENTS = 1
  Requests = {"status"}
  MaxSends = 1
  OneReadOneMessage = TRUE
  Controllers = {}
  SilentPeers = {}
  MaxAlerts = 0
  UdpPeers = {}
  UdpRequests = {}
  MaxDatagrams = 0
  SigSources = {"terminal"}
  UDP_FAMILY = "AF_INET6"
  NoFd = NoFd
  NoPeer = NoPeer
SPECIFICATION Spec
INVARIANT AcceptedAreRegistered
