

CONSTANTS
  Clients = {}
  ClientFds = {7}
  MAX_CLIENTS = 2
  Requests = {}
  MaxSends = 0
  OneReadOneMessage = TRUE
  Controllers = {}
  SilentPeers = {}
  MaxAlerts = 0
  UdpPeers <- MCUdpPeersSamePort
  UdpRequests = {"request", "malformed", "nonstring"}
  MaxDatagrams = 3
  SigSources = {"terminal"}
  UDP_FAMILY = "AF_INET6"
  NoFd = NoFd
  NoPeer = NoPeer
SPECIFICATION Spec
INVARIANT UdpRegistryFirstComers
