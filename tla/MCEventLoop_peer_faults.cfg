\* One client that may close at any time and sends refused, unparsable, ill-typed or ordinary requests.
CONSTANTS
  Clients = {c1}
  ClientFds = {7}
  MAX_CLIENTS = 1
  Requests = {"status", "auth_bad", "malformed", "nonstring"}
  MaxSends = 2
  OneReadOneMessage = TRUE
  Controllers = {}
  SilentPeers = {}
  MaxAlerts = 0
  UdpPeers = {}
  UdpRequests = {}
  MaxDatagrams = 0
  SigSources = {"terminal"}
  UDP_FAMILY = "AF_INET6"
  NoFd = NoFd
  NoPeer = NoPeer
SPECIFICATION Spec
PROPERTY PeerFaultsContained
