\* UDP peers on distinct ports: the UDP list, the dropped malformed datagram
\* and the crash on a non-string field; two TCP clients over one descriptor (EMFILE).
CONSTANTS
  Clients = {c1, c2}
  ClientFds = {7}
  MAX_CLIENTS = 2
  Requests = {}
  MaxSends = 0
  OneReadOneMessage = TRUE
  Controllers = {}
  SilentPeers = {}
  MaxAlerts = 0
  UdpPeers <- MCUdpPeersDistinct
  UdpRequests = {"request", "malformed", "nonstring"}
  MaxDatagrams = 3
  SigSources = {"terminal"}
  UDP_FAMILY = "AF_INET6"
  NoFd = NoFd
  NoPeer = NoPeer
SYMMETRY MCClientSymmetry
SPECIFICATION Spec
INVARIANT UdpRegistryFirstComers
