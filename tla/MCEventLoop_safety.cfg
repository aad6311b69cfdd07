\* Three clients over three descriptors and a two-entry tcp_clients: accepts into a full list, disconnects that shift the list, descriptor reuse, power notices broadcast, SIGINT from either source.
CONSTANTS
  Clients = {c1, c2, c3}
  ClientFds = {7, 8, 9}
  MAX_CLIENTS = 2
  Requests = {"status", "auth_bad", "nonstring"}
  MaxSends = 1
  OneReadOneMessage = TRUE
  Controllers = {}
  SilentPeers = {}
  MaxAlerts = 0
  UdpPeers = {}
  UdpRequests = {}
  MaxDatagrams = 0
  SigSources = {"terminal", "kill"}
  UDP_FAMILY = "AF_INET6"
  NoFd = NoFd
  NoPeer = NoPeer
SYMMETRY MCClientSymmetry
SPECIFICATION Spec
INVARIANT TypeOK
INVARIANT RegistryTracksOpenClients
PROPERTY ImplementsSessionRegistry
