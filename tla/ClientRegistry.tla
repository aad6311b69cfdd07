--------------------------- MODULE ClientRegistry ---------------------------
(***************************************************************************)
(* The two bounded peer lists of src/src/server/server.c: TCPClientList   *)
(* (accepted TCP descriptors) and UDPClientList (UDP peers cached on their *)
(* first datagram).  The lists are C arrays with a count; here they are    *)
(* sequences, the count being their length.  The module has no variables: *)
(* its operators are the list operations, used by the modules that own    *)
(* the lists.                                                              *)
(***************************************************************************)
EXTENDS Naturals, Sequences
LOCAL INSTANCE SequencesExt

CONSTANTS
  MAX_CLIENTS,   \* capacity of each list (MAX_CLIENTS in server.h)
  UDP_FAMILY     \* address family of the UDP server socket: "AF_INET" or "AF_INET6"

ASSUME MAX_CLIENTS \in Nat \ {0}
ASSUME UDP_FAMILY \in {"AF_INET", "AF_INET6"}

(* Mutant: the capacity test written with <= (one slot too many).          *)
AddTcpClientOffByOne(fd, list) ==
  IF Len(list) <= MAX_CLIENTS THEN Append(list, fd) ELSE list

(* add_tcp_client: append below capacity; when full the descriptor is     *)
(* only reported ("Can't add more clients") and the caller keeps it open.  *)
AddTcpClient(fd, list) ==
  IF Len(list) < MAX_CLIENTS THEN Append(list, fd) ELSE list

(* Mutant: the count decremented without shifting the entries after fd.   *)
RemoveTcpClientNoShift(fd, list) ==
  IF \E i \in 1..Len(list) : list[i] = fd THEN SubSeq(list, 1, Len(list) - 1) ELSE list

(* remove_tcp_client: the first entry equal to fd is removed and the      *)
(* entries after it shift one place left; no-op when fd is absent.         *)
RemoveTcpClient(fd, list) == RemoveFirst(list, fd)

(* A UDP peer is a record [addr, port, flowinfo].  add_udp_client casts   *)
(* both sockaddr_storage values to sockaddr_in and compares sin_addr and   *)
(* sin_port.  For an AF_INET6 socket the four bytes at sin_addr's offset   *)
(* are sin6_flowinfo, not the address; sin_port overlays sin6_port.        *)
SinAddrField(p) == IF UDP_FAMILY = "AF_INET6" THEN p.flowinfo ELSE p.addr

SameUdpClient(a, b) == SinAddrField(a) = SinAddrField(b) /\ a.port = b.port

(* Mutant: every datagram's sender is appended, without the scan.         *)
AddUdpClientNoScan(list, client) ==
  IF Len(list) < MAX_CLIENTS THEN Append(list, client) ELSE list

(* Mutant: the capacity test of add_udp_client written with <=.          *)
AddUdpClientOffByOne(list, client) ==
  IF \E i \in 1..Len(list) : SameUdpClient(list[i], client)
  THEN list
  ELSE IF Len(list) <= MAX_CLIENTS THEN Append(list, client) ELSE list

(* add_udp_client: a peer that compares equal to a cached one is not      *)
(* added (first write wins); otherwise append below capacity.              *)
AddUdpClient(list, client) ==
  IF \E i \in 1..Len(list) : SameUdpClient(list[i], client)
  THEN list
  ELSE IF Len(list) < MAX_CLIENTS THEN Append(list, client) ELSE list

(* remove_udp_client: removes the first entry whose sockfd matches.  No   *)
(* code path calls it; every cached peer carries the one UDP socket.       *)
RemoveUdpClient(list, sockfd) == RemoveFirstMatch(list, LAMBDA e : e.sockfd = sockfd)

=============================================================================
