----------------------------- MODULE MCEventLoop -----------------------------
(* Instantiation of EventLoop for TLC: small sets of peers and fds.         *)
EXTENDS EventLoop, TLC

(* Three UDP senders on different ports, and two that share a port.       *)
MCUdpPeersDistinct ==
  {[addr |-> "a1", port |-> 1, flowinfo |-> 0],
   [addr |-> "a2", port |-> 2, flowinfo |-> 0],
   [addr |-> "a1", port |-> 3, flowinfo |-> 0]}

MCUdpPeersSamePort ==
  {[addr |-> "a1", port |-> 1, flowinfo |-> 0],
   [addr |-> "a2", port |-> 1, flowinfo |-> 0]}

MCClientSymmetry == Permutations(Clients)

=============================================================================
