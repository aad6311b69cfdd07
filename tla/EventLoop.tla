------------------------------ MODULE EventLoop ------------------------------
(***************************************************************************)
(* The parent process of the shelter server: the select loop of           *)
(* start_server (src/src/server/server.c) over the TCP listener, the UDP  *)
(* socket, the Unix control listener, the alert FIFO and every accepted   *)
(* TCP client, with the handlers it calls, the SIGINT handler, and the    *)
(* environment the loop reacts to: TCP clients, UDP peers, local processes *)
(* on the Unix socket, the sensor worker that writes alert records into    *)
(* the FIFO and the power-outage worker that connects to the Unix socket.  *)
(*                                                                         *)
(* Message contents are abstracted to their kind; alert text and supply   *)
(* arithmetic are the subject of AlertBridge and Supplies.                 *)
(***************************************************************************)
EXTENDS Naturals, Sequences, FiniteSets, ClientRegistry
LOCAL INSTANCE SequencesExt

CONSTANTS
  Clients,            \* TCP client processes
  ClientFds,          \* descriptors the kernel can hand out (the fd limit)
  Requests,           \* kinds of TCP request the clients may send
  MaxSends,           \* requests one TCP client sends at most
  OneReadOneMessage,  \* TRUE: every recv returns exactly one whole message
  Controllers,        \* local processes that connect to the Unix socket
  SilentPeers,        \* controllers that may connect and then stall
  MaxAlerts,          \* alert records the sensor worker writes at most
  UdpPeers,           \* UDP peers: records [addr, port, flowinfo]
  UdpRequests,        \* kinds of datagram the UDP peers may send
  MaxDatagrams,       \* datagrams sent at most, all peers together
  SigSources,         \* "terminal": SIGINT to the process group; "kill": to the parent only
  NoFd,               \* no descriptor
  NoPeer              \* no Unix peer

(* Descriptors of the listeners, in the order start_server opens them.    *)
TCP_FD  == 3
UDP_FD  == 4
UNIX_FD == 5
FIFO_FD == 6

POWER == "power"                        \* the power-outage worker as a Unix peer
UnixPeers == Controllers \cup {POWER}
Workers == {"sensor", "power"}

TcpRequests == {"auth_ok", "auth_bad", "status", "update", "summary",
                "invalid", "malformed", "nonstring"}

ASSUME /\ Requests \subseteq TcpRequests
       /\ ClientFds \subseteq Nat /\ \A f \in ClientFds : f > FIFO_FD
       /\ SilentPeers \subseteq Controllers /\ POWER \notin Controllers
       /\ UdpRequests \subseteq {"request", "malformed", "nonstring"}
       /\ SigSources \subseteq {"terminal", "kill"} /\ SigSources # {}
       /\ OneReadOneMessage \in BOOLEAN
       /\ MaxSends \in Nat /\ MaxAlerts \in Nat /\ MaxDatagrams \in Nat

VARIABLES
  running,      \* SERVER_RUNNING
  pc,           \* "select", "dispatch", "unix_recv", or how the parent ended
  readFds,      \* read_fds: reported by select, not yet reached by the fd loop
  master,       \* the accepted client descriptors in master_fds
  tcpClients,   \* tcp_clients
  udpClients,   \* udp_clients
  phase,        \* TCP client: "idle", "backlog", "accepted", "closed" (by the server)
  peer,         \* TCP client's own end: "up", "fin" (it closed), "rst" (reset)
  cfd,          \* TCP client's server-side descriptor, or NoFd
  inbox,        \* TCP client's sent, unread requests
  sent,         \* TCP client's requests sent so far
  lost,         \* TCP client's requests read by the server and never acted on
  unixQ,        \* the Unix listener's backlog
  unixSt,       \* Unix peer: "idle", "connected", "sent", "hangup", "served"
  unixCur,      \* the Unix peer the parent is blocked in recv on
  fifo,         \* alert records in the FIFO, unread
  emitted,      \* alert records the sensor worker has written
  udpQ,         \* datagrams queued on the UDP socket
  udpSent,      \* datagrams sent so far
  udpArrivals,  \* peers whose datagram parsed, in processing order
  worker,       \* worker process: "running", "signalled", "stopped"
  lastEvent     \* emergency_info.last_event, as the kind of event that wrote it

vars == <<running, pc, readFds, master, tcpClients, udpClients, phase, peer,
          cfd, inbox, sent, lost, unixQ, unixSt, unixCur, fifo, emitted, udpQ,
          udpSent, udpArrivals, worker, lastEvent>>

Exited == {"off", "aborted", "sigpipe", "segv"}

-----------------------------------------------------------------------------
(* Readiness, as select computes it.                                       *)

UsedFds == {cfd[c] : c \in Clients} \ {NoFd}

ClientReadable(c) == inbox[c] # <<>> \/ peer[c] # "up"

ListenerReady(f) ==
  CASE f = TCP_FD  -> \E c \in Clients : phase[c] = "backlog"
    [] f = UDP_FD  -> udpQ # <<>>
    [] f = UNIX_FD -> unixQ # <<>>
    [] f = FIFO_FD -> fifo > 0

ReadyFds ==
  {f \in {TCP_FD, UDP_FD, UNIX_FD, FIFO_FD} : ListenerReady(f)}
  \cup {cfd[c] : c \in {x \in Clients : cfd[x] \in master /\ ClientReadable(x)}}

(* The descriptor the fd loop handles next: the loop runs upwards.         *)
NextFd == Min(readFds)

(* Sending to the TCP clients S: a send to a peer that closed draws a      *)
(* reset; a send to a reset peer raises SIGPIPE, whose default action     *)
(* kills the server (no handler is installed for it).                     *)
AfterSend(S) == [c \in Clients |-> IF c \in S /\ peer[c] = "fin" THEN "rst" ELSE peer[c]]
SendKills(S) == \E c \in S : peer[c] = "rst"

Registered == {c \in Clients : cfd[c] \in {tcpClients[i] : i \in 1..Len(tcpClients)}}

(* send_to_all_tcp_clients, after which the parent goes on at resume.     *)
BroadcastTcp(resume) ==
  /\ peer' = AfterSend(Registered)
  /\ pc' = IF SendKills(Registered) THEN "sigpipe" ELSE resume

-----------------------------------------------------------------------------
(* The parent process.                                                     *)

(* The top of while (SERVER_RUNNING): select blocks until a member of     *)
(* master_fds is readable; read_fds is what it reports.                    *)
Select ==
  /\ pc = "select"
  /\ ReadyFds # {}
  /\ readFds' = ReadyFds
  /\ pc' = "dispatch"
  /\ UNCHANGED <<running, master, tcpClients, udpClients, phase, peer, cfd,
                 inbox, sent, lost, unixQ, unixSt, unixCur, fifo, emitted,
                 udpQ, udpSent, udpArrivals, worker, lastEvent>>

(* Mutant: the loop does not test SERVER_RUNNING again (while (1)).       *)
LoopTopIgnoresFlag ==
  /\ pc = "dispatch"
  /\ readFds = {}
  /\ pc' = "select"
  /\ UNCHANGED <<running, readFds, master, tcpClients, udpClients, phase, peer,
                 cfd, inbox, sent, lost, unixQ, unixSt, unixCur, fifo, emitted,
                 udpQ, udpSent, udpArrivals, worker, lastEvent>>

(* The fd loop has passed max_fd: loop again, or leave the loop.           *)
LoopTop ==
  /\ pc = "dispatch"
  /\ readFds = {}
  /\ pc' = IF running THEN "select" ELSE "off"
  /\ UNCHANGED <<running, readFds, master, tcpClients, udpClients, phase, peer,
                 cfd, inbox, sent, lost, unixQ, unixSt, unixCur, fifo, emitted,
                 udpQ, udpSent, udpArrivals, worker, lastEvent>>

(* Mutant: the accepted descriptor is registered but not put in master_fds. *)
AcceptTcpNoFdSet(c) ==
  /\ phase[c] = "backlog"
  /\ ClientFds \ UsedFds # {}
  /\ LET fd == Min(ClientFds \ UsedFds) IN
       /\ phase' = [phase EXCEPT ![c] = "accepted"]
       /\ cfd' = [cfd EXCEPT ![c] = fd]
       /\ tcpClients' = AddTcpClient(fd, tcpClients)
       /\ UNCHANGED master

(* TCP listener readable: accept_tcp_connection accepts a pending        *)
(* connection on the lowest free descriptor and calls add_tcp_client; back *)
(* in start_server the descriptor joins master_fds whether or not the list *)
(* took it.                                                                *)
AcceptTcp(c) ==
  /\ phase[c] = "backlog"
  /\ ClientFds \ UsedFds # {}
  /\ LET fd == Min(ClientFds \ UsedFds) IN
       /\ phase' = [phase EXCEPT ![c] = "accepted"]
       /\ cfd' = [cfd EXCEPT ![c] = fd]
       /\ tcpClients' = AddTcpClient(fd, tcpClients)
       /\ master' = master \cup {fd}

HandleTcpListener ==
  /\ pc = "dispatch" /\ readFds # {} /\ NextFd = TCP_FD
  /\ readFds' = readFds \ {TCP_FD}
  /\ \/ \E c \in Clients : AcceptTcp(c)
     \/ /\ ClientFds \ UsedFds = {}          \* accept fails with EMFILE
        /\ UNCHANGED <<phase, cfd, tcpClients, master>>
  /\ UNCHANGED <<running, pc, udpClients, peer, inbox, sent, lost, unixQ,
                 unixSt, unixCur, fifo, emitted, udpQ, udpSent, udpArrivals,
                 worker, lastEvent>>

(* A UDP list entry: the server's UDP socket and the sender's address.     *)
UdpEntry(p) == [sockfd |-> UDP_FD, addr |-> p.addr, port |-> p.port,
                flowinfo |-> p.flowinfo]

(* UDP socket readable: check_udp_clients_messages reads one datagram.    *)
(* An unparsable one is dropped before the sender is cached; a parsed one  *)
(* caches the sender (add_udp_client) before any field is looked at.  A    *)
(* "nonstring" datagram is one whose "message" is not a string: its NULL *)
(* valuestring goes to strcmp(value, "update") (764), whichever branch.  Replies go out with sendto, which cannot raise        *)
(* SIGPIPE; supply updates are the subject of Supplies.                    *)
HandleUdp ==
  /\ pc = "dispatch" /\ readFds # {} /\ NextFd = UDP_FD
  /\ readFds' = readFds \ {UDP_FD}
  /\ udpQ' = Tail(udpQ)
  /\ LET dg == Head(udpQ) IN
       IF dg.kind = "malformed"
       THEN UNCHANGED <<udpClients, udpArrivals, pc>>
       ELSE /\ udpClients' = AddUdpClient(udpClients, UdpEntry(dg.peer))
            /\ udpArrivals' = Append(udpArrivals, dg.peer)
            /\ pc' = IF dg.kind = "nonstring" THEN "segv" ELSE pc
  /\ UNCHANGED <<running, master, tcpClients, phase, peer, cfd, inbox, sent,
                 lost, unixQ, unixSt, unixCur, fifo, emitted, udpSent, worker,
                 lastEvent>>

(* Mutant: recv is taken to return only when data arrived.                 *)
UnixRecvReturnsOnData(p) == unixSt[p] = "sent"

(* recv on the accepted Unix connection returns once the peer has sent     *)
(* (bytes_received > 0) or closed (0); until then it blocks the parent.    *)
UnixRecvReturns(p) == unixSt[p] \in {"sent", "hangup"}

(* The rest of handle_unix_socket_activity once recv returned: on data the *)
(* "disconnect" notice goes to every listed TCP client; then close.        *)
UnixServe(p, resume) ==
  /\ unixSt' = [unixSt EXCEPT ![p] = "served"]
  /\ IF unixSt[p] = "sent" THEN BroadcastTcp(resume)
                           ELSE UNCHANGED peer /\ pc' = resume

(* Unix listener readable: accept one connection, then recv on it.         *)
HandleUnixListener ==
  /\ pc = "dispatch" /\ readFds # {} /\ NextFd = UNIX_FD
  /\ readFds' = readFds \ {UNIX_FD}
  /\ unixQ' = Tail(unixQ)
  /\ LET p == Head(unixQ) IN
       IF UnixRecvReturns(p)
       THEN UnixServe(p, pc) /\ UNCHANGED unixCur
       ELSE /\ pc' = "unix_recv"
            /\ unixCur' = p
            /\ UNCHANGED <<unixSt, peer>>
  /\ UNCHANGED <<running, master, tcpClients, udpClients, phase, cfd, inbox,
                 sent, lost, fifo, emitted, udpQ, udpSent, udpArrivals, worker,
                 lastEvent>>

(* The parent, blocked in recv on a Unix connection, gets its answer.      *)
UnixRecv ==
  /\ pc = "unix_recv"
  /\ UnixRecvReturns(unixCur)
  /\ UnixServe(unixCur, "dispatch")
  /\ unixCur' = NoPeer
  /\ UNCHANGED <<running, readFds, master, tcpClients, udpClients, phase, cfd,
                 inbox, sent, lost, unixQ, fifo, emitted, udpQ, udpSent,
                 udpArrivals, worker, lastEvent>>

(* FIFO readable: check_alerts reads the pending records in one read,     *)
(* overwrites emergency_info and sends the text to every listed TCP and   *)
(* UDP peer (sendto to UDP peers changes no modelled state).               *)
HandleFifo ==
  /\ pc = "dispatch" /\ readFds # {} /\ NextFd = FIFO_FD
  /\ readFds' = readFds \ {FIFO_FD}
  /\ fifo' = 0
  /\ lastEvent' = "alert"
  /\ BroadcastTcp(pc)
  /\ UNCHANGED <<running, master, tcpClients, udpClients, phase, cfd, inbox,
                 sent, lost, unixQ, unixSt, unixCur, emitted, udpQ, udpSent,
                 udpArrivals, worker>>

(* Mutant: the descriptor is closed and cleared but stays in tcp_clients.  *)
DisconnectNoRemove(c) ==
  /\ phase' = [phase EXCEPT ![c] = "closed"]
  /\ cfd' = [cfd EXCEPT ![c] = NoFd]
  /\ master' = master \ {cfd[c]}
  /\ UNCHANGED tcpClients

(* handle_tcp_socket_activity when check_tcp_clients_messages returns 0   *)
(* (or getpeername fails): close, FD_CLR, remove_tcp_client.              *)
Disconnect(c) ==
  /\ phase' = [phase EXCEPT ![c] = "closed"]
  /\ cfd' = [cfd EXCEPT ![c] = NoFd]
  /\ master' = master \ {cfd[c]}
  /\ tcpClients' = RemoveTcpClient(cfd[c], tcpClients)

Replied == {"auth_ok", "auth_bad", "status", "summary"}

(* check_tcp_clients_messages on one parsed request m: a reply for         *)
(* authenticateme, status and summary; emergency_info for status and       *)
(* update; return 0 (so the caller disconnects) for an unparsable request  *)
(* and for a failed authentication; strcmp on a NULL valuestring for a     *)
(* "message" or "hostname" that is not a string.                           *)
ServeRequest(c, m) ==
  IF m = "nonstring"
  THEN /\ pc' = "segv"
       /\ UNCHANGED <<peer, lastEvent, phase, cfd, master, tcpClients>>
  ELSE /\ peer' = IF m \in Replied THEN AfterSend({c}) ELSE peer
       /\ pc' = IF m \in Replied /\ SendKills({c}) THEN "sigpipe" ELSE pc
       /\ lastEvent' = IF m \in {"status", "update"} THEN m ELSE lastEvent
       /\ IF m \in {"malformed", "auth_bad"}
          THEN Disconnect(c)
          ELSE UNCHANGED <<phase, cfd, master, tcpClients>>

(* How many queued requests one recv of BUFFER_SIZE bytes returns.  When   *)
(* it returns several, cJSON_Parse parses the first and ignores the rest.  *)
ReadLengths(c) == IF OneReadOneMessage THEN {1} ELSE 1..Len(inbox[c])

(* An accepted client's descriptor readable: handle_tcp_socket_activity.   *)
HandleTcpClient(c) ==
  /\ pc = "dispatch" /\ readFds # {} /\ NextFd = cfd[c]
  /\ readFds' = readFds \ {cfd[c]}
  /\ \/ /\ inbox[c] = <<>>                  \* recv returns 0 (FIN) or -1 (RST)
        /\ Disconnect(c)
        /\ UNCHANGED <<peer, pc, inbox, lost, lastEvent>>
     \/ /\ inbox[c] # <<>>
        /\ \E k \in ReadLengths(c) :
             /\ inbox' = [inbox EXCEPT ![c] = SubSeq(@, k + 1, Len(@))]
             /\ lost' = [lost EXCEPT ![c] = @ + (k - 1)]
             /\ ServeRequest(c, inbox[c][1])
     \/ /\ ~OneReadOneMessage                \* recv ends inside the first request
        /\ inbox[c] # <<>>
        /\ inbox' = [inbox EXCEPT ![c] = Tail(@)]
        /\ Disconnect(c)
        /\ UNCHANGED <<peer, pc, lost, lastEvent>>
  /\ UNCHANGED <<running, udpClients, sent, unixQ, unixSt, unixCur, fifo,
                 emitted, udpQ, udpSent, udpArrivals, worker>>

(* SIGINT: sigint_handler clears SERVER_RUNNING and sends SIGINT to        *)
(* alerts_pid; power_outage_pid is never assigned (the fork in             *)
(* create_power_outage_alert_process stores its pid in a local of the same *)
(* name), so the power worker gets the signal only from the terminal.     *)
(* A select or recv the signal interrupts returns -1 (EINTR): select's     *)
(* failure exits the process, recv's is reported and the Unix connection   *)
(* closed.  pc = "select" spans the while test (85), read_fds = master_fds *)
(* and the call (90): a signal that lands before select blocks leaves it   *)
(* blocked, SERVER_RUNNING cleared, until a descriptor becomes readable.   *)
Signalled(src) ==
  [w \in Workers |-> IF worker[w] = "running" /\ (w = "sensor" \/ src = "terminal")
                     THEN "signalled" ELSE worker[w]]

AfterSigint ==
  CASE pc = "select"    -> {"aborted", "select"}
    [] pc = "unix_recv" -> {"dispatch"}
    [] OTHER            -> {pc}

Sigint(src) ==
  /\ pc \notin Exited
  /\ running \/ pc = "unix_recv"
  /\ running' = FALSE
  /\ worker' = Signalled(src)
  /\ pc' \in AfterSigint
  /\ IF pc = "unix_recv"
     THEN unixSt' = [unixSt EXCEPT ![unixCur] = "served"] /\ unixCur' = NoPeer
     ELSE UNCHANGED <<unixSt, unixCur>>
  /\ UNCHANGED <<readFds, master, tcpClients, udpClients, phase, peer, cfd,
                 inbox, sent, lost, unixQ, fifo, emitted, udpQ, udpSent,
                 udpArrivals, lastEvent>>

-----------------------------------------------------------------------------
(* The environment.  Once the parent has exited nothing it could observe   *)
(* happens any more, except the workers ending.                            *)

EnvUnchanged == <<running, pc, readFds, master, tcpClients, udpClients, cfd,
                  lost, unixCur, udpArrivals, lastEvent>>

Connect(c) ==
  /\ pc \notin Exited /\ phase[c] = "idle"
  /\ phase' = [phase EXCEPT ![c] = "backlog"]
  /\ UNCHANGED <<peer, inbox, sent, unixQ, unixSt, fifo, emitted, udpQ,
                 udpSent, worker>> /\ UNCHANGED EnvUnchanged

Send(c, r) ==
  /\ pc \notin Exited /\ phase[c] \in {"backlog", "accepted"}
  /\ peer[c] = "up" /\ sent[c] < MaxSends
  /\ inbox' = [inbox EXCEPT ![c] = Append(@, r)]
  /\ sent' = [sent EXCEPT ![c] = @ + 1]
  /\ UNCHANGED <<phase, peer, unixQ, unixSt, fifo, emitted, udpQ, udpSent,
                 worker>> /\ UNCHANGED EnvUnchanged

Close(c) ==
  /\ pc \notin Exited /\ phase[c] \in {"backlog", "accepted"} /\ peer[c] = "up"
  /\ peer' = [peer EXCEPT ![c] = "fin"]
  /\ UNCHANGED <<phase, inbox, sent, unixQ, unixSt, fifo, emitted, udpQ,
                 udpSent, worker>> /\ UNCHANGED EnvUnchanged

(* A Unix peer connects; the power worker does so while it runs            *)
(* (init_emergency_notification).                                          *)
UnixConnect(p) ==
  /\ pc \notin Exited /\ unixSt[p] = "idle"
  /\ p = POWER => worker[POWER] # "stopped"
  /\ unixSt' = [unixSt EXCEPT ![p] = "connected"]
  /\ unixQ' = Append(unixQ, p)
  /\ UNCHANGED <<phase, peer, inbox, sent, fifo, emitted, udpQ, udpSent,
                 worker>> /\ UNCHANGED EnvUnchanged

(* It sends its message (simulate_electricity_failure for the worker).     *)
UnixSend(p) ==
  /\ pc \notin Exited /\ unixSt[p] = "connected"
  /\ unixSt' = [unixSt EXCEPT ![p] = "sent"]
  /\ UNCHANGED <<phase, peer, inbox, sent, unixQ, fifo, emitted, udpQ,
                 udpSent, worker>> /\ UNCHANGED EnvUnchanged

(* A controller closes without sending.                                    *)
UnixHangup(p) ==
  /\ pc \notin Exited /\ p \in Controllers /\ unixSt[p] = "connected"
  /\ unixSt' = [unixSt EXCEPT ![p] = "hangup"]
  /\ UNCHANGED <<phase, peer, inbox, sent, unixQ, fifo, emitted, udpQ,
                 udpSent, worker>> /\ UNCHANGED EnvUnchanged

(* The sensor worker writes an alert record into the FIFO; it does so      *)
(* once more after SIGINT, the interrupted sleep being followed by one     *)
(* more check_temperature_threshold.                                       *)
SensorWrite ==
  /\ pc \notin Exited /\ worker["sensor"] # "stopped" /\ emitted < MaxAlerts
  /\ fifo' = fifo + 1
  /\ emitted' = emitted + 1
  /\ UNCHANGED <<phase, peer, inbox, sent, unixQ, unixSt, udpQ, udpSent,
                 worker>> /\ UNCHANGED EnvUnchanged

UdpSend(p, k) ==
  /\ pc \notin Exited /\ udpSent < MaxDatagrams
  /\ udpQ' = Append(udpQ, [peer |-> p, kind |-> k])
  /\ udpSent' = udpSent + 1
  /\ UNCHANGED <<phase, peer, inbox, sent, unixQ, unixSt, fifo, emitted,
                 worker>> /\ UNCHANGED EnvUnchanged

(* A signalled worker leaves its loop; the power worker finishes the       *)
(* notification it has started first.                                      *)
WorkerExit(w) ==
  /\ worker[w] = "signalled"
  /\ w = POWER => unixSt[POWER] # "connected"
  /\ worker' = [worker EXCEPT ![w] = "stopped"]
  /\ UNCHANGED <<phase, peer, inbox, sent, unixQ, unixSt, fifo, emitted, udpQ,
                 udpSent>> /\ UNCHANGED EnvUnchanged

(* The parent has exited, or a SIGINT that landed before select left it    *)
(* blocked there for good once nothing else arrives: the system may stop.  *)
Done == (pc \in Exited \/ (pc = "select" /\ ~running)) /\ UNCHANGED vars

-----------------------------------------------------------------------------

Init ==
  /\ running = TRUE
  /\ pc = "select"
  /\ readFds = {}
  /\ master = {}
  /\ tcpClients = <<>>
  /\ udpClients = <<>>
  /\ phase = [c \in Clients |-> "idle"]
  /\ peer = [c \in Clients |-> "up"]
  /\ cfd = [c \in Clients |-> NoFd]
  /\ inbox = [c \in Clients |-> <<>>]
  /\ sent = [c \in Clients |-> 0]
  /\ lost = [c \in Clients |-> 0]
  /\ unixQ = <<>>
  /\ unixSt = [p \in UnixPeers |-> "idle"]
  /\ unixCur = NoPeer
  /\ fifo = 0
  /\ emitted = 0
  /\ udpQ = <<>>
  /\ udpSent = 0
  /\ udpArrivals = <<>>
  /\ worker = [w \in Workers |-> "running"]
  /\ lastEvent = "none"

ServerStep ==
  \/ Select
  \/ LoopTop
  \/ HandleTcpListener
  \/ HandleUdp
  \/ HandleUnixListener
  \/ UnixRecv
  \/ HandleFifo
  \/ \E c \in Clients : HandleTcpClient(c)

Environment ==
  \/ \E c \in Clients : Connect(c) \/ Close(c) \/ \E r \in Requests : Send(c, r)
  \/ \E p \in UnixPeers : UnixConnect(p) \/ UnixSend(p) \/ UnixHangup(p)
  \/ SensorWrite
  \/ \E p \in UdpPeers, k \in UdpRequests : UdpSend(p, k)
  \/ \E w \in Workers : WorkerExit(w)
  \/ \E src \in SigSources : Sigint(src)

Next == ServerStep \/ Environment \/ Done

(* The parent runs whenever select has something to report; a worker that  *)
(* got SIGINT leaves its loop; the power worker sends right after it       *)
(* connects; controllers other than the silent ones send or close.  TCP    *)
(* clients, UDP peers and the operator's SIGINT get no fairness.           *)
Fairness ==
  /\ WF_vars(ServerStep)
  /\ \A w \in Workers : WF_vars(WorkerExit(w))
  /\ WF_vars(UnixSend(POWER))
  /\ \A p \in Controllers \ SilentPeers : WF_vars(UnixSend(p) \/ UnixHangup(p))

Spec == Init /\ [][Next]_vars /\ Fairness

-----------------------------------------------------------------------------
(* Properties.                                                             *)

TypeOK ==
  /\ running \in BOOLEAN
  /\ pc \in {"select", "dispatch", "unix_recv"} \cup Exited
  /\ readFds \subseteq {TCP_FD, UDP_FD, UNIX_FD, FIFO_FD} \cup ClientFds
  /\ master \subseteq ClientFds
  /\ tcpClients \in Seq(ClientFds) /\ Len(tcpClients) <= MAX_CLIENTS
  /\ udpClients \in Seq({UdpEntry(p) : p \in UdpPeers})
  /\ Len(udpClients) <= MAX_CLIENTS
  /\ phase \in [Clients -> {"idle", "backlog", "accepted", "closed"}]
  /\ peer \in [Clients -> {"up", "fin", "rst"}]
  /\ cfd \in [Clients -> ClientFds \cup {NoFd}]
  /\ \A c \in Clients : inbox[c] \in Seq(Requests)
  /\ sent \in [Clients -> 0..MaxSends] /\ lost \in [Clients -> 0..MaxSends]
  /\ unixSt \in [UnixPeers -> {"idle", "connected", "sent", "hangup", "served"}]
  /\ unixCur \in UnixPeers \cup {NoPeer}
  /\ fifo \in 0..MaxAlerts /\ emitted \in 0..MaxAlerts
  /\ udpSent \in 0..MaxDatagrams
  /\ worker \in [Workers -> {"running", "signalled", "stopped"}]
  /\ lastEvent \in {"none", "status", "update", "alert"}

(* tcp_clients, the list every broadcast walks, names only connections the *)
(* server still holds open and watches, each once: a descriptor that was   *)
(* closed, and possibly handed to a later connection, is never in it.     *)
RegistryTracksOpenClients ==
  /\ IsInjective(tcpClients)
  /\ \A i \in 1..Len(tcpClients) :
       \E c \in Clients : /\ cfd[c] = tcpClients[i]
                          /\ phase[c] = "accepted"
                          /\ cfd[c] \in master

(* Every connection the server accepted and serves is in tcp_clients, so   *)
(* it receives the broadcasts (spec 7, 9: a connection the full list       *)
(* refuses is to be closed, not served).                                   *)
AcceptedAreRegistered == \A c \in Clients : phase[c] = "accepted" => c \in Registered

(* Nothing a peer does kills the server: no SIGPIPE from a send to a reset *)
(* connection, no NULL dereference on a request (spec 7: never a crash).   *)
ServerNeverCrashes == pc \notin {"sigpipe", "segv"}

(* SIGINT stops the server as spec 5 and 6 say: an interrupt only clears   *)
(* the running flag and signals the two workers, it does not unblock the  *)
(* wait (the loop ends at its next test and main exits 0, never through    *)
(* the exit(EXIT_FAILURE) after a failed select), and once the parent has  *)
(* handled it no worker is left running unsignalled.  It takes a signal    *)
(* that reaches the parent alone, or one that lands in select, to break.   *)
SigintStopsGracefully ==
  /\ pc # "aborted"
  /\ ~running => \A w \in Workers : worker[w] # "running"

(* The server closes a TCP connection only after its peer closed or reset *)
(* it: a malformed or refused request leaves the connection usable (spec   *)
(* 4.4, 7).                                                                *)
ServerClosesOnlyDeadPeers ==
  [][\A c \in Clients : phase[c] = "accepted" /\ phase'[c] = "closed" => peer[c] # "up"]_vars

(* A faulty peer affects only itself (spec 7): a closed or reset           *)
(* connection, an unparsable, unauthorized or ill-typed request never      *)
(* takes the server down, and only a peer that has gone away loses its     *)
(* connection; the others keep being served.                               *)
PeerFaultsContained == []ServerNeverCrashes /\ ServerClosesOnlyDeadPeers

(* The UDP list holds the first MAX_CLIENTS distinct senders (distinct by  *)
(* address and port, spec 3) in the order their datagrams were handled.   *)
ExpectedUdp ==
  LET Add(acc, p) ==
        IF \/ \E i \in 1..Len(acc) : acc[i].addr = p.addr /\ acc[i].port = p.port
           \/ Len(acc) >= MAX_CLIENTS
        THEN acc ELSE Append(acc, UdpEntry(p))
  IN FoldLeft(Add, <<>>, udpArrivals)

UdpRegistryFirstComers == udpClients = ExpectedUdp

(* The parent always comes back to select (or ends): no handler blocks it  *)
(* for good (spec 5: only the readiness wait may block).                   *)
LoopProgress == []<>(pc \in {"select"} \cup Exited)

(* A request queued on an accepted connection is eventually read, unless  *)
(* the server closes the connection or ends first.                         *)
RequestsEventuallyRead ==
  \A c \in Clients :
    (phase[c] = "accepted" /\ inbox[c] # <<>>)
      ~> (inbox[c] = <<>> \/ phase[c] = "closed" \/ pc \in Exited)

(* After SIGINT the parent ends at the next event (spec 5: an interrupt    *)
(* does not unblock the wait, so shutdown waits for the next readable      *)
(* descriptor): once SERVER_RUNNING is cleared and the parent is in a      *)
(* handler, or in select with something to report, it leaves the loop.    *)
ShutdownAtNextEvent ==
  (~running /\ (pc # "select" \/ ReadyFds # {})) ~> pc \in Exited

-----------------------------------------------------------------------------
(* Refinement of SessionRegistry.  A session is a client the server has    *)
(* accepted and not closed; the broadcast list is tcp_clients, each fd     *)
(* read as the client that holds it.                                       *)

(* The client whose server-side descriptor is fd (NoFd if none holds it). *)
ClientOf(fd) ==
  IF \E c \in Clients : cfd[c] = fd THEN CHOOSE c \in Clients : cfd[c] = fd ELSE NoFd

Reg == INSTANCE SessionRegistry
         WITH N <- MAX_CLIENTS,
              open <- {c \in Clients : phase[c] = "accepted"},
              listed <- [i \in 1..Len(tcpClients) |-> ClientOf(tcpClients[i])]

(* The parent keeps tcp_clients as SessionRegistry says: each accept lists *)
(* the new client at the end when there is room, each server-side close   *)
(* takes exactly that client out and keeps the others in order, and no     *)
(* other step (a reply, a broadcast, a reused descriptor, SIGINT) changes  *)
(* who is listed.                                                          *)
ImplementsSessionRegistry == Reg!Spec

=============================================================================
