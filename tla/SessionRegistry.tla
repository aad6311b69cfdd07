--------------------------- MODULE SessionRegistry ---------------------------
(***************************************************************************)
(* What the TCP side of the server promises about its sessions, without    *)
(* descriptors, select or dispatch: the set of open sessions, and the list *)
(* of sessions that receive broadcasts (alerts, disconnect notices).  A    *)
(* session joins the list when it is opened and the list has room, keeps  *)
(* its place while it is open, and leaves it, the others keeping their     *)
(* order, when it is closed.  A session opened while the list is full is   *)
(* never listed later, even when a place frees up.                         *)
(*                                                                         *)
(* EventLoop implements this specification under the mapping of           *)
(* EventLoop!Reg: a client is open when accepted and not yet closed by the *)
(* server, and the list is tcp_clients read through the clients' fds.     *)
(***************************************************************************)
EXTENDS Naturals, Sequences
LOCAL INSTANCE SequencesExt

CONSTANTS
  Clients,   \* the sessions
  N          \* room in the broadcast list

VARIABLES
  open,      \* sessions open on the server side
  listed     \* the broadcast list, in order of opening

vars == <<open, listed>>

Init == open = {} /\ listed = <<>>

(* A session is opened; it is listed when the list has room.               *)
Open(c) ==
  /\ c \notin open
  /\ open' = open \cup {c}
  /\ listed' = IF Len(listed) < N THEN Append(listed, c) ELSE listed

(* An open session is closed and leaves the list.                          *)
Close(c) ==
  /\ c \in open
  /\ open' = open \ {c}
  /\ listed' = SelectSeq(listed, LAMBDA x : x # c)

Next == \E c \in Clients : Open(c) \/ Close(c)

Spec == Init /\ [][Next]_vars

=============================================================================
