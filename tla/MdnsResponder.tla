---------------------------- MODULE MdnsResponder ----------------------------
(***************************************************************************)
(* The mDNS responder (mdns.cpp): a thread that announces the device and   *)
(* answers queries on a UDP socket, and the Stop that closes this socket   *)
(* while the thread may use it.  socket_fd_ and the socket are one variable*)
(* here, since Stop closes the one and forgets the other without a test of *)
(* what the thread does.                                                   *)
(***************************************************************************)
CONSTANT Fortified   \* the C library checks the argument of FD_SET

ASSUME MdnsAssumption == Fortified \in BOOLEAN

VARIABLES udp,         \* socket_fd_: none, open or closed
          mrunning,    \* running_
          responder    \* where the thread is

mdnsVars == <<udp, mrunning, responder>>

MdnsInit == udp = "none" /\ mrunning = FALSE /\ responder = "none"

(* Start: without a socket, or when the port cannot be bound, webd goes on *)
(* without a responder. A failing multicast join is only logged.           *)
MdnsStart ==
  \/ udp' = "open" /\ mrunning' = TRUE /\ responder' = "top"
  \/ UNCHANGED mdnsVars

MdnsStop ==
  /\ mrunning' = FALSE
  /\ udp' = IF udp = "open" THEN "closed" ELSE udp
  /\ UNCHANGED responder

MdnsJoined == responder \in {"none", "ended"}

-----------------------------------------------------------------------------
(* The thread. Without an address it sleeps for two seconds; select waits  *)
(* for one at most, also on a socket that is closed meanwhile.             *)
MdnsTop ==
  /\ responder = "top"
  /\ responder' \in IF mrunning THEN {"fd set", "sleep"} ELSE {"ended"}
  /\ UNCHANGED <<udp, mrunning>>

MdnsSleep ==
  /\ responder = "sleep"
  /\ responder' = "top"
  /\ UNCHANGED <<udp, mrunning>>

(* FD_SET(-1) is undefined: it may do nothing that matters, or a checking  *)
(* C library aborts the process (MdnsAborts).                              *)
FdSet ==
  /\ responder = "fd set"
  /\ responder' = "select"
  /\ UNCHANGED <<udp, mrunning>>

MdnsAborts == responder = "fd set" /\ udp = "closed" /\ Fortified

Select ==
  /\ responder = "select"
  /\ responder' \in {"top", "receive"}
  /\ UNCHANGED <<udp, mrunning>>

(* A query is answered, or the receive fails; both end the turn.           *)
Receive ==
  /\ responder = "receive"
  /\ responder' = "top"
  /\ UNCHANGED <<udp, mrunning>>

Responder == MdnsTop \/ MdnsSleep \/ FdSet \/ Select \/ Receive

=============================================================================
