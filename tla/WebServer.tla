------------------------------ MODULE WebServer ------------------------------
(***************************************************************************)
(* webd's HTTPS server (web_server.cpp): one thread accepts connections    *)
(* and serves each to its end before it accepts the next; TLS and the      *)
(* request are read, and the response written, with blocking calls.        *)
(***************************************************************************)
EXTENDS Naturals, Sequences

CONSTANTS Clients, Nobody

ASSUME ServerAssumption == Nobody \notin Clients

VARIABLES running,    \* running_
          listener,   \* listen_fd_: none, open or closed
          ctx,        \* ssl_ctx_: none or live
          thread,     \* where accept_thread_ is
          serving,    \* the client of its connection
          backlog,    \* connections the kernel has and accept has not
          stalled     \* clients that do not go on

serverVars == <<running, listener, ctx, thread, serving, backlog, stalled>>

ServerInit ==
  /\ running = FALSE /\ listener = "none" /\ ctx = "none"
  /\ thread = "none" /\ serving = Nobody
  /\ backlog = <<>> /\ stalled = {}

Waiting == {backlog[i] : i \in 1 .. Len(backlog)}
Connected == Waiting \cup ({serving} \ {Nobody})

(* Start, when the TLS files and the port are usable.                      *)
Start ==
  /\ ~running
  /\ running' = TRUE /\ listener' = "open" /\ ctx' = "live"
  /\ thread' = "top"
  /\ UNCHANGED <<serving, backlog, stalled>>

(* Stop, in the order of its steps.                                        *)
StopRunning ==
  /\ running' = FALSE
  /\ UNCHANGED <<listener, ctx, thread, serving, backlog, stalled>>

(* mutant: the socket is closed, but not shut down                         *)
CloseUnshut ==
  /\ listener' = "half"
  /\ backlog' = <<>> /\ stalled' = stalled \ Waiting
  /\ UNCHANGED <<running, ctx, thread, serving>>

(* shutdown wakes the accept; connections not yet accepted are reset.      *)
StopListening ==
  /\ listener' = "closed"
  /\ backlog' = <<>> /\ stalled' = stalled \ Waiting
  /\ UNCHANGED <<running, ctx, thread, serving>>

(* mutant: does not wait for the thread                                    *)
JoinNever == TRUE

AcceptThreadJoined == thread = "ended"

FreeContext ==
  /\ ctx' = "none" /\ listener' = "none"
  /\ UNCHANGED <<running, thread, serving, backlog, stalled>>

-----------------------------------------------------------------------------
(* The thread. *)

Turn(place) == thread' = place /\ UNCHANGED <<running, listener, ctx, serving, backlog, stalled>>

AcceptLoop == thread = "top" /\ Turn(IF running THEN "accept" ELSE "ended")

Accept ==
  /\ thread = "accept" /\ listener = "open" /\ backlog # <<>>
  /\ serving' = Head(backlog) /\ backlog' = Tail(backlog)
  /\ thread' = "new"
  /\ UNCHANGED <<running, listener, ctx, stalled>>

(* mutant: any error of accept ends the thread                             *)
AcceptGivesUp ==
  /\ thread = "accept"
  /\ Turn("ended")

(* A signal or a lack of descriptors: 50 ms later it is tried again.       *)
AcceptFails ==
  /\ thread = "accept" /\ listener = "open"
  /\ Turn("top")

AcceptClosed ==
  /\ thread = "accept" /\ listener = "closed"
  /\ Turn(IF running THEN "top" ELSE "ended")

(* SSL_new.                                                                *)
NewSession == thread = "new" /\ Turn("handshake")

(* The connection is closed, in one way or another.                        *)
Closes ==
  /\ thread' = "top"
  /\ serving' = Nobody /\ stalled' = stalled \ {serving}
  /\ UNCHANGED <<running, listener, ctx, backlog>>

Handshake ==
  /\ thread = "handshake" /\ serving \notin stalled
  /\ Turn("read") \/ Closes

Methods == {"GET", "POST", "PUT", "DELETE"}
Paths == {"/api/v1/config/core", "/api/v1/wifi/scan", "/api/v1/system/version",
          "/api/v1/mqtt/topics", "/api/v1/ring/sounds", "/api/v1/ring/sounds/select",
          "/api/v1/ring/sounds/*", "/api/v1/device", "/", "/*"}

Allowed(method, methods, handler) == IF method \in methods THEN handler ELSE "405"

Route(method, path) ==
  CASE path = "/api/v1/config/core" ->
         Allowed(method, {"GET", "POST"}, "HandleCoreConfig")
    [] path = "/api/v1/wifi/scan" -> Allowed(method, {"GET"}, "HandleWifiScan")
    [] path = "/api/v1/system/version" -> Allowed(method, {"GET"}, "HandleGetSystemVersion")
    [] path = "/api/v1/mqtt/topics" -> Allowed(method, {"GET"}, "HandleGetObservedTopics")
    [] path = "/api/v1/ring/sounds" -> Allowed(method, {"GET"}, "HandleGetRingSounds")
    [] path = "/api/v1/ring/sounds/select" ->
         Allowed(method, {"POST"}, "HandleSelectRingSound")
    [] path = "/api/v1/ring/sounds/*" -> Allowed(method, {"PUT"}, "HandleUploadRingSound")
    [] path = "/api/v1/device" -> "501"
    [] OTHER -> IF method = "GET" THEN "TryServeExternalUi" ELSE "404"

(* A request that cannot be read is answered with 400. Only the Wi-Fi scan *)
(* takes long; the other handlers are a step here (RingSounds, ConfigApply)*)
ReadHttpRequest ==
  /\ thread = "read" /\ serving \notin stalled
  /\ \/ \E method \in Methods, path \in Paths :
          Turn(IF Route(method, path) = "HandleWifiScan" THEN "scan" ELSE "write")
     \/ Turn("write")

WriteAllSsl ==
  /\ thread = "write" /\ serving \notin stalled
  /\ Closes

ServerThread ==
  \/ AcceptLoop \/ Accept \/ AcceptFails \/ AcceptClosed
  \/ NewSession \/ Handshake \/ ReadHttpRequest \/ WriteAllSsl

-----------------------------------------------------------------------------
(* The clients. One that goes away for good without a word looks like one  *)
(* that stalls: no socket option limits a read or a write.                 *)
Connects(c) ==
  /\ listener = "open" /\ c \notin Connected
  /\ backlog' = Append(backlog, c)
  /\ UNCHANGED <<running, listener, ctx, thread, serving, stalled>>

Stalls(c) ==
  /\ c \in Connected
  /\ stalled' = stalled \cup {c}
  /\ UNCHANGED <<running, listener, ctx, thread, serving, backlog>>

Resumes(c) ==
  /\ stalled' = stalled \ {c}
  /\ UNCHANGED <<running, listener, ctx, thread, serving, backlog>>

ClientStep == \E c \in Clients : Connects(c) \/ Stalls(c) \/ Resumes(c)

=============================================================================
