-------------------------------- MODULE Webd --------------------------------
(***************************************************************************)
(* The process chime-webd (webd/main.cpp): the HTTPS server, the mDNS      *)
(* responder and a Wi-Fi scan run by a request, with their start and stop  *)
(* from the main thread.  S45webd starts it again when it ends.            *)
(***************************************************************************)
EXTENDS WebServer, MdnsResponder, WifiScan

VARIABLES main,   \* where the main thread is
          stop    \* g_should_stop

vars == <<serverVars, mdnsVars, scanVars, main, stop>>

Init == ServerInit /\ MdnsInit /\ ScanInit /\ main = "down" /\ stop = FALSE

-----------------------------------------------------------------------------
StartServer ==
  /\ main = "down"
  /\ Start
  /\ main' = "mdns"
  /\ UNCHANGED <<mdnsVars, scanVars, stop>>

StartMdns ==
  /\ main = "mdns"
  /\ MdnsStart
  /\ main' = "up"
  /\ UNCHANGED <<serverVars, scanVars, stop>>

StopMdns ==
  /\ main = "up" /\ stop
  /\ MdnsStop
  /\ main' = "join mdns"
  /\ UNCHANGED <<serverVars, scanVars, stop>>

JoinMdns ==
  /\ main = "join mdns" /\ MdnsJoined
  /\ StopRunning
  /\ main' = "close"
  /\ UNCHANGED <<mdnsVars, scanVars, stop>>

CloseListener ==
  /\ main = "close"
  /\ StopListening
  /\ main' = "join"
  /\ UNCHANGED <<mdnsVars, scanVars, stop>>

JoinServer ==
  /\ main = "join" /\ AcceptThreadJoined
  /\ main' = "free"
  /\ UNCHANGED <<serverVars, mdnsVars, scanVars, stop>>

FreeServer ==
  /\ main = "free"
  /\ FreeContext
  /\ main' = "exit"
  /\ UNCHANGED <<mdnsVars, scanVars, stop>>

(* The end of main; S45webd starts a new process.                          *)
ExitWebd ==
  /\ main = "exit"
  /\ thread' = "none" /\ udp' = "none" /\ responder' = "none"
  /\ main' = "down" /\ stop' = FALSE
  /\ UNCHANGED <<running, listener, ctx, serving, backlog, stalled, mrunning, scanVars>>

MainThread ==
  \/ StartServer \/ StartMdns \/ StopMdns \/ JoinMdns \/ CloseListener
  \/ JoinServer \/ FreeServer \/ ExitWebd

-----------------------------------------------------------------------------
Signal ==
  /\ main # "down" /\ ~stop
  /\ stop' = TRUE
  /\ UNCHANGED <<serverVars, mdnsVars, scanVars, main>>

Serves ==
  /\ thread # "scan" /\ ServerThread
  /\ UNCHANGED <<mdnsVars, scanVars, main, stop>>

Accepts == Accept /\ UNCHANGED <<mdnsVars, scanVars, main, stop>>

(* The request's handler: begins a scan, runs it and returns.              *)
ScanStep ==
  /\ thread = "scan"
  /\ \/ answer = "none" /\ (HandleWifiScan \/ Scanner) /\ UNCHANGED serverVars
     \/ /\ answer # "none"
        /\ Turn("write")
        /\ answer' = "none"
        /\ result' = "none" /\ wrote' = 0 /\ output' = 0 /\ elapsed' = 0
        /\ UNCHANGED <<command, attempt, at, child, pipe>>
  /\ UNCHANGED <<mdnsVars, main, stop>>

ScanChild == Child /\ UNCHANGED <<serverVars, mdnsVars, main, stop>>
ChildUp == (SetsGroup \/ Dies) /\ UNCHANGED <<serverVars, mdnsVars, main, stop>>

Responds == Responder /\ UNCHANGED <<serverVars, scanVars, main, stop>>

(* The responder's undefined behaviour ends the whole process. A scan's    *)
(* child that is left ends by itself.                                      *)
Aborts ==
  /\ MdnsAborts
  /\ running' = FALSE /\ listener' = "none" /\ ctx' = "none" /\ thread' = "none"
  /\ serving' = Nobody /\ backlog' = <<>> /\ stalled' = {}
  /\ udp' = "none" /\ mrunning' = FALSE /\ responder' = "none"
  /\ command' = "none" /\ attempt' = 0 /\ at' = "idle" /\ child' = "none" /\ pipe' = 0
  /\ wrote' = 0 /\ output' = 0 /\ elapsed' = 0
  /\ result' = "none" /\ answer' = "none"
  /\ main' = "down" /\ stop' = FALSE

Client == ClientStep /\ UNCHANGED <<mdnsVars, scanVars, main, stop>>

Next ==
  \/ MainThread \/ Signal \/ Serves \/ ScanStep \/ ScanChild \/ Responds
  \/ Aborts \/ Client

(* Every thread and a child about to begin or to end is scheduled, and an  *)
(* accept that can succeed again and again does; clients and signals are   *)
(* not owed anything.                                                      *)
Spec ==
  /\ Init /\ [][Next]_vars
  /\ WF_vars(MainThread) /\ WF_vars(Serves) /\ SF_vars(Accepts)
  /\ WF_vars(ScanStep) /\ WF_vars(ChildUp) /\ WF_vars(Responds)

-----------------------------------------------------------------------------
(* The thread uses the TLS context and its listening socket only while Stop*)
(* has not freed the first (web_server.cpp:741-756, 783).                  *)
ContextOutlivesThread == thread \notin {"none", "ended"} => ctx = "live"

Stalling == serving \in stalled

(* A signal ends webd, also one in the middle of a scan; only a client that*)
(* stalls can delay the end (main.cpp:180-188, web_server.cpp:747).        *)
StopsUnlessStalled == stop ~> main = "down" \/ Stalling

(* Every connection is answered or closed in its turn, scans and failing   *)
(* accepts notwithstanding, unless a client before it stalls               *)
(* (web_server.cpp:759-778).                                               *)
AnswersEveryone == \A c \in Clients : c \in Connected ~> c \notin Connected \/ Stalling

=============================================================================
