------------------------------- MODULE Formats -------------------------------
(***************************************************************************)
(* What the program computes from bytes it did not write: wav files, HTTP  *)
(* requests, DNS queries, scan results, JSON texts and topics.  Each is a  *)
(* task of its own that shares nothing with another; a behaviour is one    *)
(* task, with any input.                                                   *)
(***************************************************************************)
EXTENDS WavScaler, HttpRequest, DnsName, WifiNetworks, JsonParser, TopicFilter

VARIABLE task

vars == <<wavVars, httpVars, dnsVars, netVars, jsonVars, topicMatchVars, task>>

(* The task's own input is any; the others stay at a first one.            *)
Init ==
  /\ task \in {"wav", "http", "dns", "scan", "json", "topic"}
  /\ task = "wav" \/ size = 0
  /\ \/ task = "http"
     \/ head = 4 /\ requestLine = FALSE /\ declared = 0 /\ sent = 0 /\ closes = TRUE
  /\ task = "dns" \/ packetSize = 0
  /\ task = "scan" \/ scan = "iw"
  /\ task = "topic" \/ (filter = <<"#">> /\ topic = <<CHOOSE l \in Levels : TRUE>>)
  /\ WavInit /\ HttpInit /\ DnsInit /\ NetInit /\ JsonInit /\ MatchInit

Next ==
  \/ task = "wav" /\ WavNext
       /\ UNCHANGED <<httpVars, dnsVars, netVars, jsonVars, topicMatchVars, task>>
  \/ task = "http" /\ HttpNext
       /\ UNCHANGED <<wavVars, dnsVars, netVars, jsonVars, topicMatchVars, task>>
  \/ task = "dns" /\ DnsNext
       /\ UNCHANGED <<wavVars, httpVars, netVars, jsonVars, topicMatchVars, task>>
  \/ task = "scan" /\ NetNext
       /\ UNCHANGED <<wavVars, httpVars, dnsVars, jsonVars, topicMatchVars, task>>
  \/ task = "json" /\ JsonNext
       /\ UNCHANGED <<wavVars, httpVars, dnsVars, netVars, topicMatchVars, task>>
  \/ task = "topic" /\ TopicMatchesFilter
       /\ UNCHANGED <<wavVars, httpVars, dnsVars, netVars, jsonVars, task>>

Spec == Init /\ [][Next]_vars /\ WF_vars(Next)

-----------------------------------------------------------------------------
(* No claim of a size, a length or a pointer in the input makes the program*)
(* touch a byte that is not there.                                         *)
ReadsInside == WavReadsInside /\ DnsReadsInside

(* Every task comes to an end, whatever the input: no chunk, label, pointer*)
(* or line is gone through again and again. Only a client that neither     *)
(* says more nor closes keeps its reader waiting (aplay_audio_player.cpp:  *)
(* 130, mdns.cpp:125-150, web_server.cpp:839).                             *)
Finishes ==
  <>(\/ wav \in {"refused", "scaled"} \/ http \in {"refused", "accepted"} \/ Stalled
     \/ dns \in {"yes", "no"} \/ Scanned \/ Done \/ rings # "unknown")

=============================================================================
