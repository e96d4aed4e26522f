----------------------------- MODULE WifiNetworks -----------------------------
(***************************************************************************)
(* The networks a scan reports: ScanWithIw reads the output of iw line by  *)
(* line, ParseWpaCliScanResults takes a network from each line of wpa_cli, *)
(* and DeduplicateStrongest keeps one of each name (wifi_scan.cpp).        *)
(***************************************************************************)
EXTENDS Naturals, Sequences

CONSTANTS Names,      \* of networks
          NoName,     \* a hidden network has an empty one
          Signals,    \* counted up from the weakest
          MaxLines    \* bound: lines of a scan's output

(* -1000 dBm, weaker than any.                                             *)
NoSignal == 0

ASSUME NetworksAssumption ==
  /\ NoName \notin Names
  /\ Signals \subseteq Nat \ {NoSignal}
  /\ MaxLines \in Nat

VARIABLES scan,       \* where the parser is
          lines,      \* of the output, those read
          current, inBlock,
          networks,   \* found so far
          reported    \* what Scan returns

netVars == <<scan, lines, current, inBlock, networks, reported>>

Unknown == [ssid |-> NoName, signal |-> NoSignal, security |-> ""]

NetInit ==
  /\ scan \in {"iw", "wpa_cli"}
  /\ lines = <<>> /\ current = Unknown /\ inBlock = FALSE
  /\ networks = <<>> /\ reported = {}

(* The lines of iw the parser looks for (RSN, WPA and WEP are alike), and  *)
(* of another kind.                                                        *)
BSS == [kind |-> "BSS"]
IwLines ==
  {BSS, [kind |-> "other"]}
    \cup [kind : {"ssid"}, value : Names \cup {NoName}]
    \cup [kind : {"signal"}, value : Signals]
    \cup [kind : {"security"}, value : {"WPA2", "WPA"}]

(* A line of wpa_cli: a network with or without a name, and with a signal  *)
(* that can be read or not; other lines and flags make no difference.      *)
WpaCliLines ==
  [ssid : Names \cup {NoName}, signal : Signals \cup {NoSignal}, security : {"WPA2"}]

-----------------------------------------------------------------------------
WithSecurity(network) ==
  IF network.security = "" THEN [network EXCEPT !.security = "OPEN"] ELSE network

(* mutant: the next network begins with what is known of this one          *)
push_current_keeps ==
  /\ networks' = IF inBlock /\ current.ssid # NoName
                 THEN Append(networks, WithSecurity(current)) ELSE networks
  /\ current' = [current EXCEPT !.ssid = NoName]

push_current ==
  /\ networks' = IF inBlock /\ current.ssid # NoName
                 THEN Append(networks, WithSecurity(current)) ELSE networks
  /\ current' = Unknown

Read(line) == scan' = scan /\ lines' = Append(lines, line) /\ reported' = reported

ReadBss ==
  /\ scan = "iw" /\ Len(lines) < MaxLines
  /\ Read(BSS)
  /\ push_current /\ inBlock' = TRUE

(* Lines before the first BSS say nothing; of several the last counts.     *)
ReadIwLine(line) ==
  /\ scan = "iw" /\ Len(lines) < MaxLines /\ line # BSS
  /\ Read(line)
  /\ current' = IF ~inBlock \/ line.kind = "other" THEN current
                ELSE [current EXCEPT ![line.kind] = line.value]
  /\ UNCHANGED <<inBlock, networks>>

ReadWpaCliLine(line) ==
  /\ scan = "wpa_cli" /\ Len(lines) < MaxLines
  /\ Read(line)
  /\ networks' = IF line.ssid = NoName THEN networks ELSE Append(networks, line)
  /\ UNCHANGED <<current, inBlock>>

OutputEnds ==
  /\ scan \in {"iw", "wpa_cli"}
  /\ IF scan = "iw" THEN push_current ELSE UNCHANGED <<networks, current>>
  /\ scan' = IF scan = "iw" THEN "iw-read" ELSE "wpa_cli-read"
  /\ UNCHANGED <<lines, inBlock, reported>>

(* One network after the other; the result is sorted, which is left out.   *)
DeduplicateStrongest ==
  /\ scan \in {"iw-read", "wpa_cli-read"} /\ networks # <<>>
  /\ LET network == Head(networks)
         same == {n \in reported : n.ssid = network.ssid}
     IN reported' = IF \E n \in same : network.signal <= n.signal
                    THEN reported ELSE (reported \ same) \cup {network}
  /\ networks' = Tail(networks)
  /\ UNCHANGED <<scan, lines, current, inBlock>>

NetNext ==
  \/ ReadBss
  \/ \E line \in IwLines : ReadIwLine(line)
  \/ \E line \in WpaCliLines : ReadWpaCliLine(line)
  \/ OutputEnds \/ DeduplicateStrongest

NetSpec == NetInit /\ [][NetNext]_netVars

Scanned == scan \in {"iw-read", "wpa_cli-read"} /\ networks = <<>>

-----------------------------------------------------------------------------
(* The reference: an access point is what the last line of each kind says  *)
(* between its BSS line and the next.                                      *)
Block(b) == {i \in b + 1 .. Len(lines) : \A j \in b + 1 .. i : lines[j] # BSS}

Said(b, kind, otherwise) ==
  LET hits == {i \in Block(b) : lines[i].kind = kind} IN
  IF hits = {} THEN otherwise
  ELSE lines[CHOOSE i \in hits : \A j \in hits : j <= i].value

AccessPoint(b) == [ssid |-> Said(b, "ssid", NoName), signal |-> Said(b, "signal", NoSignal),
                   security |-> Said(b, "security", "OPEN")]

AccessPoints ==
  IF scan = "iw-read"
  THEN {<<b, AccessPoint(b)>> : b \in {i \in DOMAIN lines : lines[i] = BSS}}
  ELSE {<<i, lines[i]>> : i \in DOMAIN lines}

(* A scan reports of each name the strongest access point, the first of    *)
(* several, with its own signal and security, and no hidden one            *)
(* (wifi_scan.cpp:290-311, 477-545).                                       *)
StrongestReported ==
  Scanned =>
    reported = {p[2] : p \in {p \in AccessPoints :
                  /\ p[2].ssid # NoName
                  /\ \A q \in AccessPoints : q[2].ssid = p[2].ssid =>
                       \/ q[2].signal < p[2].signal
                       \/ q[2].signal = p[2].signal /\ p[1] <= q[1]}}

=============================================================================
