------------------------------- MODULE DnsName -------------------------------
(***************************************************************************)
(* How the mDNS responder reads a query (QueryRequestsHost, DecodeDnsName  *)
(* in mdns.cpp): labels and pointers, in a packet of any content.  A byte  *)
(* is what is read at that place, so two reads of one place may differ;    *)
(* what the name says is left out.                                         *)
(***************************************************************************)
EXTENDS Integers

CONSTANTS MaxPacket,      \* bound: bytes of a packet
          MaxQuestions,   \* bound: questions a packet claims to have
          MaxDepth,       \* pointers DecodeDnsName follows
          MaxLabel        \* bound: the longest label length a byte can say

ASSUME DnsAssumption ==
  /\ MaxPacket \in Nat /\ MaxQuestions \in Nat
  /\ MaxDepth \in Nat /\ MaxLabel \in Nat

VARIABLES dns,        \* where the reader is
          packetSize,
          questions,  \* of qdcount, those left
          from,       \* offset of the question, then of its name's rest
          offset,     \* of DecodeDnsName
          consumed,   \* local_consumed
          depth,      \* pointers followed
          read        \* last offset read

dnsVars == <<dns, packetSize, questions, from, offset, consumed, depth, read>>

DnsInit ==
  /\ dns = "start" /\ packetSize \in 0 .. MaxPacket
  /\ questions = 0 /\ from = 0 /\ offset = 0 /\ consumed = 0 /\ depth = 0 /\ read = -1

Answer(a) ==
  dns' = a /\ UNCHANGED <<packetSize, questions, from, offset, consumed, depth, read>>

ReadHeader ==
  /\ dns = "start"
  /\ \/ packetSize < 12 /\ Answer("no")
     \/ /\ packetSize >= 12
        /\ questions' \in 0 .. MaxQuestions
        /\ from' = 12 /\ read' = 5
        /\ dns' = "question"
        /\ UNCHANGED <<packetSize, offset, consumed, depth>>

NextQuestion ==
  /\ dns = "question"
  /\ IF questions = 0
     THEN Answer("no")
     ELSE /\ questions' = questions - 1
          /\ offset' = from /\ consumed' = 0 /\ depth' = 0
          /\ dns' = "name"
          /\ UNCHANGED <<packetSize, from, read>>

InName == dns = "name" /\ offset < packetSize

(* A name without an end, too.                                             *)
NameEnds ==
  /\ dns = "name"
  /\ \/ offset >= packetSize /\ UNCHANGED <<consumed, read>>
     \/ InName /\ read' = offset /\ consumed' = IF depth = 0 THEN consumed + 1 ELSE consumed
  /\ dns' = "type"
  /\ UNCHANGED <<packetSize, questions, from, offset, depth>>

Label(length) ==
  /\ InName
  /\ IF offset + 1 + length > packetSize
     THEN dns' = "no" /\ read' = offset /\ UNCHANGED <<offset, consumed>>
     ELSE /\ read' = offset + length
          /\ offset' = offset + 1 + length
          /\ consumed' = IF depth = 0 THEN consumed + 1 + length ELSE consumed
          /\ UNCHANGED dns
  /\ UNCHANGED <<packetSize, questions, from, depth>>

(* mutant: pointers are followed without a limit                           *)
PointerUncounted(target) ==
  /\ InName
  /\ IF offset + 1 >= packetSize \/ target >= packetSize
     THEN Answer("no")
     ELSE /\ read' = offset + 1 /\ offset' = target /\ depth' = 1
          /\ consumed' = IF depth = 0 THEN consumed + 2 ELSE consumed
          /\ UNCHANGED <<dns, packetSize, questions, from>>

Pointer(target) ==
  /\ InName
  /\ IF offset + 1 >= packetSize \/ target >= packetSize
     THEN Answer("no")
     ELSE /\ read' = offset + 1 /\ offset' = target /\ depth' = depth + 1
          /\ consumed' = IF depth = 0 THEN consumed + 2 ELSE consumed
          /\ dns' = IF depth' > MaxDepth THEN "no" ELSE "name"
          /\ UNCHANGED <<packetSize, questions, from>>

(* Type and class of the question, behind its name.                        *)
TypeAndClass ==
  /\ dns = "type"
  /\ LET behind == from + consumed IN
     IF behind + 4 > packetSize
     THEN Answer("no")
     ELSE /\ read' = behind + 3 /\ from' = behind + 4
          /\ dns' \in {"question", "yes"}
          /\ UNCHANGED <<packetSize, questions, offset, consumed, depth>>

DnsNext ==
  \/ ReadHeader \/ NextQuestion \/ NameEnds \/ TypeAndClass
  \/ \E length \in 1 .. MaxLabel : Label(length)
  \/ \E target \in 0 .. MaxPacket : Pointer(target)

DnsSpec == DnsInit /\ [][DnsNext]_dnsVars

-----------------------------------------------------------------------------
(* Whatever a packet says, the responder reads no byte behind its end      *)
(* (mdns.cpp:125, 136, 157, 191).                                          *)
DnsReadsInside == read < packetSize

=============================================================================
