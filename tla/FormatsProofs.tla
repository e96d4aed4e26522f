---------------------------- MODULE FormatsProofs ----------------------------
(***************************************************************************)
(* Proofs about the readers of foreign bytes: for machine words, packets,  *)
(* pieces, scans, topics and limits of any size.  Those about JSON texts   *)
(* are JsonProofs'.                                                        *)
(***************************************************************************)
EXTENDS Formats, JsonProofs

(* The walk stays inside the file, so no sum or difference wraps around.   *)
WavInv ==
  /\ size \in Word /\ cursor \in Nat /\ sample \in Nat /\ fmt \in {0, 8, 16, 24}
  /\ data \in [offset : Nat, length : Nat, have : BOOLEAN]
  /\ touched \in [first : Nat, last : Int] /\ touched.last < size
  /\ wav \in {"walk", "scale"} => size >= 44 /\ cursor <= size
  /\ data.have => data.offset >= 8 /\ data.offset + data.length <= size
  /\ wav \in {"start", "walk"} => sample = 0
  /\ wav = "scale" => data.have /\ fmt \in {8, 16} /\ sample <= data.length

DnsInv ==
  /\ packetSize \in Nat /\ from \in Nat /\ offset \in Nat /\ consumed \in Nat
  /\ read \in Int /\ read < packetSize
  /\ questions \in 0 .. MaxQuestions /\ depth \in Nat
  /\ dns = "name" => depth <= MaxDepth

(* What was read of the body is what was read behind the head; and a head  *)
(* is found within a piece behind the limit.                               *)
HttpInv ==
  /\ head \in Nat \ {0} /\ declared \in Nat \cup {-1}
  /\ sent \in Nat /\ got \in Nat /\ body \in Nat
  /\ got <= sent
  /\ http = "head" => got < head /\ got < MaxRequest + Piece
  /\ http \in {"parse", "body"} => /\ body = got - head /\ got >= head
                                   /\ head < MaxRequest + Piece
  /\ http = "body" => requestLine /\ declared \in 0 .. MaxBody
  /\ RequestVerdict

-----------------------------------------------------------------------------
(* The scaler. *)

(* A sum or difference within the word is not wrapped. *)
LEMMA NoWrap ==
  ASSUME NEW a \in Int, NEW b \in Int
  PROVE  /\ 0 <= a + b /\ a + b < WORD => Plus(a, b) = a + b
         /\ 0 <= a - b /\ a - b < WORD => Minus(a, b) = a - b
<1>1. \A n \in Nat : n < WORD => n % WORD = n
  BY WordAssumption
<1>. QED
  BY <1>1 DEF Plus, Minus

(* Inside the walk over the chunks no sum of the cursor wraps. *)
LEMMA InTheWalk ==
  ASSUME WavInv, InWalk
  PROVE  /\ size \in Nat /\ size < WORD /\ size >= 44
         /\ cursor + 8 <= size /\ Plus(cursor, 8) = cursor + 8
         /\ Minus(size, Plus(cursor, 8)) = size - (cursor + 8)
         /\ Plus(cursor, 7) = cursor + 7
<1>1. size \in Nat /\ size < WORD /\ size >= 44 /\ cursor \in Nat /\ WORD \in Nat
  BY WordAssumption DEF WavInv, InWalk, Word
<1>2. Minus(size, 8) = size - 8
  BY <1>1, NoWrap
<1>3. cursor + 8 <= size
  BY <1>1, <1>2 DEF InWalk
<1>4. Plus(cursor, 8) = cursor + 8 /\ Plus(cursor, 7) = cursor + 7
  BY <1>1, <1>3, NoWrap
<1>5. Minus(size, cursor + 8) = size - (cursor + 8)
  BY <1>1, <1>3, NoWrap
<1>. QED
  BY <1>1, <1>3, <1>4, <1>5

(* A chunk that is not too long is skipped without leaving the file. *)
LEMMA Skipping ==
  ASSUME WavInv, InWalk, NEW n \in Word, ~TooLong(n), Skip(n)
  PROVE  /\ cursor + 8 + n <= size
         /\ \/ wav' = "refused" /\ cursor' = cursor
            \/ wav' = wav /\ cursor' \in Nat /\ cursor' <= size /\ cursor' >= cursor + 8
<1>1. /\ size \in Nat /\ size < WORD /\ size >= 44
      /\ cursor + 8 <= size /\ Plus(cursor, 8) = cursor + 8
      /\ Minus(size, Plus(cursor, 8)) = size - (cursor + 8)
  BY InTheWalk
<1>2. cursor \in Nat /\ n \in Nat /\ WORD \in Nat
  BY WordAssumption DEF WavInv, Word
<1>3. cursor + 8 + n <= size
  BY <1>1, <1>2 DEF TooLong
<1>4. Plus(Plus(cursor, 8), n) = cursor + 8 + n
  BY <1>1, <1>2, <1>3, NoWrap
<1>5. Minus(size, cursor + 8 + n) = size - (cursor + 8 + n)
  BY <1>1, <1>2, <1>3, NoWrap
<1>6. n % 2 \in {0, 1}
  BY <1>2
<1>7. \A odd \in {0, 1} : odd <= size - (cursor + 8 + n) =>
        Plus(cursor + 8 + n, odd) = cursor + 8 + n + odd
  BY <1>1, <1>2, <1>3, NoWrap
<1>. QED
  BY <1>1, <1>2, <1>3, <1>4, <1>5, <1>6, <1>7 DEF Skip

(* The samples that are scaled lie in the data chunk. *)
LEMMA Scaling == WavInv /\ Scale => WavInv'
<1> SUFFICES ASSUME WavInv, Scale PROVE WavInv'
  OBVIOUS
<1>1. /\ size \in Nat /\ size < WORD /\ WORD \in Nat /\ sample \in Nat
      /\ data.offset \in Nat /\ data.length \in Nat /\ sample <= data.length
      /\ data.offset >= 8 /\ data.offset + data.length <= size /\ fmt \in {8, 16}
  BY WordAssumption DEF WavInv, Scale, Word
<1>2. Width \in {1, 2}
  BY <1>1 DEF Width
<1>3. Plus(sample, Width - 1) = sample + (Width - 1)
  BY <1>1, <1>2, NoWrap
<1>4. CASE sample + (Width - 1) < data.length
  <2>1. Plus(data.offset, sample) = data.offset + sample
    BY <1>1, <1>2, <1>4, NoWrap
  <2>2. Plus(data.offset + sample, Width - 1) = data.offset + sample + (Width - 1)
    BY <1>1, <1>2, <1>4, NoWrap
  <2>3. Plus(sample, Width) = sample + Width
    BY <1>1, <1>2, <1>4, NoWrap
  <2>4. /\ touched' = Access(data.offset + sample, data.offset + sample + (Width - 1))
        /\ sample' = sample + Width
        /\ UNCHANGED <<wav, size, cursor, fmt, data>>
    BY <1>3, <1>4, <2>1, <2>2, <2>3 DEF Scale
  <2>5. touched' \in [first : Nat, last : Int] /\ touched'.last < size
    BY <1>1, <1>2, <1>4, <2>4 DEF Access
  <2>6. sample' \in Nat /\ sample' <= data.length
    BY <1>1, <1>2, <1>4, <2>4
  <2>. QED
    BY <2>4, <2>5, <2>6 DEF WavInv, Scale
<1>5. CASE ~ (sample + (Width - 1) < data.length)
  BY <1>3, <1>5 DEF Scale, WavInv
<1>. QED
  BY <1>4, <1>5

(* Every step of the scaler stays in the file. *)
LEMMA WavStep == WavInv /\ WavNext => WavInv'
<1> SUFFICES ASSUME WavInv, WavNext PROVE WavInv'
  OBVIOUS
<1>1. CASE CheckHeader
  BY <1>1 DEF CheckHeader, Refuse, Access, WavInv, Word
<1>2. ASSUME NEW n \in Word, ChunkRefused(n) PROVE WavInv'
  BY <1>2 DEF ChunkRefused, Refuse, WavInv
<1>3. ASSUME NEW n \in Word, NEW bits \in {8, 16, 24}, FmtChunk(n, bits) PROVE WavInv'
  <2>1. InWalk /\ ~TooLong(n)
    BY <1>3 DEF FmtChunk
  <2>2. CASE n < 16
    BY <1>3, <2>2 DEF FmtChunk, Refuse, WavInv
  <2>3. CASE ~(n < 16)
    <3>1. /\ fmt' = bits /\ touched' = Access(cursor, Plus(Plus(cursor, 8), 15))
          /\ Skip(n) /\ UNCHANGED <<size, data, sample>>
      BY <1>3, <2>3 DEF FmtChunk
    <3>2. n \in Nat /\ cursor \in Nat /\ WORD \in Nat /\ size \in Nat /\ size < WORD
      BY WordAssumption DEF WavInv, Word
    <3>3. /\ cursor + 8 + n <= size
          /\ \/ wav' = "refused" /\ cursor' = cursor
             \/ wav' = wav /\ cursor' \in Nat /\ cursor' <= size
      BY <2>1, <3>1, Skipping
    <3>4. Plus(cursor, 8) = cursor + 8
      BY <2>1, InTheWalk
    <3>5. Plus(cursor + 8, 15) = cursor + 8 + 15
      BY <2>3, <3>2, <3>3, NoWrap
    <3>6. touched' \in [first : Nat, last : Int] /\ touched'.last < size
      BY <2>3, <3>1, <3>2, <3>3, <3>4, <3>5 DEF Access
    <3>. QED
      BY <2>1, <3>1, <3>3, <3>6 DEF WavInv, InWalk
  <2>. QED
    BY <2>2, <2>3
<1>4. ASSUME NEW n \in Word, DataChunk(n) \/ OtherChunk(n) PROVE WavInv'
  <2>1. /\ InWalk /\ ~TooLong(n) /\ Skip(n) /\ touched' = Access(cursor, Plus(cursor, 7))
        /\ UNCHANGED <<size, fmt, sample>>
        /\ data' \in {data, [offset |-> Plus(cursor, 8), length |-> n, have |-> TRUE]}
    BY <1>4 DEF DataChunk, OtherChunk
  <2>2. n \in Nat /\ cursor \in Nat /\ size \in Nat
    BY WordAssumption DEF WavInv, Word
  <2>3. /\ cursor + 8 + n <= size
        /\ \/ wav' = "refused" /\ cursor' = cursor
           \/ wav' = wav /\ cursor' \in Nat /\ cursor' <= size
    BY <2>1, Skipping
  <2>4. Plus(cursor, 8) = cursor + 8 /\ Plus(cursor, 7) = cursor + 7
    BY <2>1, InTheWalk
  <2>5. touched' \in [first : Nat, last : Int] /\ touched'.last < size
    BY <2>1, <2>2, <2>3, <2>4 DEF Access
  <2>6. /\ data' \in [offset : Nat, length : Nat, have : BOOLEAN]
        /\ data'.have => data'.offset >= 8 /\ data'.offset + data'.length <= size
    <3>1. CASE data' = data
      BY <3>1 DEF WavInv
    <3>2. CASE data' = [offset |-> cursor + 8, length |-> n, have |-> TRUE]
      BY <2>2, <2>3, <3>2
    <3>. QED
      BY <2>1, <2>4, <3>1, <3>2
  <2>. QED
    BY <2>1, <2>3, <2>5, <2>6 DEF WavInv, InWalk
<1>5. CASE WalkEnds
  BY <1>5 DEF WalkEnds, Refuse, WavInv
<1>. QED
  BY <1>1, <1>2, <1>3, <1>4, <1>5, Scaling DEF WavNext

-----------------------------------------------------------------------------
(* The other readers. *)

(* Every step of the name reader stays in the packet. *)
LEMMA DnsStep == DnsInv /\ DnsNext => DnsInv'
<1> SUFFICES ASSUME DnsInv, DnsNext PROVE DnsInv'
  OBVIOUS
<1> USE DEF DnsInv, Answer, InName
<1>1. CASE ReadHeader
  BY <1>1 DEF ReadHeader
<1>2. CASE NextQuestion
  <2>1. questions = 0 \/ questions - 1 \in 0 .. MaxQuestions
    BY DnsAssumption
  <2>. QED
    BY <1>2, <2>1, DnsAssumption DEF NextQuestion
<1>3. CASE NameEnds
  BY <1>3 DEF NameEnds
<1>4. CASE TypeAndClass
  BY <1>4 DEF TypeAndClass
<1>5. ASSUME NEW length \in 1 .. MaxLabel, Label(length) PROVE DnsInv'
  BY <1>5, DnsAssumption DEF Label
<1>6. ASSUME NEW target \in 0 .. MaxPacket, Pointer(target) PROVE DnsInv'
  BY <1>6, DnsAssumption DEF Pointer
<1>. QED
  BY <1>1, <1>2, <1>3, <1>4, <1>5, <1>6 DEF DnsNext

(* Every piece that arrives is appended to what came before. *)
LEMMA HttpStep == HttpInv /\ HttpNext => HttpInv'
<1> SUFFICES ASSUME HttpInv, HttpNext PROVE HttpInv'
  OBVIOUS
<1> USE HttpAssumption DEF HttpInv, RequestVerdict, Acceptable, Stalled, Answers, Pieces, ClientGone
<1>1. CASE ReadHead
  BY <1>1 DEF ReadHead
<1>2. CASE ParseHead
  BY <1>2 DEF ParseHead
<1>3. CASE ReadBody
  <2>1. CASE ClientGone /\ http' = "refused"
             /\ UNCHANGED <<head, requestLine, declared, sent, closes, got, body>>
    BY <1>3, <2>1 DEF ReadBody
  <2>2. ASSUME NEW n \in Pieces, got' = got + n, body' = body + n,
               http' = IF body' > MaxBody THEN "refused" ELSE "body",
               UNCHANGED <<head, requestLine, declared, sent, closes>>
        PROVE  HttpInv'
    BY <1>3, <2>2 DEF ReadBody
  <2>. QED
    BY <1>3, <2>1, <2>2 DEF ReadBody
<1>4. CASE BodyRead
  BY <1>4 DEF BodyRead
<1>. QED
  BY <1>1, <1>2, <1>3, <1>4 DEF HttpNext

-----------------------------------------------------------------------------
(* Topics. *)

(* The levels gone through so far are covered, and none of them is a "#".  *)
MatchInv ==
  /\ filter \in Seq(Levels \cup {"+", "#"}) /\ topic \in Seq(Levels)
  /\ index \in 1 .. Len(filter) + 1 /\ rings \in {"unknown", "yes", "no"}
  /\ \A i \in 1 .. index - 1 : filter[i] # "#"
  /\ Covers(index - 1)
  /\ RingsIfCovered

(* At first no level has been gone through.                                *)
LEMMA MatchInitial == MatchInit => MatchInv
<1> SUFFICES ASSUME MatchInit PROVE MatchInv
  OBVIOUS
<1>1. filter \in Seq(Levels \cup {"+", "#"}) /\ topic \in Seq(Levels)
  BY LevelsAssumption DEF MatchInit, UpTo
<1>. QED
  BY <1>1 DEF MatchInit, MatchInv, Covers, Covered, Hidden, RingsIfCovered

(* A level that is covered is gone through; the others settle the          *)
(* question.                                                               *)
LEMMA MatchStep == MatchInv /\ TopicMatchesFilter => MatchInv'
<1> SUFFICES ASSUME MatchInv, TopicMatchesFilter PROVE MatchInv'
  OBVIOUS
<1> DEFINE hashes == {i \in DOMAIN filter : filter[i] = "#"}
<1>0. /\ Len(filter) \in Nat /\ index \in Nat /\ 1 <= index /\ index <= Len(filter) + 1
  BY DEF MatchInv
<1>1. /\ rings = "unknown" /\ UNCHANGED <<filter, topic>>
      /\ Len(filter) \in Nat /\ Len(topic) \in Nat /\ DOMAIN filter = 1 .. Len(filter)
      /\ index \in Nat /\ 1 <= index /\ index <= Len(filter) + 1
  BY DEF MatchInv, TopicMatchesFilter, Return
<1>2. CASE index > Len(filter) /\ Return(index > Len(topic))
  <2>1. index = Len(filter) + 1 /\ hashes = {}
    BY <1>1, <1>2 DEF MatchInv
  <2>2. rings' = (IF index > Len(topic) THEN "yes" ELSE "no") /\ index' = index
    BY <1>2 DEF Return
  <2>3. index > Len(topic) <=> Len(filter) = Len(topic)
    BY <1>1, <2>1 DEF MatchInv, Covers
  <2>. QED
    BY <1>1, <2>1, <2>2, <2>3 DEF MatchInv, RingsIfCovered, Covered, Hidden, Covers
<1>3. CASE index <= Len(filter) /\ filter[index] = "#" /\ Return(index = Len(filter))
  <2>1. rings' = (IF index = Len(filter) THEN "yes" ELSE "no") /\ index' = index
    BY <1>3 DEF Return
  <2>2. index \in hashes
    <3>1. index \in 1 .. Len(filter)
      BY <1>0, <1>3 DEF Return
    <3>2. index \in DOMAIN filter
      BY <1>1, <3>1
    <3>. QED
      BY <1>3, <3>2
  <2>3. index = Len(filter) => hashes = {Len(filter)}
    BY <1>1, <1>3, <2>2 DEF MatchInv
  <2>. QED
    BY <1>1, <2>1, <2>2, <2>3 DEF MatchInv, RingsIfCovered, Covered, Hidden, Covers
<1>4. CASE /\ index <= Len(filter) /\ filter[index] # "#"
           /\ index > Len(topic) \/ filter[index] \notin {"+", topic[index]}
           /\ Return(FALSE)
  <2>1. rings' = "no" /\ index' = index
    BY <1>4 DEF Return
  <2>2. ~ Covers(Len(filter)) /\ (Len(filter) # index => ~ Covers(Len(filter) - 1))
    <3>1. index \in 1 .. Len(filter) /\ (Len(filter) # index => index \in 1 .. Len(filter) - 1)
      BY <1>0, <1>4 DEF Return
    <3>2. ~ (index <= Len(topic) /\ filter[index] \in {"+", topic[index]})
      BY <1>1, <1>4
    <3>. QED
      BY <3>1, <3>2 DEF Covers
  <2>3. hashes = {Len(filter)} => Len(filter) # index
    BY <1>1, <1>4
  <2>. QED
    BY <1>1, <2>1, <2>2, <2>3 DEF MatchInv, RingsIfCovered, Covered, Hidden, Covers
<1>5. CASE /\ index <= Len(filter) /\ filter[index] # "#"
           /\ ~ (index > Len(topic) \/ filter[index] \notin {"+", topic[index]})
           /\ index' = index + 1 /\ UNCHANGED rings
  <2>1. index' - 1 = index /\ index' \in 1 .. Len(filter) + 1 /\ rings' = "unknown"
    BY <1>1, <1>5
  <2>2. \A i \in 1 .. index : filter[i] # "#"
    BY <1>1, <1>5 DEF MatchInv
  <2>3. Covers(index)
    BY <1>1, <1>5 DEF MatchInv, Covers
  <2>. QED
    BY <1>1, <2>1, <2>2, <2>3 DEF MatchInv, RingsIfCovered, Covered, Hidden, Covers
<1>. QED
  BY <1>2, <1>3, <1>4, <1>5 DEF TopicMatchesFilter

-----------------------------------------------------------------------------
(* Networks. *)

Iw == scan \in {"iw", "iw-read"}

(* Where in the output there is an access point, and what it is.           *)
Spots == IF Iw THEN {i \in DOMAIN lines : lines[i] = BSS} ELSE DOMAIN lines
Points == [i \in Spots |-> IF Iw THEN AccessPoint(i) ELSE lines[i]]

Securities == {"", "WPA2", "WPA", "OPEN"}
Network == [ssid : Names \cup {NoName}, signal : Nat, security : Securities]

Visible(points) == {i \in DOMAIN points : points[i].ssid # NoName}

(* The networks at the given places, in the order of the output.           *)
IsListing(list, points, places) ==
  \E at \in [1 .. Len(list) -> places] :
    /\ \A j, k \in 1 .. Len(list) : j < k => at[j] < at[k]
    /\ \A p \in places : \E k \in 1 .. Len(list) : at[k] = p
    /\ \A k \in 1 .. Len(list) : list[k] = points[at[k]]

(* q is no better than p.                                                  *)
Beats(points, p, q) ==
  \/ points[q].signal < points[p].signal
  \/ points[q].signal = points[p].signal /\ p <= q

Wins(points, places, p) ==
  \A q \in places : points[q].ssid = points[p].ssid => Beats(points, p, q)

Winners(points, places) == {points[p] : p \in {p \in places : Wins(points, places, p)}}

(* Those gone through come first; each of them is matched by one that is   *)
(* reported.                                                               *)
Deduplicated(points, places, list, result) ==
  \E gone \in SUBSET places :
    /\ \A p \in gone : \A q \in places \ gone : p < q
    /\ IsListing(list, points, places \ gone)
    /\ result = Winners(points, gone)
    /\ \A q \in gone : \E n \in result :
         n.ssid = points[q].ssid /\ points[q].signal <= n.signal

-----------------------------------------------------------------------------
(* The empty list is that of no place.                                     *)
LEMMA NoListing ==
  ASSUME NEW points, NEW places
  PROVE  IsListing(<<>>, points, places) <=> places = {}
<1>1. Len(<<>>) = 0 /\ 1 .. 0 = {}
  OBVIOUS
<1>2. ASSUME IsListing(<<>>, points, places) PROVE places = {}
  BY <1>1, <1>2 DEF IsListing
<1>3. ASSUME places = {} PROVE IsListing(<<>>, points, places)
  <2> DEFINE at == [k \in {} |-> 0]
  <2>1. at \in [1 .. Len(<<>>) -> places]
    BY <1>1
  <2> HIDE DEF at
  <2>. QED
    BY <1>1, <1>3, <2>1 DEF IsListing
<1>. QED
  BY <1>2, <1>3

(* A network behind the others is appended;                                *)
LEMMA ListingGrows ==
  ASSUME NEW list \in Seq(Network), NEW points, NEW places \in SUBSET Nat,
         IsListing(list, points, places), NEW q \in Nat, \A p \in places : p < q,
         NEW network \in Network, points[q] = network
  PROVE  IsListing(Append(list, network), points, places \cup {q})
<1> DEFINE n == Len(list)
           longer == Append(list, network)
<1>1. PICK at \in [1 .. n -> places] :
        /\ \A j, k \in 1 .. n : j < k => at[j] < at[k]
        /\ \A p \in places : \E k \in 1 .. n : at[k] = p
        /\ \A k \in 1 .. n : list[k] = points[at[k]]
  BY DEF IsListing
<1>2. /\ n \in Nat /\ Len(longer) = n + 1 /\ longer[n + 1] = network
      /\ \A k \in 1 .. n : longer[k] = list[k]
  BY AppendProperties
<1> HIDE DEF n, longer
<1> DEFINE to == [k \in 1 .. n + 1 |-> IF k = n + 1 THEN q ELSE at[k]]
<1>3. /\ n + 1 \in 1 .. n + 1 /\ \A k \in 1 .. n : k \in 1 .. n + 1 /\ k # n + 1
      /\ \A k \in 1 .. n + 1 : k = n + 1 \/ k \in 1 .. n
  BY <1>2
<1>4. to[n + 1] = q /\ \A k \in 1 .. n : to[k] = at[k] /\ at[k] \in places
  BY <1>1, <1>3
<1>5. to \in [1 .. n + 1 -> places \cup {q}]
  BY <1>3, <1>4
<1> HIDE DEF to
<1>6. ASSUME NEW j \in 1 .. n + 1, NEW k \in 1 .. n + 1, j < k PROVE to[j] < to[k]
  <2>1. j \in 1 .. n
    BY <1>2, <1>6
  <2>2. CASE k = n + 1
    BY <1>4, <2>1, <2>2
  <2>3. CASE k \in 1 .. n
    BY <1>1, <1>4, <1>6, <2>1, <2>3
  <2>. QED
    BY <1>3, <2>2, <2>3
<1>7. ASSUME NEW p \in places \cup {q} PROVE \E k \in 1 .. n + 1 : to[k] = p
  <2>1. CASE p \in places
    <3>1. PICK k \in 1 .. n : at[k] = p
      BY <1>1, <2>1
    <3>. QED
      BY <1>3, <1>4, <3>1
  <2>2. CASE p = q
    BY <1>3, <1>4, <2>2
  <2>. QED
    BY <2>1, <2>2
<1>8. ASSUME NEW k \in 1 .. n + 1 PROVE longer[k] = points[to[k]]
  BY <1>1, <1>2, <1>3, <1>4
<1>9. IsListing(longer, points, places \cup {q})
  <2>1. /\ to \in [1 .. Len(longer) -> places \cup {q}]
        /\ \A j, k \in 1 .. Len(longer) : j < k => to[j] < to[k]
        /\ \A p \in places \cup {q} : \E k \in 1 .. Len(longer) : to[k] = p
        /\ \A k \in 1 .. Len(longer) : longer[k] = points[to[k]]
    BY <1>2, <1>5, <1>6, <1>7, <1>8
  <2>. QED
    BY <2>1, Zenon DEF IsListing
<1>. QED
  BY <1>9 DEF longer

(* the head of a list is the first place of all;                           *)
LEMMA ListingFalls ==
  ASSUME NEW list \in Seq(Network), list # <<>>, NEW points, NEW places \in SUBSET Nat,
         IsListing(list, points, places)
  PROVE  \E a \in places : /\ Head(list) = points[a] /\ \A p \in places : a <= p
                           /\ IsListing(Tail(list), points, places \ {a})
<1> DEFINE n == Len(list)
           rest == Tail(list)
<1>1. PICK at \in [1 .. n -> places] :
        /\ \A j, k \in 1 .. n : j < k => at[j] < at[k]
        /\ \A p \in places : \E k \in 1 .. n : at[k] = p
        /\ \A k \in 1 .. n : list[k] = points[at[k]]
  BY DEF IsListing
<1>2. /\ n \in Nat \ {0} /\ Len(rest) = n - 1 /\ Head(list) = list[1]
      /\ \A k \in 1 .. n - 1 : rest[k] = list[k + 1]
  BY HeadTailProperties
<1> HIDE DEF n, rest
<1>3. 1 \in 1 .. n /\ \A k \in 1 .. n - 1 : k + 1 \in 1 .. n /\ 1 < k + 1
  BY <1>2
<1> DEFINE a == at[1]
           to == [k \in 1 .. n - 1 |-> at[k + 1]]
<1>4. a \in places /\ Head(list) = points[a]
  BY <1>1, <1>2, <1>3
<1>5. ASSUME NEW p \in places PROVE a <= p /\ (p # a => \E k \in 1 .. n - 1 : at[k + 1] = p)
  <2>1. PICK k \in 1 .. n : at[k] = p
    BY <1>1
  <2>2. CASE k = 1
    BY <2>1, <2>2
  <2>3. CASE k # 1
    <3>1. 1 < k /\ k - 1 \in 1 .. n - 1 /\ (k - 1) + 1 = k
      BY <1>2, <2>3
    <3>2. a < p
      BY <1>1, <1>3, <2>1, <3>1
    <3>3. a \in Nat /\ p \in Nat /\ at[(k - 1) + 1] = p
      BY <1>4, <2>1, <3>1
    <3> HIDE DEF a, to
    <3>4. a <= p
      BY <3>2, <3>3
    <3>. QED
      BY <3>1, <3>3, <3>4
  <2>. QED
    BY <2>2, <2>3
<1>6. \A k \in 1 .. n - 1 : to[k] = at[k + 1] /\ at[k + 1] \in places /\ a < at[k + 1]
  BY <1>1, <1>3
<1>7. to \in [1 .. n - 1 -> places \ {a}]
  <2>1. \A k \in 1 .. n - 1 : to[k] \in places \ {a}
    <3> HIDE DEF a, to
    <3>1. a \in Nat /\ \A p \in places : p \in Nat
      BY <1>4
    <3>2. \A p \in places : a < p => p # a
      BY <3>1
    <3>. QED
      BY <1>6, <3>2
  <2>. QED
    BY <2>1
<1> HIDE DEF to
<1>8. ASSUME NEW j \in 1 .. n - 1, NEW k \in 1 .. n - 1, j < k PROVE to[j] < to[k]
  <2>1. j + 1 \in 1 .. n /\ k + 1 \in 1 .. n /\ j + 1 < k + 1
    BY <1>3, <1>8
  <2>. QED
    BY <1>1, <1>6, <2>1
<1>9. ASSUME NEW p \in places \ {a} PROVE \E k \in 1 .. n - 1 : to[k] = p
  BY <1>5, <1>6
<1>10. \A k \in 1 .. n - 1 : rest[k] = points[to[k]]
  BY <1>1, <1>2, <1>3, <1>6
<1>11. IsListing(rest, points, places \ {a})
  BY <1>2, <1>7, <1>8, <1>9, <1>10 DEF IsListing
<1>. QED
  BY <1>4, <1>5, <1>11 DEF rest

(* and a list says nothing of other places.                                *)
LEMMA ListingSame ==
  ASSUME NEW list, NEW places, NEW points, IsListing(list, points, places),
         NEW others, \A p \in places : others[p] = points[p]
  PROVE  IsListing(list, others, places)
<1>1. PICK at \in [1 .. Len(list) -> places] :
        /\ \A j, k \in 1 .. Len(list) : j < k => at[j] < at[k]
        /\ \A p \in places : \E k \in 1 .. Len(list) : at[k] = p
        /\ \A k \in 1 .. Len(list) : list[k] = points[at[k]]
  BY DEF IsListing
<1>2. \A k \in 1 .. Len(list) : list[k] = others[at[k]]
  BY <1>1
<1>. QED
  BY <1>1, <1>2 DEF IsListing

(* One network more is compared with those reported so far.                *)
LEMMA OneMore ==
  ASSUME NEW places \in SUBSET Nat, NEW points, \A p \in places : points[p] \in Network,
         NEW list \in Seq(Network), list # <<>>, NEW result,
         Deduplicated(points, places, list, result),
         NEW same, same = {n \in result : n.ssid = Head(list).ssid},
         NEW next, next = (IF \E n \in same : Head(list).signal <= n.signal
                           THEN result ELSE (result \ same) \cup {Head(list)})
  PROVE  Deduplicated(points, places, Tail(list), next)
<1>1. PICK gone \in SUBSET places :
        /\ \A p \in gone : \A q \in places \ gone : p < q
        /\ IsListing(list, points, places \ gone)
        /\ result = Winners(points, gone)
        /\ \A q \in gone : \E n \in result :
             n.ssid = points[q].ssid /\ points[q].signal <= n.signal
  BY DEF Deduplicated
<1>2. PICK a \in places \ gone :
        /\ Head(list) = points[a] /\ \A p \in places \ gone : a <= p
        /\ IsListing(Tail(list), points, (places \ gone) \ {a})
  <2>1. places \ gone \in SUBSET Nat
    OBVIOUS
  <2>. QED
    BY <1>1, <2>1, ListingFalls
<1> DEFINE more == gone \cup {a}
<1>3. more \in SUBSET places /\ places \ more = (places \ gone) \ {a}
  OBVIOUS
<1>4. ASSUME NEW p \in more, NEW q \in places \ more PROVE p < q
  <2>1. q \in places \ gone /\ q # a /\ q \in Nat /\ a \in Nat /\ a <= q
    BY <1>2
  <2>2. CASE p = a
    BY <2>1, <2>2
  <2>3. CASE p \in gone
    BY <1>1, <2>1, <2>3
  <2>. QED
    BY <2>2, <2>3
<1>5. IsListing(Tail(list), points, places \ more)
  BY <1>2, <1>3
<1>6. /\ \A p \in places : points[p].signal \in Nat /\ p \in Nat
      /\ a \in places /\ \A p \in gone : p < a /\ p \in places
  BY <1>1 DEF Network
<1>7. \A n : n \in result <=> \E p \in gone : n = points[p] /\ Wins(points, gone, p)
  BY <1>1 DEF Winners
<1>8. \A n : n \in same <=> n \in result /\ n.ssid = points[a].ssid
  BY <1>2
(* Whom the new one leaves a winner.                                       *)
<1>9. ASSUME NEW p \in gone
      PROVE  Wins(points, more, p) <=>
               /\ Wins(points, gone, p)
               /\ points[a].ssid = points[p].ssid => points[a].signal <= points[p].signal
  <2>1. Beats(points, p, a) <=> points[a].signal <= points[p].signal
    <3>1. points[a].signal \in Nat /\ points[p].signal \in Nat /\ p <= a
      BY <1>6
    <3>. QED
      BY <3>1 DEF Beats
  <2>. QED
    BY <2>1 DEF Wins
<1>10. Wins(points, more, a) <=>
         \A q \in gone : points[q].ssid = points[a].ssid => points[q].signal < points[a].signal
  <2>1. ASSUME NEW q \in gone
        PROVE  Beats(points, a, q) <=> points[q].signal < points[a].signal
    <3>1. points[a].signal \in Nat /\ points[q].signal \in Nat /\ ~ (a <= q)
      BY <1>6
    <3>. QED
      BY <3>1 DEF Beats
  <2>2. Beats(points, a, a)
    <3>1. points[a].signal \in Nat /\ a \in Nat
      BY <1>6
    <3>. QED
      BY <3>1 DEF Beats
  <2>. QED
    BY <2>1, <2>2 DEF Wins
<1>11. \A n : n \in Winners(points, more) <=>
         \E p \in more : n = points[p] /\ Wins(points, more, p)
  BY DEF Winners
<1>12. CASE \E n \in same : points[a].signal <= n.signal
  <2>1. PICK b \in gone : /\ Wins(points, gone, b) /\ points[b].ssid = points[a].ssid
                          /\ points[a].signal <= points[b].signal
    BY <1>7, <1>8, <1>12
  <2>2. ~ Wins(points, more, a)
    <3>1. points[a].signal \in Nat /\ points[b].signal \in Nat
      BY <1>6
    <3>2. ~ (points[b].signal < points[a].signal)
      BY <2>1, <3>1
    <3>. QED
      BY <1>10, <2>1, <3>2
  <2>3. ASSUME NEW p \in gone, Wins(points, gone, p), points[a].ssid = points[p].ssid
        PROVE  points[a].signal <= points[p].signal
    <3>1. Beats(points, p, b)
      BY <2>1, <2>3 DEF Wins
    <3>2. /\ points[a].signal \in Nat /\ points[b].signal \in Nat /\ points[p].signal \in Nat
          /\ points[a].signal <= points[b].signal
      BY <1>6, <2>1
    <3>3. points[b].signal <= points[p].signal
      BY <3>1, <3>2 DEF Beats
    <3>. QED
      BY <3>2, <3>3
  <2>4. \A p \in gone : Wins(points, more, p) <=> Wins(points, gone, p)
    BY <1>9, <2>3
  <2>5. \A n : n \in Winners(points, more) <=> n \in result
    BY <1>7, <1>11, <2>2, <2>4
  <2>6. next = result /\ result = Winners(points, more)
    BY <1>2, <1>12, <2>5, <1>7 DEF Winners
  <2>7. \A q \in more : \E n \in result : n.ssid = points[q].ssid /\ points[q].signal <= n.signal
    BY <1>1, <1>8, <1>12
  <2>. QED
    BY <1>3, <1>4, <1>5, <2>6, <2>7 DEF Deduplicated
<1>13. CASE \A n \in same : ~ (points[a].signal <= n.signal)
  <2>1. ASSUME NEW q \in gone, points[q].ssid = points[a].ssid
        PROVE  points[q].signal < points[a].signal
    <3>1. PICK p \in gone : /\ points[p] \in same /\ points[p].ssid = points[q].ssid
                            /\ points[q].signal <= points[p].signal
      BY <1>1, <1>7, <1>8, <2>1
    <3>2. ~ (points[a].signal <= points[p].signal)
      BY <1>13, <3>1
    <3>3. points[a].signal \in Nat /\ points[q].signal \in Nat /\ points[p].signal \in Nat
      BY <1>6
    <3>. QED
      BY <3>1, <3>2, <3>3
  <2>2. Wins(points, more, a)
    BY <1>10, <2>1
  <2>3. ASSUME NEW p \in gone
        PROVE  Wins(points, more, p) <=> Wins(points, gone, p) /\ points[p].ssid # points[a].ssid
    <3>1. points[p].ssid = points[a].ssid => ~ (points[a].signal <= points[p].signal)
      <4>1. points[a].signal \in Nat /\ points[p].signal \in Nat
        BY <1>6
      <4>2. points[p].ssid = points[a].ssid => points[p].signal < points[a].signal
        BY <2>1
      <4>. QED
        BY <4>1, <4>2
    <3>. QED
      BY <1>9, <3>1
  <2>4. next = (result \ same) \cup {points[a]}
    BY <1>2, <1>13
  <2>5. ASSUME NEW n
        PROVE  n \in Winners(points, more) <=> n \in next
    <3>1. n \in result \ same <=>
            \E p \in gone : n = points[p] /\ Wins(points, gone, p) /\ points[p].ssid # points[a].ssid
      BY <1>7, <1>8
    <3>2. n \in Winners(points, more) <=>
            \/ n = points[a]
            \/ \E p \in gone : n = points[p] /\ Wins(points, more, p)
      BY <1>11, <2>2
    <3>. QED
      BY <2>3, <2>4, <3>1, <3>2
  <2>6. next = Winners(points, more)
    BY <2>5 DEF Winners
  <2>7. ASSUME NEW q \in more
        PROVE  \E n \in next : n.ssid = points[q].ssid /\ points[q].signal <= n.signal
    <3>1. CASE points[q].ssid = points[a].ssid
      <4>1. points[q].signal <= points[a].signal
        <5>1. points[a].signal \in Nat /\ points[q].signal \in Nat
          BY <1>6
        <5>2. q = a \/ points[q].signal < points[a].signal
          BY <2>1, <3>1
        <5>. QED
          BY <5>1, <5>2
      <4>. QED
        BY <2>4, <3>1, <4>1
    <3>2. CASE points[q].ssid # points[a].ssid
      BY <1>1, <1>8, <2>4, <3>2
    <3>. QED
      BY <3>1, <3>2
  <2>. QED
    BY <1>3, <1>4, <1>5, <2>6, <2>7 DEF Deduplicated
<1>. QED
  BY <1>12, <1>13

(* When none is left the winners are reported.                             *)
LEMMA AllCompared ==
  ASSUME NEW points, NEW places, NEW result, Deduplicated(points, places, <<>>, result)
  PROVE  result = Winners(points, places)
<1>1. PICK gone \in SUBSET places :
        IsListing(<<>>, points, places \ gone) /\ result = Winners(points, gone)
  BY DEF Deduplicated
<1>2. places \ gone = {}
  BY <1>1, NoListing
<1>3. gone = places
  BY <1>2
<1>. QED
  BY <1>1, <1>3

(* And at first none has been compared.                                    *)
LEMMA NoneCompared ==
  ASSUME NEW points, NEW places, NEW list, IsListing(list, points, places)
  PROVE  Deduplicated(points, places, list, {})
<1>1. Winners(points, {}) = {} /\ places \ {} = places
  BY DEF Winners
<1>2. {} \in SUBSET places
  OBVIOUS
<1>. QED
  BY <1>1, <1>2 DEF Deduplicated

(* The lines that belong to the BSS line at b, those of one kind among     *)
(* them, and what the last of these says.                                  *)
Between(ls, b) == {i \in b + 1 .. Len(ls) : \A j \in b + 1 .. i : ls[j] # BSS}
Hits(ls, b, kind) == {i \in Between(ls, b) : ls[i].kind = kind}
LastSaid(ls, b, kind, otherwise) ==
  IF Hits(ls, b, kind) = {} THEN otherwise
  ELSE ls[CHOOSE i \in Hits(ls, b, kind) : \A j \in Hits(ls, b, kind) : j <= i].value

Kinds == {"ssid", "signal", "security"}

(* What is said is said by the last line of its kind.                      *)
LEMMA SaidIsLast ==
  ASSUME NEW b, NEW kind, NEW otherwise
  PROVE  /\ Said(b, kind, otherwise) = LastSaid(lines, b, kind, otherwise)
         /\ Said(b, kind, otherwise)' = LastSaid(lines', b, kind, otherwise)
BY DEF Said, LastSaid, Hits, Between, Block

(* Among some of the first n numbers is a greatest one.                    *)
LEMMA GreatestOf ==
  ASSUME NEW n \in Nat, NEW T \in SUBSET (1 .. n), T # {}
  PROVE  \E m \in T : \A k \in T : k <= m
<1> DEFINE above == {k \in Nat : \A m \in T : m <= k}
<1>1. n \in above
  OBVIOUS
<1>2. PICK m \in above : \A k \in above : m <= k
  <2>1. above \in SUBSET Nat /\ above # {}
    BY <1>1
  <2> HIDE DEF above
  <2>. QED
    BY <2>1, LeastOf
<1>3. m \in Nat /\ \A k \in T : k <= m /\ k \in Nat
  BY <1>2
<1>4. ASSUME m \notin T PROVE FALSE
  <2>1. \A k \in T : k <= m - 1
    BY <1>3, <1>4
  <2>2. m - 1 \in Nat
    <3>1. PICK k \in T : TRUE
      OBVIOUS
    <3>2. k \in Nat /\ k <= m - 1 /\ m - 1 \in Int
      BY <1>3, <2>1
    <3>. QED
      BY <3>2
  <2>3. m - 1 \in above
    BY <2>1, <2>2
  <2>4. m <= m - 1
    BY <1>2, <2>3
  <2>. QED
    BY <1>3, <2>4
<1>. QED
  BY <1>3, <1>4

(* So there is a last line wherever there is one.                          *)
LEMMA LastSaidIs ==
  ASSUME NEW ls \in Seq(IwLines), NEW b \in Nat, NEW kind, NEW otherwise
  PROVE  /\ Hits(ls, b, kind) = {} => LastSaid(ls, b, kind, otherwise) = otherwise
         /\ Hits(ls, b, kind) # {} =>
              \E i \in Hits(ls, b, kind) : /\ \A j \in Hits(ls, b, kind) : j <= i
                                           /\ LastSaid(ls, b, kind, otherwise) = ls[i].value
<1> DEFINE hits == Hits(ls, b, kind)
<1>1. hits \in SUBSET (1 .. Len(ls)) /\ Len(ls) \in Nat
  BY DEF Hits, Between
<1>2. LastSaid(ls, b, kind, otherwise) =
        IF hits = {} THEN otherwise ELSE ls[CHOOSE i \in hits : \A j \in hits : j <= i].value
  BY Zenon DEF LastSaid
<1> HIDE DEF hits
<1>3. ASSUME hits # {}
      PROVE  \E i \in hits : /\ \A j \in hits : j <= i
                             /\ LastSaid(ls, b, kind, otherwise) = ls[i].value
  <2>1. \E i \in hits : \A j \in hits : j <= i
    BY <1>1, <1>3, GreatestOf
  <2>. QED
    BY <1>2, <1>3, <2>1
<1>4. hits = {} => LastSaid(ls, b, kind, otherwise) = otherwise
  BY <1>2
<1>. QED
  BY <1>3, <1>4 DEF hits

(* What a line of iw may say.                                              *)
LEMMA LineTypes ==
  ASSUME NEW line \in IwLines
  PROVE  /\ line.kind = "ssid" => line.value \in Names \cup {NoName}
         /\ line.kind = "signal" => line.value \in Nat
         /\ line.kind = "security" => line.value \in Securities /\ line.value # ""
         /\ line # BSS => line.kind \in Kinds \cup {"other"}
         /\ BSS.kind = "BSS"
<1>1. BSS.kind = "BSS"
  BY DEF BSS
<1>2. CASE line \in {BSS, [kind |-> "other"]}
  <2>1. line = BSS \/ line.kind = "other"
    BY <1>2
  <2>. QED
    BY <1>1, <2>1
<1>3. CASE line \in [kind : {"ssid"}, value : Names \cup {NoName}]
  BY <1>1, <1>3 DEF Kinds
<1>4. CASE line \in [kind : {"signal"}, value : Signals]
  BY <1>1, <1>4, NetworksAssumption DEF Kinds
<1>5. CASE line \in [kind : {"security"}, value : {"WPA2", "WPA"}]
  <2>1. line.kind = "security" /\ line.value \in {"WPA2", "WPA"}
    BY <1>5
  <2>. QED
    BY <1>1, <2>1 DEF Kinds, Securities
<1>. QED
  BY <1>2, <1>3, <1>4, <1>5 DEF IwLines

(* What may have been said.                                                *)
LEMMA LastSaidTypes ==
  ASSUME NEW ls \in Seq(IwLines), NEW b \in Nat, NEW otherwise
  PROVE  /\ otherwise \in Names \cup {NoName} =>
              LastSaid(ls, b, "ssid", otherwise) \in Names \cup {NoName}
         /\ otherwise \in Nat => LastSaid(ls, b, "signal", otherwise) \in Nat
         /\ otherwise \in Securities => LastSaid(ls, b, "security", otherwise) \in Securities
<1>1. ASSUME NEW kind \in Kinds
      PROVE  \/ LastSaid(ls, b, kind, otherwise) = otherwise
             \/ \E line \in IwLines : /\ line.kind = kind
                                      /\ LastSaid(ls, b, kind, otherwise) = line.value
  <2>1. CASE Hits(ls, b, kind) = {}
    BY <2>1, LastSaidIs
  <2>2. CASE Hits(ls, b, kind) # {}
    <3>1. PICK i \in Hits(ls, b, kind) : LastSaid(ls, b, kind, otherwise) = ls[i].value
      BY <2>2, LastSaidIs
    <3>2. ls[i] \in IwLines /\ ls[i].kind = kind
      BY DEF Hits, Between
    <3>. QED
      BY <3>1, <3>2
  <2>. QED
    BY <2>1, <2>2
<1>2. "ssid" \in Kinds /\ "signal" \in Kinds /\ "security" \in Kinds
  BY DEF Kinds
<1>. QED
  BY <1>1, <1>2, LineTypes

(* When no line says the value that stands for none, the two ways to begin *)
(* come to the same.                                                       *)
LEMMA NoneSaid ==
  ASSUME NEW ls \in Seq(IwLines), NEW b \in Nat, NEW kind, NEW none, NEW otherwise,
         \A line \in IwLines : line.kind = kind => line.value # none
  PROVE  LastSaid(ls, b, kind, otherwise) =
           IF LastSaid(ls, b, kind, none) = none THEN otherwise ELSE LastSaid(ls, b, kind, none)
<1>1. CASE Hits(ls, b, kind) = {}
  BY <1>1, LastSaidIs
<1>2. CASE Hits(ls, b, kind) # {}
  <2> DEFINE hits == Hits(ls, b, kind)
             value == ls[CHOOSE i \in hits : \A j \in hits : j <= i].value
  <2>1. /\ LastSaid(ls, b, kind, otherwise) = IF hits = {} THEN otherwise ELSE value
        /\ LastSaid(ls, b, kind, none) = IF hits = {} THEN none ELSE value
    BY Zenon DEF LastSaid
  <2>2. PICK i \in Hits(ls, b, kind) : LastSaid(ls, b, kind, none) = ls[i].value
    BY <1>2, LastSaidIs
  <2>3. ls[i] \in IwLines /\ ls[i].kind = kind
    BY DEF Hits, Between
  <2>4. hits # {}
    BY <1>2
  <2> HIDE DEF hits, value
  <2>. QED
    BY <2>1, <2>2, <2>3, <2>4
<1>. QED
  BY <1>1, <1>2

(* One line more. *)
LEMMA OneLineMore ==
  ASSUME NEW S, NEW ls \in Seq(S), NEW line \in S
  PROVE  /\ Append(ls, line) \in Seq(S) /\ Len(ls) \in Nat
         /\ Len(Append(ls, line)) = Len(ls) + 1
         /\ DOMAIN ls = 1 .. Len(ls) /\ DOMAIN Append(ls, line) = 1 .. Len(ls) + 1
         /\ Append(ls, line)[Len(ls) + 1] = line
         /\ \A i \in 1 .. Len(ls) : Append(ls, line)[i] = ls[i] /\ ls[i] \in S
OBVIOUS

(* It belongs to the last BSS line unless it is one.                       *)
LEMMA BetweenLonger ==
  ASSUME NEW ls \in Seq(IwLines), NEW line \in IwLines, NEW b \in 1 .. Len(ls)
  PROVE  Between(Append(ls, line), b) =
           IF line # BSS /\ \A j \in b + 1 .. Len(ls) : ls[j] # BSS
           THEN Between(ls, b) \cup {Len(ls) + 1} ELSE Between(ls, b)
<1> DEFINE n == Len(ls)
           more == Append(ls, line)
<1>1. /\ n \in Nat /\ Len(more) = n + 1 /\ more[n + 1] = line
      /\ \A i \in 1 .. n : more[i] = ls[i]
  BY OneLineMore
<1>2. /\ \A i : i \in Between(more, b) <=>
                  i \in b + 1 .. n + 1 /\ \A j \in b + 1 .. i : more[j] # BSS
      /\ \A i : i \in Between(ls, b) <=>
                  i \in b + 1 .. n /\ \A j \in b + 1 .. i : ls[j] # BSS
  BY <1>1 DEF Between
<1> HIDE DEF n, more
<1>3. b \in Nat /\ 1 <= b /\ b <= n
  BY <1>1 DEF n
<1>4. ASSUME NEW i \in b + 1 .. n
      PROVE  i \in Between(more, b) <=> i \in Between(ls, b)
  <2>1. \A j \in b + 1 .. i : more[j] = ls[j]
    BY <1>1, <1>3
  <2>2. i \in b + 1 .. n + 1
    BY <1>1, <1>3
  <2>. QED
    BY <1>2, <2>1, <2>2
<1>5. n + 1 \in Between(more, b) <=> line # BSS /\ \A j \in b + 1 .. n : ls[j] # BSS
  <2>1. n + 1 \in b + 1 .. n + 1 /\ \A j \in b + 1 .. n + 1 : j = n + 1 \/ j \in b + 1 .. n
    BY <1>1, <1>3
  <2>2. \A j \in b + 1 .. n : j \in b + 1 .. n + 1 /\ more[j] = ls[j]
    BY <1>1, <1>3
  <2>. QED
    BY <1>1, <1>2, <2>1, <2>2
<1>6. ASSUME NEW i PROVE i \in b + 1 .. n + 1 <=> i \in b + 1 .. n \/ i = n + 1
  BY <1>1, <1>3
<1>7. n + 1 \notin b + 1 .. n
  BY <1>1
<1>8. \A i : i \in Between(more, b) <=>
         \/ i \in Between(ls, b)
         \/ i = n + 1 /\ line # BSS /\ \A j \in b + 1 .. n : ls[j] # BSS
  BY <1>2, <1>4, <1>5, <1>6, <1>7
<1>9. CASE line # BSS /\ \A j \in b + 1 .. n : ls[j] # BSS
  <2>1. Between(more, b) = Between(ls, b) \cup {n + 1}
    BY <1>8, <1>9
  <2>. QED
    BY <1>9, <2>1, Zenon DEF n, more
<1>10. CASE ~ (line # BSS /\ \A j \in b + 1 .. n : ls[j] # BSS)
  <2>1. Between(more, b) = Between(ls, b)
    BY <1>8, <1>10
  <2>. QED
    BY <1>10, <2>1, Zenon DEF n, more
<1>. QED
  BY <1>9, <1>10

(* A line of a kind replaces what the last BSS line's network was said to  *)
(* be; nothing else does.                                                  *)
LEMMA LastSaidLonger ==
  ASSUME NEW ls \in Seq(IwLines), NEW line \in IwLines, NEW b \in 1 .. Len(ls),
         NEW kind \in Kinds, NEW otherwise
  PROVE  LastSaid(Append(ls, line), b, kind, otherwise) =
           IF line.kind = kind /\ \A j \in b + 1 .. Len(ls) : ls[j] # BSS
           THEN line.value ELSE LastSaid(ls, b, kind, otherwise)
<1> DEFINE n == Len(ls)
           more == Append(ls, line)
           last == \A j \in b + 1 .. Len(ls) : ls[j] # BSS
           hits == Hits(ls, b, kind)
           longer == Hits(more, b, kind)
<1>1. /\ n \in Nat /\ Len(more) = n + 1 /\ more[n + 1] = line
      /\ \A i \in 1 .. n : more[i] = ls[i]
      /\ more \in Seq(IwLines) /\ b \in Nat
  BY OneLineMore
<1>2. line.kind = kind => line # BSS
  BY LineTypes DEF Kinds
<1>3. Between(more, b) =
        IF line # BSS /\ last THEN Between(ls, b) \cup {n + 1} ELSE Between(ls, b)
  BY BetweenLonger
<1>4. Between(ls, b) \subseteq 1 .. n
  BY <1>1 DEF Between
<1>5. /\ \A i : i \in longer <=> i \in Between(more, b) /\ more[i].kind = kind
      /\ \A i : i \in hits <=> i \in Between(ls, b) /\ ls[i].kind = kind
  BY DEF Hits
<1>6. /\ hits = {} => LastSaid(ls, b, kind, otherwise) = otherwise
      /\ hits # {} => \E i \in hits : /\ \A j \in hits : j <= i
                                     /\ LastSaid(ls, b, kind, otherwise) = ls[i].value
      /\ longer = {} => LastSaid(more, b, kind, otherwise) = otherwise
      /\ longer # {} => \E i \in longer : /\ \A j \in longer : j <= i
                                         /\ LastSaid(more, b, kind, otherwise) = more[i].value
  <2>1. /\ hits = {} => LastSaid(ls, b, kind, otherwise) = otherwise
        /\ hits # {} => \E i \in hits : /\ \A j \in hits : j <= i
                                       /\ LastSaid(ls, b, kind, otherwise) = ls[i].value
    BY <1>1, LastSaidIs
  <2>2. ASSUME NEW m \in Seq(IwLines)
        PROVE  /\ Hits(m, b, kind) = {} => LastSaid(m, b, kind, otherwise) = otherwise
               /\ Hits(m, b, kind) # {} =>
                    \E i \in Hits(m, b, kind) : /\ \A j \in Hits(m, b, kind) : j <= i
                                               /\ LastSaid(m, b, kind, otherwise) = m[i].value
    BY <1>1, LastSaidIs
  <2>3. /\ longer = {} => LastSaid(more, b, kind, otherwise) = otherwise
        /\ longer # {} => \E i \in longer : /\ \A j \in longer : j <= i
                                           /\ LastSaid(more, b, kind, otherwise) = more[i].value
    BY <1>1, <2>2
  <2>. QED
    BY <2>1, <2>3
<1> HIDE DEF n, more, last, hits, longer
<1>7. CASE line.kind = kind /\ last
  <2>1. n + 1 \in longer /\ longer \subseteq 1 .. n + 1
    BY <1>1, <1>2, <1>3, <1>4, <1>5, <1>7
  <2>2. PICK i \in longer : n + 1 <= i /\ LastSaid(more, b, kind, otherwise) = more[i].value
    BY <1>6, <2>1
  <2>3. i = n + 1
    BY <1>1, <2>1, <2>2
  <2>4. LastSaid(more, b, kind, otherwise) = line.value
    BY <1>1, <2>2, <2>3
  <2>. QED
    BY <1>7, <2>4, Zenon DEF last, more
<1>8. CASE ~ (line.kind = kind /\ last)
  <2>1. \A i : i \in longer <=> i \in hits
    <3>1. \A i \in Between(ls, b) : more[i] = ls[i]
      BY <1>1, <1>4
    <3>2. CASE line # BSS /\ last
      <4>1. more[n + 1].kind # kind
        BY <1>1, <1>8, <3>2
      <4>. QED
        BY <1>3, <1>5, <3>1, <3>2, <4>1
    <3>3. CASE ~ (line # BSS /\ last)
      BY <1>3, <1>5, <3>1, <3>3
    <3>. QED
      BY <3>2, <3>3
  <2>2. longer = hits /\ hits \subseteq 1 .. n
    BY <1>4, <1>5, <2>1
  <2>3. CASE hits = {}
    <3>1. LastSaid(more, b, kind, otherwise) = LastSaid(ls, b, kind, otherwise)
      BY <1>6, <2>2, <2>3
    <3>. QED
      BY <1>8, <3>1, Zenon DEF last, more
  <2>4. CASE hits # {}
    <3>1. PICK i \in hits : /\ \A j \in hits : j <= i
                              /\ LastSaid(ls, b, kind, otherwise) = ls[i].value
      BY <1>6, <2>4
    <3>2. PICK k \in hits : /\ \A j \in hits : j <= k
                              /\ LastSaid(more, b, kind, otherwise) = more[k].value
      BY <1>6, <2>2, <2>4
    <3>3. i = k
      <4>1. i <= k /\ k <= i /\ i \in Nat /\ k \in Nat
        BY <2>2, <3>1, <3>2
      <4>. QED
        BY <4>1
    <3>4. more[k] = ls[k]
      BY <1>1, <2>2
    <3>5. LastSaid(more, b, kind, otherwise) = LastSaid(ls, b, kind, otherwise)
      BY <3>1, <3>2, <3>3, <3>4
    <3>. QED
      BY <1>8, <3>5, Zenon DEF last, more
  <2>. QED
    BY <2>3, <2>4
<1>. QED
  BY <1>7, <1>8

(* Nothing has been said behind the last line.                             *)
LEMMA NothingSaid ==
  ASSUME NEW ls \in Seq(IwLines), NEW kind, NEW otherwise
  PROVE  LastSaid(ls, Len(ls), kind, otherwise) = otherwise
<1>1. Hits(ls, Len(ls), kind) = {}
  BY DEF Hits, Between
<1>. QED
  BY <1>1, LastSaidIs

(* What has been said so far of the network of the BSS line at b, and the  *)
(* access point this makes.                                                *)
Heard(ls, b) == [ssid |-> LastSaid(ls, b, "ssid", NoName),
                 signal |-> LastSaid(ls, b, "signal", NoSignal),
                 security |-> LastSaid(ls, b, "security", "")]

(* What has been said of a network makes one.                              *)
LEMMA HeardTypes ==
  ASSUME NEW ls \in Seq(IwLines), NEW b \in Nat
  PROVE  Heard(ls, b) \in Network
<1>1. LastSaid(ls, b, "ssid", NoName) \in Names \cup {NoName}
  BY LastSaidTypes
<1>2. LastSaid(ls, b, "signal", NoSignal) \in Nat
  BY LastSaidTypes DEF NoSignal
<1>3. LastSaid(ls, b, "security", "") \in Securities
  BY LastSaidTypes DEF Securities
<1>. QED
  BY <1>1, <1>2, <1>3 DEF Heard, Network

(* A network without security is an open one.                              *)
LEMMA WithSecurityTypes ==
  ASSUME NEW network \in Network
  PROVE  /\ WithSecurity(network) \in Network
         /\ WithSecurity(network) =
              [ssid |-> network.ssid, signal |-> network.signal,
               security |-> IF network.security = "" THEN "OPEN" ELSE network.security]
         /\ WithSecurity(network).ssid = network.ssid
<1>1. CASE network.security = ""
  BY <1>1 DEF WithSecurity, Network, Securities
<1>2. CASE network.security # ""
  BY <1>2 DEF WithSecurity, Network, Securities
<1>. QED
  BY <1>1, <1>2

(* The network that is pushed is the access point.                         *)
LEMMA PushedIsPoint ==
  ASSUME NEW b \in Nat, lines \in Seq(IwLines)
  PROVE  WithSecurity(Heard(lines, b)) = AccessPoint(b)
<1>1. /\ AccessPoint(b).ssid = LastSaid(lines, b, "ssid", NoName)
      /\ AccessPoint(b).signal = LastSaid(lines, b, "signal", NoSignal)
      /\ AccessPoint(b).security = LastSaid(lines, b, "security", "OPEN")
  BY SaidIsLast DEF AccessPoint
<1>2. \A line \in IwLines : line.kind = "security" => line.value # ""
  BY LineTypes
<1>3. LastSaid(lines, b, "security", "OPEN") =
        IF LastSaid(lines, b, "security", "") = "" THEN "OPEN"
        ELSE LastSaid(lines, b, "security", "")
  <2> DEFINE Same(ls, kind, none, otherwise) ==
               LastSaid(ls, b, kind, otherwise) =
                 IF LastSaid(ls, b, kind, none) = none
                 THEN otherwise ELSE LastSaid(ls, b, kind, none)
  <2>1. ASSUME NEW ls \in Seq(IwLines), NEW kind, NEW none, NEW otherwise,
               \A line \in IwLines : line.kind = kind => line.value # none
        PROVE  Same(ls, kind, none, otherwise)
    BY <2>1, NoneSaid
  <2>2. Same(lines, "security", "", "OPEN")
    <3> HIDE DEF Same
    <3>. QED
      BY <1>2, <2>1
  <2>. QED
    BY <2>2, Zenon
<1>4. /\ Heard(lines, b).ssid = LastSaid(lines, b, "ssid", NoName)
      /\ Heard(lines, b).signal = LastSaid(lines, b, "signal", NoSignal)
      /\ Heard(lines, b).security = LastSaid(lines, b, "security", "")
  BY DEF Heard
<1>5. WithSecurity(Heard(lines, b)) =
        [ssid |-> Heard(lines, b).ssid, signal |-> Heard(lines, b).signal,
         security |-> IF Heard(lines, b).security = "" THEN "OPEN" ELSE Heard(lines, b).security]
  BY HeardTypes, WithSecurityTypes
<1>6. AccessPoint(b) = [ssid |-> AccessPoint(b).ssid, signal |-> AccessPoint(b).signal,
                        security |-> AccessPoint(b).security]
  BY DEF AccessPoint
<1>. QED
  BY <1>1, <1>3, <1>4, <1>5, <1>6

IsLastSpot(b) == b \in Spots /\ \A p \in Spots : p <= b

(* While iw's output is read all access points before the last one are on  *)
(* the list, and what was said of the last is known; wpa_cli's are on the  *)
(* list at once; then the list is gone through.                            *)
NetInv ==
  /\ scan \in {"iw", "wpa_cli", "iw-read", "wpa_cli-read"} /\ inBlock \in BOOLEAN
  /\ lines \in Seq(IF Iw THEN IwLines ELSE WpaCliLines)
  /\ networks \in Seq(Network)
  /\ scan \in {"iw", "wpa_cli"} => reported = {}
  /\ scan = "iw" /\ ~inBlock => Spots = {} /\ networks = <<>>
  /\ scan = "iw" /\ inBlock =>
       \E b \in Spots : /\ IsLastSpot(b) /\ current = Heard(lines, b)
                        /\ IsListing(networks, Points, Visible(Points) \ {b})
  /\ scan = "wpa_cli" => IsListing(networks, Points, Visible(Points))
  /\ scan \in {"iw-read", "wpa_cli-read"} =>
       Deduplicated(Points, Visible(Points), networks, reported)

(* A line of wpa_cli is a network.                                         *)
LEMMA WpaCliLineTypes == ASSUME NEW n \in WpaCliLines PROVE n \in Network
<1>1. /\ n = [ssid |-> n.ssid, signal |-> n.signal, security |-> n.security]
      /\ n.ssid \in Names \cup {NoName} /\ n.signal \in Signals \cup {NoSignal}
      /\ n.security = "WPA2"
  BY DEF WpaCliLines
<1>2. n.signal \in Nat /\ n.security \in Securities
  BY <1>1, NetworksAssumption DEF NoSignal, Securities
<1>. QED
  BY <1>1, <1>2 DEF Network

(* What the points are, whatever was read. *)
LEMMA PointsAre ==
  ASSUME NetInv
  PROVE  /\ Spots \subseteq 1 .. Len(lines) /\ Len(lines) \in Nat /\ DOMAIN Points = Spots
         /\ \A p \in Spots : Points[p] = (IF Iw THEN AccessPoint(p) ELSE lines[p])
         /\ \A p \in Spots : Points[p] \in Network
         /\ \A p : p \in Visible(Points) <=> p \in Spots /\ Points[p].ssid # NoName
         /\ Visible(Points) \in SUBSET Nat
<1>1. lines \in Seq(IF Iw THEN IwLines ELSE WpaCliLines)
  BY DEF NetInv
<1>2. Spots \subseteq 1 .. Len(lines) /\ Len(lines) \in Nat
  <2>1. CASE Iw
    BY <1>1, <2>1 DEF Spots
  <2>2. CASE ~Iw
    BY <1>1, <2>2 DEF Spots
  <2>. QED
    BY <2>1, <2>2
<1>3. /\ DOMAIN Points = Spots
      /\ \A p \in Spots : Points[p] = (IF Iw THEN AccessPoint(p) ELSE lines[p])
  BY DEF Points
<1>4. ASSUME NEW p \in Spots PROVE Points[p] \in Network
  <2>1. CASE Iw
    <3>1. lines \in Seq(IwLines) /\ p \in Nat
      BY <1>1, <1>2, <2>1
    <3>2. Points[p] = WithSecurity(Heard(lines, p))
      BY <1>3, <2>1, <3>1, PushedIsPoint
    <3>. QED
      BY <3>1, <3>2, HeardTypes, WithSecurityTypes
  <2>2. CASE ~Iw
    <3>1. lines \in Seq(WpaCliLines) /\ p \in 1 .. Len(lines)
      BY <1>1, <1>2, <2>2
    <3>2. Points[p] \in WpaCliLines
      BY <1>3, <2>2, <3>1
    <3>. QED
      BY <3>2, WpaCliLineTypes
  <2>. QED
    BY <2>1, <2>2
<1>5. \A p : p \in Visible(Points) <=> p \in Spots /\ Points[p].ssid # NoName
  BY <1>3 DEF Visible
<1>. QED
  BY <1>2, <1>3, <1>4, <1>5

(* What is pushed completes the list.                                      *)
LEMMA Pushed ==
  ASSUME NetInv, scan = "iw", push_current
  PROVE  networks' \in Seq(Network) /\ IsListing(networks', Points, Visible(Points))
<1>1. /\ Spots \subseteq 1 .. Len(lines) /\ Len(lines) \in Nat
      /\ \A p \in Spots : Points[p] = (IF Iw THEN AccessPoint(p) ELSE lines[p])
      /\ \A p \in Spots : Points[p] \in Network
      /\ \A p : p \in Visible(Points) <=> p \in Spots /\ Points[p].ssid # NoName
      /\ Visible(Points) \in SUBSET Nat
  BY PointsAre
<1>2. networks \in Seq(Network) /\ lines \in Seq(IwLines) /\ Iw
  BY DEF NetInv, Iw
<1>3. CASE ~inBlock
  <2>1. Spots = {} /\ networks = <<>> /\ networks' = networks
    BY <1>3 DEF NetInv, push_current
  <2>2. Visible(Points) = {}
    BY <1>1, <2>1
  <2>. QED
    BY <1>2, <2>1, <2>2, NoListing
<1>4. CASE inBlock
  <2>1. PICK b \in Spots : /\ IsLastSpot(b) /\ current = Heard(lines, b)
                           /\ IsListing(networks, Points, Visible(Points) \ {b})
    BY <1>4 DEF NetInv
  <2>2. /\ b \in Nat /\ lines \in Seq(IwLines) /\ Points[b] = AccessPoint(b)
        /\ \A p \in Spots : p <= b /\ p \in Nat
    BY <1>1, <1>2, <2>1 DEF IsLastSpot
  <2>3. WithSecurity(current) = Points[b] /\ current \in Network
    BY <2>1, <2>2, PushedIsPoint, HeardTypes
  <2>4. current.ssid = Points[b].ssid
    BY <2>3, WithSecurityTypes
  <2>5. CASE current.ssid = NoName
    <3>1. networks' = networks
      BY <2>5 DEF push_current
    <3>2. Visible(Points) \ {b} = Visible(Points)
      BY <1>1, <2>4, <2>5
    <3>. QED
      BY <1>2, <2>1, <3>1, <3>2
  <2>6. CASE current.ssid # NoName
    <3>1. networks' = Append(networks, Points[b])
      BY <1>4, <2>3, <2>6 DEF push_current
    <3>2. (Visible(Points) \ {b}) \cup {b} = Visible(Points)
      BY <1>1, <2>4, <2>6
    <3>3. Visible(Points) \ {b} \in SUBSET Nat /\ \A p \in Visible(Points) \ {b} : p < b
      BY <1>1, <2>2
    <3>4. Points[b] \in Network
      BY <1>1
    <3>5. IsListing(Append(networks, Points[b]), Points, (Visible(Points) \ {b}) \cup {b})
      BY <1>2, <2>1, <2>2, <3>3, <3>4, ListingGrows
    <3>6. Append(networks, Points[b]) \in Seq(Network)
      BY <1>2, <3>4
    <3>. QED
      BY <3>1, <3>2, <3>5, <3>6, Zenon
  <2>. QED
    BY <2>5, <2>6
<1>. QED
  BY <1>3, <1>4

(* A line of iw's adds a point if it is a BSS line; another one changes    *)
(* the last point only.                                                    *)
LEMMA LineOfIw ==
  ASSUME NetInv, scan = "iw", NEW line \in IwLines, Read(line)
  PROVE  /\ lines' \in Seq(IwLines) /\ Iw'
         /\ Spots' = IF line = BSS THEN Spots \cup {Len(lines) + 1} ELSE Spots
         /\ DOMAIN Points' = Spots'
         /\ \A p \in Spots : line = BSS \/ (\E q \in Spots : p < q) => Points'[p] = Points[p]
<1>1. /\ lines \in Seq(IwLines) /\ lines' = Append(lines, line) /\ Iw /\ Iw'
      /\ Spots \subseteq 1 .. Len(lines)
  BY PointsAre DEF NetInv, Iw, Read
<1>2. /\ lines' \in Seq(IwLines) /\ Len(lines) \in Nat /\ Len(lines') = Len(lines) + 1
      /\ DOMAIN lines = 1 .. Len(lines) /\ DOMAIN lines' = 1 .. Len(lines) + 1
      /\ lines'[Len(lines) + 1] = line /\ \A i \in 1 .. Len(lines) : lines'[i] = lines[i]
  BY <1>1, OneLineMore
<1>3. /\ \A i : i \in Spots <=> i \in 1 .. Len(lines) /\ lines[i] = BSS
      /\ \A i : i \in Spots' <=> i \in 1 .. Len(lines) + 1 /\ lines'[i] = BSS
  BY <1>1, <1>2 DEF Spots
<1>4. \A i : i \in 1 .. Len(lines) + 1 <=> i \in 1 .. Len(lines) \/ i = Len(lines) + 1
  BY <1>2
<1>5. Len(lines) + 1 \notin 1 .. Len(lines)
  BY <1>2
<1>6. Spots' = IF line = BSS THEN Spots \cup {Len(lines) + 1} ELSE Spots
  BY <1>2, <1>3, <1>4, <1>5
<1>7. DOMAIN Points' = Spots' /\ \A p \in Spots' : Points'[p] = AccessPoint(p)'
  BY <1>1 DEF Points
<1>8. ASSUME NEW p \in Spots, line = BSS \/ \E q \in Spots : p < q
      PROVE  Points'[p] = Points[p]
  <2>1. Points'[p] = AccessPoint(p)' /\ Points[p] = AccessPoint(p) /\ p \in 1 .. Len(lines)
    BY <1>1, <1>6, <1>7, PointsAre
  <2>2. line.kind \notin Kinds \/ ~ \A j \in p + 1 .. Len(lines) : lines[j] # BSS
    <3>1. CASE line = BSS
      BY <3>1, LineTypes DEF Kinds
    <3>2. CASE \E q \in Spots : p < q
      <4>1. PICK q \in Spots : p < q
        BY <3>2
      <4>2. q \in p + 1 .. Len(lines) /\ lines[q] = BSS
        BY <1>2, <1>3, <2>1, <4>1
      <4>. QED
        BY <4>2
    <3>. QED
      BY <1>8, <3>1, <3>2
  <2>3. \A kind \in Kinds : \A otherwise :
          LastSaid(lines', p, kind, otherwise) = LastSaid(lines, p, kind, otherwise)
    BY <1>1, <2>1, <2>2, LastSaidLonger
  <2>4. \A kind \in Kinds : \A otherwise : Said(p, kind, otherwise)' = Said(p, kind, otherwise)
    BY <2>3, SaidIsLast
  <2>5. "ssid" \in Kinds /\ "signal" \in Kinds /\ "security" \in Kinds
    BY DEF Kinds
  <2>6. AccessPoint(p)' = AccessPoint(p)
    BY <2>4, <2>5 DEF AccessPoint
  <2>. QED
    BY <2>1, <2>6
<1>. QED
  BY <1>1, <1>2, <1>6, <1>7, <1>8

(* At first there is no line and no network.                               *)
LEMMA NetInitial == NetInit => NetInv
<1> SUFFICES ASSUME NetInit PROVE NetInv
  OBVIOUS
<1>1. Spots = {} /\ Visible(Points) = {}
  <2>1. Spots = {}
    BY DEF NetInit, Spots
  <2>2. DOMAIN Points = {}
    BY <2>1 DEF Points
  <2>. QED
    BY <2>1, <2>2 DEF Visible
<1>2. IsListing(<<>>, Points, Visible(Points))
  BY <1>1, NoListing
<1>3. lines \in Seq(IF Iw THEN IwLines ELSE WpaCliLines) /\ networks \in Seq(Network)
  BY DEF NetInit
<1>. QED
  BY <1>1, <1>2, <1>3 DEF NetInit, NetInv

(* A BSS line completes one network and begins the next.                   *)
LEMMA ReadsBss == NetInv /\ ReadBss => NetInv'
<1> SUFFICES ASSUME NetInv, ReadBss PROVE NetInv'
  OBVIOUS
<1> DEFINE n == Len(lines)
<1>1. /\ scan = "iw" /\ scan' = scan /\ Read(BSS) /\ push_current /\ inBlock' = TRUE
      /\ lines' = Append(lines, BSS) /\ reported' = reported /\ reported = {}
      /\ BSS \in IwLines /\ current' = Unknown
  BY DEF ReadBss, Read, NetInv, IwLines, push_current
<1>2. /\ Spots \subseteq 1 .. n /\ n \in Nat
      /\ \A p : p \in Visible(Points) <=> p \in Spots /\ Points[p].ssid # NoName
  BY PointsAre
<1>3. /\ lines' \in Seq(IwLines) /\ Iw' /\ Spots' = Spots \cup {n + 1} /\ DOMAIN Points' = Spots'
      /\ \A p \in Spots : Points'[p] = Points[p]
  BY <1>1, LineOfIw
<1>4. /\ networks' \in Seq(Network) /\ IsListing(networks', Points, Visible(Points))
  BY <1>1, Pushed
<1>5. lines \in Seq(IwLines) /\ Len(lines') = n + 1
  <2>1. lines \in Seq(IwLines)
    BY <1>1 DEF NetInv, Iw
  <2>. QED
    BY <1>1, <2>1, OneLineMore
<1> HIDE DEF n
<1>6. \A kind, otherwise : LastSaid(lines', n + 1, kind, otherwise) = otherwise
  BY <1>3, <1>5, NothingSaid
<1>7. current' = Heard(lines', n + 1)
  BY <1>1, <1>6, Zenon DEF Heard, Unknown
<1>8. Points'[n + 1].ssid = NoName
  <2>1. PICK top : top = n + 1
    OBVIOUS
  <2>2. Points'[top] = AccessPoint(top)'
    BY <1>3, <2>1 DEF Points
  <2>3. AccessPoint(top)'.ssid = Said(top, "ssid", NoName)'
    BY DEF AccessPoint
  <2>4. \A kind, otherwise : Said(top, kind, otherwise)' = otherwise
    BY <1>6, <2>1, SaidIsLast
  <2>. QED
    BY <2>1, <2>2, <2>3, <2>4
<1>9. Visible(Points') = Visible(Points) /\ n + 1 \notin Visible(Points')
  <2>1. \A p : p \in Visible(Points') <=> p \in Spots' /\ Points'[p].ssid # NoName
    BY <1>3 DEF Visible
  <2>. QED
    BY <1>2, <1>3, <1>8, <2>1
<1>10. IsListing(networks', Points', Visible(Points') \ {n + 1})
  <2>1. \A p \in Visible(Points) : Points'[p] = Points[p]
    BY <1>2, <1>3
  <2>2. Visible(Points') \ {n + 1} = Visible(Points)
    BY <1>9
  <2>3. IsListing(networks', Points', Visible(Points))
    BY <1>4, <2>1, ListingSame
  <2>. QED
    BY <2>2, <2>3
<1>11. n + 1 \in Spots' /\ \A p \in Spots' : p <= n + 1
  BY <1>2, <1>3
<1>12. \E b \in Spots' : /\ IsLastSpot(b)' /\ current' = Heard(lines', b)
                         /\ IsListing(networks', Points', Visible(Points') \ {b})
  BY <1>7, <1>10, <1>11 DEF IsLastSpot
<1>. QED
  BY <1>1, <1>3, <1>4, <1>12 DEF NetInv

(* The assignment to one field.                                            *)
LEMMA FieldReplaced ==
  ASSUME NEW h \in Network
  PROVE  /\ \A v \in Names \cup {NoName} : [h EXCEPT !.ssid = v] =
               [ssid |-> v, signal |-> h.signal, security |-> h.security]
         /\ \A v \in Nat : [h EXCEPT !.signal = v] =
               [ssid |-> h.ssid, signal |-> v, security |-> h.security]
         /\ \A v \in Securities : [h EXCEPT !.security = v] =
               [ssid |-> h.ssid, signal |-> h.signal, security |-> v]
<1>1. ASSUME NEW v \in Names \cup {NoName}
      PROVE  [h EXCEPT !.ssid = v] = [ssid |-> v, signal |-> h.signal, security |-> h.security]
  BY DEF Network
<1>2. ASSUME NEW v \in Nat
      PROVE  [h EXCEPT !.signal = v] = [ssid |-> h.ssid, signal |-> v, security |-> h.security]
  BY DEF Network
<1>3. ASSUME NEW v \in Securities
      PROVE  [h EXCEPT !.security = v] = [ssid |-> h.ssid, signal |-> h.signal, security |-> v]
  BY DEF Network
<1>. QED
  BY <1>1, <1>2, <1>3

(* A line of some kind sets that field of the last network.                *)
LEMMA HeardLonger ==
  ASSUME NEW ls \in Seq(IwLines), NEW more, NEW b \in Nat, NEW line \in IwLines, line # BSS,
         \A kind \in Kinds : \A otherwise : LastSaid(more, b, kind, otherwise) =
           IF line.kind = kind THEN line.value ELSE LastSaid(ls, b, kind, otherwise)
  PROVE  Heard(more, b) = IF line.kind = "other" THEN Heard(ls, b)
                          ELSE [Heard(ls, b) EXCEPT ![line.kind] = line.value]
<1>1. "ssid" \in Kinds /\ "signal" \in Kinds /\ "security" \in Kinds
  BY DEF Kinds
<1>2. /\ LastSaid(more, b, "ssid", NoName) =
           IF line.kind = "ssid" THEN line.value ELSE LastSaid(ls, b, "ssid", NoName)
      /\ LastSaid(more, b, "signal", NoSignal) =
           IF line.kind = "signal" THEN line.value ELSE LastSaid(ls, b, "signal", NoSignal)
      /\ LastSaid(more, b, "security", "") =
           IF line.kind = "security" THEN line.value ELSE LastSaid(ls, b, "security", "")
  BY <1>1
<1>3. line.kind \in {"ssid", "signal", "security", "other"}
  BY LineTypes DEF Kinds
<1>4. CASE line.kind = "other"
  BY <1>2, <1>4 DEF Heard
<1>8. /\ Heard(ls, b).ssid = LastSaid(ls, b, "ssid", NoName)
      /\ Heard(ls, b).signal = LastSaid(ls, b, "signal", NoSignal)
      /\ Heard(ls, b).security = LastSaid(ls, b, "security", "")
      /\ Heard(more, b) = [ssid |-> LastSaid(more, b, "ssid", NoName),
                           signal |-> LastSaid(more, b, "signal", NoSignal),
                           security |-> LastSaid(more, b, "security", "")]
  BY DEF Heard
<1>9. Heard(ls, b) \in Network
  BY HeardTypes
<1>5. CASE line.kind = "ssid"
  <2>1. [Heard(ls, b) EXCEPT ![line.kind] = line.value] =
          [Heard(ls, b) EXCEPT !.ssid = line.value]
    BY <1>5, Zenon
  <2>2. Heard(more, b) =
          [ssid |-> line.value, signal |-> Heard(ls, b).signal,
           security |-> Heard(ls, b).security]
    BY <1>2, <1>5, <1>8, <1>9
  <2>3. [Heard(ls, b) EXCEPT !.ssid = line.value] =
          [ssid |-> line.value, signal |-> Heard(ls, b).signal,
           security |-> Heard(ls, b).security]
    BY <1>5, <1>9, LineTypes, FieldReplaced
  <2>4. line.kind # "other"
    BY <1>5
  <2>. QED
    BY <2>1, <2>2, <2>3, <2>4, Zenon
<1>6. CASE line.kind = "signal"
  <2>1. [Heard(ls, b) EXCEPT ![line.kind] = line.value] =
          [Heard(ls, b) EXCEPT !.signal = line.value]
    BY <1>6, Zenon
  <2>2. Heard(more, b) =
          [ssid |-> Heard(ls, b).ssid, signal |-> line.value,
           security |-> Heard(ls, b).security]
    BY <1>2, <1>6, <1>8, <1>9
  <2>3. [Heard(ls, b) EXCEPT !.signal = line.value] =
          [ssid |-> Heard(ls, b).ssid, signal |-> line.value,
           security |-> Heard(ls, b).security]
    BY <1>6, <1>9, LineTypes, FieldReplaced
  <2>4. line.kind # "other"
    BY <1>6
  <2>. QED
    BY <2>1, <2>2, <2>3, <2>4, Zenon
<1>7. CASE line.kind = "security"
  <2>1. [Heard(ls, b) EXCEPT ![line.kind] = line.value] =
          [Heard(ls, b) EXCEPT !.security = line.value]
    BY <1>7, Zenon
  <2>2. Heard(more, b) =
          [ssid |-> Heard(ls, b).ssid, signal |-> Heard(ls, b).signal,
           security |-> line.value]
    BY <1>2, <1>7, <1>8, <1>9
  <2>3. [Heard(ls, b) EXCEPT !.security = line.value] =
          [ssid |-> Heard(ls, b).ssid, signal |-> Heard(ls, b).signal,
           security |-> line.value]
    BY <1>7, <1>9, LineTypes, FieldReplaced
  <2>4. line.kind # "other"
    BY <1>7
  <2>. QED
    BY <2>1, <2>2, <2>3, <2>4, Zenon
<1>. QED
  BY <1>3, <1>4, <1>5, <1>6, <1>7

(* Another line of iw leaves all networks but the last as they are.        *)
LEMMA ReadsIwLine == ASSUME NetInv, NEW line \in IwLines, ReadIwLine(line) PROVE NetInv'
<1> DEFINE n == Len(lines)
<1>1. /\ scan = "iw" /\ scan' = scan /\ Read(line) /\ line # BSS /\ inBlock' = inBlock
      /\ inBlock \in BOOLEAN
      /\ lines' = Append(lines, line) /\ reported' = reported /\ reported = {}
      /\ networks' = networks /\ networks \in Seq(Network)
      /\ current' = IF ~inBlock \/ line.kind = "other" THEN current
                    ELSE [current EXCEPT ![line.kind] = line.value]
  BY DEF ReadIwLine, Read, NetInv
<1>2. /\ Spots \subseteq 1 .. n /\ n \in Nat
      /\ \A p : p \in Visible(Points) <=> p \in Spots /\ Points[p].ssid # NoName
  BY PointsAre
<1>3. /\ lines' \in Seq(IwLines) /\ Iw' /\ Spots' = Spots /\ DOMAIN Points' = Spots'
      /\ \A p \in Spots : (\E q \in Spots : p < q) => Points'[p] = Points[p]
  BY <1>1, LineOfIw
<1>4. CASE ~inBlock
  <2>1. Spots = {} /\ networks = <<>>
    BY <1>1, <1>4 DEF NetInv
  <2>. QED
    BY <1>1, <1>3, <1>4, <2>1 DEF NetInv
<1>5. CASE inBlock
  <2>1. PICK b \in Spots : /\ IsLastSpot(b) /\ current = Heard(lines, b)
                           /\ IsListing(networks, Points, Visible(Points) \ {b})
    BY <1>1, <1>5 DEF NetInv
  <2>2. b \in 1 .. n /\ \A p \in Spots : p <= b /\ p \in Nat
    BY <1>2, <2>1 DEF IsLastSpot
  <2>3. \A p \in Spots \ {b} : Points'[p] = Points[p]
    <3>1. \A p \in Spots \ {b} : p < b
      BY <2>2
    <3>. QED
      BY <1>3, <3>1
  <2>4. Visible(Points') \ {b} = Visible(Points) \ {b}
    <3>1. \A p : p \in Visible(Points') <=> p \in Spots /\ Points'[p].ssid # NoName
      BY <1>3 DEF Visible
    <3>. QED
      BY <1>2, <2>3, <3>1
  <2>5. IsListing(networks', Points', Visible(Points') \ {b})
    <3>1. \A p \in Visible(Points) \ {b} : Points'[p] = Points[p]
      BY <1>2, <2>3
    <3>2. IsListing(networks, Points', Visible(Points) \ {b})
      BY <2>1, <3>1, ListingSame
    <3>. QED
      BY <1>1, <2>4, <3>2
  <2>6. lines \in Seq(IwLines)
    BY <1>1 DEF NetInv, Iw
  <2>7. \A j \in b + 1 .. n : lines[j] # BSS
    <3>1. \A j \in b + 1 .. n : j \in 1 .. n /\ ~ (j <= b)
      BY <1>2, <2>2
    <3>2. \A j \in 1 .. n : lines[j] = BSS => j \in Spots
      BY <1>1, <2>6 DEF Spots, Iw
    <3>. QED
      BY <2>2, <3>1, <3>2
  <2>8. \A kind \in Kinds : \A otherwise : LastSaid(lines', b, kind, otherwise) =
          IF line.kind = kind THEN line.value ELSE LastSaid(lines, b, kind, otherwise)
    BY <1>1, <2>2, <2>6, <2>7, LastSaidLonger
  <2>9. current' = Heard(lines', b)
    BY <1>1, <1>5, <2>1, <2>2, <2>6, <2>8, HeardLonger
  <2>10. \E c \in Spots' : /\ IsLastSpot(c)' /\ current' = Heard(lines', c)
                           /\ IsListing(networks', Points', Visible(Points') \ {c})
    BY <1>3, <2>1, <2>5, <2>9 DEF IsLastSpot
  <2>. QED
    BY <1>1, <1>3, <1>5, <2>10 DEF NetInv
<1>. QED
  BY <1>1, <1>4, <1>5

(* A line of wpa_cli is a network more, which is listed if it has a name.  *)
LEMMA ReadsWpaCliLine ==
  ASSUME NetInv, NEW line \in WpaCliLines, ReadWpaCliLine(line)
  PROVE  NetInv'
<1> DEFINE n == Len(lines)
<1>1. /\ scan = "wpa_cli" /\ scan' = scan /\ inBlock' = inBlock /\ inBlock \in BOOLEAN
      /\ lines' = Append(lines, line) /\ reported' = reported /\ reported = {}
      /\ networks \in Seq(Network) /\ IsListing(networks, Points, Visible(Points))
      /\ networks' = IF line.ssid = NoName THEN networks ELSE Append(networks, line)
      /\ lines \in Seq(WpaCliLines) /\ ~Iw /\ ~Iw'
  BY DEF ReadWpaCliLine, Read, NetInv, Iw
<1>2. /\ Spots \subseteq 1 .. n /\ n \in Nat /\ \A p \in Spots : Points[p] = lines[p]
      /\ \A p : p \in Visible(Points) <=> p \in Spots /\ Points[p].ssid # NoName
      /\ Visible(Points) \in SUBSET Nat
  BY <1>1, PointsAre
<1>3. /\ lines' \in Seq(WpaCliLines) /\ lines'[n + 1] = line
      /\ DOMAIN lines = 1 .. n /\ DOMAIN lines' = 1 .. n + 1
      /\ \A i \in 1 .. n : lines'[i] = lines[i]
  BY <1>1, OneLineMore
<1>4. /\ Spots = 1 .. n /\ Spots' = 1 .. n + 1 /\ DOMAIN Points' = Spots'
      /\ \A p \in Spots' : Points'[p] = lines'[p]
  BY <1>1, <1>3 DEF Spots, Points
<1> HIDE DEF n
<1>5. /\ n + 1 \in 1 .. n + 1 /\ n + 1 \notin 1 .. n
      /\ \A p \in 1 .. n : p \in 1 .. n + 1 /\ p < n + 1
      /\ \A p \in 1 .. n + 1 : p \in 1 .. n \/ p = n + 1
  BY <1>2
<1>6. Points'[n + 1] = line /\ \A p \in Spots : Points'[p] = Points[p]
  BY <1>2, <1>3, <1>4, <1>5
<1>7. \A p : p \in Visible(Points') <=> p \in Spots' /\ Points'[p].ssid # NoName
  BY <1>4 DEF Visible
<1>8. IsListing(networks, Points', Visible(Points))
  <2>1. \A p \in Visible(Points) : Points'[p] = Points[p]
    BY <1>2, <1>6
  <2>. QED
    BY <1>1, <2>1, ListingSame
<1>9. networks' \in Seq(Network) /\ IsListing(networks', Points', Visible(Points'))
  <2>1. CASE line.ssid = NoName
    <3>1. Visible(Points') = Visible(Points)
      <4>1. n + 1 \notin Visible(Points')
        BY <1>6, <1>7, <2>1
      <4>2. \A p \in Spots : p \in Visible(Points') <=> p \in Visible(Points)
        BY <1>2, <1>4, <1>5, <1>6, <1>7
      <4>3. \A p : p \in Visible(Points') => p \in Spots
        BY <1>4, <1>5, <1>7, <4>1
      <4>. QED
        BY <1>2, <4>2, <4>3
    <3>. QED
      BY <1>1, <1>8, <2>1, <3>1
  <2>2. CASE line.ssid # NoName
    <3>1. Visible(Points') = Visible(Points) \cup {n + 1}
      BY <1>2, <1>4, <1>5, <1>6, <1>7, <2>2
    <3>2. line \in Network
      BY WpaCliLineTypes
    <3>3. \A p \in Visible(Points) : p < n + 1
      BY <1>2, <1>5
    <3>4. IsListing(Append(networks, line), Points', Visible(Points) \cup {n + 1})
      <4>1. PICK top : top = n + 1
        OBVIOUS
      <4>2. top \in Nat /\ Points'[top] = line /\ \A p \in Visible(Points) : p < top
        BY <1>2, <1>6, <3>3, <4>1
      <4>3. ASSUME NEW points, points[top] = line, IsListing(networks, points, Visible(Points))
            PROVE  IsListing(Append(networks, line), points, Visible(Points) \cup {top})
        BY <1>1, <1>2, <3>2, <4>2, <4>3, ListingGrows
      <4>. QED
        BY <1>8, <4>1, <4>2, <4>3
    <3>5. Append(networks, line) \in Seq(Network) /\ networks' = Append(networks, line)
      BY <1>1, <2>2, <3>2
    <3>. QED
      BY <3>1, <3>4, <3>5, Zenon
  <2>. QED
    BY <2>1, <2>2
<1>. QED
  BY <1>1, <1>3, <1>9 DEF NetInv

(* Nothing more of the output is read. *)
LEMMA PointsStay ==
  ASSUME lines' = lines, Iw' = Iw
  PROVE  Points' = Points /\ Visible(Points') = Visible(Points)
<1>1. Spots' = Spots
  BY DEF Spots
<1>2. \A i : AccessPoint(i)' = AccessPoint(i)
  BY DEF AccessPoint, Said, Block
<1>3. Points' = Points
  BY <1>1, <1>2 DEF Points
<1>. QED
  BY <1>3

(* The end of the output completes the list.                               *)
LEMMA EndsOutput == NetInv /\ OutputEnds => NetInv'
<1> SUFFICES ASSUME NetInv, OutputEnds PROVE NetInv'
  OBVIOUS
<1>1. /\ lines' = lines /\ inBlock' = inBlock /\ reported' = reported /\ reported = {}
      /\ inBlock \in BOOLEAN /\ lines \in Seq(IF Iw THEN IwLines ELSE WpaCliLines)
      /\ scan' \in {"iw-read", "wpa_cli-read"} /\ Iw' = Iw
  BY DEF OutputEnds, NetInv, Iw
<1>2. networks' \in Seq(Network) /\ IsListing(networks', Points, Visible(Points))
  <2>1. CASE scan = "iw"
    BY <2>1, Pushed DEF OutputEnds
  <2>2. CASE scan = "wpa_cli"
    BY <2>2 DEF OutputEnds, NetInv
  <2>. QED
    BY <2>1, <2>2 DEF OutputEnds
<1>3. Deduplicated(Points', Visible(Points'), networks', reported')
  <2>1. Points' = Points /\ Visible(Points') = Visible(Points)
    BY <1>1, PointsStay
  <2>2. Deduplicated(Points, Visible(Points), networks', {})
    BY <1>2, NoneCompared
  <2>. QED
    BY <1>1, <2>1, <2>2
<1>. QED
  BY <1>1, <1>2, <1>3 DEF NetInv

(* One network of the list is compared with those reported.                *)
LEMMA Deduplicates == NetInv /\ DeduplicateStrongest => NetInv'
<1> SUFFICES ASSUME NetInv, DeduplicateStrongest PROVE NetInv'
  OBVIOUS
<1> DEFINE same == {n \in reported : n.ssid = Head(networks).ssid}
<1>1. /\ scan' = scan /\ lines' = lines /\ inBlock' = inBlock /\ Iw' = Iw
      /\ inBlock \in BOOLEAN /\ lines \in Seq(IF Iw THEN IwLines ELSE WpaCliLines)
      /\ scan \in {"iw-read", "wpa_cli-read"}
      /\ networks \in Seq(Network) /\ networks # <<>> /\ networks' = Tail(networks)
      /\ Deduplicated(Points, Visible(Points), networks, reported)
  BY DEF DeduplicateStrongest, NetInv, Iw
<1>2. reported' = IF \E n \in same : Head(networks).signal <= n.signal
                  THEN reported ELSE (reported \ same) \cup {Head(networks)}
  BY DEF DeduplicateStrongest
<1>3. /\ Visible(Points) \in SUBSET Nat
      /\ \A p \in Visible(Points) : Points[p] \in Network
  BY PointsAre
<1> HIDE DEF same
<1>4. Deduplicated(Points, Visible(Points), Tail(networks), reported')
  BY <1>1, <1>2, <1>3, OneMore DEF same
<1>5. Deduplicated(Points', Visible(Points'), networks', reported')
  <2>1. Points' = Points /\ Visible(Points') = Visible(Points)
    BY <1>1, PointsStay
  <2>. QED
    BY <1>1, <1>4, <2>1
<1>6. networks' \in Seq(Network)
  BY <1>1
<1>. QED
  BY <1>1, <1>5, <1>6 DEF NetInv

(* Every step of a scan keeps the invariant,                               *)
LEMMA NetStep == NetInv /\ NetNext => NetInv'
<1>1. \A line \in IwLines : NetInv /\ ReadIwLine(line) => NetInv'
  BY ReadsIwLine
<1>2. \A line \in WpaCliLines : NetInv /\ ReadWpaCliLine(line) => NetInv'
  BY ReadsWpaCliLine
<1>. QED
  BY <1>1, <1>2, ReadsBss, EndsOutput, Deduplicates DEF NetNext

(* and so does a step of another reader.                                   *)
LEMMA NetStays == NetInv /\ UNCHANGED netVars => NetInv'
<1> SUFFICES ASSUME NetInv, UNCHANGED netVars PROVE NetInv'
  OBVIOUS
<1>1. UNCHANGED <<scan, lines, current, inBlock, networks, reported>>
  BY DEF netVars
<1>2. Iw' = Iw
  BY <1>1 DEF Iw
<1>3. Points' = Points /\ Visible(Points') = Visible(Points) /\ Spots' = Spots
  BY <1>1, <1>2, PointsStay DEF Spots
<1>4. \A b : IsLastSpot(b)' <=> IsLastSpot(b)
  BY <1>3 DEF IsLastSpot
<1>. QED
  BY <1>1, <1>2, <1>3, <1>4 DEF NetInv

(* The access points of the reference are the points.                      *)
LEMMA AccessPointsAre ==
  ASSUME NetInv, scan \in {"iw-read", "wpa_cli-read"}
  PROVE  AccessPoints = {<<p, Points[p]>> : p \in Spots}
<1>1. \A p \in Spots : Points[p] = (IF Iw THEN AccessPoint(p) ELSE lines[p])
  BY PointsAre
<1>2. CASE scan = "iw-read"
  <2>1. Iw /\ Spots = {i \in DOMAIN lines : lines[i] = BSS}
    BY <1>2 DEF Iw, Spots
  <2>2. AccessPoints = {<<b, AccessPoint(b)>> : b \in Spots}
    BY <1>2, <2>1 DEF AccessPoints
  <2>. QED
    BY <1>1, <2>1, <2>2
<1>3. CASE scan = "wpa_cli-read"
  <2>1. ~Iw /\ Spots = DOMAIN lines
    BY <1>3 DEF Iw, Spots
  <2>2. AccessPoints = {<<i, lines[i]>> : i \in Spots}
    BY <1>3, <2>1 DEF AccessPoints
  <2>. QED
    BY <1>1, <2>1, <2>2
<1>. QED
  BY <1>2, <1>3

(* A hidden access point has no name in common with a visible one.         *)
LEMMA StrongestFollows == NetInv => StrongestReported
<1> SUFFICES ASSUME NetInv, Scanned PROVE StrongestReported
  BY DEF StrongestReported
<1>1. scan \in {"iw-read", "wpa_cli-read"} /\ networks = <<>>
  BY DEF Scanned
<1>2. reported = Winners(Points, Visible(Points))
  <2>1. Deduplicated(Points, Visible(Points), networks, reported)
    BY <1>1 DEF NetInv
  <2>. QED
    BY <1>1, <2>1, AllCompared
<1>3. \A p : p \in Visible(Points) <=> p \in Spots /\ Points[p].ssid # NoName
  BY PointsAre
<1> DEFINE Best(p) == /\ p[2].ssid # NoName
                      /\ \A q \in AccessPoints : q[2].ssid = p[2].ssid =>
                           \/ q[2].signal < p[2].signal
                           \/ q[2].signal = p[2].signal /\ p[1] <= q[1]
           point(p) == <<p, Points[p]>>
<1>4. AccessPoints = {point(p) : p \in Spots} /\ \A p : point(p)[1] = p /\ point(p)[2] = Points[p]
  BY <1>1, AccessPointsAre
<1>5. ASSUME NEW p \in Spots
      PROVE  Best(point(p)) <=> p \in Visible(Points) /\ Wins(Points, Visible(Points), p)
  <2> HIDE DEF point
  <2>1. ASSUME NEW q \in Spots
        PROVE  /\ (\/ point(q)[2].signal < point(p)[2].signal
                   \/ point(q)[2].signal = point(p)[2].signal /\ point(p)[1] <= point(q)[1])
                 <=> Beats(Points, p, q)
               /\ point(q)[2].ssid = point(p)[2].ssid <=> Points[q].ssid = Points[p].ssid
    BY <1>4 DEF Beats
  <2>2. Best(point(p)) <=>
          /\ Points[p].ssid # NoName
          /\ \A q \in Spots : Points[q].ssid = Points[p].ssid => Beats(Points, p, q)
    <3>1. (\A r \in AccessPoints : r[2].ssid = point(p)[2].ssid =>
             \/ r[2].signal < point(p)[2].signal
             \/ r[2].signal = point(p)[2].signal /\ point(p)[1] <= r[1])
          <=> \A q \in Spots : Points[q].ssid = Points[p].ssid => Beats(Points, p, q)
      BY <1>4, <2>1
    <3>. QED
      BY <1>4, <3>1
  <2>3. Points[p].ssid # NoName =>
          ((\A q \in Spots : Points[q].ssid = Points[p].ssid => Beats(Points, p, q))
             <=> Wins(Points, Visible(Points), p))
    BY <1>3 DEF Wins
  <2>. QED
    BY <1>3, <2>2, <2>3
<1> HIDE DEF Best, point
<1>6. ASSUME NEW n
      PROVE  n \in reported <=> n \in {p[2] : p \in {p \in AccessPoints : Best(p)}}
  <2>1. n \in reported <=>
          \E p \in Visible(Points) : n = Points[p] /\ Wins(Points, Visible(Points), p)
    BY <1>2 DEF Winners
  <2>2. n \in {p[2] : p \in {p \in AccessPoints : Best(p)}} <=>
          \E p \in Spots : n = Points[p] /\ Best(point(p))
    BY <1>4
  <2>. QED
    BY <1>3, <1>5, <2>1, <2>2
<1>7. reported = {p[2] : p \in {p \in AccessPoints : Best(p)}}
  BY <1>6
<1>. QED
  BY <1>7 DEF StrongestReported, Best

-----------------------------------------------------------------------------
FormatsInv == WavInv /\ DnsInv /\ HttpInv /\ MatchInv /\ NetInv /\ JsonInv

(* Nothing has been read at first. *)
LEMMA FormatsInitial == Init => FormatsInv
<1> SUFFICES ASSUME Init PROVE FormatsInv
  OBVIOUS
<1>1. WavInv
  BY WordAssumption DEF Init, WavInit, WavInv, NoData, Nothing, Word
<1>2. DnsInv
  BY DnsAssumption DEF Init, DnsInit, DnsInv
<1>3. HttpInv
  BY HttpAssumption DEF Init, HttpInit, HttpInv, RequestVerdict, Acceptable, Stalled
<1>4. MatchInv /\ NetInv /\ JsonInv
  BY MatchInitial, NetInitial, JsonInitial DEF Init
<1>. QED
  BY <1>1, <1>2, <1>3, <1>4 DEF FormatsInv

(* A step of the composition is a step of one reader. *)
LEMMA FormatsStep == FormatsInv /\ [Next]_vars => FormatsInv'
<1> SUFFICES ASSUME FormatsInv, [Next]_vars PROVE FormatsInv'
  OBVIOUS
<1>1. /\ WavNext \/ UNCHANGED wavVars
      /\ DnsNext \/ UNCHANGED dnsVars
      /\ HttpNext \/ UNCHANGED httpVars
      /\ TopicMatchesFilter \/ UNCHANGED topicMatchVars
      /\ NetNext \/ UNCHANGED netVars
      /\ JsonNext \/ UNCHANGED jsonVars
  BY DEF Next, vars
<1>2. WavInv'
  <2>1. CASE UNCHANGED wavVars
    BY <2>1 DEF FormatsInv, WavInv, wavVars
  <2>. QED
    BY <1>1, <2>1, WavStep DEF FormatsInv
<1>3. DnsInv'
  <2>1. CASE UNCHANGED dnsVars
    BY <2>1 DEF FormatsInv, DnsInv, dnsVars
  <2>. QED
    BY <1>1, <2>1, DnsStep DEF FormatsInv
<1>4. HttpInv'
  <2>1. CASE UNCHANGED httpVars
    BY <2>1 DEF FormatsInv, HttpInv, RequestVerdict, Acceptable, Stalled, httpVars
  <2>. QED
    BY <1>1, <2>1, HttpStep DEF FormatsInv
<1>5. MatchInv'
  <2>1. CASE UNCHANGED topicMatchVars
    BY <2>1 DEF FormatsInv, MatchInv, RingsIfCovered, Covered, Hidden, Covers, topicMatchVars
  <2>. QED
    BY <1>1, <2>1, MatchStep DEF FormatsInv
<1>6. NetInv'
  BY <1>1, NetStep, NetStays DEF FormatsInv
<1>7. JsonInv'
  <2>1. CASE UNCHANGED jsonVars
    BY <2>1 DEF FormatsInv, JsonInv, JsonShape, jsonVars
  <2>. QED
    BY <1>1, <2>1, JsonStep DEF FormatsInv
<1>. QED
  BY <1>2, <1>3, <1>4, <1>5, <1>6, <1>7 DEF FormatsInv

(* For any width of the machine's words, any file and any packet: neither  *)
(* the scaler nor the mDNS responder touches a byte that is not there.     *)
THEOREM ReadersStayInside == Spec => []ReadsInside
<1>1. FormatsInv => ReadsInside
  BY DEF FormatsInv, WavInv, DnsInv, ReadsInside, WavReadsInside, DnsReadsInside
<1>. QED
  BY <1>1, FormatsInitial, FormatsStep, PTL DEF Spec

(* For any limits, any request and any pieces it comes in: a request is    *)
(* judged by what it is.                                                   *)
THEOREM PiecesDoNotMatter == Spec => []RequestVerdict
<1>1. FormatsInv => RequestVerdict
  BY DEF FormatsInv, HttpInv
<1>. QED
  BY <1>1, FormatsInitial, FormatsStep, PTL DEF Spec

(* For any levels, any topic and any filter: a topic rings exactly when    *)
(* the filter covers it, but for a topic that begins with "$" and a filter *)
(* that begins with a wildcard.                                            *)
THEOREM RingsByWildcards == Spec => []RingsIfCovered
<1>1. FormatsInv => RingsIfCovered
  BY DEF FormatsInv, MatchInv
<1>. QED
  BY <1>1, FormatsInitial, FormatsStep, PTL DEF Spec

(* For any names and signals and an output of any length: a scan reports   *)
(* of each name the strongest access point with what was said of it.       *)
THEOREM ScansReportStrongest == Spec => []StrongestReported
<1>1. FormatsInv => StrongestReported
  BY StrongestFollows DEF FormatsInv
<1>. QED
  BY <1>1, FormatsInitial, FormatsStep, PTL DEF Spec

(* For texts of any length and any depth: the parser accepts exactly the   *)
(* texts of the grammar.                                                   *)
THEOREM AcceptsGrammar == Spec => []GrammarAccepted
<1>1. FormatsInv => GrammarAccepted
  BY GrammarFollows DEF FormatsInv
<1>. QED
  BY <1>1, FormatsInitial, FormatsStep, PTL DEF Spec

-----------------------------------------------------------------------------
(* How far each reader is from its end: which part it is in, the last one  *)
(* being 0, and what is left of that part.                                 *)
WavLeft ==
  IF wav = "start" THEN <<3, 0, 0, 0>>
  ELSE IF wav = "walk" THEN <<2, size - cursor, 0, 0>>
  ELSE IF wav = "scale" THEN <<1, data.length - sample, 0, 0>>
  ELSE <<0, 0, 0, 0>>

HttpLeft ==
  IF http = "head" THEN <<3, sent - got, 0, 0>>
  ELSE IF http = "parse" THEN <<2, 0, 0, 0>>
  ELSE IF http = "body" THEN <<1, sent - got, 0, 0>>
  ELSE <<0, 0, 0, 0>>

\* A pointer may lead back, and costs one of those that may be followed.
DnsLeft ==
  IF dns = "start" THEN <<MaxQuestions + 1, 0, 0, 0>>
  ELSE IF dns = "name"
  THEN <<questions, 3, MaxDepth - depth, IF offset < packetSize THEN packetSize - offset ELSE 0>>
  ELSE IF dns = "type" THEN <<questions, 2, 0, 0>>
  ELSE IF dns = "question" THEN <<questions, 1, 0, 0>>
  ELSE <<questions, 0, 0, 0>>

ScanLeft ==
  IF scan \in {"iw", "wpa_cli"} THEN <<1, MaxLines - Len(lines), 0, 0>>
  ELSE <<0, Len(networks), 0, 0>>

JsonLeft == IF Done THEN <<0, 0, 0, 0>> ELSE <<1, MaxTokens - Len(text), 0, 0>>

TopicLeft ==
  IF rings = "unknown" THEN <<1, Len(filter) + 1 - index, 0, 0>> ELSE <<0, 0, 0, 0>>

Left ==
  IF task = "wav" THEN WavLeft
  ELSE IF task = "http" THEN HttpLeft
  ELSE IF task = "dns" THEN DnsLeft
  ELSE IF task = "scan" THEN ScanLeft
  ELSE IF task = "json" THEN JsonLeft
  ELSE TopicLeft

Ranks == Nat \X Nat \X Nat \X Nat

\* The order of the dictionary, in which nothing descends for ever.
Below(a, b) ==
  \/ a[1] < b[1]
  \/ a[1] = b[1] /\ a[2] < b[2]
  \/ a[1] = b[1] /\ a[2] = b[2] /\ a[3] < b[3]
  \/ a[1] = b[1] /\ a[2] = b[2] /\ a[3] = b[3] /\ a[4] < b[4]

(* Every step brings its reader nearer to the end: no chunk, label, pointer*)
(* or piece is gone through twice, and none that is empty lets it stand    *)
(* still (aplay_audio_player.cpp:135-172, mdns.cpp:121-172).               *)
Nearer == Left \in Ranks /\ Left' \in Ranks /\ Below(Left', Left)

AlwaysNearer == [][Nearer]_vars

(* An output is read only as far as its bound.                             *)
Bounded == Len(lines) <= MaxLines

LEMMA BoundedStep == FormatsInv /\ Bounded /\ [Next]_vars => Bounded'
<1> SUFFICES ASSUME FormatsInv, Bounded, [Next]_vars PROVE Bounded'
  OBVIOUS
<1>1. \/ UNCHANGED lines
      \/ Len(lines) < MaxLines /\ \E line : lines' = Append(lines, line)
  BY DEF Next, vars, NetNext, netVars, ReadBss, ReadIwLine, ReadWpaCliLine, Read, OutputEnds,
         DeduplicateStrongest
<1>2. ASSUME NEW line, Len(lines) < MaxLines, lines' = Append(lines, line)
      PROVE  Bounded'
  BY <1>2, NetworksAssumption DEF FormatsInv, NetInv, Bounded
<1>. QED
  BY <1>1, <1>2 DEF Bounded

(* The scaler: a chunk has a header, a sample has a width.                 *)
LEMMA WavNearer ==
  ASSUME WavInv, WavInv', WavNext
  PROVE  WavLeft \in Ranks /\ WavLeft' \in Ranks /\ Below(WavLeft', WavLeft)
<1>1. /\ size \in Nat /\ size' = size /\ cursor \in Nat /\ sample \in Nat
      /\ data.length \in Nat /\ cursor' \in Nat /\ sample' \in Nat /\ data'.length \in Nat
  BY WordAssumption DEF WavInv, Word, WavNext, CheckHeader, ChunkRefused, FmtChunk, DataChunk,
         OtherChunk, WalkEnds, Scale, Refuse
<1>2. /\ wav = "walk" => cursor <= size
      /\ wav = "scale" => sample <= data.length
      /\ wav' = "walk" => cursor' <= size
      /\ wav' = "scale" => sample' <= data'.length
  BY <1>1 DEF WavInv
<1>3. WavLeft \in Ranks /\ WavLeft' \in Ranks
  BY <1>1, <1>2 DEF WavLeft, Ranks
<1>4. \/ wav = "start" /\ wav' \in {"refused", "walk"}
      \/ wav = "walk" /\ wav' \in {"refused", "scale"}
      \/ wav = "walk" /\ wav' = "walk" /\ cursor' >= cursor + 8
      \/ wav = "scale" /\ wav' = "scaled"
      \/ wav = "scale" /\ wav' = "scale" /\ data' = data /\ sample' > sample
  <2>1. CASE CheckHeader
    BY <2>1 DEF CheckHeader, Refuse
  <2>2. ASSUME NEW n \in Word, ChunkRefused(n) PROVE wav = "walk" /\ wav' = "refused"
    BY <2>2 DEF ChunkRefused, Refuse, InWalk
  <2>3. ASSUME NEW n \in Word, InWalk, ~TooLong(n), Skip(n) \/ Refuse
        PROVE  wav = "walk" /\ (wav' = "refused" \/ (wav' = "walk" /\ cursor' >= cursor + 8))
    BY <2>3, Skipping DEF Refuse, InWalk
  <2>4. ASSUME NEW n \in Word, NEW bits, FmtChunk(n, bits)
        PROVE  InWalk /\ ~TooLong(n) /\ (Skip(n) \/ Refuse)
    BY <2>4 DEF FmtChunk
  <2>5. ASSUME NEW n \in Word, DataChunk(n) \/ OtherChunk(n)
        PROVE  InWalk /\ ~TooLong(n) /\ Skip(n)
    BY <2>5 DEF DataChunk, OtherChunk
  <2>6. CASE WalkEnds
    BY <2>6 DEF WalkEnds, Refuse
  <2>7. CASE Scale
    <3>1. Width \in {1, 2}
      BY <2>7 DEF Scale, WavInv, Width
    <3>2. /\ Plus(sample, Width - 1) = sample + (Width - 1)
          /\ sample + (Width - 1) < data.length => Plus(sample, Width) = sample + Width
      <4>1. data.length < WORD /\ sample <= data.length /\ WORD \in Nat
        BY <1>1, <2>7, WordAssumption DEF Scale, WavInv, Word
      <4>2. data.offset \in Nat /\ data.offset >= 8 /\ data.offset + data.length <= size /\ size < WORD
        BY <2>7, WordAssumption DEF Scale, WavInv, Word
      <4>3. /\ sample + (Width - 1) \in 0 .. WORD - 1
            /\ sample + (Width - 1) < data.length => sample + Width \in 0 .. WORD - 1
        BY <1>1, <3>1, <4>1, <4>2
      <4>4. Width \in Int /\ Width - 1 \in Int /\ sample \in Int
        BY <1>1, <3>1
      <4>. QED
        BY <4>1, <4>3, <4>4, NoWrap
    <3>. QED
      BY <1>1, <2>7, <3>1, <3>2 DEF Scale
  <2>. QED
    BY <2>1, <2>2, <2>3, <2>4, <2>5, <2>6, <2>7 DEF WavNext
<1>. QED
  BY <1>1, <1>2, <1>3, <1>4 DEF WavLeft, Below

(* A request: each piece has a byte.                                       *)
LEMMA HttpNearer ==
  ASSUME HttpInv, HttpInv', HttpNext
  PROVE  HttpLeft \in Ranks /\ HttpLeft' \in Ranks /\ Below(HttpLeft', HttpLeft)
<1>1. sent \in Nat /\ sent' = sent /\ got \in Nat /\ got' \in Nat /\ got <= sent /\ got' <= sent
  BY DEF HttpInv, HttpNext, ReadHead, ParseHead, ReadBody, BodyRead, Answers, Pieces, ClientGone
<1>2. HttpLeft \in Ranks /\ HttpLeft' \in Ranks
  BY <1>1 DEF HttpLeft, Ranks
<1> SUFFICES Below(HttpLeft', HttpLeft)
  BY <1>2
<1>3. \/ http = "head" /\ (http' \in {"refused", "parse"} \/ (http' = "head" /\ got' > got))
      \/ http = "parse" /\ http' \in {"refused", "body"}
      \/ http = "body" /\ (http' \in {"refused", "accepted"} \/ (http' = "body" /\ got' > got))
  BY <1>1, HttpAssumption DEF HttpNext, ReadHead, ParseHead, ReadBody, BodyRead, Answers, Pieces, ClientGone
<1>4. CASE http' = http
  <2>1. /\ \/ HttpLeft = <<3, sent - got, 0, 0>> /\ HttpLeft' = <<3, sent - got', 0, 0>>
           \/ HttpLeft = <<1, sent - got, 0, 0>> /\ HttpLeft' = <<1, sent - got', 0, 0>>
        /\ got' > got
    BY <1>1, <1>3, <1>4 DEF HttpLeft
  <2>. QED
    BY <1>1, <2>1 DEF Below
<1>5. CASE http' # http
  <2>1. HttpLeft[1] \in Nat /\ HttpLeft'[1] \in Nat /\ HttpLeft'[1] < HttpLeft[1]
    BY <1>3, <1>5 DEF HttpLeft
  <2>. QED
    BY <2>1 DEF Below
<1>. QED
  BY <1>4, <1>5

(* A query: a label has a length, a pointer is counted, and so is a        *)
(* question.                                                               *)
LEMMA DnsNearer ==
  ASSUME DnsInv, DnsInv', DnsNext
  PROVE  DnsLeft \in Ranks /\ DnsLeft' \in Ranks /\ Below(DnsLeft', DnsLeft)
<1>1. /\ packetSize \in Nat /\ packetSize' = packetSize /\ offset \in Nat /\ offset' \in Nat
      /\ questions \in Nat /\ questions' \in Nat /\ depth \in Nat /\ depth' \in Nat
      /\ questions <= MaxQuestions /\ questions' <= MaxQuestions
      /\ MaxQuestions \in Nat /\ MaxDepth \in Nat /\ MaxPacket \in Nat /\ MaxLabel \in Nat
      /\ dns = "name" => depth <= MaxDepth
      /\ dns' = "name" => depth' <= MaxDepth
  BY DnsAssumption DEF DnsInv, DnsNext, ReadHeader, NextQuestion, NameEnds, TypeAndClass, Label,
         Pointer, Answer
<1>2. DnsLeft \in Ranks /\ DnsLeft' \in Ranks
  BY <1>1 DEF DnsLeft, Ranks
<1> SUFFICES Below(DnsLeft', DnsLeft)
  BY <1>2
<1> DEFINE left == IF offset < packetSize THEN packetSize - offset ELSE 0
<1>3. CASE ReadHeader
  <2>1. DnsLeft[1] = MaxQuestions + 1 /\ DnsLeft'[1] = questions'
    BY <1>1, <1>3 DEF ReadHeader, Answer, DnsLeft
  <2>. QED
    BY <1>1, <2>1 DEF Below
<1>4. CASE NextQuestion
  <2>1. /\ DnsLeft = <<questions, 1, 0, 0>>
        /\ \/ DnsLeft' = <<questions, 0, 0, 0>>
           \/ DnsLeft'[1] = questions - 1
    BY <1>1, <1>4 DEF NextQuestion, Answer, DnsLeft
  <2>. QED
    BY <1>1, <2>1 DEF Below
<1>5. CASE NameEnds
  <2>1. DnsLeft = <<questions, 3, MaxDepth - depth, left>> /\ DnsLeft' = <<questions, 2, 0, 0>>
    BY <1>5 DEF NameEnds, InName, DnsLeft
  <2>. QED
    BY <1>1, <2>1 DEF Below
<1>6. CASE TypeAndClass
  <2>1. /\ DnsLeft = <<questions, 2, 0, 0>>
        /\ DnsLeft' \in {<<questions, 1, 0, 0>>, <<questions, 0, 0, 0>>}
    BY <1>6 DEF TypeAndClass, Answer, DnsLeft
  <2>. QED
    BY <1>1, <2>1 DEF Below
<1>7. ASSUME NEW length \in 1 .. MaxLabel, Label(length) PROVE Below(DnsLeft', DnsLeft)
  <2>1. DnsLeft = <<questions, 3, MaxDepth - depth, packetSize - offset>> /\ offset < packetSize
    BY <1>7 DEF Label, InName, DnsLeft
  <2>2. CASE offset + 1 + length > packetSize
    <3>1. DnsLeft' = <<questions, 0, 0, 0>>
      BY <1>7, <2>2 DEF Label, DnsLeft
    <3>. QED
      BY <1>1, <2>1, <3>1 DEF Below
  <2>3. CASE ~(offset + 1 + length > packetSize)
    <3>1. DnsLeft' = <<questions, 3, MaxDepth - depth, left'>> /\ offset' = offset + 1 + length
      BY <1>7, <2>3 DEF Label, InName, DnsLeft
    <3>2. left' < packetSize - offset
      BY <1>1, <2>1, <3>1
    <3>. QED
      BY <1>1, <2>1, <3>1, <3>2 DEF Below
  <2>. QED
    BY <2>2, <2>3
<1>8. ASSUME NEW target \in 0 .. MaxPacket, Pointer(target) PROVE Below(DnsLeft', DnsLeft)
  <2>1. DnsLeft = <<questions, 3, MaxDepth - depth, left>>
    BY <1>8 DEF Pointer, InName, DnsLeft
  <2>2. \/ DnsLeft' = <<questions, 0, 0, 0>>
        \/ DnsLeft' = <<questions, 3, MaxDepth - (depth + 1), left'>>
    BY <1>8 DEF Pointer, InName, Answer, DnsLeft
  <2>. QED
    BY <1>1, <2>1, <2>2 DEF Below
<1>. QED
  BY <1>3, <1>4, <1>5, <1>6, <1>7, <1>8 DEF DnsNext

(* A scan: a line more, then a network less.                               *)
LEMMA ScanNearer ==
  ASSUME NetInv, NetInv', Bounded, Bounded', NetNext
  PROVE  ScanLeft \in Ranks /\ ScanLeft' \in Ranks /\ Below(ScanLeft', ScanLeft)
<1>1. /\ Len(lines) \in Nat /\ Len(lines') \in Nat /\ MaxLines \in Nat
      /\ Len(networks) \in Nat /\ Len(networks') \in Nat
      /\ Len(lines) <= MaxLines /\ Len(lines') <= MaxLines
  BY NetworksAssumption DEF NetInv, Bounded
<1>2. ScanLeft \in Ranks /\ ScanLeft' \in Ranks
  BY <1>1 DEF ScanLeft, Ranks
<1>3. \/ /\ scan \in {"iw", "wpa_cli"} /\ scan' = scan
         /\ \E line : lines' = Append(lines, line)
      \/ scan \in {"iw", "wpa_cli"} /\ scan' \in {"iw-read", "wpa_cli-read"}
      \/ /\ scan \in {"iw-read", "wpa_cli-read"} /\ scan' = scan
         /\ networks # <<>> /\ networks' = Tail(networks)
  BY DEF NetNext, ReadBss, ReadIwLine, ReadWpaCliLine, Read, OutputEnds, DeduplicateStrongest
<1>4. (\E line : lines' = Append(lines, line)) => Len(lines') = Len(lines) + 1
  BY DEF NetInv
<1>5. networks # <<>> /\ networks' = Tail(networks) => Len(networks') < Len(networks)
  BY DEF NetInv
<1>. QED
  BY <1>1, <1>3, <1>4, <1>5, <1>2 DEF ScanLeft, Below

(* A JSON text: a token more, or its end.                                  *)
LEMMA JsonNearer ==
  ASSUME JsonInv, JsonInv', JsonNext
  PROVE  JsonLeft \in Ranks /\ JsonLeft' \in Ranks /\ Below(JsonLeft', JsonLeft)
<1>1. /\ Len(text) \in Nat /\ Len(text') \in Nat /\ MaxTokens \in Nat
      /\ Len(text) <= MaxTokens /\ Len(text') <= MaxTokens
  BY JsonAssumption DEF JsonInv, JsonShape, Strings
<1>2. JsonLeft \in Ranks /\ JsonLeft' \in Ranks
  BY <1>1 DEF JsonLeft, Ranks
<1>3. \/ ~Done /\ \E token : text' = Append(text, token)
      \/ ~Done /\ Done'
  BY DEF JsonNext, ReadToken, TextEnds, Done, Goes
<1>4. (\E token : text' = Append(text, token)) => Len(text') = Len(text) + 1
  BY DEF JsonInv, JsonShape, Strings
<1>. QED
  BY <1>1, <1>2, <1>3, <1>4 DEF JsonLeft, Below

(* A topic: a level more, or the answer.                                   *)
LEMMA TopicNearer ==
  ASSUME MatchInv, MatchInv', TopicMatchesFilter
  PROVE  TopicLeft \in Ranks /\ TopicLeft' \in Ranks /\ Below(TopicLeft', TopicLeft)
<1>1. /\ Len(filter) \in Nat /\ filter' = filter /\ index \in Nat /\ index' \in Nat
      /\ index <= Len(filter) + 1 /\ index' <= Len(filter) + 1
  BY DEF MatchInv, TopicMatchesFilter, Return
<1>2. TopicLeft \in Ranks /\ TopicLeft' \in Ranks
  BY <1>1 DEF TopicLeft, Ranks
<1>3. rings = "unknown" /\ (rings' \in {"yes", "no"} \/ (rings' = rings /\ index' = index + 1))
  BY DEF TopicMatchesFilter, Return
<1>. QED
  BY <1>1, <1>2, <1>3 DEF TopicLeft, Below

(* For inputs of any size: whatever a reader does next, less is left, in   *)
(* an order without endless descent. So no reader goes on for ever; that   *)
(* it does not stop before its end is left to Finishes.                    *)
THEOREM NeverCircle == Spec => AlwaysNearer
<1>1. Init => Bounded
  BY NetworksAssumption DEF Init, NetInit, Bounded
<1>2. ASSUME FormatsInv, Bounded, Next
      PROVE  Left \in Ranks /\ Left' \in Ranks /\ Below(Left', Left)
  <2>1. FormatsInv' /\ Bounded'
    BY <1>2, FormatsStep, BoundedStep
  <2>2. CASE task = "wav" /\ WavNext /\ task' = task
    BY <1>2, <2>1, <2>2, WavNearer DEF FormatsInv, Left
  <2>3. CASE task = "http" /\ HttpNext /\ task' = task
    BY <1>2, <2>1, <2>3, HttpNearer DEF FormatsInv, Left
  <2>4. CASE task = "dns" /\ DnsNext /\ task' = task
    BY <1>2, <2>1, <2>4, DnsNearer DEF FormatsInv, Left
  <2>5. CASE task = "scan" /\ NetNext /\ task' = task
    BY <1>2, <2>1, <2>5, ScanNearer DEF FormatsInv, Left
  <2>6. CASE task = "json" /\ JsonNext /\ task' = task
    BY <1>2, <2>1, <2>6, JsonNearer DEF FormatsInv, Left
  <2>7. CASE task = "topic" /\ TopicMatchesFilter /\ task' = task
    BY <1>2, <2>1, <2>7, TopicNearer DEF FormatsInv, Left
  <2>. QED
    BY <1>2, <2>2, <2>3, <2>4, <2>5, <2>6, <2>7 DEF Next
<1>. QED
  BY <1>1, <1>2, FormatsInitial, FormatsStep, BoundedStep, PTL DEF Spec, AlwaysNearer, Nearer

=============================================================================
