-------------------------- MODULE ConfigStoreProofs --------------------------
(***************************************************************************)
(* Proofs about saves of the two configuration files, for any users, names,*)
(* keys and requests.  A password stays with its user as long as no line   *)
(* break brought another line for it; what is saved is read again, since a *)
(* rewritten network block keeps its bounds and holds one name and one     *)
(* key, or the added one is read last.                                     *)
(***************************************************************************)
EXTENDS ConfigStore, WellFoundedInduction, SequenceTheorems, TLAPS

-----------------------------------------------------------------------------
(* The lines of chime.conf. *)

Keys == {"mqtt_username", "mqtt_password", "other"}
FormKeys == {"mqtt_username", "mqtt_password"}
Values == Users \cup Passwords \cup {Blank}
Lines == Seq([key : Keys, value : Values, spaced : BOOLEAN])

Of(lines, k) == {lines[i] : i \in {i \in DOMAIN lines : lines[i].key = k}}

(* No key of the form has two different lines. *)
Plain(lines) ==
  /\ lines \in Lines
  /\ \A k \in FormKeys : \A l, m \in Of(lines, k) : l = m

(* A set of places in a sequence has a last one. *)
LEMMA LastPlace ==
  ASSUME NEW n \in Nat, NEW hits \in SUBSET (1 .. n), hits # {}
  PROVE  \E i \in hits : \A j \in hits : j <= i
<1> DEFINE back == {n - i : i \in hits}
<1>1. \A i \in hits : n - i \in Nat
  OBVIOUS
<1>2. back \subseteq Nat /\ back # {}
  BY <1>1
<1>3. PICK b \in back : \A c \in back : ~ (<<c, b>> \in OpToRel(<, Nat))
  BY <1>2, NatLessThanWellFounded, WFMin
<1>4. PICK i \in hits : b = n - i
  OBVIOUS
<1>5. \A j \in hits : n - j \in back /\ ~(n - j < n - i)
  BY <1>2, <1>3, <1>4 DEF OpToRel
<1>. QED
  BY <1>4, <1>5

(* What the last of several lines says, one of them says. *)
LEMMA LastSays ==
  ASSUME NEW lines \in Lines, NEW hits \in SUBSET DOMAIN lines, hits # {}
  PROVE  \E i \in hits : LastOf(lines, hits) = lines[i].value
<1>1. Len(lines) \in Nat /\ DOMAIN lines = 1 .. Len(lines)
  BY DEF Lines
<1>2. \E i \in hits : \A j \in hits : j <= i
  BY <1>1, LastPlace
<1>. QED
  BY <1>2 DEF LastOf

(* What the daemon and webd make of the lines of a key.                    *)
Read(lines, k) == LastOf(lines, {i \in DOMAIN lines : lines[i].key = k})
ReadClose(lines, k) ==
  LastOf(lines, {i \in DOMAIN lines : lines[i].key = k /\ ~lines[i].spaced})

(* What is read is a value, or nothing. *)
LEMMA ReadTyped ==
  ASSUME NEW lines \in Lines, NEW k
  PROVE  Read(lines, k) \in Values /\ ReadClose(lines, k) \in Values
<1>1. ASSUME NEW hits \in SUBSET DOMAIN lines PROVE LastOf(lines, hits) \in Values
  <2>1. CASE hits = {}
    BY <2>1 DEF LastOf, Values
  <2>2. CASE hits # {}
    <3>1. PICK i \in hits : LastOf(lines, hits) = lines[i].value
      BY <2>2, LastSays
    <3>2. lines \in Seq([key : Keys, value : Values, spaced : BOOLEAN]) /\ i \in DOMAIN lines
      BY DEF Lines
    <3>3. \A S : lines \in Seq(S) /\ i \in DOMAIN lines => lines[i] \in S
      OBVIOUS
    <3>4. lines[i] \in [key : Keys, value : Values, spaced : BOOLEAN]
      BY <3>2, <3>3
    <3>. QED
      BY <3>1, <3>4
  <2>. QED
    BY <2>1, <2>2
<1>. QED
  BY <1>1 DEF Read, ReadClose

(* A key that has one line, or none, is read as that line says.            *)
LEMMA ReadsTheLine ==
  ASSUME NEW lines, Plain(lines), NEW k \in FormKeys
  PROVE  /\ \A l \in Of(lines, k) : Read(lines, k) = l.value
         /\ ReadClose(lines, k) \in {Blank, Read(lines, k)}
<1> DEFINE all == {i \in DOMAIN lines : lines[i].key = k}
           close == {i \in DOMAIN lines : lines[i].key = k /\ ~lines[i].spaced}
<1>1. Read(lines, k) = LastOf(lines, all) /\ ReadClose(lines, k) = LastOf(lines, close)
  BY DEF Read, ReadClose
<1>2. CASE all = {}
  BY <1>1, <1>2 DEF LastOf, Of
<1>3. CASE all # {}
  <2>1. PICK i \in all : LastOf(lines, all) = lines[i].value
    BY <1>3, LastSays DEF Plain
  <2>2. \A j \in all : lines[j] = lines[i]
    BY <2>1 DEF Plain, Of
  <2>3. close = {} => LastOf(lines, close) = Blank
    BY DEF LastOf
  <2>4. close # {} => \E j \in close : LastOf(lines, close) = lines[j].value
    BY LastSays DEF Plain
  <2>5. close \subseteq all
    OBVIOUS
  <2> HIDE DEF close
  <2>6. LastOf(lines, close) \in {Blank, lines[i].value}
    BY <2>2, <2>3, <2>4, <2>5
  <2>7. \A l \in Of(lines, k) : l = lines[i]
    BY <2>2 DEF Of
  <2>8. Of(lines, k) # {}
    BY <1>3 DEF Of
  <2>. QED
    BY <1>1, <2>1, <2>6, <2>7, <2>8
<1>. QED
  BY <1>2, <1>3

Rewrites(lines, r, k, v) ==
  /\ r \in Lines /\ Of(r, k) = {Setting(k, v, FALSE)}
  /\ \A o \in Keys \ {k} : Of(r, o) = Of(lines, o)

(* Rewriting a key gives it one line and leaves those of the others.       *)
LEMMA RewritesOneKey ==
  ASSUME NEW lines \in Lines, NEW k \in Keys, NEW v \in Values
  PROVE  \A r : r = Rewritten(lines, k, v) => Rewrites(lines, r, k, v)
<1> DEFINE new == Setting(k, v, FALSE)
           Line == [key : Keys, value : Values, spaced : BOOLEAN]
<1>1. new \in Line /\ new.key = k
  BY DEF Setting
<1> SUFFICES ASSUME NEW r, r = Rewritten(lines, k, v)
             PROVE  /\ r \in Lines /\ Of(r, k) = {new}
                    /\ \A o \in Keys \ {k} : Of(r, o) = Of(lines, o)
  BY DEF Rewrites
<1>2. lines \in Seq(Line)
  BY DEF Lines
<1> HIDE DEF new, Line
<1>3. CASE \E i \in DOMAIN lines : lines[i].key = k
  <2>1. r = [i \in DOMAIN lines |-> IF lines[i].key = k THEN new ELSE lines[i]]
    BY <1>3 DEF Rewritten, new
  <2>2. r \in Seq(Line)
    BY <1>1, <1>2, <2>1
  <2>3. \A i \in DOMAIN lines : r[i] = IF lines[i].key = k THEN new ELSE lines[i]
    BY <2>1
  <2>4. DOMAIN r = DOMAIN lines
    BY <2>1
  <2>. QED
    BY <1>1, <1>3, <2>2, <2>3, <2>4 DEF Of, Lines, Line
<1>4. CASE ~ \E i \in DOMAIN lines : lines[i].key = k
  <2>1. r = Append(lines, new)
    BY <1>4 DEF Rewritten, new
  <2>2. r \in Seq(Line) /\ DOMAIN r = DOMAIN lines \cup {Len(lines) + 1} /\ r[Len(lines) + 1] = new
        /\ \A i \in DOMAIN lines : r[i] = lines[i]
    BY <1>1, <1>2, <2>1
  <2>3. Len(lines) + 1 \notin DOMAIN lines
    BY <1>2
  <2>. QED
    BY <1>1, <1>4, <2>2 DEF Of, Lines, Line
<1>. QED
  BY <1>3, <1>4

(* Both keys rewritten, the file reads as they were written. *)
LEMMA ChimeSaved ==
  ASSUME NEW lines \in Lines, NEW p \in Values, NEW u \in Values, NEW r,
         r = Rewritten(Rewritten(lines, "mqtt_password", p), "mqtt_username", u)
  PROVE  /\ Plain(r)
         /\ Read(r, "mqtt_password") = p /\ ReadClose(r, "mqtt_password") = p
         /\ Read(r, "mqtt_username") = u /\ ReadClose(r, "mqtt_username") = u
<1>1. PICK once : once = Rewritten(lines, "mqtt_password", p)
  OBVIOUS
<1>2. Rewrites(lines, once, "mqtt_password", p)
  BY <1>1, RewritesOneKey DEF Keys
<1>3. once \in Lines
  BY <1>2 DEF Rewrites
<1>4. Rewrites(once, r, "mqtt_username", u)
  BY <1>1, <1>3, RewritesOneKey DEF Keys
<1>5. /\ Of(r, "mqtt_password") = {Setting("mqtt_password", p, FALSE)}
      /\ Of(r, "mqtt_username") = {Setting("mqtt_username", u, FALSE)}
      /\ r \in Lines
  BY <1>2, <1>4 DEF Rewrites, Keys
<1>6. Plain(r)
  <2>1. \A k \in FormKeys : \E x : Of(r, k) = {x}
    BY <1>5, Zenon DEF FormKeys
  <2>. QED
    BY <1>5, <2>1 DEF Plain
<1>7. ASSUME NEW k \in FormKeys, NEW v, Of(r, k) = {Setting(k, v, FALSE)}
      PROVE  Read(r, k) = v /\ ReadClose(r, k) = v
  <2>1. Setting(k, v, FALSE).value = v /\ ~Setting(k, v, FALSE).spaced
    BY DEF Setting
  <2>2. Read(r, k) = v
    BY <1>6, <1>7, <2>1, ReadsTheLine
  <2>3. \A i \in DOMAIN r : r[i].key = k => r[i] = Setting(k, v, FALSE)
    BY <1>7 DEF Of
  <2>4. {i \in DOMAIN r : r[i].key = k /\ ~r[i].spaced} = {i \in DOMAIN r : r[i].key = k}
    BY <2>1, <2>3
  <2>. QED
    BY <2>2, <2>4 DEF Read, ReadClose
<1>. QED
  BY <1>5, <1>6, <1>7 DEF FormKeys

(* Lines put behind the last of some places leave a sequence of lines. *)
LEMMA SplitTyped ==
  ASSUME NEW T, NEW lines \in Seq(T), NEW places \in SUBSET (1 .. Len(lines)),
         NEW behind \in Seq(T)
  PROVE  Split(lines, places, behind) \in Seq(T)
<1>1. CASE places = {}
  BY <1>1 DEF Split
<1>2. CASE places # {}
  <2>1. PICK last : last = CHOOSE i \in places : \A j \in places : j <= i
    OBVIOUS
  <2>2. Len(lines) \in Nat
    OBVIOUS
  <2>3. last \in places
    BY <1>2, <2>1, <2>2, LastPlace
  <2>4. \A i \in 1 .. Len(lines) : lines[i] \in T
    BY ElementOfSeq
  <2>5. SubSeq(lines, 1, last) \in Seq(T) /\ SubSeq(lines, last + 1, Len(lines)) \in Seq(T)
    BY <2>2, <2>3, <2>4, SubSeqProperties
  <2>6. Split(lines, places, behind)
          = SubSeq(lines, 1, last) \o behind \o SubSeq(lines, last + 1, Len(lines))
    BY <1>2, <2>1 DEF Split
  <2>. QED
    BY <2>5, <2>6, ConcatProperties
<1>. QED
  BY <1>1, <1>2

MqttBreak(r) == r.break.field \in {"mqtt_username", "mqtt_password"}

(* What a break in a text of chime.conf leaves are lines of it. *)
LEMMA BrokenChimeTyped ==
  ASSUME NEW r \in SaveRequest, MqttBreak(r)
  PROVE  r.break.behind \in Lines
<1>1. r.break \in Breaks
  BY DEF SaveRequest
<1>2. /\ Other \in [key : Keys, value : Values, spaced : BOOLEAN]
      /\ \A p \in Passwords : Setting("mqtt_password", p, FALSE)
                                \in [key : Keys, value : Values, spaced : BOOLEAN]
  BY DEF Other, Setting, Keys, Values
<1>3. NoBreak.field = "none"
  BY DEF NoBreak
<1>4. r.break.behind \in {<<Other>>} \cup {<<Setting("mqtt_password", p, FALSE)>> : p \in Passwords}
  BY <1>1, <1>3 DEF Breaks, MqttBreak
<1>5. CASE r.break.behind = <<Other>>
  BY <1>2, <1>5 DEF Lines
<1>6. CASE \E p \in Passwords : r.break.behind = <<Setting("mqtt_password", p, FALSE)>>
  <2>1. PICK l \in [key : Keys, value : Values, spaced : BOOLEAN] : r.break.behind = <<l>>
    BY <1>2, <1>6
  <2>. QED
    BY <2>1 DEF Lines
<1>. QED
  BY <1>4, <1>5, <1>6

-----------------------------------------------------------------------------
(* The password and its user. *)

StoreInv ==
  /\ chimeLines \in Lines
  /\ owner # Unknown => Plain(chimeLines)
  /\ saving \in SaveRequest \cup {None}
  /\ SecretFollowsUser

(* The files written by hand have one line of a key or none. *)
LEMMA StoreInitial == StoreInit => StoreInv
<1> SUFFICES ASSUME StoreInit PROVE Plain(chimeLines) /\ saving = None /\ SecretFollowsUser
  BY DEF StoreInv, Plain
<1>1. SecretFollowsUser /\ saving = None
  BY DEF StoreInit, SecretFollowsUser
<1> DEFINE Line == [key : Keys, value : Values, spaced : BOOLEAN]
<1>2. Plain(<<>>)
  BY DEF Plain, Lines, Of, FormKeys
<1>3. ASSUME NEW p \in Line PROVE Plain(<<p>>)
  BY DEF Plain, Lines, Of, FormKeys
<1>4. ASSUME NEW p \in Line, NEW q \in Line, p.key # q.key PROVE Plain(<<p, q>>)
  BY <1>4 DEF Plain, Lines, Of, FormKeys
<1>5. ASSUME NEW p \in Line, NEW o \in Line, NEW q \in Line,
             p.key # q.key, p.key # o.key, q.key # o.key
      PROVE  Plain(<<p, o, q>>)
  BY <1>5 DEF Plain, Lines, Of, FormKeys
<1>6. /\ \A v \in Users \cup {Blank}, b \in BOOLEAN :
           LET l == Setting("mqtt_username", v, b) IN l \in Line /\ l.key = "mqtt_username"
      /\ \A v \in Passwords \cup {Blank}, b \in BOOLEAN :
           LET l == Setting("mqtt_password", v, b) IN l \in Line /\ l.key = "mqtt_password"
      /\ Other \in Line /\ Other.key = "other"
  BY DEF Setting, Other, Keys, Values
<1> DEFINE user == {Setting("mqtt_username", u, b) : u \in Users \cup {Blank}, b \in BOOLEAN}
           word == {Setting("mqtt_password", p, b) : p \in Passwords \cup {Blank}, b \in BOOLEAN}
<1>7. /\ \A l \in user : l \in Line /\ l.key = "mqtt_username"
      /\ \A l \in word : l \in Line /\ l.key = "mqtt_password"
  BY <1>6
<1>8. ChimeFiles = {<<>>} \cup {<<p>> : p \in word} \cup {<<u>> : u \in user}
                     \cup {<<p, Other, u>> : p \in word, u \in user}
                     \cup {<<u, p>> : p \in word, u \in user}
  BY DEF ChimeFiles
<1> HIDE DEF Line, user, word
<1>9. \/ chimeLines = <<>>
      \/ \E p \in word : chimeLines = <<p>>
      \/ \E u \in user : chimeLines = <<u>>
      \/ \E p \in word, u \in user : chimeLines = <<p, Other, u>> \/ chimeLines = <<u, p>>
  BY <1>8 DEF StoreInit
<1>10. \A p \in word, u \in user :
         p \in Line /\ u \in Line /\ p.key # u.key /\ p.key # Other.key /\ u.key # Other.key
  BY <1>6, <1>7
<1>11. Plain(chimeLines)
  <2>1. \A p \in word, u \in user : Plain(<<p, Other, u>>) /\ Plain(<<u, p>>)
    BY <1>4, <1>5, <1>6, <1>10
  <2>. QED
    BY <1>2, <1>3, <1>7, <1>9, <2>1
<1>. QED
  BY <1>1, <1>11

(* The texts of a request, and what is kept, are values. *)
LEMMA PasswordTyped ==
  ASSUME chimeLines \in Lines, NEW r \in SaveRequest
  PROVE  PasswordFor(r) \in Values /\ r.user.value \in Values
<1>1. ExtractConfigValue("mqtt_password") \in Values
  BY ReadTyped DEF ExtractConfigValue, ReadClose
<1>2. r.user \in Text(Users) /\ r.mqtt \in Text(Passwords) \cup {Omitted}
  BY DEF SaveRequest
<1>3. r.user.value \in Values
  BY <1>2 DEF Text, Values
<1>4. Given(r) => r.mqtt.value \in Values
  BY <1>2 DEF Text, Values, Given
<1>. QED
  BY <1>1, <1>3, <1>4 DEF PasswordFor, Values

(* Every save keeps that, and the password with its user. *)
LEMMA StoreStep == StoreInv /\ [StoreNext]_storeVars => StoreInv'
<1> SUFFICES ASSUME StoreInv, [StoreNext]_storeVars PROVE StoreInv'
  OBVIOUS
<1>1. ASSUME NEW r \in SaveRequest, SaveWpaSupplicant(r) PROVE StoreInv'
  BY <1>1 DEF SaveWpaSupplicant, StoreInv, SecretFollowsUser, DaemonReads, LastOf, Plain, Of
<1>2. CASE SaveStops \/ UNCHANGED storeVars
  <2>1. chimeLines' = chimeLines /\ owner' = owner /\ saving' \in {saving, None}
    BY <1>2 DEF SaveStops, storeVars
  <2>. QED
    BY <2>1 DEF StoreInv, SecretFollowsUser, DaemonReads, LastOf, Plain, Of
<1>3. CASE SaveChimeConfig
  <2>1. saving \in SaveRequest /\ chimeLines \in Lines /\ saving' = None
    BY <1>3 DEF SaveChimeConfig, StoreInv
  <2>2. PICK p, u : p = PasswordFor(saving) /\ u = saving.user.value
    OBVIOUS
  <2>3. p \in Values /\ u \in Values
    BY <2>1, <2>2, PasswordTyped
  <2>4. PICK new : new = Rewritten(Rewritten(chimeLines, "mqtt_password", p), "mqtt_username", u)
    OBVIOUS
  <2>5. /\ Plain(new) /\ new \in Lines
        /\ Read(new, "mqtt_password") = p /\ Read(new, "mqtt_username") = u
    BY <2>1, <2>3, <2>4, ChimeSaved DEF Plain
  <2>6. CASE MqttBreak(saving)
    <3>1. owner' = Unknown
      BY <1>3, <2>6 DEF SaveChimeConfig, MqttBreak
    <3>2. PICK places : places = {i \in DOMAIN new : new[i].key = saving.break.field}
      OBVIOUS
    <3>3. chimeLines' = Split(new, places, saving.break.behind)
      BY <1>3, <2>2, <2>4, <2>6, <3>2 DEF SaveChimeConfig, ChimeBroken, MqttBreak
    <3>4. places \in SUBSET (1 .. Len(new))
      BY <2>5, <3>2 DEF Lines
    <3>5. chimeLines' \in Lines
      BY <2>1, <2>5, <2>6, <3>3, <3>4, BrokenChimeTyped, SplitTyped DEF Lines
    <3>. QED
      BY <2>1, <3>1, <3>5 DEF StoreInv, SecretFollowsUser
  <2>7. CASE ~MqttBreak(saving)
    <3>1. chimeLines' = new
      BY <1>3, <2>2, <2>4, <2>7 DEF SaveChimeConfig, ChimeBroken, MqttBreak
    <3>2. owner' = IF Given(saving) THEN u ELSE owner
      BY <1>3, <2>2, <2>7 DEF SaveChimeConfig, MqttBreak
    <3>3. ASSUME p # Blank, owner' # Unknown PROVE u = owner'
      <4>1. CASE Given(saving)
        BY <3>2, <4>1
      <4>2. CASE ~Given(saving)
        <5>1. /\ saving.user # NoText /\ SameUser(saving)
              /\ p = ExtractConfigValue("mqtt_password")
          BY <2>2, <3>3, <4>2 DEF PasswordFor
        <5>2. saving.user = AsText(ExtractConfigValue("mqtt_username"))
          BY <5>1 DEF SameUser
        <5>3. u = ExtractConfigValue("mqtt_username")
          BY <2>2, <5>2 DEF AsText
        <5>4. u # Blank
          BY <5>1, <5>2, <5>3 DEF NoText
        <5>5. owner' = owner /\ owner # Unknown /\ Plain(chimeLines)
          BY <3>2, <3>3, <4>2 DEF StoreInv
        <5>6. \A k \in FormKeys : ExtractConfigValue(k) \in {Blank, DaemonReads(k)}
          BY <5>5, ReadsTheLine DEF ExtractConfigValue, DaemonReads, Read, ReadClose
        <5>7. DaemonReads("mqtt_username") = u /\ DaemonReads("mqtt_password") # Blank
          BY <3>3, <5>1, <5>3, <5>4, <5>6 DEF FormKeys
        <5>. QED
          BY <5>5, <5>7 DEF StoreInv, SecretFollowsUser
      <4>. QED
        BY <4>1, <4>2
    <3>4. DaemonReads("mqtt_password")' = p /\ DaemonReads("mqtt_username")' = u
      BY <2>5, <3>1 DEF DaemonReads, Read
    <3>5. SecretFollowsUser'
      BY <3>3, <3>4 DEF SecretFollowsUser
    <3>. QED
      BY <2>1, <2>5, <3>1, <3>5 DEF StoreInv
  <2>. QED
    BY <2>6, <2>7
<1>. QED
  BY <1>1, <1>2, <1>3 DEF StoreNext

(* For any users and passwords, in any order of the file's lines and with  *)
(* any spacing: the daemon never uses a password with another user than    *)
(* the one it was entered for, unless a line break brought it.             *)
THEOREM SecretsStay == StoreSpec => []SecretFollowsUser
<1>1. StoreInit => StoreInv
  BY StoreInitial
<1>2. StoreInv /\ [StoreNext]_storeVars => StoreInv'
  BY StoreStep
<1>3. StoreInv => SecretFollowsUser
  BY DEF StoreInv
<1>. QED
  BY <1>1, <1>2, <1>3, PTL DEF StoreSpec

-----------------------------------------------------------------------------
(* The lines of wpa_supplicant.conf. *)

PskValues == Passphrases \cup RawKeys \cup {Cut}
SsidValues == Ssids \cup {Cut}

WpaLine ==
  {Network, End, Other}
    \cup {Ssid(v) : v \in SsidValues}
    \cup {Psk(v, b) : v \in PskValues, b \in BOOLEAN}

(* Marks have no value, and no line that is read is a mark.                *)
LEMMA LineKeys ==
  /\ Network.key = "network={" /\ End.key = "}" /\ Other.key = "other"
  /\ \A v : Ssid(v).key = "ssid" /\ Ssid(v).value = v
  /\ \A v, b : Psk(v, b).key = "psk" /\ Psk(v, b).value = v
  /\ Network # End
  /\ \A v : Ssid(v) # Network /\ Ssid(v) # End
  /\ \A v, b : Psk(v, b) # Network /\ Psk(v, b) # End
BY DEF Network, End, Other, Setting, Ssid, Psk

(* Lines that are read say what they were made for.                        *)
LEMMA LineValues ==
  ASSUME NEW l \in WpaLine
  PROVE  /\ l.key = "psk" => l.value \in PskValues
         /\ l.key = "ssid" => l.value \in SsidValues
<1>1. CASE l \in {Network, End, Other}
  BY <1>1, LineKeys
<1>2. CASE \E v \in SsidValues : l = Ssid(v)
  BY <1>2, LineKeys
<1>3. CASE \E v \in PskValues, b \in BOOLEAN : l = Psk(v, b)
  <2>1. PICK v \in PskValues, b \in BOOLEAN : l = Psk(v, b)
    BY <1>3
  <2>2. l.key = "psk" /\ l.value = v
    BY <2>1, LineKeys
  <2>. QED
    BY <2>2
<1>. QED
  BY <1>1, <1>2, <1>3 DEF WpaLine

(* A set of numbers has a least one. *)
LEMMA Least ==
  ASSUME NEW S \in SUBSET Nat, NEW m \in S, \A y \in S : m <= y
  PROVE  Min(S) = m
<1>1. \E x \in S : \A y \in S : x <= y
  OBVIOUS
<1>2. Min(S) \in S /\ \A y \in S : Min(S) <= y
  BY <1>1 DEF Min
<1>3. Min(S) \in Nat /\ m \in Nat /\ Min(S) <= m /\ m <= Min(S)
  BY <1>2
<1>. QED
  BY <1>3

(* ... and so has every set of numbers that is not empty. *)
LEMMA HasLeast ==
  ASSUME NEW S \in SUBSET Nat, S # {}
  PROVE  Min(S) \in S /\ \A y \in S : Min(S) <= y
<1>1. PICK m \in S : \A y \in S : ~ (<<y, m>> \in OpToRel(<, Nat))
  BY NatLessThanWellFounded, WFMin
<1>2. \A y \in S : m <= y
  <2> SUFFICES ASSUME NEW y \in S PROVE m <= y
    OBVIOUS
  <2>1. y \in Nat /\ m \in Nat /\ <<y, m>> \in Nat \X Nat
    OBVIOUS
  <2>2. ~(y < m)
    BY <1>1, <2>1 DEF OpToRel
  <2>. QED
    BY <2>1, <2>2
<1>. QED
  BY <1>2 DEF Min

-----------------------------------------------------------------------------
(* Where the first network begins and ends. *)

Block(lines, s, e) ==
  /\ s \in 1 .. Len(lines) /\ e \in s + 1 .. Len(lines)
  /\ lines[s] = Network /\ lines[e] = End
  /\ \A i \in 1 .. s - 1 : lines[i] # Network
  /\ \A i \in s + 1 .. e - 1 : lines[i] # End

(* The first network line, or the place behind the file. *)
LEMMA StartOfBlock ==
  ASSUME NEW T, NEW lines \in Seq(T)
  PROVE  /\ BlockStart(lines) \in 1 .. Len(lines) + 1
         /\ BlockStart(lines) <= Len(lines) => lines[BlockStart(lines)] = Network
         /\ \A i \in 1 .. BlockStart(lines) - 1 : lines[i] # Network
<1> DEFINE S == {i \in DOMAIN lines : lines[i] = Network} \cup {Len(lines) + 1}
<1>1. Len(lines) \in Nat /\ DOMAIN lines = 1 .. Len(lines)
  OBVIOUS
<1>2. S \in SUBSET Nat /\ S # {}
  BY <1>1
<1>3. Min(S) \in S /\ \A y \in S : Min(S) <= y
  BY <1>2, HasLeast
<1>4. BlockStart(lines) = Min(S)
  BY DEF BlockStart
<1> HIDE DEF S
<1>5. PICK m : m = Min(S)
  OBVIOUS
<1>6. m \in S /\ \A y \in S : m <= y
  BY <1>3, <1>5
<1>7. /\ m \in 1 .. Len(lines) + 1 /\ (m <= Len(lines) => lines[m] = Network)
      /\ \A i \in 1 .. m - 1 : lines[i] # Network
  BY <1>1, <1>6 DEF S
<1>. QED
  BY <1>4, <1>5, <1>7

(* The first end behind it, or the place behind the file. *)
LEMMA EndOfBlock ==
  ASSUME NEW T, NEW lines \in Seq(T)
  PROVE  LET s == BlockStart(lines)
             e == BlockEnd(lines)
         IN /\ e \in Nat /\ e <= Len(lines) + 1
            /\ e <= Len(lines) => e > s /\ lines[e] = End
            /\ \A i \in s + 1 .. e - 1 : i <= Len(lines) => lines[i] # End
<1>1. Len(lines) \in Nat /\ BlockStart(lines) \in Nat
  BY StartOfBlock
<1>2. PICK s : s = BlockStart(lines)
  OBVIOUS
<1> DEFINE S == {i \in s + 1 .. Len(lines) : lines[i] = End} \cup {Len(lines) + 1}
<1>3. S \in SUBSET Nat /\ S # {}
  BY <1>1, <1>2
<1>4. Min(S) \in S /\ \A y \in S : Min(S) <= y
  BY <1>3, HasLeast
<1>5. BlockEnd(lines) = Min(S)
  BY <1>2 DEF BlockEnd
<1> HIDE DEF S
<1>6. PICK m : m = Min(S)
  OBVIOUS
<1>7. m \in S /\ \A y \in S : m <= y
  BY <1>4, <1>6
<1>8. /\ m \in Nat /\ m <= Len(lines) + 1
      /\ m <= Len(lines) => m > s /\ lines[m] = End
      /\ \A i \in s + 1 .. m - 1 : i <= Len(lines) => lines[i] # End
  BY <1>1, <1>2, <1>7 DEF S
<1>. QED
  BY <1>2, <1>5, <1>6, <1>8

(* A block is what the two searches find, and they find nothing else.      *)
LEMMA BlockIs ==
  ASSUME NEW T, NEW lines \in Seq(T), NEW s \in Nat, NEW e \in Nat, Block(lines, s, e)
  PROVE  BlockStart(lines) = s /\ BlockEnd(lines) = e /\ HasBlock(lines)
<1>1. Len(lines) \in Nat
  OBVIOUS
<1>2. PICK b : b = BlockStart(lines)
  OBVIOUS
<1>3. b = s
  BY <1>1, <1>2, StartOfBlock DEF Block
<1>4. PICK f : f = BlockEnd(lines)
  OBVIOUS
<1>5. /\ f \in Nat /\ f <= Len(lines) + 1
      /\ f <= Len(lines) => f > s /\ lines[f] = End
      /\ \A i \in s + 1 .. f - 1 : i <= Len(lines) => lines[i] # End
  BY <1>2, <1>3, <1>4, EndOfBlock
<1>6. f = e
  BY <1>1, <1>5 DEF Block
<1>. QED
  BY <1>1, <1>2, <1>3, <1>4, <1>6 DEF HasBlock, Block

(* A block that HasBlock reports is one. *)
LEMMA IsBlock ==
  ASSUME NEW T, NEW lines \in Seq(T), HasBlock(lines)
  PROVE  /\ BlockStart(lines) \in Nat /\ BlockEnd(lines) \in Nat
         /\ Block(lines, BlockStart(lines), BlockEnd(lines))
<1>1. Len(lines) \in Nat
  OBVIOUS
<1>2. PICK s, e : s = BlockStart(lines) /\ e = BlockEnd(lines)
  OBVIOUS
<1>3. /\ s \in 1 .. Len(lines) + 1
      /\ s <= Len(lines) => lines[s] = Network
      /\ \A i \in 1 .. s - 1 : lines[i] # Network
  BY <1>2, StartOfBlock
<1>4. /\ e \in Nat /\ e <= Len(lines)
      /\ e > s /\ lines[e] = End
      /\ \A i \in s + 1 .. e - 1 : i <= Len(lines) => lines[i] # End
  BY <1>1, <1>2, EndOfBlock DEF HasBlock
<1>5. Block(lines, s, e)
  BY <1>1, <1>3, <1>4 DEF Block
<1>. QED
  BY <1>2, <1>3, <1>4, <1>5

-----------------------------------------------------------------------------
(* What replacing and inserting a line does to a block. *)

(* Replacing lines moves neither bound of the block. *)
LEMMA ReplacedKeeps ==
  ASSUME NEW T, NEW lines \in Seq(T), NEW new \in T, new # Network, new # End,
         NEW s \in Nat, NEW e \in Nat, Block(lines, s, e)
  PROVE  \A r : r = Replaced(lines, new) =>
           /\ r \in Seq(T) /\ Block(r, s, e)
           /\ \A i \in s + 1 .. e - 1 :
                r[i] = IF lines[i].key = new.key THEN new ELSE lines[i]
<1> SUFFICES ASSUME NEW r, r = Replaced(lines, new)
             PROVE  /\ r \in Seq(T) /\ Block(r, s, e)
                    /\ \A i \in s + 1 .. e - 1 :
                         r[i] = IF lines[i].key = new.key THEN new ELSE lines[i]
  OBVIOUS
<1>1. BlockStart(lines) = s /\ BlockEnd(lines) = e
  BY BlockIs
<1>2. PICK hits : hits = {i \in s + 1 .. e - 1 : lines[i].key = new.key}
  OBVIOUS
<1>3. InBlock(lines, new.key) = hits
  BY <1>1, <1>2 DEF InBlock
<1>4. r = [i \in DOMAIN lines |-> IF i \in hits THEN new ELSE lines[i]]
  BY <1>3 DEF Replaced
<1>5. r \in Seq(T) /\ Len(r) = Len(lines) /\ DOMAIN lines = 1 .. Len(lines) /\ Len(lines) \in Nat
  BY <1>4
<1>6. \A i \in 1 .. Len(lines) : r[i] = IF i \in hits THEN new ELSE lines[i]
  BY <1>4, <1>5
<1>7. s \in 1 .. Len(lines) /\ e \in s + 1 .. Len(lines)
  BY DEF Block
<1>8. \A i \in s + 1 .. e - 1 : r[i] = IF lines[i].key = new.key THEN new ELSE lines[i]
  BY <1>2, <1>5, <1>6, <1>7
<1>9. Block(r, s, e)
  <2>1. r[s] = Network /\ r[e] = End
    BY <1>2, <1>5, <1>6, <1>7 DEF Block
  <2>2. \A i \in 1 .. s - 1 : r[i] # Network
    BY <1>2, <1>5, <1>6, <1>7 DEF Block
  <2>3. \A i \in s + 1 .. e - 1 : r[i] # End
    BY <1>8, <1>5, <1>7 DEF Block
  <2>. QED
    BY <1>5, <1>7, <2>1, <2>2, <2>3 DEF Block
<1>. QED
  BY <1>5, <1>8, <1>9

(* A block whose lines of a key are all one line, and a block made from it *)
(* that has the line, all it had before, and nothing else.                 *)
Agrees(lines, s, e, new) ==
  \A i \in s + 1 .. e - 1 : lines[i].key = new.key => lines[i] = new

Gained(r, f, lines, s, e, new) ==
  /\ Block(r, s, f)
  /\ \E i \in s + 1 .. f - 1 : r[i] = new
  /\ \A i \in s + 1 .. f - 1 :
       r[i] = new \/ \E j \in s + 1 .. e - 1 : r[i] = lines[j]
  /\ \A j \in s + 1 .. e - 1 : \E i \in s + 1 .. f - 1 : r[i] = lines[j]

(* Inserting a line moves the end by one place at most. *)
LEMMA InsertedKeeps ==
  ASSUME NEW T, NEW lines \in Seq(T), NEW new \in T, new # Network, new # End,
         NEW s \in Nat, NEW e \in Nat, Block(lines, s, e),
         Agrees(lines, s, e, new)
  PROVE  \A r : r = Inserted(lines, new) =>
           r \in Seq(T) /\ \E f \in Nat : Gained(r, f, lines, s, e, new)
<1> DEFINE Kept(r, f) == Gained(r, f, lines, s, e, new)
<1> SUFFICES ASSUME NEW r, r = Inserted(lines, new)
             PROVE  r \in Seq(T) /\ \E f \in Nat : Kept(r, f)
  OBVIOUS
<1>1. BlockStart(lines) = s /\ BlockEnd(lines) = e
  BY BlockIs
<1>2. PICK hits : hits = {i \in s + 1 .. e - 1 : lines[i].key = new.key}
  OBVIOUS
<1>3. InBlock(lines, new.key) = hits
  BY <1>1, <1>2 DEF InBlock
<1>4. CASE hits # {}
  <2>1. r = lines
    BY <1>3, <1>4 DEF Inserted
  <2>2. Kept(r, e)
    BY <1>2, <1>4, <2>1 DEF Agrees, Gained
  <2>. QED
    BY <2>1, <2>2
<1>5. CASE hits = {}
  <2>1. PICK front, back : front = SubSeq(lines, 1, e - 1) /\ back = SubSeq(lines, e, Len(lines))
    OBVIOUS
  <2>2. r = front \o <<new>> \o back
    BY <1>1, <1>3, <1>5, <2>1 DEF Inserted
  <2>3. Len(lines) \in Nat /\ s \in 1 .. Len(lines) /\ e \in s + 1 .. Len(lines)
    BY DEF Block
  <2>4. \A i \in 1 .. Len(lines) : lines[i] \in T
    BY ElementOfSeq
  <2>5. /\ front \in Seq(T) /\ Len(front) = e - 1
        /\ \A i \in 1 .. e - 1 : front[i] = lines[i]
    BY <2>1, <2>3, <2>4, SubSeqProperties
  <2>6. /\ back \in Seq(T) /\ Len(back) = Len(lines) - e + 1
        /\ \A i \in 1 .. Len(lines) - e + 1 : back[i] = lines[e + i - 1]
    BY <2>1, <2>3, <2>4, SubSeqProperties
  <2>7. PICK mid : mid = front \o <<new>>
    OBVIOUS
  <2>8. <<new>> \in Seq(T) /\ Len(<<new>>) = 1 /\ <<new>>[1] = new
    OBVIOUS
  <2>9. /\ mid \in Seq(T) /\ Len(mid) = e /\ mid[e] = new
        /\ \A i \in 1 .. e - 1 : mid[i] = lines[i]
    BY <2>3, <2>5, <2>7, <2>8, ConcatProperties
  <2>10. /\ r \in Seq(T) /\ Len(r) = Len(lines) + 1 /\ r[e] = new /\ r[e + 1] = lines[e]
         /\ \A i \in 1 .. e - 1 : r[i] = lines[i]
    <3>1. /\ r \in Seq(T) /\ Len(r) = Len(mid) + Len(back)
          /\ \A i \in 1 .. Len(mid) + Len(back) :
               r[i] = IF i <= Len(mid) THEN mid[i] ELSE back[i - Len(mid)]
      <4>1. r = mid \o back
        BY <2>2, <2>7
      <4>. QED
        BY <2>6, <2>9, <4>1, ConcatProperties
    <3>2. Len(r) = Len(lines) + 1
      BY <2>3, <2>6, <2>9, <3>1
    <3>3. \A i \in 1 .. e : r[i] = mid[i]
      BY <2>3, <2>6, <2>9, <3>1
    <3>4. r[e + 1] = back[1] /\ back[1] = lines[e]
      BY <2>3, <2>6, <2>9, <3>1
    <3>. QED
      BY <2>3, <2>9, <3>1, <3>2, <3>3, <3>4
  <2>11. Block(r, s, e + 1)
    <3>1. s \in 1 .. Len(r) /\ e + 1 \in s + 1 .. Len(r)
      BY <2>3, <2>10
    <3>2. r[s] = Network /\ r[e + 1] = End
      BY <2>3, <2>10 DEF Block
    <3>3. \A i \in 1 .. s - 1 : r[i] # Network
      BY <2>3, <2>10 DEF Block
    <3>4. \A i \in s + 1 .. (e + 1) - 1 : r[i] # End
      <4> SUFFICES ASSUME NEW i \in s + 1 .. (e + 1) - 1 PROVE r[i] # End
        OBVIOUS
      <4>1. CASE i = e
        BY <2>10, <4>1
      <4>2. CASE i # e
        <5>1. i \in s + 1 .. e - 1 /\ i \in 1 .. e - 1
          BY <2>3, <4>2
        <5>. QED
          BY <2>10, <5>1 DEF Block
      <4>. QED
        BY <4>1, <4>2
    <3>. QED
      BY <3>1, <3>2, <3>3, <3>4 DEF Block
  <2>12. Kept(r, e + 1)
    <3>1. e \in s + 1 .. (e + 1) - 1 /\ r[e] = new
      BY <2>3, <2>10
    <3>2. \A i \in s + 1 .. (e + 1) - 1 :
            r[i] = new \/ \E j \in s + 1 .. e - 1 : r[i] = lines[j]
      <4> SUFFICES ASSUME NEW i \in s + 1 .. (e + 1) - 1, r[i] # new
                   PROVE  \E j \in s + 1 .. e - 1 : r[i] = lines[j]
        OBVIOUS
      <4>1. i \in s + 1 .. e - 1 /\ r[i] = lines[i]
        BY <2>3, <2>10
      <4>. QED
        BY <4>1
    <3>3. \A j \in s + 1 .. e - 1 : j \in s + 1 .. (e + 1) - 1 /\ r[j] = lines[j]
      BY <2>3, <2>10
    <3>. QED
      BY <2>11, <3>1, <3>2, <3>3 DEF Gained
  <2>. QED
    BY <2>3, <2>10, <2>12
<1>. QED
  BY <1>4, <1>5

-----------------------------------------------------------------------------
(* What is read of lines that agree, or of the last one. *)

(* The last of the lines counts. *)
LEMMA LastIs ==
  ASSUME NEW lines, NEW hits \in SUBSET Nat, NEW i \in hits, \A j \in hits : j <= i
  PROVE  LastOf(lines, hits) = lines[i].value
<1>1. PICK n : n = CHOOSE x \in hits : \A j \in hits : j <= x
  OBVIOUS
<1>2. n \in hits /\ \A j \in hits : j <= n
  BY <1>1
<1>3. n \in Nat /\ i \in Nat /\ n <= i /\ i <= n
  BY <1>2
<1>4. n = i
  BY <1>3
<1>5. hits # {}
  OBVIOUS
<1>6. LastOf(lines, hits) = lines[n].value
  BY <1>1, <1>5 DEF LastOf
<1>. QED
  BY <1>4, <1>6

(* Of lines that agree it does not matter which is the last. *)
LEMMA LastAgreed ==
  ASSUME NEW T, NEW lines \in Seq(T), NEW hits \in SUBSET (1 .. Len(lines)), hits # {},
         NEW v, \A i \in hits : lines[i].value = v
  PROVE  LastOf(lines, hits) = v
<1>1. Len(lines) \in Nat
  OBVIOUS
<1>2. PICK i \in hits : \A j \in hits : j <= i
  BY <1>1, LastPlace
<1>3. hits \in SUBSET Nat
  BY <1>1
<1>. QED
  BY <1>2, <1>3, LastIs

OnlySays(lines, s, e, field, v) ==
  /\ \E i \in s + 1 .. e - 1 : lines[i].key = field
  /\ \A i \in s + 1 .. e - 1 : lines[i].key = field => lines[i].value = v

(* A block whose lines of a field agree is read as they say. *)
LEMMA AgreedBlock ==
  ASSUME NEW T, NEW lines \in Seq(T), NEW s \in Nat, NEW e \in Nat, Block(lines, s, e),
         NEW field, NEW v, OnlySays(lines, s, e, field, v)
  PROVE  LastOf(lines, InBlock(lines, field)) = v
<1>1. BlockStart(lines) = s /\ BlockEnd(lines) = e
  BY BlockIs
<1>2. PICK hits : hits = {i \in s + 1 .. e - 1 : lines[i].key = field}
  OBVIOUS
<1>3. InBlock(lines, field) = hits
  BY <1>1, <1>2 DEF InBlock
<1>4. Len(lines) \in Nat /\ s \in 1 .. Len(lines) /\ e \in s + 1 .. Len(lines)
  BY DEF Block
<1>5. hits \in SUBSET (1 .. Len(lines)) /\ hits # {}
  BY <1>2, <1>4 DEF OnlySays
<1>6. \A i \in hits : lines[i].value = v
  BY <1>2 DEF OnlySays
<1>. QED
  BY <1>3, <1>5, <1>6, LastAgreed

-----------------------------------------------------------------------------
(* The file with the network of a request. *)

Says(lines, n, k) ==
  /\ lines \in Seq(WpaLine)
  /\ ParseWpaData(lines).ssid = n /\ ParseWpaData(lines).psk = k

(* The two lines that are written. *)
Written(ssid, psk, n, k) ==
  /\ ssid \in WpaLine /\ ssid.key = "ssid" /\ ssid.value = n
  /\ psk \in WpaLine /\ psk.key = "psk" /\ psk.value = k

(* The lines SaveWpaSupplicant writes are two such. *)
LEMMA WrittenLines ==
  ASSUME NEW n \in SsidValues, NEW k \in PskValues
  PROVE  Written(Ssid(n), Psk(k, TRUE), n, k)
<1>1. Ssid(n) \in WpaLine /\ \A b \in BOOLEAN : Psk(k, b) \in WpaLine
  BY DEF WpaLine
<1>2. TRUE \in BOOLEAN
  OBVIOUS
<1>3. Psk(k, TRUE) \in WpaLine
  BY ONLY <1>1, <1>2, Zenon
<1>4. \A b : Psk(k, b).key = "psk" /\ Psk(k, b).value = k
  BY LineKeys
<1>5. Psk(k, TRUE).key = "psk" /\ Psk(k, TRUE).value = k
  BY ONLY <1>4, Zenon
<1>6. Ssid(n).key = "ssid" /\ Ssid(n).value = n
  BY LineKeys
<1>. QED
  BY ONLY <1>1, <1>3, <1>5, <1>6, Zenon DEF Written

(* A block in the file is rewritten in place. *)
LEMMA WpaWithBlock ==
  ASSUME NEW lines \in Seq(WpaLine), HasBlock(lines),
         NEW n, NEW k, NEW ssid, NEW psk, Written(ssid, psk, n, k),
         NEW r, r = WpaWith(lines, ssid, psk)
  PROVE  Says(r, n, k)
<1>2. ssid \in WpaLine /\ psk \in WpaLine
  BY DEF Written
<1>3. /\ ssid # Network /\ ssid # End /\ ssid.key = "ssid" /\ ssid.value = n
      /\ psk # Network /\ psk # End /\ psk.key = "psk" /\ psk.value = k
  BY LineKeys DEF Written
<1>4. PICK s \in Nat, e \in Nat : Block(lines, s, e)
  BY IsBlock
<1>5. PICK a : a = Replaced(lines, ssid)
  OBVIOUS
<1>6. /\ a \in Seq(WpaLine) /\ Block(a, s, e)
      /\ \A i \in s + 1 .. e - 1 : a[i] = IF lines[i].key = "ssid" THEN ssid ELSE lines[i]
  BY <1>2, <1>3, <1>4, <1>5, ReplacedKeeps
<1>7. PICK b : b = Replaced(a, psk)
  OBVIOUS
<1>8. /\ b \in Seq(WpaLine) /\ Block(b, s, e)
      /\ \A i \in s + 1 .. e - 1 : b[i] = IF a[i].key = "psk" THEN psk ELSE a[i]
  BY <1>2, <1>3, <1>6, <1>7, ReplacedKeeps
<1>9. \A i \in s + 1 .. e - 1 :
        /\ b[i].key = "ssid" => b[i] = ssid
        /\ b[i].key = "psk" => b[i] = psk
  BY <1>3, <1>6, <1>8
<1>10. PICK c : c = Inserted(b, ssid)
  OBVIOUS
<1>11. c \in Seq(WpaLine) /\ \E f \in Nat : Gained(c, f, b, s, e, ssid)
  <2>1. Agrees(b, s, e, ssid)
    BY <1>3, <1>9 DEF Agrees
  <2>. QED
    BY <1>2, <1>3, <1>8, <1>10, <2>1, InsertedKeeps
<1>12. PICK f \in Nat : Gained(c, f, b, s, e, ssid)
  BY <1>11
<1>13. \A i \in s + 1 .. f - 1 :
         /\ c[i].key = "ssid" => c[i] = ssid
         /\ c[i].key = "psk" => c[i] = psk
  BY <1>3, <1>9, <1>12 DEF Gained
<1>14. r = Inserted(c, psk)
  BY <1>5, <1>7, <1>10 DEF WpaWith
<1>15. r \in Seq(WpaLine) /\ \E g \in Nat : Gained(r, g, c, s, f, psk)
  <2>1. Agrees(c, s, f, psk)
    BY <1>3, <1>13 DEF Agrees
  <2>2. Block(c, s, f)
    BY <1>12 DEF Gained
  <2>. QED
    BY <1>2, <1>3, <1>11, <1>14, <2>1, <2>2, InsertedKeeps
<1>16. PICK g \in Nat : Gained(r, g, c, s, f, psk)
  BY <1>15
<1>17. \E i \in s + 1 .. g - 1 : r[i] = ssid
  BY <1>12, <1>16 DEF Gained
<1>18. \A i \in s + 1 .. g - 1 :
         /\ r[i].key = "ssid" => r[i] = ssid
         /\ r[i].key = "psk" => r[i] = psk
  BY <1>3, <1>13, <1>16 DEF Gained
<1>19. LastOf(r, InBlock(r, "ssid")) = n
  <2>1. \E i \in s + 1 .. g - 1 : r[i].key = "ssid"
    BY <1>3, <1>17
  <2>2. \A i \in s + 1 .. g - 1 : r[i].key = "ssid" => r[i].value = n
    BY <1>3, <1>18
  <2>3. Block(r, s, g)
    BY <1>16 DEF Gained
  <2>4. OnlySays(r, s, g, "ssid", n)
    BY <2>1, <2>2 DEF OnlySays
  <2>. QED
    BY <1>15, <2>3, <2>4, AgreedBlock
<1>20. LastOf(r, InBlock(r, "psk")) = k
  <2>1. \E i \in s + 1 .. g - 1 : r[i].key = "psk"
    BY <1>3, <1>16 DEF Gained
  <2>2. \A i \in s + 1 .. g - 1 : r[i].key = "psk" => r[i].value = k
    BY <1>3, <1>18
  <2>3. Block(r, s, g)
    BY <1>16 DEF Gained
  <2>4. OnlySays(r, s, g, "psk", k)
    BY <2>1, <2>2 DEF OnlySays
  <2>. QED
    BY <1>15, <2>3, <2>4, AgreedBlock
<1>. QED
  BY <1>15, <1>19, <1>20 DEF Says, ParseWpaData

(* A file without a closed block gets one.  If an unclosed one precedes it *)
(* the two are read as one, and the lines added last count.                *)
LEMMA WpaWithAdded ==
  ASSUME NEW lines \in Seq(WpaLine), ~HasBlock(lines),
         NEW n, NEW k, NEW ssid, NEW psk, Written(ssid, psk, n, k),
         NEW r, r = WpaWith(lines, ssid, psk)
  PROVE  Says(r, n, k)
<1>1. Network \in WpaLine /\ End \in WpaLine /\ Other \in WpaLine
  BY DEF WpaLine
<1>2. ssid \in WpaLine /\ psk \in WpaLine
  BY DEF Written
<1>3. /\ ssid # Network /\ ssid # End /\ ssid.key = "ssid" /\ ssid.value = n
      /\ psk # Network /\ psk # End /\ psk.key = "psk" /\ psk.value = k
      /\ Network # End /\ Other # End
  BY LineKeys DEF Written
<1>4. PICK base : base = IF lines = <<>> THEN <<Other>> ELSE lines
  OBVIOUS
<1>5. base \in Seq(WpaLine) /\ Len(base) \in Nat
  BY <1>1, <1>4
<1>6. ~HasBlock(base)
  <2>1. CASE lines = <<>>
    <3>1. base = <<Other>> /\ Len(base) = 1 /\ base[1] = Other
      BY <1>4, <2>1
    <3>2. ASSUME HasBlock(base) PROVE \E e \in 1 .. 1 : base[e] = End
      <4>1. PICK s \in Nat, e \in Nat : Block(base, s, e)
        BY <1>5, <3>2, IsBlock
      <4>. QED
        BY <3>1, <4>1 DEF Block
    <3>. QED
      BY <1>3, <3>1, <3>2
  <2>2. CASE lines # <<>>
    BY <1>4, <2>2
  <2>. QED
    BY <2>1, <2>2
<1>7. PICK m \in Nat : m = Len(base)
  BY <1>5
<1>8. PICK s, e : s = BlockStart(base) /\ e = BlockEnd(base)
  OBVIOUS
<1>9. /\ s \in 1 .. m + 1 /\ (s <= m => base[s] = Network)
      /\ \A i \in 1 .. s - 1 : base[i] # Network
  BY <1>5, <1>7, <1>8, StartOfBlock
<1>10. \A i \in s + 1 .. m : base[i] # End
  <2>1. /\ e \in Nat /\ e <= m + 1
        /\ \A i \in s + 1 .. e - 1 : i <= m => base[i] # End
    BY <1>5, <1>7, <1>8, EndOfBlock
  <2>2. e = m + 1
    BY <1>6, <1>7, <1>8, <2>1 DEF HasBlock
  <2>. QED
    BY <1>9, <2>1, <2>2
<1>11. PICK tail : tail = <<Network, ssid, psk, End>>
  OBVIOUS
<1>12. /\ tail \in Seq(WpaLine) /\ Len(tail) = 4 /\ tail[1] = Network /\ tail[2] = ssid
       /\ tail[3] = psk /\ tail[4] = End
  BY <1>1, <1>2, <1>11
<1>13. r = base \o tail
  BY <1>4, <1>11 DEF WpaWith
<1>14. /\ r \in Seq(WpaLine) /\ Len(r) = m + 4
       /\ \A i \in 1 .. m + 4 : r[i] = IF i <= m THEN base[i] ELSE tail[i - m]
  <2>1. /\ base \o tail \in Seq(WpaLine) /\ Len(base \o tail) = Len(base) + Len(tail)
        /\ \A i \in 1 .. Len(base) + Len(tail) :
             (base \o tail)[i] = IF i <= Len(base) THEN base[i] ELSE tail[i - Len(base)]
    BY <1>5, <1>12, ConcatProperties
  <2>. QED
    BY <1>7, <1>12, <1>13, <2>1
<1>15. /\ r[m + 1] = Network /\ r[m + 2] = ssid /\ r[m + 3] = psk /\ r[m + 4] = End
       /\ \A i \in 1 .. m : r[i] = base[i]
  <2>1. \A i \in 1 .. m : r[i] = base[i]
    BY <1>14
  <2>2. \A j \in 1 .. 4 : r[m + j] = tail[j]
    <3> SUFFICES ASSUME NEW j \in 1 .. 4 PROVE r[m + j] = tail[j]
      OBVIOUS
    <3>1. m + j \in 1 .. m + 4 /\ ~(m + j <= m) /\ (m + j) - m = j
      OBVIOUS
    <3>. QED
      BY <1>14, <3>1
  <2>. QED
    BY <1>12, <2>1, <2>2
<1>16. Block(r, s, m + 4)
  <2>1. s \in 1 .. m + 4 /\ m + 4 \in s + 1 .. m + 4
    BY <1>9
  <2>2. r[s] = Network
    BY <1>9, <1>15
  <2>3. \A i \in 1 .. s - 1 : r[i] # Network
    BY <1>9, <1>15
  <2>4. \A i \in s + 1 .. (m + 4) - 1 : r[i] # End
    <3> SUFFICES ASSUME NEW i \in s + 1 .. m + 3 PROVE r[i] # End
      OBVIOUS
    <3>1. CASE i <= m
      BY <1>9, <1>10, <1>15, <3>1
    <3>2. CASE i > m
      <4>1. i \in {m + 1, m + 2, m + 3}
        BY <1>9, <3>2
      <4>. QED
        BY <1>3, <1>15, <4>1
    <3>. QED
      BY <1>9, <3>1, <3>2
  <2>. QED
    BY <1>14, <1>15, <2>1, <2>2, <2>3, <2>4 DEF Block
<1>17. BlockStart(r) = s /\ BlockEnd(r) = m + 4
  <2>1. s \in Nat /\ m + 4 \in Nat
    BY <1>9
  <2>. QED
    BY <1>14, <1>16, <2>1, BlockIs
<1>18. LastOf(r, InBlock(r, "ssid")) = n
  <2>1. PICK hits : hits = {i \in s + 1 .. m + 3 : r[i].key = "ssid"}
    OBVIOUS
  <2>2. InBlock(r, "ssid") = hits
    BY <1>17, <2>1 DEF InBlock
  <2>3. hits \in SUBSET Nat /\ m + 2 \in hits /\ \A j \in hits : j <= m + 2
    BY <1>3, <1>9, <1>15, <2>1
  <2>. QED
    BY <1>3, <1>15, <2>2, <2>3, LastIs
<1>19. LastOf(r, InBlock(r, "psk")) = k
  <2>1. PICK hits : hits = {i \in s + 1 .. m + 3 : r[i].key = "psk"}
    OBVIOUS
  <2>2. InBlock(r, "psk") = hits
    BY <1>17, <2>1 DEF InBlock
  <2>3. hits \in SUBSET Nat /\ m + 3 \in hits /\ \A j \in hits : j <= m + 3
    BY <1>3, <1>9, <1>15, <2>1
  <2>. QED
    BY <1>3, <1>15, <2>2, <2>3, LastIs
<1>. QED
  BY <1>14, <1>18, <1>19 DEF Says, ParseWpaData

(* Whatever the file, the name and the key written are those read.         *)
LEMMA WpaSaved ==
  ASSUME NEW lines \in Seq(WpaLine), NEW n \in SsidValues, NEW k \in PskValues
  PROVE  Says(WpaWith(lines, Ssid(n), Psk(k, TRUE)), n, k)
<1>1. PICK ssid, psk : ssid = Ssid(n) /\ psk = Psk(k, TRUE)
  BY Zenon
<1>2. Written(ssid, psk, n, k)
  BY <1>1, WrittenLines, Zenon
<1>3. Says(WpaWith(lines, ssid, psk), n, k)
  BY <1>2, WpaWithBlock, WpaWithAdded
<1>. QED
  BY <1>1, <1>3, Zenon

(* The lines of the block are lines of the file. *)
LEMMA InTheFile ==
  ASSUME NEW lines \in Seq(WpaLine), NEW field
  PROVE  InBlock(lines, field) \in SUBSET (1 .. Len(lines))
<1>1. PICK s, e : s = BlockStart(lines) /\ e = BlockEnd(lines)
  OBVIOUS
<1>2. Len(lines) \in Nat /\ s \in Nat /\ s >= 1 /\ e \in Nat /\ e <= Len(lines) + 1
  BY <1>1, StartOfBlock, EndOfBlock
<1>3. InBlock(lines, field) = {i \in s + 1 .. e - 1 : lines[i].key = field}
  BY <1>1 DEF InBlock
<1>. QED
  BY <1>2, <1>3

(* A key that is read is one somebody wrote.                               *)
LEMMA PskRead ==
  ASSUME NEW lines \in Seq(WpaLine)
  PROVE  ParseWpaData(lines).psk \in PskValues \cup {Blank}
<1>1. PICK hits : hits = InBlock(lines, "psk")
  OBVIOUS
<1>2. ParseWpaData(lines).psk = LastOf(lines, hits)
  BY <1>1 DEF ParseWpaData
<1>3. CASE hits = {}
  BY <1>2, <1>3 DEF LastOf
<1>4. CASE hits # {}
  <2>1. Len(lines) \in Nat /\ hits \in SUBSET (1 .. Len(lines)) /\ hits \in SUBSET Nat
    BY <1>1, InTheFile
  <2>2. PICK i \in hits : \A j \in hits : j <= i
    BY <1>4, <2>1, LastPlace
  <2>3. LastOf(lines, hits) = lines[i].value
    BY <2>1, <2>2, LastIs
  <2>4. lines[i] \in WpaLine /\ lines[i].key = "psk"
    BY <1>1, <2>1, ElementOfSeq DEF InBlock
  <2>. QED
    BY <1>2, <2>3, <2>4, LineValues
<1>. QED
  BY <1>3, <1>4

-----------------------------------------------------------------------------
(* The two files. *)

WifiSays(r) ==
  /\ ParseWpaData(wpaLines).ssid = r.ssid
  /\ ParseWpaData(wpaLines).psk # Blank
  /\ r.wifi # Blank => ParseWpaData(wpaLines).psk = r.wifi

(* Between the two writes the Wi-Fi file is the new one already.           *)
SavedInv ==
  /\ StoreInv
  /\ wpaLines \in Seq(WpaLine)
  /\ saving # None /\ saving.break = NoBreak => Valid(saving) /\ WifiSays(saving)

(* The files written by hand hold only such lines. *)
LEMMA WpaFilesAreLines == WpaFiles \subseteq Seq(WpaLine)
<1> DEFINE psk == {Psk(k, TRUE) : k \in Passphrases} \cup {Psk(k, FALSE) : k \in RawKeys}
           ssid == {Ssid(s) : s \in Ssids}
           inside == {<<>>, <<Other>>} \cup {<<k>> : k \in psk} \cup {<<s>> : s \in ssid}
                       \cup {<<s, k>> : s \in ssid, k \in psk}
                       \cup {<<k, Other, s>> : s \in ssid, k \in psk}
           after == {<<>>, <<Other>>} \cup {<<Network, s, k, End>> : s \in ssid, k \in psk}
           open == {<<Other, Network>> \o in : in \in inside}
           Join(in, end) == <<Network>> \o in \o <<End>> \o end
           closed == {Join(in, end) : in \in inside, end \in after}
<1>1. WpaFiles = {<<>>} \cup open \cup closed
  BY DEF WpaFiles
<1>2. psk \subseteq WpaLine
  <2>1. \A v \in PskValues, b \in BOOLEAN : Psk(v, b) \in WpaLine
    BY DEF WpaLine
  <2>2. TRUE \in BOOLEAN /\ FALSE \in BOOLEAN
    OBVIOUS
  <2>3. /\ \A k \in Passphrases : k \in PskValues
        /\ \A k \in RawKeys : k \in PskValues
    BY DEF PskValues
  <2>. QED
    BY ONLY <2>1, <2>2, <2>3, Zenon
<1>3. ssid \subseteq WpaLine /\ {Network, End, Other} \subseteq WpaLine
  BY DEF WpaLine, SsidValues
<1> HIDE DEF psk, ssid
<1>4. inside \subseteq Seq(WpaLine) /\ after \subseteq Seq(WpaLine)
  <2>1. Other \in WpaLine /\ Network \in WpaLine /\ End \in WpaLine
    BY <1>3
  <2>2. \A k \in psk : k \in WpaLine
    BY <1>2
  <2>3. \A s \in ssid : s \in WpaLine
    BY <1>3
  <2>4. /\ <<>> \in Seq(WpaLine)
        /\ \A k \in WpaLine : <<k>> \in Seq(WpaLine)
        /\ \A k, l \in WpaLine : <<k, l>> \in Seq(WpaLine)
        /\ \A k, l, m \in WpaLine : <<k, l, m>> \in Seq(WpaLine)
        /\ \A k, l, m, n \in WpaLine : <<k, l, m, n>> \in Seq(WpaLine)
    OBVIOUS
  <2>5. ASSUME NEW f \in inside PROVE f \in Seq(WpaLine)
    <3>1. \/ f = <<>> \/ f = <<Other>>
          \/ \E k \in psk : f = <<k>>
          \/ \E s \in ssid : f = <<s>>
          \/ \E s \in ssid, k \in psk : f = <<s, k>> \/ f = <<k, Other, s>>
      OBVIOUS
    <3> HIDE DEF inside
    <3>. QED
      BY <2>1, <2>2, <2>3, <2>4, <3>1
  <2>6. ASSUME NEW f \in after PROVE f \in Seq(WpaLine)
    <3>1. \/ f = <<>> \/ f = <<Other>>
          \/ \E s \in ssid, k \in psk : f = <<Network, s, k, End>>
      OBVIOUS
    <3> HIDE DEF after
    <3>. QED
      BY <2>1, <2>2, <2>3, <2>4, <3>1
  <2>. QED
    BY <2>5, <2>6
<1> HIDE DEF inside, after
<1>5. <<Other, Network>> \in Seq(WpaLine) /\ <<Network>> \in Seq(WpaLine)
      /\ <<End>> \in Seq(WpaLine) /\ <<>> \in Seq(WpaLine)
  BY <1>3
<1>6. \A in \in inside : <<Other, Network>> \o in \in Seq(WpaLine)
  BY <1>4, <1>5
<1>7. \A in \in inside, end \in after : Join(in, end) \in Seq(WpaLine)
  BY <1>4, <1>5
<1>8. open \subseteq Seq(WpaLine)
  BY <1>6
<1> HIDE DEF Join
<1>9. closed \subseteq Seq(WpaLine)
  BY <1>7
<1> HIDE DEF open, closed
<1>. QED
  BY <1>1, <1>5, <1>8, <1>9

(* What a broken Wi-Fi text leaves are lines of the file. *)
LEMMA BrokenWpaTyped ==
  ASSUME NEW r \in SaveRequest, r.break.field \in {"ssid", "psk"}
  PROVE  r.break.behind \in Seq(WpaLine)
<1>1. r.break \in Breaks
  BY DEF SaveRequest
<1>2. Other \in WpaLine /\ End \in WpaLine
  BY DEF WpaLine
<1>3. NoBreak.field = "none"
  BY DEF NoBreak
<1>4. r.break.behind \in {<<Other>>, <<End, Other>>}
  BY <1>1, <1>3 DEF Breaks
<1>5. \A T : \A a, b \in T : <<a>> \in Seq(T) /\ <<a, b>> \in Seq(T)
  OBVIOUS
<1>6. <<Other>> \in Seq(WpaLine) /\ <<End, Other>> \in Seq(WpaLine)
  BY <1>2, <1>5
<1>. QED
  BY <1>4, <1>6

(* The first file of a save consists of lines, and says what was saved.    *)
LEMMA WpaBrokenTyped ==
  ASSUME wpaLines \in Seq(WpaLine), NEW r \in SaveRequest, KeyFor(r) # Blank
  PROVE  /\ WpaBroken(wpaLines, r) \in Seq(WpaLine)
         /\ r.break = NoBreak => Says(WpaBroken(wpaLines, r), r.ssid, KeyFor(r))
<1>1. PICK n, k, key : /\ n = (IF r.break.field = "ssid" THEN Cut ELSE r.ssid)
                       /\ k = (IF r.break.field = "psk" THEN Cut ELSE KeyFor(r))
                       /\ key = KeyFor(r)
  OBVIOUS
<1>2. key \in PskValues
  <2>1. r.wifi \in Passphrases \cup {Blank}
    BY DEF SaveRequest
  <2>. QED
    BY <1>1, <2>1, PskRead DEF KeyFor, PskValues
<1>3. n \in SsidValues /\ k \in PskValues
  BY <1>1, <1>2 DEF SaveRequest, SsidValues, PskValues
<1>4. PICK new : new = WpaWith(wpaLines, Ssid(n), Psk(k, TRUE))
  OBVIOUS
<1>5. Says(new, n, k)
  <2>1. Says(WpaWith(wpaLines, Ssid(n), Psk(k, TRUE)), n, k)
    BY <1>3, WpaSaved
  <2>. QED
    BY ONLY <1>4, <2>1, Zenon
<1>6. new \in Seq(WpaLine)
  BY <1>5 DEF Says
<1>7. WpaBroken(wpaLines, r)
        = IF r.break.field \in {"ssid", "psk"}
          THEN Split(new, InBlock(new, r.break.field), r.break.behind) ELSE new
  BY <1>1, <1>4, Zenon DEF WpaBroken
<1>8. CASE r.break.field \in {"ssid", "psk"}
  <2>1. WpaBroken(wpaLines, r) \in Seq(WpaLine)
    BY <1>6, <1>7, <1>8, InTheFile, SplitTyped, BrokenWpaTyped
  <2>2. r.break # NoBreak
    BY <1>8 DEF NoBreak
  <2>. QED
    BY <2>1, <2>2
<1>9. CASE r.break.field \notin {"ssid", "psk"}
  <2>1. n = r.ssid /\ k = KeyFor(r) /\ WpaBroken(wpaLines, r) = new
    BY <1>1, <1>7, <1>9
  <2>2. Says(WpaBroken(wpaLines, r), r.ssid, KeyFor(r))
    BY ONLY <1>5, <2>1, Zenon
  <2>. QED
    BY <1>6, <2>1, <2>2
<1>. QED
  BY <1>8, <1>9

(* Every step keeps what was saved readable. *)
LEMMA SavedStep == SavedInv /\ [StoreNext]_storeVars => SavedInv'
<1> SUFFICES ASSUME SavedInv, [StoreNext]_storeVars PROVE SavedInv'
  OBVIOUS
<1>0. StoreInv'
  BY StoreStep DEF SavedInv
<1>1. ASSUME NEW r \in SaveRequest, SaveWpaSupplicant(r) PROVE SavedInv'
  <2>1. PICK k : k = KeyFor(r)
    OBVIOUS
  <2>2. /\ k # Blank /\ wpaLines' = WpaBroken(wpaLines, r) /\ Valid(r) /\ saving' = r
    BY ONLY <1>1, <2>1, Zenon DEF SaveWpaSupplicant
  <2>3. wpaLines' \in Seq(WpaLine) /\ (r.break = NoBreak => Says(wpaLines', r.ssid, k))
    BY <2>1, <2>2, WpaBrokenTyped DEF SavedInv
  <2>4. r.wifi # Blank => k = r.wifi
    BY <2>1 DEF KeyFor
  <2>5. r.break = NoBreak => WifiSays(r)'
    BY ONLY <2>2, <2>3, <2>4 DEF Says, WifiSays
  <2>. QED
    BY <1>0, <2>2, <2>3, <2>5 DEF SavedInv, WifiSays
<1>2. CASE SaveStops \/ SaveChimeConfig \/ UNCHANGED storeVars
  <2>1. wpaLines' = wpaLines /\ saving' \in {saving, None}
    BY <1>2 DEF SaveStops, SaveChimeConfig, storeVars
  <2>. QED
    BY <1>0, <2>1 DEF SavedInv, WifiSays
<1>. QED
  BY <1>1, <1>2 DEF StoreNext

Reads ==
  /\ LoadCoreConfig'.ssid = saving.ssid /\ LoadCoreConfig'.wifi_password_set
  /\ LoadCoreConfig'.user = saving.user.value
  /\ DaemonReads("mqtt_username")' = saving.user.value
  /\ DaemonReads("mqtt_password")' = ExtractConfigValue("mqtt_password")'
  /\ saving.wifi # Blank => ParseWpaData(wpaLines').psk = saving.wifi
  /\ Given(saving) => ExtractConfigValue("mqtt_password")' = saving.mqtt.value

(* The second write completes what is read. *)
LEMMA SavedReads ==
  ASSUME SavedInv, SaveChimeConfig, saving.break = NoBreak
  PROVE  Reads
<1>1. /\ saving \in SaveRequest /\ chimeLines \in Lines /\ wpaLines' = wpaLines
      /\ Valid(saving) /\ WifiSays(saving)
  BY DEF SaveChimeConfig, SavedInv, StoreInv
<1>2. PICK p, u : p = PasswordFor(saving) /\ u = saving.user.value
  OBVIOUS
<1>3. p \in Values /\ u \in Values
  BY <1>1, <1>2, PasswordTyped
<1>4. chimeLines' = Rewritten(Rewritten(chimeLines, "mqtt_password", p), "mqtt_username", u)
  <2>1. saving.break.field = "none"
    BY DEF NoBreak
  <2>. QED
    BY <1>2, <2>1 DEF SaveChimeConfig, ChimeBroken
<1>5. /\ Read(chimeLines', "mqtt_password") = p /\ ReadClose(chimeLines', "mqtt_password") = p
      /\ Read(chimeLines', "mqtt_username") = u /\ ReadClose(chimeLines', "mqtt_username") = u
  BY <1>1, <1>3, <1>4, ChimeSaved
<1>6. /\ ExtractConfigValue("mqtt_username")' = u /\ DaemonReads("mqtt_username")' = u
      /\ ExtractConfigValue("mqtt_password")' = p /\ DaemonReads("mqtt_password")' = p
  BY <1>5 DEF ExtractConfigValue, DaemonReads, Read, ReadClose
<1>7. Given(saving) => p = saving.mqtt.value
  BY <1>1, <1>2 DEF PasswordFor, Valid
<1>8. LoadCoreConfig'.user = ExtractConfigValue("mqtt_username")'
  BY DEF LoadCoreConfig
<1>9. /\ LoadCoreConfig'.ssid = ParseWpaData(wpaLines').ssid
      /\ LoadCoreConfig'.wifi_password_set = (ParseWpaData(wpaLines').psk # Blank)
  BY DEF LoadCoreConfig
<1>. QED
  BY <1>1, <1>2, <1>6, <1>7, <1>8, <1>9 DEF Reads, WifiSays

(* For any users, names, keys and requests, whatever lines the two files   *)
(* had before and wherever an earlier save broke off: what a save without  *)
(* line breaks completes is, but for outer white space, what webd shows    *)
(* and the daemon uses then.                                               *)
THEOREM SavedIsAlwaysRead == StoreSpec => SavedIsRead
<1>1. StoreInit => SavedInv
  <2>1. StoreInit => wpaLines \in Seq(WpaLine) /\ saving = None
    BY WpaFilesAreLines DEF StoreInit
  <2>. QED
    BY <2>1, StoreInitial DEF SavedInv
<1>2. SavedInv /\ [StoreNext]_storeVars => SavedInv'
  BY SavedStep
<1>3. SavedInv /\ [StoreNext]_storeVars =>
        [SaveChimeConfig /\ saving.break = NoBreak => Reads]_storeVars
  BY SavedReads
<1>. QED
  BY <1>1, <1>2, <1>3, PTL DEF StoreSpec, SavedIsRead, Reads

=============================================================================
