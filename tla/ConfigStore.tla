----------------------------- MODULE ConfigStore -----------------------------
(***************************************************************************)
(* How a save rewrites chime.conf and wpa_supplicant.conf line by line     *)
(* (config_store.cpp), keeping what the form does not know, and what the   *)
(* daemons and webd read from the result.  A file is a sequence of lines;  *)
(* blank lines are left out, and every line the code does not look for is  *)
(* one Other.  The MQTT user stands for the other fields of the form.      *)
(*                                                                         *)
(* Both readers trim what stands behind the sign, so a line holds the      *)
(* trimmed value; in the Wi-Fi file quotes keep white space. A line break  *)
(* in a value, which the code does not refuse, makes lines of what follows *)
(* it. Writing is AtomicWriteFile: a file is the old one or the new one.   *)
(***************************************************************************)
EXTENDS Naturals, Sequences, FiniteSetsExt

CONSTANTS Users, Passwords,    \* of the MQTT broker
          Ssids, Passphrases,  \* of Wi-Fi networks
          RawKeys,             \* 64 digits an editor put there without quotes
          Cut,                 \* what stands before a line break, quoted at one end
          Blank, Omitted, Unknown

ASSUME StoreAssumption ==
  /\ Blank # Omitted
  /\ {Blank, Omitted, Unknown}
       \cap (Users \cup Passwords \cup Ssids \cup Passphrases \cup RawKeys \cup {Cut}) = {}
  /\ Unknown # Blank

VARIABLES chimeLines, wpaLines,
          saving,    \* the request being saved
          owner      \* history: the user the MQTT password was entered for, or
                     \* Unknown when a line break may have made it

storeVars == <<chimeLines, wpaLines, saving, owner>>

None == [ssid |-> Blank]

Setting(key, value, spaced) == [key |-> key, value |-> value, spaced |-> spaced]
Other == Setting("other", Blank, FALSE)

(* A line of the Wi-Fi file; quoted or not.                                *)
Network == [key |-> "network={"]
End == [key |-> "}"]
Ssid(s) == [key |-> "ssid", value |-> s, quoted |-> TRUE]
Psk(k, quoted) == [key |-> "psk", value |-> k, quoted |-> quoted]

-----------------------------------------------------------------------------
(* Reading. *)

LastOf(lines, hits) ==
  IF hits = {} THEN Blank ELSE lines[CHOOSE i \in hits : \A j \in hits : j <= i].value

(* webd wants the sign right after the key, the daemon (load in            *)
(* kv_config.h) allows space there.                                        *)
ExtractConfigValue(key) ==
  LastOf(chimeLines, {i \in DOMAIN chimeLines :
                        chimeLines[i].key = key /\ ~chimeLines[i].spaced})

DaemonReads(key) ==
  LastOf(chimeLines, {i \in DOMAIN chimeLines : chimeLines[i].key = key})

(* The first network, closed or not.                                       *)
BlockStart(lines) == Min({i \in DOMAIN lines : lines[i] = Network} \cup {Len(lines) + 1})
BlockEnd(lines) ==
  LET start == BlockStart(lines) IN
  Min({i \in start + 1 .. Len(lines) : lines[i] = End} \cup {Len(lines) + 1})
HasBlock(lines) == BlockEnd(lines) <= Len(lines)

InBlock(lines, key) ==
  {i \in BlockStart(lines) + 1 .. BlockEnd(lines) - 1 : lines[i].key = key}

ParseWpaData(lines) == [ssid |-> LastOf(lines, InBlock(lines, "ssid")),
                        psk  |-> LastOf(lines, InBlock(lines, "psk"))]

LoadCoreConfig ==
  [ssid |-> ParseWpaData(wpaLines).ssid,
   user |-> ExtractConfigValue("mqtt_username"),
   wifi_password_set |-> ParseWpaData(wpaLines).psk # Blank,
   mqtt_password_set |-> ExtractConfigValue("mqtt_password") # Blank]

-----------------------------------------------------------------------------
(* Saving. *)

(* A text of the form; only the user's and the password's white space is   *)
(* lost. A blank one with white space is not empty.                        *)
Text(values) == [value : values \cup {Blank}, padded : BOOLEAN]
AsText(v) == [value |-> v, padded |-> FALSE]
NoText == AsText(Blank)

(* The lines a line break may add: any the code does not look for, another *)
(* password, or the end of the network. Bound: one break in a request.     *)
NoBreak == [field |-> "none", behind |-> <<>>]
Breaks ==
  {NoBreak}
    \cup [field : {"mqtt_username", "mqtt_password"},
          behind : {<<Other>>} \cup {<<Setting("mqtt_password", p, FALSE)>> : p \in Passwords}]
    \cup [field : {"ssid", "psk"}, behind : {<<Other>>, <<End, Other>>}]

(* A Wi-Fi password left out is one left blank.                            *)
SaveRequest == [ssid : Ssids, wifi : Passphrases \cup {Blank},
                user : Text(Users), mqtt : Text(Passwords) \cup {Omitted}, break : Breaks]

Given(r) == r.mqtt \notin {NoText, Omitted}

(* What ValidateRequest lets pass, of what the fields here can be.         *)
Valid(r) == r.user = NoText => ~Given(r)

(* A text that is empty has no line break.                                 *)
Broken(r, field) == r.break.field = field
Sensible(r) == /\ Broken(r, "mqtt_username") => r.user # NoText
               /\ Broken(r, "mqtt_password") => Given(r)
               /\ Broken(r, "psk") => r.wifi # Blank

(* The user is the one webd read from the file.                            *)
SameUser(r) ==
  ~Broken(r, "mqtt_username") /\ r.user = AsText(ExtractConfigValue("mqtt_username"))

(* mutant: an omitted password is kept whatever the user                   *)
KeepOmitted(r) ==
  IF r.user = NoText THEN Blank
  ELSE IF Given(r) THEN r.mqtt.value
  ELSE IF r.mqtt = NoText /\ ~SameUser(r) THEN Blank
  ELSE ExtractConfigValue("mqtt_password")

PasswordFor(r) ==
  IF r.user = NoText THEN Blank
  ELSE IF Given(r) THEN r.mqtt.value
  ELSE IF SameUser(r) THEN ExtractConfigValue("mqtt_password")
  ELSE Blank

(* The last line with the value is followed by what its break adds. The    *)
(* earlier ones are too, which no reader of the last one notices.          *)
Split(lines, places, behind) ==
  IF places = {} THEN lines
  ELSE LET last == CHOOSE i \in places : \A j \in places : j <= i
       IN SubSeq(lines, 1, last) \o behind \o SubSeq(lines, last + 1, Len(lines))

(* Every line of a key is replaced; those of no line are added.            *)
Rewritten(lines, key, value) ==
  LET line == Setting(key, value, FALSE) IN
  IF \E i \in DOMAIN lines : lines[i].key = key
  THEN [i \in DOMAIN lines |-> IF lines[i].key = key THEN line ELSE lines[i]]
  ELSE Append(lines, line)

KeyFor(r) == IF r.wifi # Blank THEN r.wifi ELSE ParseWpaData(wpaLines).psk

Replaced(lines, new) ==
  LET hits == InBlock(lines, new.key) IN
  [i \in DOMAIN lines |-> IF i \in hits THEN new ELSE lines[i]]

(* mutant: a missing line goes where the block ends already                *)
InsertedAfter(lines, new) ==
  IF InBlock(lines, new.key) # {} THEN lines
  ELSE LET end == BlockEnd(lines) IN
       SubSeq(lines, 1, end) \o <<new>> \o SubSeq(lines, end + 1, Len(lines))

(* A line the block lacks goes before its end.                             *)
Inserted(lines, new) ==
  IF InBlock(lines, new.key) # {} THEN lines
  ELSE LET end == BlockEnd(lines) IN
       SubSeq(lines, 1, end - 1) \o <<new>> \o SubSeq(lines, end, Len(lines))

WpaWith(lines, ssid, psk) ==
  IF HasBlock(lines)
  THEN Inserted(Inserted(Replaced(Replaced(lines, ssid), psk), ssid), psk)
  ELSE (IF lines = <<>> THEN <<Other>> ELSE lines) \o <<Network, ssid, psk, End>>

WpaBroken(lines, r) ==
  LET field == r.break.field
      new == WpaWith(lines, Ssid(IF field = "ssid" THEN Cut ELSE r.ssid),
                     Psk(IF field = "psk" THEN Cut ELSE KeyFor(r), TRUE))
  IN IF field \in {"ssid", "psk"} THEN Split(new, InBlock(new, field), r.break.behind) ELSE new

ChimeBroken(lines, r) ==
  LET field == r.break.field
      new == Rewritten(Rewritten(lines, "mqtt_password", PasswordFor(r)),
                       "mqtt_username", r.user.value)
  IN IF field \in {"mqtt_username", "mqtt_password"}
     THEN Split(new, {i \in DOMAIN new : new[i].key = field}, r.break.behind)
     ELSE new

(* The first file. Without a password for it nothing is saved.             *)
SaveWpaSupplicant(r) ==
  /\ saving = None /\ Valid(r) /\ Sensible(r)
  /\ KeyFor(r) # Blank
  /\ wpaLines' = WpaBroken(wpaLines, r)
  /\ saving' = r
  /\ UNCHANGED <<chimeLines, owner>>

(* The second.                                                             *)
SaveChimeConfig ==
  /\ saving # None
  /\ chimeLines' = ChimeBroken(chimeLines, saving)
  /\ owner' = IF saving.break.field \in {"mqtt_username", "mqtt_password"} THEN Unknown
              ELSE IF Given(saving) THEN saving.user.value
              ELSE owner
  /\ saving' = None
  /\ UNCHANGED wpaLines

(* It cannot be written, or webd ends between the two.                     *)
SaveStops ==
  /\ saving # None
  /\ saving' = None
  /\ UNCHANGED <<chimeLines, wpaLines, owner>>

-----------------------------------------------------------------------------
(* Files somebody wrote by hand, in any order.                             *)
ChimeFiles ==
  LET user == {Setting("mqtt_username", u, s) : u \in Users \cup {Blank}, s \in BOOLEAN}
      password == {Setting("mqtt_password", p, s) : p \in Passwords \cup {Blank}, s \in BOOLEAN}
  IN {<<>>} \cup {<<p>> : p \in password} \cup {<<u>> : u \in user}
       \cup {<<p, Other, u>> : p \in password, u \in user}
       \cup {<<u, p>> : p \in password, u \in user}

WpaFiles ==
  LET psk == {Psk(k, TRUE) : k \in Passphrases} \cup {Psk(k, FALSE) : k \in RawKeys}
      ssid == {Ssid(s) : s \in Ssids}
      inside == {<<>>, <<Other>>} \cup {<<k>> : k \in psk} \cup {<<s>> : s \in ssid}
                  \cup {<<s, k>> : s \in ssid, k \in psk}
                  \cup {<<k, Other, s>> : s \in ssid, k \in psk}
      after == {<<>>, <<Other>>} \cup {<<Network, s, k, End>> : s \in ssid, k \in psk}
  IN {<<>>} \cup {<<Other, Network>> \o in : in \in inside}
       \cup {<<Network>> \o in \o <<End>> \o end : in \in inside, end \in after}

StoreInit ==
  /\ chimeLines \in ChimeFiles /\ wpaLines \in WpaFiles
  /\ saving = None
  /\ owner = DaemonReads("mqtt_username")

StoreNext == (\E r \in SaveRequest : SaveWpaSupplicant(r)) \/ SaveChimeConfig \/ SaveStops

StoreSpec == StoreInit /\ [][StoreNext]_storeVars

-----------------------------------------------------------------------------
(* The daemon uses a password with no other user than the one it was       *)
(* entered for last, whatever was left blank, omitted or padded in a form  *)
(* and wherever a save broke off. A password that a line break brought was *)
(* entered for nobody (config_store.cpp:590-603).                          *)
SecretFollowsUser ==
  DaemonReads("mqtt_password") # Blank /\ owner # Unknown =>
    DaemonReads("mqtt_username") = owner

(* What a save without line breaks completes is, but for outer white       *)
(* space, what webd and the daemon read then, whatever lines the files had,*)
(* however they were spelled and whatever earlier line breaks made of them,*)
(* and webd offers no blank Wi-Fi password for it (config_store.cpp:281,   *)
(* 308, 620-652, 705-743).                                                 *)
SavedIsRead ==
  [][ SaveChimeConfig /\ saving.break = NoBreak =>
        /\ LoadCoreConfig'.ssid = saving.ssid /\ LoadCoreConfig'.wifi_password_set
        /\ LoadCoreConfig'.user = saving.user.value
        /\ DaemonReads("mqtt_username")' = saving.user.value
        /\ DaemonReads("mqtt_password")' = ExtractConfigValue("mqtt_password")'
        /\ saving.wifi # Blank => ParseWpaData(wpaLines').psk = saving.wifi
        /\ Given(saving) => ExtractConfigValue("mqtt_password")' = saving.mqtt.value
    ]_storeVars

(* "Saved and applied." (App.svelte:434): the MQTT password the daemon     *)
(* reads is the one that was entered, which the UI, unlike the other texts,*)
(* does not trim (App.svelte:395). The readers trim it.                    *)
PasswordReadAsEntered ==
  [][ SaveChimeConfig /\ saving.break = NoBreak /\ Given(saving) =>
        AsText(DaemonReads("mqtt_password")') = saving.mqtt ]_storeVars

(* "Password is set. Leave blank to keep it unchanged." (App.svelte:175):  *)
(* wpa_supplicant then finds the key it found before.                      *)
BlankKeepsWifiKey ==
  [][ wpaLines' # wpaLines /\ saving'.wifi = Blank =>
        LET Keys(lines) == {lines[i] : i \in InBlock(lines, "psk")}
        IN Keys(wpaLines') = Keys(wpaLines) ]_storeVars

=============================================================================
