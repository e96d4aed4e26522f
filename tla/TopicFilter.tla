----------------------------- MODULE TopicFilter -----------------------------
(***************************************************************************)
(* Whether a message rings: TopicMatchesFilter (chime_service.cpp) goes    *)
(* through the levels of the ring topic and of the message's.  A topic is  *)
(* the sequence of its levels, which SplitTopic gives.                     *)
(***************************************************************************)
EXTENDS Naturals, Sequences

CONSTANTS Levels,     \* names of levels
          Dollar,     \* those that begin with "$"
          MaxLevels   \* bound: levels of a topic or a filter

ASSUME LevelsAssumption ==
  {"+", "#"} \cap Levels = {} /\ Dollar \subseteq Levels /\ MaxLevels \in Nat

VARIABLES filter, topic,
          index,    \* filter_index and topic_index, which move together
          rings     \* what it returns

topicMatchVars == <<filter, topic, index, rings>>

UpTo(n, set) == UNION {[1 .. k -> set] : k \in 1 .. n}

MatchInit ==
  /\ filter \in UpTo(MaxLevels, Levels \cup {"+", "#"})
  /\ topic \in UpTo(MaxLevels, Levels)
  /\ index = 1 /\ rings = "unknown"

Return(b) == rings' = (IF b THEN "yes" ELSE "no") /\ UNCHANGED <<filter, topic, index>>

(* mutant: a "#" matches wherever it stands                                *)
TopicMatchesFilterEarly ==
  /\ rings = "unknown"
  /\ \/ index > Len(filter) /\ Return(index > Len(topic))
     \/ index <= Len(filter) /\ filter[index] = "#" /\ Return(TRUE)
     \/ /\ index <= Len(filter) /\ filter[index] # "#"
        /\ IF index > Len(topic) \/ filter[index] \notin {"+", topic[index]}
           THEN Return(FALSE)
           ELSE index' = index + 1 /\ UNCHANGED <<filter, topic, rings>>

TopicMatchesFilter ==
  /\ rings = "unknown"
  /\ \/ index > Len(filter) /\ Return(index > Len(topic))
     \/ index <= Len(filter) /\ filter[index] = "#" /\ Return(index = Len(filter))
     \/ /\ index <= Len(filter) /\ filter[index] # "#"
        /\ IF index > Len(topic) \/ filter[index] \notin {"+", topic[index]}
           THEN Return(FALSE)
           ELSE index' = index + 1 /\ UNCHANGED <<filter, topic, rings>>

MatchSpec == MatchInit /\ [][TopicMatchesFilter]_topicMatchVars

-----------------------------------------------------------------------------
(* Each of the first n levels of the filter covers one of the topic.       *)
Covers(n) == \A i \in 1 .. n : i <= Len(topic) /\ filter[i] \in {"+", topic[i]}

(* A "#" at the end stands for any number of levels, none included, and    *)
(* has no other place; "+" stands for one level of any name.               *)
Covered ==
  LET hashes == {i \in DOMAIN filter : filter[i] = "#"} IN
  \/ hashes = {} /\ Len(filter) = Len(topic) /\ Covers(Len(filter))
  \/ hashes = {Len(filter)} /\ Covers(Len(filter) - 1)

(* What MQTT keeps from a filter that begins with a wildcard: the topics   *)
(* that begin with "$" (MQTT-4.7.2-1).                                     *)
Hidden == topic[1] \in Dollar /\ filter[1] \in {"+", "#"}

(* Of the topics that are not hidden a message rings if and only if the    *)
(* filter covers its topic (chime_service.cpp:40-78).                      *)
RingsIfCovered == rings # "unknown" /\ ~Hidden => (rings = "yes" <=> Covered)

(* "ring_topic: Supports MQTT topic filters (`+` and `#`)": a message rings*)
(* if and only if MQTT's whole rule matches its topic                      *)
(* (chime/README.md:77-78). The walk does not look for a "$".              *)
RingsAsMqttSays == rings # "unknown" => (rings = "yes" <=> Covered /\ ~Hidden)

=============================================================================
