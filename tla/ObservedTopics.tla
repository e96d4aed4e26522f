---------------------------- MODULE ObservedTopics ----------------------------
(***************************************************************************)
(* The topics the chime daemon has seen (chime_service.cpp), kept in a     *)
(* list and a set in memory and in observed_topics.txt, which webd reads.  *)
(* The file is read at the first message after a start, and replaced by a  *)
(* rename, without a sync, whenever a new topic enters the list.           *)
(*                                                                         *)
(* topicsFile is what a process reads, topicsDisk what the card holds.     *)
(***************************************************************************)
EXTENDS Naturals, Sequences

CONSTANTS Names,         \* topics without surrounding white space
          OnlySpace,     \* what is left of a topic of white space only
          Nobody,        \* no message is being handled
          MaxObserved    \* kMaxObservedTopics

ASSUME TopicsAssumption ==
  /\ OnlySpace \notin Names
  /\ MaxObserved \in Nat \ {0}

(* A topic as it arrives: reading its line back trims it. The empty topic  *)
(* is the blank one without white space.                                   *)
Topic == [name : Names \cup {OnlySpace}, padded : BOOLEAN]
Empty == [name |-> OnlySpace, padded |-> FALSE]
trim(t) == [t EXCEPT !.padded = FALSE]

ASSUME NobodyAssumption == Nobody \notin Topic

VARIABLES observed,      \* observed_topics_
          observedSet,   \* observed_topics_set_
          loaded,        \* observed_topics_loaded_
          at,            \* where RecordObservedTopic is
          arriving,      \* its argument
          unread,        \* the lines LoadObservedTopics has still to read
          missed,        \* history: this daemon's load did not get to all of them
          topicsFile, topicsDisk

memory == <<observed, observedSet, loaded, at, arriving, unread, missed>>
topicVars == <<memory, topicsFile, topicsDisk>>

TopicsInit ==
  /\ observed = <<>> /\ observedSet = {} /\ loaded = FALSE
  /\ at = "idle" /\ arriving = Nobody /\ unread = <<>> /\ missed = FALSE
  /\ topicsFile = <<>> /\ topicsDisk = <<>>

Elements(s) == {s[i] : i \in 1 .. Len(s)}

(* The names webd offers in its form: ReadObservedTopicsFromFile.          *)
Served == {trim(t) : t \in Elements(topicsFile)} \ {Empty}

-----------------------------------------------------------------------------
(* mutant: the list is not loaded before the first topic is added          *)
RecordUnloaded(t) ==
  /\ at = "idle" /\ t # Empty
  /\ arriving' = t
  /\ at' = "insert"
  /\ UNCHANGED <<observed, observedSet, loaded, unread, missed, topicsFile, topicsDisk>>

RecordObservedTopic(t) ==
  /\ at = "idle" /\ t # Empty
  /\ arriving' = t
  /\ at' = IF loaded THEN "insert" ELSE "open"
  /\ UNCHANGED <<observed, observedSet, loaded, unread, missed, topicsFile, topicsDisk>>

(* A file that is missing reads like an empty one, and so does one that    *)
(* cannot be opened.                                                       *)
LoadOpen ==
  /\ at = "open"
  /\ loaded' = TRUE /\ observed' = <<>> /\ observedSet' = {}
  /\ unread' \in {topicsFile, <<>>}
  /\ missed' = (unread' # topicsFile)
  /\ at' = "load"
  /\ UNCHANGED <<arriving, topicsFile, topicsDisk>>

LoadLine ==
  /\ at = "load" /\ unread # <<>>
  /\ unread' = Tail(unread)
  /\ LET t == trim(Head(unread)) IN
     IF t = Empty \/ t \in observedSet
     THEN UNCHANGED <<observed, observedSet>>
     ELSE /\ observed' = Append(observed, t)
          /\ observedSet' = observedSet \cup {t}
  /\ UNCHANGED <<loaded, at, arriving, missed, topicsFile, topicsDisk>>

(* getline ends at an error as it does at the end of the file.             *)
LoadFails ==
  /\ at = "load" /\ unread # <<>>
  /\ unread' = <<>> /\ missed' = TRUE
  /\ UNCHANGED <<observed, observedSet, loaded, at, arriving, topicsFile, topicsDisk>>

Insert ==
  /\ at = "insert"
  /\ IF arriving \in observedSet
     THEN /\ at' = "idle" /\ arriving' = Nobody
          /\ UNCHANGED <<observed, observedSet>>
     ELSE /\ at' = "new" /\ UNCHANGED arriving
          /\ observed' = Append(observed, arriving)
          /\ observedSet' = observedSet \cup {arriving}
  /\ UNCHANGED <<loaded, unread, missed, topicsFile, topicsDisk>>

(* mutant: the evicted topic stays in the set                              *)
EvictFromList ==
  /\ \/ at = "load" /\ unread = <<>>
     \/ at = "new"
  /\ Len(observed) > MaxObserved
  /\ observed' = Tail(observed)
  /\ UNCHANGED <<observedSet, loaded, at, arriving, unread, missed, topicsFile, topicsDisk>>

(* One turn of the loop at the end of the load and after an insertion.     *)
EvictOldest ==
  /\ \/ at = "load" /\ unread = <<>>
     \/ at = "new"
  /\ Len(observed) > MaxObserved
  /\ observed' = Tail(observed)
  /\ observedSet' = observedSet \ {Head(observed)}
  /\ UNCHANGED <<loaded, at, arriving, unread, missed, topicsFile, topicsDisk>>

Loaded ==
  /\ at = "load" /\ unread = <<>> /\ Len(observed) <= MaxObserved
  /\ at' = "insert"
  /\ UNCHANGED <<observed, observedSet, loaded, arriving, unread, missed>>
  /\ UNCHANGED <<topicsFile, topicsDisk>>

(* A write that fails touches the temporary file only, and is logged.      *)
PersistObservedTopics ==
  /\ at = "new" /\ Len(observed) <= MaxObserved
  /\ topicsFile' \in {observed, topicsFile}
  /\ at' = "idle" /\ arriving' = Nobody
  /\ UNCHANGED <<observed, observedSet, loaded, unread, missed, topicsDisk>>

-----------------------------------------------------------------------------
(* The daemon ends, anywhere, and is started again.                        *)
Forget ==
  /\ observed' = <<>> /\ observedSet' = {} /\ loaded' = FALSE
  /\ at' = "idle" /\ arriving' = Nobody /\ unread' = <<>> /\ missed' = FALSE

DaemonRestarts == Forget /\ UNCHANGED <<topicsFile, topicsDisk>>

TopicsWriteBack ==
  /\ topicsDisk' = topicsFile
  /\ UNCHANGED <<memory, topicsFile>>

(* A file that was not written back is the old one, or cut short.          *)
TopicsPowerCut ==
  /\ Forget
  /\ topicsFile' \in {topicsDisk} \cup
       (IF topicsFile = topicsDisk THEN {}
        ELSE {SubSeq(topicsFile, 1, n) : n \in 0 .. Len(topicsFile)})
  /\ topicsDisk' = topicsFile'

TopicsNext ==
  \/ \E t \in Topic : RecordObservedTopic(t)
  \/ LoadOpen \/ LoadLine \/ LoadFails \/ Insert \/ EvictOldest \/ Loaded
  \/ PersistObservedTopics
  \/ DaemonRestarts \/ TopicsWriteBack \/ TopicsPowerCut

TopicsSpec == TopicsInit /\ [][TopicsNext]_topicVars

-----------------------------------------------------------------------------
(* The list and the set hold the same topics, each once, and no more than  *)
(* the limit outside the two loops that evict (chime_service.cpp:357-366,  *)
(* 389-397): a topic missing from the set would be added twice, one only   *)
(* in the set would never be offered again.                                *)
TopicsAgree ==
  /\ observedSet = Elements(observed)
  /\ \A i, j \in 1 .. Len(observed) : observed[i] = observed[j] => i = j
  /\ at = "idle" => Len(observed) <= MaxObserved

(* A topic webd offers disappears only when the list is full, when the     *)
(* power is cut, or when the daemon could not read the file it replaces:   *)
(* not by a restart, nor by a write that failed before or after one        *)
(* (chime_service.cpp:353, 368, 380).                                      *)
TopicsOnlyEvicted ==
  [][ \/ Served \subseteq Served'
      \/ Len(topicsFile') = MaxObserved
      \/ missed
      \/ TopicsPowerCut ]_topicVars

=============================================================================
