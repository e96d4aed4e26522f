---------------------------- MODULE StorageProofs ----------------------------
(***************************************************************************)
(* Proofs about the files of Storage, for any topics and sounds and any    *)
(* limit on the topics.  Each store is proved alone; a step of the     *)
(* composition is a step of one store and leaves the others as they are.   *)
(***************************************************************************)
EXTENDS Storage, TLAPS

-----------------------------------------------------------------------------
(* A step of the composition, seen by each store. *)

(* It is a step of each store or leaves that store alone. *)
LEMMA StoresApart ==
  [Next]_vars => [TopicsNext]_topicVars /\ [SoundsNext]_soundVars
BY DEF Next, vars, tlsVars

-----------------------------------------------------------------------------
(* Observed topics. *)

Places == {"idle", "open", "load", "insert", "new"}

Distinct(s) == \A i, j \in 1 .. Len(s) : s[i] = s[j] => i = j

(* Only an insertion and the eviction after it, or a load, make the list   *)
(* longer than the limit, and neither goes on before it is cut.            *)
TopicsInv ==
  /\ observed \in Seq(Topic) /\ unread \in Seq(Topic)
  /\ topicsFile \in Seq(Topic) /\ topicsDisk \in Seq(Topic)
  /\ arriving \in Topic \cup {Nobody} /\ at \in Places /\ loaded \in BOOLEAN
  /\ at # "idle" => arriving \in Topic
  /\ at \notin {"load", "new"} => Len(observed) <= MaxObserved
  /\ observedSet = Elements(observed)
  /\ Distinct(observed)

(* An empty list holds nothing. *)
LEMMA NoElements ==
  \A s : s = <<>> => /\ Elements(s) = {} /\ Distinct(s) /\ s \in Seq(Topic)
                     /\ Len(s) <= MaxObserved
BY TopicsAssumption DEF Elements, Distinct

(* A trimmed topic is a topic. *)
LEMMA TrimType == \A t \in Topic : trim(t) \in Topic
BY DEF Topic, trim

(* What appending a new topic to a list does. *)
LEMMA AppendNew ==
  ASSUME NEW s \in Seq(Topic), NEW t \in Topic, t \notin Elements(s),
         Distinct(s)
  PROVE  \A r : r = Append(s, t) =>
           /\ r \in Seq(Topic) /\ Len(r) = Len(s) + 1
           /\ Elements(r) = Elements(s) \cup {t}
           /\ Distinct(r)
<1> DEFINE r == Append(s, t)
<1>1. r \in Seq(Topic) /\ Len(r) = Len(s) + 1 /\ r[Len(s) + 1] = t
  OBVIOUS
<1>2. \A i \in 1 .. Len(s) : r[i] = s[i] /\ s[i] # t
  BY DEF Elements
<1> HIDE DEF r
<1>3. Elements(r) = Elements(s) \cup {t}
  BY <1>1, <1>2 DEF Elements
<1>4. Distinct(r)
  BY <1>1, <1>2 DEF Distinct
<1>. QED
  BY <1>1, <1>3, <1>4 DEF r

(* What taking the first topic off a list does. *)
LEMMA TailApart ==
  ASSUME NEW s \in Seq(Topic), s # <<>>,
         Distinct(s)
  PROVE  \A r : r = Tail(s) =>
           /\ r \in Seq(Topic) /\ Len(r) = Len(s) - 1
           /\ Elements(r) = Elements(s) \ {Head(s)}
           /\ Distinct(r)
<1> DEFINE r == Tail(s)
<1>1. r \in Seq(Topic) /\ Len(r) = Len(s) - 1 /\ Head(s) = s[1] /\ Len(s) \in Nat \ {0}
  OBVIOUS
<1>2. \A i \in 1 .. Len(r) : r[i] = s[i + 1]
  OBVIOUS
<1> HIDE DEF r
<1>3. Distinct(r)
  <2> SUFFICES ASSUME NEW i \in 1 .. Len(r), NEW j \in 1 .. Len(r), r[i] = r[j]
               PROVE  i = j
    BY DEF Distinct
  <2>1. i + 1 \in 1 .. Len(s) /\ j + 1 \in 1 .. Len(s)
    BY <1>1
  <2>. QED
    BY <1>2, <2>1 DEF Distinct
<1>4. Elements(r) = Elements(s) \ {Head(s)}
  <2>1. \A i \in 1 .. Len(r) : i + 1 \in 1 .. Len(s) /\ r[i] # s[1]
    BY <1>1, <1>2 DEF Distinct
  <2>2. \A k \in 1 .. Len(s) : k = 1 \/ (k - 1 \in 1 .. Len(r) /\ r[k - 1] = s[k])
    BY <1>1, <1>2
  <2>3. ASSUME NEW x \in Elements(r) PROVE x \in Elements(s) \ {Head(s)}
    BY <1>1, <1>2, <2>1 DEF Elements
  <2>4. ASSUME NEW x \in Elements(s) \ {Head(s)} PROVE x \in Elements(r)
    BY <1>1, <2>2 DEF Elements
  <2>. QED
    BY <2>3, <2>4
<1>. QED
  BY <1>1, <1>3, <1>4 DEF r

(* At first nothing is loaded. *)
LEMMA TopicsInitial == TopicsInit => TopicsInv
BY TopicsAssumption, NoElements DEF TopicsInit, TopicsInv, Places

(* Every step on the topics keeps their invariant. *)
LEMMA TopicsStep == TopicsInv /\ [TopicsNext]_topicVars => TopicsInv'
<1> SUFFICES ASSUME TopicsInv, [TopicsNext]_topicVars PROVE TopicsInv'
  OBVIOUS
<1> USE TopicsAssumption DEF TopicsInv, Places
<1>1. ASSUME NEW t \in Topic, RecordObservedTopic(t) PROVE TopicsInv'
  BY <1>1 DEF RecordObservedTopic
<1>2. CASE LoadOpen
  <2>1. unread' \in Seq(Topic) /\ observed' = <<>> /\ observedSet' = {}
    BY <1>2, NoElements DEF LoadOpen
  <2>. QED
    BY <1>2, <2>1, NoElements DEF LoadOpen
<1>2a. CASE LoadFails
  BY <1>2a DEF LoadFails
<1>3. CASE LoadLine
  <2> DEFINE t == trim(Head(unread))
  <2>1. t \in Topic /\ unread' \in Seq(Topic)
    BY <1>3, TrimType DEF LoadLine
  <2>2. CASE t = Empty \/ t \in observedSet
    BY <1>3, <2>1, <2>2 DEF LoadLine
  <2>3. CASE ~(t = Empty \/ t \in observedSet)
    <3>1. observed' = Append(observed, t) /\ observedSet' = observedSet \cup {t}
      BY <1>3, <2>3 DEF LoadLine
    <3>. HIDE DEF t
    <3>. QED
      BY <1>3, <2>1, <2>3, <3>1, AppendNew DEF LoadLine
  <2>. QED
    BY <2>2, <2>3
<1>4. CASE Insert
  <2>1. CASE arriving \in observedSet
    BY <1>4, <2>1 DEF Insert
  <2>2. CASE arriving \notin observedSet
    BY <1>4, <2>2, AppendNew DEF Insert
  <2>. QED
    BY <2>1, <2>2
<1>5. CASE EvictOldest
  <2>1. observed # <<>>
    BY <1>5 DEF EvictOldest
  <2>. QED
    BY <1>5, <2>1, TailApart DEF EvictOldest
<1>6. CASE Loaded
  BY <1>6 DEF Loaded
<1>7. CASE PersistObservedTopics
  BY <1>7 DEF PersistObservedTopics
<1>8. CASE DaemonRestarts
  BY <1>8, NoElements DEF DaemonRestarts, Forget
<1>9. CASE TopicsWriteBack
  BY <1>9 DEF TopicsWriteBack, memory
<1>10. CASE TopicsPowerCut
  <2>1. \A n \in 0 .. Len(topicsFile) : SubSeq(topicsFile, 1, n) \in Seq(Topic)
    OBVIOUS
  <2>2. topicsFile' \in Seq(Topic) /\ topicsDisk' \in Seq(Topic)
    BY <1>10, <2>1 DEF TopicsPowerCut
  <2>3. Forget
    BY <1>10 DEF TopicsPowerCut
  <2>. QED
    BY <2>2, <2>3, NoElements DEF Forget
<1>11. CASE UNCHANGED topicVars
  BY <1>11 DEF topicVars, memory
<1>. QED
  BY <1>1, <1>2, <1>2a, <1>3, <1>4, <1>5, <1>6, <1>7, <1>8, <1>9, <1>10, <1>11 DEF TopicsNext

(* For any topics and limit, the list and the set of observed topics agree.*)
THEOREM TopicsAlwaysAgree == Spec => []TopicsAgree
<1>1. Init => TopicsInv
  BY TopicsInitial DEF Init
<1>2. TopicsInv /\ [Next]_vars => TopicsInv'
  BY TopicsStep, StoresApart
<1>3. TopicsInv => TopicsAgree
  BY DEF TopicsInv, TopicsAgree, Distinct
<1>. QED
  BY <1>1, <1>2, <1>3, PTL DEF Spec

(* What is offered is in the list or still to be loaded, unless the list   *)
(* is full or the load missed something: an insertion or a load never      *)
(* shortens it below the limit.                                            *)
Trims(s) == {trim(t) : t \in Elements(s)}

KeptInv ==
  loaded =>
    \/ missed
    \/ Len(observed) >= MaxObserved
    \/ Served \subseteq Trims(observed) \cup Trims(unread)

KeptShape ==
  /\ at # "load" => unread = <<>>
  /\ at \in {"load", "new", "insert"} => loaded
  /\ at = "open" => ~loaded

(* What a loaded line becomes in the list. *)
LEMMA TrimTwice == \A t \in Topic : trim(trim(t)) = trim(t)
BY DEF Topic, trim

(* Reading the next line moves one topic from the file to the list. *)
LEMMA TrimsOfTail ==
  ASSUME NEW s \in Seq(Topic), s # <<>>
  PROVE  Trims(s) = Trims(Tail(s)) \cup {trim(Head(s))}
<1> DEFINE r == Tail(s)
<1>1. r \in Seq(Topic) /\ Len(r) = Len(s) - 1 /\ Head(s) = s[1] /\ Len(s) \in Nat \ {0}
  OBVIOUS
<1>2. \A i \in 1 .. Len(r) : r[i] = s[i + 1]
  OBVIOUS
<1> HIDE DEF r
<1>3. \A k \in 1 .. Len(s) : k = 1 \/ (k - 1 \in 1 .. Len(r) /\ r[k - 1] = s[k])
  BY <1>1, <1>2
<1>4. \A i \in 1 .. Len(r) : i + 1 \in 1 .. Len(s)
  BY <1>1
<1>5. Elements(s) = Elements(r) \cup {Head(s)}
  <2>1. ASSUME NEW x \in Elements(r) PROVE x \in Elements(s)
    BY <1>2, <1>4 DEF Elements
  <2>2. ASSUME NEW x \in Elements(s), x # Head(s) PROVE x \in Elements(r)
    <3>1. PICK k \in 1 .. Len(s) : x = s[k]
      BY DEF Elements
    <3>. QED
      BY <1>1, <1>3, <2>2, <3>1 DEF Elements
  <2>3. Head(s) \in Elements(s)
    BY <1>1 DEF Elements
  <2>. QED
    BY <2>1, <2>2, <2>3
<1>. QED
  BY <1>5 DEF Trims, r

(* An appended topic adds its trimmed form to those of the list. *)
LEMMA TrimsOfAppend ==
  ASSUME NEW s \in Seq(Topic), NEW t \in Topic
  PROVE  Trims(s) \subseteq Trims(Append(s, t)) /\ trim(t) \in Trims(Append(s, t))
<1> DEFINE r == Append(s, t)
<1>1. Len(r) = Len(s) + 1 /\ r[Len(s) + 1] = t /\ Len(s) \in Nat
  OBVIOUS
<1>2. \A i \in 1 .. Len(s) : r[i] = s[i]
  OBVIOUS
<1> HIDE DEF r
<1>3. Elements(s) \subseteq Elements(r) /\ t \in Elements(r)
  BY <1>1, <1>2 DEF Elements
<1>. QED
  BY <1>3 DEF Trims, r

(* No step but an eviction drops a topic that is kept. *)
LEMMA KeptStep ==
  TopicsInv /\ KeptShape /\ KeptInv /\ [TopicsNext]_topicVars => (KeptShape /\ KeptInv)'
<1> SUFFICES ASSUME TopicsInv, KeptShape, KeptInv, [TopicsNext]_topicVars
             PROVE  KeptShape' /\ KeptInv'
  OBVIOUS
<1>0. Len(observed) \in Nat /\ MaxObserved \in Nat /\ observed \in Seq(Topic)
      /\ unread \in Seq(Topic)
  BY TopicsAssumption DEF TopicsInv
<1>a. ASSUME UNCHANGED <<observed, unread, topicsFile, loaded, missed>> PROVE KeptInv'
  BY <1>a DEF KeptInv, Trims, Elements, Served
<1>1. ASSUME NEW t \in Topic, RecordObservedTopic(t) PROVE KeptShape' /\ KeptInv'
  BY <1>1, <1>a DEF RecordObservedTopic, KeptShape
<1>2. CASE LoadOpen
  <2>1. KeptShape'
    BY <1>2 DEF LoadOpen, KeptShape
  <2>2. CASE unread' = topicsFile
    <3>1. Served' = Served /\ Trims(unread)' = Trims(topicsFile)
      BY <1>2, <2>2 DEF LoadOpen, Served, Trims, Elements
    <3>2. Served \subseteq Trims(topicsFile)
      BY DEF Served, Trims
    <3>. QED
      BY <2>1, <3>1, <3>2 DEF KeptInv
  <2>3. CASE unread' # topicsFile
    BY <1>2, <2>1, <2>3 DEF LoadOpen, KeptInv
  <2>. QED
    BY <2>2, <2>3
<1>2a. CASE LoadFails
  BY <1>2a DEF LoadFails, KeptShape, KeptInv
<1>3. CASE LoadLine
  <2> DEFINE t == trim(Head(unread))
  <2>0. Served' = Served /\ at = "load" /\ at' = "load" /\ unread # <<>> /\ unread' = Tail(unread)
        /\ loaded' = loaded /\ missed' = missed
    BY <1>3 DEF LoadLine, Served, Elements
  <2>1. KeptShape'
    BY <2>0 DEF KeptShape
  <2>2. Trims(unread) = Trims(unread') \cup {t} /\ t \in Topic /\ trim(t) = t
    BY <1>0, <2>0, TrimsOfTail, TrimType, TrimTwice
  <2>3. Empty \notin Served
    BY DEF Served
  <2>4. CASE t = Empty
    BY <1>3, <2>0, <2>1, <2>2, <2>3, <2>4 DEF LoadLine, KeptInv
  <2>5. CASE t # Empty /\ t \in observedSet
    <3>1. t \in Trims(observed)
      BY <2>2, <2>5 DEF TopicsInv, Trims
    <3>. QED
      BY <1>3, <2>0, <2>1, <2>2, <2>5, <3>1 DEF LoadLine, KeptInv
  <2>6. CASE t # Empty /\ t \notin observedSet
    <3>1. observed' = Append(observed, t)
      BY <1>3, <2>6 DEF LoadLine
    <3>2. Len(observed') >= Len(observed) /\ Trims(observed) \cup {t} \subseteq Trims(observed')
      BY <1>0, <2>2, <3>1, TrimsOfAppend
    <3>3. Len(observed') \in Nat
      BY <1>0, <2>2, <3>1
    <3>. QED
      BY <1>0, <2>0, <2>1, <2>2, <3>2, <3>3 DEF KeptInv
  <2>. QED
    BY <2>4, <2>5, <2>6
<1>4. CASE Insert
  <2>1. KeptShape' /\ Served' = Served /\ unread' = unread /\ missed' = missed
    BY <1>4 DEF Insert, KeptShape, Served, Elements
  <2>2. CASE arriving \in observedSet
    BY <1>4, <2>1, <2>2 DEF Insert, KeptInv
  <2>3. CASE arriving \notin observedSet
    <3>1. observed' = Append(observed, arriving) /\ arriving \in Topic /\ loaded
      BY <1>4, <2>3 DEF Insert, TopicsInv, KeptShape
    <3>2. Len(observed') \in Nat /\ Len(observed') >= Len(observed)
          /\ Trims(observed) \subseteq Trims(observed')
      BY <1>0, <3>1, TrimsOfAppend
    <3>. QED
      BY <1>0, <2>1, <3>1, <3>2 DEF KeptInv
  <2>. QED
    BY <2>2, <2>3
<1>5. CASE EvictOldest
  <2>1. KeptShape'
    BY <1>5 DEF EvictOldest, KeptShape
  <2>2. Len(observed') = Len(observed) - 1 /\ Len(observed) > MaxObserved
    BY <1>0, <1>5 DEF EvictOldest
  <2>. QED
    BY <1>0, <2>1, <2>2 DEF KeptInv
<1>6. CASE Loaded
  BY <1>6, <1>a DEF Loaded, KeptShape
<1>7. CASE PersistObservedTopics
  <2>1. KeptShape' /\ UNCHANGED <<observed, unread, loaded, missed>> /\ at = "new"
    BY <1>7 DEF PersistObservedTopics, KeptShape
  <2>2. CASE topicsFile' = topicsFile
    BY <1>7, <2>1, <2>2, <1>a DEF PersistObservedTopics
  <2>3. CASE topicsFile' = observed
    <3>1. Served' \subseteq Trims(observed)
      BY <2>3 DEF Served, Trims
    <3>. QED
      BY <2>1, <3>1 DEF KeptInv, Trims, Elements
  <2>. QED
    BY <1>7, <2>2, <2>3 DEF PersistObservedTopics
<1>8. CASE DaemonRestarts \/ TopicsPowerCut
  BY <1>8 DEF DaemonRestarts, TopicsPowerCut, Forget, KeptInv, KeptShape
<1>9. CASE TopicsWriteBack
  BY <1>9, <1>a DEF TopicsWriteBack, memory, KeptShape
<1>10. CASE UNCHANGED topicVars
  BY <1>10, <1>a DEF topicVars, memory, KeptShape
<1>. QED
  BY <1>1, <1>2, <1>2a, <1>3, <1>4, <1>5, <1>6, <1>7, <1>8, <1>9, <1>10 DEF TopicsNext

(* Only the step that writes the file can lose a topic, and then the list  *)
(* it writes is full, or made from a load that missed something.           *)
LEMMA KeptMeansOffered ==
  ASSUME TopicsInv, KeptShape, KeptInv, [TopicsNext]_topicVars
  PROVE  \/ Served \subseteq Served' \/ Len(topicsFile') = MaxObserved \/ missed
         \/ TopicsPowerCut
<1>1. CASE topicsFile' = topicsFile
  BY <1>1 DEF Served, Elements
<1>2. CASE PersistObservedTopics /\ topicsFile' = observed
  <2>1. at = "new" /\ loaded /\ unread = <<>> /\ Len(observed) <= MaxObserved /\ Len(observed) \in Nat
    BY <1>2 DEF PersistObservedTopics, KeptShape, TopicsInv
  <2>2. CASE Len(observed) >= MaxObserved
    BY <1>2, <2>1, <2>2, TopicsAssumption
  <2>3. CASE Served \subseteq Trims(observed) \cup Trims(unread)
    <3>1. Trims(unread) = {}
      BY <2>1 DEF Trims, Elements
    <3>2. Served' = Trims(observed) \ {Empty} /\ Empty \notin Served
      BY <1>2 DEF Served, Trims, Elements
    <3>. QED
      BY <2>3, <3>1, <3>2
  <2>. QED
    BY <2>1, <2>2, <2>3 DEF KeptInv
<1>3. CASE TopicsPowerCut \/ missed
  BY <1>3
<1>. QED
  BY <1>1, <1>2, <1>3
     DEF TopicsNext, RecordObservedTopic, LoadOpen, LoadLine, LoadFails, Insert, EvictOldest, Loaded,
         PersistObservedTopics, DaemonRestarts, TopicsWriteBack, memory, topicVars

(* For any topics and limit: a topic once offered stays, over restarts and *)
(* failing writes, until the list is full, the power is cut, or a daemon   *)
(* could not read the file it replaces.                                    *)
THEOREM OnlyEvicted == Spec => TopicsOnlyEvicted
<1> DEFINE Inv == TopicsInv /\ KeptShape /\ KeptInv
<1>1. Init => Inv
  BY TopicsInitial DEF Init, TopicsInit, KeptShape, KeptInv
<1>2. Inv /\ [Next]_vars => Inv'
  BY TopicsStep, KeptStep, StoresApart
<1>3. Inv /\ [Next]_vars => [ \/ Served \subseteq Served' \/ Len(topicsFile') = MaxObserved
                              \/ missed \/ TopicsPowerCut ]_topicVars
  BY KeptMeansOffered, StoresApart
<1>. QED
  BY <1>1, <1>2, <1>3, PTL DEF Spec, TopicsOnlyEvicted

-----------------------------------------------------------------------------
(* Ring sounds. *)

(* What a request is about to write is whole, or a copy of a file that is  *)
(* there; a temporary file that was written holds all of it. Once ring.wav *)
(* is replaced it is the sound asked for, before that the one selected.    *)
Content == Recordings \cup {Missing, Torn}

Requests == [op : {"idle", "list", "seed", "upload", "select", "persist"},
             name : Sounds \cup {NoName}, step : {"none", "write", "rename"},
             sound : Content, temp : Content]

Copies ==
  request.step # "none" =>
    /\ request.op \in {"seed", "upload", "select"} /\ request.name \in Sounds
    /\ request.op = "upload" => request.sound \in Recordings
    /\ request.op = "seed" => request.sound = file["ring.wav"]
    /\ request.op = "select" => request.sound = file[request.name]
    /\ request.step = "rename" => request.temp = request.sound

Honest ==
  /\ request.op = "persist" =>
       /\ request.step = "none" /\ request.name \in Sounds
       /\ file[request.name] = file["ring.wav"]
  /\ request.op # "persist" /\ selected # NoName /\ ~excused =>
       file[selected] = file["ring.wav"]

SoundsInv == SoundsTypeOK /\ Copies /\ Honest

(* Requests are built of these. *)
LEMMA RequestsMade ==
  /\ \A op, n, c : LET w == Writing(op, n, c) IN
       /\ w.op = op /\ w.name = n /\ w.step = "write" /\ w.sound = c /\ w.temp = Torn
       /\ op \in {"seed", "upload", "select"} /\ n \in Sounds /\ c \in Content => w \in Requests
  /\ \A op, n : LET w == NotWriting(op, n) IN
       /\ w.op = op /\ w.name = n /\ w.step = "none"
       /\ op \in {"idle", "list", "persist"} /\ n \in Sounds \cup {NoName} => w \in Requests
  /\ Idle = NotWriting("idle", NoName)
BY DEF Writing, NotWriting, Idle, Requests, Content

(* A request that is over, or goes on to the list, writes nothing.         *)
LEMMA Over ==
  /\ Idle \in Requests /\ Failed \in Requests
  /\ Idle.step = "none" /\ Failed.step = "none"
  /\ Idle.op = "idle" /\ Failed.op \in {"idle", "list"}
BY RequestsMade DEF Failed

(* A new device plays the firmware's own sound. *)
LEMMA SoundsInitial == SoundsInit => SoundsInv
<1> SUFFICES ASSUME SoundsInit PROVE SoundsInv
  OBVIOUS
<1>1. file \in [Files -> Recordings \cup {Missing, Torn}] /\ disk = file
  BY SoundsAssumption DEF SoundsInit
<1>2. request = Idle /\ selected = NoName /\ selectedDisk = NoName /\ excused = FALSE
  BY DEF SoundsInit
<1>3. SoundsTypeOK
  BY <1>1, <1>2, Over DEF SoundsTypeOK, Requests, Content
<1>. QED
  BY <1>2, <1>3, Over DEF SoundsInv, Copies, Honest

(* A step that leaves files and selection and goes to a request that       *)
(* writes nothing, or makes a copy, keeps the invariant.                   *)
LEMMA SoundsStay ==
  ASSUME SoundsInv, request.op # "persist", UNCHANGED <<file, disk, selectedDisk, excused>>,
         selected' \in {selected, NoName}, request' \in Requests, Copies',
         request'.op # "persist"
  PROVE  SoundsInv'
<1>1. SoundsTypeOK'
  BY DEF SoundsInv, SoundsTypeOK, Requests, Content
<1>2. Honest'
  BY DEF SoundsInv, Honest
<1>. QED
  BY <1>1, <1>2 DEF SoundsInv

(* Every step on the sounds keeps their invariant. *)
LEMMA SoundsStep == SoundsInv /\ [SoundsNext]_soundVars => SoundsInv'
<1> SUFFICES ASSUME SoundsInv, [SoundsNext]_soundVars PROVE SoundsInv'
  OBVIOUS
<1>0. /\ file \in [Files -> Content] /\ disk \in [Files -> Content]
      /\ selected \in Sounds \cup {NoName} /\ selectedDisk \in Sounds \cup {NoName}
      /\ request \in Requests /\ excused \in BOOLEAN
      /\ DefaultSound \in Sounds /\ NoName \notin Sounds
      /\ Files = Sounds \cup {"ring.wav"} /\ "ring.wav" \notin Sounds
  BY SoundsAssumption DEF SoundsInv, SoundsTypeOK, Requests, Content, Files
<1>1. CASE TrySeedDefaultRingSound
  <2>1. request' = Writing("seed", DefaultSound, file["ring.wav"])
        \/ request' = NotWriting("list", NoName)
    BY <1>1 DEF TrySeedDefaultRingSound
  <2>2. file["ring.wav"] \in Content
    BY <1>0
  <2>3. request' \in Requests /\ request'.op # "persist"
    BY <1>0, <2>1, <2>2, RequestsMade
  <2>4. Copies'
    BY <1>0, <1>1, <2>1, RequestsMade DEF Copies, TrySeedDefaultRingSound
  <2>. QED
    BY <1>1, <2>3, <2>4, Over, SoundsStay DEF TrySeedDefaultRingSound
<1>2. CASE HandleGetRingSounds
  <2>1. selected' \in {selected, NoName} /\ request' = Idle /\ request.op # "persist"
    BY <1>2 DEF HandleGetRingSounds
  <2>2. Copies'
    BY <2>1, Over DEF Copies
  <2>. QED
    BY <1>2, <2>1, <2>2, Over, SoundsStay DEF HandleGetRingSounds
<1>3. ASSUME NEW n \in Sounds \cup UnsafeNames, NEW c \in Recordings, HandleUploadRingSound(n, c)
      PROVE  SoundsInv'
  <2>1. request' = Writing("upload", n, c) /\ n \in Sounds /\ c \in Content
    BY <1>3 DEF HandleUploadRingSound, IsSafeSoundName, Content
  <2>2. request' \in Requests /\ request'.op # "persist"
    BY <2>1, RequestsMade
  <2>3. Copies'
    BY <2>1, <1>3, RequestsMade DEF Copies
  <2>. QED
    BY <1>3, <2>2, <2>3, Over, SoundsStay DEF HandleUploadRingSound
<1>4. ASSUME NEW n \in Sounds \cup UnsafeNames, HandleSelectRingSound(n) PROVE SoundsInv'
  <2>1. request' = Writing("select", n, file[n]) /\ n \in Sounds /\ file' = file
    BY <1>4 DEF HandleSelectRingSound, IsSafeSoundName
  <2>2. file[n] \in Content
    BY <1>0, <2>1
  <2>3. request' \in Requests /\ request'.op # "persist"
    BY <2>1, <2>2, RequestsMade
  <2>4. Copies'
    BY <2>1, RequestsMade DEF Copies
  <2>. QED
    BY <1>4, <2>3, <2>4, Over, SoundsStay DEF HandleSelectRingSound
<1>5. CASE WriteTemp
  <2>1. request.step = "write" /\ request.op # "persist"
    BY <1>5 DEF WriteTemp, SoundsInv, Honest
  <2>2. CASE request' = Failed
    <3>1. Copies'
      BY <2>2, Over DEF Copies
    <3>. QED
      BY <1>5, <2>1, <2>2, <3>1, Over, SoundsStay DEF WriteTemp
  <2>3. CASE request' = [request EXCEPT !.step = "rename", !.temp = request.sound]
    <3>1. /\ request'.op = request.op /\ request'.name = request.name
          /\ request'.sound = request.sound /\ request'.step = "rename"
          /\ request'.temp = request.sound /\ request' \in Requests
      BY <1>0, <2>3 DEF Requests
    <3>2. Copies'
      BY <1>5, <2>1, <3>1 DEF SoundsInv, Copies, WriteTemp
    <3>. QED
      BY <1>5, <2>1, <3>1, <3>2, SoundsStay DEF WriteTemp
  <2>. QED
    BY <1>5, <2>2, <2>3 DEF WriteTemp
<1>6. CASE RenameTemp
  <2>1. /\ request.step = "rename" /\ request.op # "persist"
        /\ request.op \in {"seed", "upload", "select"} /\ request.name \in Sounds
        /\ request.temp = request.sound /\ request.temp \in Content
        /\ request.op = "seed" => request.temp = file["ring.wav"]
        /\ request.op = "select" => request.temp = file[request.name]
    BY <1>0, <1>6 DEF RenameTemp, SoundsInv, Honest, Copies, Requests
  <2>2. CASE request' = Failed /\ UNCHANGED <<file, excused>>
    <3>1. Copies'
      BY <2>2, Over DEF Copies
    <3>. QED
      BY <1>6, <2>1, <2>2, <3>1, Over, SoundsStay DEF RenameTemp
  <2>3. CASE /\ file' = [file EXCEPT ![Target] = request.temp]
             /\ excused' = (excused \/ (request.op = "upload" /\ request.name = selected))
             /\ request' = Renamed
    <3>1. UNCHANGED <<disk, selected, selectedDisk>>
      BY <1>6 DEF RenameTemp
    <3>2. Target \in Files
      BY <1>0, <2>1 DEF Target
    <3>3. /\ file' \in [Files -> Content] /\ file'[Target] = request.temp
          /\ \A f \in Files : f # Target => file'[f] = file[f]
      BY <1>0, <2>1, <2>3, <3>2
    <3>4. excused' \in BOOLEAN
      BY <1>0, <2>3
    <3>5. CASE request.op = "select"
      <4>1. request' = NotWriting("persist", request.name) /\ Target = "ring.wav"
        BY <2>3, <3>5 DEF Renamed, Target
      <4>2. /\ request' \in Requests /\ request'.op = "persist" /\ request'.step = "none"
            /\ request'.name = request.name
        BY <2>1, <4>1, RequestsMade
      <4>3. file'[request.name] = file'["ring.wav"]
        BY <1>0, <2>1, <3>3, <3>5, <4>1
      <4>4. Honest' /\ Copies'
        BY <2>1, <4>2, <4>3 DEF Honest, Copies
      <4>. QED
        BY <1>0, <3>1, <3>3, <3>4, <4>2, <4>4 DEF SoundsInv, SoundsTypeOK, Requests, Content
    <3>6. CASE request.op # "select"
      <4>1. request' = Failed /\ Target = request.name
        BY <2>3, <3>6 DEF Renamed, Target
      <4>2. request' \in Requests /\ request'.op # "persist" /\ request'.step = "none"
        BY <4>1, Over
      <4>3. ASSUME selected # NoName, ~excused' PROVE file'[selected] = file'["ring.wav"]
        <5>1. ~excused /\ selected \in Sounds /\ file[selected] = file["ring.wav"]
          BY <1>0, <2>1, <2>3, <4>3 DEF SoundsInv, Honest
        <5>2. file'["ring.wav"] = file["ring.wav"]
          BY <1>0, <2>1, <3>3, <4>1
        <5>3. CASE selected # request.name
          BY <1>0, <3>3, <4>1, <5>1, <5>2, <5>3
        <5>4. CASE selected = request.name
          <6>1. request.op = "seed"
            BY <2>1, <2>3, <3>6, <4>3, <5>4
          <6>. QED
            BY <2>1, <3>3, <4>1, <5>2, <5>4, <6>1
        <5>. QED
          BY <5>3, <5>4
      <4>4. Honest' /\ Copies'
        BY <3>1, <4>2, <4>3 DEF Honest, Copies
      <4>. QED
        BY <1>0, <3>1, <3>3, <3>4, <4>2, <4>4 DEF SoundsInv, SoundsTypeOK, Requests, Content
    <3>. QED
      BY <3>5, <3>6
  <2>. QED
    BY <1>6, <2>2, <2>3 DEF RenameTemp
<1>7. CASE PersistSelection
  <2>1. /\ request.op = "persist" /\ request.name \in Sounds /\ request' = Idle
        /\ file[request.name] = file["ring.wav"] /\ UNCHANGED <<file, disk, selectedDisk>>
        /\ (selected' = request.name /\ excused' = FALSE) \/ (selected' = selected /\ excused' = TRUE)
    BY <1>7 DEF PersistSelection, SoundsInv, Honest
  <2>2. Honest' /\ Copies'
    BY <2>1, Over DEF Honest, Copies
  <2>3. excused' \in BOOLEAN /\ selected' \in Sounds \cup {NoName}
    BY <1>0, <2>1
  <2>. QED
    BY <1>0, <2>1, <2>2, <2>3, Over DEF SoundsInv, SoundsTypeOK, Requests, Content
<1>8. CASE WebdEnds
  <2>1. /\ request' = Idle /\ excused' = (excused \/ request.op = "persist")
        /\ UNCHANGED <<file, disk, selected, selectedDisk>>
    BY <1>8 DEF WebdEnds
  <2>2. excused' \in BOOLEAN
    BY <2>1
  <2>3. Honest' /\ Copies'
    BY <2>1, Over DEF SoundsInv, Honest, Copies
  <2>. QED
    BY <1>0, <2>1, <2>2, <2>3, Over DEF SoundsInv, SoundsTypeOK, Requests, Content
<1>9. CASE SoundsWriteBack
  <2>1. /\ disk' \in [Files -> Content] /\ selectedDisk' \in Sounds \cup {NoName}
        /\ UNCHANGED <<file, selected, request, excused>>
    BY <1>0, <1>9 DEF SoundsWriteBack
  <2>2. Honest' /\ Copies'
    BY <2>1 DEF SoundsInv, Honest, Copies
  <2>. QED
    BY <1>0, <2>1, <2>2 DEF SoundsInv, SoundsTypeOK, Requests, Content
<1>10. CASE SoundsPowerCut
  <2>1. file' \in [Files -> Content] /\ disk' \in [Files -> Content]
    BY <1>0, <1>10 DEF SoundsPowerCut, Content
  <2>2. file = disk => file' = file
    BY <1>0, <1>10, <2>1 DEF SoundsPowerCut
  <2>3. /\ selected' \in Sounds \cup {NoName} /\ selectedDisk' \in Sounds \cup {NoName}
        /\ selected = selectedDisk => selected' = selected
        /\ request' = Idle
        /\ excused' = (excused \/ request.op = "persist" \/ file # disk
                         \/ selected # selectedDisk)
    BY <1>0, <1>10 DEF SoundsPowerCut
  <2>4. excused' \in BOOLEAN
    BY <2>3
  <2>5. Honest' /\ Copies'
    BY <2>2, <2>3, Over DEF SoundsInv, Honest, Copies
  <2>. QED
    BY <2>1, <2>3, <2>4, <2>5, Over DEF SoundsInv, SoundsTypeOK, Requests, Content
<1>11. CASE FirmwareBoot
  <2>1. PICK c \in Recordings : file' = [file EXCEPT !["ring.wav"] = c]
    BY <1>11 DEF FirmwareBoot
  <2>2. file' \in [Files -> Content] /\ disk' \in [Files -> Content]
    BY <1>0, <1>11, <2>1 DEF FirmwareBoot, Content
  <2>3. request' = Idle /\ excused' = TRUE /\ UNCHANGED <<selected, selectedDisk>>
    BY <1>11 DEF FirmwareBoot
  <2>4. Honest' /\ Copies'
    BY <2>3, Over DEF Honest, Copies
  <2>. QED
    BY <1>0, <2>2, <2>3, <2>4, Over DEF SoundsInv, SoundsTypeOK, Requests, Content
<1>12. CASE UNCHANGED soundVars
  BY <1>12 DEF soundVars, SoundsInv, SoundsTypeOK, Copies, Honest
<1>. QED
  BY <1>1, <1>2, <1>3, <1>4, <1>5, <1>6, <1>7, <1>8, <1>9, <1>10, <1>11, <1>12 DEF SoundsNext

(* For any sounds, names and recordings: the sound selected.txt names is   *)
(* the one the chime plays, unless one of the listed causes lies between.  *)
THEOREM SelectionAlwaysHonest == Spec => []SelectionHonest
<1>1. Init => SoundsInv
  BY SoundsInitial DEF Init
<1>2. SoundsInv /\ [Next]_vars => SoundsInv'
  BY SoundsStep, StoresApart
<1>3. SoundsInv => SelectionHonest
  BY Over DEF SoundsInv, Honest, SelectionHonest
<1>. QED
  BY <1>1, <1>2, <1>3, PTL DEF Spec

(* Only a power cut tears a sound: what is renamed was written as a whole, *)
(* and is an upload or a copy of a file that is there.                     *)
LEMMA TornStep ==
  ASSUME SoundsInv, [SoundsNext]_soundVars, NEW f \in Files, file'[f] = Torn
  PROVE  SoundsPowerCut \/ \E g \in Files : file[g] = Torn
<1>0. /\ file \in [Files -> Content] /\ request \in Requests
      /\ Files = Sounds \cup {"ring.wav"} /\ Torn \notin Recordings
  BY SoundsAssumption DEF SoundsInv, SoundsTypeOK, Requests, Content, Files
<1>1. CASE UNCHANGED file
  BY <1>1
<1>2. CASE RenameTemp
  <2>1. /\ request.op \in {"seed", "upload", "select"} /\ request.name \in Sounds
        /\ request.temp = request.sound
        /\ request.op = "upload" => request.sound \in Recordings
        /\ request.op = "seed" => request.sound = file["ring.wav"]
        /\ request.op = "select" => request.sound = file[request.name]
    BY <1>2 DEF RenameTemp, SoundsInv, Copies
  <2>2. CASE file' = [file EXCEPT ![Target] = request.temp]
    <3>1. file'[f] = file[f] \/ file'[f] = request.temp
      BY <1>0, <2>2
    <3>. QED
      BY <1>0, <2>1, <3>1
  <2>. QED
    BY <1>1, <1>2, <2>2 DEF RenameTemp
<1>3. CASE FirmwareBoot
  <2>1. PICK c \in Recordings : file' = [file EXCEPT !["ring.wav"] = c]
    BY <1>3 DEF FirmwareBoot
  <2>2. file'[f] = file[f] \/ file'[f] = c
    BY <1>0, <2>1
  <2>. QED
    BY <1>0, <2>1, <2>2
<1>. QED
  BY <1>1, <1>2, <1>3
     DEF SoundsNext, TrySeedDefaultRingSound, HandleGetRingSounds, HandleUploadRingSound,
         HandleSelectRingSound, WriteTemp, PersistSelection, WebdEnds, SoundsWriteBack, soundVars

(* For any sounds: no request, failing write, failing rename or webd that  *)
(* ends leaves half a sound where the chime daemon reads it.               *)
THEOREM OnlyCutsTear == Spec => TornOnlyByCut
<1>1. Init => SoundsInv
  BY SoundsInitial DEF Init
<1>2. SoundsInv /\ [Next]_vars => SoundsInv'
  BY SoundsStep, StoresApart
<1>3. SoundsInv /\ [Next]_vars =>
        [ (\E f \in Files : file'[f] = Torn) =>
            SoundsPowerCut \/ \E g \in Files : file[g] = Torn ]_soundVars
  BY TornStep, StoresApart
<1>. QED
  BY <1>1, <1>2, <1>3, PTL DEF Spec, TornOnlyByCut

=============================================================================
