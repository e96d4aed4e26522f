------------------------------- MODULE Storage -------------------------------
(***************************************************************************)
(* What the daemons keep in files next to the two configurations: the      *)
(* observed topics, the ring sounds, and webd's key and certificate.  They *)
(* share no variable, so a behaviour of the device interleaves one of      *)
(* each: the specification follows any one of them, chosen at the start.   *)
(***************************************************************************)
EXTENDS ObservedTopics, RingSounds, TlsMaterial

VARIABLE store

vars == <<topicVars, soundVars, tlsVars, store>>

Init ==
  /\ TopicsInit /\ SoundsInit /\ TlsInit
  /\ store \in {"topics", "sounds", "tls"}

Starting == store = "tls" /\ StartStep /\ UNCHANGED <<topicVars, soundVars, store>>

Next ==
  \/ store = "topics" /\ TopicsNext /\ UNCHANGED <<soundVars, tlsVars, store>>
  \/ store = "sounds" /\ SoundsNext /\ UNCHANGED <<topicVars, tlsVars, store>>
  \/ store = "tls" /\ TlsNext /\ UNCHANGED <<topicVars, soundVars, store>>

Spec == Init /\ [][Next]_vars /\ WF_vars(Starting)

-----------------------------------------------------------------------------
(* Once the faults stop webd serves, unless they left both TLS files there *)
(* and one of them unusable: EnsureTlsMaterial then makes no new ones, and *)
(* every start fails (web_server.cpp:1610-1614, 675-684).                  *)
ServesUnlessDamaged ==
  <>[][~TlsFault]_tlsVars => []<>(start = "up" \/ Damaged \/ store # "tls")

=============================================================================
