-------------------------- MODULE ChimeProperties --------------------------
(***************************************************************************)
(* What the chime daemon must keep true while the main loop, the playback  *)
(* thread, the broker and the signals interleave.                          *)
(***************************************************************************)
EXTENDS ChimeService

(* Every variable stays in its range. *)
TypeOK ==
  /\ PlayerTypeOK
  /\ pc \in {"connect", "top", "loop", "looped", "reconnect", "tick", "shutdown", "exit"}
  /\ rc_ok \in BOOLEAN /\ stop \in BOOLEAN /\ broker \in BOOLEAN
  /\ mqtt_connected \in BOOLEAN
  /\ link \in {"none", "handshake", "up"}
  /\ subs \subseteq Topics
  /\ reported \in {"nothing", "alive", "degraded"}
  /\ announced \in {"off", "nothing", "success", "failure"}
  /\ clock \in Clocks

(* Whenever the service takes itself for connected, its session is up and  *)
(* has asked for every topic: clean sessions forget their subscriptions,   *)
(* so each CONNACK has to bring all of them back (OnConnect).              *)
SessionSubscribed ==
  mqtt_connected /\ pc # "exit" => link = "up" /\ subs = Topics \ BadTopics

(* A scaled copy of a sound exists only while the thread that will remove  *)
(* it runs, and a ring plays to its end before the daemon is gone: that    *)
(* leaves no thread, no copy and no socket (PlaybackThreadCleanup, Run and *)
(* the destructors).                                                       *)
NothingLeaks ==
  /\ TempIsOwned
  /\ call = "gone" => thread = "none" /\ ~temp /\ link = "none"

(* The service has been told to stop, or has ended. *)
Over == stop \/ pc = "exit"

(* However often the connection is lost, a broker that stays up gets the   *)
(* service back for good, unless it is stopped or its first attempt        *)
(* failed; and the last heartbeat it hears says "alive", although those    *)
(* that fall due during an outage are lost or say "degraded".              *)
Recovers ==
  <>[]broker =>
    <>[](Over \/ (mqtt_connected /\ (HEARTBEAT > 0 => reported = "alive")))

(* The startup notification is given some day, whatever the Wi-Fi monitor  *)
(* and the broker do, unless the service is stopped or could not start.    *)
StartupAnnounced == <>(announced # "nothing" \/ Over)

(* A stop request that is not ignored ends the process: neither a ring nor *)
(* an outage holds the main loop for ever.                                 *)
Stops == stop ~> call = "gone"

(* Sounds do not lock each other out: the player is free again and again.  *)
PlayerFree == []<>~playing

=============================================================================
