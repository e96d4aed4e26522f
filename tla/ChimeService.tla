---------------------------- MODULE ChimeService ----------------------------
(***************************************************************************)
(* The chime daemon: ChimeService::Run with its MQTT callbacks, the        *)
(* libmosquitto client, the stop signals, and the audio player it owns     *)
(* (AplayAudioPlayer, whose variables and actions this module adds to).    *)
(*                                                                         *)
(* One thread runs the main loop; Loop calls the MQTT callbacks, and Play, *)
(* on that thread.  The playback thread, the broker, the passing of time   *)
(* and the signals interleave with it.  Times are counters that stop at    *)
(* their limit.  The health log, the periodic Wi-Fi log and the observed   *)
(* topics touch none of this state.                                        *)
(***************************************************************************)
EXTENDS AplayAudioPlayer, Naturals

CONSTANTS Topics,       \* config_.topics, the filters subscribed to
          BadTopics,    \* those mosquitto_subscribe refuses
          RingTopics,   \* those ring_topic matches
          audio_enabled,
          HEARTBEAT,    \* heartbeat_interval, 0 when disabled
          TIMEOUT,      \* kStartupNotificationTimeoutSeconds
          UNKNOWN,      \* kStartupUnknownWifiTimeoutSeconds
          NotYet        \* startup_unknown_wifi_begin has no value

ASSUME ChimeAssumption ==
  /\ Sounds = {"ring", "success", "failure"}
  /\ BadTopics \subseteq Topics /\ RingTopics \subseteq Topics
  /\ audio_enabled \in BOOLEAN
  /\ HEARTBEAT \in Nat /\ TIMEOUT \in Nat /\ UNKNOWN \in Nat \ {0}
  /\ NotYet \notin Nat

VARIABLES pc,             \* where Run is
          rc_ok,          \* the last Loop returned MOSQ_ERR_SUCCESS
          stop,           \* g_should_stop
          mqtt_connected, \* mqtt_connected_
          link,           \* the client's socket: none, handshake or up
          subs,           \* subscriptions asked for in this (clean) session
          broker,         \* the broker is reachable and accepts this client
          reported,       \* payload of the last heartbeat published
          announced,      \* the startup notification given
          clock           \* seconds since start, since the last heartbeat,
                          \* and since the Wi-Fi state was first unknown

netVars == <<mqtt_connected, link, subs>>
tickVars == <<reported, announced, clock>>
vars == <<playerVars, pc, rc_ok, stop, netVars, broker, tickVars>>

Clocks == [startup: 0..TIMEOUT, beat: 0..HEARTBEAT, unknown: 0..UNKNOWN \cup {NotYet}]

(* The main thread is not inside Play. *)
At(l) == pc = l /\ call = "idle"

Init ==
  /\ PlayerInit
  /\ pc = "connect"
  /\ rc_ok = TRUE
  /\ stop = FALSE
  /\ mqtt_connected = FALSE
  /\ link = "none"
  /\ subs = {}
  /\ broker \in BOOLEAN
  /\ reported = "nothing"
  /\ announced = IF audio_enabled THEN "nothing" ELSE "off"
  /\ clock = [startup |-> 0, beat |-> 0, unknown |-> NotYet]

-----------------------------------------------------------------------------
(* Connecting. mosquitto_connect and mosquitto_reconnect open the socket   *)
(* and send CONNECT; a first attempt that fails ends the process.          *)

Connect ==
  /\ At("connect")
  /\ \/ /\ broker
        /\ link' = "handshake"
        /\ pc' = "top"
     \/ /\ UNCHANGED link
        /\ pc' = "exit"
  /\ UNCHANGED <<playerVars, rc_ok, stop, mqtt_connected, subs, broker, tickVars>>

(* mutant: retries in place until the broker answers *)
ReconnectRetries ==
  /\ At("reconnect")
  /\ link' = IF broker THEN "handshake" ELSE "none"
  /\ subs' = {}
  /\ pc' = IF broker THEN "tick" ELSE "reconnect"
  /\ UNCHANGED <<playerVars, rc_ok, stop, mqtt_connected, broker, tickVars>>

(* The sleep of kReconnectDelaySeconds and Reconnect. *)
Reconnect ==
  /\ At("reconnect")
  /\ link' = IF broker THEN "handshake" ELSE "none"
  /\ subs' = {}
  /\ pc' = "tick"
  /\ UNCHANGED <<playerVars, rc_ok, stop, mqtt_connected, broker, tickVars>>

-----------------------------------------------------------------------------
(* The head of the loop, and the callbacks Loop runs. *)

Top ==
  /\ At("top")
  /\ pc' = IF stop THEN "shutdown" ELSE "loop"
  /\ UNCHANGED <<playerVars, rc_ok, stop, netVars, broker, tickVars>>

Looped(ok) ==
  /\ At("loop")
  /\ pc' = "looped"
  /\ rc_ok' = ok

(* 100 ms without a packet, or with one that calls nothing back. *)
LoopIdle ==
  /\ Looped(TRUE)
  /\ link # "none"
  /\ UNCHANGED <<playerVars, stop, netVars, broker, tickVars>>

(* mutant: the subscriptions are made once, not once per session *)
OnConnectOnce ==
  /\ Looped(TRUE)
  /\ link = "handshake" /\ broker
  /\ link' = "up"
  /\ mqtt_connected' = TRUE
  /\ subs' = IF reported = "nothing" THEN Topics \ BadTopics ELSE subs
  /\ UNCHANGED <<playerVars, stop, broker, tickVars>>

OnConnect ==
  /\ Looped(TRUE)
  /\ link = "handshake" /\ broker
  /\ link' = "up"
  /\ mqtt_connected' = TRUE
  /\ subs' = Topics \ BadTopics
  /\ UNCHANGED <<playerVars, stop, broker, tickVars>>

(* mutant: a lost connection is logged, the flag stays *)
OnDisconnectKeepsFlag ==
  /\ Looped(FALSE)
  /\ link # "none" /\ ~broker
  /\ link' = "none"
  /\ subs' = {}
  /\ UNCHANGED <<playerVars, stop, mqtt_connected, broker, tickVars>>

(* The connection breaks or the broker refuses it: OnConnect with an error *)
(* if it answered at all, then OnDisconnect; the library closes the socket.*)
OnDisconnect ==
  /\ Looped(FALSE)
  /\ link # "none" /\ ~broker
  /\ link' = "none"
  /\ mqtt_connected' = FALSE
  /\ subs' = {}
  /\ UNCHANGED <<playerVars, stop, broker, tickVars>>

LoopNoConnection ==
  /\ Looped(FALSE)
  /\ link = "none"
  /\ UNCHANGED <<playerVars, stop, netVars, broker, tickVars>>

OnMessage(topic) ==
  /\ Looped(TRUE)
  /\ link = "up" /\ topic \in subs
  /\ IF audio_enabled /\ topic \in RingTopics
     THEN Play("ring")
     ELSE UNCHANGED playerVars
  /\ UNCHANGED <<stop, netVars, broker, tickVars>>

AfterLoop ==
  /\ At("looped")
  /\ pc' = IF stop THEN "shutdown" ELSE IF rc_ok THEN "tick" ELSE "reconnect"
  /\ UNCHANGED <<playerVars, rc_ok, stop, netVars, broker, tickVars>>

-----------------------------------------------------------------------------
(* The rest of an iteration: heartbeat and startup notification. *)

(* mutant: heartbeats are sent by the startup checks only *)
BeatDuringStartup == HEARTBEAT > 0 /\ clock.beat >= HEARTBEAT /\ announced = "nothing"

BeatDue == HEARTBEAT > 0 /\ clock.beat >= HEARTBEAT

Payload == IF mqtt_connected THEN "alive" ELSE "degraded"

WifiStates == {"connected", "down", "unknown"}

UnknownFor(wifi) ==
  IF wifi = "unknown" /\ clock.startup >= TIMEOUT /\ clock.unknown = NotYet
  THEN 0 ELSE clock.unknown

(* mutant: the timer for an unknown state starts over at every look *)
VerdictNeverSure(wifi) ==
  CASE wifi = "connected" /\ mqtt_connected -> "success"
    [] clock.startup < TIMEOUT \/ wifi = "unknown" -> "nothing"
    [] OTHER -> "failure"

(* What the startup checks find: success, failure, or nothing yet. *)
Verdict(wifi) ==
  CASE wifi = "connected" /\ mqtt_connected -> "success"
    [] \/ clock.startup < TIMEOUT
       \/ wifi = "unknown" /\ UnknownFor(wifi) < UNKNOWN -> "nothing"
    [] OTHER -> "failure"

Tick(wifi) ==
  LET verdict == IF announced = "nothing" THEN Verdict(wifi) ELSE "nothing" IN
  /\ At("tick")
  /\ pc' = "top"
  /\ reported' = IF BeatDue /\ link # "none" THEN Payload ELSE reported
  /\ clock' = [startup |-> clock.startup,
               beat    |-> IF BeatDue THEN 0 ELSE clock.beat,
               unknown |-> IF announced = "nothing" THEN UnknownFor(wifi) ELSE clock.unknown]
  /\ IF verdict = "nothing"
     THEN UNCHANGED <<playerVars, announced>>
     ELSE announced' = verdict /\ Play(verdict)
  /\ UNCHANGED <<rc_ok, stop, netVars, broker>>

-----------------------------------------------------------------------------
(* Shutdown: Disconnect, then main's locals are destroyed. *)

Shutdown ==
  /\ At("shutdown")
  /\ link' = "none"
  /\ pc' = "exit"
  /\ UNCHANGED <<playerVars, rc_ok, stop, mqtt_connected, subs, broker, tickVars>>

Exit ==
  /\ pc = "exit"
  /\ Destroy
  /\ UNCHANGED <<pc, rc_ok, stop, netVars, broker, tickVars>>

PlayStep ==
  /\ CallStep
  /\ UNCHANGED <<pc, rc_ok, stop, netVars, broker, tickVars>>

-----------------------------------------------------------------------------
(* The rest of the world. *)

Playback ==
  /\ ThreadStep
  /\ UNCHANGED <<pc, rc_ok, stop, netVars, broker, tickVars>>

(* While amixer or aplay runs, system(3) has the process ignore SIGINT.    *)
Signal(sig) ==
  /\ sig = "SIGINT" => thread \notin {"volume", "aplay"}
  /\ stop' = TRUE
  /\ UNCHANGED <<playerVars, pc, rc_ok, netVars, broker, tickVars>>

BrokerChanges ==
  /\ broker' = ~broker
  /\ UNCHANGED <<playerVars, pc, rc_ok, stop, netVars, tickVars>>

Later(t, limit) == IF t < limit THEN t + 1 ELSE t

Second ==
  /\ pc # "exit"
  /\ clock' = [startup |-> Later(clock.startup, TIMEOUT),
               beat    |-> Later(clock.beat, HEARTBEAT),
               unknown |-> IF clock.unknown = NotYet THEN NotYet
                           ELSE Later(clock.unknown, UNKNOWN)]
  /\ UNCHANGED <<playerVars, pc, rc_ok, stop, netVars, broker, reported, announced>>

-----------------------------------------------------------------------------
Main ==
  \/ Connect \/ Reconnect \/ Top
  \/ LoopIdle \/ OnConnect \/ OnDisconnect \/ LoopNoConnection
  \/ \E topic \in Topics : OnMessage(topic)
  \/ AfterLoop
  \/ \E wifi \in WifiStates : Tick(wifi)
  \/ Shutdown \/ Exit \/ PlayStep

World == Playback \/ BrokerChanges \/ Second \/ \E sig \in {"SIGINT", "SIGTERM"} : Signal(sig)

Next == Main \/ World

Spec == Init /\ [][Next]_vars

(* Every call of the main loop returns, amixer and aplay end, time passes, *)
(* and a broker that accepts the client answers CONNECT some day.          *)
Fairness ==
  /\ WF_vars(Main)
  /\ WF_vars(Playback)
  /\ WF_vars(Second)
  /\ SF_vars(OnConnect)

FairSpec == Spec /\ Fairness
=============================================================================
