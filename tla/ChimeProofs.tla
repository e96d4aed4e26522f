----------------------------- MODULE ChimeProofs -----------------------------
(***************************************************************************)
(* Proofs about the audio player, and about the chime daemon that drives   *)
(* it.  The player is proved alone; the daemon is shown to use it as its   *)
(* specification says, so what holds of the player holds in the daemon.    *)
(***************************************************************************)
EXTENDS ChimeProperties, TLAPS

-----------------------------------------------------------------------------
(* The audio player. *)

PlayerInv ==
  PlayerTypeOK /\ FlagMeansSound /\ ThreadHandedOver /\ TempIsOwned

(* Every step of the player keeps its invariant. *)
LEMMA PlayerStep ==
  PlayerInv /\ [PlayerNext]_playerVars => PlayerInv'
<1> USE DEF PlayerInv, PlayerTypeOK, FlagMeansSound, ThreadHandedOver,
            TempIsOwned, Playing, Sounding, Joinable
<1> SUFFICES ASSUME PlayerInv, [PlayerNext]_playerVars PROVE PlayerInv'
  OBVIOUS
<1>1. ASSUME NEW s \in Sounds, Play(s) PROVE PlayerInv'
  BY <1>1 DEF Play
<1>2. CASE PlayMissing
  BY <1>2 DEF PlayMissing
<1>3. CASE PlayFound
  BY <1>3 DEF PlayFound
<1>4. CASE PlayJoin
  BY <1>4 DEF PlayJoin
<1>5. CASE PlaySpawn
  BY <1>5 DEF PlaySpawn
<1>6. CASE PlaySpawnFails
  BY <1>6 DEF PlaySpawnFails
<1>7. CASE Destroy
  BY <1>7 DEF Destroy
<1>8. CASE DestroyJoin
  BY <1>8 DEF DestroyJoin
<1>9. CASE SetVolume
  BY <1>9 DEF SetVolume
<1>10. CASE ThreadThrows
  BY <1>10 DEF ThreadThrows
<1>11. CASE Aplay
  BY <1>11 DEF Aplay
<1>12. CASE RemoveTemp
  BY <1>12 DEF RemoveTemp
<1>13. CASE StorePlaying
  BY <1>13 DEF StorePlaying
<1>14. CASE ThreadExit
  BY <1>14 DEF ThreadExit
<1>15. CASE UNCHANGED playerVars
  BY <1>15 DEF playerVars
<1>. QED
  BY <1>1, <1>2, <1>3, <1>4, <1>5, <1>6, <1>7, <1>8, <1>9, <1>10, <1>11,
     <1>12, <1>13, <1>14, <1>15 DEF PlayerNext, CallStep, ThreadStep

(* The player keeps its promises, for whatever sounds it is asked for: the *)
(* flag is set exactly while a sound is being started or played, Play      *)
(* never waits for a sound, and no copy of a sound outlives its thread.    *)
THEOREM PlayerCorrect ==
  PlayerSpec => [](FlagMeansSound /\ ThreadHandedOver /\ TempIsOwned)
<1>1. PlayerInit => PlayerInv
  BY DEF PlayerInit, PlayerInv, PlayerTypeOK, FlagMeansSound, ThreadHandedOver,
         TempIsOwned, Playing, Sounding, Joinable
<1>2. PlayerInv => FlagMeansSound /\ ThreadHandedOver /\ TempIsOwned
  BY DEF PlayerInv
<1>. QED
  BY <1>1, <1>2, PlayerStep, PTL DEF PlayerSpec

-----------------------------------------------------------------------------
(* The daemon. *)

(* A step of the daemon is a step of the player, or leaves it alone.       *)
LEMMA DrivesPlayer ==
  [Next]_vars => [PlayerNext]_playerVars
<1> SUFFICES ASSUME [Next]_vars PROVE [PlayerNext]_playerVars
  OBVIOUS
<1> USE ChimeAssumption DEF PlayerNext
<1>1. CASE Connect \/ Reconnect \/ Top \/ LoopIdle \/ OnConnect \/ OnDisconnect
             \/ LoopNoConnection \/ AfterLoop \/ Shutdown
  BY <1>1 DEF Connect, Reconnect, Top, LoopIdle, OnConnect, OnDisconnect,
              LoopNoConnection, AfterLoop, Shutdown
<1>2. ASSUME NEW topic \in Topics, OnMessage(topic) PROVE [PlayerNext]_playerVars
  BY <1>2 DEF OnMessage
<1>3. ASSUME NEW wifi \in WifiStates, Tick(wifi) PROVE [PlayerNext]_playerVars
  BY <1>3 DEF Tick, Verdict
<1>4. CASE Exit \/ PlayStep \/ Playback
  BY <1>4 DEF Exit, PlayStep, Playback
<1>5. ASSUME NEW sig, Signal(sig) PROVE [PlayerNext]_playerVars
  BY <1>5 DEF Signal
<1>6. CASE BrokerChanges \/ Second \/ UNCHANGED vars
  BY <1>6 DEF BrokerChanges, Second, vars
<1>. QED
  BY <1>1, <1>2, <1>3, <1>4, <1>5, <1>6 DEF Next, Main, World

(* The daemon uses the player as the player's specification demands.       *)
THEOREM ImplementsPlayer == Spec => PlayerSpec
<1>1. Init => PlayerInit
  BY DEF Init
<1>. QED
  BY <1>1, DrivesPlayer, PTL DEF Spec, PlayerSpec

PCs == {"connect", "top", "loop", "looped", "reconnect", "tick", "shutdown", "exit"}

(* The part of the daemon's state its connection depends on is well typed. *)
LinkTypes ==
  /\ pc \in PCs
  /\ rc_ok \in BOOLEAN
  /\ mqtt_connected \in BOOLEAN
  /\ link \in {"none", "handshake", "up"}

(* A loop that failed has cleared mqtt_connected_. *)
ErrorMeansDisconnected ==
  pc \in {"connect", "reconnect"} \/ (pc = "looped" /\ ~rc_ok) => ~mqtt_connected

(* The destructor runs at the end, over a closed socket. *)
DestroyedLast ==
  /\ pc \in {"connect", "exit"} => link = "none"
  /\ call \in {"dtor", "gone"} => pc = "exit"
  /\ call = "gone" => thread = "none"

ServiceInv ==
  LinkTypes /\ PlayerInv /\ SessionSubscribed /\ ErrorMeansDisconnected /\ DestroyedLast

(* The invariant of the daemon survives each of its steps. *)
LEMMA ServiceStep ==
  ServiceInv /\ [Next]_vars => ServiceInv'
<1> SUFFICES ASSUME ServiceInv, [Next]_vars PROVE ServiceInv'
  OBVIOUS
<1> DEFINE Rest == LinkTypes /\ SessionSubscribed /\ ErrorMeansDisconnected /\ DestroyedLast
<1>1. PlayerInv'
  BY DrivesPlayer, PlayerStep DEF ServiceInv
<1>2. Rest'
  <2> USE DEF ServiceInv, LinkTypes, PCs, SessionSubscribed, ErrorMeansDisconnected,
              DestroyedLast, At, Looped, playerVars, netVars, tickVars
  <2>1. CASE Connect
    BY <2>1 DEF Connect
  <2>2. CASE Reconnect
    BY <2>2 DEF Reconnect
  <2>3. CASE Top
    BY <2>3 DEF Top
  <2>4. CASE LoopIdle
    BY <2>4 DEF LoopIdle
  <2>5. CASE OnConnect
    BY <2>5 DEF OnConnect
  <2>6. CASE OnDisconnect
    BY <2>6 DEF OnDisconnect
  <2>7. CASE LoopNoConnection
    BY <2>7 DEF LoopNoConnection
  <2>8. ASSUME NEW topic \in Topics, OnMessage(topic) PROVE Rest'
    BY <2>8 DEF OnMessage, Play
  <2>9. CASE AfterLoop
    BY <2>9 DEF AfterLoop
  <2>10. ASSUME NEW wifi \in WifiStates, Tick(wifi) PROVE Rest'
    <3> DEFINE verdict == IF announced = "nothing" THEN Verdict(wifi) ELSE "nothing"
    <3>1. UNCHANGED playerVars \/ Play(verdict)
      BY <2>10 DEF Tick
    <3>2. call' # "dtor" /\ call' # "gone" /\ thread' = thread
      BY <3>1, <2>10 DEF Tick, Play
    <3>3. pc = "tick" /\ pc' = "top" /\ UNCHANGED <<rc_ok, mqtt_connected, link, subs>>
      BY <2>10 DEF Tick
    <3>. QED
      BY <3>2, <3>3
  <2>11. CASE Shutdown
    BY <2>11 DEF Shutdown
  <2>12. CASE Exit
    BY <2>12 DEF Exit, Destroy
  <2>13. CASE PlayStep
    BY <2>13 DEF PlayStep, CallStep, PlayMissing, PlayFound, PlayJoin, PlaySpawn,
                 PlaySpawnFails, DestroyJoin
  <2>14. CASE Playback
    BY <2>14 DEF Playback, ThreadStep, SetVolume, ThreadThrows, Aplay, RemoveTemp,
                 StorePlaying, ThreadExit
  <2>15. ASSUME NEW sig, Signal(sig) PROVE Rest'
    BY <2>15 DEF Signal
  <2>16. CASE BrokerChanges \/ Second
    BY <2>16 DEF BrokerChanges, Second
  <2>17. CASE UNCHANGED vars
    BY <2>17 DEF vars
  <2>. QED
    BY <2>1, <2>2, <2>3, <2>4, <2>5, <2>6, <2>7, <2>8, <2>9, <2>10, <2>11, <2>12,
       <2>13, <2>14, <2>15, <2>16, <2>17 DEF Next, Main, World
<1>. QED
  BY <1>1, <1>2 DEF ServiceInv

\* A started daemon has no player thread, no session and nothing to leave.
LEMMA ServiceInit == Init => ServiceInv
  BY DEF Init, PlayerInit, ServiceInv, LinkTypes, PCs, PlayerInv, PlayerTypeOK,
         FlagMeansSound, ThreadHandedOver, TempIsOwned, Playing, Sounding,
         Joinable, SessionSubscribed, ErrorMeansDisconnected, DestroyedLast

(* For any topics, intervals and sounds: whenever the service takes itself *)
(* for connected, the session is up and has asked for every topic again.   *)
THEOREM AlwaysSubscribed == Spec => []SessionSubscribed
<1>1. ServiceInv => SessionSubscribed
  BY DEF ServiceInv
<1>. QED
  BY <1>1, ServiceInit, ServiceStep, PTL DEF Spec

(* Whatever becomes of aplay, a scaled copy of a sound belongs to a thread *)
(* that will remove it; and the daemon ends with no thread, no copy and no *)
(* socket left behind.                                                     *)
THEOREM LeavesNothing == Spec => []NothingLeaks
<1>1. ServiceInv => NothingLeaks
  BY DEF ServiceInv, DestroyedLast, PlayerInv, TempIsOwned, NothingLeaks
<1>. QED
  BY <1>1, ServiceInit, ServiceStep, PTL DEF Spec

(* However Play, the thread of a sound and the main loop interleave: Play  *)
(* is in its critical part only while no sound is being made, so it joins  *)
(* a thread that has ended and starts one where there is none.             *)
THEOREM NeverWaitsForSound == Spec => []ThreadHandedOver
<1>1. ServiceInv => ThreadHandedOver
  BY DEF ServiceInv, PlayerInv
<1>. QED
  BY <1>1, ServiceInit, ServiceStep, PTL DEF Spec
=============================================================================
