-------------------------- MODULE AplayAudioPlayer --------------------------
(***************************************************************************)
(* The audio player of the chime: AplayAudioPlayer.  Play claims the       *)
(* playing_ flag, joins the previous playback thread and starts a new one, *)
(* which sets the volume, runs aplay and, in the destructor of its         *)
(* PlaybackThreadCleanup, removes the scaled copy of the sound and clears  *)
(* the flag.  One thread, the main loop, calls Play.                       *)
(***************************************************************************)

CONSTANT Sounds     \* the sounds the caller asks for

VARIABLES playing,  \* playing_
          call,     \* where the caller is in Play or in the destructor
          request,  \* the sound the caller asked for
          thread,   \* where the thread owned by playback_thread_ is
          sound,    \* the sound that thread was started with
          temp      \* a scaled copy of the sound exists in /tmp

playerVars == <<playing, call, request, thread, sound, temp>>

Playing == {"check", "join", "spawn"}             \* inside Play, flag claimed
Sounding == {"volume", "aplay", "remove", "store"} \* thread before its store(false)
Joinable == Sounding \cup {"exit", "ended"}

PlayerInit ==
  /\ playing = FALSE
  /\ call = "idle"
  /\ request \in Sounds
  /\ thread = "none"
  /\ sound \in Sounds
  /\ temp = FALSE

-----------------------------------------------------------------------------
(* Play: the caller's side. *)

(* The compare-and-swap; a request while a sound plays is dropped.         *)
Play(s) ==
  /\ call = "idle"
  /\ playing' = TRUE
  /\ IF playing THEN UNCHANGED <<call, request>>
                ELSE call' = "check" /\ request' = s
  /\ UNCHANGED <<thread, sound, temp>>

PlayMissing ==
  /\ call = "check"
  /\ playing' = FALSE
  /\ call' = "idle"
  /\ UNCHANGED <<request, thread, sound, temp>>

PlayFound ==
  /\ call = "check"
  /\ call' = "join"
  /\ UNCHANGED <<playing, request, thread, sound, temp>>

PlayJoin ==
  /\ call = "join"
  /\ thread \in {"none", "ended"}
  /\ thread' = "none"
  /\ call' = "spawn"
  /\ UNCHANGED <<playing, request, sound, temp>>

PlaySpawn ==
  /\ call = "spawn"
  /\ thread' = "volume"
  /\ sound' = request
  /\ call' = "idle"
  /\ UNCHANGED <<playing, request, temp>>

(* mutant: the handler of a failed start forgets the flag *)
PlaySpawnKeepsFlag ==
  /\ call = "spawn"
  /\ call' = "idle"
  /\ UNCHANGED <<playing, request, thread, sound, temp>>

PlaySpawnFails ==
  /\ call = "spawn"
  /\ playing' = FALSE
  /\ call' = "idle"
  /\ UNCHANGED <<request, thread, sound, temp>>

(* The destructor. *)
Destroy ==
  /\ call = "idle"
  /\ call' = "dtor"
  /\ UNCHANGED <<playing, request, thread, sound, temp>>

DestroyJoin ==
  /\ call = "dtor"
  /\ thread \in {"none", "ended"}
  /\ thread' = "none"
  /\ call' = "gone"
  /\ UNCHANGED <<playing, request, sound, temp>>

-----------------------------------------------------------------------------
(* The playback thread. *)

(* amixer, and when no control accepts the volume, a scaled copy if it can *)
(* be made.                                                                *)
SetVolume ==
  /\ thread = "volume"
  /\ temp' \in BOOLEAN
  /\ thread' = "aplay"
  /\ UNCHANGED <<playing, call, request, sound>>

(* An exception before aplay: only the cleanup is left. *)
ThreadThrows ==
  /\ thread = "volume"
  /\ thread' = "remove"
  /\ UNCHANGED <<playing, call, request, sound, temp>>

Aplay ==
  /\ thread = "aplay"
  /\ thread' = "remove"
  /\ UNCHANGED <<playing, call, request, sound, temp>>

(* mutant: the cleanup leaves the scaled copy behind *)
KeepTemp ==
  /\ thread = "remove"
  /\ thread' = "store"
  /\ UNCHANGED <<playing, call, request, sound, temp>>

(* mutant: the flag is cleared before the cleanup has finished *)
ClearsFlagEarly ==
  /\ thread = "remove"
  /\ playing' = FALSE
  /\ thread' = "store"
  /\ UNCHANGED <<call, request, sound, temp>>

RemoveTemp ==
  /\ thread = "remove"
  /\ temp' = FALSE
  /\ thread' = "store"
  /\ UNCHANGED <<playing, call, request, sound>>

StorePlaying ==
  /\ thread = "store"
  /\ playing' = FALSE
  /\ thread' = "exit"
  /\ UNCHANGED <<call, request, sound, temp>>

ThreadExit ==
  /\ thread = "exit"
  /\ thread' = "ended"
  /\ UNCHANGED <<playing, call, request, sound, temp>>

-----------------------------------------------------------------------------
CallStep ==
  PlayMissing \/ PlayFound \/ PlayJoin \/ PlaySpawn \/ PlaySpawnFails \/ DestroyJoin

ThreadStep ==
  SetVolume \/ ThreadThrows \/ Aplay \/ RemoveTemp \/ StorePlaying \/ ThreadExit

PlayerNext == (\E s \in Sounds : Play(s)) \/ CallStep \/ Destroy \/ ThreadStep

PlayerSpec == PlayerInit /\ [][PlayerNext]_playerVars

-----------------------------------------------------------------------------
(* What the player promises. *)

PlayerTypeOK ==
  /\ playing \in BOOLEAN
  /\ call \in Playing \cup {"idle", "dtor", "gone"}
  /\ request \in Sounds
  /\ thread \in Joinable \cup {"none"}
  /\ sound \in Sounds
  /\ temp \in BOOLEAN

(* The flag never sticks and is never clear too early: it is set exactly   *)
(* while a request is being started or a thread has yet to clear it, on    *)
(* every path, a missing file and a thread that does not start included.   *)
FlagMeansSound == playing <=> (call \in Playing \/ thread \in Sounding)

(* Play runs on the main loop and must not wait for a sound: the thread it *)
(* joins has nothing left to do. Nor does the new thread replace one that  *)
(* was not joined: assigning to a joinable std::thread ends the process.   *)
ThreadHandedOver ==
  /\ call \in Playing => thread \notin Sounding
  /\ call = "spawn" => thread = "none"

(* A scaled copy exists only while its thread uses it, so none piles up    *)
(* in /tmp, whatever aplay did.                                            *)
TempIsOwned == temp => thread \in {"aplay", "remove"} /\ playing
=============================================================================
