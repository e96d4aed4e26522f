------------------------- MODULE ConfigProperties -------------------------
(* What saving and applying a configuration promises. *)
EXTENDS ConfigApply, TLC

Symmetry == Permutations(Supervisors) \cup Permutations(Daemons)

\* Bound of the TLC runs: runs of the script that overlap are followed up to
\* the second save only.
OverlapBound == overlapped => post.n <= 1

\* Every variable keeps its shape.
TypeOK ==
    /\ SupTypeOK
    /\ file \in [{"wpa", "conf"} -> 0 .. MaxSaves]
    /\ post \in [n : 0 .. MaxSaves, at : {"idle", "wpa", "conf", "apply"}]
    /\ status \in [job : 0 .. MaxSaves,
                   state : {"idle", "pending", "running", "succeeded", "failed"}]
    /\ runner \in {"none", "begin", "netstop", "netstart", "chime", "wait"}
    /\ covers \in 0 .. MaxSaves
    /\ net \in -1 .. MaxSaves
    /\ loaded \in [Daemons -> 0 .. MaxSaves]
    /\ ui \in [Requests -> [state : {"editing", "waiting", "applied", "failed",
                                     "refused"},
                            job : 0 .. MaxSaves]]
    /\ webd \in {"up", "down"}
    /\ heirs \subseteq Supervisors \cup Daemons \cup {"network"}

\* When the apply job reports success, the network and every chime that
\* handles rings run with the configuration the job was created for, or a
\* newer one: no chime from before the save survives, not even one orphaned
\* by an earlier restart (apply_manager.cpp:81-105, S99chime:139-158).
JobCovers ==
    status.state = "succeeded" =>
        /\ net >= covers
        /\ \A d \in Daemons : daemon[d] = "running" => loaded[d] >= covers

\* The two files only disagree after a save the user was told had failed, by
\* webd's answer or by the lack of one (config_store.cpp:351-359).
TornSaveReported ==
    post.at = "idle" /\ file.wpa # file.conf => ui[file.wpa].state = "refused"

\* While a job is reported pending or running its thread is at work, and only
\* then: StartApply can never coalesce a save into a job nobody runs.
RunnerMatches == Busy <=> runner # "none"

\* A job that was started ends, whatever chime and the network do, so the
\* next save is not coalesced forever (apply_manager.cpp:47).
JobsEnd == Busy ~> ~Busy

\* A supervisor starts chime again after every exit, until it is killed
\* (S99chime:82-100).
Respawns == \A s \in Supervisors :
    Alive(s) ~> ~Alive(s) \/ (child[s] \in Daemons /\ daemon[child[s]] = "running")

\* A save the UI reports as applied is what chime runs with
\* (App.svelte:438-439, "Saved and applied.").
AppliedMeansApplied ==
    \A r \in Requests, d \in Daemons :
        ui[r].state = "applied" /\ daemon[d] = "running" => loaded[d] >= r

\* With nothing wrong with the disk, a valid save is never refused
\* (chime/README.md:41 offers POST /api/v1/config/core).
SavesSucceed == \A r \in Requests : ui[r].state # "refused"

\* webd serves again after it has stopped or crashed (S45webd:22).
WebdReturns == webd = "down" ~> webd = "up"

=============================================================================
