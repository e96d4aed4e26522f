---------------------------- MODULE ConfigApply ----------------------------
(***************************************************************************)
(* Saving the configuration from the web UI: App.svelte posts it, webd's   *)
(* ConfigStore replaces two files, its ApplyManager restarts the network   *)
(* and chime on a detached thread, and App.svelte polls the job's state.   *)
(* chime's restart is the S99chime script of Supervisor, which somebody    *)
(* else may run too.  Configurations are numbered by the request that      *)
(* saved them; 0 is the one the device booted with.                        *)
(***************************************************************************)
EXTENDS Supervisor

CONSTANTS Job,          \* the controller that is webd's apply job
          MaxSaves,     \* bound on the saves of a behaviour
          BoundFiles,   \* files S31persistent bind-mounts from /data
          DiskFaults,   \* TRUE: writing a file may fail
          WebdExits     \* TRUE: webd may stop or crash while no job runs

ASSUME ConfigAssumption ==
    /\ Job \in Controllers
    /\ MaxSaves \in Nat
    /\ BoundFiles \subseteq {"wpa", "conf"}
    /\ DiskFaults \in BOOLEAN /\ WebdExits \in BOOLEAN

VARIABLES file,      \* the saved number of "wpa" and "conf"
          post,      \* the request webd is serving: [n, at]
          status,    \* ApplyManager::status_: [job, state]
          runner,    \* where the detached thread of the job is
          covers,    \* history: conf when the newest job was created
          net,       \* the wpa file the network runs with, or -1: down
          loaded,    \* the conf each running chime has read
          ui,        \* App.svelte's view of each request: [state, job]
          webd,      \* "up" or "down"
          heirs      \* what inherited webd's listening socket: supervisors,
                     \* chimes and, as "network", wpa_supplicant and udhcpc

webVars == <<file, post, status, runner, covers, net, ui, webd, heirs>>
vars == <<supVars, webVars, loaded>>

Requests == 1 .. MaxSaves
Ready == webd = "up" /\ post.at = "idle"     \* one connection at a time
Busy == status.state \in {"pending", "running"}

Init ==
    /\ SupInit
    /\ file = [wpa |-> 0, conf |-> 0]
    /\ post = [n |-> 0, at |-> "idle"]
    /\ status = [job |-> 0, state |-> "idle"]
    /\ runner = "none"
    /\ covers = 0
    /\ net = 0
    /\ loaded = [d \in Daemons |-> 0]
    /\ ui = [r \in Requests |-> [state |-> "editing", job |-> 0]]
    /\ webd = "up"
    /\ heirs = {}

-----------------------------------------------------------------------------
(* ConfigStore: the POST handler, one durable step at a time.              *)

Post ==
    /\ Ready
    /\ post.n < MaxSaves
    /\ post' = [n |-> post.n + 1, at |-> "wpa"]
    /\ UNCHANGED <<supVars, loaded, file, status, runner, covers, net, ui, webd, heirs>>

\* AtomicWriteFile: the new content is complete before rename makes it
\* visible; renaming over a mount point is refused (EBUSY).
Written(f, next) ==
    /\ post.at = f
    /\ f \notin BoundFiles
    /\ file' = [file EXCEPT ![f] = post.n]
    /\ post' = [post EXCEPT !.at = next]
    /\ UNCHANGED ui

Refused(f) ==
    /\ post.at = f
    /\ DiskFaults \/ f \in BoundFiles
    /\ post' = [post EXCEPT !.at = "idle"]
    /\ ui' = [ui EXCEPT ![post.n].state = "refused"]
    /\ UNCHANGED file

SaveWpaSupplicant ==
    /\ Written("wpa", "conf") \/ Refused("wpa")
    /\ UNCHANGED <<supVars, loaded, status, runner, covers, net, webd, heirs>>

\* Mutant of SaveChimeConfig: a failed write is not noticed.
SaveChimeConfigIgnores ==
    /\ \/ Written("conf", "apply")
       \/ /\ post.at = "conf" /\ DiskFaults
          /\ post' = [post EXCEPT !.at = "apply"]
          /\ UNCHANGED <<file, ui>>
    /\ UNCHANGED <<supVars, loaded, status, runner, covers, net, webd, heirs>>

SaveChimeConfig ==
    /\ Written("conf", "apply") \/ Refused("conf")
    /\ UNCHANGED <<supVars, loaded, status, runner, covers, net, webd, heirs>>

\* Both files are written, but the configuration cannot be read back.
ReloadFails ==
    /\ post.at = "apply" /\ DiskFaults
    /\ post' = [post EXCEPT !.at = "idle"]
    /\ ui' = [ui EXCEPT ![post.n].state = "refused"]
    /\ UNCHANGED <<supVars, loaded, file, status, runner, covers, net, webd, heirs>>

\* A job that is pending or running already answers for this save as well.
StartApply ==
    /\ post.at = "apply"
    /\ IF Busy
       THEN UNCHANGED <<status, runner, covers>>
       ELSE /\ status' = [job |-> status.job + 1, state |-> "pending"]
            /\ runner' = "begin"
            /\ covers' = file.conf
    /\ ui' = [ui EXCEPT ![post.n] = [state |-> "waiting", job |-> status'.job]]
    /\ post' = [post EXCEPT !.at = "idle"]
    /\ UNCHANGED <<supVars, loaded, file, net, webd, heirs>>

-----------------------------------------------------------------------------
(* ApplyManager::RunApplyJob, on its own thread.                           *)

Finish(state) ==
    /\ status' = [status EXCEPT !.state = state]
    /\ runner' = "none"

\* Mutant of RunApplyJob: the thread returns at the job id test.
RunApplyJobReturns ==
    /\ runner = "begin"
    /\ runner' = "none"
    /\ UNCHANGED <<supVars, loaded, file, post, status, covers, net, ui, webd, heirs>>

RunApplyJob ==
    /\ runner = "begin"
    /\ status' = [status EXCEPT !.state = "running"]
    /\ runner' = "netstop"
    /\ UNCHANGED <<supVars, loaded, file, post, covers, net, ui, webd, heirs>>

\* Mutant of CommandFails: returns without storing "failed".
CommandFailsSilently ==
    /\ runner \in {"netstop", "chime"}
    /\ runner' = "none"
    /\ UNCHANGED <<supVars, loaded, file, post, status, covers, net, ui, webd, heirs>>

\* system() itself fails: no process, or no memory
CommandFails ==
    /\ runner \in {"netstop", "chime"}
    /\ Finish("failed")
    /\ UNCHANGED <<supVars, loaded, file, post, covers, net, ui, webd, heirs>>

NetworkStop ==
    /\ runner = "netstop"
    /\ net' = -1
    /\ heirs' = heirs \ {"network"}
    /\ runner' = "netstart"
    /\ UNCHANGED <<supVars, loaded, file, post, status, covers, ui, webd>>

\* S40network exits with 0 whatever wpa_supplicant and udhcpc did; both stay.
NetworkStart ==
    /\ runner = "netstart"
    /\ net' = file.wpa
    /\ heirs' = heirs \cup {"network"}
    /\ runner' = "chime"
    /\ UNCHANGED <<supVars, loaded, file, post, status, covers, ui, webd>>

RestartChime ==
    /\ runner = "chime"
    /\ Begin(Job, "restart")
    /\ runner' = "wait"
    /\ UNCHANGED <<loaded, file, post, status, covers, net, ui, webd, heirs>>

JobDone ==
    /\ runner = "wait"
    /\ script[Job].at = "idle"
    /\ Finish(IF script[Job].ok THEN "succeeded" ELSE "failed")
    /\ UNCHANGED <<supVars, loaded, file, post, covers, net, ui, webd, heirs>>

-----------------------------------------------------------------------------
(* App.svelte's waitForApplyCompletion: polls, and after 90 s or five      *)
(* failed polls gives up.                                                  *)

Poll(r) ==
    /\ Ready
    /\ ui[r].state = "waiting"
    /\ status.job = ui[r].job
    /\ status.state \in {"succeeded", "failed"}
    /\ ui' = [ui EXCEPT ![r] = [job |-> 0, state |->
                  IF status.state = "succeeded" THEN "applied" ELSE "failed"]]
    /\ UNCHANGED <<supVars, loaded, file, post, status, runner, covers, net, webd, heirs>>

GiveUp(r) ==
    /\ ui[r].state = "waiting"
    /\ ui' = [ui EXCEPT ![r] = [job |-> 0, state |-> "failed"]]
    /\ UNCHANGED <<supVars, loaded, file, post, status, runner, covers, net, webd, heirs>>

-----------------------------------------------------------------------------
(* The script of Supervisor, run by the job or by somebody else.  What the *)
(* job forks inherits webd's listening socket, which web_server.cpp:691    *)
(* opens without SOCK_CLOEXEC.                                             *)

OtherBegins(c, cmd) ==
    /\ c # Job
    /\ Begin(c, cmd)
    /\ UNCHANGED <<webVars, loaded>>

\* a process that dies closes the socket and forgets its configuration
Survivors ==
    {p \in heirs : /\ p \in Supervisors => sup'[p] # "dead"
                   /\ p \in Daemons => daemon'[p] # "none"}

RunScript(c) ==
    /\ ScriptStep(c)
    /\ heirs' = Survivors
    /\ UNCHANGED <<file, post, status, runner, covers, net, ui, webd, loaded>>

StartFails(c) == BinaryMissing(c) /\ UNCHANGED <<webVars, loaded>>

StartSupervisor(c) ==
    /\ SpawnSupervisor(c)
    /\ heirs' = IF c = Job THEN heirs \cup {script'[c].spawned} ELSE heirs
    /\ UNCHANGED <<file, post, status, runner, covers, net, ui, webd, loaded>>

StartChime(s) ==
    /\ Fork(s)
    /\ heirs' = IF s \in heirs THEN heirs \cup {child'[s]} ELSE heirs
    /\ UNCHANGED <<file, post, status, runner, covers, net, ui, webd, loaded>>

\* main reads /etc/chime.conf
ReadConfig(d) ==
    /\ Exec(d)
    /\ loaded' = [loaded EXCEPT ![d] = file.conf]
    /\ UNCHANGED webVars

Forgotten(d) ==
    /\ heirs' = Survivors
    /\ loaded' = [loaded EXCEPT ![d] = 0]
    /\ UNCHANGED <<file, post, status, runner, covers, net, ui, webd>>

ChimeCrashes(d) == Crash(d) /\ Forgotten(d)

ChimeStops(d) == Terminated(d) /\ Forgotten(d)

Reaped(s) == NoticeExit(s) /\ UNCHANGED <<webVars, loaded>>

-----------------------------------------------------------------------------
(* webd itself, under S45webd: it exits, and is started every two seconds  *)
(* until bind() succeeds.  Jobs are numbered from one again.               *)

WebdEnds ==
    /\ WebdExits
    /\ webd = "up" /\ runner = "none"
    /\ webd' = "down"
    /\ status' = [job |-> 0, state |-> "idle"]
    /\ UNCHANGED <<supVars, loaded, file, runner, covers, net>>

\* WebServer::Stop shuts the listening socket down for every process, after
\* the request being served.
WebdStops ==
    /\ Ready
    /\ WebdEnds
    /\ heirs' = {}
    /\ UNCHANGED <<post, ui>>

\* An exception, a signal or the OOM killer, between any two steps of a
\* request: the UI gets no answer, the socket lives on in its heirs.
WebdCrashes ==
    /\ WebdEnds
    /\ post' = [post EXCEPT !.at = "idle"]
    /\ ui' = IF post.at = "idle" THEN ui
             ELSE [ui EXCEPT ![post.n].state = "refused"]
    /\ UNCHANGED heirs

WebdStart ==
    /\ webd = "down"
    /\ heirs = {}
    /\ webd' = "up"
    /\ UNCHANGED <<supVars, loaded, file, post, status, runner, covers, net, ui, heirs>>

\* bind: address already in use; two seconds later S45webd tries again
BindFails ==
    /\ webd = "down"
    /\ heirs # {}
    /\ UNCHANGED vars

-----------------------------------------------------------------------------
WebdStep ==
    SaveWpaSupplicant \/ SaveChimeConfig \/ StartApply
JobStep ==
    RunApplyJob \/ NetworkStop \/ NetworkStart \/ RestartChime \/ JobDone

Next ==
    \/ Post \/ WebdStep \/ ReloadFails \/ JobStep \/ CommandFails
    \/ \E r \in Requests : Poll(r) \/ GiveUp(r)
    \/ \E c \in Controllers :
           \/ \E cmd \in {"start", "stop", "restart"} : OtherBegins(c, cmd)
           \/ RunScript(c) \/ StartFails(c) \/ StartSupervisor(c)
    \/ \E s \in Supervisors : StartChime(s) \/ Reaped(s)
    \/ \E d \in Daemons : ReadConfig(d) \/ ChimeCrashes(d) \/ ChimeStops(d)
    \/ WebdStops \/ WebdCrashes \/ WebdStart \/ BindFails

Spec == Init /\ [][Next]_vars

\* Every process is scheduled.  Nobody has to post, run the script by hand,
\* poll in time or crash; SIGTERM ends chime in the end (ChimeService, Stops).
Fairness ==
    /\ WF_vars(WebdStep) /\ WF_vars(JobStep) /\ WF_vars(WebdStart)
    /\ \A c \in Controllers : WF_vars(RunScript(c)) /\ WF_vars(StartSupervisor(c))
    /\ \A s \in Supervisors : WF_vars(StartChime(s)) /\ WF_vars(Reaped(s))
    /\ \A d \in Daemons : WF_vars(ReadConfig(d)) /\ WF_vars(ChimeStops(d))

FairSpec == Spec /\ Fairness

=============================================================================
