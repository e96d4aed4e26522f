----------------------------- MODULE Supervisor -----------------------------
(***************************************************************************)
(* S99chime: the init script that starts, stops and restarts the chime     *)
(* daemon through a supervisor, a background subshell that starts chime    *)
(* again whenever it exits.  A script run (a "controller") is the boot,    *)
(* an ssh session of deploy.sh or the apply job of chime-webd; every       *)
(* signal, every access to the pid file and every fork is a step.          *)
(***************************************************************************)
EXTENDS Integers, FiniteSets

CONSTANTS Controllers,   \* those who run the script
          Supervisors,   \* process identities of supervisors
          Daemons,       \* process identities of chime
          None           \* no process: the pid file is missing

ASSUME SupervisorAssumption == None \notin Supervisors \cup Daemons

VARIABLES pidfile,   \* what /var/run/chime_supervisor.pid names
          sup,       \* each supervisor: "dead", "starting" or "watching"
          child,     \* CHIME_PID of each supervisor
          daemon,    \* each chime: "none", "forked", "running", "stopping"
          script,    \* each controller's run of the script
          overlapped \* history: a run has begun during another

supVars == <<pidfile, sup, child, daemon, script, overlapped>>

Idle == [cmd |-> "none", at |-> "idle", spawned |-> None, ok |-> TRUE]
AllIdle == \A c \in Controllers : script[c].at = "idle"

SupInit ==
    /\ pidfile = None
    /\ sup = [s \in Supervisors |-> "dead"]
    /\ child = [s \in Supervisors |-> None]
    /\ daemon = [d \in Daemons |-> "none"]
    /\ script = [c \in Controllers |-> Idle]
    /\ overlapped = FALSE

Goto(c, at) == script' = [script EXCEPT ![c].at = at]
Exit(c, ok) == script' = [script EXCEPT ![c] = [Idle EXCEPT !.ok = ok]]

-----------------------------------------------------------------------------
(* The script.                                                             *)

\* The script takes no lock: nothing keeps runs from overlapping.
Begin(c, cmd) ==
    /\ script[c].at = "idle"
    /\ overlapped' = (overlapped \/ ~AllIdle)
    /\ script' = [script EXCEPT ![c] =
           [Idle EXCEPT !.cmd = cmd,
                        !.at = IF cmd = "start" THEN "check" ELSE "kill"]]
    /\ UNCHANGED <<pidfile, sup, child, daemon>>

\* Mutant of StopSupervisor: the pid file is removed, nothing is killed.
StopSupervisorForgets(c) ==
    /\ script[c].at = "kill"
    /\ Goto(c, IF pidfile = None THEN "killall" ELSE "rm")
    /\ UNCHANGED <<pidfile, sup, child, daemon, overlapped>>

\* kill $(cat pidfile): the supervisor dies, its chime does not.
StopSupervisor(c) ==
    /\ script[c].at = "kill"
    /\ IF pidfile = None
       THEN Goto(c, "killall") /\ UNCHANGED <<sup, child>>
       ELSE /\ Goto(c, "rm")
            /\ sup' = [sup EXCEPT ![pidfile] = "dead"]
            /\ child' = [child EXCEPT ![pidfile] = None]
    /\ UNCHANGED <<pidfile, daemon, overlapped>>

RemovePidfile(c) ==
    /\ script[c].at = "rm"
    /\ pidfile' = None
    /\ Goto(c, "killall")
    /\ UNCHANGED <<sup, child, daemon, overlapped>>

\* Mutant of KillChime: only the supervisor is stopped.
KillChimeForgets(c) ==
    /\ script[c].at = "killall"
    /\ IF script[c].cmd = "restart" THEN Goto(c, "check") ELSE Exit(c, TRUE)
    /\ UNCHANGED <<pidfile, sup, child, daemon, overlapped>>

\* killall goes by name: a forked subshell that has not exec'ed chime yet is
\* still called S99chime and is not hit.
KillChime(c) ==
    /\ script[c].at = "killall"
    /\ daemon' = [d \in Daemons |->
           IF daemon[d] = "running" THEN "stopping" ELSE daemon[d]]
    /\ IF script[c].cmd = "restart" THEN Goto(c, "check") ELSE Exit(c, TRUE)
    /\ UNCHANGED <<pidfile, sup, child, overlapped>>

\* restart sleeps a second first, start is a new shell: what was forked before
\* has exec'ed by the time the script checks (timing assumption SlowScript).
SlowScript == \A d \in Daemons : daemon[d] # "forked"

\* Mutant of CheckRunning: start does not look for a running supervisor.
CheckNothing(c) ==
    /\ script[c].at = "check"
    /\ SlowScript
    /\ Goto(c, "spawn")
    /\ UNCHANGED <<pidfile, sup, child, daemon, overlapped>>

CheckRunning(c) ==
    /\ script[c].at = "check"
    /\ SlowScript
    /\ IF pidfile # None /\ sup[pidfile] # "dead"
       THEN Exit(c, TRUE)
       ELSE Goto(c, "spawn")
    /\ UNCHANGED <<pidfile, sup, child, daemon, overlapped>>

BinaryMissing(c) ==
    /\ script[c].at = "spawn"
    /\ Exit(c, FALSE)
    /\ UNCHANGED <<pidfile, sup, child, daemon, overlapped>>

SpawnSupervisor(c) ==
    /\ script[c].at = "spawn"
    /\ \E s \in Supervisors \ {pidfile} :
           /\ sup[s] = "dead"
           /\ \A o \in Controllers : script[o].spawned # s
           /\ sup' = [sup EXCEPT ![s] = "starting"]
           /\ script' = [script EXCEPT ![c].at = "write", ![c].spawned = s]
    /\ UNCHANGED <<pidfile, child, daemon, overlapped>>

WritePidfile(c) ==
    /\ script[c].at = "write"
    /\ pidfile' = script[c].spawned
    /\ Goto(c, "verify")
    /\ UNCHANGED <<sup, child, daemon, overlapped>>

Verify(c) ==
    /\ script[c].at = "verify"
    /\ Exit(c, sup[script[c].spawned] # "dead")
    /\ UNCHANGED <<pidfile, sup, child, daemon, overlapped>>

ScriptStep(c) ==
    \/ StopSupervisor(c) \/ RemovePidfile(c) \/ KillChime(c)
    \/ CheckRunning(c) \/ WritePidfile(c) \/ Verify(c)

-----------------------------------------------------------------------------
(* The supervisors and their daemons.                                      *)

Fork(s) ==
    /\ sup[s] = "starting"
    /\ \E d \in Daemons :
           /\ daemon[d] = "none"
           /\ \A o \in Supervisors : child[o] # d
           /\ daemon' = [daemon EXCEPT ![d] = "forked"]
           /\ child' = [child EXCEPT ![s] = d]
    /\ sup' = [sup EXCEPT ![s] = "watching"]
    /\ UNCHANGED <<pidfile, script, overlapped>>

Exec(d) ==
    /\ daemon[d] = "forked"
    /\ daemon' = [daemon EXCEPT ![d] = "running"]
    /\ UNCHANGED <<pidfile, sup, child, script, overlapped>>

\* chime fails to start, crashes, or exits by itself
Crash(d) ==
    /\ daemon[d] = "running"
    /\ daemon' = [daemon EXCEPT ![d] = "none"]
    /\ UNCHANGED <<pidfile, sup, child, script, overlapped>>

\* SIGTERM has been handled; the destructor has joined aplay
Terminated(d) ==
    /\ daemon[d] = "stopping"
    /\ daemon' = [daemon EXCEPT ![d] = "none"]
    /\ UNCHANGED <<pidfile, sup, child, script, overlapped>>

\* Mutant of NoticeExit: looks for any chime instead of its own child.
NoticeNoChime(s) ==
    /\ sup[s] = "watching"
    /\ \A d \in Daemons : daemon[d] = "none"
    /\ sup' = [sup EXCEPT ![s] = "starting"]
    /\ child' = [child EXCEPT ![s] = None]
    /\ UNCHANGED <<pidfile, daemon, script, overlapped>>

\* kill -0 fails, wait returns, and after two seconds the loop starts over
NoticeExit(s) ==
    /\ sup[s] = "watching"
    /\ daemon[child[s]] = "none"
    /\ sup' = [sup EXCEPT ![s] = "starting"]
    /\ child' = [child EXCEPT ![s] = None]
    /\ UNCHANGED <<pidfile, daemon, script, overlapped>>

-----------------------------------------------------------------------------
SupNext ==
    \/ \E c \in Controllers :
           \/ \E cmd \in {"start", "stop", "restart"} : Begin(c, cmd)
           \/ ScriptStep(c) \/ BinaryMissing(c) \/ SpawnSupervisor(c)
    \/ \E s \in Supervisors : Fork(s) \/ NoticeExit(s)
    \/ \E d \in Daemons : Exec(d) \/ Crash(d) \/ Terminated(d)

SupSpec == SupInit /\ [][SupNext]_supVars

-----------------------------------------------------------------------------
(* What the script promises.                                               *)

SupTypeOK ==
    /\ pidfile \in Supervisors \cup {None}
    /\ sup \in [Supervisors -> {"dead", "starting", "watching"}]
    /\ child \in [Supervisors -> Daemons \cup {None}]
    /\ daemon \in [Daemons -> {"none", "forked", "running", "stopping"}]
    /\ script \in [Controllers ->
           [cmd : {"none", "start", "stop", "restart"},
            at : {"idle", "kill", "rm", "killall", "check", "spawn",
                  "write", "verify"},
            spawned : Supervisors \cup {None},
            ok : BOOLEAN]]
    /\ overlapped \in BOOLEAN

Alive(s) == sup[s] # "dead"

\* Until two runs of the script overlap: whenever none is running, every live
\* supervisor is the one the pid file names, so there is at most one, and
\* "S99chime stop" will end it (S99chime:142-146 kills nothing else).
Stoppable ==
    overlapped \/ (AllIdle => \A s \in Supervisors : Alive(s) => pidfile = s)

\* Until then, too: restart can leave a second chime behind, when killall
\* (S99chime:149) comes between fork and exec, but never a third: the next
\* killall takes the orphan.
Active == {d \in Daemons : daemon[d] \in {"forked", "running"}}
FewOrphans == overlapped \/ Cardinality(Active) <= 2

\* What S99chime:105-108 is for, whoever runs it: a start that finds a
\* supervisor running answers "OK (already running)" and starts no second one.
OneSupervisor == \A s, t \in Supervisors : Alive(s) /\ Alive(t) => s = t

=============================================================================
