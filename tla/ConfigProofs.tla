---------------------------- MODULE ConfigProofs ----------------------------
(* Proofs about S99chime and the apply job, for any number of controllers, *)
(* processes and saves.                                                    *)
EXTENDS ConfigProperties, FiniteSetTheorems, TLAPS

-----------------------------------------------------------------------------
(* Supervisor.                                                             *)

At(c) == script[c].at
NoneAlive == \A s \in Supervisors : ~Alive(s)

\* At most one script runs; once it has killed the supervisor none is alive
\* until it spawns one, and the pid file names the live one again as soon as
\* it is written.
PidInv ==
    /\ \A c, o \in Controllers : At(c) # "idle" /\ At(o) # "idle" => c = o
    /\ \A c \in Controllers : At(c) \in {"rm", "killall", "spawn"} => NoneAlive
    /\ \A c \in Controllers : At(c) = "write" =>
           \A s \in Supervisors : Alive(s) => s = script[c].spawned
    /\ (\A c \in Controllers : At(c) # "write") =>
           \A s \in Supervisors : Alive(s) => pidfile = s

ScriptTypeOK ==
    script \in [Controllers ->
        [cmd : {"none", "start", "stop", "restart"},
         at : {"idle", "kill", "rm", "killall", "check", "spawn", "write", "verify"},
         spawned : Supervisors \cup {None},
         ok : BOOLEAN]]

\* What the two ways to leave a step of the script do to the script's state.
LEMMA GotoStep ==
    ASSUME ScriptTypeOK, NEW c \in Controllers,
           NEW a \in {"rm", "killall", "check", "spawn", "verify"}, Goto(c, a)
    PROVE  /\ ScriptTypeOK'
           /\ \A o \in Controllers :
                  /\ At(o)' = IF o = c THEN a ELSE At(o)
                  /\ script'[o].spawned = script[o].spawned
BY DEF Goto, ScriptTypeOK, At

\* ... and what leaving the script altogether does.
LEMMA ExitStep ==
    ASSUME ScriptTypeOK, NEW c \in Controllers, NEW b \in BOOLEAN, Exit(c, b)
    PROVE  /\ ScriptTypeOK'
           /\ \A o \in Controllers :
                  /\ At(o)' = IF o = c THEN "idle" ELSE At(o)
                  /\ o # c => script'[o].spawned = script[o].spawned
<1>1. [Idle EXCEPT !.ok = b] = [cmd |-> "none", at |-> "idle", spawned |-> None, ok |-> b]
  BY DEF Idle
<1>2. script' = [script EXCEPT ![c] =
                    [cmd |-> "none", at |-> "idle", spawned |-> None, ok |-> b]]
  BY <1>1 DEF Exit
<1> QED
  BY <1>2 DEF ScriptTypeOK, At

\* Every action of the script and the processes keeps the shapes.
LEMMA SupTypeStep == SupTypeOK /\ [SupNext]_supVars => SupTypeOK'
<1> SUFFICES ASSUME SupTypeOK, [SupNext]_supVars PROVE SupTypeOK'
  OBVIOUS
<1> USE SupervisorAssumption DEF SupTypeOK
<1>1. ASSUME NEW c \in Controllers, NEW cmd \in {"start", "stop", "restart"}, Begin(c, cmd)
      PROVE SupTypeOK'
  <2>1. overlapped' \in BOOLEAN
    BY <1>1 DEF Begin
  <2> QED
    BY <1>1, <2>1 DEF Begin, Idle
<1>2. ASSUME NEW c \in Controllers, StopSupervisor(c) PROVE SupTypeOK'
  BY <1>2 DEF StopSupervisor, Goto
<1>3. ASSUME NEW c \in Controllers, RemovePidfile(c) PROVE SupTypeOK'
  BY <1>3 DEF RemovePidfile, Goto
<1>0. ScriptTypeOK
  BY DEF ScriptTypeOK
<1>4. ASSUME NEW c \in Controllers, KillChime(c) PROVE SupTypeOK'
  <2>1. ScriptTypeOK'
    BY <1>0, <1>4, GotoStep, ExitStep DEF KillChime
  <2> QED
    BY <1>4, <2>1 DEF KillChime, ScriptTypeOK
<1>5. ASSUME NEW c \in Controllers, CheckRunning(c) PROVE SupTypeOK'
  <2>1. ScriptTypeOK'
    BY <1>0, <1>5, GotoStep, ExitStep DEF CheckRunning
  <2> QED
    BY <1>5, <2>1 DEF CheckRunning, ScriptTypeOK
<1>6. ASSUME NEW c \in Controllers, WritePidfile(c) PROVE SupTypeOK'
  BY <1>6 DEF WritePidfile, Goto
<1>7. ASSUME NEW c \in Controllers, Verify(c) PROVE SupTypeOK'
  <2>1. ScriptTypeOK'
    BY <1>0, <1>7, ExitStep DEF Verify
  <2> QED
    BY <1>7, <2>1 DEF Verify, ScriptTypeOK
<1>8. ASSUME NEW c \in Controllers, BinaryMissing(c) PROVE SupTypeOK'
  <2>1. ScriptTypeOK'
    BY <1>0, <1>8, ExitStep DEF BinaryMissing
  <2> QED
    BY <1>8, <2>1 DEF BinaryMissing, ScriptTypeOK
<1>9. ASSUME NEW c \in Controllers, SpawnSupervisor(c) PROVE SupTypeOK'
  BY <1>9 DEF SpawnSupervisor
<1>10. ASSUME NEW s \in Supervisors, Fork(s) PROVE SupTypeOK'
  BY <1>10 DEF Fork
<1>11. ASSUME NEW s \in Supervisors, NoticeExit(s) PROVE SupTypeOK'
  BY <1>11 DEF NoticeExit
<1>12. ASSUME NEW d \in Daemons, Exec(d) \/ Crash(d) \/ Terminated(d) PROVE SupTypeOK'
  BY <1>12 DEF Exec, Crash, Terminated
<1>13. CASE UNCHANGED supVars
  BY <1>13 DEF supVars
<1> QED
  BY <1>1, <1>2, <1>3, <1>4, <1>5, <1>6, <1>7, <1>8, <1>9, <1>10, <1>11, <1>12, <1>13
     DEF SupNext, ScriptStep

\* What overlapped once stays overlapped.
LEMMA OverlapStays == [SupNext]_supVars => (overlapped => overlapped')
<1>1. ASSUME NEW c \in Controllers, NEW cmd \in {"start", "stop", "restart"}, Begin(c, cmd)
      PROVE  overlapped => overlapped'
  BY <1>1 DEF Begin
<1>2. ASSUME UNCHANGED overlapped PROVE overlapped => overlapped'
  BY <1>2
<1> QED
  BY <1>1, <1>2
     DEF SupNext, supVars, ScriptStep, StopSupervisor, RemovePidfile, KillChime,
         CheckRunning, BinaryMissing, SpawnSupervisor, WritePidfile, Verify, Fork, Exec,
         Crash, Terminated, NoticeExit

\* Every action keeps the pid file naming the one live supervisor.
LEMMA PidStep ==
    ASSUME ~overlapped', SupTypeOK, PidInv, [SupNext]_supVars
    PROVE  PidInv'
<1> USE SupervisorAssumption DEF SupTypeOK, PidInv, At, NoneAlive, Alive
<1>1. ASSUME NEW c \in Controllers, NEW cmd \in {"start", "stop", "restart"}, Begin(c, cmd)
      PROVE PidInv'
  BY <1>1 DEF Begin, Idle, AllIdle
<1>2. ASSUME NEW c \in Controllers, StopSupervisor(c) PROVE PidInv'
  BY <1>2 DEF StopSupervisor, Goto
<1>3. ASSUME NEW c \in Controllers, RemovePidfile(c) PROVE PidInv'
  BY <1>3 DEF RemovePidfile, Goto
<1>4. ASSUME NEW c \in Controllers, KillChime(c) PROVE PidInv'
  BY <1>4 DEF KillChime, Goto, Exit, Idle
<1>5. ASSUME NEW c \in Controllers, CheckRunning(c) PROVE PidInv'
  BY <1>5 DEF CheckRunning, Goto, Exit, Idle
<1>6. ASSUME NEW c \in Controllers, WritePidfile(c) PROVE PidInv'
  BY <1>6 DEF WritePidfile, Goto
<1>7. ASSUME NEW c \in Controllers, Verify(c) PROVE PidInv'
  BY <1>7 DEF Verify, Exit, Idle
<1>8. ASSUME NEW c \in Controllers, BinaryMissing(c) PROVE PidInv'
  BY <1>8 DEF BinaryMissing, Exit, Idle
<1>9. ASSUME NEW c \in Controllers, SpawnSupervisor(c) PROVE PidInv'
  BY <1>9 DEF SpawnSupervisor
<1>10. ASSUME NEW s \in Supervisors, Fork(s) PROVE PidInv'
  BY <1>10 DEF Fork
<1>11. ASSUME NEW s \in Supervisors, NoticeExit(s) PROVE PidInv'
  BY <1>11 DEF NoticeExit
<1>12. ASSUME NEW d \in Daemons, Exec(d) \/ Crash(d) \/ Terminated(d) PROVE PidInv'
  BY <1>12 DEF Exec, Crash, Terminated
<1>13. CASE UNCHANGED supVars
  BY <1>13 DEF supVars
<1> QED
  BY <1>1, <1>2, <1>3, <1>4, <1>5, <1>6, <1>7, <1>8, <1>9, <1>10, <1>11, <1>12, <1>13
     DEF SupNext, ScriptStep

\* Saving and applying runs S99chime as it is: every step of ConfigApply is a
\* step of Supervisor or leaves its state alone.
LEMMA RunsSupervisor == [Next]_vars => [SupNext]_supVars
<1> SUFFICES ASSUME [Next]_vars PROVE [SupNext]_supVars
  OBVIOUS
<1> USE DEF webVars, supVars
<1>1. CASE Post \/ WebdStep \/ ReloadFails \/ CommandFails \/ WebdStops \/ WebdCrashes \/ WebdStart
           \/ BindFails
  BY <1>1 DEF Post, WebdStep, SaveWpaSupplicant, SaveChimeConfig, StartApply, ReloadFails,
     CommandFails, WebdStops, WebdCrashes, WebdEnds, WebdStart, BindFails, vars
<1>2. CASE JobStep
  BY <1>2, ConfigAssumption
     DEF JobStep, RunApplyJob, NetworkStop, NetworkStart, RestartChime, JobDone, SupNext
<1>3. ASSUME NEW r \in Requests, Poll(r) \/ GiveUp(r) PROVE [SupNext]_supVars
  BY <1>3 DEF Poll, GiveUp
<1>4. ASSUME NEW c \in Controllers, NEW cmd \in {"start", "stop", "restart"}, OtherBegins(c, cmd)
      PROVE [SupNext]_supVars
  BY <1>4 DEF OtherBegins, SupNext
<1>5. ASSUME NEW c \in Controllers, RunScript(c) \/ StartFails(c) \/ StartSupervisor(c)
      PROVE [SupNext]_supVars
  BY <1>5 DEF RunScript, StartFails, StartSupervisor, SupNext
<1>6. ASSUME NEW s \in Supervisors, StartChime(s) \/ Reaped(s) PROVE [SupNext]_supVars
  BY <1>6 DEF StartChime, Reaped, SupNext
<1>7. ASSUME NEW d \in Daemons, ReadConfig(d) \/ ChimeCrashes(d) \/ ChimeStops(d)
      PROVE [SupNext]_supVars
  BY <1>7 DEF ReadConfig, ChimeCrashes, ChimeStops, SupNext
<1>8. CASE UNCHANGED vars
  BY <1>8 DEF vars
<1> QED
  BY <1>1, <1>2, <1>3, <1>4, <1>5, <1>6, <1>7, <1>8 DEF Next

\* At boot no process lives and no script runs.
LEMMA SupInitial == SupInit => SupTypeOK /\ PidInv
<1>1. SupInit => overlapped \in BOOLEAN
  BY DEF SupInit
<1>2. SupInit => SupTypeOK
  BY <1>1, SupervisorAssumption DEF SupInit, SupTypeOK, Idle
<1>3. SupInit => PidInv
  BY DEF SupInit, PidInv, Idle, At, NoneAlive, Alive
<1> QED
  BY <1>2, <1>3

\* The state of the script and of its processes keeps its shape.
THEOREM SupervisorTypes == Spec => []SupTypeOK
<1>1. Init => SupTypeOK
  BY SupInitial DEF Init
<1>2. SupTypeOK /\ [Next]_vars => SupTypeOK'
  BY SupTypeStep, RunsSupervisor
<1> QED
  BY <1>1, <1>2, PTL DEF Spec

\* Until two runs of the script overlap, the supervisor that is alive when
\* none is running is the one the pid file names, however the job, the others
\* and the crashes of chime interleave.
THEOREM AlwaysStoppable == Spec => []Stoppable
<1> DEFINE IInv == SupTypeOK /\ (overlapped \/ PidInv)
<1>1. Init => IInv
  BY SupInitial DEF Init
<1>2. IInv /\ [Next]_vars => IInv'
  BY SupTypeStep, PidStep, OverlapStays, RunsSupervisor
<1>3. IInv => Stoppable
  BY DEF PidInv, Stoppable, AllIdle, At
<1> QED
  BY <1>1, <1>2, <1>3, PTL DEF Spec

-----------------------------------------------------------------------------
(* Orphans.                                                                *)

Acts(d) == daemon[d] \in {"forked", "running"}
Orphan(d) == Acts(d) /\ \A s \in Supervisors : child[s] # d

\* At most one chime is between fork and exec, and at most one outlives its
\* supervisor, except while a script is about to run killall.  An orphan has
\* exec'ed before there is a supervisor again (SlowScript), so the next
\* killall hits it.
OrphanInv ==
    /\ \A s \in Supervisors : sup[s] = "watching" <=> child[s] \in Daemons
    /\ \A d, e \in Daemons : daemon[d] = "forked" /\ daemon[e] = "forked" => d = e
    /\ (\A c \in Controllers : At(c) \notin {"rm", "killall"}) =>
           \A d, e \in Daemons : Orphan(d) /\ Orphan(e) => d = e
    /\ ~NoneAlive \/ (\E c \in Controllers : At(c) = "spawn") =>
           \A d \in Daemons : Orphan(d) => daemon[d] = "running"
    /\ \A d, e, f \in Daemons :
           Acts(d) /\ Acts(e) /\ Acts(f) => d = e \/ d = f \/ e = f

\* A live supervisor forks: every other chime is the one orphan.
LEMMA ForkKeeps ==
    ASSUME SupTypeOK, PidInv, OrphanInv, NEW s \in Supervisors, Fork(s)
    PROVE  OrphanInv'
<1> USE SupervisorAssumption DEF SupTypeOK, PidInv, OrphanInv, At, NoneAlive, Alive, Orphan, Acts
<1>1. PICK d \in Daemons :
        /\ daemon[d] = "none" /\ \A o \in Supervisors : child[o] # d
        /\ daemon' = [daemon EXCEPT ![d] = "forked"]
        /\ child' = [child EXCEPT ![s] = d]
  BY DEF Fork
<1>2. sup[s] = "starting" /\ sup' = [sup EXCEPT ![s] = "watching"] /\ UNCHANGED <<pidfile, script>>
  BY DEF Fork
<1>3. \A o \in Supervisors : child[o] \notin Daemons
  <2>1. \A o \in Supervisors : sup[o] # "dead" => o = s
    BY <1>2
  <2> QED
    BY <1>2, <2>1
<1>4. \A e \in Daemons : daemon[e] \in {"forked", "running"} => daemon[e] = "running"
  BY <1>2, <1>3
<1>5. \A c \in Controllers : At(c) \notin {"rm", "killall"}
  BY <1>2
<1>6. \A e, f \in Daemons : Acts(e) /\ Acts(f) => e = f
  BY <1>3, <1>5
<1>7. \A e \in Daemons : Acts(e)' => e = d \/ Acts(e)
  BY <1>1
<1>8. \A e \in Daemons : Orphan(e)' => Acts(e)
  BY <1>1
<1> QED
  BY <1>1, <1>2, <1>3, <1>4, <1>6, <1>7, <1>8

\* Every action keeps the orphans few.
LEMMA OrphanStep ==
    ASSUME ~overlapped', SupTypeOK, PidInv, OrphanInv, [SupNext]_supVars
    PROVE  OrphanInv'
<1> USE SupervisorAssumption
    DEF SupTypeOK, PidInv, OrphanInv, At, NoneAlive, Alive, Orphan, Acts
<1>1. ASSUME NEW c \in Controllers, NEW cmd \in {"start", "stop", "restart"}, Begin(c, cmd)
      PROVE OrphanInv'
  BY <1>1 DEF Begin, Idle, AllIdle
<1>2. ASSUME NEW c \in Controllers, StopSupervisor(c) PROVE OrphanInv'
  <2>1. CASE pidfile = None
    BY <1>2, <2>1 DEF StopSupervisor, Goto
  <2>2. CASE pidfile # None
    <3>1. /\ script' = [script EXCEPT ![c].at = "rm"] /\ daemon' = daemon
          /\ sup' = [sup EXCEPT ![pidfile] = "dead"]
          /\ child' = [child EXCEPT ![pidfile] = None]
      BY <1>2, <2>2 DEF StopSupervisor, Goto
    <3>2. script[c].at = "kill" /\ pidfile \in Supervisors
      BY <1>2, <2>2 DEF StopSupervisor
    <3>3. \A s \in Supervisors : sup'[s] = "dead" /\ script'[c].at = "rm"
      BY <3>1, <3>2
    <3>4. \A o \in Controllers : script'[o].at # "spawn"
      BY <3>1, <3>2
    <3>5. \A s \in Supervisors : sup'[s] = "watching" <=> child'[s] \in Daemons
      BY <3>1, <3>2
    <3> QED
      BY <3>1, <3>3, <3>4, <3>5
  <2> QED
    BY <2>1, <2>2
<1>3. ASSUME NEW c \in Controllers, RemovePidfile(c) PROVE OrphanInv'
  BY <1>3 DEF RemovePidfile, Goto
<1>4. ASSUME NEW c \in Controllers, KillChime(c) PROVE OrphanInv'
  <2>1. \A d \in Daemons : daemon'[d] \in {"forked", "running"} => daemon[d] = "forked"
    BY <1>4 DEF KillChime
  <2>2. UNCHANGED <<sup, child>> /\ NoneAlive
    BY <1>4 DEF KillChime
  <2>3. \A o \in Controllers : script'[o].at # "spawn"
    BY <1>4 DEF KillChime, Goto, Exit, Idle
  <2>4. \A d \in Daemons : Acts(d)' => Acts(d)
    BY <2>1
  <2>5. \A d \in Daemons : daemon'[d] = "forked" => daemon[d] = "forked"
    BY <1>4 DEF KillChime
  <2> QED
    BY <2>1, <2>2, <2>3, <2>4, <2>5
<1>5. ASSUME NEW c \in Controllers, CheckRunning(c) PROVE OrphanInv'
  BY <1>5 DEF CheckRunning, SlowScript, Goto, Exit, Idle
<1>6. ASSUME NEW c \in Controllers, WritePidfile(c) PROVE OrphanInv'
  BY <1>6 DEF WritePidfile, Goto
<1>7. ASSUME NEW c \in Controllers, Verify(c) PROVE OrphanInv'
  BY <1>7 DEF Verify, Exit, Idle
<1>8. ASSUME NEW c \in Controllers, BinaryMissing(c) PROVE OrphanInv'
  BY <1>8 DEF BinaryMissing, Exit, Idle
<1>9. ASSUME NEW c \in Controllers, SpawnSupervisor(c) PROVE OrphanInv'
  BY <1>9 DEF SpawnSupervisor
<1>10. ASSUME NEW s \in Supervisors, Fork(s) PROVE OrphanInv'
  BY <1>10, ForkKeeps
<1>11. ASSUME NEW s \in Supervisors, NoticeExit(s) PROVE OrphanInv'
  BY <1>11 DEF NoticeExit
<1>12. ASSUME NEW d \in Daemons, Exec(d) \/ Crash(d) \/ Terminated(d) PROVE OrphanInv'
  BY <1>12 DEF Exec, Crash, Terminated
<1>13. CASE UNCHANGED supVars
  BY <1>13 DEF supVars
<1> QED
  BY <1>1, <1>2, <1>3, <1>4, <1>5, <1>6, <1>7, <1>8, <1>9, <1>10, <1>11, <1>12, <1>13
     DEF SupNext, ScriptStep

\* Until two runs of S99chime overlap, never more than two chimes handle
\* rings, however many are forked, crash and are restarted.
THEOREM OrphansStayFew == Spec => []FewOrphans
<1> DEFINE IInv == SupTypeOK /\ (overlapped \/ (PidInv /\ OrphanInv))
<1>1. Init => IInv
  <2>1. SupInit => OrphanInv
    BY SupervisorAssumption DEF SupInit, OrphanInv, Idle, At, NoneAlive, Alive, Orphan, Acts
  <2> QED
    BY <2>1, SupInitial DEF Init
<1>2. IInv /\ [Next]_vars => IInv'
  BY SupTypeStep, PidStep, OrphanStep, OverlapStays, RunsSupervisor
<1>3. OrphanInv => FewOrphans
  <2> SUFFICES ASSUME OrphanInv PROVE FewOrphans
    OBVIOUS
  <2>1. PICK x, y : Active \subseteq {x, y}
    <3>1. \A d, e, f \in Active : d = e \/ d = f \/ e = f
      BY DEF OrphanInv, Active, Acts
    <3>2. CASE Active = {}
      BY <3>2
    <3>3. ASSUME NEW d \in Active PROVE \E x, y : Active \subseteq {x, y}
      <4>1. CASE Active \subseteq {d}
        BY <4>1
      <4>2. ASSUME NEW e \in Active, e # d PROVE Active \subseteq {d, e}
        BY <3>1, <4>2
      <4> QED
        BY <4>1, <4>2
    <3> QED
      BY <3>2, <3>3
  <2>2. IsFiniteSet({x, y}) /\ Cardinality({x, y}) <= 2
    <3>1. IsFiniteSet({x}) /\ Cardinality({x}) = 1
      BY FS_Singleton
    <3>2. IsFiniteSet({x} \cup {y}) /\ Cardinality({x} \cup {y}) \in {1, 2}
      BY <3>1, FS_AddElement
    <3>3. {x} \cup {y} = {x, y}
      OBVIOUS
    <3> QED
      BY <3>2, <3>3
  <2>3. Cardinality(Active) <= Cardinality({x, y}) /\ IsFiniteSet(Active)
    BY <2>1, <2>2, FS_Subset
  <2>4. Cardinality(Active) \in Nat /\ Cardinality({x, y}) \in Nat
    BY <2>2, <2>3, FS_CardinalityType
  <2> QED
    BY <2>2, <2>3, <2>4 DEF FewOrphans
<1>4. IInv => FewOrphans
  BY <1>3 DEF FewOrphans
<1> QED
  BY <1>1, <1>2, <1>4, PTL DEF Spec

-----------------------------------------------------------------------------
(* The apply job.                                                          *)

\* Every chime that handles rings has read a configuration the newest job covers.
Fresh == \A d \in Daemons : daemon[d] = "running" => loaded[d] >= covers

\* The wpa file is written first, so it is never behind; the network has the
\* job's configuration once the job is past it, and so has every chime once
\* the job's script is past killall.
JobInv ==
    /\ post \in [n : Nat, at : {"idle", "wpa", "conf", "apply"}]
    /\ status \in [job : Nat, state : {"idle", "pending", "running", "succeeded", "failed"}]
    /\ file \in [{"wpa", "conf"} -> Nat]
    /\ covers \in Nat /\ net \in Int
    /\ loaded \in [Daemons -> Nat]
    /\ covers <= file.conf /\ file.conf <= file.wpa /\ file.wpa <= post.n
    /\ post.at = "conf" => file.wpa = post.n
    /\ Busy <=> runner # "none"
    /\ runner \in {"chime", "wait"} \/ status.state = "succeeded" => net >= covers
    /\ runner = "wait" /\ At(Job) \notin {"kill", "rm", "killall"} => Fresh
    /\ status.state = "succeeded" => Fresh

\* At boot everything runs with the configuration of the files.
LEMMA JobInitial == Init => JobInv
BY SupervisorAssumption, ConfigAssumption
   DEF Init, SupInit, JobInv, Busy, Fresh, At, Idle

\* What a step of webd's request handler does.
LEMMA WebdKeeps ==
    ASSUME SupTypeOK, JobInv, Post \/ WebdStep \/ ReloadFails
    PROVE  JobInv'
<1> USE DEF JobInv, Busy, Fresh, At
<1>1. CASE Post
  BY <1>1 DEF Post, supVars
<1>2. ASSUME NEW f \in {"wpa", "conf"}, NEW next \in {"conf", "apply"},
             Written(f, next), (f = "wpa") <=> (next = "conf"),
             UNCHANGED <<supVars, loaded, status, runner, covers, net, webd, heirs>>
      PROVE  JobInv'
  <2>1. file' \in [{"wpa", "conf"} -> Nat] /\ file'.wpa >= file.wpa /\ file'.conf >= file.conf
    BY <1>2 DEF Written
  <2> QED
    BY <1>2, <2>1 DEF Written, supVars
<1>3. ASSUME NEW f \in {"wpa", "conf"}, Refused(f),
             UNCHANGED <<supVars, loaded, status, runner, covers, net, webd, heirs>>
      PROVE  JobInv'
  BY <1>3 DEF Refused, supVars
<1>4. CASE StartApply
  <2>1. CASE Busy
    BY <1>4, <2>1 DEF StartApply, supVars
  <2>2. CASE ~Busy
    BY <1>4, <2>2 DEF StartApply, supVars
  <2> QED
    BY <2>1, <2>2
<1>5. CASE SaveWpaSupplicant
  BY <1>5, <1>2, <1>3 DEF SaveWpaSupplicant
<1>6. CASE SaveChimeConfig
  BY <1>6, <1>2, <1>3 DEF SaveChimeConfig
<1>7. CASE ReloadFails
  BY <1>7 DEF ReloadFails, supVars
<1> QED
  BY <1>1, <1>4, <1>5, <1>6, <1>7 DEF WebdStep

\* What a step of the job's thread does.
LEMMA JobKeeps == ASSUME SupTypeOK, JobInv, JobStep \/ CommandFails PROVE JobInv'
<1> USE DEF JobInv, Busy, Fresh, At
<1>1. CASE RunApplyJob
  BY <1>1 DEF RunApplyJob, supVars
<1>2. CASE CommandFails
  BY <1>2 DEF CommandFails, Finish, supVars
<1>3. CASE NetworkStop
  BY <1>3 DEF NetworkStop, supVars
<1>4. CASE NetworkStart
  BY <1>4 DEF NetworkStart, supVars
<1>5. CASE RestartChime
  <2>1. script'[Job].at = "kill"
    BY <1>5, ConfigAssumption DEF RestartChime, Begin, Idle, SupTypeOK
  <2> QED
    BY <1>5, <2>1 DEF RestartChime, Begin
<1>6. CASE JobDone
  BY <1>6 DEF JobDone, Finish, supVars
<1> QED
  BY <1>1, <1>2, <1>3, <1>4, <1>5, <1>6 DEF JobStep

\* What a step of the script or of a process does: only the job's own killall
\* and a chime that starts matter.
LEMMA ScriptKeeps ==
    ASSUME SupTypeOK, JobInv,
           UNCHANGED <<file, post, status, runner, covers, net>>,
           \/ \E c \in Controllers, cmd \in {"start", "stop", "restart"} :
                  c # Job /\ Begin(c, cmd) /\ UNCHANGED loaded
           \/ \E c \in Controllers : /\ ScriptStep(c) \/ BinaryMissing(c) \/ SpawnSupervisor(c)
                                     /\ UNCHANGED loaded
    PROVE  JobInv'
<1> USE ConfigAssumption DEF JobInv, Busy, Fresh, At
<1>0. ScriptTypeOK
  BY DEF SupTypeOK, ScriptTypeOK
<1>1. ASSUME NEW c \in Controllers \ {Job}, NEW cmd \in {"start", "stop", "restart"},
             Begin(c, cmd), UNCHANGED loaded
      PROVE  JobInv'
  BY <1>0, <1>1 DEF Begin, ScriptTypeOK
<1>2. ASSUME NEW c \in Controllers, KillChime(c), UNCHANGED loaded PROVE JobInv'
  <2>1. \A d \in Daemons : daemon'[d] # "running"
    BY <1>2 DEF KillChime
  <2> QED
    BY <1>2, <2>1
<1>3. ASSUME NEW c \in Controllers, UNCHANGED loaded,
             \/ StopSupervisor(c) \/ RemovePidfile(c) \/ CheckRunning(c) \/ WritePidfile(c)
             \/ Verify(c) \/ BinaryMissing(c) \/ SpawnSupervisor(c)
      PROVE  JobInv'
  <2>1. daemon' = daemon
    BY <1>3 DEF StopSupervisor, RemovePidfile, CheckRunning, WritePidfile, Verify,
       BinaryMissing, SpawnSupervisor
  <2>2. At(Job)' \notin {"kill", "rm", "killall"} => At(Job) \notin {"kill", "rm", "killall"}
    <3>1. CASE StopSupervisor(c) \/ RemovePidfile(c)
      BY <3>1, <1>0, GotoStep DEF StopSupervisor, RemovePidfile
    <3>2. CASE CheckRunning(c)
      <4>1. Exit(c, TRUE) \/ Goto(c, "spawn")
        BY <3>2 DEF CheckRunning
      <4>2. script[c].at = "check"
        BY <3>2 DEF CheckRunning
      <4>3. CASE Exit(c, TRUE)
        BY <4>3, <4>2, <1>0, ExitStep
      <4>4. CASE Goto(c, "spawn")
        BY <4>4, <4>2, <1>0, GotoStep
      <4> QED
        BY <4>1, <4>3, <4>4
    <3>5. CASE Verify(c) \/ BinaryMissing(c)
      BY <3>5, <1>0, ExitStep DEF Verify, BinaryMissing
    <3>3. CASE WritePidfile(c)
      BY <3>3, <1>0, GotoStep DEF WritePidfile
    <3>4. CASE SpawnSupervisor(c)
      BY <3>4, <1>0 DEF SpawnSupervisor, ScriptTypeOK
    <3> QED
      BY <1>3, <3>1, <3>2, <3>3, <3>4, <3>5
  <2> QED
    BY <1>3, <2>1, <2>2
<1> QED
  BY <1>1, <1>2, <1>3 DEF ScriptStep

\* A chime that starts reads the newest file; the others only leave.
LEMMA ProcessKeeps ==
    ASSUME SupTypeOK, JobInv,
           \/ \E s \in Supervisors : StartChime(s) \/ Reaped(s)
           \/ \E d \in Daemons : ReadConfig(d) \/ ChimeCrashes(d) \/ ChimeStops(d)
    PROVE  JobInv'
<1> USE DEF JobInv, Busy, Fresh, At, SupTypeOK, webVars
<1>1. ASSUME NEW s \in Supervisors, StartChime(s) PROVE JobInv'
  BY <1>1 DEF StartChime, Fork
<1>2. ASSUME NEW s \in Supervisors, Reaped(s) PROVE JobInv'
  BY <1>2 DEF Reaped, NoticeExit
<1>3. ASSUME NEW d \in Daemons, ReadConfig(d) PROVE JobInv'
  BY <1>3 DEF ReadConfig, Exec
<1>4. ASSUME NEW d \in Daemons, ChimeCrashes(d) \/ ChimeStops(d) PROVE JobInv'
  BY <1>4 DEF ChimeCrashes, ChimeStops, Crash, Terminated, Forgotten
<1> QED
  BY <1>1, <1>2, <1>3, <1>4

\* No step of anybody breaks what the job relies on.
LEMMA JobInvStep == SupTypeOK /\ JobInv /\ [Next]_vars => JobInv'
<1> SUFFICES ASSUME SupTypeOK, JobInv, [Next]_vars PROVE JobInv'
  OBVIOUS
<1>1. ASSUME NEW r \in Requests, Poll(r) \/ GiveUp(r) PROVE JobInv'
  BY <1>1 DEF Poll, GiveUp, JobInv, Busy, Fresh, At, supVars
<1>2. CASE WebdStops \/ WebdCrashes \/ WebdStart
  BY <1>2 DEF WebdStops, WebdCrashes, WebdEnds, WebdStart, JobInv, Busy, Fresh, At, supVars
<1>3. ASSUME NEW c \in Controllers, NEW cmd \in {"start", "stop", "restart"}, OtherBegins(c, cmd)
      PROVE  JobInv'
  BY <1>3, ScriptKeeps DEF OtherBegins, webVars
<1>4. ASSUME NEW c \in Controllers, RunScript(c) \/ StartFails(c) \/ StartSupervisor(c)
      PROVE  JobInv'
  BY <1>4, ScriptKeeps DEF RunScript, StartFails, StartSupervisor, webVars
<1>5. CASE UNCHANGED vars \/ BindFails
  BY <1>5 DEF BindFails, vars, supVars, webVars, JobInv, Busy, Fresh, At
<1> QED
  BY <1>1, <1>2, <1>3, <1>4, <1>5, WebdKeeps, JobKeeps, ProcessKeeps DEF Next

\* So the job can rely on it in every reachable state.
LEMMA JobInvariant == Spec => [](SupTypeOK /\ JobInv)
<1>1. Init => SupTypeOK /\ JobInv
  BY SupInitial, JobInitial DEF Init
<1>2. SupTypeOK /\ JobInv /\ [Next]_vars => (SupTypeOK /\ JobInv)'
  BY SupTypeStep, RunsSupervisor, JobInvStep
<1> QED
  BY <1>1, <1>2, PTL DEF Spec

\* When the job reports success, the network and every chime that handles
\* rings run with its configuration or a newer one.  Nothing is assumed about
\* the others who run the script: they may overlap with the job's run.
THEOREM SuccessCovers == Spec => []JobCovers
<1>1. JobInv => JobCovers
  BY DEF JobInv, JobCovers, Fresh
<1> QED
  BY <1>1, JobInvariant, PTL

\* Nobody waits for a job that no thread runs, and no thread runs unnoticed.
THEOREM RunnerAlwaysMatches == Spec => []RunnerMatches
<1>1. JobInv => RunnerMatches
  BY DEF JobInv, RunnerMatches
<1> QED
  BY <1>1, JobInvariant, PTL

-----------------------------------------------------------------------------
(* The two files.                                                          *)

\* Between the two writes the Wi-Fi file is the save's own, and the files only
\* part for good when the second write was refused, which the UI never forgets.
TornInv ==
    /\ post.n <= MaxSaves
    /\ post.at # "idle" => post.n \in Requests
    /\ ui \in [Requests -> [state : {"editing", "waiting", "applied", "failed", "refused"},
                            job : Nat]]
    /\ post.at = "conf" => file.wpa = post.n
    /\ post.at = "apply" => file.wpa = file.conf
    /\ post.at \in {"idle", "wpa"} /\ file.wpa # file.conf =>
           file.wpa \in Requests /\ ui[file.wpa].state = "refused"

\* The request handler's steps, which write the files and answer the UI.
LEMMA WebdKeepsTorn ==
    ASSUME JobInv, TornInv, Post \/ WebdStep \/ ReloadFails \/ WebdCrashes
    PROVE  TornInv'
<1> USE ConfigAssumption DEF JobInv, TornInv, Requests
<1>1. CASE Post
  <2>1. /\ post.at = "idle" /\ post.n < MaxSaves /\ file' = file /\ ui' = ui
        /\ post' = [n |-> post.n + 1, at |-> "wpa"]
    BY <1>1 DEF Post, Ready
  <2> QED
    BY <2>1
<1>2. ASSUME Written("wpa", "conf") PROVE TornInv'
  BY <1>2 DEF Written
<1>3. ASSUME Written("conf", "apply") PROVE TornInv'
  BY <1>3 DEF Written
<1>4. ASSUME post.at # "idle", file' = file, post' = [post EXCEPT !.at = "idle"],
             ui' = [ui EXCEPT ![post.n].state = "refused"]
      PROVE  TornInv'
  <2>1. ui'[post.n].state = "refused" /\ \A r \in Requests : r # post.n => ui'[r] = ui[r]
    BY <1>4
  <2>2. ui' \in [Requests -> [state : {"editing", "waiting", "applied", "failed", "refused"},
                              job : Nat]]
    BY <1>4
  <2> QED
    BY <1>4, <2>1, <2>2
<1>6. ASSUME NEW f \in {"wpa", "conf"}, Refused(f) PROVE TornInv'
  BY <1>4, <1>6 DEF Refused
<1>7. CASE ReloadFails
  BY <1>4, <1>7 DEF ReloadFails
<1>8. CASE WebdCrashes
  <2>1. CASE post.at # "idle"
    BY <1>4, <1>8, <2>1 DEF WebdCrashes, WebdEnds
  <2>2. CASE post.at = "idle"
    BY <1>8, <2>2 DEF WebdCrashes, WebdEnds
  <2> QED
    BY <2>1, <2>2
<1>5. CASE StartApply
  <2>1. status'.job \in Nat
    BY <1>5 DEF StartApply
  <2> QED
    BY <1>5, <2>1 DEF StartApply
<1> QED
  BY <1>1, <1>2, <1>3, <1>5, <1>6, <1>7, <1>8 DEF WebdStep, SaveWpaSupplicant, SaveChimeConfig

\* Nobody else writes a file, and a poll only settles a request that waits.
LEMMA TornStep == JobInv /\ TornInv /\ [Next]_vars => TornInv'
<1> SUFFICES ASSUME JobInv, TornInv, [Next]_vars PROVE TornInv'
  OBVIOUS
<1>1. ASSUME UNCHANGED <<file, post, ui>> PROVE TornInv'
  BY <1>1 DEF TornInv
<1>2. ASSUME NEW r \in Requests, Poll(r) \/ GiveUp(r) PROVE TornInv'
  <2>1. /\ file' = file /\ post' = post
        /\ ui[r].state = "waiting"
        /\ \E s \in {"applied", "failed"} : ui' = [ui EXCEPT ![r] = [job |-> 0, state |-> s]]
    BY <1>2 DEF Poll, GiveUp
  <2> QED
    BY <2>1 DEF TornInv
<1>3. CASE JobStep \/ CommandFails
  BY <1>1, <1>3 DEF JobStep, RunApplyJob, CommandFails, NetworkStop, NetworkStart,
     RestartChime, JobDone
<1>4. ASSUME NEW c \in Controllers, NEW cmd \in {"start", "stop", "restart"}, OtherBegins(c, cmd)
      PROVE  TornInv'
  BY <1>1, <1>4 DEF OtherBegins, webVars
<1>5. ASSUME NEW c \in Controllers, RunScript(c) \/ StartFails(c) \/ StartSupervisor(c)
      PROVE  TornInv'
  BY <1>1, <1>5 DEF RunScript, StartFails, StartSupervisor, webVars
<1>6. ASSUME NEW s \in Supervisors, StartChime(s) \/ Reaped(s) PROVE TornInv'
  BY <1>1, <1>6 DEF StartChime, Reaped, webVars
<1>7. ASSUME NEW d \in Daemons, ReadConfig(d) \/ ChimeCrashes(d) \/ ChimeStops(d)
      PROVE  TornInv'
  BY <1>1, <1>7 DEF ReadConfig, ChimeCrashes, ChimeStops, Forgotten, webVars
<1>8. CASE WebdStops \/ WebdStart
  BY <1>1, <1>8 DEF WebdStops, WebdEnds, WebdStart
<1>9. CASE UNCHANGED vars \/ BindFails
  BY <1>1, <1>9 DEF BindFails, vars, webVars
<1> QED
  BY <1>2, <1>3, <1>4, <1>5, <1>6, <1>7, <1>8, <1>9, WebdKeepsTorn DEF Next

\* However saves, failing disks, jobs and restarts of webd interleave, the
\* Wi-Fi file and chime's file only disagree after a save that the UI reports
\* as refused.
THEOREM TornAlwaysReported == Spec => []TornSaveReported
<1>1. Init => TornInv
  BY ConfigAssumption DEF Init, TornInv, Requests
<1>2. JobInv /\ TornInv /\ [Next]_vars => TornInv'
  BY TornStep
<1>3. TornInv => TornSaveReported
  BY DEF TornInv, TornSaveReported
<1> QED
  BY <1>1, <1>2, <1>3, JobInvariant, PTL DEF Spec

=============================================================================
