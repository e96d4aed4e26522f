------------------------------ MODULE OtaUpdate -----------------------------
(***************************************************************************)
(* A/B firmware updates of the doorbell: ota-install, ota-confirm and      *)
(* ota-rollback (usr/local/sbin), the boot scripts S42otaguard and         *)
(* S99otaconfirm, and the deploy script that drives them over ssh.         *)
(*                                                                         *)
(* Two processes run the scripts: "init", the boot sequence, and "ssh",    *)
(* the operator's session, available from S50dropbear on.  Every write     *)
(* that survives a power cut is a step of its own.  The scripts' files     *)
(* live on two file systems, /data (pending.env) and /boot                 *)
(* (cmdline.txt); "file" is what the running system reads, "disk" what the *)
(* card holds.  The card lags behind until the kernel writes a file back,  *)
(* in any order, or a script calls sync; a power cut loses what it lacks.  *)
(* status.env (results, LAST_GOOD_SLOT, versions, times) is a report no    *)
(* script reads back, and is left out.                                     *)
(***************************************************************************)
EXTENDS Naturals

CONSTANTS Images,       \* the root file systems that can be installed
          Boots,        \* images that reach S42otaguard
          Supervises,   \* images whose two supervisors are running at S99
          Torn,         \* content of a slot dd has not finished
          NoPending,    \* there is no pending.env
          OTA_MAX_ATTEMPTS,
          Careful       \* commands the operator gives only when they are safe

Slots == {"A", "B"}

Pending == [TARGET_SLOT: Slots, PREVIOUS_SLOT: Slots,
            ATTEMPTS_LEFT: 1..OTA_MAX_ATTEMPTS]

ASSUME OtaAssumption ==
  /\ OTA_MAX_ATTEMPTS \in Nat /\ OTA_MAX_ATTEMPTS >= 2
  /\ Supervises \subseteq Boots /\ Boots \subseteq Images
  /\ Torn \notin Images
  /\ NoPending \notin Pending
  /\ Careful \subseteq {"install", "rollback", "confirm"}

VARIABLES slot,     \* content of the two root partitions
          file,     \* pending (pending.env) and root (cmdline.txt) as read
          disk,     \* the same two as the card holds them
          running,  \* the slot mounted as /
          pc,       \* where each process is
          target,   \* TARGET_SLOT of each process' script
          image,    \* the image ota-install was given (its SHA256)
          passes,   \* history: boots the guard let through since the install
          trusted,  \* history: slots confirmed since they were last written
          split     \* history: a power cut undid part of what scripts wrote

vars == <<slot, file, disk, running, pc, target, image, passes, trusted, split>>

Procs == {"init", "ssh"}

RollbackPC == {"rollback_root", "rollback_sync", "rollback_rm"}
ConfirmPC == {"confirm_read", "confirm_rm"}
InstallPC == {"install_write", "install_verify", "install_pending",
              "install_root", "install_sync", "install_done"}
InitPC == {"off", "hung", "guard", "services", "up", "reboot"}
            \cup RollbackPC \cup ConfirmPC
SshPC == {"idle", "reboot"} \cup InstallPC \cup RollbackPC \cup ConfirmPC

Other(s) == IF s = "A" THEN "B" ELSE "A"

(* Dropbear has been started. *)
Online == pc["init"] \in {"services", "up"} \cup ConfirmPC

-----------------------------------------------------------------------------
(* Files.  Store is one rewritten or removed file; Sync is sync(1).        *)

Store(f) ==
  /\ file' = f
  /\ UNCHANGED disk

Sync ==
  /\ file' = file
  /\ disk' = file

(* The kernel commits the journal of /data, or writes /boot back.          *)
WriteBackData ==
  /\ pc["init"] # "off"
  /\ disk' = [disk EXCEPT !.pending = file.pending]
  /\ UNCHANGED <<slot, file, running, pc, target, image, passes, trusted, split>>

WriteBackBoot ==
  /\ pc["init"] # "off"
  /\ disk' = [disk EXCEPT !.root = file.root]
  /\ UNCHANGED <<slot, file, running, pc, target, image, passes, trusted, split>>

-----------------------------------------------------------------------------
(* Power and boot. *)

Off == [p \in Procs |-> IF p = "init" THEN "off" ELSE "idle"]

(* The card has what the running system has, but for boots not counted.    *)
OnlyCountLags ==
  \/ disk = file
  \/ /\ file.pending # NoPending
     /\ \E n \in file.pending.ATTEMPTS_LEFT..OTA_MAX_ATTEMPTS :
          disk = [file EXCEPT !.pending.ATTEMPTS_LEFT = n]

PowerLoss ==
  /\ pc["init"] # "off"
  /\ pc' = Off
  /\ file' = disk
  /\ split' = (split \/ ~OnlyCountLags)
  /\ UNCHANGED <<slot, disk, running, target, image, passes, trusted>>

(* reboot(8), with the sync its implementation does. *)
Reboot(p) ==
  /\ pc[p] = "reboot"
  /\ pc' = Off
  /\ Sync
  /\ UNCHANGED <<slot, running, target, image, passes, trusted, split>>

(* Somebody restarts a device that has finished booting, or that hangs. *)
UserRestart ==
  /\ pc["init"] \in {"up", "hung"}
  /\ pc' = Off
  /\ Sync
  /\ UNCHANGED <<slot, running, target, image, passes, trusted, split>>

(* The firmware passes cmdline.txt to the kernel, which mounts that slot.  *)
Boot ==
  /\ pc["init"] = "off"
  /\ running' = file.root
  /\ pc' = [pc EXCEPT !["init"] = IF slot[running'] \in Boots THEN "guard" ELSE "hung"]
  /\ UNCHANGED <<slot, file, disk, target, image, passes, trusted, split>>

-----------------------------------------------------------------------------
(* S42otaguard.  A pending update counts only in its own slot. *)

OnTrial == file.pending # NoPending /\ file.pending.TARGET_SLOT = running

GuardSkip ==
  /\ pc["init"] = "guard"
  /\ ~OnTrial
  /\ pc' = [pc EXCEPT !["init"] = "services"]
  /\ UNCHANGED <<slot, file, disk, running, target, image, passes, trusted, split>>

(* mutant: the attempt is reported but not written back to pending.env *)
GuardCountLost ==
  /\ pc["init"] = "guard"
  /\ OnTrial
  /\ file.pending.ATTEMPTS_LEFT > 1
  /\ passes' = IF passes <= OTA_MAX_ATTEMPTS THEN passes + 1 ELSE passes
  /\ pc' = [pc EXCEPT !["init"] = "services"]
  /\ UNCHANGED <<slot, file, disk, running, target, image, trusted, split>>

(* mutant: off by one in the test for exhausted attempts *)
GuardCountBelowOne ==
  /\ pc["init"] = "guard"
  /\ OnTrial
  /\ file.pending.ATTEMPTS_LEFT >= 1
  /\ Store([file EXCEPT !.pending.ATTEMPTS_LEFT = @ - 1])
  /\ passes' = IF passes <= OTA_MAX_ATTEMPTS THEN passes + 1 ELSE passes
  /\ pc' = [pc EXCEPT !["init"] = "services"]
  /\ UNCHANGED <<slot, running, target, image, trusted, split>>

GuardCount ==
  /\ pc["init"] = "guard"
  /\ OnTrial
  /\ file.pending.ATTEMPTS_LEFT > 1
  /\ Store([file EXCEPT !.pending.ATTEMPTS_LEFT = @ - 1])
  /\ passes' = IF passes <= OTA_MAX_ATTEMPTS THEN passes + 1 ELSE passes
  /\ pc' = [pc EXCEPT !["init"] = "services"]
  /\ UNCHANGED <<slot, running, target, image, trusted, split>>

(* mutant: the pending record goes before cmdline.txt is rewritten *)
GuardForgetsFirst ==
  /\ pc["init"] = "guard"
  /\ OnTrial
  /\ file.pending.ATTEMPTS_LEFT <= 1
  /\ target' = [target EXCEPT !["init"] = file.pending.PREVIOUS_SLOT]
  /\ Store([file EXCEPT !.pending = NoPending])
  /\ pc' = [pc EXCEPT !["init"] = "rollback_root"]
  /\ UNCHANGED <<slot, running, image, passes, trusted, split>>

GuardExhausted ==
  /\ pc["init"] = "guard"
  /\ OnTrial
  /\ file.pending.ATTEMPTS_LEFT <= 1
  /\ target' = [target EXCEPT !["init"] = file.pending.PREVIOUS_SLOT]
  /\ pc' = [pc EXCEPT !["init"] = "rollback_root"]
  /\ UNCHANGED <<slot, file, disk, running, image, passes, trusted, split>>

-----------------------------------------------------------------------------
(* S99otaconfirm: the trial is confirmed if both supervisors are running.  *)

(* mutant: the status of the supervisors is not looked at *)
HealthUnchecked ==
  /\ pc["init"] = "services"
  /\ pc' = [pc EXCEPT !["init"] = IF file.pending # NoPending THEN "confirm_read" ELSE "up"]
  /\ UNCHANGED <<slot, file, disk, running, target, image, passes, trusted, split>>

HealthCheck ==
  /\ pc["init"] = "services"
  /\ pc' = [pc EXCEPT !["init"] =
              IF file.pending # NoPending /\ slot[running] \in Supervises
              THEN "confirm_read" ELSE "up"]
  /\ UNCHANGED <<slot, file, disk, running, target, image, passes, trusted, split>>

-----------------------------------------------------------------------------
(* ota-confirm, run by S99otaconfirm or over ssh. *)

Finished(p) == IF p = "init" THEN "up" ELSE "idle"

ConfirmRead(p) ==
  /\ pc[p] = "confirm_read"
  /\ pc' = [pc EXCEPT ![p] = IF OnTrial THEN "confirm_rm" ELSE Finished(p)]
  /\ UNCHANGED <<slot, file, disk, running, target, image, passes, trusted, split>>

ConfirmRm(p) ==
  /\ pc[p] = "confirm_rm"
  /\ Store([file EXCEPT !.pending = NoPending])
  /\ trusted' = trusted \cup {running}
  /\ pc' = [pc EXCEPT ![p] = Finished(p)]
  /\ UNCHANGED <<slot, running, target, image, passes, split>>

-----------------------------------------------------------------------------
(* ota-rollback, run by S42otaguard or over ssh. *)

(* mount /boot, rewrite cmdline.txt and sync: set_next_root_device. *)
RollbackRoot(p) ==
  /\ pc[p] = "rollback_root"
  /\ Store([file EXCEPT !.root = target[p]])
  /\ pc' = [pc EXCEPT ![p] = "rollback_sync"]
  /\ UNCHANGED <<slot, running, target, image, passes, trusted, split>>

(* /boot cannot be mounted: ota-rollback stops, the guard reboots anyway.  *)
GuardRollbackFails ==
  /\ pc["init"] = "rollback_root"
  /\ pc' = [pc EXCEPT !["init"] = "reboot"]
  /\ UNCHANGED <<slot, file, disk, running, target, image, passes, trusted, split>>

RollbackSync(p) ==
  /\ pc[p] = "rollback_sync"
  /\ Sync
  /\ pc' = [pc EXCEPT ![p] = "rollback_rm"]
  /\ UNCHANGED <<slot, running, target, image, passes, trusted, split>>

RollbackRm(p) ==
  /\ pc[p] = "rollback_rm"
  /\ Store([file EXCEPT !.pending = NoPending])
  /\ \E next \in {"reboot"} \cup (IF p = "ssh" THEN {"idle"} ELSE {}) :
        pc' = [pc EXCEPT ![p] = next]
  /\ UNCHANGED <<slot, running, target, image, passes, trusted, split>>

-----------------------------------------------------------------------------
(* The operator's session. *)

(* No update of the running slot is pending, the next boot runs it again,  *)
(* booting is over and the card is up to date.                             *)
Settled ==
  /\ pc["init"] = "up"
  /\ file.root = running
  /\ ~OnTrial
  /\ disk = file

(* ota-install begins to write the slot that is not running. *)
InstallStart(i) ==
  /\ Online
  /\ pc["ssh"] = "idle"
  /\ "install" \in Careful => Settled
  /\ target' = [target EXCEPT !["ssh"] = Other(running)]
  /\ slot' = [slot EXCEPT ![Other(running)] = Torn]
  /\ trusted' = trusted \ {Other(running)}
  /\ image' = i
  /\ pc' = [pc EXCEPT !["ssh"] = "install_write"]
  /\ UNCHANGED <<file, disk, running, passes, split>>

(* dd ends; a stream that broke off leaves something else than the image.  *)
InstallWrite ==
  /\ pc["ssh"] = "install_write"
  /\ \E written \in {image, Torn} : slot' = [slot EXCEPT ![target["ssh"]] = written]
  /\ pc' = [pc EXCEPT !["ssh"] = "install_verify"]
  /\ UNCHANGED <<file, disk, running, target, image, passes, trusted, split>>

(* mutant: the written partition is not read back *)
InstallUnverified ==
  /\ pc["ssh"] = "install_verify"
  /\ pc' = [pc EXCEPT !["ssh"] = "install_pending"]
  /\ UNCHANGED <<slot, file, disk, running, target, image, passes, trusted, split>>

InstallVerify ==
  /\ pc["ssh"] = "install_verify"
  /\ pc' = [pc EXCEPT !["ssh"] = IF slot[target["ssh"]] = image
                                 THEN "install_pending" ELSE "idle"]
  /\ UNCHANGED <<slot, file, disk, running, target, image, passes, trusted, split>>

(* mutant: the fallback recorded is the slot just written *)
InstallPendingTarget ==
  /\ pc["ssh"] = "install_pending"
  /\ Store([file EXCEPT !.pending = [TARGET_SLOT |-> target["ssh"],
                                     PREVIOUS_SLOT |-> target["ssh"],
                                     ATTEMPTS_LEFT |-> OTA_MAX_ATTEMPTS]])
  /\ passes' = 0
  /\ pc' = [pc EXCEPT !["ssh"] = "install_root"]
  /\ UNCHANGED <<slot, running, target, image, trusted, split>>

(* write_pending_state *)
InstallPending ==
  /\ pc["ssh"] = "install_pending"
  /\ Store([file EXCEPT !.pending = [TARGET_SLOT |-> target["ssh"],
                                     PREVIOUS_SLOT |-> running,
                                     ATTEMPTS_LEFT |-> OTA_MAX_ATTEMPTS]])
  /\ passes' = 0
  /\ pc' = [pc EXCEPT !["ssh"] = "install_root"]
  /\ UNCHANGED <<slot, running, target, image, trusted, split>>

InstallRoot ==
  /\ pc["ssh"] = "install_root"
  /\ Store([file EXCEPT !.root = target["ssh"]])
  /\ pc' = [pc EXCEPT !["ssh"] = "install_sync"]
  /\ UNCHANGED <<slot, running, target, image, passes, trusted, split>>

InstallSync ==
  /\ pc["ssh"] = "install_sync"
  /\ Sync
  /\ pc' = [pc EXCEPT !["ssh"] = "install_done"]
  /\ UNCHANGED <<slot, running, target, image, passes, trusted, split>>

(* --no-reboot leaves the update staged. *)
InstallDone ==
  /\ pc["ssh"] = "install_done"
  /\ \E next \in {"reboot", "idle"} : pc' = [pc EXCEPT !["ssh"] = next]
  /\ UNCHANGED <<slot, file, disk, running, target, image, passes, trusted, split>>

(* ota-rollback: --slot, else PREVIOUS_SLOT, else the slot not running.    *)
RollbackTargets ==
  Slots \cap (IF "rollback" \in Careful THEN trusted ELSE Slots)

RollbackStart ==
  /\ Online
  /\ pc["ssh"] = "idle"
  /\ target' \in {[target EXCEPT !["ssh"] = s] : s \in RollbackTargets}
  /\ pc' = [pc EXCEPT !["ssh"] = "rollback_root"]
  /\ UNCHANGED <<slot, file, disk, running, image, passes, trusted, split>>

(* ota-confirm looks at the slot only, and deploy.sh calls it as soon as   *)
(* ssh answers; a careful operator has seen both supervisors running.      *)
ConfirmStart ==
  /\ Online
  /\ "confirm" \in Careful => slot[running] \in Supervises
  /\ pc["ssh"] = "idle"
  /\ pc' = [pc EXCEPT !["ssh"] = "confirm_read"]
  /\ UNCHANGED <<slot, file, disk, running, target, image, passes, trusted, split>>

(* The connection drops, or a command fails under set -e. *)
SshAbort ==
  /\ pc["ssh"] \notin {"idle", "reboot"}
  /\ pc' = [pc EXCEPT !["ssh"] = "idle"]
  /\ UNCHANGED <<slot, file, disk, running, target, image, passes, trusted, split>>

-----------------------------------------------------------------------------
(* Both partitions are flashed with the same image; A is booted. *)
Init ==
  /\ \E i \in Supervises : slot = [s \in Slots |-> i]
  /\ file = [pending |-> NoPending, root |-> "A"]
  /\ disk = file
  /\ running = "A"
  /\ pc = Off
  /\ target = [p \in Procs |-> "A"]
  /\ image \in Images
  /\ passes = 0
  /\ trusted = Slots
  /\ split = FALSE

Script(p) ==
  \/ ConfirmRead(p) \/ ConfirmRm(p)
  \/ RollbackRoot(p) \/ RollbackSync(p) \/ RollbackRm(p)
  \/ Reboot(p)

InitStep == Boot \/ GuardSkip \/ GuardCount \/ GuardExhausted \/ HealthCheck \/ Script("init")

SshStep ==
  \/ \E i \in Images : InstallStart(i)
  \/ InstallWrite \/ InstallVerify \/ InstallPending \/ InstallRoot
  \/ InstallSync \/ InstallDone \/ RollbackStart \/ ConfirmStart
  \/ Script("ssh")

Fault == PowerLoss \/ SshAbort \/ GuardRollbackFails

Next == InitStep \/ SshStep \/ Fault \/ UserRestart \/ WriteBackData \/ WriteBackBoot

Spec == Init /\ [][Next]_vars

(* The boot scripts run to their end, and someone restarts the device.     *)
FairSpec == Spec /\ WF_vars(InitStep) /\ WF_vars(UserRestart)
=============================================================================
