----------------------------- MODULE OtaProofs -----------------------------
(***************************************************************************)
(* Proofs about OtaUpdate for every set of images, every number of         *)
(* attempts and every interleaving of scripts, power cuts and write-backs. *)
(***************************************************************************)
EXTENDS OtaProperties, TLAPS

(* The workflow the README of buildroot/ documents: a new install or a     *)
(* rollback is started only from a settled device.                         *)
Workflow == {"install", "rollback"} \subseteq Careful

Intact(s) == slot[s] # Torn

(* While a slot is being written nothing on the card or in the page cache  *)
(* leads to it: not cmdline.txt, not the fallback of a pending record, not *)
(* a rollback under way, not a confirmed slot.                             *)
IntactInv ==
  /\ TypeOK
  /\ \A s \in trusted : Intact(s)
  /\ \A f \in {file, disk} :
       /\ Intact(f.root)
       /\ f.pending # NoPending =>
            /\ Intact(f.pending.PREVIOUS_SLOT)
            /\ f.pending.PREVIOUS_SLOT # f.pending.TARGET_SLOT
  /\ pc["init"] \notin {"off", "hung"} => Intact(running)
  /\ pc["init"] \in {"off", "hung", "guard"} => pc["ssh"] = "idle"
  /\ \A p \in Procs : pc[p] = "rollback_root" => Intact(target[p])
  /\ pc["ssh"] \in InstallPC => pc["init"] = "up" /\ target["ssh"] = Other(running)
  /\ pc["ssh"] \in {"install_write", "install_verify"} =>
       \A f \in {file, disk} :
         /\ f.root = running
         /\ f.pending # NoPending => f.pending.PREVIOUS_SLOT = running
  /\ pc["ssh"] \in {"install_write", "install_verify"} => target["ssh"] \notin trusted
  /\ pc["ssh"] \in {"install_pending", "install_root"} => Intact(target["ssh"])

(* What the running system reads: the pending record and cmdline.txt name  *)
(* the trial together, and only confirmed slots are reached another way.   *)
GuardCore ==
  /\ EveryTrialGuarded
  /\ Guarded(file.root) => file.pending.PREVIOUS_SLOT \in trusted \ {file.root}
  /\ file.pending # NoPending => file.pending.TARGET_SLOT \notin trusted
  /\ pc["init"] \in {"off", "hung", "guard", "reboot"} \cup RollbackPC => pc["ssh"] = "idle"
  /\ pc["init"] = "guard" => file.root = running
  /\ pc["ssh"] \in InstallPC =>
       /\ pc["init"] = "up"
       /\ target["ssh"] = Other(running)
       /\ running \in trusted
       /\ target["ssh"] \notin trusted
       /\ pc["ssh"] \notin {"install_sync", "install_done"} => file.root = running
  /\ pc["ssh"] = "install_root" =>
       /\ file.pending # NoPending
       /\ file.pending.TARGET_SLOT = target["ssh"]
       /\ file.pending.PREVIOUS_SLOT = running
       /\ file.pending.ATTEMPTS_LEFT = OTA_MAX_ATTEMPTS
  /\ \A p \in Procs :
       /\ pc[p] \in RollbackPC => target[p] \in trusted
       /\ pc[p] \in {"rollback_sync", "rollback_rm"} => file.root = target[p]
       /\ pc[p] = "confirm_rm" => file.pending = NoPending \/ OnTrial

(* It holds until a power cut undoes more than a count. *)
GuardInv == TypeOK /\ (split \/ GuardCore)

-----------------------------------------------------------------------------
(* The actions of Next, one by one, for the case splits below. *)

(* Every step is one of the named actions. *)
LEMMA NextCases ==
  ASSUME Next
  PROVE  \/ PowerLoss \/ UserRestart \/ Boot \/ WriteBackData \/ WriteBackBoot
         \/ GuardSkip \/ GuardCount \/ GuardExhausted \/ GuardRollbackFails
         \/ HealthCheck
         \/ \E p \in Procs : \/ ConfirmRead(p) \/ ConfirmRm(p) \/ RollbackRoot(p)
                              \/ RollbackSync(p) \/ RollbackRm(p) \/ Reboot(p)
         \/ \E i \in Images : InstallStart(i)
         \/ InstallWrite \/ InstallVerify \/ InstallPending \/ InstallRoot
         \/ InstallSync \/ InstallDone \/ RollbackStart \/ ConfirmStart \/ SshAbort
BY DEF Next, InitStep, SshStep, Fault, Script, Procs

(* Every variable stays in its range: initially, and over every step. *)
LEMMA InitType == Init => TypeOK
<1>1. ASSUME Init PROVE TypeOK
  <2>1. split \in BOOLEAN
    BY <1>1 DEF Init
  <2>2. passes \in 0..(OTA_MAX_ATTEMPTS + 1)
    BY <1>1, OtaAssumption DEF Init
  <2>3. QED
    BY <1>1, <2>1, <2>2, OtaAssumption
    DEF Init, TypeOK, Files, Slots, Procs, Off, InitPC, SshPC
<1>2. QED
  BY <1>1

(* ... and over every step. *)
LEMMA StepType ==
  ASSUME TypeOK, [Next]_vars
  PROVE  TypeOK'
<1> USE OtaAssumption DEF TypeOK, Files, Slots, Procs, InitPC, SshPC, RollbackPC, ConfirmPC, InstallPC
<1>1. CASE UNCHANGED vars
  BY <1>1 DEF vars
<1>2. CASE UserRestart \/ Boot \/ WriteBackData \/ WriteBackBoot
  BY <1>2 DEF UserRestart, Boot, WriteBackData, WriteBackBoot, Sync, Off
<1>14. CASE PowerLoss
  <2>1. split' \in BOOLEAN
    BY <1>14 DEF PowerLoss
  <2>2. QED
    BY <1>14, <2>1 DEF PowerLoss, Off
<1>3. CASE GuardSkip \/ GuardRollbackFails \/ HealthCheck
  BY <1>3 DEF GuardSkip, GuardRollbackFails, HealthCheck
<1>11. CASE GuardExhausted
  BY <1>11 DEF GuardExhausted, OnTrial, Pending
<1>4. CASE GuardCount
  BY <1>4 DEF GuardCount, OnTrial, Pending, Store
<1>5. ASSUME NEW p \in Procs,
             \/ ConfirmRead(p) \/ ConfirmRm(p) \/ RollbackRoot(p)
             \/ RollbackSync(p) \/ RollbackRm(p) \/ Reboot(p)
      PROVE  TypeOK'
  BY <1>5 DEF ConfirmRead, ConfirmRm, RollbackRoot, RollbackSync, RollbackRm, Reboot,
              Store, Sync, Off, Finished
<1>6. CASE \E i \in Images : InstallStart(i)
  BY <1>6 DEF InstallStart, Other
<1>7. CASE InstallWrite \/ InstallVerify \/ InstallRoot \/ InstallSync \/ InstallDone
  BY <1>7 DEF InstallWrite, InstallVerify, InstallRoot, InstallSync, InstallDone, Store, Sync
<1>8. CASE InstallPending
  BY <1>8 DEF InstallPending, Store, Pending
<1>9. CASE ConfirmStart
  BY <1>9 DEF ConfirmStart
<1>13. CASE SshAbort
  BY <1>13 DEF SshAbort
<1>12. CASE RollbackStart
  <2>1. PICK s \in Slots : target' = [target EXCEPT !["ssh"] = s]
    BY <1>12 DEF RollbackStart, RollbackTargets
  <2>2. QED
    BY <1>12, <2>1 DEF RollbackStart
<1>10. QED
  BY <1>1, <1>2, <1>3, <1>4, <1>5, <1>6, <1>7, <1>8, <1>9, <1>11, <1>12, <1>13,
     <1>14, NextCases

(* No script, power cut or abort drives a variable out of its range. *)
THEOREM TypeCorrect == Spec => []TypeOK
<1>1. QED
  BY InitType, StepType, PTL DEF Spec

-----------------------------------------------------------------------------
(* The next boot is intact, with or without write-back. *)

(* Nothing on a freshly flashed card is torn. *)
LEMMA InitIntact == Init => IntactInv
<1>1. Init => TypeOK
  BY InitType
<1>2. QED
  BY <1>1, OtaAssumption
  DEF Init, IntactInv, Intact, TypeOK, Slots, Procs, Off, InstallPC

(* A step that touches neither slots nor files keeps whatever is intact.   *)
LEMMA StepIntact ==
  ASSUME IntactInv, Workflow, [Next]_vars
  PROVE  IntactInv'
<1> USE OtaAssumption DEF Workflow
<1> TypeOK /\ TypeOK'
  BY StepType DEF IntactInv
<1> USE DEF IntactInv, Intact, TypeOK, Slots, Procs
<1>1. CASE UNCHANGED vars
  BY <1>1 DEF vars
<1>2. CASE PowerLoss
  BY <1>2 DEF PowerLoss, Off, InstallPC
<1>3. CASE UserRestart
  BY <1>3 DEF UserRestart, Sync, Off, InstallPC
<1>4. CASE Boot
  BY <1>4 DEF Boot, InstallPC
<1>5. CASE WriteBackData
  BY <1>5 DEF WriteBackData
<1>6. CASE WriteBackBoot
  BY <1>6 DEF WriteBackBoot
<1>7. CASE GuardSkip \/ GuardRollbackFails \/ HealthCheck
  BY <1>7 DEF GuardSkip, GuardRollbackFails, HealthCheck, InstallPC
<1>8. CASE GuardCount
  <2>1. /\ file'.root = file.root
        /\ file'.pending.PREVIOUS_SLOT = file.pending.PREVIOUS_SLOT
        /\ file'.pending.TARGET_SLOT = file.pending.TARGET_SLOT
    BY <1>8 DEF GuardCount, OnTrial, Store, Files, Pending
  <2>2. file.pending # NoPending /\ disk' \in {disk, file'}
    BY <1>8 DEF GuardCount, OnTrial, Store
  <2>3. QED
    BY <1>8, <2>1, <2>2 DEF GuardCount, InstallPC
<1>9. CASE GuardExhausted
  BY <1>9 DEF GuardExhausted, OnTrial, InstallPC
<1>10. ASSUME NEW p \in Procs, ConfirmRead(p) \/ ConfirmRm(p)
       PROVE  IntactInv'
  <2>1. CASE ConfirmRead(p)
    BY <2>1 DEF ConfirmRead, Finished, InstallPC
  <2>2. CASE ConfirmRm(p)
    <3>1. trusted' = trusted \cup {running} /\ Intact(running)
      BY <2>2 DEF ConfirmRm
    <3>2. /\ file'.root = file.root /\ file'.pending = NoPending
          /\ disk' \in {disk, file'}
      BY <2>2 DEF ConfirmRm, Store, Files
    <3>3. QED
      BY <2>2, <3>1, <3>2 DEF ConfirmRm, Finished, InstallPC
  <2>3. QED
    BY <1>10, <2>1, <2>2
<1>11. ASSUME NEW p \in Procs, RollbackRoot(p)
       PROVE  IntactInv'
  BY <1>11 DEF RollbackRoot, Store, InstallPC
<1>12. ASSUME NEW p \in Procs, RollbackSync(p) \/ RollbackRm(p) \/ Reboot(p)
       PROVE  IntactInv'
  <2>1. CASE RollbackSync(p)
    BY <2>1 DEF RollbackSync, Sync, InstallPC
  <2>2. CASE RollbackRm(p)
    <3>1. /\ file'.root = file.root /\ file'.pending = NoPending
          /\ disk' \in {disk, file'}
      BY <2>2 DEF RollbackRm, Store, Files
    <3>2. QED
      BY <2>2, <3>1 DEF RollbackRm, InstallPC
  <2>3. CASE Reboot(p)
    BY <2>3 DEF Reboot, Sync, Off, InstallPC
  <2>4. QED
    BY <1>12, <2>1, <2>2, <2>3
<1>13. ASSUME NEW i \in Images, InstallStart(i)
       PROVE  IntactInv'
  BY <1>13 DEF InstallStart, Settled, OnTrial, Other, InstallPC, Files, Pending
<1>14. CASE InstallWrite
  <2>1. PICK w \in {image, Torn} : slot' = [slot EXCEPT ![target["ssh"]] = w]
    BY <1>14 DEF InstallWrite
  <2>2. target["ssh"] = Other(running) /\ pc["init"] = "up"
    BY <1>14 DEF InstallWrite, InstallPC
  <2>3. \A s \in Slots : s # target["ssh"] => slot'[s] = slot[s]
    BY <2>1
  <2>4. target["ssh"] \notin trusted
    BY <1>14 DEF InstallWrite
  <2>5. /\ pc' = [pc EXCEPT !["ssh"] = "install_verify"]
        /\ pc["ssh"] = "install_write"
        /\ UNCHANGED <<file, disk, running, target, trusted>>
    BY <1>14 DEF InstallWrite
  <2>6. /\ file.root # target["ssh"] /\ disk.root # target["ssh"]
        /\ file.pending # NoPending => file.pending.PREVIOUS_SLOT # target["ssh"]
        /\ disk.pending # NoPending => disk.pending.PREVIOUS_SLOT # target["ssh"]
    BY <2>2, <2>5 DEF Other
  <2>7. \A f \in {file, disk} : f \in Files
    OBVIOUS
  <2>8. QED
    BY <2>2, <2>3, <2>4, <2>5, <2>6, <2>7 DEF InstallPC, Other, Files, Pending
<1>15. CASE InstallVerify \/ InstallSync \/ InstallDone
  <2>1. CASE InstallVerify
    BY <2>1 DEF InstallVerify, InstallPC
  <2>2. CASE InstallSync
    BY <2>2 DEF InstallSync, Sync, InstallPC
  <2>3. CASE InstallDone
    <3>1. PICK next \in {"reboot", "idle"} : pc' = [pc EXCEPT !["ssh"] = next]
      BY <2>3 DEF InstallDone
    <3>2. QED
      BY <2>3, <3>1 DEF InstallDone, InstallPC
  <2>4. QED
    BY <1>15, <2>1, <2>2, <2>3
<1>16. CASE InstallPending
  BY <1>16 DEF InstallPending, Store, InstallPC, Other
<1>17. CASE InstallRoot
  BY <1>17 DEF InstallRoot, Store, InstallPC
<1>18. CASE RollbackStart
  <2>1. RollbackTargets \subseteq trusted
    BY DEF RollbackTargets
  <2>2. PICK s \in trusted : target' = [target EXCEPT !["ssh"] = s]
    BY <1>18, <2>1 DEF RollbackStart
  <2>3. /\ pc["ssh"] = "idle"
        /\ pc["init"] \notin {"off", "hung", "guard"}
        /\ pc' = [pc EXCEPT !["ssh"] = "rollback_root"]
        /\ UNCHANGED <<slot, file, disk, running, trusted>>
    BY <1>18 DEF RollbackStart, Online, ConfirmPC
  <2>4. QED
    BY <2>2, <2>3 DEF InstallPC
<1>19. CASE ConfirmStart
  <2>1. /\ pc["ssh"] = "idle"
        /\ pc["init"] \notin {"off", "hung", "guard"}
        /\ pc' = [pc EXCEPT !["ssh"] = "confirm_read"]
        /\ UNCHANGED <<slot, file, disk, running, target, trusted>>
    BY <1>19 DEF ConfirmStart, Online, ConfirmPC
  <2>2. QED
    BY <2>1 DEF InstallPC
<1>20. CASE SshAbort
  BY <1>20 DEF SshAbort, InstallPC
<1>21. QED
  BY <1>1, <1>2, <1>3, <1>4, <1>5, <1>6, <1>7, <1>8, <1>9, <1>10, <1>11,
     <1>12, <1>13, <1>14, <1>15, <1>16, <1>17, <1>18, <1>19, <1>20, NextCases

(* With the documented workflow no power cut, at any moment and whatever   *)
(* the kernel has written back, leaves the card booting a torn slot.       *)
THEOREM BootsIntact == Workflow => (Spec => []NextBootIntact)
<1> SUFFICES ASSUME Workflow PROVE Spec => []NextBootIntact
  OBVIOUS
<1>1. Init => IntactInv
  BY InitIntact
<1>2. IntactInv /\ [Next]_vars => IntactInv'
  BY StepIntact
<1>3. IntactInv => NextBootIntact
  BY DEF IntactInv, NextBootIntact, Intact
<1>4. QED
  BY <1>1, <1>2, <1>3, PTL DEF Spec

-----------------------------------------------------------------------------
(* Trials are guarded until a power cut undoes more than a count. *)

(* The flashed card has no trial and trusts both slots. *)
LEMMA InitGuard == Init => GuardInv
<1>1. Init => TypeOK
  BY InitType
<1>2. QED
  BY <1>1, OtaAssumption
  DEF Init, GuardInv, GuardCore, EveryTrialGuarded, Guarded, Slots, Procs, Off, InstallPC,
      RollbackPC

(* A cut that lets only the count lag keeps the slots named by both files. *)
LEMMA CountLags ==
  ASSUME TypeOK, OnlyCountLags
  PROVE  /\ disk.root = file.root
         /\ disk.pending = NoPending <=> file.pending = NoPending
         /\ disk.pending # NoPending =>
              /\ disk.pending.TARGET_SLOT = file.pending.TARGET_SLOT
              /\ disk.pending.PREVIOUS_SLOT = file.pending.PREVIOUS_SLOT
              /\ disk.pending.ATTEMPTS_LEFT >= file.pending.ATTEMPTS_LEFT
<1> USE OtaAssumption
<1>1. CASE disk = file
  BY <1>1 DEF TypeOK, Files, Pending
<1>2. CASE disk # file
  <2>1. PICK n \in file.pending.ATTEMPTS_LEFT..OTA_MAX_ATTEMPTS :
          disk = [file EXCEPT !.pending.ATTEMPTS_LEFT = n]
    BY <1>2 DEF OnlyCountLags
  <2>2. file.pending \in Pending /\ file.pending # NoPending
    BY <1>2 DEF OnlyCountLags, TypeOK, Files
  <2>3. /\ disk.root = file.root
        /\ disk.pending = [file.pending EXCEPT !.ATTEMPTS_LEFT = n]
    BY <2>1 DEF TypeOK, Files
  <2>4. disk.pending \in Pending
    BY <2>2, <2>3 DEF Pending
  <2>5. QED
    BY <2>2, <2>3, <2>4 DEF Pending
<1>3. QED
  BY <1>1, <1>2

(* Every step keeps the pending record and cmdline.txt telling one story.  *)
LEMMA StepCore ==
  ASSUME TypeOK, GuardCore, Workflow, [Next]_vars, ~split'
  PROVE  GuardCore'
<1> USE OtaAssumption DEF Workflow
<1> TypeOK'
  BY StepType
<1> DEFINE Pc(p, x) == pc' = [pc EXCEPT ![p] = x]
<1>0. ASSUME NEW f, Store(f) PROVE file' = f
  BY <1>0 DEF Store
<1> USE DEF GuardCore, EveryTrialGuarded, Guarded, TypeOK, Slots, Procs
<1>1. CASE UNCHANGED vars
  BY <1>1 DEF vars, OnTrial
<1>2. CASE PowerLoss
  <2>1. OnlyCountLags /\ file' = disk
    BY <1>2 DEF PowerLoss
  <2>2. QED
    BY <1>2, <2>1, CountLags DEF PowerLoss, Off, InstallPC, RollbackPC
<1>3. CASE UserRestart
  BY <1>3 DEF UserRestart, Sync, Off, InstallPC, RollbackPC
<1>4. CASE Boot
  BY <1>4 DEF Boot, InstallPC, RollbackPC
<1>5. CASE WriteBackData \/ WriteBackBoot
  BY <1>5 DEF WriteBackData, WriteBackBoot, InstallPC, RollbackPC, OnTrial
<1>6. CASE GuardSkip \/ GuardRollbackFails \/ HealthCheck
  BY <1>6 DEF GuardSkip, GuardRollbackFails, HealthCheck, InstallPC, RollbackPC, OnTrial
<1>7. CASE GuardCount
  <2>1. /\ file'.root = file.root
        /\ file'.pending # NoPending
        /\ file'.pending.PREVIOUS_SLOT = file.pending.PREVIOUS_SLOT
        /\ file'.pending.TARGET_SLOT = file.pending.TARGET_SLOT
    BY <1>7, <1>0 DEF GuardCount, OnTrial, Files, Pending
  <2>2. file.pending # NoPending
    BY <1>7, <1>0 DEF GuardCount, OnTrial
  <2>3. QED
    BY <1>7, <2>1, <2>2 DEF GuardCount, InstallPC, RollbackPC, OnTrial
<1>8. CASE GuardExhausted
  BY <1>8 DEF GuardExhausted, OnTrial, InstallPC, RollbackPC
<1>9. ASSUME NEW p \in Procs, ConfirmRead(p)
      PROVE  GuardCore'
  BY <1>9 DEF ConfirmRead, Finished, InstallPC, RollbackPC, OnTrial
<1>10. ASSUME NEW p \in Procs, ConfirmRm(p)
       PROVE  GuardCore'
  <2>1. /\ file'.root = file.root /\ file'.pending = NoPending
    BY <1>10, <1>0 DEF ConfirmRm, Files
  <2>2. QED
    BY <1>10, <2>1 DEF ConfirmRm, Finished, InstallPC, RollbackPC, OnTrial
<1>11. ASSUME NEW p \in Procs, RollbackRoot(p)
       PROVE  GuardCore'
  <2>1. file'.root = target[p] /\ file'.pending = file.pending
    BY <1>11, <1>0 DEF RollbackRoot, Files
  <2>2. QED
    BY <1>11, <2>1 DEF RollbackRoot, InstallPC, RollbackPC, OnTrial
<1>12. ASSUME NEW p \in Procs, RollbackSync(p)
       PROVE  GuardCore'
  BY <1>12 DEF RollbackSync, Sync, InstallPC, RollbackPC, OnTrial
<1>13. ASSUME NEW p \in Procs, RollbackRm(p)
       PROVE  GuardCore'
  <2>1. /\ file'.root = file.root /\ file'.pending = NoPending
    BY <1>13, <1>0 DEF RollbackRm, Files
  <2>2. QED
    BY <1>13, <2>1 DEF RollbackRm, InstallPC, RollbackPC, OnTrial
<1>14. ASSUME NEW p \in Procs, Reboot(p)
       PROVE  GuardCore'
  BY <1>14 DEF Reboot, Sync, Off, InstallPC, RollbackPC, OnTrial
<1>15. ASSUME NEW i \in Images, InstallStart(i)
       PROVE  GuardCore'
  BY <1>15 DEF InstallStart, Settled, OnTrial, Other, InstallPC, RollbackPC, ConfirmPC
<1>16. CASE InstallWrite \/ InstallVerify
  BY <1>16 DEF InstallWrite, InstallVerify, InstallPC, RollbackPC, OnTrial
<1>17. CASE InstallPending
  <2>1. /\ file'.root = file.root
        /\ file'.pending = [TARGET_SLOT |-> target["ssh"], PREVIOUS_SLOT |-> running,
                            ATTEMPTS_LEFT |-> OTA_MAX_ATTEMPTS]
    BY <1>17, <1>0 DEF InstallPending, Files
  <2>2. file'.pending # NoPending
    BY <2>1 DEF Pending
  <2>3. /\ pc["ssh"] = "install_pending" /\ Pc("ssh", "install_root")
        /\ UNCHANGED <<running, target, trusted>>
    BY <1>17 DEF InstallPending
  <2>4. /\ pc["init"] = "up" /\ target["ssh"] = Other(running) /\ file.root = running
        /\ running \in trusted /\ target["ssh"] \notin trusted
    BY <2>3 DEF InstallPC
  <2>5. QED
    BY <2>1, <2>2, <2>3, <2>4 DEF InstallPC, RollbackPC, OnTrial, Other
<1>18. CASE InstallRoot
  <2>1. file'.root = target["ssh"] /\ file'.pending = file.pending
    BY <1>18, <1>0 DEF InstallRoot, Files
  <2>2. QED
    BY <1>18, <2>1 DEF InstallRoot, InstallPC, RollbackPC, OnTrial, Other
<1>19. CASE InstallSync
  BY <1>19 DEF InstallSync, Sync, InstallPC, RollbackPC, OnTrial
<1>20. CASE InstallDone
  <2>1. PICK next \in {"reboot", "idle"} : Pc("ssh", next)
    BY <1>20 DEF InstallDone
  <2>2. QED
    BY <1>20, <2>1 DEF InstallDone, InstallPC, RollbackPC, OnTrial
<1>21. CASE RollbackStart
  <2>1. RollbackTargets \subseteq trusted
    BY DEF RollbackTargets
  <2>2. PICK s \in trusted : target' = [target EXCEPT !["ssh"] = s]
    BY <1>21, <2>1 DEF RollbackStart
  <2>3. /\ pc["ssh"] = "idle"
        /\ pc["init"] \in {"services", "up"} \cup ConfirmPC
        /\ Pc("ssh", "rollback_root")
        /\ UNCHANGED <<slot, file, disk, running, trusted>>
    BY <1>21 DEF RollbackStart, Online
  <2>4. QED
    BY <2>2, <2>3 DEF InstallPC, RollbackPC, ConfirmPC, OnTrial
<1>22. CASE ConfirmStart
  <2>1. /\ pc["ssh"] = "idle"
        /\ pc["init"] \in {"services", "up"} \cup ConfirmPC
        /\ Pc("ssh", "confirm_read")
        /\ UNCHANGED <<slot, file, disk, running, target, trusted>>
    BY <1>22 DEF ConfirmStart, Online
  <2>2. QED
    BY <2>1 DEF InstallPC, RollbackPC, ConfirmPC, OnTrial
<1>23. CASE SshAbort
  BY <1>23 DEF SshAbort, InstallPC, RollbackPC, OnTrial
<1>24. QED
  BY <1>1, <1>2, <1>3, <1>4, <1>5, <1>6, <1>7, <1>8, <1>9, <1>10, <1>11, <1>12, <1>13,
     <1>14, <1>15, <1>16, <1>17, <1>18, <1>19, <1>20, <1>21, <1>22, <1>23, NextCases

(* Once a power cut has split the files, the history variable says so.     *)
LEMMA SplitStays ==
  ASSUME [Next]_vars
  PROVE  split => split'
<1>1. CASE PowerLoss
  BY <1>1 DEF PowerLoss
<1>2. CASE ~PowerLoss
  BY <1>2, NextCases
  DEF vars, UserRestart, Boot, WriteBackData, WriteBackBoot, GuardSkip, GuardCount,
      GuardExhausted, GuardRollbackFails, HealthCheck, ConfirmRead, ConfirmRm,
      RollbackRoot, RollbackSync, RollbackRm, Reboot, InstallStart, InstallWrite,
      InstallVerify, InstallPending, InstallRoot, InstallSync, InstallDone,
      RollbackStart, ConfirmStart, SshAbort
<1>3. QED
  BY <1>1, <1>2

(* Once split, a behaviour stays so; until then it keeps the invariant.    *)
LEMMA StepGuard ==
  ASSUME GuardInv, Workflow, [Next]_vars
  PROVE  GuardInv'
<1>1. TypeOK /\ TypeOK'
  BY StepType DEF GuardInv
<1>2. split => split'
  BY SplitStays
<1>3. CASE split'
  BY <1>1, <1>3 DEF GuardInv
<1>4. CASE ~split'
  BY <1>1, <1>2, <1>4, StepCore DEF GuardInv
<1>5. QED
  BY <1>3, <1>4

(* With the documented workflow the guard covers every boot of an          *)
(* unconfirmed firmware, and has a confirmed slot to fall back to, until a *)
(* power cut undoes more than a count.                                     *)
THEOREM TrialsGuarded == Workflow => (Spec => [](TrialIsGuarded /\ FallbackTrusted))
<1> SUFFICES ASSUME Workflow
             PROVE  Spec => [](TrialIsGuarded /\ FallbackTrusted)
  OBVIOUS
<1>1. Init => GuardInv
  BY InitGuard
<1>2. GuardInv /\ [Next]_vars => GuardInv'
  BY StepGuard
<1>3. GuardInv => TrialIsGuarded /\ FallbackTrusted
  BY DEF GuardInv, GuardCore, TrialIsGuarded, FallbackTrusted, EveryTrialGuarded, Guarded,
         Procs, RollbackPC
<1>4. QED
  BY <1>1, <1>2, <1>3, PTL DEF Spec

-----------------------------------------------------------------------------
(* Only a firmware that keeps the supervisors running is confirmed. *)

(* Where a confirmation is under way the running firmware is healthy, and  *)
(* an installation only writes the slot that is not running.               *)
HealthInv ==
  /\ TypeOK
  /\ ConfirmedIsSupervised
  /\ pc["init"] = "off" => pc["ssh"] = "idle"
  /\ \A p \in Procs : pc[p] \in ConfirmPC => slot[running] \in Supervises
  /\ pc["ssh"] \in {"install_write", "install_verify"} =>
       target["ssh"] = Other(running) /\ target["ssh"] \notin trusted

(* Every step keeps that, the boot script's confirmation beside a session's. *)
LEMMA StepHealth ==
  ASSUME HealthInv, "confirm" \in Careful, [Next]_vars
  PROVE  HealthInv'
<1> USE OtaAssumption
<1> TypeOK /\ TypeOK'
  BY StepType DEF HealthInv
<1> USE DEF HealthInv, ConfirmedIsSupervised, TypeOK, Slots, Procs, ConfirmPC, Other
<1>1. CASE UNCHANGED vars
  BY <1>1 DEF vars
<1>2. CASE PowerLoss \/ UserRestart \/ Boot \/ WriteBackData \/ WriteBackBoot
  BY <1>2 DEF PowerLoss, UserRestart, Boot, WriteBackData, WriteBackBoot, Sync, Off
<1>3. CASE GuardSkip \/ GuardCount \/ GuardExhausted \/ GuardRollbackFails
  BY <1>3 DEF GuardSkip, GuardCount, GuardExhausted, GuardRollbackFails
<1>4. CASE HealthCheck
  BY <1>4 DEF HealthCheck
<1>5. ASSUME NEW p \in Procs, ConfirmRead(p) PROVE HealthInv'
  BY <1>5 DEF ConfirmRead, Finished
<1>6. ASSUME NEW p \in Procs, ConfirmRm(p) PROVE HealthInv'
  BY <1>6 DEF ConfirmRm, Finished
<1>7. ASSUME NEW p \in Procs, RollbackRoot(p) \/ RollbackSync(p) \/ RollbackRm(p) \/ Reboot(p)
      PROVE  HealthInv'
  <2>1. CASE Reboot(p)
    BY <2>1 DEF Reboot, Off
  <2>2. CASE RollbackRoot(p) \/ RollbackSync(p) \/ RollbackRm(p)
    <3>1. PICK x \in {"rollback_sync", "rollback_rm", "reboot", "idle"} :
            pc' = [pc EXCEPT ![p] = x] /\ (x = "idle" => p = "ssh")
      <4>1. CASE RollbackRoot(p) \/ RollbackSync(p)
        BY <4>1 DEF RollbackRoot, RollbackSync
      <4>2. CASE RollbackRm(p)
        <5>1. PICK next \in {"reboot"} \cup (IF p = "ssh" THEN {"idle"} ELSE {}) :
                pc' = [pc EXCEPT ![p] = next]
          BY <4>2 DEF RollbackRm
        <5>2. QED
          BY <5>1
      <4>3. QED
        BY <2>2, <4>1, <4>2
    <3>2. UNCHANGED <<slot, running, trusted, target>> /\ pc[p] \notin {"off", "idle"}
      BY <2>2 DEF RollbackRoot, RollbackSync, RollbackRm
    <3>3. QED
      BY <3>1, <3>2
  <2>3. QED
    BY <1>7, <2>1, <2>2
<1>8. CASE \E i \in Images : InstallStart(i)
  BY <1>8 DEF InstallStart, Online
<1>9. CASE InstallWrite
  BY <1>9 DEF InstallWrite
<1>10. CASE InstallVerify \/ InstallPending \/ InstallRoot \/ InstallSync \/ InstallDone
  BY <1>10 DEF InstallVerify, InstallPending, InstallRoot, InstallSync, InstallDone
<1>11. CASE RollbackStart \/ ConfirmStart \/ SshAbort
  BY <1>11 DEF RollbackStart, ConfirmStart, SshAbort, Online
<1>12. QED
  BY <1>1, <1>2, <1>3, <1>4, <1>5, <1>6, <1>7, <1>8, <1>9, <1>10, <1>11, NextCases

(* If a session confirms only what it has seen running, no order of        *)
(* installations, confirmations, rollbacks and power cuts ever counts a    *)
(* slot as good whose firmware does not keep its supervisors running, with *)
(* or without write-back.                                                  *)
THEOREM ConfirmedStaysHealthy ==
  "confirm" \in Careful => (Spec => []ConfirmedIsSupervised)
<1>1. SUFFICES ASSUME "confirm" \in Careful
               PROVE  Spec => []ConfirmedIsSupervised
  OBVIOUS
<1>2. Init => HealthInv
  BY InitType, OtaAssumption
  DEF Init, HealthInv, ConfirmedIsSupervised, Procs, Off, ConfirmPC, Slots
<1>3. HealthInv /\ [Next]_vars => HealthInv'
  BY <1>1, StepHealth
<1>4. HealthInv => ConfirmedIsSupervised
  BY DEF HealthInv
<1>5. QED
  BY <1>2, <1>3, <1>4, PTL DEF Spec

-----------------------------------------------------------------------------
(* The scripts implement the abstract update. *)

(* The flashed card is an abstract device without a candidate. *)
LEMMA InitRefines == Init => Ab!AbInit
BY DEF Init, Ab!AbInit, Trial, Guarded, Slots

(* Every step of a script, the guard or the power supply is an abstract    *)
(* step or invisible.                                                      *)
LEMMA StepRefines ==
  ASSUME TypeOK, TypeOK', GuardCore, GuardCore', [Next]_vars, ~split'
  PROVE  [Ab!AbNext]_(Ab!abVars)
<1> USE OtaAssumption DEF Trial, Guarded
<1>1. ASSUME file' = file PROVE UNCHANGED Ab!abVars
  BY <1>1 DEF Ab!abVars
<1>2. CASE GuardCount
  <2>1. file' = [file EXCEPT !.pending.ATTEMPTS_LEFT = @ - 1]
    BY <1>2 DEF GuardCount, Store
  <2>2. /\ file.pending \in Pending /\ file.pending # NoPending
        /\ file.root = file.pending.TARGET_SLOT
        /\ file.pending.ATTEMPTS_LEFT > 1
    BY <1>2 DEF GuardCount, OnTrial, TypeOK, Files, GuardCore
  <2>3. /\ file'.root = file.root
        /\ file'.pending = [file.pending EXCEPT !.ATTEMPTS_LEFT = @ - 1]
    BY <2>1 DEF TypeOK, Files
  <2>4. file'.pending # NoPending
    BY <2>2, <2>3 DEF Pending
  <2>5. /\ file'.pending.TARGET_SLOT = file.pending.TARGET_SLOT
        /\ file'.pending.PREVIOUS_SLOT = file.pending.PREVIOUS_SLOT
        /\ file'.pending.ATTEMPTS_LEFT = file.pending.ATTEMPTS_LEFT - 1
    BY <2>2, <2>3 DEF Pending
  <2>6. file.root # "none"
    BY DEF TypeOK, Files, Slots
  <2>7. Ab!SpendTry
    BY <2>2, <2>3, <2>4, <2>5, <2>6 DEF Ab!SpendTry
  <2>8. QED
    BY <2>7 DEF Ab!AbNext
<1>3. ASSUME NEW p \in Procs, ConfirmRm(p)
      PROVE  [Ab!AbNext]_(Ab!abVars)
  <2>1. file'.root = file.root /\ file'.pending = NoPending
    BY <1>3 DEF ConfirmRm, Store, TypeOK, Files
  <2>2. CASE Trial
    <3>1. file.root # "none"
      BY DEF TypeOK, Files, Slots
    <3>2. Ab!Commit
      BY <2>1, <2>2, <3>1 DEF Ab!Commit
    <3>3. QED
      BY <3>2 DEF Ab!AbNext
  <2>3. CASE ~Trial
    BY <2>1, <2>3 DEF Ab!abVars
  <2>4. QED
    BY <2>2, <2>3
<1>4. ASSUME NEW p \in Procs, RollbackRoot(p)
      PROVE  [Ab!AbNext]_(Ab!abVars)
  <2>1. file'.root = target[p] /\ file'.pending = file.pending
    BY <1>4 DEF RollbackRoot, Store, TypeOK, Files
  <2>2. target[p] \in trusted
    BY <1>4 DEF RollbackRoot, GuardCore, RollbackPC
  <2>3. ~Trial'
    BY <2>1, <2>2 DEF GuardCore
  <2>4. CASE Trial
    <3>1. /\ file.pending.PREVIOUS_SLOT \in trusted \ {file.root}
          /\ file.root \notin trusted
      BY <2>4 DEF GuardCore
    <3>2. trusted \subseteq {"A", "B"} /\ file.root \in {"A", "B"}
      BY DEF TypeOK, Files, Slots
    <3>3. target[p] = file.pending.PREVIOUS_SLOT
      BY <2>2, <3>1, <3>2
    <3>4. file.root # "none"
      BY DEF TypeOK, Files, Slots
    <3>5. Ab!Abandon
      BY <2>1, <2>3, <2>4, <3>3, <3>4 DEF Ab!Abandon
    <3>6. QED
      BY <3>5 DEF Ab!AbNext
  <2>5. CASE ~Trial
    <3>1. target[p] \in Slots
      BY DEF TypeOK
    <3>2. Ab!Revert
      BY <2>1, <2>3, <2>5, <3>1 DEF Ab!Revert
    <3>3. QED
      BY <3>2 DEF Ab!AbNext
  <2>6. QED
    BY <2>4, <2>5
<1>5. ASSUME NEW p \in Procs, RollbackRm(p)
      PROVE  UNCHANGED Ab!abVars
  <2>1. file'.root = file.root /\ file'.pending = NoPending
    BY <1>5 DEF RollbackRm, Store, TypeOK, Files
  <2>2. ~Trial
    BY <1>5 DEF RollbackRm, GuardCore, RollbackPC
  <2>3. QED
    BY <2>1, <2>2 DEF Ab!abVars
<1>6. CASE InstallPending
  <2>1. file'.root = file.root /\ file'.pending.TARGET_SLOT = target["ssh"]
    BY <1>6 DEF InstallPending, Store, TypeOK, Files
  <2>2. file.root = running /\ running \in trusted /\ target["ssh"] \notin trusted
    BY <1>6 DEF InstallPending, GuardCore, InstallPC
  <2>3. ~Trial /\ ~Trial'
    BY <2>1, <2>2 DEF GuardCore
  <2>4. QED
    BY <2>1, <2>3 DEF Ab!abVars
<1>7. CASE InstallRoot
  <2>1. file'.root = target["ssh"] /\ file'.pending = file.pending
    BY <1>7 DEF InstallRoot, Store, TypeOK, Files
  <2>2. /\ file.root = running /\ running \in trusted /\ target["ssh"] \notin trusted
        /\ file.pending # NoPending
        /\ file.pending.TARGET_SLOT = target["ssh"]
        /\ file.pending.PREVIOUS_SLOT = running
        /\ file.pending.ATTEMPTS_LEFT = OTA_MAX_ATTEMPTS
    BY <1>7 DEF InstallRoot, GuardCore, InstallPC
  <2>3. ~Trial /\ Trial'
    BY <2>1, <2>2
  <2>4. target["ssh"] \in Slots
    BY DEF TypeOK, Procs
  <2>5. Ab!StartTrial
    BY <2>1, <2>2, <2>3, <2>4 DEF Ab!StartTrial
  <2>6. QED
    BY <2>5 DEF Ab!AbNext
<1>8. CASE UNCHANGED vars \/ UserRestart \/ Boot \/ WriteBackData \/ WriteBackBoot
  BY <1>1, <1>8 DEF vars, UserRestart, Boot, WriteBackData, WriteBackBoot, Sync
<1>13. CASE PowerLoss
  <2>1. OnlyCountLags /\ file' = disk
    BY <1>13 DEF PowerLoss
  <2>2. Trial' <=> Trial
    BY <2>1, CountLags
  <2>3. CASE ~Trial
    BY <2>1, <2>2, <2>3, CountLags DEF Ab!abVars
  <2>4. CASE Trial /\ file'.pending.ATTEMPTS_LEFT = file.pending.ATTEMPTS_LEFT
    BY <2>1, <2>2, <2>4, CountLags DEF Ab!abVars
  <2>5. CASE Trial /\ file'.pending.ATTEMPTS_LEFT # file.pending.ATTEMPTS_LEFT
    <3>1. file.root # "none"
      BY DEF TypeOK, Files, Slots
    <3>2. /\ file.pending \in Pending /\ file'.pending \in Pending
          /\ file.pending # NoPending /\ file'.pending # NoPending
      BY <2>2, <2>5 DEF TypeOK, Files
    <3>3. file'.pending.ATTEMPTS_LEFT \in (file.pending.ATTEMPTS_LEFT + 1)..OTA_MAX_ATTEMPTS
      BY <2>1, <2>5, <3>2, CountLags DEF Pending
    <3>4. Ab!RefundTry
      BY <2>1, <2>2, <2>5, <3>1, <3>2, <3>3, CountLags DEF Ab!RefundTry
    <3>5. QED
      BY <3>4 DEF Ab!AbNext
  <2>6. QED
    BY <2>3, <2>4, <2>5
<1>9. CASE GuardSkip \/ GuardExhausted \/ GuardRollbackFails \/ HealthCheck
  BY <1>1, <1>9 DEF GuardSkip, GuardExhausted, GuardRollbackFails, HealthCheck
<1>10. ASSUME NEW p \in Procs, ConfirmRead(p) \/ RollbackSync(p) \/ Reboot(p)
       PROVE  UNCHANGED Ab!abVars
  BY <1>1, <1>10 DEF ConfirmRead, RollbackSync, Reboot, Sync
<1>11. CASE \/ \E i \in Images : InstallStart(i)
            \/ InstallWrite \/ InstallVerify \/ InstallSync \/ InstallDone
            \/ RollbackStart \/ ConfirmStart \/ SshAbort
  BY <1>1, <1>11 DEF InstallStart, InstallWrite, InstallVerify, InstallSync, InstallDone,
                     RollbackStart, ConfirmStart, SshAbort, Sync
<1>12. QED
  BY <1>2, <1>3, <1>4, <1>5, <1>6, <1>7, <1>8, <1>9, <1>10, <1>11, <1>13, NextCases

(* With the documented workflow the scripts implement the abstract A/B     *)
(* update until a power cut undoes more than a count.                      *)
THEOREM Refinement == Workflow => (Spec => ImplementsAbUpdate)
<1> SUFFICES ASSUME Workflow PROVE Spec => ImplementsAbUpdate
  OBVIOUS
<1>1. Init => GuardInv /\ Ab!AbInit
  BY InitGuard, InitRefines
<1>2. GuardInv /\ [Next]_vars => GuardInv'
  BY StepGuard
<1>3. GuardInv /\ GuardInv' /\ [Next]_vars => [AbStep]_(Ab!abVars)
  <2>1. SUFFICES ASSUME GuardInv, GuardInv', [Next]_vars, ~split'
                 PROVE  [AbStep]_(Ab!abVars)
    BY DEF AbStep
  <2>2. GuardCore /\ GuardCore'
    BY <2>1, StepGuard, SplitStays DEF GuardInv
  <2>3. QED
    BY <2>1, <2>2, StepRefines DEF GuardInv, AbStep
<1>4. QED
  BY <1>1, <1>2, <1>3, PTL DEF Spec, ImplementsAbUpdate
=============================================================================
