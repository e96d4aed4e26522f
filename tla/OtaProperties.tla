--------------------------- MODULE OtaProperties ---------------------------
(***************************************************************************)
(* What the A/B update scripts must keep true across power cuts, aborted   *)
(* sessions and interleaved scripts.                                       *)
(***************************************************************************)
EXTENDS OtaUpdate

(* Every variable stays in its range. *)
Files == [pending: Pending \cup {NoPending}, root: Slots]

TypeOK ==
  /\ slot \in [Slots -> Images \cup {Torn}]
  /\ file \in Files
  /\ disk \in Files
  /\ running \in Slots
  /\ pc \in [Procs -> InitPC \cup SshPC]
  /\ pc["init"] \in InitPC
  /\ pc["ssh"] \in SshPC
  /\ target \in [Procs -> Slots]
  /\ image \in Images
  /\ passes \in 0..(OTA_MAX_ATTEMPTS + 1)
  /\ trusted \subseteq Slots
  /\ split \in BOOLEAN

(* Whenever the power goes, the next boot finds a completely written root  *)
(* file system: no order of installs, aborts, rollbacks and power cuts     *)
(* leaves cmdline.txt on the card naming a slot that dd has not finished.  *)
NextBootIntact == slot[disk.root] # Torn

(* A firmware nobody confirmed is booted only under the guard: if the next *)
(* boot takes an unconfirmed slot, it also finds the pending record that   *)
(* makes S42otaguard count it, whatever order the scripts, the session and *)
(* the kernel's write-backs come in.  Nothing orders pending.env and       *)
(* cmdline.txt on the card, so this lasts until a power cut that undoes    *)
(* more than a count.                                                      *)
Guarded(s) == file.pending # NoPending /\ file.pending.TARGET_SLOT = s

TrialIsGuarded == split \/ file.root \in trusted \/ Guarded(file.root)

(* While an update is on trial, the slot the guard would fall back to      *)
(* still holds a confirmed firmware: a rollback never lands on a slot that *)
(* was overwritten or never proved itself, until such a power cut.         *)
FallbackTrusted ==
  \/ split
  \/ /\ Guarded(file.root) =>
            file.pending.PREVIOUS_SLOT \in trusted \ {file.root}
     /\ pc["init"] \in RollbackPC => target["init"] \in trusted

(* What buildroot/README.md says of S42otaguard, without that exception:   *)
(* every boot of an update on trial is tracked.                            *)
EveryTrialGuarded == file.root \in trusted \/ Guarded(file.root)

(* ... and the update is rolled back when its attempts are exhausted: the  *)
(* guard lets no more boots through than the record was given.             *)
TrialBootsBounded == passes <= OTA_MAX_ATTEMPTS

(* A slot counts as confirmed only if its firmware keeps both supervisors  *)
(* running (S99otaconfirm).                                                *)
ConfirmedIsSupervised == \A s \in trusted : slot[s] \in Supervises

(* The trial is the pending record whose slot cmdline.txt names. *)
Trial == Guarded(file.root)

Ab == INSTANCE AbUpdate WITH
        MaxTries  <- OTA_MAX_ATTEMPTS,
        NoSlot    <- "none",
        committed <- IF Trial THEN file.pending.PREVIOUS_SLOT ELSE file.root,
        candidate <- IF Trial THEN file.root ELSE "none",
        tries     <- IF Trial THEN file.pending.ATTEMPTS_LEFT ELSE 0

(* Every step of a script, the guard, the session or the power supply is a *)
(* step of the abstract A/B update or invisible to it, until a power cut   *)
(* that undoes more than a count.                                          *)
AbStep == split' \/ Ab!AbNext

ImplementsAbUpdate == Ab!AbInit /\ [][AbStep]_(Ab!abVars)

(* A restart of an idle device looks like a power cut that did no harm.    *)
Calm == Fault => UserRestart \/ \E p \in Procs : Reboot(p)

(* Every trial ends: once power cuts and failures stop, a firmware that    *)
(* still gets through its boot scripts is confirmed or rolled back if the  *)
(* device is restarted often enough.                                       *)
TrialEnds ==
  (/\ <>[][Calm]_vars
   /\ []<><<UserRestart>>_vars
   /\ []<>(pc["init"] = "up")) => []<>~Trial
=============================================================================
