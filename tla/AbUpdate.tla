------------------------------ MODULE AbUpdate ------------------------------
(***************************************************************************)
(* What an A/B firmware update promises, without cards, files or scripts.  *)
(* The device has one committed slot.  An update puts the other slot on    *)
(* trial with a number of boots; the trial ends by committing the          *)
(* candidate or by abandoning it, and a trial that has used up its boots   *)
(* can only be abandoned.  OtaUpdate implements this specification.        *)
(***************************************************************************)
EXTENDS Naturals

CONSTANTS Slots,   \* the firmware slots
          MaxTries,\* boots a candidate is given, plus the one that abandons it
          NoSlot   \* stands for the absence of a candidate

VARIABLES committed,  \* the slot the device falls back to
          candidate,  \* the slot on trial, or NoSlot
          tries       \* boots the candidate has left

abVars == <<committed, candidate, tries>>

AbInit ==
  /\ committed \in Slots
  /\ candidate = NoSlot
  /\ tries = 0

(* A trial starts on a slot other than the committed one, with every boot. *)
StartTrial ==
  /\ candidate = NoSlot
  /\ candidate' \in Slots \ {committed}
  /\ tries' = MaxTries
  /\ UNCHANGED committed

(* A boot of the candidate is paid for; the last one is kept in reserve.   *)
SpendTry ==
  /\ candidate # NoSlot
  /\ tries > 1
  /\ tries' = tries - 1
  /\ UNCHANGED <<committed, candidate>>

(* A crash may undo the payment. *)
RefundTry ==
  /\ candidate # NoSlot
  /\ tries' \in (tries + 1)..MaxTries
  /\ UNCHANGED <<committed, candidate>>

Commit ==
  /\ candidate # NoSlot
  /\ committed' = candidate
  /\ candidate' = NoSlot
  /\ tries' = 0

Abandon ==
  /\ candidate # NoSlot
  /\ candidate' = NoSlot
  /\ tries' = 0
  /\ UNCHANGED committed

(* The operator goes back to a slot committed earlier. *)
Revert ==
  /\ candidate = NoSlot
  /\ committed' \in Slots
  /\ UNCHANGED <<candidate, tries>>

AbNext == StartTrial \/ SpendTry \/ RefundTry \/ Commit \/ Abandon \/ Revert

AbSpec == AbInit /\ [][AbNext]_abVars
=============================================================================
