\* The operator follows the update workflow.
SPECIFICATION FairSpec
CONSTANTS
  Images = {good, sick, dead}
  Boots = {good, sick}
  Supervises = {good}
  Torn = Torn
  NoPending = NoPending
  OTA_MAX_ATTEMPTS = 3
  Careful = {"install", "rollback", "confirm"}
INVARIANTS
  TypeOK
  NextBootIntact
  TrialIsGuarded
  FallbackTrusted
  ConfirmedIsSupervised
PROPERTIES
  ImplementsAbUpdate
  TrialEnds
