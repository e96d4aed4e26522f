\* README: a trial is rolled back when its boots are used up.
SPECIFICATION Spec
CONSTANTS
  Images = {good, sick, dead}
  Boots = {good, sick}
  Supervises = {good}
  Torn = Torn
  NoPending = NoPending
  OTA_MAX_ATTEMPTS = 3
  Careful = {"install", "rollback", "confirm"}
INVARIANT
  TrialBootsBounded
