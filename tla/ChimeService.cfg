\* One ring topic, one other topic and one the library refuses.
SPECIFICATION FairSpec
CONSTANTS
  Sounds = {"ring", "success", "failure"}
  Topics = {ring, door, bad}
  BadTopics = {bad}
  RingTopics = {ring}
  audio_enabled = TRUE
  HEARTBEAT = 1
  TIMEOUT = 1
  UNKNOWN = 1
  NotYet = NotYet
INVARIANTS
  FlagMeansSound
  ThreadHandedOver
  SessionSubscribed
  NothingLeaks
PROPERTIES
  Recovers
  StartupAnnounced
  Stops
  PlayerFree
