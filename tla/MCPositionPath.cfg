SPECIFICATION Spec
CONSTANTS
  Parts = {"handoff", "reducer", "publisher", "agent", "startup"}
  b1 = b1
  b2 = b2
  b3 = b3
  Boots = {b1, b2, b3}
  BootBits <- MCBootBits
  Generations = {0, 1, 2, 3}
  SequenceNumbers = {0, 1, 3}
  Times = {0, 1}
  Payloads = {"heading", "plain", "nonfinite"}
  ValidPayloads = {"heading", "plain"}
  HeadingPayloads = {"heading"}
  PayloadAge <- MCPayloadAge
  LiveLimit = 0
  DelayedLimit = 1
  Capacity = 4
  NoBoot = NoBoot
  AgentBoot = b1
  GenuinePayloads = {"plain", "nonfinite"}
  MaxSequence = 2
  ServerPids = {1, 2}
  Images <- MCImages
  Version <- MCVersion
  Profiles <- MCProfiles
  MaxInstances = 3
  MaxTime = 1
  Subscribers = {"s1", "s2"}
  ForeignBoots = {b3}
INVARIANTS SessionInv HandoffAgrees NoLostWakeup OnlyGenuinePublished
PROPERTIES NoSessionEndLost NoReplay FeedRefinement StreamNeverGoesBack StartupIsAttested ReducerSurvivesAnySource
CHECK_DEADLOCK FALSE
