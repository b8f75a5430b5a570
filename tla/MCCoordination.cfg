SPECIFICATION Spec
CONSTANTS
  a1 = a1
  a2 = a2
  LeaseAgent = {a1, a2}
  Region <- MCRegion
  Timeouts = {0, 2}
  MaxClock = 2
  MaxLeases = 3
  BusAgent = {a1, a2}
  Topic = {topic}
  Urgency = {0, 1}
  Depth = 2
  MaxSends = 3
  Crew <- MCCrew
  Backlog <- MCBacklog
  MaxEdges = 3
  Replica = {r1, r2}
  Author = {a1, a2}
  Target = {k1, k2}
  AgentHash <- MCHash
  MaxTime = 2
  Thread = {t1, t2}
  Key <- MCKey
  Prefix <- MCPrefix
  WatchDepth = 1
  MaxWrites = 2
  MaxWatches = 1
  Class = {1, 2}
  Preallocated = {1}
  InitialCapacity = 1
  GrowthFactor = 2
  AutoGrow = TRUE
  MaxTotal = 5
  BufferLen = 2
  MaxBuffers = 1
  MaxHandles = 3
  k1 = k1
  k2 = k2
  w1 = w1
  w2 = w2
  w3 = w3
  StoreThread = {t1, t2}
  StoreKey = {k1, k2}
  FileOf <- MCFileOf
  CacheSize = 1
  MaxCalls = 3
  MaxKills = 1
  Worker = {w1, w2, w3}
  SkillsOf <- MCSkills
  MaxWorkers = 2
  JobOf <- MCJobs
INVARIANTS LeasesExclude MailIsKept TasksWait  ReplicasConverge UpdatesAreSeen  StoreIsSound SwarmIsSound
PROPERTIES LeasesHonoured TasksFinish
CHECK_DEADLOCK FALSE
