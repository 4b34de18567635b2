CONSTANTS
  StepIdx = 17
  StepLayer = 23
  Prime = 101
  DeviceCount = 2
  NativeTopk = 2
  MaxFaults = 1
  MaxIOFaults = 1
  SsdThreads = {t1, t2}
  HbmCapacities = {2, 3}
  FirstLen = 3
  MaxPromptTokens = 5
  MaxReruns = 1
  Jobs <- MCJobs
  Shuffle <- MCShuffle
  Ranked <- MCRanked
  Natives <- MCNatives
SPECIFICATION Spec
INVARIANTS
  OnlyFaultsFail
  ExtentsReturned
  BuffersRespected
  CachesNested
  ToolsAgree
  SampleFair
