SPECIFICATION Spec
CONSTANTS
  NSeg = 1
  Slots = 2
  Zero = zero
  Layers <- MCLayers
  Tokens <- MCTokens
  Data <- MCKeys
  NumDevices = 2
  StepIdx = 3
  StepLayer = 5
  Prime = 7
  MaxTopk = 2
  Batches <- MCBatches
  Readers = {t1}
  Releasers = {r1}
INVARIANTS EntriesReadable ReadersServed
PROPERTIES RefinesSegments
