SPECIFICATION Spec
CONSTANTS
  PageSize = 2
  WordSize = 32
  MaxDevices = 3
  MaxBytes = 8
  Capacities <- MCCapacities
  Requests <- MCRequests
INVARIANT ExtentsSound
PROPERTIES TranslationStable AllocComplete RefinesPageAllocator
