\* Six pages of two bytes in bitmap bytes of four bits, so that the last byte is
\* partial; every request size class.
SPECIFICATION AllocSpec
CONSTANTS
  TotalBytes = 12
  PageSize = 2
  WordSize = 32
  Requests <- MCRequests
  NumPages = 6
  Byte = 4
INVARIANTS GrantsSound SearchesFirstFit
PROPERTIES AllocComplete RefinesBitmapAllocator
