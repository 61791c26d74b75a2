CONSTANTS
  NClusters = 6
  NSlots = 3
  Names <- TwoNames
  Lengths <- TwoLengths
  StaleTables <- CleanStack
  PowerFailsIn <- BetweenOrInWrite
SPECIFICATION PowerSpec
INVARIANTS
  TypeOK
  DiskConsistent
  NoCrossLinks
  MemoryFatCurrent
  NoLeaks
PROPERTIES
  SignatureKept
  DictionaryOfFiles
