CONSTANTS
  NClusters = 6
  NSlots = 3
  Names <- TwoNames
  Lengths <- TwoLengths
  StaleTables <- CleanStack
  PowerFailsIn <- InDelete
SPECIFICATION CarefulSpec
PROPERTIES
  SignatureStays
