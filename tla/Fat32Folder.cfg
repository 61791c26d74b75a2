CONSTANTS
  NClusters = 6
  NSlots = 3
  Names <- TwoNames
  Lengths <- TwoLengths
  StaleTables <- CleanStack
  PowerFailsIn <- Never
SPECIFICATION Spec
PROPERTIES
  OnlyEmptyFoldersDeleted
