CONSTANTS
  NClusters = 7
  NSlots = 4
  Names <- ThreeNames
  Lengths = {1}
  StaleTables <- CleanStack
  PowerFailsIn <- NotInDelete
  UserNames <- TwoTyped
  TextNames <- OneText
  Texts <- Letter
  Programs <- ShellAndClock
  Starts <- ThreeToFive
  PrefixOf <- Unrelated
  MaxQueue = 2
SPECIFICATION CarefulShellSpec
INVARIANTS
  ShellTypeOK
  CommandsTakeEffect
  OthersUndamaged
  PathFollowsTree
  ReadsBack
  FindComplete
  NoCrossLinks
  NothingLeaked
