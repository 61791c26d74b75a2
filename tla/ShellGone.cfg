CONSTANTS
  NClusters = 7
  NSlots = 4
  Names <- ThreeNames
  Lengths = {1}
  StaleTables <- CleanStack
  PowerFailsIn <- Never
  UserNames <- TwoTyped
  TextNames <- OneText
  Texts <- Letter
  Programs <- ShellAndClock
  Starts <- ThreeToFive
  PrefixOf <- Unrelated
  MaxQueue = 2
SPECIFICATION ShellSpec
INVARIANTS
  InvalidParentRefused
