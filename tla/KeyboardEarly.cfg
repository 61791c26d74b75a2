CONSTANTS
  MaxEvents = 2
  Printing = {"letter", "digit"}
SPECIFICATION ImpatientSpec
PROPERTIES
  ListensOnceActivated
