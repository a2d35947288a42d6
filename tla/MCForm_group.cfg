SPECIFICATION FormSpec
CONSTANTS
  MaxEdits = 1
  MaxDialogs = 1
PROPERTIES
  GroupIsKept
CHECK_DEADLOCK FALSE
