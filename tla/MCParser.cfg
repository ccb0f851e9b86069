SPECIFICATION ReadAheadSpec
CONSTANTS
  Identifiers = {"x"}
  Sources <- MCSources
  UnaryOps = {"-"}
  Levels <- MCLevels
INVARIANTS
  ParserTypeOK
  NewlinesReadOutside
  TakesWhatFits
  AcceptedIsBalanced
PROPERTY
  ParseEnds
CHECK_DEADLOCK FALSE
