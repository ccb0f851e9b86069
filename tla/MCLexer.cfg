SPECIFICATION Spec
CONSTANT
  Sources <- MCSources
INVARIANTS
  LexTypeOK
  NothingSkipped
  LexemesFit
  LinesCounted
  PanicsAtOpenEnd
PROPERTY
  LexEnds
CHECK_DEADLOCK FALSE
