SPECIFICATION Spec
CONSTANTS
  Workers = {w1, w2}
  Objects = {o1, o2}
  Definitions <- AllDefinitions
  Messages <- AllMessages
  MaxMessages = 2
INVARIANT OutcomeIsMeant
PROPERTY ObjectsComeBack
CHECK_DEADLOCK FALSE
