SPECIFICATION FairSpec
CONSTANTS
  Room = {r1}
  NoRoom = NoRoom
  MaxJoin = 2
  MaxEvent = 2
CHECK_DEADLOCK FALSE
INVARIANTS TypeOK NoneForgotten AnswerIsOwn  DeafnessHasCause
 
