SPECIFICATION FairSpec
CONSTANTS
  r1 = r1
  r2 = r2
  Room <- MCRoom
  Before <- MCBefore
  NoRoom = NoRoom
  ChanCap = 1
  MaxLogin = 2
  MaxSelect = 2
  MaxMessage = 2
CHECK_DEADLOCK FALSE
INVARIANTS TypeOK InboxIsServed UnreadableHasCause OwnKeys HistoryOpens SelectionsAgree
PROPERTIES SessionSurvives ReadingGoesOn
