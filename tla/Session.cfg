SPECIFICATION FairSpec
CONSTANTS
  Byte <- Units
  Messages = {}
  Answers = {}
  HeaderBytes = 1
  MaxUp = 0  MaxDown = 0
  MaxMsgs = 2
CHECK_DEADLOCK FALSE
INVARIANTS SavedOnce AnswersOnce
PROPERTIES LoggedInInTheEnd SavedInTheEnd
