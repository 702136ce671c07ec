SPECIFICATION ProxyFairSpec
CONSTANTS
  Byte = {1, 2, 3, 4, 5}
  Messages <- TwoMessages
  Answers <- TwoAnswers
  HeaderBytes = 2
  MaxUp = 5  MaxDown = 3
CHECK_DEADLOCK FALSE
INVARIANT ProxyTypeOK
PROPERTIES UplinkIsStream DownlinkIsStream EndsTogether ArrivesInTheEnd
