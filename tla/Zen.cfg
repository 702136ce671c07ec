SPECIFICATION Spec
CONSTANTS
  ann = ann  bob = bob  me = me  nick = nick  junk = junk
  Peers = {ann, bob}  Me = me  Nicks = {nick}  Garbage = junk
  Rank <- Order  Writers = {ann}
  NoKey = NoKey  NoText = NoText
  Lines = 1  MaxTyped = 1  MaxCommands = 1  MaxGot = 1  MaxStarts = 2  MaxUsers = 3
CHECK_DEADLOCK FALSE
INVARIANTS TypeOK RightKeys SavedAsAddressed SentToMeant NothingDropped SearchFinds
