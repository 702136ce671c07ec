SPECIFICATION Spec
CONSTANTS
  ann = ann  cat = cat  dan = dan
  Names = {ann, cat, dan}  Accounts = {ann}  Peers = {cat, dan}
  NoName = NoName  Undef = Undef  NoText = NoText
  MaxTyped = 0  MaxGot = 2
  MaxButtons = 2  MaxSockets = 2
CHECK_DEADLOCK FALSE
SYMMETRY Alike
PROPERTY AlwaysNotified
