SPECIFICATION Spec
CONSTANTS
  c1 = c1  c2 = c2  c3 = c3  c4 = c4  c6 = c6  ann = ann  bob = bob
  NoConn = NoConn  NoMsg = NoMsg  NoName = NoName
  Users = {ann, bob}
  Conns = {c1, c2}
  UserOf <- C2IsBob
  BadKeys = {}
  NulUsers = {ann}
  Closers = {}
  Fds = {3, 4}
  Garbage = {99}
  NThreads = 2
  MaxClients = 2
  Budget <- OneThenTwo
  Kinds = {"msg", "long", "forged"}
CHECK_DEADLOCK FALSE
INVARIANTS OnlyVerified WholePerSender
