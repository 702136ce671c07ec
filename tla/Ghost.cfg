SPECIFICATION Spec
CONSTANTS
  c1 = c1  c2 = c2  c3 = c3  c4 = c4  ann = ann  bob = bob
  NoConn = NoConn  NoMsg = NoMsg  NoName = NoName
  Users = {ann, bob}
  Conns = {c1, c2}
  UserOf <- C2IsBob
  BadKeys = {}
  NulUsers = {}
  Closers = {c1}
  Fds = {3, 4}
  Garbage = {99}
  NThreads = 2
  MaxClients = 2
  Budget <- None
  Kinds = {"msg"}
CHECK_DEADLOCK FALSE
INVARIANT ActiveClients
