SPECIFICATION Spec
CONSTANTS
  c1 = c1  c2 = c2  c3 = c3  c4 = c4  ann = ann  bob = bob
  NoConn = NoConn  NoMsg = NoMsg  NoName = NoName
  Users = {ann, bob}
  Conns = {c1, c2, c3}
  UserOf <- C2IsBob
  BadKeys = {}
  NulUsers = {}
  Closers = {c1}
  Fds = {3, 4, 5}
  Garbage = {3}
  NThreads = 2
  MaxClients = 2
  Budget <- TwoByC2
  Kinds = {"msg"}
CHECK_DEADLOCK FALSE
INVARIANTS SenderOrder DeliveredOnce DescriptorsOwned
PROPERTY ImplementsService
