SPECIFICATION FairSpec
CONSTANTS
  c1 = c1  c2 = c2  c3 = c3  c4 = c4  ann = ann  bob = bob
  NoConn = NoConn  NoMsg = NoMsg  NoName = NoName
  Users = {ann, bob}
  Conns = {c1, c2, c3, c4}
  UserOf <- C2IsBob
  BadKeys = {c4}
  NulUsers = {}
  Closers = {c1}
  Fds = {3, 4, 5, 6}
  Garbage = {99}
  NThreads = 2
  MaxClients = 1
  Budget <- OneByC2
  Kinds = {"msg"}
CHECK_DEADLOCK FALSE
INVARIANTS TypeOK RoutedToRecipient TableBounded EntriesComplete
PROPERTIES
  OnlyLeaversRemoved RejectsOnlyWhenFull
  RelayedInTheEnd AcceptorReturns WorkerReturns LeaverClosed
