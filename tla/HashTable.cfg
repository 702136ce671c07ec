SPECIFICATION Spec
CONSTANTS
  p1 = p1  p2 = p2  p3 = p3  p4 = p4  p5 = p5
  ann = ann  bob = bob  cid = cid  Null = Null
  Entries = {p1, p2, p3, p4, p5}
  Names = {ann, bob, cid}
  NameOf <- Named
  Size = 4
INVARIANTS Reachable RehashEnds
PROPERTY ImplementsNameSet
