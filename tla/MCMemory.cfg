SPECIFICATION Spec
CONSTANTS
  nl = nl t = t f = f a = a b = b long = long
  Name = {nl, t, f, a, b, long}
  Newline = nl
  TrueName = t
  FalseName = f
  NameSize <- MCSize
  Bucket = {0, 1}
  HashOf <- MCHash
  BinCount = 3
  MemSize = 14
  AtomLimit = 13
  MaxListIndex = 2
  Blob = {0}
  Spoken = {a, b, long}
  Literal <- MCLiteral
  MaxHeld = 2
INVARIANTS TypeOK TableSound AtomsIndexed NoDangling FreeBytesAgree FreeNodesHonest
PROPERTIES RecycleComplete ImplementsHeapStore
