SPECIFICATION FairSpec
CONSTANTS
  a = a  b = b
  k0 = k0  k1 = k1  t0 = t0  t1 = t1
  u1 = u1  u2 = u2
  m1 = m1  m2 = m2
  r1 = r1  r2 = r2
  Root = root
  NoChunks = k0
  NoTail = t0
  NoHash = nohash
  Names <- TwoNames
  Chunks <- TwoVersions
  Tails <- OneTail
  Users = {u1}
  Machines = {m1}
  Runs = {r1, r2}
  Account <- OneAccount
  Home <- OneHome
  InitialDir <- SameDirs
  InitialFiles <- FileA
  ServerOrder <- NameOrder
  ClientOrder <- OtherOrder
  Edits = {"write", "delete"}
  MaxEdits = 2
  Faults = {"tie", "coalesce", "crash"}
INVARIANTS
  OneTransfer
  Dialogue
  ComparesOwnTree
  MirrorsNames
PROPERTIES
  HeldByStarvedOnly
CHECK_DEADLOCK FALSE
