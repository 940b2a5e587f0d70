SPECIFICATION Spec
CONSTANTS
  a = a  b = b
  k0 = k0  k1 = k1  t0 = t0  t1 = t1
  u1 = u1  u2 = u2
  m1 = m1  m2 = m2
  r1 = r1  r2 = r2
  Root = root
  NoChunks = k0
  NoTail = t0
  NoHash = nohash
  Names <- TwoNames
  Chunks <- TwoVersions
  Tails <- OneTail
  Users = {u1, u2}
  Machines = {m1, m2}
  Runs = {r1, r2}
  Account <- OwnAccount
  Home <- OwnHome
  InitialDir <- OwnDirs
  InitialFiles <- FileA
  ServerOrder <- NameOrder
  ClientOrder <- NameOrder
  Edits = {"rename", "delete"}
  MaxEdits = 2
  Faults = {"tie", "db"}
INVARIANTS
  OneTransfer
  ComparesOwnTree
  AnswersCheckLatest
PROPERTIES
  ImplementsStore
CHECK_DEADLOCK FALSE
