SPECIFICATION Spec
CONSTANTS
  m1 = m1  m2 = m2
  r1 = r1  r2 = r2  r3 = r3
  None = none
  Emails <- TwoEmails
  e1 = e1  e2 = e2
  Passwords = {p1}
  Machines = {m1, m2}
  Runs = {r1, r2, r3}
  Home <- TwoHomes
  ForeignKey = FALSE
  MaxAttempts = 3
  Faults = {"overlap", "db", "crash"}
INVARIANTS
  TypeOK
  ReadyToSync
  WorkspaceOfUser
SYMMETRY Symmetry
CHECK_DEADLOCK FALSE
