SPECIFICATION Spec
CONSTANTS
  m1 = m1  m2 = m2
  r1 = r1  r2 = r2  r3 = r3
  None = none
  Emails <- TwoEmails
  e1 = e1  e2 = e2
  Passwords = {p1, p2}
  Machines = {m1}
  Runs = {r1}
  Home <- TwoHomes
  ForeignKey = TRUE
  MaxAttempts = 2
  Faults = {}
INVARIANTS
  RegisteredCanLogIn
CHECK_DEADLOCK FALSE
