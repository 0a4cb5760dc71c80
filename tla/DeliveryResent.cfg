SPECIFICATION Spec
CONSTANTS
  w1 = w1
  w2 = w2
  p = p
  q = q
  User = User
  Works = {w1}
  Paths = {p, q}
  Touched <- OneWork
  Locked = {"deliver", "journal", "checking", "naming", "writing"}
  MaxAttempts = 4
  MaxActs = 0
  MaxFailures = 2
PROPERTIES ResentUnlanded
