SPECIFICATION EitherSpec
CONSTANTS
  w1 = w1
  w2 = w2
  p = p
  q = q
  User = User
  Works = {w1, w2}
  Paths = {p, q}
  Touched <- TwoWorks
  Locked = {"deliver", "journal", "checking", "naming", "writing"}
  MaxAttempts = 2
  MaxActs = 2
  MaxFailures = 1
  good = good
  bad = bad
  Trees = {good, bad}
  Sound = {good}
  First = bad
  MaxCommits = 3
  MaxEdits = 1
  MaxProofs = 2
  MaxCrashes = 1
  root = root
  kid = kid
  kin = kin
  Items = {root, kid, kin}
  NoItem = NoItem
  Above <- OneFamily
  MaxObjects = 2
  MaxCalls = 1
  MaxRemovals = 1
  MaxDeaths = 1
SYMMETRY Alike
INVARIANTS TypesOK AttestedSound OnlyCandidate NothingNeededCollected
PROPERTIES CommitsKept EditsKept AtomicSpec
