SPECIFICATION Spec
SYMMETRY Symmetry
CONSTANTS
  p1 = p1
  p2 = p2
  Procs = {p1, p2}
  SI = SI
  Creds = {openai}
  Secrets = {2}
  Installs = {"raw", "wrapped"}
  Calls <- WireAndPut
  Tier0AtBoot = FALSE
  MayFail = FALSE
  MayCrash = FALSE
  MaxMasters = 2
  MaxKeys = 2
  None = None
INVARIANTS UnfinishedIsRetried
