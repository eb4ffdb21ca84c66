SPECIFICATION EventsSpec
SYMMETRY Symmetry
CONSTANTS
  p1 = p1
  p2 = p2
  Procs = {p1, p2}
  SI = SI
  Creds = {openai}
  Secrets = {2, 3}
  Installs = {"raw", "fresh"}
  Calls <- StableCalls
  Tier0AtBoot = TRUE
  MayFail = FALSE
  MayCrash = FALSE
  MaxMasters = 3
  MaxKeys = 4
  None = None
INVARIANTS SIKeyIsStable NoStaleCredential
