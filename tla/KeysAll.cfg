SPECIFICATION Spec
SYMMETRY Symmetry
CONSTANTS
  p1 = p1
  p2 = p2
  Procs = {p1, p2}
  SI = SI
  Creds = {openai}
  Secrets = {2}
  Installs = {"raw", "wrapped", "fresh"}
  Calls <- AllCalls
  Tier0AtBoot = FALSE
  MayFail = TRUE
  MayCrash = TRUE
  MaxMasters = 3
  MaxKeys = 3
  None = None
INVARIANTS TypeOK MastersOpenBlobs LegacyIsKept CompleteMeansReachable
