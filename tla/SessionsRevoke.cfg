CONSTANTS
  Users = {u1}
  Tokens = {t1}
  Procs = {p1, p2}
  NoSession = NoSession
  NoCall = NoCall
  StoreMayFail = FALSE
  Durable = FALSE
  TTL = 1
  MaxTime = 3
SYMMETRY Symmetry
SPECIFICATION Spec
INVARIANT RevokedTokenGone
