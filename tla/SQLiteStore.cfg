CONSTANTS
  Users = {u1, u2}
  Tokens = {t1, t2, t3}
  NoSession = NoSession
  MaxTime = 2
SPECIFICATION Spec
INVARIANT TypeOK
PROPERTY KeepsPromise
