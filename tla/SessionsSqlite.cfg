CONSTANTS
  Users = {u1, u2}
  Tokens = {t1, t2}
  Procs = {p1, p2}
  NoSession = NoSession
  NoCall = NoCall
  StoreMayFail = TRUE
  Durable = TRUE
  TTL = 1
  MaxTime = 3
SPECIFICATION FairSpec
INVARIANTS TypeOK ExpiryBound
PROPERTIES DeadStaysDead OnlyStaleCopyDropsLive ExpiredIsCollected
