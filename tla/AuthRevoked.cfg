CONSTANTS
  Users = {u1}
  Tokens = {t1}
  Passwords = {w1, w2}
  EmptyPassword = NoPassword
  p1 = p1
  p2 = p2
  Procs = {p1, p2}
  Calls <- SoloCalls
  Protected = {}
  LegacyUsers = {u1}
  NoSession = NoSession
  Absent = Absent
  NoChallenge = NoChallenge
  NoFrame = NoFrame
  StoreMayFail = FALSE
  MediumMayFail = FALSE
  Durable = FALSE
  ChallengeTTL = 0
  SessionTTL = 1
  MaxTime = 0
  MaxKeys = 2
  MaxNonces = 1
SPECIFICATION Spec
PROPERTY NoSessionForRevoked
