CONSTANTS
  Users = {u1}
  Tokens = {t1, t2}
  Passwords = {w1, w2}
  EmptyPassword = NoPassword
  p1 = p1
  p2 = p2
  Procs = {p1, p2}
  Calls <- ManagerAndUser
  Protected = {}
  LegacyUsers = {u1}
  NoSession = NoSession
  Absent = Absent
  NoChallenge = NoChallenge
  NoFrame = NoFrame
  StoreMayFail = TRUE
  MediumMayFail = TRUE
  Durable = TRUE
  ChallengeTTL = 0
  SessionTTL = 0
  MaxTime = 1
  MaxKeys = 2
  MaxNonces = 2
SPECIFICATION Spec
SYMMETRY Symmetry
INVARIANTS QuietFilesAgree ChallengeUsedOnce
PROPERTIES ReplacedCredentialsStayDead
