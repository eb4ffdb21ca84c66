-------------------------- MODULE MCAuthenticator --------------------------
(* Authenticator for TLC: which process may call which method.             *)
EXTENDS Authenticator, TLC

CONSTANTS p1, p2

\* Two processes that call anything
AllCalls == {p1, p2} \X Methods

\* One process that calls anything, so that no two calls overlap
SoloCalls == {p1} \X Methods

\* One process that manages accounts beside one that signs users in and keeps
\* their sessions; both answer challenges
ManagerAndUser ==
  {p1} \X {"RotateKeyPair", "DeleteUser", "ValidateResponse"} \cup
  {p2} \X {"Login", "CreateChallenge", "ValidateResponse", "RefreshSession"}

Symmetry == Permutations(Tokens) \cup Permutations(Passwords)
=============================================================================
