---------------------------- MODULE SessionStore ----------------------------
(***************************************************************************)
(* The SessionStore interface (auth/session_store.go): a table from        *)
(* session tokens to sessions, and what each method does to it.  A method  *)
(* is an action with its outcome `ok` as a parameter, so that a caller can *)
(* be composed with it: ok is FALSE where the Go method returns an error.  *)
(* An error of DeleteByUser or of Cleanup may leave any part of its work   *)
(* done: the SQLite store deletes row by row and returns at the first row  *)
(* that fails.  StoreMayFail is FALSE for MemorySessionStore, whose        *)
(* methods fail only on an unknown token.                                  *)
(***************************************************************************)
EXTENDS Integers

CONSTANTS
  Users,          \* user identifiers (lthn.Hash of a user name)
  Tokens,         \* session tokens: 32 random bytes each, never drawn twice
  NoSession,      \* the entry of a token that is not in the store
  StoreMayFail    \* whether the backend can fail (SQLite) or not (memory)

VARIABLES
  sessions,       \* the table: a token's session or NoSession
  now             \* the clock read by time.Now()

Session == [user : Users, exp : Nat]

ASSUME SessionStoreAssumption ==
  /\ NoSession \notin Session
  /\ StoreMayFail \in BOOLEAN

Present(t) == sessions[t] # NoSession
OfUser(u) == {t \in Tokens : Present(t) /\ sessions[t].user = u}

\* now.After(session.ExpiresAt), for an instant `at`: strictly after
ExpiredAt(s, at) == at > s.exp

\* ExpiredTokens with mistakes: an inclusive and an inverted comparison
ExpiredTokensInclusive(at) == {t \in Tokens : Present(t) /\ at >= sessions[t].exp}
ExpiredTokensInverted(at) == {t \in Tokens : Present(t) /\ at < sessions[t].exp}

ExpiredTokens(at) == {t \in Tokens : Present(t) /\ ExpiredAt(sessions[t], at)}

\* maps.DeleteFunc on the set T of tokens
Without(T) == [t \in Tokens |-> IF t \in T THEN NoSession ELSE sessions[t]]

EmptyStore == [t \in Tokens |-> NoSession]

StoreTypeOK ==
  /\ sessions \in [Tokens -> Session \cup {NoSession}]
  /\ now \in Nat
-----------------------------------------------------------------------------
Set(t, s, ok) ==
  /\ ok \/ StoreMayFail
  /\ sessions' = IF ok THEN [sessions EXCEPT ![t] = s] ELSE sessions

\* Delete looks the token up first: ErrSessionNotFound when it is absent.
Delete(t, ok) ==
  /\ ok => Present(t)
  /\ ~ok => (~Present(t) \/ StoreMayFail)
  /\ sessions' = IF ok THEN Without({t}) ELSE sessions

DeleteByUser(u, ok) ==
  \/ /\ ok
     /\ sessions' = Without(OfUser(u))
  \/ /\ ~ok /\ StoreMayFail
     /\ \E gone \in SUBSET OfUser(u) : sessions' = Without(gone)

\* Cleanup reads the clock once (at), and removes what had expired by then.
Cleanup(at, ok) ==
  \/ /\ ok
     /\ sessions' = Without(ExpiredTokens(at))
  \/ /\ ~ok /\ StoreMayFail
     /\ \E gone \in SUBSET ExpiredTokens(at) : sessions' = Without(gone)
=============================================================================
