--------------------------- MODULE SessionsProofs ---------------------------
(***************************************************************************)
(* What holds of the session life cycle for any number of users, tokens    *)
(* and goroutines, any TTL and any clock: type correctness, the bound on   *)
(* expiries, and that a dead token stays dead.                             *)
(***************************************************************************)
EXTENDS Sessions, TLAPS

USE SessionStoreAssumption, SessionsAssumption, NoCallAssumption

\* What a store method leaves behind is a table of sessions again.
LEMMA WithoutType ==
  ASSUME StoreTypeOK, NEW T
  PROVE  Without(T) \in [Tokens -> Session \cup {NoSession}]
BY DEF StoreTypeOK, Without, Session

LEMMA StoreOpsType ==
  ASSUME StoreTypeOK, NEW t \in Tokens, NEW s \in Session, NEW u \in Users,
         NEW ok \in BOOLEAN, NEW at,
         Set(t, s, ok) \/ Delete(t, ok) \/ DeleteByUser(u, ok) \/ Cleanup(at, ok)
  PROVE  sessions' \in [Tokens -> Session \cup {NoSession}]
<1>1. CASE Set(t, s, ok)
  BY <1>1 DEF Set, StoreTypeOK
<1>2. CASE Delete(t, ok)
  BY <1>2, WithoutType DEF Delete, StoreTypeOK
<1>3. CASE DeleteByUser(u, ok)
  BY <1>3, WithoutType DEF DeleteByUser
<1>4. CASE Cleanup(at, ok)
  BY <1>4, WithoutType DEF Cleanup
<1> QED BY <1>1, <1>2, <1>3, <1>4

\* A deleting method never puts a session into the store.
LEMMA DeletionsOnlyRemove ==
  ASSUME StoreTypeOK, NEW t \in Tokens, NEW u \in Users,
         NEW ok \in BOOLEAN, NEW at,
         Delete(t, ok) \/ DeleteByUser(u, ok) \/ Cleanup(at, ok)
  PROVE  \A x \in Tokens : sessions'[x] \in {sessions[x], NoSession}
BY DEF Delete, DeleteByUser, Cleanup, Without, StoreTypeOK
-----------------------------------------------------------------------------
\* CheckExpiry ends the call, or goes on with the session that was read, its
\* expiry renewed in a refresh.
LEMMA CheckExpiryFrame ==
  ASSUME TypeOK, NEW p \in Procs, CheckExpiry(p)
  PROVE  /\ call' \in [Procs -> Frame \cup {NoCall}]
         /\ \/ call'[p] = NoCall
            \/ call'[p].sess \in {call[p].sess, RefreshedExpiry(call[p].sess)}
<1> DEFINE s == call[p].sess
<1> USE DEF TypeOK, StoreTypeOK
<1>1. call[p] \in Frame /\ s \in Session
  BY DEF CheckExpiry, At, Frame
<1>2. RefreshedExpiry(s) \in Session
  BY <1>1 DEF RefreshedExpiry, Session
<1>3. CASE Return(p)
  BY <1>3 DEF Return
<1>4. CASE call' = [call EXCEPT ![p].pc = "drop"]
  <2>1. /\ call' = [call EXCEPT ![p] = call'[p]]
        /\ call'[p] = [op |-> call[p].op, pc |-> "drop", token |-> call[p].token, sess |-> s]
    BY <1>1, <1>4 DEF Frame
  <2>2. call'[p] \in Frame
    BY <1>1, <2>1 DEF Frame
  <2> QED BY <2>1, <2>2
<1>5. CASE call' = [call EXCEPT ![p] = [@ EXCEPT !.pc = "set", !.sess = RefreshedExpiry(s)]]
  <2>1. /\ call' = [call EXCEPT ![p] = call'[p]]
        /\ call'[p] = [op |-> call[p].op, pc |-> "set", token |-> call[p].token,
                       sess |-> RefreshedExpiry(s)]
    BY <1>1, <1>5 DEF Frame
  <2>2. call'[p] \in Frame
    BY <1>1, <1>2, <2>1 DEF Frame
  <2> QED BY <2>1, <2>2
<1> QED BY <1>3, <1>4, <1>5 DEF CheckExpiry

\* The inductive step of the type invariant, one case per action.
LEMMA TypeStep == TypeOK /\ [Next]_vars => TypeOK'
<1> SUFFICES ASSUME TypeOK, [Next]_vars PROVE TypeOK'
  OBVIOUS
<1> USE DEF TypeOK, StoreTypeOK, Frame
<1>1. ASSUME NEW p \in Procs, NEW t \in Tokens, NEW u \in Users, CreateSession(p, u, t)
      PROVE  TypeOK'
  <2>1. now + TTL \in Nat
    OBVIOUS
  <2> QED BY <1>1, <2>1 DEF CreateSession, Session
<1>2. ASSUME NEW p \in Procs, NEW t \in Tokens, NEW op \in {"validate", "refresh"},
             GetSession(p, op, t)
      PROVE  TypeOK'
  BY <1>2 DEF GetSession, Present
<1>3. ASSUME NEW p \in Procs, CheckExpiry(p)
      PROVE  TypeOK'
  BY <1>3, CheckExpiryFrame DEF CheckExpiry
<1>4. ASSUME NEW p \in Procs, DropExpired(p)
      PROVE  TypeOK'
  <2>1. call[p].token \in Tokens
    BY <1>4 DEF DropExpired, At
  <2>2. \A ok \in BOOLEAN : Delete(call[p].token, ok)
                            => sessions' \in [Tokens -> Session \cup {NoSession}]
    BY <2>1, WithoutType DEF Delete
  <2> QED BY <1>4, <2>2 DEF DropExpired, Return
<1>5. ASSUME NEW p \in Procs, StoreSession(p)
      PROVE  TypeOK'
  <2>1. call[p].token \in Tokens /\ call[p].sess \in Session
    BY <1>5 DEF StoreSession, At
  <2>2. sessions' \in [Tokens -> Session \cup {NoSession}]
    BY <1>5, <2>1 DEF StoreSession, Set
  <2> QED BY <1>5, <2>2 DEF StoreSession, Return
<1>6. ASSUME NEW t \in Tokens, RevokeSession(t)
      PROVE  TypeOK'
  BY <1>6, WithoutType DEF RevokeSession, Delete
<1>7. ASSUME NEW u \in Users, InvalidateUser(u)
      PROVE  TypeOK'
  BY <1>7, WithoutType DEF InvalidateUser, DeleteByUser
<1>8. CASE StartCleanup \/ StopCleanup \/ Tick
  <2>1. sessions' = sessions /\ call' = call /\ issued' = issued /\ revoked' = revoked
    BY <1>8 DEF StartCleanup, StopCleanup, Tick
  <2>2. now' \in Nat
    BY <1>8 DEF StartCleanup, StopCleanup, Tick
  <2>3. cleaner' \in BOOLEAN
    BY <1>8, Zenon DEF StartCleanup, StopCleanup, Tick
  <2> QED BY <2>1, <2>2, <2>3
<1>9. CASE CleanupTick
  BY <1>9, WithoutType DEF CleanupTick, CleanupTickDoes, Cleanup
<1>10. CASE Restart
  BY <1>10 DEF Restart, EmptyStore
<1>11. CASE UNCHANGED vars
  BY <1>11 DEF vars
<1> QED
  BY <1>1, <1>2, <1>3, <1>4, <1>5, <1>6, <1>7, <1>8, <1>9, <1>10, <1>11 DEF Next, Step

\* Every reachable state of the session methods is well typed: in particular no
\* frame ever carries the entry of an absent session (the error of store.Get in
\* ValidateSession and RefreshSession).
THEOREM SessionsTypeCorrect == Spec => []TypeOK
<1>1. Init => TypeOK
  <2> SUFFICES ASSUME Init PROVE TypeOK
    OBVIOUS
  <2>1. StoreTypeOK
    BY DEF Init, StoreTypeOK, EmptyStore
  <2>2. cleaner \in BOOLEAN
    BY Zenon DEF Init
  <2> QED BY <2>1, <2>2 DEF Init, TypeOK
<1> QED BY <1>1, TypeStep, PTL DEF Spec
-----------------------------------------------------------------------------
\* A step leaves every stored session stored as it is, removes it, or (the Set
\* of StoreSession) replaces it by the one its caller holds.
LEMMA StoreStep ==
  ASSUME TypeOK, [Next]_vars, NEW t \in Tokens
  PROVE  \/ sessions'[t] \in {sessions[t], NoSession}
         \/ \E p \in Procs : /\ At(p, "set") /\ call[p].token = t
                             /\ sessions'[t] = call[p].sess
<1> USE DEF TypeOK, StoreTypeOK
<1>1. ASSUME NEW p \in Procs, DropExpired(p)
      PROVE  sessions'[t] \in {sessions[t], NoSession}
  BY <1>1 DEF DropExpired, Delete, Without
<1>2. ASSUME NEW p \in Procs, StoreSession(p)
      PROVE  \/ sessions'[t] = sessions[t]
             \/ call[p].token = t /\ sessions'[t] = call[p].sess
  BY <1>2 DEF StoreSession, Set
<1>3. ASSUME NEW x \in Tokens, RevokeSession(x)
      PROVE  sessions'[t] \in {sessions[t], NoSession}
  BY <1>3 DEF RevokeSession, Delete, Without
<1>4. ASSUME NEW u \in Users, InvalidateUser(u)
      PROVE  sessions'[t] \in {sessions[t], NoSession}
  BY <1>4 DEF InvalidateUser, DeleteByUser, Without
<1>5. CASE CleanupTick
  BY <1>5 DEF CleanupTick, CleanupTickDoes, Cleanup, Without
<1>6. CASE Restart
  BY <1>6 DEF Restart, EmptyStore
<1>7. CASE UNCHANGED sessions
  BY <1>7
<1> QED
  BY <1>1, <1>2, <1>3, <1>4, <1>5, <1>6, <1>7
  DEF Next, Step, CreateSession, GetSession, CheckExpiry, StartCleanup, StopCleanup,
      Tick, vars, StoreSession

\* A step that changes a frame begins a call, moves it on, or ends it.
LEMMA FrameStep ==
  ASSUME TypeOK, [Next]_vars, NEW p \in Procs, call'[p] # NoCall
  PROVE  \/ call'[p] = call[p]
         \/ \E u \in Users, t \in Tokens : CreateSession(p, u, t)
         \/ \E op \in {"validate", "refresh"}, t \in Tokens : GetSession(p, op, t)
         \/ CheckExpiry(p)
<1> USE DEF TypeOK
<1>1. ASSUME NEW q \in Procs, q # p, NEW u \in Users, NEW t \in Tokens,
             CreateSession(q, u, t)
      PROVE  call'[p] = call[p]
  BY <1>1 DEF CreateSession
<1>2. ASSUME NEW q \in Procs, q # p, NEW op \in {"validate", "refresh"},
             NEW t \in Tokens, GetSession(q, op, t)
      PROVE  call'[p] = call[p]
  BY <1>2 DEF GetSession
<1>3. ASSUME NEW q \in Procs, q # p, CheckExpiry(q)
      PROVE  call'[p] = call[p]
  BY <1>3 DEF CheckExpiry, Return
<1>4. ASSUME NEW q \in Procs, DropExpired(q) \/ StoreSession(q)
      PROVE  call'[p] = call[p]
  BY <1>4 DEF DropExpired, StoreSession, Return
<1>5. CASE Restart
  BY <1>5 DEF Restart
<1>6. CASE UNCHANGED call
  BY <1>6
<1> QED
  BY <1>1, <1>2, <1>3, <1>4, <1>5, <1>6
  DEF Next, Step, RevokeSession, InvalidateUser, StartCleanup, StopCleanup,
      CleanupTick, CleanupTickDoes, Tick, vars

\* The clock does not run backwards.
LEMMA ClockStep == TypeOK /\ [Next]_vars => now' \in Nat /\ now <= now'
<1> SUFFICES ASSUME TypeOK, [Next]_vars PROVE now' \in Nat /\ now <= now'
  OBVIOUS
<1>1. now \in Nat
  BY DEF TypeOK, StoreTypeOK
<1>2. CASE Tick
  BY <1>1, <1>2 DEF Tick
<1>3. now' = now \/ Tick
  BY DEF Next, Step, CreateSession, GetSession, CheckExpiry, DropExpired, StoreSession,
         RevokeSession, InvalidateUser, StartCleanup, StopCleanup, CleanupTick, CleanupTickDoes,
         Restart, vars
<1> QED BY <1>1, <1>2, <1>3
-----------------------------------------------------------------------------
LEMMA ExpiryStep == TypeOK /\ ExpiryBound /\ [Next]_vars => ExpiryBound'
<1> SUFFICES ASSUME TypeOK, ExpiryBound, [Next]_vars PROVE ExpiryBound'
  OBVIOUS
<1> USE DEF TypeOK, StoreTypeOK, Frame, Session, ExpiryBound
<1>1. now' \in Nat /\ now <= now'
  BY ClockStep
<1>2. ASSUME NEW t \in Tokens, Present(t)'
      PROVE  sessions'[t].exp <= now' + TTL
  <2>1. CASE sessions'[t] \in {sessions[t], NoSession}
    BY <1>1, <1>2, <2>1 DEF Present
  <2>2. ASSUME NEW p \in Procs, At(p, "set"), sessions'[t] = call[p].sess
        PROVE  sessions'[t].exp <= now' + TTL
    BY <1>1, <2>2 DEF At
  <2> QED BY <2>1, <2>2, StoreStep
<1>3. ASSUME NEW p \in Procs, call'[p] # NoCall
      PROVE  call'[p].sess.exp <= now' + TTL
  <2>1. CASE call'[p] = call[p]
    BY <1>1, <1>3, <2>1
  <2>2. ASSUME NEW u \in Users, NEW t \in Tokens, CreateSession(p, u, t)
        PROVE  call'[p].sess.exp <= now' + TTL
    BY <1>1, <2>2 DEF CreateSession
  <2>3. ASSUME NEW op \in {"validate", "refresh"}, NEW t \in Tokens, GetSession(p, op, t)
        PROVE  call'[p].sess.exp <= now' + TTL
    BY <1>1, <2>3 DEF GetSession, Present
  <2>4. CASE CheckExpiry(p)
    <3>1. call[p] \in Frame /\ call[p].sess.exp <= now + TTL /\ now' = now
      BY <2>4 DEF CheckExpiry, At
    <3>2. RefreshedExpiry(call[p].sess).exp = now + TTL
      BY <3>1 DEF RefreshedExpiry
    <3> QED BY <1>3, <2>4, <3>1, <3>2, CheckExpiryFrame
  <2> QED BY <1>3, <2>1, <2>2, <2>3, <2>4, FrameStep
<1> QED BY <1>2, <1>3

\* No sequence of refreshes, alone or concurrent, keeps a session alive for more
\* than one sessionTTL after the last one (RefreshSession, createSession).
THEOREM ExpiryIsBounded == Spec => []ExpiryBound
<1>1. Init => ExpiryBound
  BY DEF Init, ExpiryBound, EmptyStore, Present
<1> QED BY <1>1, ExpiryStep, SessionsTypeCorrect, PTL DEF Spec

\* The step of DeadStaysDead: only a call that holds the token's session, or is
\* given a fresh token, writes to the store, and no call can get hold of the
\* session of a token that is not there.
LEMMA DeadStep ==
  ASSUME TypeOK, [Next]_vars, NEW t \in Tokens, Dead(t)
  PROVE  Dead(t)'
<1> USE DEF TypeOK, StoreTypeOK, Frame
<1>1. t \in issued'
  BY DEF Dead, Next, Step, CreateSession, GetSession, CheckExpiry, DropExpired,
         StoreSession, RevokeSession, InvalidateUser, StartCleanup, StopCleanup,
         CleanupTick, CleanupTickDoes, Tick, Restart, vars
<1>2. sessions'[t] = NoSession
  <2>1. sessions[t] = NoSession
    BY DEF Dead, Present
  <2>2. ASSUME NEW p \in Procs, At(p, "set"), call[p].token = t
        PROVE  FALSE
    BY <2>2 DEF Dead, MayWrite, At
  <2> QED BY <2>1, <2>2, StoreStep
<1>3. ASSUME NEW p \in Procs, MayWrite(p, t)'
      PROVE  FALSE
  <2>1. call'[p] # NoCall /\ call'[p].token = t
    BY <1>3 DEF MayWrite
  <2>2. CASE call'[p] = call[p]
    BY <1>3, <2>2 DEF MayWrite, Dead
  <2>3. ASSUME NEW u \in Users, NEW x \in Tokens, CreateSession(p, u, x)
        PROVE  FALSE
    BY <2>1, <2>3 DEF CreateSession, Dead
  <2>4. ASSUME NEW op \in {"validate", "refresh"}, NEW x \in Tokens, GetSession(p, op, x)
        PROVE  FALSE
    BY <2>1, <2>4 DEF GetSession, Dead
  <2>5. CASE CheckExpiry(p)
    <3>1. call[p] \in Frame /\ call[p].pc = "got"
      BY <2>5 DEF CheckExpiry, At
    <3>2. call'[p] = [call[p] EXCEPT !.pc = "drop"]
          \/ (call[p].op = "refresh"
              /\ call'[p].token = call[p].token)
      BY <2>1, <2>5, <3>1 DEF CheckExpiry, Return
    <3> QED BY <1>3, <2>1, <3>1, <3>2 DEF MayWrite, Dead
  <2> QED BY <2>1, <2>2, <2>3, <2>4, <2>5, FrameStep
<1> QED BY <1>1, <1>2, <1>3 DEF Dead, Present

\* A token that left the store with no write to it under way never comes back,
\* whatever calls, cleanups, store errors and restarts follow: what RevokeSession
\* and DeleteByUser do guarantee in spite of the unlocked RefreshSession.
THEOREM DeadTokensStayDead == Spec => DeadStaysDead
<1>1. TypeOK /\ [Next]_vars => [\A t \in Tokens : Dead(t) => Dead(t)']_vars
  BY DeadStep
<1> QED BY <1>1, SessionsTypeCorrect, PTL DEF Spec, DeadStaysDead
-----------------------------------------------------------------------------
\* A call about to drop a session has seen its copy expired, and the clock has
\* not gone back since.
DropsExpired == \A p \in Procs : At(p, "drop") => ExpiredAt(call[p].sess, now)

LEMMA DropsExpiredStep == TypeOK /\ DropsExpired /\ [Next]_vars => DropsExpired'
<1> SUFFICES ASSUME TypeOK, DropsExpired, [Next]_vars,
                    NEW p \in Procs, At(p, "drop")'
             PROVE  ExpiredAt(call[p].sess, now)'
  BY DEF DropsExpired
<1> USE DEF TypeOK, StoreTypeOK, Frame, Session, DropsExpired, ExpiredAt
<1>1. now' \in Nat /\ now <= now' /\ now \in Nat
  BY ClockStep
<1>2. call'[p] # NoCall /\ call'[p].pc = "drop"
  BY DEF At
<1>3. CASE call'[p] = call[p]
  BY <1>1, <1>2, <1>3 DEF At
<1>4. CASE CheckExpiry(p)
  BY <1>2, <1>4 DEF CheckExpiry, At, Return, Stale
<1>5. ASSUME NEW u \in Users, NEW t \in Tokens, CreateSession(p, u, t)
      PROVE  FALSE
  BY <1>2, <1>5 DEF CreateSession
<1>6. ASSUME NEW op \in {"validate", "refresh"}, NEW t \in Tokens, GetSession(p, op, t)
      PROVE  FALSE
  BY <1>2, <1>6 DEF GetSession
<1> QED BY <1>2, <1>3, <1>4, <1>5, <1>6, FrameStep

\* Which step can remove a session that has not expired.
LEMMA LiveDropStep ==
  ASSUME TypeOK, DropsExpired, [Next]_vars, NEW t \in Tokens,
         Present(t), ~ExpiredAt(sessions[t], now), sessions'[t] = NoSession
  PROVE  \/ RevokeSession(t)
         \/ InvalidateUser(sessions[t].user)
         \/ Restart
         \/ \E p \in Procs : At(p, "drop") /\ call[p].token = t
                           /\ call[p].sess.exp < sessions[t].exp
<1> USE DEF TypeOK, StoreTypeOK, Present
<1>1. ASSUME NEW p \in Procs, DropExpired(p)
      PROVE  /\ At(p, "drop") /\ call[p].token = t
             /\ call[p].sess.exp < sessions[t].exp
  <2>1. At(p, "drop") /\ call[p].token = t
    BY <1>1 DEF DropExpired, Delete, Without
  <2>2. now > call[p].sess.exp /\ now <= sessions[t].exp
    BY <2>1 DEF DropsExpired, ExpiredAt, At, Frame, Session
  <2> QED BY <2>1, <2>2 DEF At, Frame, Session
<1>2. ASSUME NEW p \in Procs, StoreSession(p)
      PROVE  FALSE
  BY <1>2 DEF StoreSession, Set, At, Frame
<1>3. ASSUME NEW x \in Tokens, RevokeSession(x)
      PROVE  x = t
  BY <1>3 DEF RevokeSession, Delete, Without
<1>4. ASSUME NEW u \in Users, InvalidateUser(u)
      PROVE  u = sessions[t].user
  BY <1>4 DEF InvalidateUser, DeleteByUser, OfUser, Without
<1>5. CASE CleanupTick
  BY <1>5 DEF CleanupTick, CleanupTickDoes, Cleanup, ExpiredTokens, Without
<1>6. CASE UNCHANGED sessions
  BY <1>6
<1> QED
  BY <1>1, <1>2, <1>3, <1>4, <1>5, <1>6
  DEF Next, Step, CreateSession, GetSession, CheckExpiry, StartCleanup, StopCleanup,
      Tick, vars

\* The unlocked read-then-delete of ValidateSession and RefreshSession loses a
\* live session in one way only: the check was made on a copy from before a
\* refresh.  Nothing else but revocation, invalidation and a stop of the program
\* removes a session before its time.
THEOREM LiveSessionsAreKept == Spec => OnlyStaleCopyDropsLive
<1>1. Init => DropsExpired
  BY DEF Init, DropsExpired, At
<1>2. TypeOK /\ DropsExpired /\ [Next]_vars
      => [\A t \in Tokens :
            Present(t) /\ ~ExpiredAt(sessions[t], now) /\ sessions'[t] = NoSession
            => \/ RevokeSession(t)
               \/ InvalidateUser(sessions[t].user)
               \/ Restart
               \/ \E p \in Procs : At(p, "drop") /\ call[p].token = t
                                 /\ call[p].sess.exp < sessions[t].exp]_vars
  BY LiveDropStep
<1> QED
  BY <1>1, <1>2, DropsExpiredStep, SessionsTypeCorrect, PTL
  DEF Spec, OnlyStaleCopyDropsLive
=============================================================================
