------------------------------ MODULE Sessions ------------------------------
(***************************************************************************)
(* The life of a session in the Authenticator (auth/auth.go):              *)
(* createSession, ValidateSession, RefreshSession, RevokeSession, the      *)
(* DeleteByUser of RotateKeyPair, RevokeKey and DeleteUser, and the        *)
(* StartCleanup goroutine, over one SessionStore.                          *)
(*                                                                         *)
(* Each store method is atomic (it runs under the store's lock), but the   *)
(* Authenticator takes no lock of its own around them: ValidateSession and *)
(* RefreshSession read a copy of the session, look at the clock, and then  *)
(* delete or write the session.  A process p is a goroutine inside one of  *)
(* these methods; call[p] is its frame between two store calls.            *)
(***************************************************************************)
EXTENDS SessionStore

CONSTANTS
  Procs,         \* the goroutines that call the Authenticator
  TTL,           \* sessionTTL
  MaxTime,       \* bound: the clock stops here
  Durable,       \* TRUE: SQLite, sessions survive a restart; FALSE: memory
  NoCall         \* the frame of an idle process

VARIABLES
  call,          \* the frame of each process
  issued,        \* tokens drawn so far (random, so never drawn again)
  cleaner,       \* whether a StartCleanup goroutine runs
  revoked        \* history: tokens whose RevokeSession returned nil

vars == <<sessions, now, call, issued, cleaner, revoked>>

ASSUME SessionsAssumption ==
  /\ TTL \in Nat \ {0} /\ MaxTime \in Nat /\ Durable \in BOOLEAN

(* pc "got":  store.Get returned the copy `sess`, the clock is not yet read *)
(* pc "drop": the copy was found expired, store.Delete is next              *)
(* pc "set":  `sess` is complete, store.Set is next                         *)
Frame == [op : {"create", "validate", "refresh"}, pc : {"got", "drop", "set"},
          token : Tokens, sess : Session]

ASSUME NoCallAssumption == NoCall \notin Frame

Idle(p) == call[p] = NoCall
At(p, pc) == call[p] # NoCall /\ call[p].pc = pc
Return(p) == call' = [call EXCEPT ![p] = NoCall]

TypeOK ==
  /\ StoreTypeOK
  /\ call \in [Procs -> Frame \cup {NoCall}]
  /\ issued \subseteq Tokens
  /\ cleaner \in BOOLEAN
  /\ revoked \subseteq Tokens

Init ==
  /\ sessions = EmptyStore
  /\ now = 0
  /\ call = [p \in Procs |-> NoCall]
  /\ issued = {}
  /\ cleaner = FALSE
  /\ revoked = {}
-----------------------------------------------------------------------------
\* createSession up to its store.Set: a fresh token, ExpiresAt one TTL ahead
CreateSession(p, u, t) ==
  /\ Idle(p) /\ t \notin issued
  /\ issued' = issued \cup {t}
  /\ call' = [call EXCEPT ![p] = [op |-> "create", pc |-> "set", token |-> t,
                                  sess |-> [user |-> u, exp |-> now + TTL]]]
  /\ UNCHANGED <<sessions, now, cleaner, revoked>>

\* GetSession with a mistake: the error of store.Get is not looked at
GetSessionUnchecked(p, op, t) ==
  /\ Idle(p)
  /\ call' = [call EXCEPT ![p] = [op |-> op, pc |-> "got", token |-> t,
                                  sess |-> sessions[t]]]
  /\ UNCHANGED <<sessions, now, issued, cleaner, revoked>>

\* store.Get at the head of ValidateSession and RefreshSession.  A token that
\* is not in the store makes both return at once, with nothing changed.
GetSession(p, op, t) ==
  /\ Idle(p) /\ Present(t)
  /\ call' = [call EXCEPT ![p] = [op |-> op, pc |-> "got", token |-> t,
                                  sess |-> sessions[t]]]
  /\ UNCHANGED <<sessions, now, issued, cleaner, revoked>>

\* RefreshedExpiry with a mistake: one TTL added to the old expiry
RefreshFromOldExpiry(s) == [s EXCEPT !.exp = s.exp + TTL]

\* session.ExpiresAt = time.Now().Add(a.sessionTTL)
RefreshedExpiry(s) == [s EXCEPT !.exp = now + TTL]

\* time.Now().After(session.ExpiresAt), on the copy that Get returned
Stale(s) == ExpiredAt(s, now)

\* CheckExpiry with a mistake: a validation extends the session as well
SlidingCheckExpiry(p) ==
  /\ At(p, "got")
  /\ call' = IF Stale(call[p].sess)
             THEN [call EXCEPT ![p].pc = "drop"]
             ELSE [call EXCEPT ![p] =
                     [@ EXCEPT !.pc = "set", !.sess = RefreshedExpiry(call[p].sess)]]
  /\ UNCHANGED <<sessions, now, issued, cleaner, revoked>>

CheckExpiry(p) ==
  /\ At(p, "got")
  /\ LET s == call[p].sess IN
     \/ Stale(s) /\ call' = [call EXCEPT ![p].pc = "drop"]
     \/ ~Stale(s) /\ call[p].op = "validate" /\ Return(p)
     \/ /\ ~Stale(s) /\ call[p].op = "refresh"
        /\ call' = [call EXCEPT ![p] = [@ EXCEPT !.pc = "set", !.sess = RefreshedExpiry(s)]]
  /\ UNCHANGED <<sessions, now, issued, cleaner, revoked>>

\* store.Delete of an expired session: a failure is logged, not returned
DropExpired(p) ==
  /\ At(p, "drop")
  /\ \E ok \in BOOLEAN : Delete(call[p].token, ok)
  /\ Return(p)
  /\ UNCHANGED <<now, issued, cleaner, revoked>>

\* store.Set, the last step of createSession and RefreshSession
StoreSession(p) ==
  /\ At(p, "set")
  /\ \E ok \in BOOLEAN : Set(call[p].token, call[p].sess, ok)
  /\ Return(p)
  /\ UNCHANGED <<now, issued, cleaner, revoked>>

\* RevokeSession is one store.Delete
RevokeSession(t) ==
  /\ \E ok \in BOOLEAN :
       /\ Delete(t, ok)
       /\ revoked' = IF ok THEN revoked \cup {t} ELSE revoked
  /\ UNCHANGED <<now, call, issued, cleaner>>

\* store.DeleteByUser, the last step of RotateKeyPair, RevokeKey, DeleteUser
InvalidateUser(u) ==
  /\ \E ok \in BOOLEAN : DeleteByUser(u, ok)
  /\ UNCHANGED <<now, call, issued, cleaner, revoked>>

StartCleanup ==
  /\ ~cleaner /\ cleaner' = TRUE
  /\ UNCHANGED <<sessions, now, call, issued, revoked>>

\* ctx.Done(): the goroutine returns
StopCleanup ==
  /\ cleaner /\ cleaner' = FALSE
  /\ UNCHANGED <<sessions, now, call, issued, revoked>>

\* ticker.C: one Cleanup; an error is logged and the loop goes on
CleanupTickDoes(ok) ==
  /\ cleaner
  /\ Cleanup(now, ok)
  /\ UNCHANGED <<now, call, issued, cleaner, revoked>>

CleanupTick == \E ok \in BOOLEAN : CleanupTickDoes(ok)

Tick ==
  /\ now < MaxTime /\ now' = now + 1
  /\ UNCHANGED <<sessions, call, issued, cleaner, revoked>>

\* The program stops and is started again: every call is lost, and so are
\* the sessions unless the store is durable.
Restart ==
  /\ call' = [p \in Procs |-> NoCall]
  /\ sessions' = IF Durable THEN sessions ELSE EmptyStore
  /\ cleaner' = FALSE
  /\ UNCHANGED <<now, issued, revoked>>

Step(p) == CheckExpiry(p) \/ DropExpired(p) \/ StoreSession(p)

Next ==
  \/ \E p \in Procs, t \in Tokens :
       \/ \E u \in Users : CreateSession(p, u, t)
       \/ \E op \in {"validate", "refresh"} : GetSession(p, op, t)
  \/ \E p \in Procs : Step(p)
  \/ \E t \in Tokens : RevokeSession(t)
  \/ \E u \in Users : InvalidateUser(u)
  \/ StartCleanup \/ StopCleanup \/ CleanupTick
  \/ Tick \/ Restart

Spec == Init /\ [][Next]_vars

\* The Go scheduler runs the goroutine of StartCleanup and its ticker fires for
\* as long as it runs; a store that fails does not fail at every tick for ever.
FairSpec == Spec /\ WF_vars(CleanupTickDoes(TRUE))
-----------------------------------------------------------------------------
\* A process that may still write token t: it is about to Set it, or it is a
\* refresh that has read it and may yet decide to.
MayWrite(p, t) ==
  /\ call[p] # NoCall /\ call[p].token = t
  /\ call[p].pc = "set" \/ (call[p].pc = "got" /\ call[p].op = "refresh")

\* A token is dead when it was drawn, is not stored, and no call can store it.
Dead(t) == t \in issued /\ ~Present(t) /\ \A p \in Procs : ~MayWrite(p, t)

\* No stored session, and none about to be stored, expires later than one
\* sessionTTL from now: neither refreshing often nor refreshing concurrently
\* buys more (RefreshSession, createSession).
ExpiryBound ==
  /\ \A t \in Tokens : Present(t) => sessions[t].exp <= now + TTL
  /\ \A p \in Procs : call[p] # NoCall => call[p].sess.exp <= now + TTL

\* However a session left the store (RevokeSession, DeleteByUser, Cleanup, an
\* expiry check, a restart), if no createSession or RefreshSession of its token
\* was under way, then no interleaving of later calls, cleanups, store errors
\* and restarts brings the token back.
DeadStaysDead == [][\A t \in Tokens : Dead(t) => Dead(t)']_vars

\* A session that has not expired leaves the store only when it is revoked,
\* when its user is invalidated, when the program stops, or when an expiry
\* check acts on a copy older than the stored session (the one race of
\* ValidateSession and RefreshSession with a concurrent refresh).
OnlyStaleCopyDropsLive ==
  [][\A t \in Tokens :
       Present(t) /\ ~ExpiredAt(sessions[t], now) /\ sessions'[t] = NoSession
       => \/ RevokeSession(t)
          \/ InvalidateUser(sessions[t].user)
          \/ Restart
          \/ \E p \in Procs : At(p, "drop") /\ call[p].token = t
                            /\ call[p].sess.exp < sessions[t].exp]_vars

Expired(t) == Present(t) /\ ExpiredAt(sessions[t], now)

\* While the cleanup goroutine runs, an expired session does not stay in the
\* store: it is collected, dropped, or refreshed by a call already past its
\* expiry check, through any number of failed ticks (StartCleanup).
ExpiredIsCollected ==
  \A t \in Tokens : [](Expired(t) => <>(~Expired(t) \/ ~cleaner))

\* RevokeSession "removes a session, invalidating the token immediately"
\* (auth.go:376): a token whose RevokeSession returned nil is not in the store.
RevokedTokenGone == \A t \in revoked : ~Present(t)
=============================================================================
