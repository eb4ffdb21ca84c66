---------------------------- MODULE StorePromise ----------------------------
(***************************************************************************)
(* What a SessionStore promises its callers, with nothing about how it is  *)
(* stored: each method takes effect at one instant, and `reply` is the     *)
(* outcome it reports.  An error may leave part of the work done, but a    *)
(* DeleteByUser that reports success left no session of the user, and a    *)
(* Cleanup that reports success left none that had expired when it looked. *)
(***************************************************************************)
EXTENDS SessionStore, FiniteSets

VARIABLE reply     \* the last outcome: method, success, and Cleanup's count

PromiseVars == <<sessions, now, reply>>

Reply(method, ok, count) == [method |-> method, ok |-> ok, count |-> count]
NoReply == Reply("none", TRUE, 0)

\* The number of sessions that the step removes
Removed == Cardinality({t \in Tokens : Present(t) /\ sessions'[t] = NoSession})

PromiseInit == sessions = EmptyStore /\ now = 0 /\ reply = NoReply

PromiseSet(t, s) == \E ok \in BOOLEAN :
  Set(t, s, ok) /\ reply' = Reply("Set", ok, 0) /\ UNCHANGED now

PromiseDelete(t) == \E ok \in BOOLEAN :
  Delete(t, ok) /\ reply' = Reply("Delete", ok, 0) /\ UNCHANGED now

PromiseDeleteByUser(u) == \E ok \in BOOLEAN :
  DeleteByUser(u, ok) /\ reply' = Reply("DeleteByUser", ok, 0) /\ UNCHANGED now

PromiseCleanup == \E ok \in BOOLEAN, at \in 0..now :
  Cleanup(at, ok) /\ reply' = Reply("Cleanup", ok, Removed) /\ UNCHANGED now

\* The process stops: a method in progress may have done part of its work,
\* and nobody gets a reply.
PromiseCrash ==
  /\ \/ sessions' = sessions
     \/ \E u \in Users : \E gone \in SUBSET OfUser(u) : sessions' = Without(gone)
     \/ \E gone \in SUBSET ExpiredTokens(now) : sessions' = Without(gone)
  /\ reply' = NoReply
  /\ UNCHANGED now

PromiseTick == now' = now + 1 /\ UNCHANGED <<sessions, reply>>

PromiseNext ==
  \/ \E t \in Tokens, u \in Users : \E e \in 0..(now + 1) :
       PromiseSet(t, [user |-> u, exp |-> e])
  \/ \E t \in Tokens : PromiseDelete(t)
  \/ \E u \in Users : PromiseDeleteByUser(u)
  \/ PromiseCleanup \/ PromiseCrash \/ PromiseTick

PromiseSpec == PromiseInit /\ [][PromiseNext]_PromiseVars
=============================================================================
