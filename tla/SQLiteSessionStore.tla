------------------------- MODULE SQLiteSessionStore -------------------------
(***************************************************************************)
(* SQLiteSessionStore (auth/session_store_sqlite.go): sessions are rows of *)
(* a database reached one statement at a time.  DeleteByUser and Cleanup   *)
(* read all rows, then delete the matching ones row by row, in the random  *)
(* order of a Go map, and return at the first row that fails.  Each        *)
(* statement commits by itself, so an error or a crash in the middle       *)
(* leaves the rows deleted so far deleted.  The store's mutex `mu` is held *)
(* for a whole method: no other method runs until the loop is over.        *)
(*                                                                         *)
(* The rows are written by Set only, so the branches that skip a row that  *)
(* is not a session are not reached and are left out.                      *)
(***************************************************************************)
EXTENDS Integers, FiniteSets

CONSTANTS Users, Tokens, NoSession,
  MaxTime      \* bound: the clock stops here

VARIABLES
  rows,        \* the session group of the database
  now,         \* the clock
  mu,          \* Free, or the multi-row method that holds the mutex
  reply        \* the outcome reported by the last method that returned

vars == <<rows, now, mu, reply>>

Session == [user : Users, exp : 0..(MaxTime + 1)]
ASSUME NoSessionAssumption == NoSession \notin Session
ASSUME MaxTimeAssumption == MaxTime \in Nat
ASSUME TokensAssumption == IsFiniteSet(Tokens)

\* The frame of a multi-row method: all (GetAll), the tokens still to delete,
\* the rows deleted so far (Cleanup's count)
Free == [method |-> "free"]
Loop(method, todo) == [method |-> method, all |-> rows, todo |-> todo, count |-> 0]

Locked == mu # Free
Present(t) == rows[t] # NoSession
Reply(method, ok, count) == [method |-> method, ok |-> ok, count |-> count]
NoReply == Reply("none", TRUE, 0)

TypeOK ==
  /\ rows \in [Tokens -> Session \cup {NoSession}]
  /\ now \in 0..MaxTime
  /\ Locked => /\ mu.method \in {"DeleteByUser", "Cleanup"}
               /\ mu.all \in [Tokens -> Session \cup {NoSession}]
               /\ mu.todo \subseteq {t \in Tokens : Present(t)}
               /\ mu.count + Cardinality(mu.todo) <= Cardinality(Tokens)

Init ==
  /\ rows = [t \in Tokens |-> NoSession]
  /\ now = 0
  /\ mu = Free
  /\ reply = NoReply
-----------------------------------------------------------------------------
\* INSERT OR REPLACE of one row
Set(t, s) ==
  /\ ~Locked
  /\ \/ rows' = [rows EXCEPT ![t] = s] /\ reply' = Reply("Set", TRUE, 0)
     \/ rows' = rows /\ reply' = Reply("Set", FALSE, 0)
  /\ UNCHANGED <<now, mu>>

\* Get for existence, then delete, both under mu
Delete(t) ==
  /\ ~Locked
  /\ \/ /\ Present(t) /\ rows' = [rows EXCEPT ![t] = NoSession]
        /\ reply' = Reply("Delete", TRUE, 0)
     \/ rows' = rows /\ reply' = Reply("Delete", FALSE, 0)
  /\ UNCHANGED <<now, mu>>

\* GetAll failed: nothing was deleted
GetAllFails(method) ==
  /\ ~Locked
  /\ reply' = Reply(method, FALSE, 0)
  /\ UNCHANGED <<rows, now, mu>>

BeginDeleteByUser(u) ==
  /\ ~Locked
  /\ mu' = Loop("DeleteByUser", {t \in Tokens : Present(t) /\ rows[t].user = u})
  /\ UNCHANGED <<rows, now, reply>>

\* the clock is read once, after GetAll and before the loop
BeginCleanup ==
  /\ ~Locked
  /\ mu' = Loop("Cleanup", {t \in Tokens : Present(t) /\ now > rows[t].exp})
  /\ UNCHANGED <<rows, now, reply>>

\* DeleteRow with a mistake: the loop does not move past the deleted row
DeleteRowTwice(t) ==
  /\ Locked /\ t \in mu.todo
  /\ rows' = [rows EXCEPT ![t] = NoSession]
  /\ mu' = [mu EXCEPT !.count = @ + 1]
  /\ UNCHANGED <<now, reply>>

DeleteRow(t) ==
  /\ Locked /\ t \in mu.todo
  /\ rows' = [rows EXCEPT ![t] = NoSession]
  /\ mu' = [mu EXCEPT !.todo = @ \ {t}, !.count = @ + 1]
  /\ UNCHANGED <<now, reply>>

Count == IF mu.method = "Cleanup" THEN mu.count ELSE 0

\* RowFails with a mistake: a failed row is skipped and success reported
RowFailsSilently ==
  /\ Locked /\ mu.todo # {}
  /\ reply' = Reply(mu.method, TRUE, Count)
  /\ mu' = Free
  /\ UNCHANGED <<rows, now>>

RowFails ==
  /\ Locked /\ mu.todo # {}
  /\ reply' = Reply(mu.method, FALSE, Count)
  /\ mu' = Free
  /\ UNCHANGED <<rows, now>>

FinishLoop ==
  /\ Locked /\ mu.todo = {}
  /\ reply' = Reply(mu.method, TRUE, Count)
  /\ mu' = Free
  /\ UNCHANGED <<rows, now>>

\* The process dies; the database keeps the rows as they are.
Crash ==
  /\ mu' = Free /\ reply' = NoReply
  /\ UNCHANGED <<rows, now>>

Tick == now < MaxTime /\ now' = now + 1 /\ UNCHANGED <<rows, mu, reply>>

Next ==
  \/ \E t \in Tokens, u \in Users : \E e \in 0..(now + 1) :
       Set(t, [user |-> u, exp |-> e])
  \/ \E t \in Tokens : Delete(t) \/ DeleteRow(t)
  \/ \E u \in Users : BeginDeleteByUser(u) \/ GetAllFails("DeleteByUser")
  \/ BeginCleanup \/ GetAllFails("Cleanup") \/ RowFails \/ FinishLoop \/ Crash \/ Tick

Spec == Init /\ [][Next]_vars
-----------------------------------------------------------------------------
\* What the other methods can see: while a loop holds mu they see nothing, so
\* the table is still the one that GetAll read.
Visible == IF Locked THEN mu.all ELSE rows

Promise == INSTANCE StorePromise
             WITH sessions <- Visible, StoreMayFail <- TRUE

\* Under its mutex the row-by-row store keeps the promise of a SessionStore:
\* every method looks atomic, and only an error or a crash leaves a partial
\* deletion (session_store_sqlite.go).
KeepsPromise == Promise!PromiseSpec
=============================================================================
