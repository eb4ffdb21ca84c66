-------------------------- MODULE SQLiteStoreProofs --------------------------
(***************************************************************************)
(* The row-by-row SQLite store implements StorePromise for any users,      *)
(* tokens and length of run.                                               *)
(***************************************************************************)
EXTENDS SQLiteSessionStore, FiniteSetTheorems, TLAPS

USE NoSessionAssumption, MaxTimeAssumption, TokensAssumption

Table == [Tokens -> Session \cup {NoSession}]

\* The tokens of a table that a deletion of a user's sessions, or a cleanup at an
\* instant, is about
OfUserIn(all, u) == {t \in Tokens : all[t] # NoSession /\ all[t].user = u}
ExpiredIn(all, at) == {t \in Tokens : all[t] # NoSession /\ at > all[t].exp}

\* The rows that the loop has deleted so far
Gone == {t \in Tokens : mu.all[t] # NoSession /\ rows[t] = NoSession}

\* The rows done and the rows to do are together those that the method is about.
LoopTarget ==
  \/ /\ mu.method = "DeleteByUser"
     /\ \E u \in Users : Gone \cup mu.todo = OfUserIn(mu.all, u)
  \/ /\ mu.method = "Cleanup"
     /\ \E at \in 0..now : Gone \cup mu.todo = ExpiredIn(mu.all, at)

\* A loop has changed nothing but to delete the rows it has counted.
LoopInv ==
  /\ mu \in [method : {"DeleteByUser", "Cleanup"}, all : Table, todo : SUBSET Tokens, count : Nat]
  /\ \A t \in mu.todo : Present(t)
  /\ \A t \in Tokens \ Gone : rows[t] = mu.all[t]
  /\ mu.count = Cardinality(Gone)
  /\ LoopTarget

IInv ==
  /\ rows \in Table
  /\ now \in 0..MaxTime
  /\ Locked => LoopInv

LEMMA GoneIsFinite == IsFiniteSet(Gone)
<1>1. Gone \subseteq Tokens
  BY DEF Gone
<1> QED BY <1>1, FS_Subset

LEMMA IInvImpliesTypeOK == IInv => TypeOK
<1> SUFFICES ASSUME IInv PROVE TypeOK
  OBVIOUS
<1>1. ASSUME Locked
      PROVE  mu.count + Cardinality(mu.todo) <= Cardinality(Tokens)
  <2>1. LoopInv
    BY <1>1 DEF IInv
  <2>2. Gone \cap mu.todo = {} /\ mu.todo \subseteq Tokens /\ Gone \cup mu.todo \subseteq Tokens
    BY <2>1 DEF LoopInv, Gone, Present
  <2>3. IsFiniteSet(Gone) /\ IsFiniteSet(mu.todo) /\ IsFiniteSet(Gone \cup mu.todo)
    BY <2>2, GoneIsFinite, FS_Subset
  <2>4. Cardinality(Gone \cup mu.todo) <= Cardinality(Tokens)
    BY <2>2, FS_Subset
  <2>5. Cardinality(Gone \cup mu.todo)
          = Cardinality(Gone) + Cardinality(mu.todo) - Cardinality(Gone \cap mu.todo)
    BY <2>3, FS_Union
  <2>6. Cardinality(Gone \cap mu.todo) = 0
    BY <2>2, FS_EmptySet
  <2>7. Cardinality(Gone) \in Nat /\ Cardinality(mu.todo) \in Nat
        /\ Cardinality(Gone \cup mu.todo) \in Nat /\ Cardinality(Tokens) \in Nat
    BY <2>3, FS_CardinalityType
  <2> QED BY <2>1, <2>4, <2>5, <2>6, <2>7 DEF LoopInv
<1>2. Locked => mu.method \in {"DeleteByUser", "Cleanup"}
  BY DEF IInv, LoopInv, LoopTarget
<1> QED BY <1>1, <1>2 DEF IInv, LoopInv, Table, TypeOK
-----------------------------------------------------------------------------
\* A loop that has just begun has deleted nothing.
LEMMA BeginInv ==
  ASSUME IInv, NEW method, NEW todo, mu' = Loop(method, todo), rows' = rows, now' = now,
         todo \subseteq {t \in Tokens : Present(t)},
         \/ method = "DeleteByUser" /\ \E u \in Users : todo = OfUserIn(rows, u)
         \/ method = "Cleanup" /\ \E at \in 0..now : todo = ExpiredIn(rows, at)
  PROVE  IInv'
<1>1. mu'.all = rows /\ mu'.todo = todo /\ mu'.count = 0 /\ mu'.method = method
  BY DEF Loop
<1>2. Gone' = {}
  BY <1>1 DEF Gone
<1>3. Cardinality(Gone') = 0
  BY <1>2, FS_EmptySet
<1>4. LoopTarget'
  BY <1>1, <1>2 DEF LoopTarget, OfUserIn, ExpiredIn
<1>5. mu' \in [method : {"DeleteByUser", "Cleanup"}, all : Table, todo : SUBSET Tokens, count : Nat]
  BY DEF Loop, IInv
<1>6. LoopInv'
  BY <1>1, <1>2, <1>3, <1>4, <1>5 DEF LoopInv, Present
<1> QED BY <1>6 DEF IInv

LEMMA DeleteRowInv ==
  ASSUME IInv, NEW t \in Tokens, DeleteRow(t)
  PROVE  IInv'
<1>1. LoopInv /\ Locked /\ t \in mu.todo
  BY DEF IInv, DeleteRow
<1>2. mu' = [mu EXCEPT !.todo = mu.todo \ {t}, !.count = mu.count + 1]
  BY DEF DeleteRow
<1>3. /\ mu'.all = mu.all /\ mu'.method = mu.method
      /\ mu'.todo = mu.todo \ {t} /\ mu'.count = mu.count + 1
  BY <1>1, <1>2 DEF LoopInv
<1>4. rows' = [rows EXCEPT ![t] = NoSession] /\ rows' \in Table
  BY <1>1 DEF DeleteRow, IInv, Table
<1>5. t \notin Gone /\ Gone' = Gone \cup {t}
  <2>1. rows[t] # NoSession
    BY <1>1 DEF LoopInv, Present
  <2>2. mu.all[t] # NoSession
    BY <1>1, <2>1 DEF LoopInv, Gone
  <2> QED BY <1>3, <1>4, <2>1, <2>2 DEF Gone, IInv, Table
<1>6. mu'.count = Cardinality(Gone')
  <2>1. Cardinality(Gone \cup {t}) = Cardinality(Gone) + 1
    BY <1>5, GoneIsFinite, FS_AddElement
  <2> QED BY <1>1, <1>3, <1>5, <2>1 DEF LoopInv
<1>7. LoopTarget'
  <2>1. Gone' \cup mu'.todo = Gone \cup mu.todo /\ now' = now
    BY <1>1, <1>3, <1>5 DEF DeleteRow
  <2> QED BY <1>1, <1>3, <2>1 DEF LoopInv, LoopTarget, OfUserIn, ExpiredIn
<1>8. mu' \in [method : {"DeleteByUser", "Cleanup"}, all : Table, todo : SUBSET Tokens, count : Nat]
  <2> DEFINE R == [method : {"DeleteByUser", "Cleanup"}, all : Table, todo : SUBSET Tokens, count : Nat]
             left == mu.todo \ {t}
             done == mu.count + 1
  <2>1. mu \in R /\ left \in SUBSET Tokens /\ done \in Nat
    BY <1>1 DEF LoopInv
  <2>2. mu' = [mu EXCEPT !.todo = left, !.count = done]
    BY <1>2
  <2> HIDE DEF left, done
  <2> QED BY <2>1, <2>2
<1>9. \A x \in mu'.todo : Present(x)'
  <2> SUFFICES ASSUME NEW x \in mu'.todo PROVE rows'[x] # NoSession
    BY DEF Present
  <2>1. x \in mu.todo /\ x # t /\ x \in Tokens
    BY <1>1, <1>3 DEF LoopInv
  <2>2. rows[x] # NoSession
    BY <1>1, <2>1 DEF LoopInv, Present
  <2> QED BY <1>4, <2>1, <2>2 DEF IInv, Table
<1>10. \A x \in Tokens \ Gone' : rows'[x] = mu'.all[x]
  BY <1>1, <1>3, <1>4, <1>5 DEF LoopInv, IInv, Table
<1>11. LoopInv'
  BY <1>6, <1>7, <1>8, <1>9, <1>10 DEF LoopInv
<1> QED BY <1>4, <1>11 DEF IInv, DeleteRow

\* The inductive step: while a loop holds the mutex only the loop, a crash and
\* the clock take a step.
LEMMA IInvStep == IInv /\ [Next]_vars => IInv'
<1> SUFFICES ASSUME IInv, [Next]_vars PROVE IInv'
  OBVIOUS
<1>1. ASSUME NEW t \in Tokens, NEW u \in Users, NEW e \in 0..(now + 1),
             Set(t, [user |-> u, exp |-> e])
      PROVE  IInv'
  <2>1. [user |-> u, exp |-> e] \in Session
    BY DEF Session, IInv
  <2> QED BY <1>1, <2>1 DEF Set, IInv, Table, Locked
<1>2. ASSUME NEW t \in Tokens, Delete(t)
      PROVE  IInv'
  BY <1>2 DEF Delete, IInv, Table, Locked
<1>3. CASE GetAllFails("DeleteByUser") \/ GetAllFails("Cleanup")
  BY <1>3 DEF GetAllFails, IInv, Locked
<1>4. ASSUME NEW u \in Users, BeginDeleteByUser(u)
      PROVE  IInv'
  <2>1. {t \in Tokens : Present(t) /\ rows[t].user = u} = OfUserIn(rows, u)
    BY DEF Present, OfUserIn
  <2> QED BY <1>4, <2>1, BeginInv DEF BeginDeleteByUser
<1>5. CASE BeginCleanup
  <2>1. {t \in Tokens : Present(t) /\ now > rows[t].exp} = ExpiredIn(rows, now)
    BY DEF Present, ExpiredIn
  <2>2. now \in 0..now
    BY DEF IInv
  <2> QED BY <1>5, <2>1, <2>2, BeginInv DEF BeginCleanup
<1>6. ASSUME NEW t \in Tokens, DeleteRow(t)
      PROVE  IInv'
  BY <1>6, DeleteRowInv
<1>7. CASE RowFails \/ FinishLoop \/ Crash
  BY <1>7 DEF RowFails, FinishLoop, Crash, IInv, Locked
<1>8. CASE Tick
  <2>1. now' \in 0..MaxTime /\ \A at \in 0..now : at \in 0..now'
    BY <1>8 DEF Tick, IInv
  <2>2. LoopInv => LoopInv'
    BY <1>8, <2>1 DEF Tick, LoopInv, LoopTarget, Gone, Present
  <2> QED BY <1>8, <2>1, <2>2 DEF Tick, IInv, Locked
<1>9. CASE UNCHANGED vars
  BY <1>9 DEF vars, IInv, Locked, LoopInv, LoopTarget, Gone, Present
<1> QED BY <1>1, <1>2, <1>3, <1>4, <1>5, <1>6, <1>7, <1>8, <1>9 DEF Next

LEMMA IInvHolds == Spec => []IInv
<1>1. Init => IInv
  BY DEF Init, IInv, Table, Locked
<1> QED BY <1>1, IInvStep, PTL DEF Spec

\* The rows are sessions of the clock's range, and a loop never counts or has to
\* do more rows than there are (the loops of DeleteByUser and Cleanup).
THEOREM SQLiteTypeCorrect == Spec => []TypeOK
BY IInvHolds, IInvImpliesTypeOK, PTL
-----------------------------------------------------------------------------
\* What a loop has made of the table, in the words of the promise
LEMMA RowsAreWithoutGone ==
  ASSUME IInv, Locked
  PROVE  rows = Promise!Without(Gone)
BY DEF IInv, LoopInv, Table, Gone, Promise!Without, Visible

LEMMA TargetOfUser ==
  ASSUME IInv, Locked, mu.method = "DeleteByUser"
  PROVE  \E u \in Users : Gone \cup mu.todo = Promise!OfUser(u)
BY DEF IInv, LoopInv, LoopTarget, OfUserIn, Promise!OfUser, Promise!Present, Visible

LEMMA TargetExpired ==
  ASSUME IInv, Locked, mu.method = "Cleanup"
  PROVE  \E at \in 0..now : Gone \cup mu.todo = Promise!ExpiredTokens(at)
BY DEF IInv, LoopInv, LoopTarget, ExpiredIn, Promise!ExpiredTokens, Promise!ExpiredAt,
       Promise!Present, Visible

LEMMA CountIsRemoved ==
  ASSUME IInv, Locked, mu' = Free, rows' = rows
  PROVE  Promise!Removed = mu.count
<1>1. Visible = mu.all /\ Visible' = rows
  BY DEF Visible, Locked
<1>2. {t \in Tokens : Promise!Present(t) /\ Visible'[t] = NoSession} = Gone
  BY <1>1 DEF Promise!Present, Gone
<1>3. Promise!Removed = Cardinality(Gone)
  BY <1>2, Zenon DEF Promise!Removed, Promise!Cardinality, Cardinality
<1> QED BY <1>3 DEF IInv, LoopInv

\* The end of a loop is the step of the promise: with success when no row was
\* left, with an error or without a reply after any of them.
LEMMA LoopEnds ==
  ASSUME IInv, RowFails \/ FinishLoop
  PROVE  Promise!PromiseNext
<1>1. PICK ok \in BOOLEAN :
        /\ Locked /\ mu' = Free /\ rows' = rows /\ now' = now
        /\ reply' = Reply(mu.method, ok, Count)
        /\ ok => mu.todo = {}
  BY DEF RowFails, FinishLoop
<1>2. Visible' = Promise!Without(Gone)
  BY <1>1, RowsAreWithoutGone DEF Visible, Locked
<1>3. CASE mu.method = "DeleteByUser"
  <2>1. PICK u \in Users : Gone \cup mu.todo = Promise!OfUser(u)
    BY <1>1, <1>3, TargetOfUser
  <2>2. Promise!DeleteByUser(u, ok)
    BY <1>1, <1>2, <2>1 DEF Promise!DeleteByUser
  <2>3. reply' = Promise!Reply("DeleteByUser", ok, 0)
    BY <1>1, <1>3 DEF Reply, Promise!Reply, Count
  <2> QED BY <1>1, <2>2, <2>3 DEF Promise!PromiseDeleteByUser, Promise!PromiseNext
<1>4. CASE mu.method = "Cleanup"
  <2>1. PICK at \in 0..now : Gone \cup mu.todo = Promise!ExpiredTokens(at)
    BY <1>1, <1>4, TargetExpired
  <2>2. Promise!Cleanup(at, ok)
    BY <1>1, <1>2, <2>1 DEF Promise!Cleanup
  <2>3. reply' = Promise!Reply("Cleanup", ok, Promise!Removed)
    BY <1>1, <1>4, CountIsRemoved DEF Reply, Promise!Reply, Count
  <2> QED BY <1>1, <2>2, <2>3 DEF Promise!PromiseCleanup, Promise!PromiseNext
<1> QED BY <1>1, <1>3, <1>4 DEF IInv, LoopInv

LEMMA CrashKeepsPromise ==
  ASSUME IInv, Crash
  PROVE  Promise!PromiseNext
<1>1. now' = now /\ reply' = Promise!NoReply /\ Visible' = rows
  BY DEF Crash, NoReply, Reply, Promise!NoReply, Promise!Reply, Visible, Locked
<1>2. CASE ~Locked
  BY <1>1, <1>2 DEF Visible, Promise!PromiseCrash, Promise!PromiseNext
<1>3. CASE Locked
  <2>1. Visible' = Promise!Without(Gone)
    BY <1>1, <1>3, RowsAreWithoutGone
  <2>2. CASE mu.method = "DeleteByUser"
    <3>1. PICK u \in Users : Gone \in SUBSET Promise!OfUser(u)
      BY <1>3, <2>2, TargetOfUser
    <3> QED BY <1>1, <2>1, <3>1 DEF Promise!PromiseCrash, Promise!PromiseNext
  <2>3. CASE mu.method = "Cleanup"
    <3>1. PICK at \in 0..now : Gone \in SUBSET Promise!ExpiredTokens(at)
      BY <1>3, <2>3, TargetExpired
    <3>2. Gone \in SUBSET Promise!ExpiredTokens(now)
      BY <1>3, <3>1 DEF Promise!ExpiredTokens, Promise!ExpiredAt, Promise!Present,
         IInv, LoopInv, Visible, Table, Session
    <3> QED BY <1>1, <2>1, <3>2 DEF Promise!PromiseCrash, Promise!PromiseNext
  <2> QED BY <1>3, <2>2, <2>3 DEF IInv, LoopInv
<1> QED BY <1>2, <1>3

LEMMA NothingDeleted ==
  ASSUME IInv, ~Locked, UNCHANGED <<rows, mu>>
  PROVE  Visible' = Promise!Without({}) /\ Promise!Removed = 0
<1>1. Visible = rows /\ Visible' = rows
  BY DEF Visible, Locked
<1>2. Visible' = Promise!Without({})
  BY <1>1 DEF Promise!Without, IInv, Table
<1>3. {t \in Tokens : Promise!Present(t) /\ Visible'[t] = NoSession} = {}
  BY <1>1 DEF Promise!Present
<1>4. Promise!Removed = Cardinality({})
  BY <1>3, Zenon DEF Promise!Removed, Promise!Cardinality, Cardinality
<1> QED BY <1>2, <1>4, FS_EmptySet

\* Every step of the store is a step of the promise, or nothing that anyone sees.
LEMMA StepKeepsPromise ==
  IInv /\ IInv' /\ [Next]_vars => [Promise!PromiseNext]_Promise!PromiseVars
<1> SUFFICES ASSUME IInv, IInv', [Next]_vars
             PROVE  Promise!PromiseNext \/ UNCHANGED Promise!PromiseVars
  OBVIOUS
<1>1. ASSUME NEW t \in Tokens, NEW u \in Users, NEW e \in 0..(now + 1),
             Set(t, [user |-> u, exp |-> e])
      PROVE  Promise!PromiseNext
  <2>1. PICK ok \in BOOLEAN : /\ Visible' = IF ok THEN [Visible EXCEPT ![t] = [user |-> u, exp |-> e]]
                                              ELSE Visible
                              /\ reply' = Promise!Reply("Set", ok, 0)
    BY <1>1 DEF Set, Visible, Locked, Reply, Promise!Reply
  <2>2. Promise!PromiseSet(t, [user |-> u, exp |-> e])
    BY <1>1, <2>1 DEF Promise!PromiseSet, Promise!Set, Set
  <2> QED BY <2>2 DEF Promise!PromiseNext
<1>2. ASSUME NEW t \in Tokens, Delete(t)
      PROVE  Promise!PromiseNext
  <2>1. ~Locked /\ ~Locked' /\ Visible = rows /\ Visible' = rows'
    BY <1>2 DEF Delete, Visible, Locked
  <2>2. CASE Present(t) /\ rows' = [rows EXCEPT ![t] = NoSession] /\ reply' = Reply("Delete", TRUE, 0)
    <3>1. Visible' = Promise!Without({t})
      BY <2>1, <2>2 DEF Promise!Without, IInv, Table
    <3> QED BY <1>2, <2>1, <2>2, <3>1 DEF Delete, Promise!PromiseDelete, Promise!Delete,
            Promise!Present, Present, Reply, Promise!Reply, Promise!PromiseNext
  <2>3. CASE rows' = rows /\ reply' = Reply("Delete", FALSE, 0)
    BY <1>2, <2>1, <2>3 DEF Delete, Promise!PromiseDelete, Promise!Delete,
       Reply, Promise!Reply, Promise!PromiseNext
  <2> QED BY <1>2, <2>2, <2>3 DEF Delete
<1>3. ASSUME NEW u \in Users, GetAllFails("DeleteByUser")
      PROVE  Promise!PromiseNext
  <2>1. /\ Visible' = Promise!Without({}) /\ now' = now
        /\ reply' = Promise!Reply("DeleteByUser", FALSE, 0)
    BY <1>3, NothingDeleted DEF GetAllFails, Reply, Promise!Reply
  <2>2. Promise!DeleteByUser(u, FALSE)
    BY <2>1 DEF Promise!DeleteByUser
  <2> QED BY <2>1, <2>2 DEF Promise!PromiseDeleteByUser, Promise!PromiseNext
<1>4. CASE GetAllFails("Cleanup")
  <2>1. Visible' = Promise!Without({}) /\ Promise!Removed = 0 /\ now' = now
    BY <1>4, NothingDeleted DEF GetAllFails
  <2>2. reply' = Promise!Reply("Cleanup", FALSE, Promise!Removed)
    BY <1>4, <2>1 DEF GetAllFails, Reply, Promise!Reply
  <2>3. now \in 0..now /\ Promise!Cleanup(now, FALSE)
    BY <2>1 DEF Promise!Cleanup, IInv
  <2> QED BY <2>1, <2>2, <2>3 DEF Promise!PromiseCleanup, Promise!PromiseNext
<1>5. ASSUME NEW u \in Users, BeginDeleteByUser(u)
      PROVE  UNCHANGED Promise!PromiseVars
  BY <1>5 DEF BeginDeleteByUser, Loop, Visible, Locked, Free, Promise!PromiseVars
<1>6. ASSUME BeginCleanup
      PROVE  UNCHANGED Promise!PromiseVars
  BY <1>6 DEF BeginCleanup, Loop, Visible, Locked, Free, Promise!PromiseVars
<1>7. ASSUME NEW t \in Tokens, DeleteRow(t)
      PROVE  UNCHANGED Promise!PromiseVars
  <2>1. Locked /\ mu \in [method : {"DeleteByUser", "Cleanup"}, all : Table,
                           todo : SUBSET Tokens, count : Nat]
    BY <1>7 DEF DeleteRow, IInv, LoopInv
  <2>2. mu'.method = mu.method /\ mu'.all = mu.all
    BY <1>7, <2>1 DEF DeleteRow
  <2>3. Locked'
    BY <2>1, <2>2 DEF Locked, Free
  <2> QED BY <1>7, <2>1, <2>2, <2>3 DEF DeleteRow, Visible, Promise!PromiseVars
<1>8. CASE RowFails \/ FinishLoop
  BY <1>8, LoopEnds
<1>9. CASE Crash
  BY <1>9, CrashKeepsPromise
<1>10. CASE Tick
  BY <1>10 DEF Tick, Visible, Locked, Promise!PromiseTick, Promise!PromiseNext
<1>11. CASE UNCHANGED vars
  BY <1>11 DEF vars, Visible, Locked, Promise!PromiseVars
<1> QED
  BY <1>1, <1>2, <1>3, <1>4, <1>5, <1>6, <1>7, <1>8, <1>9, <1>10, <1>11 DEF Next

\* Under its mutex every method of the row-by-row store looks atomic, and only an
\* error or a crash leaves a part of a deletion (session_store_sqlite.go).
THEOREM SQLiteStoreKeepsPromise == Spec => KeepsPromise
<1>1. Init => Promise!PromiseInit
  BY DEF Init, Visible, Locked, NoReply, Reply, Promise!PromiseInit, Promise!EmptyStore,
     Promise!NoReply, Promise!Reply
<1> QED BY <1>1, IInvHolds, StepKeepsPromise, PTL DEF Spec, KeepsPromise, Promise!PromiseSpec
=============================================================================
