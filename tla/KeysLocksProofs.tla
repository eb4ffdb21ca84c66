-------------------------- MODULE KeysLocksProofs --------------------------
(***************************************************************************)
(* Which lock order the methods of the key store keep, for any number of   *)
(* goroutines: getOrCreateMu before s.mu before s.kekProviderMu, but for   *)
(* SetKEKProvider and SetKEKProviderTier0, which take the last one first.  *)
(* So these two are in every deadlock, and without them there is none.     *)
(*                                                                         *)
(* A path is well nested when it frees what it takes, and takes only later *)
(* locks in between.  What a goroutine has still to do, and frees of what  *)
(* it holds, is then well nested at every step, so a goroutine that others *)
(* wait for waits for a later lock than they do, if it waits at all.       *)
(***************************************************************************)
EXTENDS KeysLocks, SequenceTheorems, TLAPS

Locks == {"getOrCreate", "mu", "kek"}
Rank(lock) == CASE lock = "getOrCreate" -> 1 [] lock = "mu" -> 2 [] lock = "kek" -> 3

Ops ==
  [op : {"take"}, mode : {"read", "write"}, lock : Locks] \cup [op : {"free"}, lock : Locks]

\* Operation k frees a lock that is held since operation i; in between only later
\* locks are taken.
Closes(s, lock, i, k) ==
  /\ s[k].op = "free" /\ s[k].lock = lock
  /\ \A j \in (i + 1)..(k - 1) : s[j].op = "take" => Rank(lock) < Rank(s[j].lock)

\* Every lock that a path takes is freed on it, and every lock of h, held before it.
WellNested(s) ==
  \A i \in 1..Len(s) : s[i].op = "take" => \E k \in (i + 1)..Len(s) : Closes(s, s[i].lock, i, k)
FreesAll(s, h) == \A x \in h : x.lock \in Locks /\ \E k \in 1..Len(s) : Closes(s, x.lock, 0, k)

TakesAfter(s, n) == \A i \in 1..Len(s) : s[i].op = "take" => n < Rank(s[i].lock)

\* The well-nested paths that take only locks of a rank above n
Paths(n) == {s \in Seq(Ops) : WellNested(s) /\ TakesAfter(s, n)}

Holding(lock) == [lock |-> lock, mode |-> "write"]
KEKHeld == {Holding("kek")}

\* What SetKEKProvider and SetKEKProviderTier0 do once they hold both their locks
AfterBoth == {s \in Paths(0) : FreesAll(s, KEKHeld \cup {Holding("mu")})}

\* What is still to do, and what is held
Ordered(s, h) ==
  \/ s \in Paths(0) /\ FreesAll(s, h)
  \/ h = {} /\ \E r \in AfterBoth : s = W("kek") \o (W("mu") \o r)
  \/ h = KEKHeld /\ \E r \in AfterBoth : s = W("mu") \o r

LInv ==
  /\ DOMAIN todo = Procs /\ DOMAIN held = Procs
  /\ \A p \in Procs : Ordered(todo[p], held[p])

\* Goroutines that wait for each other: one of them is rewiring a tier, holds
\* s.kekProviderMu and waits for s.mu.
WaitsForMu(p) ==
  /\ held[p] = KEKHeld /\ todo[p] # <<>>
  /\ Head(todo[p]).op = "take" /\ Head(todo[p]).lock = "mu"
OnlyRewiringBlocks ==
  \A S \in (SUBSET Procs) \ {{}} :
    (\A p \in S : \E q \in S : InTheWay(q, p)) => \E p \in S : WaitsForMu(p)
-----------------------------------------------------------------------------
LEMMA Ranks ==
  /\ Rank("getOrCreate") = 1 /\ Rank("mu") = 2 /\ Rank("kek") = 3
  /\ \A lock \in Locks : Rank(lock) \in 1..3
BY DEF Rank, Locks

\* The three single operations
LEMMA Singles ==
  ASSUME NEW lock \in Locks
  PROVE  /\ W(lock) \in Seq(Ops) /\ R(lock) \in Seq(Ops) /\ Un(lock) \in Seq(Ops)
         /\ Len(W(lock)) = 1 /\ W(lock)[1].op = "take" /\ W(lock)[1].lock = lock
         /\ Len(R(lock)) = 1 /\ R(lock)[1].op = "take" /\ R(lock)[1].lock = lock
         /\ Len(Un(lock)) = 1 /\ Un(lock)[1].op = "free" /\ Un(lock)[1].lock = lock
<1>1. [op |-> "take", mode |-> "write", lock |-> lock] \in Ops
  BY DEF Ops
<1>2. [op |-> "take", mode |-> "read", lock |-> lock] \in Ops
  BY DEF Ops
<1>3. [op |-> "free", lock |-> lock] \in Ops
  BY DEF Ops
<1> QED
  BY <1>1, <1>2, <1>3 DEF W, R, Un

LEMMA OpIs == \A o \in Ops : o.lock \in Locks /\ o.op \in {"take", "free"}
BY DEF Ops

LEMMA Plainly ==
  ASSUME NEW n \in Nat
  PROVE  /\ <<>> \in Paths(n)
         /\ \A lock \in Locks : Un(lock) \in Paths(n)
<1>1. <<>> \in Paths(n)
  BY DEF Paths, WellNested, TakesAfter
<1>2. ASSUME NEW lock \in Locks PROVE Un(lock) \in Paths(n)
  <2>1. \A i \in 1..Len(Un(lock)) : Un(lock)[i].op # "take"
    BY Singles
  <2> QED
    BY <2>1, Singles DEF Paths, WellNested, TakesAfter
<1> QED
  BY <1>1, <1>2

LEMMA Weaker ==
  ASSUME NEW m \in Nat, NEW n \in Nat, m <= n
  PROVE  Paths(n) \subseteq Paths(m)
<1> SUFFICES ASSUME NEW s \in Paths(n) PROVE TakesAfter(s, m)
  BY DEF Paths
<1>1. \A i \in 1..Len(s) : s[i] \in Ops
  BY ElementOfSeq DEF Paths
<1> QED
  BY <1>1, OpIs, Ranks DEF Paths, TakesAfter

\* One path after another
LEMMA Joined ==
  ASSUME NEW n \in Nat, NEW s \in Paths(n), NEW t \in Paths(n)
  PROVE  s \o t \in Paths(n)
<1> DEFINE u == s \o t
<1>0. s \in Seq(Ops) /\ t \in Seq(Ops)
  BY DEF Paths
<1>1. /\ u \in Seq(Ops) /\ Len(u) = Len(s) + Len(t) /\ Len(s) \in Nat /\ Len(t) \in Nat
      /\ \A i \in 1..Len(u) : u[i] = IF i <= Len(s) THEN s[i] ELSE t[i - Len(s)]
  BY <1>0, ConcatProperties, LenProperties
<1> HIDE DEF u
<1>2. TakesAfter(u, n)
  <2> SUFFICES ASSUME NEW i \in 1..Len(u), u[i].op = "take" PROVE n < Rank(u[i].lock)
    BY DEF TakesAfter
  <2>1. CASE i <= Len(s)
    BY <2>1, <1>1 DEF Paths, TakesAfter
  <2>2. CASE i > Len(s)
    <3>1. PICK j \in 1..Len(t) : j = i - Len(s)
      BY <2>2, <1>1
    <3> QED
      BY <2>2, <3>1, <1>1 DEF Paths, TakesAfter
  <2> QED
    BY <2>1, <2>2, <1>1
<1>3. ASSUME NEW i \in 1..Len(u), u[i].op = "take"
      PROVE  \E k \in (i + 1)..Len(u) : Closes(u, u[i].lock, i, k)
  <2>1. CASE i <= Len(s)
    <3>1. i \in 1..Len(s) /\ u[i] = s[i]
      BY <2>1, <1>1
    <3>2. PICK k \in (i + 1)..Len(s) : Closes(s, s[i].lock, i, k)
      BY <3>1, <1>3 DEF Paths, WellNested
    <3>3. k \in (i + 1)..Len(u) /\ \A j \in (i + 1)..k : u[j] = s[j]
      BY <1>1, <3>1, <3>2
    <3> QED
      BY <3>1, <3>2, <3>3 DEF Closes
  <2>2. CASE i > Len(s)
    <3>1. PICK h \in 1..Len(t) : h = i - Len(s)
      BY <2>2, <1>1
    <3>2. u[i] = t[h]
      BY <2>2, <3>1, <1>1
    <3>3. PICK k \in (h + 1)..Len(t) : Closes(t, t[h].lock, h, k)
      BY <3>2, <1>3 DEF Paths, WellNested
    <3>4. PICK l \in (i + 1)..Len(u) : l = k + Len(s)
      BY <3>1, <3>3, <1>1
    <3>5. ASSUME NEW j \in (i + 1)..l PROVE j - Len(s) \in (h + 1)..k /\ u[j] = t[j - Len(s)]
      BY <1>1, <3>1, <3>3, <3>4
    <3>6. \A j \in (h + 1)..(k - 1) : t[j].op = "take" => Rank(t[h].lock) < Rank(t[j].lock)
      BY <3>3 DEF Closes
    <3>7. ASSUME NEW j \in (i + 1)..(l - 1), u[j].op = "take"
          PROVE  Rank(u[i].lock) < Rank(u[j].lock)
      <4>1. PICK g \in (h + 1)..(k - 1) : g = j - Len(s)
        BY <1>1, <3>1, <3>3, <3>4
      <4>2. u[j] = t[g]
        BY <4>1, <3>5, <3>4, <1>1
      <4> QED
        BY <4>2, <3>2, <3>6, <3>7
    <3>8. u[l] = t[k]
      BY <3>4, <3>5, <3>3, <1>1
    <3> QED
      BY <3>2, <3>3, <3>7, <3>8 DEF Closes
  <2> QED
    BY <2>1, <2>2, <1>1
<1> QED
  BY <1>1, <1>2, <1>3 DEF u, Paths, WellNested

\* One operation behind or before a sequence
LEMMA Appended ==
  ASSUME NEW s \in Seq(Ops), NEW e \in Seq(Ops), Len(e) = 1
  PROVE  /\ s \o e \in Seq(Ops) /\ Len(s) \in Nat /\ Len(s \o e) = Len(s) + 1
         /\ (s \o e)[Len(s \o e)] = e[1] /\ Len(s \o e) \in Nat
<1> DEFINE t == s \o e
<1>1. /\ t \in Seq(Ops) /\ Len(t) = Len(s) + Len(e) /\ Len(s) \in Nat
      /\ \A i \in 1..Len(s) + Len(e) : t[i] = IF i <= Len(s) THEN s[i] ELSE e[i - Len(s)]
  BY ConcatProperties, LenProperties
<1> HIDE DEF t
<1>2. /\ t \in Seq(Ops) /\ Len(s) \in Nat /\ Len(t) = Len(s) + 1 /\ t[Len(t)] = e[1]
      /\ Len(t) \in Nat
  BY <1>1
<1> QED
  BY <1>2 DEF t

LEMMA Prepended ==
  ASSUME NEW e \in Seq(Ops), NEW s \in Seq(Ops), Len(e) = 1
  PROVE  /\ e \o s \in Seq(Ops) /\ Len(e \o s) = Len(s) + 1 /\ (e \o s)[1] = e[1]
         /\ \A i \in 1..Len(s) : (e \o s)[i + 1] = s[i]
<1> DEFINE t == e \o s
<1>1. /\ t \in Seq(Ops) /\ Len(t) = Len(e) + Len(s) /\ Len(s) \in Nat
      /\ \A i \in 1..Len(e) + Len(s) : t[i] = IF i <= Len(e) THEN e[i] ELSE s[i - Len(e)]
  BY ConcatProperties, LenProperties
<1> HIDE DEF t
<1>2. /\ t \in Seq(Ops) /\ Len(t) = Len(s) + 1 /\ t[1] = e[1]
      /\ \A i \in 1..Len(s) : t[i + 1] = s[i]
  BY <1>1
<1> QED
  BY <1>2 DEF t

\* A lock around a path that takes only later ones
LEMMA Bracketed ==
  ASSUME NEW lock \in Locks, NEW m \in Nat, m < Rank(lock), NEW s \in Paths(Rank(lock)),
         NEW take \in {W(lock), R(lock)}
  PROVE  take \o (s \o Un(lock)) \in Paths(m)
<1> DEFINE t == s \o Un(lock)
           u == take \o t
<1>0. /\ s \in Seq(Ops) /\ take \in Seq(Ops) /\ Un(lock) \in Seq(Ops) /\ Rank(lock) \in Nat
      /\ Len(take) = 1 /\ take[1].op = "take" /\ take[1].lock = lock
      /\ Len(Un(lock)) = 1 /\ Un(lock)[1].op = "free" /\ Un(lock)[1].lock = lock
  BY Singles, Ranks DEF Paths
<1>1. t \in Paths(Rank(lock))
  BY <1>0, Plainly, Joined
<1>2. /\ t \in Seq(Ops) /\ Len(s) \in Nat /\ Len(t) = Len(s) + 1 /\ t[Len(t)] = Un(lock)[1]
      /\ Len(t) \in Nat
  BY <1>0, Appended DEF t
<1> HIDE DEF t
<1>3. /\ u \in Seq(Ops) /\ Len(u) = Len(t) + 1 /\ u[1] = take[1]
      /\ \A i \in 1..Len(t) : u[i + 1] = t[i]
  BY <1>0, <1>2, Prepended DEF u
<1> HIDE DEF u
<1>4. \A i \in 1..Len(t) : t[i].op = "take" => Rank(lock) < Rank(t[i].lock)
  BY <1>1 DEF Paths, TakesAfter
<1>5. ASSUME NEW i \in 1..Len(u), i # 1 PROVE \E j \in 1..Len(t) : i = j + 1 /\ u[i] = t[j]
  <2>1. PICK j \in 1..Len(t) : i = j + 1
    BY <1>5, <1>2, <1>3
  <2> QED
    BY <2>1, <1>3
<1>6. TakesAfter(u, m)
  <2> SUFFICES ASSUME NEW i \in 1..Len(u), u[i].op = "take" PROVE m < Rank(u[i].lock)
    BY DEF TakesAfter
  <2>1. CASE i = 1
    BY <2>1, <1>3, <1>0
  <2>2. CASE i # 1
    <3>1. PICK j \in 1..Len(t) : i = j + 1 /\ u[i] = t[j]
      BY <2>2, <1>5
    <3>2. t[j] \in Ops /\ Rank(t[j].lock) \in Nat
      BY <1>2, ElementOfSeq, OpIs, Ranks
    <3> QED
      BY <3>1, <3>2, <1>4, <1>0
  <2> QED
    BY <2>1, <2>2
<1>7. ASSUME NEW i \in 1..Len(u), u[i].op = "take"
      PROVE  \E k \in (i + 1)..Len(u) : Closes(u, u[i].lock, i, k)
  <2>1. CASE i = 1
    <3>1. Len(u) \in (i + 1)..Len(u) /\ u[Len(u)] = Un(lock)[1]
      BY <2>1, <1>2, <1>3
    <3>2. ASSUME NEW j \in (i + 1)..(Len(u) - 1), u[j].op = "take"
          PROVE  Rank(lock) < Rank(u[j].lock)
      <4>1. j \in 1..Len(u) /\ j # 1
        BY <2>1, <1>2, <1>3
      <4> QED
        BY <4>1, <1>5, <1>4, <3>2
    <3> QED
      BY <2>1, <3>1, <3>2, <1>3, <1>0 DEF Closes
  <2>2. CASE i # 1
    <3>1. PICK h \in 1..Len(t) : i = h + 1 /\ u[i] = t[h]
      BY <2>2, <1>5
    <3>2. PICK k \in (h + 1)..Len(t) : Closes(t, t[h].lock, h, k)
      BY <3>1, <1>7, <1>1 DEF Paths, WellNested
    <3>3. PICK l \in (i + 1)..Len(u) : l = k + 1
      BY <3>1, <3>2, <1>2, <1>3
    <3>4. ASSUME NEW j \in (i + 1)..(l - 1), u[j].op = "take"
          PROVE  Rank(u[i].lock) < Rank(u[j].lock)
      <4>1. PICK g \in (h + 1)..(k - 1) : g = j - 1
        BY <3>1, <3>2, <3>3
      <4>2. g \in 1..Len(t) /\ u[j] = t[g]
        <5>1. g \in 1..Len(t)
          BY <3>1, <3>2, <4>1, <1>2
        <5>2. j = g + 1
          BY <4>1
        <5> QED
          BY <5>1, <5>2, <1>3
      <4> QED
        BY <4>2, <3>1, <3>2, <3>4 DEF Closes
    <3>5. u[l] = t[k]
      BY <3>1, <3>2, <3>3, <1>2, <1>3
    <3> QED
      BY <3>1, <3>2, <3>4, <3>5 DEF Closes
  <2> QED
    BY <2>1, <2>2
<1> QED
  BY <1>3, <1>6, <1>7 DEF t, u, Paths, WellNested

\* Sequences of operations, put together in another order
Then(s, t) == s \o t

LEMMA Assoc ==
  ASSUME NEW s \in Seq(Ops), NEW t \in Seq(Ops), NEW u \in Seq(Ops)
  PROVE  /\ Then(Then(s, t), u) = Then(s, Then(t, u))
         /\ Then(s, t) \in Seq(Ops)
BY ConcatAssociative, ConcatProperties DEF Then

LEMMA Regroup4 ==
  ASSUME NEW s \in Seq(Ops), NEW t \in Seq(Ops), NEW u \in Seq(Ops), NEW v \in Seq(Ops)
  PROVE  Then(Then(Then(s, t), u), v) = Then(s, Then(t, Then(u, v)))
BY Assoc

LEMMA Regroup5 ==
  ASSUME NEW s \in Seq(Ops), NEW t \in Seq(Ops), NEW u \in Seq(Ops), NEW v \in Seq(Ops),
         NEW w \in Seq(Ops)
  PROVE  /\ Then(Then(Then(Then(s, t), u), v), w) = Then(s, Then(t, Then(Then(u, v), w)))
         /\ Then(Then(Then(Then(s, t), u), v), w) = Then(s, Then(t, Then(u, Then(v, w))))
<1>1. Then(Then(Then(Then(s, t), u), v), w) = Then(s, Then(t, Then(Then(u, v), w)))
  BY Assoc
<1>2. Then(Then(u, v), w) = Then(u, Then(v, w))
  BY Assoc
<1> QED
  BY <1>1, <1>2

LEMMA Built2 ==
  ASSUME NEW lock \in Locks, NEW m \in Nat, m < Rank(lock), NEW take \in {W(lock), R(lock)}
  PROVE  take \o Un(lock) \in Paths(m)
<1>1. Rank(lock) \in Nat /\ Un(lock) \in Seq(Ops)
  BY Ranks, Singles
<1>2. take \o (<<>> \o Un(lock)) \in Paths(m)
  BY <1>1, Plainly, Bracketed
<1>3. <<>> \o Un(lock) = Un(lock)
  BY <1>1, ConcatEmptySeq
<1> QED
  BY <1>2, <1>3

LEMMA KEKPath == CurrentKEK \in Paths(2)
BY Built2, Ranks DEF CurrentKEK, Locks

LEMMA EnsureMasterPaths == EnsureMaster \subseteq Paths(1)
<1> DEFINE s == R("mu") \o Un("mu")
<1>1. "mu" \in Locks /\ Rank("mu") = 2
  BY Ranks DEF Locks
<1>2. s \in Paths(1) /\ W("mu") \o Un("mu") \in Paths(1)
  BY <1>1, Built2
<1>3. W("mu") \o (CurrentKEK \o Un("mu")) \in Paths(1)
  BY <1>1, KEKPath, Bracketed
<1>4. /\ s \in Seq(Ops) /\ W("mu") \in Seq(Ops) /\ Un("mu") \in Seq(Ops)
      /\ CurrentKEK \in Seq(Ops)
  BY <1>1, <1>2, Singles, KEKPath DEF Paths
<1> HIDE DEF s
<1>5. s \o W("mu") \o Un("mu") \in Paths(1)
  <2>1. Then(Then(s, W("mu")), Un("mu")) = Then(s, Then(W("mu"), Un("mu")))
    BY <1>4, Assoc
  <2> QED
    BY <2>1, <1>2, Joined DEF Then
<1>6. s \o W("mu") \o CurrentKEK \o Un("mu") \in Paths(1)
  <2>1. Then(Then(Then(s, W("mu")), CurrentKEK), Un("mu"))
          = Then(s, Then(W("mu"), Then(CurrentKEK, Un("mu"))))
    BY <1>4, Regroup4
  <2> QED
    BY <2>1, <1>2, <1>3, Joined DEF Then
<1> QED
  BY <1>2, <1>5, <1>6 DEF EnsureMaster, s

LEMMA GetOrCreatePaths == GetOrCreate \subseteq Paths(0)
<1>0. EnsureMaster \subseteq Paths(0)
  BY EnsureMasterPaths, Weaker
<1> SUFFICES ASSUME NEW path \in GetOrCreate, path \notin EnsureMaster PROVE path \in Paths(0)
  BY <1>0
<1>a. GetOrCreate =
        EnsureMaster \cup
        {Then(Then(Then(Then(get, W("getOrCreate")), again), put), Un("getOrCreate")) :
           get, again, put \in EnsureMaster}
  BY DEF GetOrCreate, Then
<1>b. PICK get, again, put \in EnsureMaster :
       path = Then(Then(Then(Then(get, W("getOrCreate")), again), put), Un("getOrCreate"))
  BY <1>a, SMT
<1> DEFINE take == W("getOrCreate")
           free == Un("getOrCreate")
<1>1. "getOrCreate" \in Locks /\ Rank("getOrCreate") = 1
  BY Ranks DEF Locks
<1>2. get \in Paths(1) /\ get \in Paths(0) /\ again \in Paths(1) /\ put \in Paths(1)
  BY EnsureMasterPaths, Weaker
<1>3. again \o put \in Paths(1)
  BY <1>2, Joined
<1>4. take \o ((again \o put) \o free) \in Paths(0)
  BY <1>1, <1>3, Bracketed
<1>5. get \o (take \o ((again \o put) \o free)) \in Paths(0)
  BY <1>2, <1>4, Joined
<1>6. /\ get \in Seq(Ops) /\ take \in Seq(Ops) /\ again \in Seq(Ops) /\ put \in Seq(Ops)
      /\ free \in Seq(Ops) /\ again \o put \in Seq(Ops)
  BY <1>1, <1>2, <1>3, Singles DEF Paths
<1> HIDE DEF take, free
<1>7. path = Then(get, Then(take, Then(Then(again, put), free)))
  BY <1>b, <1>6, Regroup5 DEF take, free
<1> QED
  BY <1>5, <1>7 DEF Then

\* What frees s.kekProviderMu and s.mu, in this order
LEMMA FreesBoth ==
  ASSUME NEW s \in Paths(2)
  PROVE  Un("kek") \o (s \o Un("mu")) \in AfterBoth
<1> DEFINE t == s \o Un("mu")
           u == Un("kek") \o t
<1>1. "mu" \in Locks /\ "kek" \in Locks
  BY DEF Locks
<1>2. /\ s \in Paths(0) /\ Un("mu") \in Paths(0) /\ Un("kek") \in Paths(0)
      /\ Un("mu") \in Paths(2)
  BY <1>1, Weaker, Plainly
<1>3. t \in Paths(2) /\ t \in Paths(0) /\ u \in Paths(0)
  BY <1>2, Joined
<1>4. /\ s \in Seq(Ops) /\ Un("mu") \in Seq(Ops) /\ Un("kek") \in Seq(Ops)
      /\ Len(Un("mu")) = 1 /\ Len(Un("kek")) = 1
  BY <1>1, Singles DEF Paths
<1>5. /\ t \in Seq(Ops) /\ Len(t) \in Nat /\ Len(s) \in Nat /\ Len(t) = Len(s) + 1
      /\ t[Len(t)] = Un("mu")[1]
  BY <1>4, Appended
<1> HIDE DEF t
<1>6. Len(u) = Len(t) + 1 /\ u[1] = Un("kek")[1] /\ \A i \in 1..Len(t) : u[i + 1] = t[i]
  BY <1>4, <1>5, Prepended
<1> HIDE DEF u
<1>7. Closes(u, "kek", 0, 1) /\ 1 \in 1..Len(u)
  BY <1>1, <1>5, <1>6, Singles DEF Closes
<1>8. Closes(u, "mu", 0, Len(u)) /\ Len(u) \in 1..Len(u)
  <2>1. u[Len(u)] = Un("mu")[1]
    BY <1>5, <1>6
  <2>2. ASSUME NEW j \in 1..(Len(u) - 1), u[j].op = "take" PROVE Rank("mu") < Rank(u[j].lock)
    <3>1. j # 1
      BY <1>1, <1>6, <2>2, Singles
    <3>0. j \in 1..Len(t) + 1 - 1
      BY <1>6
    <3>2. PICK i \in 1..Len(t) : j = i + 1
      <4>1. j - 1 \in 1..Len(t) /\ j = (j - 1) + 1
        BY <3>0, <3>1, <1>5
      <4> QED
        BY <4>1
    <3>3. u[j] = t[i]
      BY <3>2, <1>6
    <3> QED
      BY <3>3, <2>2, <1>3, Ranks DEF Paths, TakesAfter
  <2> QED
    BY <1>1, <1>5, <1>6, <2>1, <2>2, Singles DEF Closes
<1>9. FreesAll(u, KEKHeld \cup {Holding("mu")})
  BY <1>1, <1>7, <1>8 DEF FreesAll, KEKHeld, Holding
<1> QED
  BY <1>3, <1>9 DEF AfterBoth, t, u

LEMMA MuThenKEK == Un("mu") \o Un("kek") \in AfterBoth
<1> DEFINE u == Un("mu") \o Un("kek")
<1>1. "mu" \in Locks /\ "kek" \in Locks
  BY DEF Locks
<1>2. u \in Paths(0)
  BY <1>1, Plainly, Joined
<1>3. /\ Un("mu") \in Seq(Ops) /\ Un("kek") \in Seq(Ops)
      /\ Len(Un("mu")) = 1 /\ Len(Un("kek")) = 1
      /\ Un("mu")[1].op = "free" /\ Un("mu")[1].lock = "mu"
      /\ Un("kek")[1].op = "free" /\ Un("kek")[1].lock = "kek"
  BY <1>1, Singles
<1>4. Len(u) = 2 /\ u[1] = Un("mu")[1] /\ u[2] = Un("kek")[1]
  BY <1>3, Appended, Prepended
<1> HIDE DEF u
<1>5. Closes(u, "mu", 0, 1) /\ Closes(u, "kek", 0, 2)
  <2>1. Closes(u, "mu", 0, 1)
    BY <1>3, <1>4 DEF Closes
  <2>2. ASSUME NEW j \in 1..1 PROVE u[j].op # "take"
    BY <1>3, <1>4
  <2> QED
    BY <1>3, <1>4, <2>1, <2>2 DEF Closes
<1>6. FreesAll(u, KEKHeld \cup {Holding("mu")})
  BY <1>1, <1>4, <1>5 DEF FreesAll, KEKHeld, Holding
<1> QED
  BY <1>2, <1>6 DEF AfterBoth, u

LEMMA RewiringPaths ==
  ASSUME NEW path \in SetKEKProvider \cup SetKEKProviderTier0
  PROVE  \E s \in AfterBoth : path = W("kek") \o (W("mu") \o s)
<1>1. "mu" \in Locks /\ "kek" \in Locks
  BY DEF Locks
<1>2. /\ W("kek") \in Seq(Ops) /\ W("mu") \in Seq(Ops) /\ Un("kek") \in Seq(Ops)
      /\ Un("mu") \in Seq(Ops)
  BY <1>1, Singles
<1>3. CASE path \in SetKEKProviderTier0
  <2>1. path = Then(Then(Then(W("kek"), W("mu")), Un("mu")), Un("kek"))
    BY <1>3, Zenon DEF SetKEKProviderTier0, Then
  <2>2. path = Then(W("kek"), Then(W("mu"), Then(Un("mu"), Un("kek"))))
    BY <2>1, <1>2, Regroup4
  <2> QED
    BY <2>2, MuThenKEK, Zenon DEF Then
<1>4. CASE path \in SetKEKProvider
  <2>1. PICK asked \in {<<>>, CurrentKEK, CurrentKEK \o CurrentKEK} :
           path = Then(Then(Then(Then(W("kek"), W("mu")), Un("kek")), asked), Un("mu"))
    BY <1>4, Zenon DEF SetKEKProvider, Then
  <2>2. asked \in Paths(2)
    BY Plainly, KEKPath, Joined
  <2>3. asked \in Seq(Ops)
    BY <2>2 DEF Paths
  <2>4. path = Then(W("kek"), Then(W("mu"), Then(Un("kek"), Then(asked, Un("mu")))))
    BY <2>1, <2>3, <1>2, Regroup5
  <2>5. path = W("kek") \o (W("mu") \o (Un("kek") \o (asked \o Un("mu"))))
    BY <2>4, Zenon DEF Then
  <2> QED
    BY <2>2, <2>5, FreesBoth
<1> QED
  BY <1>3, <1>4
-----------------------------------------------------------------------------
\* The operations of a path but the first
LEMMA Shift ==
  ASSUME NEW s \in Seq(Ops), s # <<>>, NEW lock, NEW i \in Nat, NEW k \in (i + 1)..Len(s),
         k # 1, Closes(s, lock, i, k), NEW h \in Nat, i = h + 1 \/ (i = 0 /\ h = 0)
  PROVE  k - 1 \in (h + 1)..Len(Tail(s)) /\ Closes(Tail(s), lock, h, k - 1)
<1> DEFINE t == Tail(s)
<1>1. /\ Len(s) \in Nat /\ t \in Seq(Ops) /\ Len(t) = Len(s) - 1
      /\ \A j \in 1..Len(t) : t[j] = s[j + 1]
  BY HeadTailProperties, LenProperties
<1> HIDE DEF t
<1>2. PICK l \in 1..Len(t) : k = l + 1
  <2>1. k - 1 \in 1..Len(t) /\ k = (k - 1) + 1
    BY <1>1
  <2> QED
    BY <2>1
<1>3. t[l] = s[k]
  BY <1>1, <1>2
<1>4. ASSUME NEW j \in (h + 1)..(l - 1), t[j].op = "take" PROVE Rank(lock) < Rank(t[j].lock)
  <2>1. j \in 1..Len(t) /\ j + 1 \in (i + 1)..(k - 1)
    BY <1>1, <1>2
  <2>2. t[j] = s[j + 1]
    BY <2>1, <1>1
  <2> QED
    BY <2>1, <2>2, <1>4 DEF Closes
<1>5. l = k - 1 /\ l \in (h + 1)..Len(t)
  BY <1>1, <1>2
<1>6. Closes(t, lock, h, l)
  BY <1>3, <1>4 DEF Closes
<1> QED
  BY <1>5, <1>6 DEF t

LEMMA TailOfPath ==
  ASSUME NEW s \in Paths(0), s # <<>>
  PROVE  Tail(s) \in Paths(0)
<1> DEFINE t == Tail(s)
<1>1. /\ s \in Seq(Ops) /\ Len(s) \in Nat /\ t \in Seq(Ops) /\ Len(t) = Len(s) - 1
      /\ \A j \in 1..Len(t) : t[j] = s[j + 1]
  BY HeadTailProperties, LenProperties DEF Paths
<1> HIDE DEF t
<1>2. ASSUME NEW i \in 1..Len(t), t[i].op = "take"
      PROVE  /\ 0 < Rank(t[i].lock)
             /\ \E k \in (i + 1)..Len(t) : Closes(t, t[i].lock, i, k)
  <2>1. PICK g \in 1..Len(s) : g = i + 1
    BY <1>1
  <2>2. t[i] = s[g]
    BY <1>1, <2>1
  <2>3. PICK k \in (g + 1)..Len(s) : Closes(s, s[g].lock, g, k)
    BY <2>2, <1>2 DEF Paths, WellNested
  <2>4. k - 1 \in (i + 1)..Len(t) /\ Closes(t, s[g].lock, i, k - 1)
    <3>1. k # 1 /\ g \in Nat /\ i \in Nat /\ g = i + 1
      BY <2>1
    <3> QED
      BY <3>1, <2>3, <1>1, Shift DEF t
  <2>5. 0 < Rank(t[i].lock)
    BY <2>2, <1>2 DEF Paths, TakesAfter
  <2> QED
    BY <2>2, <2>4, <2>5
<1> QED
  BY <1>1, <1>2 DEF t, Paths, WellNested, TakesAfter

LEMMA FirstOf ==
  ASSUME NEW s \in Seq(Ops), s # <<>>
  PROVE  Head(s) = s[1] /\ Head(s) \in Ops /\ Len(s) \in Nat /\ 1 \in 1..Len(s)
<1>1. Len(s) \in Nat \ {0}
  BY EmptySeq
<1>2. 1 \in 1..Len(s)
  BY <1>1
<1> QED
  BY <1>1, <1>2, HeadTailProperties

LEMMA AfterTake ==
  ASSUME NEW s \in Paths(0), NEW h, FreesAll(s, h), s # <<>>, Head(s).op = "take",
         NEW x, x.lock = Head(s).lock
  PROVE  Tail(s) \in Paths(0) /\ FreesAll(Tail(s), h \cup {x})
<1>1. s \in Seq(Ops) /\ Head(s) = s[1] /\ Head(s) \in Ops /\ Len(s) \in Nat /\ 1 \in 1..Len(s)
  BY FirstOf DEF Paths
<1>2. ASSUME NEW y \in h PROVE \E k \in 1..Len(Tail(s)) : Closes(Tail(s), y.lock, 0, k)
  <2>1. PICK k \in 1..Len(s) : Closes(s, y.lock, 0, k)
    BY DEF FreesAll
  <2>2. k # 1 /\ k \in (0 + 1)..Len(s)
    BY <2>1, <1>1 DEF Closes
  <2>3. k - 1 \in (0 + 1)..Len(Tail(s)) /\ Closes(Tail(s), y.lock, 0, k - 1)
    BY <2>1, <2>2, <1>1, Shift
  <2> QED
    BY <2>3
<1>3. \E k \in 1..Len(Tail(s)) : Closes(Tail(s), x.lock, 0, k)
  <2>1. PICK k \in (1 + 1)..Len(s) : Closes(s, x.lock, 1, k)
    BY <1>1 DEF Paths, WellNested
  <2>2. k # 1
    BY <2>1
  <2>3. k - 1 \in (0 + 1)..Len(Tail(s)) /\ Closes(Tail(s), x.lock, 0, k - 1)
    BY <2>1, <2>2, <1>1, Shift
  <2> QED
    BY <2>3
<1>4. x.lock \in Locks /\ \A y \in h : y.lock \in Locks
  BY <1>1, OpIs DEF FreesAll
<1> QED
  BY <1>2, <1>3, <1>4, TailOfPath DEF FreesAll

LEMMA AfterFree ==
  ASSUME NEW s \in Paths(0), NEW h, FreesAll(s, h), s # <<>>, Head(s).op = "free"
  PROVE  Tail(s) \in Paths(0) /\ FreesAll(Tail(s), {x \in h : x.lock # Head(s).lock})
<1>1. s \in Seq(Ops) /\ Head(s) = s[1] /\ Head(s) \in Ops /\ Len(s) \in Nat /\ 1 \in 1..Len(s)
  BY FirstOf DEF Paths
<1>2. ASSUME NEW y \in h, y.lock # Head(s).lock
      PROVE  \E k \in 1..Len(Tail(s)) : Closes(Tail(s), y.lock, 0, k)
  <2>1. PICK k \in 1..Len(s) : Closes(s, y.lock, 0, k)
    BY DEF FreesAll
  <2>2. k # 1 /\ k \in (0 + 1)..Len(s)
    BY <2>1, <1>1, <1>2 DEF Closes
  <2>3. k - 1 \in (0 + 1)..Len(Tail(s)) /\ Closes(Tail(s), y.lock, 0, k - 1)
    BY <2>1, <2>2, <1>1, Shift
  <2> QED
    BY <2>3
<1> QED
  BY <1>2, TailOfPath DEF FreesAll

\* An operation in front of others
LEMMA HeadTail ==
  ASSUME NEW e \in Seq(Ops), Len(e) = 1, NEW s \in Seq(Ops)
  PROVE  e \o s \in Seq(Ops) /\ e \o s # <<>> /\ Head(e \o s) = e[1] /\ Tail(e \o s) = s
<1> DEFINE t == e \o s
<1>1. /\ t \in Seq(Ops) /\ Len(t) = Len(s) + 1 /\ t[1] = e[1]
      /\ \A i \in 1..Len(s) : t[i + 1] = s[i]
  BY Prepended
<1> HIDE DEF t
<1>2. t # <<>> /\ Len(s) \in Nat
  BY <1>1, LenProperties, EmptySeq
<1>3. /\ Head(t) = t[1] /\ Tail(t) \in Seq(Ops) /\ Len(Tail(t)) = Len(s)
      /\ \A i \in 1..Len(Tail(t)) : Tail(t)[i] = t[i + 1]
  BY <1>1, <1>2, HeadTailProperties
<1>4. \A i \in 1..Len(Tail(t)) : Tail(t)[i] = s[i]
  BY <1>1, <1>3
<1>5. Tail(t) = s
  BY <1>3, <1>4, SeqEqual
<1> QED
  BY <1>1, <1>2, <1>3, <1>5 DEF t
-----------------------------------------------------------------------------
\* A method that takes s.kekProviderMu and then s.mu, before either step
LEMMA RewiringHead ==
  ASSUME NEW s \in AfterBoth, NEW lock \in {"mu", "kek"}, NEW rest \in {s, W("mu") \o s}
  PROVE  /\ W(lock) \o rest # <<>> /\ Tail(W(lock) \o rest) = rest
         /\ Head(W(lock) \o rest).op = "take" /\ Head(W(lock) \o rest).lock = lock
         /\ Head(W(lock) \o rest).mode = "write"
<1>1. lock \in Locks /\ "mu" \in Locks
  BY DEF Locks
<1>2. W(lock) \in Seq(Ops) /\ Len(W(lock)) = 1 /\ W("mu") \in Seq(Ops) /\ Len(W("mu")) = 1
  BY <1>1, Singles
<1>3. s \in Seq(Ops)
  BY DEF AfterBoth, Paths
<1>4. rest \in Seq(Ops)
  BY <1>2, <1>3, HeadTail
<1>5. W(lock)[1].op = "take" /\ W(lock)[1].lock = lock /\ W(lock)[1].mode = "write"
  BY DEF W
<1>6. /\ W(lock) \o rest # <<>> /\ Tail(W(lock) \o rest) = rest
      /\ Head(W(lock) \o rest) = W(lock)[1]
  BY <1>2, <1>4, HeadTail
<1> QED
  BY <1>5, <1>6

LEMMA Started ==
  ASSUME NEW h, Ordered(<<>>, h),
         NEW path \in EnsureMaster \cup SetKEKProviderTier0 \cup SetKEKProvider
                        \cup GetOrCreate \cup ServiceShutdown
  PROVE  Ordered(path, h)
<1>1. h = {}
  <2>1. CASE FreesAll(<<>>, h)
    BY <2>1 DEF FreesAll
  <2> QED
    BY <2>1, RewiringHead DEF Ordered
<1>2. CASE path \in SetKEKProvider \cup SetKEKProviderTier0
  BY <1>1, <1>2, RewiringPaths DEF Ordered
<1>3. CASE path \in EnsureMaster \cup GetOrCreate \cup ServiceShutdown
  <2>1. EnsureMaster \subseteq Paths(0)
    BY EnsureMasterPaths, Weaker
  <2>2. ServiceShutdown \subseteq Paths(0)
    BY Built2, Ranks DEF ServiceShutdown, Locks
  <2>3. path \in Paths(0)
    BY <1>3, <2>1, <2>2, GetOrCreatePaths
  <2> QED
    BY <1>1, <2>3 DEF Ordered, FreesAll
<1> QED
  BY <1>2, <1>3

LEMMA Taken ==
  ASSUME NEW s, NEW h, Ordered(s, h), s # <<>>, Head(s).op = "take"
  PROVE  Ordered(Tail(s), h \cup {[lock |-> Head(s).lock, mode |-> Head(s).mode]})
<1> DEFINE x == [lock |-> Head(s).lock, mode |-> Head(s).mode]
<1>0. x.lock = Head(s).lock
  OBVIOUS
<1> HIDE DEF x
<1>1. CASE s \in Paths(0) /\ FreesAll(s, h)
  BY <1>0, <1>1, AfterTake DEF Ordered, x
<1>2. CASE h = {} /\ \E r \in AfterBoth : s = W("kek") \o (W("mu") \o r)
  <2>1. PICK r \in AfterBoth : s = W("kek") \o (W("mu") \o r)
    BY <1>2
  <2>2. Tail(s) = W("mu") \o r /\ Head(s).lock = "kek" /\ Head(s).mode = "write"
    BY <2>1, RewiringHead
  <2>3. h \cup {x} = KEKHeld
    BY <1>2, <2>2 DEF KEKHeld, Holding, x
  <2> QED
    BY <2>2, <2>3 DEF Ordered, x
<1>3. CASE h = KEKHeld /\ \E r \in AfterBoth : s = W("mu") \o r
  <2>1. PICK r \in AfterBoth : s = W("mu") \o r
    BY <1>3
  <2>2. Tail(s) = r /\ Head(s).lock = "mu" /\ Head(s).mode = "write"
    BY <2>1, RewiringHead
  <2>3. h \cup {x} = KEKHeld \cup {Holding("mu")}
    BY <1>3, <2>2 DEF Holding, x
  <2>4. Tail(s) \in Paths(0) /\ FreesAll(Tail(s), h \cup {x})
    BY <2>2, <2>3 DEF AfterBoth
  <2> QED
    BY <2>4 DEF Ordered, x
<1> QED
  BY <1>1, <1>2, <1>3 DEF Ordered

LEMMA Given ==
  ASSUME NEW s, NEW h, Ordered(s, h), s # <<>>, Head(s).op = "free"
  PROVE  Ordered(Tail(s), {x \in h : x.lock # Head(s).lock})
<1>1. s \in Paths(0) /\ FreesAll(s, h)
  BY RewiringHead DEF Ordered
<1> QED
  BY <1>1, AfterFree DEF Ordered

LEMMA LockInit == Init => LInv
<1>1. Ordered(<<>>, {})
  BY Plainly DEF Ordered, FreesAll
<1> QED
  BY <1>1 DEF Init, LInv

LEMMA LockStep == LInv /\ [Next]_vars => LInv'
<1> SUFFICES ASSUME LInv, [Next]_vars PROVE LInv'
  OBVIOUS
<1> USE DEF LInv
<1>1. ASSUME NEW p \in Procs, Begin(p) PROVE LInv'
  BY <1>1, Started DEF Begin
<1>2. ASSUME NEW p \in Procs, Take(p) PROVE LInv'
  BY <1>2, Taken DEF Take
<1>3. ASSUME NEW p \in Procs, Free(p) PROVE LInv'
  BY <1>3, Given DEF Free
<1>4. CASE UNCHANGED vars
  BY <1>4 DEF vars
<1> QED
  BY <1>1, <1>2, <1>3, <1>4 DEF Next
-----------------------------------------------------------------------------
\* Who is in the way of another goroutine and has to wait as well waits for a later
\* lock, unless it is rewiring a tier.
LEMMA LaterLock ==
  ASSUME LInv, NEW p \in Procs, NEW q \in Procs, InTheWay(q, p), ~WaitsForMu(q),
         todo[q] # <<>>, Head(todo[q]).op = "take"
  PROVE  /\ Head(todo[p]).lock \in Locks /\ Head(todo[q]).lock \in Locks
         /\ Rank(Head(todo[p]).lock) < Rank(Head(todo[q]).lock)
<1> DEFINE s == todo[q]
           lock == Head(todo[p]).lock
<1>1. PICK x \in held[q] : x.lock = lock
  BY DEF InTheWay
<1>2. Ordered(s, held[q])
  BY DEF LInv
<1>3. s \in Paths(0) /\ FreesAll(s, held[q])
  BY <1>1, <1>2, RewiringHead DEF Ordered, WaitsForMu
<1>4. PICK k \in 1..Len(s) : Closes(s, lock, 0, k)
  BY <1>1, <1>3 DEF FreesAll
<1>5. s \in Seq(Ops) /\ Head(s) = s[1] /\ Head(s) \in Ops /\ Len(s) \in Nat /\ 1 \in 1..Len(s)
  BY <1>3, FirstOf DEF Paths
<1>6. 1 \in (0 + 1)..(k - 1)
  <2>1. k # 1
    BY <1>4, <1>5 DEF Closes
  <2> QED
    BY <2>1
<1> QED
  BY <1>1, <1>3, <1>4, <1>5, <1>6, OpIs DEF Closes, FreesAll

LEMMA OrderPreventsIt == LInv => OnlyRewiringBlocks
<1> SUFFICES ASSUME LInv, NEW S \in (SUBSET Procs) \ {{}},
                    \A p \in S : \E q \in S : InTheWay(q, p),
                    \A p \in S : ~WaitsForMu(p)
             PROVE  FALSE
  BY DEF OnlyRewiringBlocks
<1>1. ASSUME NEW p \in S
      PROVE  \E q \in S : /\ Rank(Head(todo[p]).lock) \in 1..3
                          /\ Rank(Head(todo[q]).lock) \in 1..3
                          /\ Rank(Head(todo[p]).lock) < Rank(Head(todo[q]).lock)
  <2>1. PICK q \in S : InTheWay(q, p)
    OBVIOUS
  <2>2. PICK r \in S : InTheWay(r, q)
    OBVIOUS
  <2>3. todo[q] # <<>> /\ Head(todo[q]).op = "take"
    BY <2>2 DEF InTheWay
  <2> QED
    BY <2>1, <2>3, LaterLock, Ranks
<1>2. PICK p \in S : TRUE
  OBVIOUS
<1>3. PICK q \in S : Rank(Head(todo[p]).lock) < Rank(Head(todo[q]).lock)
                     /\ Rank(Head(todo[p]).lock) \in 1..3 /\ Rank(Head(todo[q]).lock) \in 1..3
  BY <1>1
<1>4. PICK r \in S : Rank(Head(todo[q]).lock) < Rank(Head(todo[r]).lock)
                     /\ Rank(Head(todo[r]).lock) \in 1..3
  BY <1>1
<1>5. PICK t \in S : Rank(Head(todo[r]).lock) < Rank(Head(todo[t]).lock)
                     /\ Rank(Head(todo[t]).lock) \in 1..3
  BY <1>1
<1> QED
  BY <1>3, <1>4, <1>5

\* However many goroutines run the methods of the key store: when some of them wait
\* for each other, one of them is in SetKEKProvider or SetKEKProviderTier0
\* (service.go), between kekProviderMu.Lock and mu.Lock.  ensureMaster, getOrCreate
\* and Shutdown keep one order of the locks and never block each other.
THEOREM OnlyRewiringDeadlocks == Spec => []OnlyRewiringBlocks
<1>1. Spec => []LInv
  BY LockInit, LockStep, PTL DEF Spec
<1> QED
  BY <1>1, OrderPreventsIt, PTL

\* What the comment of kekProviderMu promises (service.go:177-179) does hold as long
\* as no SetKEKProvider or SetKEKProviderTier0 waits for mu.
THEOREM OtherwiseTheRaceIsSafe ==
  Spec => []((\A p \in Procs : ~WaitsForMu(p)) => RaceIsSafe)
<1>1. OnlyRewiringBlocks => ((\A p \in Procs : ~WaitsForMu(p)) => RaceIsSafe)
  BY DEF OnlyRewiringBlocks, RaceIsSafe
<1> QED
  BY <1>1, OnlyRewiringDeadlocks, PTL
=============================================================================
