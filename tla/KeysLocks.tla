----------------------------- MODULE KeysLocks -----------------------------
(***************************************************************************)
(* The order in which the methods of the key store take its three locks:   *)
(* s.mu, s.kekProviderMu and s.getOrCreateMu (keys/service.go).  A method  *)
(* is the sequence of its lock operations on one path; what it does in     *)
(* between is modelled in KeysMasters.                                     *)
(***************************************************************************)
EXTENDS Integers, Sequences

CONSTANT Procs

VARIABLES
  todo,    \* the lock operations each goroutine has still to do in its method
  held     \* what it holds: a set of locks, with "write" or "read"
vars == <<todo, held>>

W(lock) == <<[op |-> "take", mode |-> "write", lock |-> lock]>>
R(lock) == <<[op |-> "take", mode |-> "read", lock |-> lock]>>
Un(lock) == <<[op |-> "free", lock |-> lock]>>

\* currentKEKFor snapshots a provider under the read lock
CurrentKEK == R("kek") \o Un("kek")

\* The fast path; then the slow path: a master another caller has loaded
\* meanwhile, or one that needs the KEK
EnsureMaster ==
  {R("mu") \o Un("mu"),
   R("mu") \o Un("mu") \o W("mu") \o Un("mu"),
   R("mu") \o Un("mu") \o W("mu") \o CurrentKEK \o Un("mu")}

SetKEKProviderTier0 == {W("kek") \o W("mu") \o Un("mu") \o Un("kek")}

\* Without a migration, and with one that asks for one KEK or for two.  The code
\* may ask more often on one path, which takes and frees the same lock again
\* while it holds the same others.
SetKEKProvider ==
  {W("kek") \o W("mu") \o Un("kek") \o asked \o Un("mu") :
     asked \in {<<>>, CurrentKEK, CurrentKEK \o CurrentKEK}}

GetOrCreate ==
  EnsureMaster \cup
  {get \o W("getOrCreate") \o again \o put \o Un("getOrCreate") :
     get, again, put \in EnsureMaster}

ServiceShutdown == {W("mu") \o Un("mu")}

Init == todo = [p \in Procs |-> <<>>] /\ held = [p \in Procs |-> {}]

Begin(p) ==
  /\ todo[p] = <<>>
  /\ \E path \in EnsureMaster \cup SetKEKProviderTier0 \cup SetKEKProvider
                   \cup GetOrCreate \cup ServiceShutdown :
       todo' = [todo EXCEPT ![p] = path]
  /\ UNCHANGED held

\* q holds the lock p asks for, in a mode that excludes p
InTheWay(q, p) ==
  /\ todo[p] # <<>> /\ Head(todo[p]).op = "take"
  /\ \E h \in held[q] :
       /\ h.lock = Head(todo[p]).lock
       /\ h.mode = "write" \/ Head(todo[p]).mode = "write"

Take(p) ==
  /\ todo[p] # <<>> /\ Head(todo[p]).op = "take"
  /\ \A q \in Procs : ~InTheWay(q, p)
  /\ held' = [held EXCEPT ![p] = @ \cup {[lock |-> Head(todo[p]).lock,
                                          mode |-> Head(todo[p]).mode]}]
  /\ todo' = [todo EXCEPT ![p] = Tail(@)]

Free(p) ==
  /\ todo[p] # <<>> /\ Head(todo[p]).op = "free"
  /\ held' = [held EXCEPT ![p] = {h \in @ : h.lock # Head(todo[p]).lock}]
  /\ todo' = [todo EXCEPT ![p] = Tail(@)]

Next == \E p \in Procs : Begin(p) \/ Take(p) \/ Free(p)
Spec == Init /\ [][Next]_vars

\* kekProviderMu exists "so SetKEKProvider / SetKEKProviderTier0 can race
\* safely against ensureMaster on a concurrent boot path" (service.go:177-179):
\* no goroutines wait for each other's locks, which they would do for ever.
RaceIsSafe ==
  \A S \in (SUBSET Procs) \ {{}} : \E p \in S : \A q \in S : ~InTheWay(q, p)
=============================================================================
