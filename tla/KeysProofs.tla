----------------------------- MODULE KeysProofs -----------------------------
(***************************************************************************)
(* What holds of the masters of the key store for any goroutines,          *)
(* references, installs and calls, with failures and crashes or without.   *)
(*                                                                         *)
(* The inductive invariant is one fact about the files and one about each  *)
(* process.  A step is made by one process; what it may do to the files    *)
(* under the eyes of the others is Keeps.                                  *)
(*                                                                         *)
(* The second part is about the broadcasts of KeysEvents: the store with   *)
(* them is the store, and a consumer that keeps what it got never holds a  *)
(* credential replaced since.                                              *)
(***************************************************************************)
EXTENDS KeysEvents, TLAPS

USE KeysAssumption DEF OrNone

Types ==
  /\ master \in OrNone(Legacy)
  /\ disk \in [Tiers -> OrNone(Masters)] /\ cache \in [Tiers -> OrNone(Masters)]
  /\ old \in [Refs -> OrNone(Blob)] /\ new \in [Refs -> OrNone(Blob)]
  /\ wired \in [Tiers -> BOOLEAN] /\ unlocked \in BOOLEAN /\ complete \in BOOLEAN
  /\ mu \in OrNone(Procs) /\ goMu \in OrNone(Procs)
  /\ masters \in Masters /\ keys \in 2..MaxKeys /\ returned \subseteq Keys
  /\ legacy \subseteq Refs
  /\ frame \in [Procs -> OrNone(Frame)]

\* The files: a blob is sealed under the master of its tier, a ref.aead under the
\* legacy one, and a reference not yet moved has both its ref.aead and that master.
Files ==
  /\ \A t \in Tiers : cache[t] \in {None, disk[t]}
  /\ \A r \in Refs : new[r] # None => new[r].seal = disk[TierOf(r)]
  /\ \A r \in Refs : old[r] # None => old[r].seal = 1
  /\ \A r \in legacy : new[r] = None => old[r] # None /\ (disk[1] = 1 \/ master # None)
  /\ master = None \/ complete => \A r \in legacy : new[r] # None

\* Which method is where, and with which reference
Shape(f) ==
  /\ f.method = "SetKEKProvider" => f.pc \in Migrations /\ f.m = None
  /\ f.pc \in {"tier0", "tier1", "unseal", "rename"} => f.method = "SetKEKProvider"
  /\ f.pc \in {"reseal", "remove"} => f.method \in {"SetKEKProvider", "SingleInstanceKey"}
  /\ f.pc \in {"ensure", "blob", "lock"} =>
       f.method \in {"SingleInstanceKey", "PutTier1", "GetTier1"}
  /\ f.pc = "unlink" => f.method \in {"DeleteTier0", "DeleteTier1"}
  /\ f.pc = "lock" => f.method = "SingleInstanceKey" /\ f.stage = "fast"
  /\ f.method \in {"SingleInstanceKey", "DeleteTier0"} => f.ref = SI
  /\ f.method \in {"PutTier1", "GetTier1", "DeleteTier1"} => f.ref \in Creds
  /\ f.stage # "fast" => f.method = "SingleInstanceKey"

\* What a call may rely on where it is: the master in its hand is the one of the
\* tier, and a migration goes on from what its earlier steps have written.
Knows(f) ==
  /\ f.m \in {None, disk[TierOf(f.ref)]}
  /\ f.pc = "blob" => f.m # None
  /\ f.pc \in Migrations => master # None
  /\ f.pc = "reseal" => old[SI] # None
  /\ f.method = "SingleInstanceKey" =>
       /\ f.pc \in {"reseal", "remove"} => disk[0] # None
       /\ f.pc = "remove" /\ SI \in legacy => new[SI] # None
  /\ f.pc \in {"tier0", "tier1"} => disk[1] = None
  /\ f.pc = "unseal" /\ SI \in legacy => new[SI] # None
  /\ f.method = "SetKEKProvider" =>
       /\ f.pc \notin {"tier0", "tier1"} => disk[1] = 1
       /\ f.pc \in {"rename", "remove"} =>
            /\ \A r \in f.todo : old[r] # None
            /\ \A r \in legacy \ f.todo : new[r] # None
       /\ f.pc = "remove" => f.ref \in f.todo /\ (f.ref \in legacy => new[f.ref] # None)

Locks(p) ==
  /\ frame[p] = None => mu # p /\ goMu # p
  /\ frame[p] # None => /\ mu = p <=> frame[p].pc \in Migrations
                        /\ goMu = p <=> frame[p].stage # "fast"

Proc(p) == Locks(p) /\ (frame[p] # None => Shape(frame[p]) /\ Knows(frame[p]))

IInv == Types /\ Files /\ \A p \in Procs : Proc(p)

\* What a step of another process leaves to q: its frame and its locks, every
\* master that is on disk, every blob but a deleted one, and, while q holds s.mu,
\* all that a migration works on.
Keeps(q) ==
  /\ frame'[q] = frame[q] /\ (mu' = q <=> mu = q) /\ (goMu' = q <=> goMu = q)
  /\ \A t \in Tiers : disk[t] # None => disk'[t] = disk[t]
  /\ legacy' \subseteq legacy
  /\ \A r \in legacy' : new[r] # None => new'[r] # None
  /\ mu = q => UNCHANGED <<master, disk, old>>

Kept(p) == IInv' /\ \A q \in Procs \ {p} : Keeps(q)

-----------------------------------------------------------------------------
(* How a step keeps the invariant                                           *)

LEMMA TypeOfRef ==
  ASSUME NEW r \in Refs PROVE TierOf(r) \in Tiers
BY DEF TierOf, Tiers

\* What Keeps leaves a process is all that its invariant rests on.
LEMMA KeepsProc ==
  ASSUME IInv, NEW q \in Procs, Keeps(q) PROVE Proc(q)'
<1>1. Locks(q)'
  BY DEF IInv, Proc, Locks, Keeps
<1>2. SUFFICES ASSUME frame[q] # None PROVE Shape(frame[q]) /\ Knows(frame[q])'
  BY <1>1 DEF Keeps, Proc, Knows
<1>3. /\ frame[q] \in Frame /\ Shape(frame[q]) /\ Knows(frame[q])
      /\ mu = q <=> frame[q].pc \in Migrations
  BY <1>2 DEF IInv, Types, Proc, Locks
<1>4. TierOf(frame[q].ref) \in Tiers
  BY <1>3, TypeOfRef DEF Frame
<1>5. frame[q].m \in {None, disk'[TierOf(frame[q].ref)]}
  BY <1>3, <1>4 DEF Knows, Keeps
<1>6. frame[q].pc \in Migrations => UNCHANGED <<master, disk, old>>
  BY <1>3 DEF Keeps
<1>7. disk'[0] # None \/ disk[0] = None
  BY DEF Keeps, IInv, Types, Tiers
<1> QED
  BY <1>3, <1>5, <1>6, <1>7 DEF Knows, Keeps, Frame, Shape

\* A step of p is looked at in four parts: the types, the files, p and the others.
LEMMA Preserved ==
  ASSUME IInv, NEW p \in Procs, Types', Files', Proc(p)',
         \A q \in Procs \ {p} : Keeps(q)
  PROVE Kept(p)
BY KeepsProc DEF IInv, Kept

\* The step leaves p with these fields in its frame, and the others with theirs.
Moved(p, pc, ref, m, todo) ==
  /\ frame' \in [Procs -> OrNone(Frame)]
  /\ \A q \in Procs \ {p} : frame'[q] = frame[q]
  /\ frame'[p] # None
  /\ frame'[p] = [method |-> frame[p].method, pc |-> pc, ref |-> ref, m |-> m,
                  stage |-> frame[p].stage, key |-> frame[p].key, todo |-> todo]

\* GetOrCreate goes on: the same call at another place, with another key in hand.
Staged(p, pc, stage, key) ==
  /\ frame' \in [Procs -> OrNone(Frame)]
  /\ \A q \in Procs \ {p} : frame'[q] = frame[q]
  /\ frame'[p] # None
  /\ frame'[p] = [method |-> frame[p].method, pc |-> pc, ref |-> frame[p].ref,
                  m |-> frame[p].m, stage |-> stage, key |-> key, todo |-> frame[p].todo]

\* The frames the steps leave
LEMMA StagedFrame ==
  ASSUME Types, NEW p \in Procs, frame[p] # None,
         NEW pc \in {"ensure", "lock"}, NEW stage \in {"fast", "slow", "put"}, NEW key \in Keys,
         frame' = [frame EXCEPT ![p] = [@ EXCEPT !.stage = stage, !.pc = pc, !.key = key]]
  PROVE  Staged(p, pc, stage, key)
<1>1. frame'[p] =
        [method |-> frame[p].method, pc |-> pc, ref |-> frame[p].ref, m |-> frame[p].m,
         stage |-> stage, key |-> key, todo |-> frame[p].todo]
  BY ZenonT(60) DEF Types, Frame
<1>2. \A q \in Procs \ {p} : frame'[q] = frame[q]
  BY DEF Types
<1>3. frame' = [q \in Procs |-> frame'[q]]
  BY DEF Types
<1>4. frame'[p] \in Frame
  BY <1>1 DEF Types, Frame
<1> QED BY <1>1, <1>2, <1>3, <1>4 DEF Types, Staged

LEMMA LockFrame ==
  ASSUME Types, NEW p \in Procs, LockGetOrCreate(p)
  PROVE  Staged(p, "ensure", "slow", frame[p].key)
<1>1. frame'[p] =
        [method |-> frame[p].method, pc |-> "ensure", ref |-> frame[p].ref, m |-> frame[p].m,
         stage |-> "slow", key |-> frame[p].key, todo |-> frame[p].todo]
  BY ZenonT(60) DEF Types, Frame, LockGetOrCreate, At
<1>2. \A q \in Procs \ {p} : frame'[q] = frame[q]
  BY DEF Types, LockGetOrCreate
<1>3. frame' = [q \in Procs |-> frame'[q]]
  BY DEF Types, LockGetOrCreate
<1>4. frame'[p] \in Frame
  BY <1>1 DEF Types, Frame, LockGetOrCreate, At
<1> QED BY <1>1, <1>2, <1>3, <1>4 DEF Types, Staged

LEMMA FallBackFrame ==
  ASSUME IInv, NEW p \in Procs, frame[p] # None, FallBack(p)
  PROVE  /\ frame' \in [Procs -> OrNone(Frame)] /\ keys' \in 2..MaxKeys
         /\ goMu' \in OrNone(Procs)
         /\ \A q \in Procs \ {p} : frame'[q] = frame[q] /\ (goMu' = q <=> goMu = q)
         /\ \/ /\ frame[p].method = "SingleInstanceKey" /\ goMu' = goMu
               /\ \/ frame[p].stage = "fast" /\ Staged(p, "lock", "fast", frame[p].key)
                  \/ frame[p].stage = "slow" /\ Staged(p, "ensure", "put", keys')
            \/ frame'[p] = None /\ goMu' # p
<1>1. Types /\ frame[p] \in Frame
  BY DEF IInv, Types
<1>2. CASE Creating(p, "fast") /\ GoTo(p, "lock") /\ UNCHANGED <<goMu, keys>>
  <2>1. frame'[p] =
        [method |-> frame[p].method, pc |-> "lock", ref |-> frame[p].ref, m |-> frame[p].m,
         stage |-> "fast", key |-> frame[p].key, todo |-> frame[p].todo]
    BY <1>1, <1>2 DEF Types, Frame, GoTo, Creating
  <2>2. frame' = [frame EXCEPT ![p] = frame'[p]] /\ frame'[p] \in Frame
    BY <1>1, <1>2, <2>1 DEF Types, Frame, GoTo
  <2>3. Staged(p, "lock", "fast", frame[p].key)
    BY <1>1, <2>1, <2>2 DEF Types, Staged
  <2> QED BY <1>1, <1>2, <2>3 DEF Staged, Creating, Types
<1>3. CASE /\ Creating(p, "slow") /\ keys < MaxKeys /\ keys' = keys + 1 /\ UNCHANGED goMu
           /\ frame' = [frame EXCEPT ![p] =
                [@ EXCEPT !.stage = "put", !.pc = "ensure", !.key = keys + 1]]
  <2>1. keys' \in Keys /\ keys' \in 2..MaxKeys
    BY <1>1, <1>3 DEF Types, Keys
  <2>2. Staged(p, "ensure", "put", keys')
    BY <1>1, <1>3, <2>1, StagedFrame
  <2> QED BY <1>1, <1>3, <2>1, <2>2 DEF Staged, Creating, Types
<1>4. CASE Return(p) /\ Release /\ UNCHANGED keys
  <2>1. frame' = [frame EXCEPT ![p] = None]
    BY <1>4 DEF Return
  <2>2. \A q \in Procs : goMu = q => frame[q] # None
    BY DEF IInv, Proc, Locks
  <2>3. goMu' = IF goMu = p THEN None ELSE goMu
    BY <1>1, <1>4, <2>1, <2>2 DEF Release, Types
  <2> QED BY <1>1, <1>4, <2>1, <2>3 DEF Types
<1> QED BY <1>2, <1>3, <1>4 DEF FallBack

LEMMA GoToFrame ==
  ASSUME Types, NEW p \in Procs, frame[p] # None, NEW pc \in Migrations, GoTo(p, pc)
  PROVE  Moved(p, pc, frame[p].ref, frame[p].m, frame[p].todo)
<1>1. frame'[p] =
        [method |-> frame[p].method, pc |-> pc, ref |-> frame[p].ref, m |-> frame[p].m,
         stage |-> frame[p].stage, key |-> frame[p].key, todo |-> frame[p].todo]
  BY DEF Types, Frame, GoTo
<1>2. frame' = [frame EXCEPT ![p] = frame'[p]]
  BY DEF Types, GoTo
<1>3. frame'[p] \in Frame
  BY <1>1 DEF Types, Frame
<1> QED BY <1>1, <1>2, <1>3 DEF Types, Moved

LEMMA ResolvedFrame ==
  ASSUME Types, NEW p \in Procs, frame[p] # None, NEW m \in Masters,
         Resolved(p, m)
  PROVE  Moved(p, "blob", frame[p].ref, m, frame[p].todo)
<1>1. frame'[p] =
        [method |-> frame[p].method, pc |-> "blob", ref |-> frame[p].ref, m |-> m,
        stage |-> frame[p].stage, key |-> frame[p].key, todo |-> frame[p].todo]
  BY DEF Types, Frame, Resolved
<1>2. \A q \in Procs \ {p} : frame'[q] = frame[q]
  BY DEF Types, Resolved
<1>3. frame' = [q \in Procs |-> frame'[q]]
  BY DEF Types, Resolved
<1>4. frame'[p] \in Frame
  BY <1>1 DEF Types, Frame, Migrations
<1> QED BY <1>1, <1>2, <1>3, <1>4 DEF Types, Moved

LEMMA BeginRenameFrame ==
  ASSUME Types, NEW p \in Procs, frame[p] # None,
         BeginRename(p)
  PROVE  Moved(p, "rename", frame[p].ref, frame[p].m, {r \in Creds : old[r] # None})
<1>1. frame'[p] =
        [method |-> frame[p].method, pc |-> "rename", ref |-> frame[p].ref, m |-> frame[p].m,
        stage |-> frame[p].stage, key |-> frame[p].key, todo |-> {r \in Creds : old[r] # None}]
  BY DEF Types, Frame, BeginRename
<1>2. \A q \in Procs \ {p} : frame'[q] = frame[q]
  BY DEF Types, BeginRename
<1>3. frame' = [q \in Procs |-> frame'[q]]
  BY DEF Types, BeginRename
<1>4. frame'[p] \in Frame
  BY <1>1 DEF Types, Frame, Migrations
<1> QED BY <1>1, <1>2, <1>3, <1>4 DEF Types, Moved

LEMMA RenameFrame ==
  ASSUME Types, NEW p \in Procs, frame[p] # None, NEW ref \in Refs,
         frame' = [frame EXCEPT ![p] = [@ EXCEPT !.pc = "remove", !.ref = ref]]
  PROVE  Moved(p, "remove", ref, frame[p].m, frame[p].todo)
<1>1. frame'[p] =
        [method |-> frame[p].method, pc |-> "remove", ref |-> ref, m |-> frame[p].m,
        stage |-> frame[p].stage, key |-> frame[p].key, todo |-> frame[p].todo]
  BY DEF Types, Frame
<1>2. \A q \in Procs \ {p} : frame'[q] = frame[q]
  BY DEF Types
<1>3. frame' = [q \in Procs |-> frame'[q]]
  BY DEF Types
<1>4. frame'[p] \in Frame
  BY <1>1 DEF Types, Frame, Migrations
<1> QED BY <1>1, <1>2, <1>3, <1>4 DEF Types, Moved

LEMMA RemoveFrame ==
  ASSUME Types, NEW p \in Procs, frame[p] # None,
         frame' = [frame EXCEPT ![p] =
                     [@ EXCEPT !.pc = "rename", !.todo = frame[p].todo \ {frame[p].ref}]]
  PROVE  Moved(p, "rename", frame[p].ref, frame[p].m, frame[p].todo \ {frame[p].ref})
<1>1. frame'[p] =
        [method |-> frame[p].method, pc |-> "rename", ref |-> frame[p].ref, m |-> frame[p].m,
        stage |-> frame[p].stage, key |-> frame[p].key, todo |-> frame[p].todo \ {frame[p].ref}]
  BY DEF Types, Frame
<1>2. \A q \in Procs \ {p} : frame'[q] = frame[q]
  BY DEF Types
<1>3. frame' = [q \in Procs |-> frame'[q]]
  BY DEF Types
<1>4. frame'[p] \in Frame
  BY <1>1 DEF Types, Frame, Migrations
<1> QED BY <1>1, <1>2, <1>3, <1>4 DEF Types, Moved

-----------------------------------------------------------------------------
(* One lemma for each operation                                            *)

LEMMA StartKeeps ==
  ASSUME IInv, NEW p \in Procs, NEW method \in {"SingleInstanceKey", "PutTier1", "GetTier1"},
         NEW ref \in Refs, NEW key \in Keys,
         method = "SingleInstanceKey" <=> ref = SI,
         Start(p, method, ref, key)
  PROVE  Kept(p)
<1>1. Types'
  BY DEF IInv, Types, Frame, Methods, diskVars, memVars, Start, Call
<1>2. Files'
  BY DEF IInv, Files, diskVars, memVars, Start
<1>3. Proc(p)'
  BY DEF IInv, Proc, Locks, Shape, Knows, Refs, Migrations, memVars, Start, Call, Called
<1>4. ASSUME NEW q \in Procs \ {p} PROVE Keeps(q)
  BY DEF Keeps, diskVars, memVars, Start
<1> QED BY <1>1, <1>2, <1>3, <1>4, Preserved

LEMMA LockGetOrCreateKeeps ==
  ASSUME IInv, NEW p \in Procs, LockGetOrCreate(p)
  PROVE  Kept(p)
<1>1. Staged(p, "ensure", "slow", frame[p].key)
  BY LockFrame DEF IInv
<1>2. Types'
  BY <1>1 DEF IInv, Types, diskVars, LockGetOrCreate, Staged
<1>3. Files'
  BY DEF IInv, Files, diskVars, LockGetOrCreate
<1>4. Proc(p)'
  BY <1>1 DEF IInv, Proc, Locks, Shape, Knows, Migrations, diskVars, LockGetOrCreate, At, Staged
<1>5. ASSUME NEW q \in Procs \ {p} PROVE Keeps(q)
  BY <1>1, <1>5 DEF IInv, Types, Keeps, diskVars, LockGetOrCreate, Staged
<1> QED BY <1>2, <1>3, <1>4, <1>5, Preserved

LEMMA GetBlobKeeps ==
  ASSUME IInv, NEW p \in Procs, GetBlob(p)
  PROVE  Kept(p)
<1>1. returned' \subseteq Keys
  BY DEF IInv, Types, Frame, Blob, GetBlob, AtBlob, Opens, Got
<1>2. Types'
  BY <1>1 DEF IInv, Types, diskVars, GetBlob, Return, Release
<1>3. Files'
  BY <1>1 DEF IInv, Files, diskVars, GetBlob
<1>4. Proc(p)'
  BY <1>1 DEF IInv, Types, Proc, Locks, Migrations, GetBlob, AtBlob, Return, Release
<1>5. ASSUME NEW q \in Procs \ {p} PROVE Keeps(q)
  BY <1>1 DEF IInv, Proc, Locks, Keeps, diskVars, GetBlob, Return, Release
<1> QED BY <1>2, <1>3, <1>4, <1>5, Preserved

LEMMA PutBlobKeeps ==
  ASSUME IInv, NEW p \in Procs, PutBlob(p)
  PROVE  Kept(p)
<1>1. Types'
  BY DEF IInv, Types, Proc, Knows, Frame, Blob, PutBlob, AtBlob, Sealed, Got, Return, Release
<1>2. Files'
  BY DEF IInv, Types, Proc, Knows, Files, Frame, Blob, PutBlob, AtBlob, Sealed
<1>3. Proc(p)'
  BY DEF IInv, Proc, Locks, Knows, Migrations, PutBlob, AtBlob, Return, Release
<1>4. ASSUME NEW q \in Procs \ {p} PROVE Keeps(q)
  BY DEF IInv, Types, Proc, Locks, Knows, Keeps, Frame, Blob, PutBlob, AtBlob, Sealed, Return,
         Release
<1> QED BY <1>1, <1>2, <1>3, <1>4, Preserved

LEMMA BlobFailsKeeps ==
  ASSUME IInv, NEW p \in Procs, BlobFails(p)
  PROVE  Kept(p)
<1>1. frame[p] # None
  BY DEF BlobFails, AtBlob
<1>2. Types'
  BY <1>1, FallBackFrame DEF IInv, Types, diskVars, BlobFails
<1>3. Files'
  BY DEF IInv, Files, diskVars, BlobFails
<1>4. Proc(p)'
  <2>1. Proc(p) /\ frame[p] \in Frame
    BY <1>1 DEF IInv, Types
  <2>2. CASE frame'[p] = None /\ goMu' # p
    BY <1>1, <2>1, <2>2 DEF Proc, Locks, Migrations, BlobFails, AtBlob
  <2>3. CASE /\ frame[p].method = "SingleInstanceKey" /\ goMu' = goMu
             /\ \/ frame[p].stage = "fast" /\ Staged(p, "lock", "fast", frame[p].key)
                \/ frame[p].stage = "slow" /\ Staged(p, "ensure", "put", keys')
    <3>1. Locks(p)'
      BY <1>1, <2>1, <2>3 DEF Proc, Locks, Migrations, Staged, BlobFails, AtBlob
    <3>2. Shape(frame[p])'
      BY <1>1, <2>1, <2>3 DEF Proc, Shape, Staged, Migrations
    <3>3. Knows(frame[p])'
      BY <1>1, <2>1, <2>3 DEF Proc, Knows, Staged, Migrations, diskVars, BlobFails, AtBlob
    <3> QED BY <3>1, <3>2, <3>3 DEF Proc
  <2> QED BY <1>1, <2>2, <2>3, FallBackFrame DEF BlobFails, AtBlob
<1>5. ASSUME NEW q \in Procs \ {p} PROVE Keeps(q)
  BY <1>1, <1>5, FallBackFrame DEF IInv, Keeps, diskVars, BlobFails, AtBlob
<1> QED BY <1>2, <1>3, <1>4, <1>5, Preserved

LEMMA DeleteKeeps ==
  ASSUME IInv, NEW p \in Procs, NEW method \in {"DeleteTier0", "DeleteTier1"}, NEW ref \in Refs,
         method = "DeleteTier0" <=> ref = SI,
         Delete(p, method, ref)
  PROVE  Kept(p)
<1>1. Types'
  BY DEF IInv, Types, Frame, diskVars, memVars, Delete, Call, Called, Keys
<1>2. Files'
  BY DEF IInv, Files, diskVars, memVars, Delete
<1>3. Proc(p)'
  BY DEF IInv, Proc, Locks, Shape, Knows, Refs, Migrations, memVars, Delete, Call, Called
<1>4. ASSUME NEW q \in Procs \ {p} PROVE Keeps(q)
  BY DEF Keeps, diskVars, memVars, Delete
<1> QED BY <1>1, <1>2, <1>3, <1>4, Preserved

LEMMA UnlinkKeeps ==
  ASSUME IInv, NEW p \in Procs, Unlink(p)
  PROVE  Kept(p)
<1>1. Types'
  BY DEF IInv, Types, memVars, Unlink, Return
<1>2. Files'
  BY DEF IInv, Types, Files, memVars, Unlink
<1>3. Proc(p)'
  BY DEF IInv, Types, Proc, Locks, Shape, Migrations, memVars, Unlink, Return
<1>4. ASSUME NEW q \in Procs \ {p} PROVE Keeps(q)
  BY DEF IInv, Types, Keeps, memVars, Unlink, Return
<1> QED BY <1>1, <1>2, <1>3, <1>4, Preserved

LEMMA UseCachedKeeps ==
  ASSUME IInv, NEW p \in Procs, UseCached(p)
  PROVE  Kept(p)
<1>1. /\ Moved(p, "blob", frame[p].ref, cache[T(p)], frame[p].todo)
      /\ cache[T(p)] = disk[T(p)] /\ cache[T(p)] # None
  BY ResolvedFrame DEF IInv, Types, Files, UseCached, Ensuring, T, TierOf, Tiers
<1>2. Types'
  BY <1>1 DEF IInv, Types, diskVars, memVars, UseCached, Moved
<1>3. Files'
  BY <1>1 DEF IInv, Files, diskVars, memVars, UseCached
<1>4. Proc(p)'
  BY <1>1
     DEF IInv, Proc, Locks, Shape, Knows, Migrations, diskVars, memVars, UseCached, Ensuring, T,
         Moved
<1>5. ASSUME NEW q \in Procs \ {p} PROVE Keeps(q)
  BY <1>1 DEF Keeps, diskVars, memVars, UseCached, Moved
<1> QED BY <1>2, <1>3, <1>4, <1>5, Preserved

LEMMA LoadMasterKeeps ==
  ASSUME IInv, NEW p \in Procs, LoadMaster(p)
  PROVE  Kept(p)
<1>1. Moved(p, "blob", frame[p].ref, disk[T(p)], frame[p].todo)
  BY ResolvedFrame DEF IInv, Types, LoadMaster, Ensuring, T, TierOf, Tiers
<1>2. Types'
  BY <1>1 DEF IInv, Types, Tiers, TierOf, diskVars, LoadMaster, T, Moved
<1>3. Files'
  BY <1>1 DEF IInv, Files, diskVars, LoadMaster
<1>4. Proc(p)'
  BY <1>1
     DEF IInv, Proc, Locks, Shape, Knows, Migrations, diskVars, LoadMaster, Ensuring, T, Moved
<1>5. ASSUME NEW q \in Procs \ {p} PROVE Keeps(q)
  BY <1>1 DEF Keeps, diskVars, LoadMaster, Moved
<1> QED BY <1>2, <1>3, <1>4, <1>5, Preserved

LEMMA GenerateMasterKeeps ==
  ASSUME IInv, NEW p \in Procs, GenerateMaster(p)
  PROVE  Kept(p)
<1>1. /\ Fresh \in Masters /\ T(p) \in Tiers
      /\ \A r \in Refs : TierOf(r) = T(p) => new[r] = None
  BY TypeOfRef
     DEF IInv, Types, Files, Frame, Blob, GenerateMaster, Ensuring, T, CanGenerate, Fresh,
         Generates, Masters
<1>2. Moved(p, "blob", frame[p].ref, Fresh, frame[p].todo)
  BY <1>1, ResolvedFrame DEF IInv, GenerateMaster, Ensuring
<1>3. Types'
  BY <1>1, <1>2 DEF IInv, Types, GenerateMaster, Fresh, WriteMaster, Moved
<1>4. Files'
  BY <1>1 DEF IInv, Types, Files, GenerateMaster, Generates, WriteMaster, Tiers, TierOf
<1>5. Proc(p)'
  BY <1>1, <1>2
     DEF IInv, Types, Proc, Locks, Shape, Knows, Migrations, GenerateMaster, Ensuring, Generates, T,
         WriteMaster, Moved
<1>6. ASSUME NEW q \in Procs \ {p} PROVE Keeps(q)
  BY <1>1, <1>2, <1>6
     DEF IInv, Types, Keeps, GenerateMaster, Ensuring, Generates, WriteMaster, Moved
<1> QED BY <1>3, <1>4, <1>5, <1>6, Preserved

LEMMA EnsureFailsKeeps ==
  ASSUME IInv, NEW p \in Procs, EnsureFails(p)
  PROVE  Kept(p)
<1>1. frame[p] # None
  BY DEF EnsureFails, Ensuring
<1>2. Types'
  BY <1>1, FallBackFrame DEF IInv, Types, diskVars, EnsureFails
<1>3. Files'
  BY DEF IInv, Files, diskVars, EnsureFails
<1>4. Proc(p)'
  <2>1. Proc(p) /\ frame[p] \in Frame
    BY <1>1 DEF IInv, Types
  <2>2. CASE frame'[p] = None /\ goMu' # p
    BY <1>1, <2>1, <2>2 DEF Proc, Locks, Migrations, EnsureFails, Ensuring
  <2>3. CASE /\ frame[p].method = "SingleInstanceKey" /\ goMu' = goMu
             /\ \/ frame[p].stage = "fast" /\ Staged(p, "lock", "fast", frame[p].key)
                \/ frame[p].stage = "slow" /\ Staged(p, "ensure", "put", keys')
    <3>1. Locks(p)'
      BY <1>1, <2>1, <2>3 DEF Proc, Locks, Migrations, Staged, EnsureFails, Ensuring
    <3>2. Shape(frame[p])'
      BY <1>1, <2>1, <2>3 DEF Proc, Shape, Staged, Migrations
    <3>3. Knows(frame[p])'
      BY <1>1, <2>1, <2>3 DEF Proc, Knows, Staged, Migrations, diskVars, EnsureFails, Ensuring
    <3> QED BY <3>1, <3>2, <3>3 DEF Proc
  <2> QED BY <1>1, <2>2, <2>3, FallBackFrame DEF EnsureFails, Ensuring
<1>5. ASSUME NEW q \in Procs \ {p} PROVE Keeps(q)
  BY <1>1, <1>5, FallBackFrame DEF IInv, Keeps, diskVars, EnsureFails, Ensuring
<1> QED BY <1>2, <1>3, <1>4, <1>5, Preserved

\* Step 0b writes the tier-0 master first; it is done, or a key is to be re-sealed.
LEMMA BeginTier0Frame ==
  ASSUME IInv, NEW p \in Procs, BeginTier0Migration(p)
  PROVE  /\ Fresh \in Masters /\ disk' = [disk EXCEPT ![0] = Fresh]
         /\ frame[p].method = "SingleInstanceKey" /\ frame[p].pc = "ensure"
         /\ frame[p].ref = SI /\ frame[p].m = None
         /\ \E pc \in {"blob", "reseal"}, m \in OrNone(Masters) :
              /\ Moved(p, pc, SI, m, frame[p].todo)
              /\ pc = "blob" => /\ old[SI] = None /\ m = Fresh /\ mu' = mu
                                /\ cache' = [cache EXCEPT ![0] = Fresh]
              /\ pc = "reseal" => m = None /\ old[SI] # None /\ mu' = p /\ cache' = cache
<1>1. Fresh \in Masters /\ disk' = [disk EXCEPT ![0] = Fresh]
  BY DEF IInv, Types, BeginTier0Migration, WriteMaster, CanGenerate, Fresh, Masters
<1>2. Types /\ frame[p] \in Frame /\ Proc(p) /\ disk[0] = None
      /\ frame[p] # None /\ frame[p].pc = "ensure" /\ frame[p].ref = SI
  BY DEF IInv, Types, T, TierOf, BeginTier0Migration, Ensuring
<1>3. frame[p].method = "SingleInstanceKey" /\ frame[p].m = None
  BY <1>2 DEF Proc, Shape, Knows, TierOf
<1>4. CASE old[SI] = None
  BY <1>1, <1>2, <1>3, <1>4, ResolvedFrame DEF BeginTier0Migration
<1>5. CASE old[SI] # None
  <2>1. Moved(p, "reseal", frame[p].ref, frame[p].m, frame[p].todo)
    BY <1>2, <1>5, GoToFrame DEF BeginTier0Migration, Migrations
  <2>2. mu' = p /\ cache' = cache
    BY <1>5 DEF BeginTier0Migration
  <2> QED BY <1>1, <1>2, <1>3, <1>5, <2>1, <2>2
<1> QED BY <1>1, <1>2, <1>3, <1>4, <1>5

LEMMA BeginTier0MigrationKeeps ==
  ASSUME IInv, NEW p \in Procs, BeginTier0Migration(p)
  PROVE  Kept(p)
<1>1. /\ Fresh \in Masters /\ frame[p] \in Frame /\ Proc(p)
      /\ disk[0] = None /\ cache[0] = None /\ master # None
      /\ \A r \in Refs : TierOf(r) = 0 => new[r] = None
      /\ TierOf(SI) = 0 /\ frame[p].m = None /\ frame[p].ref = SI
      /\ frame[p].method = "SingleInstanceKey" /\ frame[p].pc = "ensure"
      /\ disk' = [disk EXCEPT ![0] = Fresh]
  BY BeginTier0Frame
     DEF IInv, Types, Files, Blob, Tiers, TierOf, T, BeginTier0Migration, Ensuring
<1>2. PICK pc \in {"blob", "reseal"}, m \in OrNone(Masters) :
        /\ Moved(p, pc, SI, m, frame[p].todo)
        /\ pc = "blob" => m = Fresh /\ mu' = mu /\ cache' = [cache EXCEPT ![0] = Fresh]
        /\ pc = "reseal" => m = None /\ old[SI] # None /\ mu' = p /\ cache' = cache
  BY BeginTier0Frame
<1>3. Types'
  BY <1>1, <1>2 DEF IInv, Types, BeginTier0Migration, Moved, Tiers, Fresh
<1>4. Files'
  BY <1>1, <1>2 DEF IInv, Types, Files, BeginTier0Migration, Tiers
<1>5. Proc(p)'
  <2>1. Locks(p)' /\ Shape(frame[p])'
    BY <1>1, <1>2
       DEF Proc, Locks, Shape, Migrations, BeginTier0Migration, Ensuring, Moved
  <2>2. Knows(frame[p])'
    BY <1>1, <1>2
       DEF IInv, Types, Tiers, Knows, BeginTier0Migration, Moved
  <2> QED BY <2>1, <2>2 DEF Proc
<1>6. ASSUME NEW q \in Procs \ {p} PROVE Keeps(q)
  BY <1>1, <1>2, <1>6
     DEF IInv, Types, Keeps, BeginTier0Migration, Ensuring, Moved
<1> QED BY <1>3, <1>4, <1>5, <1>6, Preserved

LEMMA Reseal0Keeps ==
  ASSUME IInv, NEW p \in Procs, Reseal0(p)
  PROVE  Kept(p)
<1>1. Types'
  BY DEF IInv, Types, Proc, Knows, Frame, Refs, Tiers, Migrations, Blob, memVars, Reseal0,
         Migrating0, At, Reseal, Sealed, GoTo
<1>2. Files'
  BY DEF IInv, Types, Proc, Knows, Files, TierOf, Blob, memVars, Reseal0, Migrating0, At,
         Reseal, Sealed
<1>3. Proc(p)'
  BY DEF IInv, Types, Proc, Locks, Shape, Knows, Frame, Tiers, Migrations, Blob, memVars,
         Reseal0, Migrating0, At, Reseal, Sealed, GoTo
<1>4. ASSUME NEW q \in Procs \ {p} PROVE Keeps(q)
  BY DEF IInv, Types, Proc, Knows, Files, Keeps, TierOf, Blob, memVars, Reseal0, Migrating0, At,
         Reseal, Sealed, GoTo
<1> QED BY <1>1, <1>2, <1>3, <1>4, Preserved

LEMMA Reseal0FailsKeeps ==
  ASSUME IInv, NEW p \in Procs, Reseal0Fails(p)
  PROVE  Kept(p)
<1>1. frame[p] # None
  BY DEF Reseal0Fails, Migrating0, At
<1>2. Types'
  BY <1>1, FallBackFrame DEF IInv, Types, diskVars, Reseal0Fails
<1>3. Files'
  BY DEF IInv, Files, diskVars, Reseal0Fails
<1>4. Proc(p)'
  <2>1. Proc(p) /\ frame[p] \in Frame
    BY <1>1 DEF IInv, Types
  <2>2. CASE frame'[p] = None /\ goMu' # p
    BY <1>1, <2>1, <2>2 DEF Proc, Locks, Migrations, Reseal0Fails, Migrating0, At
  <2>3. CASE /\ frame[p].method = "SingleInstanceKey" /\ goMu' = goMu
             /\ \/ frame[p].stage = "fast" /\ Staged(p, "lock", "fast", frame[p].key)
                \/ frame[p].stage = "slow" /\ Staged(p, "ensure", "put", keys')
    <3>1. Locks(p)'
      BY <1>1, <2>1, <2>3 DEF Proc, Locks, Migrations, Staged, Reseal0Fails, Migrating0, At
    <3>2. Shape(frame[p])'
      BY <1>1, <2>1, <2>3 DEF Proc, Shape, Staged, Migrations
    <3>3. Knows(frame[p])'
      BY <1>1, <2>1, <2>3 DEF Proc, Knows, Staged, Migrations, diskVars, Reseal0Fails, Migrating0, At
    <3> QED BY <3>1, <3>2, <3>3 DEF Proc
  <2> QED BY <1>1, <2>2, <2>3, FallBackFrame DEF Reseal0Fails, Migrating0, At
<1>5. ASSUME NEW q \in Procs \ {p} PROVE Keeps(q)
  BY <1>1, <1>5, FallBackFrame DEF IInv, Keeps, diskVars, Reseal0Fails, Migrating0, At
<1> QED BY <1>2, <1>3, <1>4, <1>5, Preserved

LEMMA EndTier0MigrationKeeps ==
  ASSUME IInv, NEW p \in Procs, EndTier0Migration(p)
  PROVE  Kept(p)
<1>1. Moved(p, "blob", frame[p].ref, disk[0], frame[p].todo)
  BY ResolvedFrame DEF IInv, Types, Proc, Knows, EndTier0Migration, Migrating0, At, Tiers
<1>2. Types'
  BY <1>1 DEF IInv, Types, Tiers, EndTier0Migration, RemoveOld, Moved
<1>3. Files'
  BY <1>1 DEF IInv, Types, Proc, Knows, Files, EndTier0Migration, Migrating0, At, RemoveOld
<1>4. Proc(p)'
  BY <1>1
     DEF IInv, Proc, Locks, Shape, Knows, TierOf, Migrations, EndTier0Migration, Migrating0, At,
         Moved
<1>5. ASSUME NEW q \in Procs \ {p} PROVE Keeps(q)
  BY <1>1 DEF Keeps, EndTier0Migration, Migrating0, Moved
<1> QED BY <1>2, <1>3, <1>4, <1>5, Preserved

LEMMA SetKEKProviderTier0Keeps ==
  ASSUME IInv, NEW p \in Procs, SetKEKProviderTier0(p)
  PROVE  Kept(p)
<1>1. Types'
  BY DEF IInv, Types, Tiers, diskVars, SetKEKProviderTier0
<1>2. Files'
  BY DEF IInv, Files, diskVars, SetKEKProviderTier0
<1>3. Proc(p)'
  BY DEF IInv, Proc, Locks, SetKEKProviderTier0, Called
<1>4. ASSUME NEW q \in Procs \ {p} PROVE Keeps(q)
  BY DEF Keeps, diskVars, SetKEKProviderTier0
<1> QED BY <1>1, <1>2, <1>3, <1>4, Preserved

LEMMA SetKEKProviderKeeps ==
  ASSUME IInv, NEW p \in Procs, SetKEKProvider(p)
  PROVE  Kept(p)
<1>1. Types'
  BY DEF IInv, Types, Frame, Refs, Tiers, Migrations, diskVars, SetKEKProvider, Called, Call,
         Keys
<1>2. Files'
  BY DEF IInv, Types, Files, diskVars, SetKEKProvider
<1>3. Proc(p)'
  BY DEF IInv, Types, Proc, Locks, Shape, Knows, Frame, Refs, Migrations, diskVars,
         SetKEKProvider, Called, Call, MigrationStarts, Keys
<1>4. ASSUME NEW q \in Procs \ {p} PROVE Keeps(q)
  BY DEF IInv, Types, Keeps, diskVars, SetKEKProvider
<1> QED BY <1>1, <1>2, <1>3, <1>4, Preserved

LEMMA MigrateTier0MasterKeeps ==
  ASSUME IInv, NEW p \in Procs, MigrateTier0Master(p)
  PROVE  Kept(p)
<1>1. Types'
  BY DEF IInv, Types, Frame, Migrations, MigrateTier0Master, Migrating, At, GoTo, WriteMaster,
         Fresh, CanGenerate, Masters
<1>2. Files'
  BY DEF IInv, Types, Files, Tiers, TierOf, Blob, MigrateTier0Master, WriteMaster
<1>3. Proc(p)'
  BY DEF IInv, Types, Proc, Locks, Shape, Knows, Frame, Tiers, Migrations, MigrateTier0Master,
         Migrating, At, GoTo, WriteMaster
<1>4. ASSUME NEW q \in Procs \ {p} PROVE Keeps(q)
  BY DEF IInv, Types, Proc, Locks, Keeps, Frame, MigrateTier0Master, Migrating, At, GoTo,
         WriteMaster
<1> QED BY <1>1, <1>2, <1>3, <1>4, Preserved

LEMMA MigrateTier1MasterKeeps ==
  ASSUME IInv, NEW p \in Procs, MigrateTier1Master(p)
  PROVE  Kept(p)
<1>1. /\ master # None /\ master.m = 1 /\ 1 \in Masters /\ frame[p] \in Frame
      /\ disk[1] = None /\ cache[1] = None /\ Proc(p)
      /\ \A r \in Refs : TierOf(r) = 1 => new[r] = None
  BY DEF IInv, Types, Files, Proc, Knows, Migrations, MigrateTier1Master, Migrating, At, Legacy,
         Masters, Tiers, Blob
<1>2. PICK pc \in {"reseal", "rename"}, todo \in SUBSET Creds :
        /\ Moved(p, pc, frame[p].ref, frame[p].m, todo)
        /\ pc = "reseal" => old[SI] # None
        /\ pc = "rename" => old[SI] = None /\ todo = {r \in Creds : old[r] # None}
  <2>1. CASE old[SI] # None
    BY <1>1, <2>1, GoToFrame DEF IInv, MigrateTier1Master, Migrations, Frame
  <2>2. CASE old[SI] = None
    BY <1>1, <2>2, BeginRenameFrame DEF IInv, MigrateTier1Master
  <2> QED BY <2>1, <2>2
<1>3. disk' = [disk EXCEPT ![1] = 1] /\ cache' = [cache EXCEPT ![1] = 1]
  BY <1>1 DEF MigrateTier1Master, WriteMaster
<1>4. Types'
  BY <1>1, <1>2, <1>3 DEF IInv, Types, MigrateTier1Master, Moved, Tiers
<1>5. Files'
  BY <1>1, <1>3 DEF IInv, Types, Files, MigrateTier1Master, Tiers
<1>6. Proc(p)'
  <2>1. Locks(p)' /\ Shape(frame[p])'
    BY <1>1, <1>2
       DEF Proc, Locks, Shape, Migrations, MigrateTier1Master, Migrating, At, Moved
  <2>2. Knows(frame[p])'
    BY <1>1, <1>2, <1>3
       DEF IInv, Types, Files, Proc, Shape, Knows, Refs, Tiers, MigrateTier1Master, Migrating,
           At, Moved
  <2> QED BY <2>1, <2>2 DEF Proc
<1>7. ASSUME NEW q \in Procs \ {p} PROVE Keeps(q)
  BY <1>1, <1>2, <1>3, <1>7
     DEF IInv, Types, Proc, Locks, Keeps, Migrations, MigrateTier1Master, Migrating, At, Moved
<1> QED BY <1>4, <1>5, <1>6, <1>7, Preserved

LEMMA MigrateSingleInstanceKeeps ==
  ASSUME IInv, NEW p \in Procs, MigrateSingleInstance(p)
  PROVE  Kept(p)
<1>1. Types'
  BY DEF IInv, Types, Proc, Knows, Frame, Refs, Tiers, Migrations, Blob, memVars,
         MigrateSingleInstance, Migrating, At, Reseal, Sealed, GoTo
<1>2. Files'
  BY DEF IInv, Types, Proc, Knows, Files, Tiers, TierOf, Blob, memVars, MigrateSingleInstance,
         Migrating, At, Reseal, Sealed
<1>3. Proc(p)'
  BY DEF IInv, Types, Proc, Locks, Shape, Knows, Frame, Tiers, Migrations, Blob, memVars,
         MigrateSingleInstance, Migrating, At, Reseal, Sealed, GoTo
<1>4. ASSUME NEW q \in Procs \ {p} PROVE Keeps(q)
  BY DEF IInv, Types, Proc, Knows, Keeps, Tiers, Blob, memVars, MigrateSingleInstance,
         Migrating, At, Reseal, Sealed, GoTo
<1> QED BY <1>1, <1>2, <1>3, <1>4, Preserved

LEMMA RemoveSingleInstanceKeeps ==
  ASSUME IInv, NEW p \in Procs, RemoveSingleInstance(p)
  PROVE  Kept(p)
<1>1. Moved(p, "rename", frame[p].ref, frame[p].m, {r \in Creds : old[r] # None})
  BY BeginRenameFrame DEF IInv, RemoveSingleInstance, Migrating, At
<1>2. Types'
  BY <1>1 DEF IInv, Types, memVars, RemoveSingleInstance, RemoveOld, Moved
<1>3. Files'
  BY <1>1
     DEF IInv, Types, Proc, Knows, Files, memVars, RemoveSingleInstance, Migrating, At,
         RemoveOld
<1>4. Proc(p)'
  BY <1>1
     DEF IInv, Types, Proc, Locks, Shape, Knows, Files, Refs, Migrations, memVars,
         RemoveSingleInstance, Migrating, At, RemoveOld, Moved
<1>5. ASSUME NEW q \in Procs \ {p} PROVE Keeps(q)
  BY <1>1
     DEF IInv, Types, Proc, Locks, Keeps, Frame, memVars, RemoveSingleInstance, Migrating, At,
         Moved
<1> QED BY <1>2, <1>3, <1>4, <1>5, Preserved

LEMMA RenameBlobKeeps ==
  ASSUME IInv, NEW p \in Procs, RenameBlob(p)
  PROVE  Kept(p)
<1>0. PICK ref \in frame[p].todo :
       /\ new' = [new EXCEPT ![ref] = old[ref]]
       /\ frame' = [frame EXCEPT ![p] = [@ EXCEPT !.pc = "remove", !.ref = ref]]
  BY DEF RenameBlob
<1>1. Moved(p, "remove", ref, frame[p].m, frame[p].todo) /\ ref \in Creds
  BY <1>0, RenameFrame DEF IInv, Types, Frame, RenameBlob, Migrating, At, Refs
<1>2. Types'
  BY <1>1, <1>0 DEF IInv, Types, Frame, memVars, RenameBlob, Migrating, At, Moved
<1>3. Files'
  BY <1>1, <1>0 DEF IInv, Proc, Knows, Files, TierOf, memVars, RenameBlob, Migrating, At
<1>4. Proc(p)'
  BY <1>1, <1>0
     DEF IInv, Types, Proc, Locks, Shape, Knows, Frame, memVars, RenameBlob, Migrating, At,
         Moved
<1>5. ASSUME NEW q \in Procs \ {p} PROVE Keeps(q)
  BY <1>1, <1>0 DEF IInv, Types, Proc, Knows, Keeps, memVars, RenameBlob, Migrating, At
<1> QED BY <1>2, <1>3, <1>4, <1>5, Preserved

LEMMA RemoveBlobKeeps ==
  ASSUME IInv, NEW p \in Procs, RemoveBlob(p)
  PROVE  Kept(p)
<1>1. Moved(p, "rename", frame[p].ref, frame[p].m, frame[p].todo \ {frame[p].ref})
  BY RemoveFrame DEF IInv, RemoveBlob, Migrating, At
<1>2. Types'
  BY <1>1 DEF IInv, Types, memVars, RemoveBlob, RemoveOld, Moved
<1>3. Files'
  <2>1. /\ new[frame[p].ref] # None \/ frame[p].ref \notin legacy
        /\ \A r \in Refs \ {frame[p].ref} : old'[r] = old[r]
        /\ \A r \in Refs : old'[r] \in {old[r], None}
    BY DEF IInv, Types, Proc, Knows, RemoveBlob, Migrating, At, RemoveOld
  <2> QED BY <2>1 DEF IInv, Types, Files, memVars, RemoveBlob
<1>4. Proc(p)'
  <2>1. Proc(p) /\ frame[p] \in Frame
    BY DEF IInv, Types, RemoveBlob, Migrating, At
  <2> QED
    BY <1>1, <2>1
       DEF IInv, Types, Proc, Locks, Shape, Knows, Frame, Refs, Migrations, memVars, RemoveBlob,
           Migrating, At, RemoveOld, Moved
<1>5. ASSUME NEW q \in Procs \ {p} PROVE Keeps(q)
  BY <1>1, <1>5
     DEF IInv, Types, Proc, Locks, Keeps, Migrations, memVars, RemoveBlob, Migrating, At, Moved
<1> QED BY <1>2, <1>3, <1>4, <1>5, Preserved

LEMMA EndMigrationKeeps ==
  ASSUME IInv, NEW p \in Procs, EndMigration(p)
  PROVE  Kept(p)
<1>1. Types'
  BY DEF IInv, Types, EndMigration, Return
<1>2. Files'
  BY DEF IInv, Proc, Knows, Files, EndMigration, Migrating, At
<1>3. Proc(p)'
  BY DEF IInv, Types, Proc, Locks, Shape, EndMigration, Migrating, At, Return
<1>4. ASSUME NEW q \in Procs \ {p} PROVE Keeps(q)
  BY DEF IInv, Types, Proc, Locks, Keeps, Frame, EndMigration, Migrating, At, Return
<1> QED BY <1>1, <1>2, <1>3, <1>4, Preserved

LEMMA MigrationFailsKeeps ==
  ASSUME IInv, NEW p \in Procs, MigrationFails(p)
  PROVE  Kept(p)
<1>1. Types'
  BY DEF IInv, Types, diskVars, MigrationFails, Return
<1>2. Files'
  BY DEF IInv, Files, diskVars, MigrationFails
<1>3. Proc(p)'
  BY DEF IInv, Types, Proc, Locks, Shape, MigrationFails, Migrating, At, Return
<1>4. ASSUME NEW q \in Procs \ {p} PROVE Keeps(q)
  BY DEF IInv, Types, Proc, Locks, Keeps, Frame, diskVars, MigrationFails, Migrating, At, Return
<1> QED BY <1>1, <1>2, <1>3, <1>4, Preserved

LEMMA ServiceShutdownKeeps ==
  ASSUME IInv, NEW p \in Procs, ServiceShutdown(p)
  PROVE  Kept(p)
<1>1. Types'
  BY DEF IInv, Types, diskVars, ServiceShutdown
<1>2. Files'
  BY DEF IInv, Files, diskVars, ServiceShutdown
<1>3. Proc(p)'
  BY DEF IInv, Proc, Locks, ServiceShutdown, Called
<1>4. ASSUME NEW q \in Procs \ {p} PROVE Keeps(q)
  BY DEF Keeps, diskVars, ServiceShutdown
<1> QED BY <1>1, <1>2, <1>3, <1>4, Preserved

LEMMA UnlockKeeps ==
  ASSUME IInv, Unlock PROVE IInv'
<1>1. Types' /\ Files'
  BY DEF IInv, Types, Files, diskVars, Unlock
<1>2. ASSUME NEW q \in Procs PROVE Proc(q)'
  <2>1. Keeps(q)
    BY DEF Keeps, diskVars, Unlock
  <2> QED BY <2>1, KeepsProc
<1> QED BY <1>1, <1>2 DEF IInv

LEMMA RestartKeeps ==
  ASSUME IInv, Restart PROVE IInv'
<1>1. Types'
  BY DEF IInv, Types, Proc, Locks, Shape, Knows, Files, Keeps, Frame, Methods, Refs, Tiers,
         TierOf, Migrations, Blob, Legacy, diskVars, memVars, Restart
<1>2. Files'
  BY DEF IInv, Files, diskVars, Restart
<1>3. ASSUME NEW q \in Procs PROVE Proc(q)'
  BY DEF Proc, Locks, Restart
<1> QED BY <1>1, <1>2, <1>3 DEF IInv

LEMMA InitInv == Init => IInv
<1> SUFFICES ASSUME Init PROVE IInv
  OBVIOUS
<1>1. 1 \in Masters /\ {1, 2} \subseteq Keys
  BY DEF Masters, Keys
<1>2. /\ master \in OrNone(Legacy) /\ legacy \subseteq Refs
      /\ master = None => legacy = {}
  BY <1>1 DEF Init, Legacy
<1>3. old \in [Refs -> OrNone(Blob)]
  BY <1>1 DEF Init, Blob, Sealed
<1>4. /\ \A r \in Refs : new[r] = None /\ (old[r] # None => old[r].seal = 1)
      /\ \A r \in legacy : old[r] # None
  BY <1>1, <1>2 DEF Init, Sealed, Blob
<1>5. Types
  <2>1. masters \in Masters /\ keys \in 2..MaxKeys /\ returned \subseteq Keys
    BY <1>1 DEF Init
  <2>2. new \in [Refs -> OrNone(Blob)] /\ frame \in [Procs -> OrNone(Frame)]
    BY DEF Init
  <2>3. disk \in [Tiers -> OrNone(Masters)] /\ cache \in [Tiers -> OrNone(Masters)]
    BY DEF Init
  <2>4. wired \in [Tiers -> BOOLEAN]
    BY DEF Init
  <2>5. unlocked \in BOOLEAN /\ complete \in BOOLEAN /\ mu \in OrNone(Procs) /\ goMu \in OrNone(Procs)
    BY DEF Init
  <2> QED BY <1>2, <1>3, <2>1, <2>2, <2>3, <2>4, <2>5 DEF Types
<1>6. Files
  BY <1>2, <1>4 DEF Init, Files
<1>7. ASSUME NEW q \in Procs PROVE Proc(q)
  BY DEF Proc, Locks, Init
<1> QED BY <1>5, <1>6, <1>7 DEF IInv

LEMMA StepKeeps ==
  ASSUME IInv, NEW p \in Procs, Step(p) PROVE Kept(p)
<1>1. ASSUME SingleInstanceKey(p) \/ PutTier1(p) \/ GetTier1(p) PROVE Kept(p)
  BY <1>1, StartKeeps DEF SingleInstanceKey, PutTier1, GetTier1, Refs, Keys
<1>2. ASSUME DeleteTier0(p) \/ DeleteTier1(p) PROVE Kept(p)
  BY <1>2, DeleteKeeps DEF DeleteTier0, DeleteTier1, Refs
<1> QED
  BY <1>1, <1>2, LockGetOrCreateKeeps, GetBlobKeeps, PutBlobKeeps, BlobFailsKeeps, UnlinkKeeps,
     UseCachedKeeps, LoadMasterKeeps, GenerateMasterKeeps, EnsureFailsKeeps,
     BeginTier0MigrationKeeps, Reseal0Keeps, Reseal0FailsKeeps, EndTier0MigrationKeeps,
     SetKEKProviderTier0Keeps, SetKEKProviderKeeps, MigrateTier0MasterKeeps,
     MigrateTier1MasterKeeps, MigrateSingleInstanceKeeps, RemoveSingleInstanceKeeps,
     RenameBlobKeeps, RemoveBlobKeeps, EndMigrationKeeps, MigrationFailsKeeps,
     ServiceShutdownKeeps, Zenon
     DEF Step

LEMMA StutterKeeps == IInv /\ UNCHANGED vars => IInv'
<1> SUFFICES ASSUME IInv, UNCHANGED vars PROVE IInv'
  OBVIOUS
<1>1. Types' /\ Files'
  BY DEF vars, IInv, Types, Files, diskVars, memVars
<1>2. ASSUME NEW q \in Procs PROVE Proc(q)'
  <2>1. Keeps(q)
    BY DEF vars, Keeps, diskVars, memVars
  <2> QED BY <2>1, KeepsProc
<1> QED BY <1>1, <1>2 DEF IInv

-----------------------------------------------------------------------------
(* The theorems                                                             *)

\* The invariant of the store: of its files, of what each call has in hand, and of
\* who holds s.mu and s.getOrCreateMu.
THEOREM KeysInvariant == Spec => []IInv
<1>1. IInv /\ [Next]_vars => IInv'
  BY StepKeeps, UnlockKeeps, RestartKeeps, StutterKeeps DEF Next, Kept
<1> QED BY InitInv, <1>1, PTL DEF Spec

\* The files, the caches and the calls hold what the code can put there, a
\* migration runs under s.mu alone, and getOrCreate holds its own lock from its
\* second look for the blob on.
THEOREM KeysTypeCorrect == Spec => []TypeOK
<1>1. IInv => TypeOK
  BY DEF IInv, Types, Proc, Locks, Shape, TypeOK, Creating, Frame
<1> QED BY KeysInvariant, <1>1, PTL

\* ensureMaster: the master in the cache, and the one a call has resolved, is the
\* one on disk, under which every blob of the tier is sealed; no interleaving of
\* first uses, migrations, failures and crashes writes a second one over it.
THEOREM MastersAlwaysOpen == Spec => []MastersOpenBlobs
<1>1. IInv => MastersOpenBlobs
  BY DEF IInv, Files, Proc, Knows, MastersOpenBlobs, T
<1> QED BY KeysInvariant, <1>1, PTL

\* Wherever migrateTier0Step, the renames of SetKEKProvider, the removal of .master
\* or a crash leave the files, each reference of the legacy install is still in a
\* file that a master on disk opens.
THEOREM LegacyNeverLost == Spec => []LegacyIsKept
<1>1. IInv => LegacyIsKept
  BY DEF IInv, Types, Files, LegacyIsKept, Legacy
<1> QED BY KeysInvariant, <1>1, PTL

\* SetKEKProvider sets migrationComplete only when it has moved every reference.
THEOREM CompleteReaches == Spec => []CompleteMeansReachable
<1>1. IInv => CompleteMeansReachable
  BY DEF IInv, Files, CompleteMeansReachable
<1> QED BY KeysInvariant, <1>1, PTL

-----------------------------------------------------------------------------
(* The single-instance key is stable.                                       *)

\* The host the promise is made to: tier 0 is wired at every boot and left wired,
\* the install is new or has a raw .master, no file operation fails, the process
\* stops between calls and nobody deletes the key.
StableHost ==
  /\ Installs \subseteq {"raw", "fresh"} /\ ~MayFail /\ ~MayCrash
  /\ Tier0AtBoot /\ Calls \cap {"DeleteTier0", "SetKEKProviderTier0"} = {}

\* The files of the key: those of the legacy install hold its key 1, what has been
\* returned is what sys.aead holds, and a tier-0 master without the moved key is
\* there only while a migration is on its way from one to the other.
OneKey ==
  /\ wired[0] /\ (master # None => master.form = "raw")
  /\ old[SI] # None => SI \in legacy /\ old[SI].key = 1
  /\ SI \in legacy /\ new[SI] # None => new[SI].key = 1
  /\ \A k \in returned : new[SI] # None /\ k = new[SI].key
  /\ SI \in legacy /\ new[SI] = None /\ disk[0] # None =>
       \E p \in Procs : frame[p] # None /\ frame[p].pc \in {"tier1", "reseal"}

\* No call is about to generate a second key: a migration under way has cached the
\* master it works with, a call that has a master finds the moved key, and the
\* last stage of getOrCreate is reached only where there is no key yet.
Careful(f) ==
  /\ f.method # "DeleteTier0"
  /\ f.method = "SetKEKProvider" /\ f.pc \in {"tier1", "reseal"} => cache[0] # None
  /\ f.ref = SI /\ f.m # None /\ SI \in legacy => new[SI] # None
  /\ SI \in legacy => f.stage = "fast" /\ f.pc # "lock"
  /\ f.stage = "put" => new[SI] = None

SInv == OneKey /\ \A p \in Procs : frame[p] # None => Careful(frame[p])

LEMMA StartSI ==
  ASSUME StableHost, IInv, IInv', SInv, NEW p \in Procs,
         NEW method \in {"SingleInstanceKey", "PutTier1", "GetTier1"}, NEW ref \in Refs,
         NEW key \in Keys, (method = "SingleInstanceKey") <=> (ref = SI),
         Start(p, method, ref, key), \A q \in Procs \ {p} : Keeps(q)
  PROVE  SInv'
<1>1. \A q \in Procs \ {p} : frame'[q] = frame[q]
  BY DEF Keeps
<1>2. OneKey'
  BY <1>1 DEF OneKey, SInv, diskVars, memVars, Start, Called
<1>3. ASSUME NEW q \in Procs, frame'[q] # None PROVE Careful(frame[q])'
  BY <1>1, <1>3 DEF Careful, SInv, diskVars, memVars, Start, Call
<1> QED BY <1>2, <1>3 DEF SInv

LEMMA LockGetOrCreateSI ==
  ASSUME StableHost, IInv, IInv', SInv, NEW p \in Procs, LockGetOrCreate(p),
         \A q \in Procs \ {p} : Keeps(q)
  PROVE  SInv'
<1>1. \A q \in Procs \ {p} : frame'[q] = frame[q]
  BY DEF Keeps
<1>2. OneKey'
  BY <1>1 DEF OneKey, SInv, diskVars, LockGetOrCreate, At
<1>3. ASSUME NEW q \in Procs, frame'[q] # None PROVE Careful(frame[q])'
  BY <1>1, <1>3 DEF Careful, SInv, diskVars, LockGetOrCreate, At
<1> QED BY <1>2, <1>3 DEF SInv

LEMMA GetBlobSI ==
  ASSUME StableHost, IInv, IInv', SInv, NEW p \in Procs, GetBlob(p),
         \A q \in Procs \ {p} : Keeps(q)
  PROVE  SInv'
<1>1. \A q \in Procs \ {p} : frame'[q] = frame[q]
  BY DEF Keeps
<1>2. OneKey'
  BY <1>1 DEF OneKey, SInv, diskVars, GetBlob, AtBlob, Opens, Got
<1>3. ASSUME NEW q \in Procs, frame'[q] # None PROVE Careful(frame[q])'
  BY <1>1, <1>3 DEF Careful, SInv, diskVars, GetBlob, Return
<1> QED BY <1>2, <1>3 DEF SInv

LEMMA PutBlobSI ==
  ASSUME StableHost, IInv, IInv', SInv, NEW p \in Procs, PutBlob(p),
         \A q \in Procs \ {p} : Keeps(q)
  PROVE  SInv'
<1>1. \A q \in Procs \ {p} : frame'[q] = frame[q]
  BY DEF Keeps
<1>2. OneKey'
  BY <1>1
     DEF IInv, Types, Proc, Shape, Knows, OneKey, Careful, SInv, Tiers, TierOf, Blob, PutBlob,
         AtBlob, Puts, Creating, Sealed, Got
<1>3. ASSUME NEW q \in Procs, frame'[q] # None PROVE Careful(frame[q])'
  BY <1>1, <1>3
     DEF IInv, Types, Proc, Locks, Shape, Careful, SInv, PutBlob, AtBlob, Puts, Creating, Return
<1> QED BY <1>2, <1>3 DEF SInv

LEMMA BlobFailsSI ==
  ASSUME StableHost, IInv, IInv', SInv, NEW p \in Procs, BlobFails(p),
         \A q \in Procs \ {p} : Keeps(q)
  PROVE  SInv'
<1>1. /\ \A q \in Procs \ {p} : frame'[q] = frame[q]
      /\ frame \in [Procs -> OrNone(Frame)] /\ frame' \in [Procs -> OrNone(Frame)]
      /\ Types /\ Types'
      /\ \A q \in Procs : frame[q] # None =>
           Shape(frame[q]) /\ Knows(frame[q]) /\ Careful(frame[q]) /\ frame[q] \in Frame
  BY DEF Keeps, IInv, Types, SInv, Proc
<1>2. /\ frame[p] # None /\ frame[p].pc = "blob" /\ frame[p].ref \in Refs
      /\ ~Puts(p) /\ ~Opens(frame[p].ref, frame[p].m)
      /\ UNCHANGED <<master, disk, old, new, cache, wired, returned, legacy>>
  BY <1>1 DEF BlobFails, AtBlob, StableHost, diskVars, Frame
<1>3. new[frame[p].ref] = None /\ frame[p].m # None
  BY <1>1, <1>2 DEF Opens, IInv, Files, Knows
<1>4. frame[p].method = "SingleInstanceKey" => SI \notin legacy /\ new[SI] = None
  BY <1>1, <1>2, <1>3 DEF Careful, Shape
<1>5. \/ frame'[p] = None
      \/ /\ frame[p].method = "SingleInstanceKey" /\ frame'[p].method = "SingleInstanceKey"
         /\ frame'[p].pc \in {"lock", "ensure"}
  <2>1. SUFFICES ASSUME frame'[p] # None
                 PROVE  /\ frame[p].method = "SingleInstanceKey"
                        /\ frame'[p].method = frame[p].method
                        /\ frame'[p].pc \in {"lock", "ensure"}
    OBVIOUS
  <2>2. frame[p].method = "SingleInstanceKey"
    BY <1>2, <2>1, FallBackFrame DEF BlobFails
  <2>3. PICK pc, stage, key : pc \in {"lock", "ensure"} /\ Staged(p, pc, stage, key)
    BY <1>2, <2>1, FallBackFrame DEF BlobFails
  <2> QED BY <2>2, <2>3 DEF Staged
<1>6. OneKey'
  BY <1>1, <1>2 DEF SInv, OneKey
<1>7. ASSUME NEW q \in Procs, frame'[q] # None PROVE Careful(frame[q])'
  BY <1>1, <1>2, <1>4, <1>5, <1>7 DEF Careful
<1> QED BY <1>6, <1>7 DEF SInv

LEMMA DeleteSI ==
  ASSUME StableHost, IInv, IInv', SInv, NEW p \in Procs,
         NEW method \in {"DeleteTier0", "DeleteTier1"}, NEW ref \in Refs,
         Delete(p, method, ref), \A q \in Procs \ {p} : Keeps(q)
  PROVE  SInv'
<1>1. \A q \in Procs \ {p} : frame'[q] = frame[q]
  BY DEF Keeps
<1>2. OneKey'
  BY <1>1 DEF OneKey, SInv, diskVars, memVars, Delete, Called
<1>3. ASSUME NEW q \in Procs, frame'[q] # None PROVE Careful(frame[q])'
  BY <1>1, <1>3 DEF Careful, SInv, StableHost, diskVars, memVars, Delete, Call, Called
<1> QED BY <1>2, <1>3 DEF SInv

LEMMA UnlinkSI ==
  ASSUME StableHost, IInv, IInv', SInv, NEW p \in Procs, Unlink(p),
         \A q \in Procs \ {p} : Keeps(q)
  PROVE  SInv'
<1>1. \A q \in Procs \ {p} : frame'[q] = frame[q]
  BY DEF Keeps
<1>2. OneKey'
  BY <1>1 DEF IInv, Types, Proc, Shape, OneKey, Careful, SInv, Refs, memVars, Unlink
<1>3. ASSUME NEW q \in Procs, frame'[q] # None PROVE Careful(frame[q])'
  BY <1>1, <1>3 DEF IInv, Types, Careful, SInv, Refs, memVars, Unlink, Return
<1> QED BY <1>2, <1>3 DEF SInv

LEMMA UseCachedSI ==
  ASSUME StableHost, IInv, IInv', SInv, NEW p \in Procs, UseCached(p),
         \A q \in Procs \ {p} : Keeps(q)
  PROVE  SInv'
<1>1. \A q \in Procs \ {p} : frame'[q] = frame[q]
  BY DEF Keeps
<1>2. Moved(p, "blob", frame[p].ref, cache[T(p)], frame[p].todo)
  BY <1>1, ResolvedFrame
     DEF IInv, Types, Files, Frame, T, TierOf, Tiers, Proc, Knows, UseCached, Ensuring, T,
         Resolved
<1>3. OneKey'
  BY <1>1, <1>2 DEF OneKey, SInv, diskVars, memVars, UseCached, Ensuring
<1>4. ASSUME NEW q \in Procs, frame'[q] # None PROVE Careful(frame[q])'
  BY <1>1, <1>2, <1>4
     DEF IInv, Files, Proc, Locks, OneKey, Careful, SInv, Tiers, TierOf, Migrations, diskVars,
         UseCached, Ensuring, T, Moved
<1> QED BY <1>3, <1>4 DEF SInv

LEMMA LoadMasterSI ==
  ASSUME StableHost, IInv, IInv', SInv, NEW p \in Procs, LoadMaster(p),
         \A q \in Procs \ {p} : Keeps(q)
  PROVE  SInv'
<1>1. \A q \in Procs \ {p} : frame'[q] = frame[q]
  BY DEF Keeps
<1>2. Moved(p, "blob", frame[p].ref, disk[T(p)], frame[p].todo)
  BY <1>1, ResolvedFrame
     DEF IInv, Types, Files, Frame, T, TierOf, Tiers, Proc, Knows, LoadMaster, Ensuring, T,
         Resolved
<1>3. OneKey'
  BY <1>1, <1>2 DEF OneKey, SInv, diskVars, LoadMaster, Ensuring
<1>4. ASSUME NEW q \in Procs, frame'[q] # None PROVE Careful(frame[q])'
  BY <1>1, <1>2, <1>4
     DEF IInv, Proc, Locks, OneKey, Careful, SInv, TierOf, Migrations, diskVars, LoadMaster,
         Ensuring, T, Moved
<1> QED BY <1>3, <1>4 DEF SInv

LEMMA GenerateMasterSI ==
  ASSUME StableHost, IInv, IInv', SInv, NEW p \in Procs, GenerateMaster(p),
         \A q \in Procs \ {p} : Keeps(q)
  PROVE  SInv'
<1>1. /\ \A q \in Procs \ {p} : frame'[q] = frame[q]
      /\ frame \in [Procs -> OrNone(Frame)] /\ frame' \in [Procs -> OrNone(Frame)]
      /\ Types /\ Types'
      /\ \A q \in Procs : frame[q] # None =>
           Shape(frame[q]) /\ Knows(frame[q]) /\ Careful(frame[q]) /\ frame[q] \in Frame
  BY DEF Keeps, IInv, Types, SInv, Proc
<1>2. Fresh \in Masters
  BY DEF GenerateMaster, IInv, Types
<1>3. Moved(p, "blob", frame[p].ref, Fresh, frame[p].todo)
  BY <1>1, <1>2, ResolvedFrame DEF GenerateMaster, Ensuring
<1>4. /\ frame[p] # None /\ frame[p].pc = "ensure" /\ T(p) \in Tiers
      /\ T(p) = 0 => disk[0] = None /\ master = None /\ frame[p].ref = SI
      /\ UNCHANGED <<master, old, new, wired, returned, legacy>>
      /\ disk' = [disk EXCEPT ![T(p)] = Fresh] /\ cache' = [cache EXCEPT ![T(p)] = Fresh]
  BY <1>1 DEF GenerateMaster, Ensuring, Generates, T, TierOf, Tiers, WriteMaster
<1>5. T(p) = 0 /\ SI \in legacy => new[SI] # None
  BY <1>4 DEF IInv, Files
<1>6. T(p) # 0 => frame[p].ref # SI /\ disk'[0] = disk[0]
  BY <1>1, <1>4 DEF T, TierOf, Types, Tiers
<1>7. OneKey'
  BY <1>1, <1>3, <1>4, <1>5, <1>6 DEF SInv, OneKey
<1>8. ASSUME NEW q \in Procs, frame'[q] # None PROVE Careful(frame[q])'
  <2>1. cache[0] # None => cache'[0] # None
    BY <1>1, <1>2, <1>4 DEF Types, Tiers
  <2> QED BY <1>1, <1>3, <1>4, <1>5, <1>6, <1>8, <2>1 DEF Careful, Moved
<1> QED BY <1>7, <1>8 DEF SInv

LEMMA EnsureFailsSI ==
  ASSUME StableHost, IInv, IInv', SInv, NEW p \in Procs, EnsureFails(p),
         \A q \in Procs \ {p} : Keeps(q)
  PROVE  SInv'
<1>1. /\ \A q \in Procs \ {p} : frame'[q] = frame[q]
      /\ frame \in [Procs -> OrNone(Frame)] /\ frame' \in [Procs -> OrNone(Frame)]
      /\ Types /\ Types'
      /\ \A q \in Procs : frame[q] # None =>
           Shape(frame[q]) /\ Knows(frame[q]) /\ Careful(frame[q]) /\ frame[q] \in Frame
  BY DEF Keeps, IInv, Types, SInv, Proc
<1>2. frame[p] # None /\ frame[p].pc = "ensure" /\ T(p) # 0
  BY <1>1 DEF EnsureFails, Ensuring, Unresolvable, KEK, StableHost, SInv, OneKey
<1>3. frame[p].method # "SingleInstanceKey"
  BY <1>1, <1>2 DEF T, TierOf, Shape
<1>4. frame'[p] = None
  BY <1>1, <1>3 DEF EnsureFails, FallBack, Creating, Return
<1>5. UNCHANGED <<master, disk, old, new, cache, wired, returned, legacy>>
  BY DEF EnsureFails, diskVars
<1>6. OneKey'
  BY <1>1, <1>2, <1>4, <1>5 DEF SInv, OneKey
<1>7. ASSUME NEW q \in Procs, frame'[q] # None PROVE Careful(frame[q])'
  BY <1>1, <1>4, <1>5, <1>7 DEF Careful
<1> QED BY <1>6, <1>7 DEF SInv

LEMMA BeginTier0MigrationSI ==
  ASSUME StableHost, IInv, IInv', SInv, NEW p \in Procs, BeginTier0Migration(p),
         \A q \in Procs \ {p} : Keeps(q)
  PROVE  SInv'
<1>1. /\ \A q \in Procs \ {p} : frame'[q] = frame[q]
      /\ Types /\ Types' /\ \A q \in Procs : frame[q] # None => Careful(frame[q])
  BY DEF Keeps, IInv, SInv
<1>2. /\ frame[p] # None /\ frame[p].ref = SI /\ frame[p].method = "SingleInstanceKey"
      /\ master # None /\ disk[0] = None /\ cache[0] = None /\ Fresh \in Masters
      /\ UNCHANGED <<master, old, new, wired, returned, legacy>>
      /\ disk' = [disk EXCEPT ![0] = Fresh]
  BY BeginTier0Frame DEF BeginTier0Migration, Ensuring, T, TierOf
<1>3. PICK pc \in {"blob", "reseal"}, m \in OrNone(Masters) :
        /\ Moved(p, pc, SI, m, frame[p].todo)
        /\ pc = "blob" => old[SI] = None /\ cache' = [cache EXCEPT ![0] = Fresh]
        /\ pc = "reseal" => m = None /\ cache' = cache
  BY BeginTier0Frame
<1>4. SI \in legacy /\ pc = "blob" => new[SI] # None
  BY <1>3 DEF IInv, Files
<1>5. OneKey'
  BY <1>1, <1>2, <1>3, <1>4 DEF SInv, OneKey, Moved
<1>6. ASSUME NEW q \in Procs, frame'[q] # None PROVE Careful(frame[q])'
  <2>1. cache[0] # None => cache'[0] # None
    BY <1>2
  <2> QED BY <1>1, <1>2, <1>3, <1>4, <1>6, <2>1 DEF Careful, Moved
<1> QED BY <1>5, <1>6 DEF SInv

LEMMA Reseal0SI ==
  ASSUME StableHost, IInv, IInv', SInv, NEW p \in Procs, Reseal0(p),
         \A q \in Procs \ {p} : Keeps(q)
  PROVE  SInv'
<1>1. \A q \in Procs \ {p} : frame'[q] = frame[q]
  BY DEF Keeps
<1>2. OneKey'
  BY <1>1
     DEF IInv, Types, Proc, Knows, OneKey, SInv, Frame, memVars, Reseal0, Migrating0, At,
         Reseal, Sealed, GoTo
<1>3. ASSUME NEW q \in Procs, frame'[q] # None PROVE Careful(frame[q])'
  BY <1>1, <1>3
     DEF IInv, Types, Proc, Knows, OneKey, Careful, SInv, Frame, memVars, Reseal0, Migrating0,
         At, Reseal, Sealed, GoTo
<1> QED BY <1>2, <1>3 DEF SInv

LEMMA Reseal0FailsSI ==
  ASSUME StableHost, IInv, IInv', SInv, NEW p \in Procs, Reseal0Fails(p),
         \A q \in Procs \ {p} : Keeps(q)
  PROVE  SInv'
<1>1. \A q \in Procs \ {p} : frame'[q] = frame[q]
  BY DEF Keeps
<1>2. OneKey'
  BY <1>1 DEF StableHost, Reseal0Fails
<1>3. ASSUME NEW q \in Procs, frame'[q] # None PROVE Careful(frame[q])'
  BY <1>1, <1>3 DEF StableHost, Reseal0Fails
<1> QED BY <1>2, <1>3 DEF SInv

LEMMA EndTier0MigrationSI ==
  ASSUME StableHost, IInv, IInv', SInv, NEW p \in Procs, EndTier0Migration(p),
         \A q \in Procs \ {p} : Keeps(q)
  PROVE  SInv'
<1>1. \A q \in Procs \ {p} : frame'[q] = frame[q]
  BY DEF Keeps
<1>2. Moved(p, "blob", frame[p].ref, disk[0], frame[p].todo)
  BY <1>1, ResolvedFrame
     DEF IInv, Types, Files, Frame, T, TierOf, Tiers, Proc, Knows, EndTier0Migration,
         Migrating0, At, RemoveOld, Resolved
<1>3. OneKey'
  BY <1>1, <1>2 DEF IInv, Types, OneKey, SInv, EndTier0Migration, Migrating0, At, RemoveOld
<1>4. ASSUME NEW q \in Procs, frame'[q] # None PROVE Careful(frame[q])'
  BY <1>1, <1>2, <1>4
     DEF IInv, Proc, Knows, Careful, SInv, EndTier0Migration, Migrating0, At, Moved
<1> QED BY <1>3, <1>4 DEF SInv

LEMMA SetKEKProviderTier0SI ==
  ASSUME StableHost, IInv, IInv', SInv, NEW p \in Procs, SetKEKProviderTier0(p),
         \A q \in Procs \ {p} : Keeps(q)
  PROVE  SInv'
<1>1. \A q \in Procs \ {p} : frame'[q] = frame[q]
  BY DEF Keeps
<1>2. OneKey'
  BY <1>1 DEF StableHost, SetKEKProviderTier0, Called
<1>3. ASSUME NEW q \in Procs, frame'[q] # None PROVE Careful(frame[q])'
  BY <1>1, <1>3 DEF StableHost, SetKEKProviderTier0, Called
<1> QED BY <1>2, <1>3 DEF SInv

LEMMA SetKEKProviderSI ==
  ASSUME StableHost, IInv, IInv', SInv, NEW p \in Procs, SetKEKProvider(p),
         \A q \in Procs \ {p} : Keeps(q)
  PROVE  SInv'
<1>1. \A q \in Procs \ {p} : frame'[q] = frame[q]
  BY DEF Keeps
<1>2. OneKey'
  BY <1>1 DEF OneKey, SInv, diskVars, SetKEKProvider, Called
<1>3. ASSUME NEW q \in Procs, frame'[q] # None PROVE Careful(frame[q])'
  BY <1>1, <1>3 DEF IInv, Types, Careful, SInv, diskVars, SetKEKProvider, Call
<1> QED BY <1>2, <1>3 DEF SInv

LEMMA MigrateTier0MasterSI ==
  ASSUME StableHost, IInv, IInv', SInv, NEW p \in Procs, MigrateTier0Master(p),
         \A q \in Procs \ {p} : Keeps(q)
  PROVE  SInv'
<1>1. \A q \in Procs \ {p} : frame'[q] = frame[q]
  BY DEF Keeps
<1>2. OneKey'
  BY <1>1
     DEF IInv, Types, Proc, Locks, OneKey, SInv, Migrations, MigrateTier0Master, Migrating, At,
         GoTo
<1>3. ASSUME NEW q \in Procs, frame'[q] # None PROVE Careful(frame[q])'
  BY <1>1, <1>3
     DEF IInv, Types, OneKey, Careful, SInv, Tiers, KEK, MigrateTier0Master, Migrating, At, GoTo
<1> QED BY <1>2, <1>3 DEF SInv

LEMMA MigrateTier1MasterSI ==
  ASSUME StableHost, IInv, IInv', SInv, NEW p \in Procs, MigrateTier1Master(p),
         \A q \in Procs \ {p} : Keeps(q)
  PROVE  SInv'
<1>1. \A q \in Procs \ {p} : frame'[q] = frame[q]
  BY DEF Keeps
<1>2. OneKey'
  BY <1>1
     DEF IInv, Types, Files, OneKey, SInv, Frame, Migrations, MigrateTier1Master, GoTo,
         WriteMaster
<1>3. ASSUME NEW q \in Procs, frame'[q] # None PROVE Careful(frame[q])'
  BY <1>1, <1>3
     DEF IInv, Types, Files, Proc, Locks, Shape, Careful, SInv, Frame, Migrations,
         MigrateTier1Master, Migrating, At, GoTo
<1> QED BY <1>2, <1>3 DEF SInv

LEMMA MigrateSingleInstanceSI ==
  ASSUME StableHost, IInv, IInv', SInv, NEW p \in Procs, MigrateSingleInstance(p),
         \A q \in Procs \ {p} : Keeps(q)
  PROVE  SInv'
<1>1. \A q \in Procs \ {p} : frame'[q] = frame[q]
  BY DEF Keeps
<1>2. OneKey'
  BY <1>1
     DEF IInv, Types, Proc, Knows, OneKey, SInv, Frame, memVars, MigrateSingleInstance,
         Migrating, At, Reseal, Sealed, GoTo
<1>3. ASSUME NEW q \in Procs, frame'[q] # None PROVE Careful(frame[q])'
  BY <1>1, <1>3
     DEF IInv, Types, Proc, Knows, OneKey, Careful, SInv, Frame, memVars, MigrateSingleInstance,
         Migrating, At, Reseal, Sealed, GoTo
<1> QED BY <1>2, <1>3 DEF SInv

LEMMA RemoveSingleInstanceSI ==
  ASSUME StableHost, IInv, IInv', SInv, NEW p \in Procs, RemoveSingleInstance(p),
         \A q \in Procs \ {p} : Keeps(q)
  PROVE  SInv'
<1>1. \A q \in Procs \ {p} : frame'[q] = frame[q]
  BY DEF Keeps
<1>2. Moved(p, "rename", frame[p].ref, frame[p].m, {r \in Creds : old[r] # None})
  BY <1>1, BeginRenameFrame
     DEF IInv, Types, Files, Frame, T, TierOf, Tiers, Proc, Knows, RemoveSingleInstance,
         Migrating, At, RemoveOld, BeginRename
<1>3. OneKey'
  BY <1>1, <1>2
     DEF IInv, Types, OneKey, SInv, memVars, RemoveSingleInstance, Migrating, At, RemoveOld
<1>4. ASSUME NEW q \in Procs, frame'[q] # None PROVE Careful(frame[q])'
  BY <1>1, <1>2, <1>4 DEF Careful, SInv, memVars, RemoveSingleInstance, Migrating, At, Moved
<1> QED BY <1>3, <1>4 DEF SInv

LEMMA RenameBlobSI ==
  ASSUME StableHost, IInv, IInv', SInv, NEW p \in Procs, RenameBlob(p),
         \A q \in Procs \ {p} : Keeps(q)
  PROVE  SInv'
<1>1. /\ \A q \in Procs \ {p} : frame'[q] = frame[q]
      /\ frame \in [Procs -> OrNone(Frame)] /\ frame' \in [Procs -> OrNone(Frame)]
      /\ Types /\ Types'
      /\ \A q \in Procs : frame[q] # None =>
           Shape(frame[q]) /\ Knows(frame[q]) /\ Careful(frame[q]) /\ frame[q] \in Frame
  BY DEF Keeps, IInv, Types, SInv, Proc
<1>2. PICK ref \in frame[p].todo :
       /\ new' = [new EXCEPT ![ref] = old[ref]]
       /\ frame' = [frame EXCEPT ![p] = [@ EXCEPT !.pc = "remove", !.ref = ref]]
  BY DEF RenameBlob
<1>3. /\ frame[p] # None /\ frame[p].method = "SetKEKProvider" /\ frame[p].pc = "rename"
      /\ UNCHANGED <<master, disk, old, cache, wired, returned, legacy>>
  BY DEF RenameBlob, Migrating, At, memVars
<1>4. ref \in Creds /\ ref \in Refs /\ frame[p].m = None /\ frame[p].stage = "fast"
  BY <1>1, <1>2, <1>3 DEF Frame, Refs, Shape
<1>5. new'[SI] = new[SI]
  BY <1>1, <1>2, <1>4 DEF Types, Refs
<1>6. Moved(p, "remove", ref, frame[p].m, frame[p].todo)
  BY <1>1, <1>2, <1>3, <1>4, RenameFrame
<1>7. OneKey'
  BY <1>1, <1>3, <1>5, <1>6 DEF SInv, OneKey
<1>8. ASSUME NEW q \in Procs, frame'[q] # None PROVE Careful(frame[q])'
  BY <1>1, <1>3, <1>4, <1>5, <1>6, <1>8 DEF Careful, Moved
<1> QED BY <1>7, <1>8 DEF SInv

LEMMA RemoveBlobSI ==
  ASSUME StableHost, IInv, IInv', SInv, NEW p \in Procs, RemoveBlob(p),
         \A q \in Procs \ {p} : Keeps(q)
  PROVE  SInv'
<1>1. /\ \A q \in Procs \ {p} : frame'[q] = frame[q]
      /\ frame \in [Procs -> OrNone(Frame)] /\ frame' \in [Procs -> OrNone(Frame)]
      /\ Types /\ Types'
      /\ \A q \in Procs : frame[q] # None =>
           Shape(frame[q]) /\ Knows(frame[q]) /\ Careful(frame[q]) /\ frame[q] \in Frame
  BY DEF Keeps, IInv, Types, SInv, Proc
<1>2. Moved(p, "rename", frame[p].ref, frame[p].m, frame[p].todo \ {frame[p].ref})
  BY <1>1, RemoveFrame DEF RemoveBlob, Migrating, At
<1>3. /\ frame[p] # None /\ frame[p].method = "SetKEKProvider" /\ frame[p].pc = "remove"
      /\ frame[p].ref \in Creds
      /\ UNCHANGED <<master, disk, new, cache, wired, returned, legacy>>
  BY <1>1 DEF RemoveBlob, Migrating, At, Knows, Frame, memVars
<1>4. old'[SI] = old[SI]
  BY <1>1, <1>3 DEF RemoveBlob, RemoveOld, Types, Refs
<1>5. OneKey'
  BY <1>1, <1>2, <1>3, <1>4 DEF SInv, OneKey
<1>6. ASSUME NEW q \in Procs, frame'[q] # None PROVE Careful(frame[q])'
  BY <1>1, <1>2, <1>3, <1>6 DEF Careful, Moved
<1> QED BY <1>5, <1>6 DEF SInv

LEMMA EndMigrationSI ==
  ASSUME StableHost, IInv, IInv', SInv, NEW p \in Procs, EndMigration(p),
         \A q \in Procs \ {p} : Keeps(q)
  PROVE  SInv'
<1>1. \A q \in Procs \ {p} : frame'[q] = frame[q]
  BY DEF Keeps
<1>2. OneKey'
  BY <1>1 DEF OneKey, SInv, EndMigration, Migrating, At
<1>3. ASSUME NEW q \in Procs, frame'[q] # None PROVE Careful(frame[q])'
  BY <1>1, <1>3 DEF Careful, SInv, EndMigration, Return
<1> QED BY <1>2, <1>3 DEF SInv

LEMMA MigrationFailsSI ==
  ASSUME StableHost, IInv, IInv', SInv, NEW p \in Procs, MigrationFails(p),
         \A q \in Procs \ {p} : Keeps(q)
  PROVE  SInv'
<1>1. \A q \in Procs \ {p} : frame'[q] = frame[q]
  BY DEF Keeps
<1>2. OneKey'
  BY <1>1 DEF Careful, SInv, StableHost, MigrationFails, Migrating, At
<1>3. ASSUME NEW q \in Procs, frame'[q] # None PROVE Careful(frame[q])'
  BY <1>1, <1>3 DEF Careful, SInv, diskVars, MigrationFails, Return
<1> QED BY <1>2, <1>3 DEF SInv

LEMMA ServiceShutdownSI ==
  ASSUME StableHost, IInv, IInv', SInv, NEW p \in Procs, ServiceShutdown(p),
         \A q \in Procs \ {p} : Keeps(q)
  PROVE  SInv'
<1>1. \A q \in Procs \ {p} : frame'[q] = frame[q]
  BY DEF Keeps
<1>2. OneKey'
  BY <1>1 DEF OneKey, SInv, diskVars, ServiceShutdown
<1>3. ASSUME NEW q \in Procs, frame'[q] # None PROVE Careful(frame[q])'
  BY <1>1, <1>3 DEF IInv, Proc, Locks, Careful, SInv, Migrations, diskVars, ServiceShutdown
<1> QED BY <1>2, <1>3 DEF SInv

LEMMA StepSI ==
  ASSUME StableHost, IInv, SInv, NEW p \in Procs, Step(p)
  PROVE  SInv'
<1>1. IInv' /\ \A q \in Procs \ {p} : Keeps(q)
  BY StepKeeps DEF Kept
<1>2. ASSUME SingleInstanceKey(p) \/ PutTier1(p) \/ GetTier1(p) PROVE SInv'
  BY <1>1, <1>2, StartSI DEF SingleInstanceKey, PutTier1, GetTier1, Refs, Keys
<1>3. ASSUME DeleteTier0(p) \/ DeleteTier1(p) PROVE SInv'
  BY <1>1, <1>3, DeleteSI DEF DeleteTier0, DeleteTier1, Refs
<1> QED
  BY <1>1, <1>2, <1>3, LockGetOrCreateSI, GetBlobSI, PutBlobSI, BlobFailsSI, UnlinkSI,
     UseCachedSI, LoadMasterSI, GenerateMasterSI, EnsureFailsSI, BeginTier0MigrationSI,
     Reseal0SI, Reseal0FailsSI, EndTier0MigrationSI, SetKEKProviderTier0SI, SetKEKProviderSI,
     MigrateTier0MasterSI, MigrateTier1MasterSI, MigrateSingleInstanceSI,
     RemoveSingleInstanceSI, RenameBlobSI, RemoveBlobSI, EndMigrationSI, MigrationFailsSI,
     ServiceShutdownSI, Zenon
     DEF Step

LEMMA OtherStepsKeepSInv ==
  ASSUME StableHost, IInv, SInv, Unlock \/ Restart \/ UNCHANGED vars
  PROVE  SInv'
<1>1. CASE Unlock
  BY <1>1 DEF Unlock, diskVars, SInv, OneKey, Careful
<1>2. CASE Restart
  <2>1. \A p \in Procs : frame[p] = None /\ frame'[p] = None
    BY <1>2 DEF Restart, StableHost
  <2>2. wired'[0]
    BY <1>2 DEF Restart, StableHost, Tiers
  <2> QED BY <1>2, <2>1, <2>2 DEF Restart, diskVars, SInv, OneKey
<1>3. CASE UNCHANGED vars
  BY <1>3 DEF vars, diskVars, memVars, SInv, OneKey, Careful
<1> QED BY <1>1, <1>2, <1>3

LEMMA InitSInv == StableHost /\ Init => SInv
<1> SUFFICES ASSUME StableHost, Init PROVE SInv
  OBVIOUS
<1>1. wired[0]
  BY DEF Init, StableHost, Tiers
<1>2. /\ master # None => master.form = "raw"
      /\ old[SI] # None => SI \in legacy /\ old[SI].key = 1
      /\ new[SI] = None /\ disk[0] = None /\ returned = {}
  BY DEF Init, StableHost, Sealed, Refs, Tiers
<1> QED BY <1>1, <1>2 DEF Init, SInv, OneKey

\* SingleInstanceKey: "the key is stable across restarts" (service.go:1768-1769).
\* On such a host getOrCreate generates at most one key, none where the legacy
\* install has one, and every call returns it, whatever else is going on.
THEOREM SIKeyNeverChanges ==
  ASSUME StableHost PROVE Spec => []SIKeyIsStable
<1>1. IInv /\ SInv /\ [Next]_vars => IInv' /\ SInv'
  <2> SUFFICES ASSUME IInv, SInv, [Next]_vars PROVE IInv' /\ SInv'
    OBVIOUS
  <2>1. ASSUME NEW p \in Procs, Step(p) PROVE IInv' /\ SInv'
    BY <2>1, StepKeeps, StepSI DEF Kept
  <2>2. ASSUME Unlock \/ Restart \/ UNCHANGED vars PROVE IInv' /\ SInv'
    BY <2>2, UnlockKeeps, RestartKeeps, StutterKeeps, OtherStepsKeepSInv
  <2> QED BY <2>1, <2>2, Zenon DEF Next
<1>2. SInv => SIKeyIsStable
  BY DEF SInv, OneKey, SIKeyIsStable
<1> QED BY InitInv, InitSInv, <1>1, <1>2, PTL DEF Spec
-----------------------------------------------------------------------------
(***************************************************************************)
(* The broadcasts.  The steps that broadcast nothing must not touch a      *)
(* tier-1 blob that is there.  For a migration this rests on its lock: it  *)
(* begins when there is none, and while it holds s.mu no call has a tier-1 *)
(* master to put with.                                                     *)
(***************************************************************************)
USE EventsAssumption

\* What a migration has still to rename is not there yet.
Untouched(f) ==
  /\ f.pc \notin {"rename", "remove"} => \A r \in Creds : new[r] = None
  /\ f.pc = "rename" => \A r \in f.todo : new[r] = None
  /\ f.pc = "remove" => \A r \in f.todo \ {f.ref} : new[r] = None

\* While it runs, no call holds the tier-1 master.
Waits(q) == frame[q] # None /\ frame[q].ref \in Creds => frame[q].m = None

InMigration(p) == frame[p] # None /\ frame[p].method = "SetKEKProvider"

Renaming ==
  \A p \in Procs : InMigration(p) => Untouched(frame[p]) /\ \A q \in Procs : Waits(q)

LEMMA MigrationHoldsMu ==
  ASSUME IInv, NEW p \in Procs, InMigration(p) PROVE mu = p
BY DEF IInv, Proc, Locks, Shape, InMigration

\* While a process holds s.mu, these are the steps of the others.
LEMMA BesidesAMigration ==
  ASSUME IInv, NEW p \in Procs, mu # None, mu # p, Step(p)
  PROVE  \/ SingleInstanceKey(p) \/ PutTier1(p) \/ GetTier1(p) \/ LockGetOrCreate(p)
         \/ GetBlob(p) \/ PutBlob(p) \/ BlobFails(p)
         \/ DeleteTier0(p) \/ DeleteTier1(p) \/ Unlink(p)
<1>1. ~Ensuring(p) /\ \A pc \in Migrations : ~Migrating0(p, pc) /\ ~Migrating(p, pc)
  BY DEF IInv, Proc, Locks, Ensuring, Migrating0, Migrating, At
<1>2. ~(\/ UseCached(p) \/ LoadMaster(p) \/ GenerateMaster(p) \/ EnsureFails(p)
        \/ BeginTier0Migration(p))
  BY <1>1, Zenon DEF UseCached, LoadMaster, GenerateMaster, EnsureFails, BeginTier0Migration
<1>3. ~(Reseal0(p) \/ Reseal0Fails(p) \/ EndTier0Migration(p))
  BY <1>1 DEF Reseal0, Reseal0Fails, EndTier0Migration, Migrations
<1>4. ~(SetKEKProviderTier0(p) \/ SetKEKProvider(p) \/ ServiceShutdown(p))
  BY Zenon DEF SetKEKProviderTier0, SetKEKProvider, ServiceShutdown
<1>5. ~(\/ MigrateTier0Master(p) \/ MigrateTier1Master(p) \/ MigrateSingleInstance(p)
        \/ RemoveSingleInstance(p) \/ RenameBlob(p) \/ RemoveBlob(p) \/ EndMigration(p)
        \/ MigrationFails(p))
  BY <1>1 DEF MigrateTier0Master, MigrateTier1Master, MigrateSingleInstance,
     RemoveSingleInstance, RenameBlob, RemoveBlob, EndMigration, MigrationFails, Migrations
<1> QED
  BY <1>2, <1>3, <1>4, <1>5, Zenon DEF Step

\* They write no tier-1 blob, and get hold of no tier-1 master.
LEMMA BesidesIsCalm ==
  ASSUME IInv, Renaming, NEW q \in Procs, InMigration(q), NEW p \in Procs \ {q}, Step(p)
  PROVE  /\ \A r \in Creds : new[r] = None => new'[r] = None
         /\ Waits(p)'
<1>1. /\ mu = q /\ mu # p /\ mu # None /\ Waits(p)
      /\ frame \in [Procs -> OrNone(Frame)] /\ new \in [Refs -> OrNone(Blob)]
      /\ frame[p] # None => Shape(frame[p]) /\ frame[p] \in Frame
      /\ AtBlob(p) => frame[p].m # None
  BY MigrationHoldsMu DEF Renaming, IInv, Types, Proc, Knows, AtBlob
<1>2. ASSUME NEW method \in Methods, NEW ref \in Refs, NEW key \in Keys, Start(p, method, ref, key)
      PROVE  /\ \A r \in Creds : new[r] = None => new'[r] = None
             /\ Waits(p)'
  BY <1>1, <1>2 DEF Start, Call, Waits, diskVars
<1>3. ASSUME NEW method \in Methods, NEW ref \in Refs, Delete(p, method, ref)
      PROVE  /\ \A r \in Creds : new[r] = None => new'[r] = None
             /\ Waits(p)'
  BY <1>1, <1>3 DEF Delete, Call, Waits, diskVars
<1>4. ASSUME LockGetOrCreate(p)
      PROVE  /\ \A r \in Creds : new[r] = None => new'[r] = None
             /\ Waits(p)'
  BY <1>1, <1>4 DEF LockGetOrCreate, At, Shape, Waits, diskVars, Frame
<1>5. ASSUME GetBlob(p)
      PROVE  /\ \A r \in Creds : new[r] = None => new'[r] = None
             /\ Waits(p)'
  BY <1>1, <1>5 DEF GetBlob, Return, Waits, diskVars
<1>6. ASSUME PutBlob(p)
      PROVE  /\ \A r \in Creds : new[r] = None => new'[r] = None
             /\ Waits(p)'
  BY <1>1, <1>6 DEF PutBlob, AtBlob, Return, Waits, diskVars, Refs, Frame
<1>7. ASSUME BlobFails(p)
      PROVE  /\ \A r \in Creds : new[r] = None => new'[r] = None
             /\ Waits(p)'
  <2>1. frame[p] # None /\ FallBack(p) /\ UNCHANGED new
    BY <1>7 DEF BlobFails, AtBlob, diskVars
  <2>2. frame'[p] = None \/ frame[p].method = "SingleInstanceKey"
    BY <2>1, FallBackFrame
  <2>3. frame'[p] # None => frame'[p].ref = frame[p].ref
    <3>1. SUFFICES ASSUME frame'[p] # None PROVE frame'[p].ref = frame[p].ref
      OBVIOUS
    <3>2. PICK pc, stage, key : Staged(p, pc, stage, key)
      BY <2>1, <3>1, FallBackFrame
    <3> QED BY <3>2 DEF Staged
  <2> QED BY <1>1, <2>1, <2>2, <2>3 DEF Shape, Waits
<1>8. ASSUME Unlink(p)
      PROVE  /\ \A r \in Creds : new[r] = None => new'[r] = None
             /\ Waits(p)'
  BY <1>1, <1>8 DEF Unlink, Return, Waits, Refs, Frame
<1> QED
  BY <1>1, <1>2, <1>3, <1>4, <1>5, <1>6, <1>7, <1>8, BesidesAMigration
     DEF SingleInstanceKey, PutTier1, GetTier1, DeleteTier0, DeleteTier1, Refs, Keys, Methods

\* A call stays the call it is.
LEMMA MethodStays ==
  ASSUME IInv, NEW p \in Procs, frame[p] # None, Step(p), frame'[p] # None
  PROVE  frame'[p].method = frame[p].method
<1> DEFINE Same == frame'[p].method = frame[p].method
<1>1. Types /\ Files /\ frame \in [Procs -> OrNone(Frame)] /\ frame[p] \in Frame
  BY DEF IInv, Types
<1>2. ASSUME NEW m, Resolved(p, m) PROVE Same
  BY <1>1, <1>2 DEF Resolved, Frame
<1>3. ASSUME NEW pc, GoTo(p, pc) PROVE Same
  BY <1>1, <1>3 DEF GoTo, Frame
<1>4. ASSUME FallBack(p) PROVE Same
  <2>1. \E pc, stage, key : Staged(p, pc, stage, key)
    BY <1>4, FallBackFrame
  <2> QED BY <2>1 DEF Staged
<1>5. ASSUME BeginRename(p) PROVE Same
  <2>1. Moved(p, "rename", frame[p].ref, frame[p].m, {r \in Creds : old[r] # None})
    BY <1>1, <1>5, BeginRenameFrame
  <2> QED BY <2>1 DEF Moved
<1>6. ASSUME LockGetOrCreate(p) PROVE Same
  <2>1. Staged(p, "ensure", "slow", frame[p].key)
    BY <1>1, <1>6, LockFrame
  <2> QED BY <2>1 DEF Staged
<1>7. ASSUME RenameBlob(p) PROVE Same
  <2>1. PICK ref \in Refs : frame' = [frame EXCEPT ![p] = [@ EXCEPT !.pc = "remove", !.ref = ref]]
    BY <1>1, <1>7 DEF RenameBlob, Frame, Refs
  <2> QED BY <1>1, <2>1, RenameFrame DEF Moved, Frame
<1>8. ASSUME RemoveBlob(p) PROVE Same
  BY <1>1, <1>8, RemoveFrame DEF RemoveBlob, Moved, Frame
<1>9. ~Return(p)
  BY <1>1 DEF Return
<1>10. ~(GetBlob(p) \/ PutBlob(p) \/ Unlink(p) \/ EndMigration(p) \/ MigrationFails(p))
  BY <1>9, Zenon DEF GetBlob, PutBlob, Unlink, EndMigration, MigrationFails
<1>11. ASSUME BlobFails(p) \/ EnsureFails(p) \/ Reseal0Fails(p) PROVE Same
  BY <1>4, <1>11, Zenon DEF BlobFails, EnsureFails, Reseal0Fails
<1>12. ASSUME UseCached(p) \/ LoadMaster(p) \/ GenerateMaster(p) \/ EndTier0Migration(p)
              \/ BeginTier0Migration(p) \/ Reseal0(p)
       PROVE  Same
  BY <1>2, <1>3, <1>12, Zenon
     DEF UseCached, LoadMaster, GenerateMaster, EndTier0Migration, BeginTier0Migration, Reseal0
<1>13. ASSUME MigrateTier0Master(p) \/ MigrateTier1Master(p) \/ MigrateSingleInstance(p)
              \/ RemoveSingleInstance(p)
       PROVE  Same
  BY <1>3, <1>5, <1>13, Zenon
     DEF MigrateTier0Master, MigrateTier1Master, MigrateSingleInstance, RemoveSingleInstance
<1>14. ~(\/ SingleInstanceKey(p) \/ PutTier1(p) \/ GetTier1(p) \/ DeleteTier0(p) \/ DeleteTier1(p)
         \/ SetKEKProviderTier0(p) \/ SetKEKProvider(p) \/ ServiceShutdown(p))
  BY DEF SingleInstanceKey, PutTier1, GetTier1, DeleteTier0, DeleteTier1, Start, Delete,
     SetKEKProviderTier0, SetKEKProvider, ServiceShutdown, Called
<1> QED
  BY <1>6, <1>7, <1>8, <1>10, <1>11, <1>12, <1>13, <1>14, Zenon DEF Step

LEMMA OnlySetKEKProviderBegins ==
  ASSUME IInv, NEW p \in Procs, Step(p), ~InMigration(p), InMigration(p)'
  PROVE  SetKEKProvider(p) /\ MigrationStarts /\ frame'[p] = Call("SetKEKProvider", "tier0", SI)
<1>1. frame[p] = None /\ frame \in [Procs -> OrNone(Frame)]
  BY MethodStays DEF InMigration, IInv, Types
<1>2. ~(\/ LockGetOrCreate(p) \/ GetBlob(p) \/ PutBlob(p) \/ BlobFails(p) \/ Unlink(p)
        \/ UseCached(p) \/ LoadMaster(p) \/ GenerateMaster(p) \/ EnsureFails(p)
        \/ BeginTier0Migration(p) \/ Reseal0(p) \/ Reseal0Fails(p) \/ EndTier0Migration(p))
  BY <1>1 DEF LockGetOrCreate, GetBlob, PutBlob, BlobFails, Unlink, UseCached, LoadMaster,
     GenerateMaster, EnsureFails, BeginTier0Migration, Reseal0, Reseal0Fails, EndTier0Migration,
     At, AtBlob, Ensuring, Migrating0
<1>3. ~(\/ MigrateTier0Master(p) \/ MigrateTier1Master(p) \/ MigrateSingleInstance(p)
        \/ RemoveSingleInstance(p) \/ RenameBlob(p) \/ RemoveBlob(p) \/ EndMigration(p)
        \/ MigrationFails(p))
  BY <1>1 DEF MigrateTier0Master, MigrateTier1Master, MigrateSingleInstance,
     RemoveSingleInstance, RenameBlob, RemoveBlob, EndMigration, MigrationFails, Migrating, At
<1>4. ~(SetKEKProviderTier0(p) \/ ServiceShutdown(p))
  BY <1>1 DEF SetKEKProviderTier0, ServiceShutdown, InMigration
<1>5. ~(SingleInstanceKey(p) \/ PutTier1(p) \/ GetTier1(p))
  <2>1. ASSUME NEW method, NEW ref, NEW key, Start(p, method, ref, key)
        PROVE  frame'[p].method = method
    BY <1>1, <2>1 DEF Start, Call
  <2> QED BY <2>1 DEF SingleInstanceKey, PutTier1, GetTier1, InMigration
<1>6. ~(DeleteTier0(p) \/ DeleteTier1(p))
  BY <1>1 DEF DeleteTier0, DeleteTier1, Delete, Call, InMigration
<1>7. SetKEKProvider(p)
  BY <1>2, <1>3, <1>4, <1>5, <1>6, Zenon DEF Step
<1> QED BY <1>1, <1>7 DEF SetKEKProvider, InMigration

LEMMA MigrationStepKeepsUntouched ==
  ASSUME IInv, NEW p \in Procs, InMigration(p), InMigration(p)', Step(p), Untouched(frame[p])
  PROVE  Untouched(frame[p])'
<1>1. /\ frame \in [Procs -> OrNone(Frame)] /\ frame[p] \in Frame /\ frame[p] # None
      /\ frame[p].method = "SetKEKProvider" /\ frame[p].pc \in Migrations
      /\ SI \notin Creds /\ new \in [Refs -> OrNone(Blob)] /\ Types
  BY DEF IInv, Types, InMigration, Proc, Shape
<1>2. \/ MigrateTier0Master(p) \/ MigrateTier1Master(p) \/ MigrateSingleInstance(p)
      \/ RemoveSingleInstance(p) \/ RenameBlob(p) \/ RemoveBlob(p) \/ EndMigration(p)
      \/ MigrationFails(p)
  <2>1. ~(\/ LockGetOrCreate(p) \/ GetBlob(p) \/ PutBlob(p) \/ BlobFails(p) \/ Unlink(p)
          \/ UseCached(p) \/ LoadMaster(p) \/ GenerateMaster(p) \/ EnsureFails(p)
          \/ BeginTier0Migration(p) \/ Reseal0(p) \/ Reseal0Fails(p) \/ EndTier0Migration(p))
    BY <1>1 DEF LockGetOrCreate, GetBlob, PutBlob, BlobFails, Unlink, UseCached, LoadMaster,
       GenerateMaster, EnsureFails, BeginTier0Migration, Reseal0, Reseal0Fails, EndTier0Migration,
       At, AtBlob, Ensuring, Migrating0, Migrations
  <2>2. ~(\/ SingleInstanceKey(p) \/ PutTier1(p) \/ GetTier1(p) \/ DeleteTier0(p) \/ DeleteTier1(p)
          \/ SetKEKProviderTier0(p) \/ SetKEKProvider(p) \/ ServiceShutdown(p))
    BY <1>1 DEF SingleInstanceKey, PutTier1, GetTier1, DeleteTier0, DeleteTier1, Start, Delete,
       SetKEKProviderTier0, SetKEKProvider, ServiceShutdown, Called
  <2> QED BY <2>1, <2>2, Zenon DEF Step
<1>3. ASSUME MigrateTier0Master(p) PROVE Untouched(frame[p])'
  BY <1>1, <1>3 DEF MigrateTier0Master, Migrating, At, GoTo, Untouched
<1>4. ASSUME MigrateTier1Master(p) PROVE Untouched(frame[p])'
  <2>1. CASE old[SI] # None
    <3>1. frame'[p].pc = "reseal" /\ UNCHANGED new
      BY <1>1, <1>4, <2>1 DEF MigrateTier1Master, GoTo, Frame
    <3> QED BY <1>1, <1>4, <3>1 DEF MigrateTier1Master, Migrating, At, Untouched
  <2>2. CASE old[SI] = None
    <3>1. Moved(p, "rename", frame[p].ref, frame[p].m, {r \in Creds : old[r] # None})
      BY <1>1, <1>4, <2>2, BeginRenameFrame DEF MigrateTier1Master
    <3> QED BY <1>1, <1>4, <3>1 DEF MigrateTier1Master, Migrating, At, Moved, Untouched
  <2> QED BY <2>1, <2>2
<1>5. ASSUME MigrateSingleInstance(p) PROVE Untouched(frame[p])'
  BY <1>1, <1>5 DEF MigrateSingleInstance, Migrating, At, GoTo, Reseal, Untouched, Refs
<1>6. ASSUME RemoveSingleInstance(p) PROVE Untouched(frame[p])'
  <2>1. Moved(p, "rename", frame[p].ref, frame[p].m, {r \in Creds : old[r] # None})
    BY <1>1, <1>6, BeginRenameFrame DEF RemoveSingleInstance
  <2> QED BY <1>1, <1>6, <2>1 DEF RemoveSingleInstance, Migrating, At, Moved, Untouched
<1>7. ASSUME RenameBlob(p) PROVE Untouched(frame[p])'
  <2>1. PICK ref \in frame[p].todo :
          /\ new' = [new EXCEPT ![ref] = old[ref]]
          /\ frame' = [frame EXCEPT ![p] = [@ EXCEPT !.pc = "remove", !.ref = ref]]
    BY <1>7 DEF RenameBlob
  <2>2. ref \in Refs /\ frame[p].todo \subseteq Refs
    BY <1>1, <2>1 DEF Frame, Refs
  <2>3. Moved(p, "remove", ref, frame[p].m, frame[p].todo)
    BY <1>1, <2>1, <2>2, RenameFrame
  <2> QED BY <1>1, <1>7, <2>1, <2>2, <2>3 DEF RenameBlob, Migrating, At, Moved, Untouched
<1>8. ASSUME RemoveBlob(p) PROVE Untouched(frame[p])'
  <2>1. Moved(p, "rename", frame[p].ref, frame[p].m, frame[p].todo \ {frame[p].ref})
    BY <1>1, <1>8, RemoveFrame DEF RemoveBlob
  <2> QED BY <1>1, <1>8, <2>1 DEF RemoveBlob, Migrating, At, Moved, Untouched
<1>9. ~EndMigration(p) /\ ~MigrationFails(p)
  BY <1>1 DEF EndMigration, MigrationFails, Return, InMigration
<1> QED BY <1>2, <1>3, <1>4, <1>5, <1>6, <1>7, <1>8, <1>9, Zenon

LEMMA StepKeepsRenaming ==
  ASSUME IInv, Renaming, NEW p \in Procs, Step(p) PROVE Renaming'
<1>0. /\ frame \in [Procs -> OrNone(Frame)] /\ frame' \in [Procs -> OrNone(Frame)]
      /\ \A q \in Procs \ {p} : frame'[q] = frame[q]
      /\ \A q \in Procs : frame'[q] # None => Shape(frame'[q])
  BY StepKeeps DEF Kept, Keeps, IInv, Types, Proc, Shape
<1> SUFFICES ASSUME NEW q \in Procs, InMigration(q)'
             PROVE  Untouched(frame[q])' /\ \A o \in Procs : Waits(o)'
  BY DEF Renaming
<1>1. CASE q # p
  <2>1. InMigration(q) /\ frame'[q] = frame[q]
    BY <1>0, <1>1 DEF InMigration
  <2>2. /\ \A r \in Creds : new[r] = None => new'[r] = None
        /\ Waits(p)'
    BY <1>1, <2>1, BesidesIsCalm
  <2>3. /\ Untouched(frame[q]) /\ \A o \in Procs : Waits(o)
        /\ frame[q].todo \subseteq Creds
    BY <2>1, <1>0 DEF Renaming, InMigration, Frame
  <2>4. Untouched(frame[q])'
    BY <2>1, <2>2, <2>3 DEF Untouched
  <2> QED BY <2>2, <2>3, <2>4, <1>0 DEF Waits
<1>2. CASE q = p /\ ~InMigration(p)
  <2>1. SetKEKProvider(p) /\ MigrationStarts /\ frame'[p] = Call("SetKEKProvider", "tier0", SI)
    BY <1>2, OnlySetKEKProviderBegins
  <2>2. UNCHANGED <<new, disk>> /\ disk[1] = None
    BY <2>1 DEF SetKEKProvider, MigrationStarts, diskVars
  <2>3. \A r \in Creds : new[r] = None
    BY <2>2 DEF IInv, Types, Files, Refs, TierOf, Blob
  <2>4. Untouched(frame[p])'
    BY <2>1, <2>2, <2>3 DEF Untouched, Call
  <2>5. \A o \in Procs \ {p} : Waits(o)
    BY <2>2, <1>0 DEF IInv, Proc, Knows, Waits, TierOf
  <2>6. Waits(p)'
    BY <2>1 DEF Waits, Call
  <2> QED BY <1>2, <2>4, <2>5, <2>6, <1>0 DEF Waits
<1>3. CASE q = p /\ InMigration(p)
  <2>1. \A o \in Procs : Waits(o)
    BY <1>3 DEF Renaming
  <2>2. Waits(p)'
    BY <1>0, <1>3 DEF Waits, InMigration, Shape
  <2>3. Untouched(frame[p])'
    BY <1>3, MigrationStepKeepsUntouched, <1>0 DEF Renaming, InMigration
  <2> QED BY <1>3, <2>1, <2>2, <2>3, <1>0 DEF Waits
<1> QED BY <1>1, <1>2, <1>3

LEMMA InitRenaming == Init => Renaming
BY DEF Init, Renaming, InMigration

LEMMA OtherStepsKeepRenaming ==
  ASSUME Renaming, Unlock \/ Restart \/ UNCHANGED vars PROVE Renaming'
<1>1. CASE Unlock
  BY <1>1 DEF Unlock, diskVars, Renaming, InMigration, Untouched, Waits
<1>2. CASE Restart
  BY <1>2 DEF Restart, Renaming, InMigration
<1>3. CASE UNCHANGED vars
  BY <1>3 DEF vars, diskVars, memVars, Renaming, InMigration, Untouched, Waits
<1> QED BY <1>1, <1>2, <1>3

\* The steps that write or remove a blob of a tier
LEMMA BlobSteps ==
  ASSUME NEW p, Step(p)
  PROVE  \/ UNCHANGED new \/ PutBlob(p) \/ Unlink(p) \/ Reseal0(p)
         \/ MigrateSingleInstance(p) \/ RenameBlob(p)
<1>1. SingleInstanceKey(p) \/ PutTier1(p) \/ GetTier1(p) \/ LockGetOrCreate(p) \/ GetBlob(p)
      \/ BlobFails(p) \/ DeleteTier0(p) \/ DeleteTier1(p) => UNCHANGED new
  BY DEF SingleInstanceKey, PutTier1, GetTier1, Start, LockGetOrCreate, GetBlob, BlobFails,
     DeleteTier0, DeleteTier1, Delete, diskVars
<1>2. UseCached(p) \/ LoadMaster(p) \/ GenerateMaster(p) \/ EnsureFails(p)
      \/ BeginTier0Migration(p) \/ Reseal0Fails(p) \/ EndTier0Migration(p) => UNCHANGED new
  BY DEF UseCached, LoadMaster, GenerateMaster, EnsureFails, BeginTier0Migration, Reseal0Fails,
     EndTier0Migration, diskVars
<1>3. SetKEKProviderTier0(p) \/ SetKEKProvider(p) \/ MigrateTier0Master(p)
      \/ MigrateTier1Master(p) \/ RemoveSingleInstance(p) \/ RemoveBlob(p) \/ EndMigration(p)
      \/ MigrationFails(p) \/ ServiceShutdown(p) => UNCHANGED new
  BY DEF SetKEKProviderTier0, SetKEKProvider, MigrateTier0Master, MigrateTier1Master,
     RemoveSingleInstance, RemoveBlob, EndMigration, MigrationFails, ServiceShutdown, diskVars
<1> QED BY <1>1, <1>2, <1>3, Zenon DEF Step

\* A step without a broadcast leaves every tier-1 blob as it is.
LEMMA SilentStepsKeepCreds ==
  ASSUME IInv, Renaming, NEW p \in Procs, ~Speaks(p), Step(p), NEW r \in Creds, new[r] # None
  PROVE  new'[r] = new[r]
<1>1. /\ new \in [Refs -> OrNone(Blob)] /\ r \in Refs /\ r # SI
      /\ frame[p] # None => Shape(frame[p])
  BY DEF IInv, Types, Proc, Refs
<1>2. ASSUME PutBlob(p) PROVE new'[r] = new[r]
  <2>1. frame[p].ref = SI
    BY <1>1, <1>2 DEF PutBlob, AtBlob, Puts, Creating, Speaks, At, Shape
  <2> QED BY <1>1, <1>2, <2>1 DEF PutBlob
<1>3. ASSUME Unlink(p) PROVE new'[r] = new[r]
  <2>1. frame[p].ref = SI
    BY <1>1, <1>3 DEF Unlink, Speaks, At, Shape
  <2> QED BY <1>1, <1>3, <2>1 DEF Unlink
<1>4. ASSUME Reseal0(p) \/ MigrateSingleInstance(p) PROVE new'[r] = new[r]
  BY <1>1, <1>4 DEF Reseal0, MigrateSingleInstance, Reseal
<1>5. ASSUME RenameBlob(p) PROVE new'[r] = new[r]
  <2>1. \A ref \in frame[p].todo : new[ref] = None
    BY <1>5 DEF RenameBlob, Migrating, At, Renaming, InMigration, Untouched
  <2> QED BY <1>1, <1>5, <2>1 DEF RenameBlob
<1> QED BY <1>2, <1>3, <1>4, <1>5, BlobSteps

-----------------------------------------------------------------------------
(* The store with its broadcasts                                            *)

LEMMA EventsStepIsStep == [EventsNext]_<<vars, eventVars>> => [Next]_vars
<1> SUFFICES ASSUME EventsNext, ~UNCHANGED vars PROVE Next
  OBVIOUS
<1>1. ASSUME NEW p \in Procs, PutTier1Writes(p) \/ DeleteTier1Removes(p) \/ ConsumerGets(p)
                              \/ BlobFailsSilently(p) \/ Silently(p)
      PROVE  Step(p)
  BY <1>1, Zenon DEF PutTier1Writes, DeleteTier1Removes, ConsumerGets, BlobFailsSilently,
     Silently, Step
<1>2. ~SetCore /\ \A p \in Procs : ~BroadcastTier1Change(p) /\ ~StatTier1(p)
  BY Zenon DEF SetCore, BroadcastTier1Change, StatTier1
<1>3. RestartAll => Restart
  BY DEF RestartAll
<1> QED BY <1>1, <1>2, <1>3, Zenon DEF EventsNext, Next

\* The variables of the bus and of its consumers only watch: a behaviour of the
\* store with its broadcasts is one of the store, step by step or a stutter, and
\* what is proved of the store holds there.
THEOREM EventsImplementKeys == EventsSpec => Spec
<1>1. EventsInit => Init
  BY DEF EventsInit
<1> QED BY <1>1, EventsStepIsStep, PTL DEF EventsSpec, Spec

\* Without a bus nobody listens and nobody keeps a copy.
Quiet == ~core => \A r \in Creds : plain[r] = None

EInv ==
  /\ IInv /\ Renaming
  /\ was \in [Procs -> {"unknown", "absent", "present"}]
  /\ event \in [Procs -> OrNone(Events)] /\ plain \in [Creds -> OrNone(Keys)]
  /\ Quiet /\ NoStaleCredential

LEMMA EventsKeepIInv ==
  ASSUME IInv, Renaming, [EventsNext]_<<vars, eventVars>> PROVE IInv' /\ Renaming'
<1>1. [Next]_vars
  BY EventsStepIsStep
<1>2. ASSUME NEW p \in Procs, Step(p) PROVE IInv' /\ Renaming'
  BY <1>2, StepKeeps, StepKeepsRenaming DEF Kept
<1>3. ASSUME Unlock \/ Restart \/ UNCHANGED vars PROVE IInv' /\ Renaming'
  BY <1>3, UnlockKeeps, RestartKeeps, StutterKeeps, OtherStepsKeepRenaming
<1> QED BY <1>1, <1>2, <1>3, Zenon DEF Next

LEMMA StalenessKeeps ==
  ASSUME EInv, UNCHANGED <<core, event, plain, raced>>,
         \A r \in Creds : new[r] # None => new'[r] = new[r]
  PROVE  Quiet' /\ NoStaleCredential'
BY DEF EInv, Quiet, NoStaleCredential

LEMMA EventsKeepEInv ==
  ASSUME EInv, [EventsNext]_<<vars, eventVars>> PROVE EInv'
<1>0. IInv /\ Renaming /\ Types /\ IInv' /\ Renaming'
  BY EventsKeepIInv DEF EInv, IInv
<1> DEFINE Typed == /\ was \in [Procs -> {"unknown", "absent", "present"}]
                   /\ event \in [Procs -> OrNone(Events)] /\ plain \in [Creds -> OrNone(Keys)]
<1> DEFINE Good == Typed /\ Quiet /\ NoStaleCredential
<1> SUFFICES Good'
  BY <1>0 DEF EInv
<1>1. ASSUME SetCore PROVE Good'
  BY <1>1 DEF EInv, SetCore, Quiet, NoStaleCredential, vars, diskVars
<1>2. ASSUME RestartAll PROVE Good'
  BY <1>2 DEF RestartAll, Quiet, NoStaleCredential
<1>3. ASSUME (Unlock /\ UNCHANGED eventVars) \/ UNCHANGED <<vars, eventVars>> PROVE Good'
  <2>1. UNCHANGED <<core, was, event, plain, raced, new>>
    BY <1>3 DEF Unlock, vars, diskVars, eventVars
  <2> QED BY <2>1, StalenessKeeps DEF EInv
<1>4. ASSUME NEW p \in Procs, StatTier1(p) PROVE Good'
  <2>1. UNCHANGED <<core, event, plain, raced, new>>
    BY <1>4 DEF StatTier1, vars, diskVars
  <2> QED BY <1>4, <2>1, StalenessKeeps DEF EInv, StatTier1
<1>5. ASSUME NEW p \in Procs, BlobFailsSilently(p) PROVE Good'
  <2>1. UNCHANGED <<core, event, plain, raced, new>>
    BY <1>5 DEF BlobFailsSilently, BlobFails, diskVars
  <2> QED BY <1>5, <2>1, StalenessKeeps DEF EInv, BlobFailsSilently
<1>6. ASSUME NEW p \in Procs, Silently(p) PROVE Good'
  <2>1. UNCHANGED <<core, was, event, plain, raced>> /\ ~Speaks(p) /\ Step(p)
    BY <1>6, Zenon DEF Silently, eventVars
  <2>2. \A r \in Creds : new[r] # None => new'[r] = new[r]
    BY <1>0, <2>1, SilentStepsKeepCreds
  <2> QED BY <2>1, <2>2, StalenessKeeps DEF EInv
<1>7. ASSUME NEW p \in Procs, event[p] = None, PutTier1Writes(p) PROVE Good'
  <2>1. frame[p].ref \in Creds /\ frame[p].ref \in Refs
    BY <1>0, <1>7 DEF PutTier1Writes, At, IInv, Proc, Shape, Refs
  <2>2. event' \in [Procs -> OrNone(Events)]
    BY <1>7, <2>1 DEF PutTier1Writes, EInv, Event, Events
  <2>3. NoStaleCredential'
    <3>1. SUFFICES ASSUME NEW r \in Creds, plain'[r] # None, r \notin raced',
                          \A q \in Procs : event'[q] # None => event'[q].ref # r
                   PROVE  new'[r] # None /\ new'[r].key = plain'[r]
      BY DEF NoStaleCredential
    <3>2. plain' = plain /\ \A q \in Procs \ {p} : event'[q] = event[q]
      BY <1>7 DEF PutTier1Writes, EInv
    <3>3. r # frame[p].ref
      <4>1. SUFFICES ASSUME r = frame[p].ref PROVE FALSE
        OBVIOUS
      <4>2. was[p] = "absent" /\ r \notin raced
        BY <1>7, <2>1, <3>1, <4>1 DEF PutTier1Writes, Replaces, EInv, Event, Events
      <4>3. new[r] = None
        BY <1>7, <3>1, <4>1, <4>2 DEF PutTier1Writes, HasTier1
      <4> QED BY <1>7, <3>1, <3>2, <4>2, <4>3 DEF EInv, NoStaleCredential
    <3>4. new'[r] = new[r] /\ r \notin raced
      BY <1>0, <1>7, <2>1, <3>1, <3>3 DEF PutTier1Writes, PutBlob, Types, Refs
    <3> QED BY <1>7, <3>1, <3>2, <3>4 DEF EInv, NoStaleCredential
  <2> QED BY <1>7, <2>2, <2>3 DEF PutTier1Writes, EInv, Quiet
<1>8. ASSUME NEW p \in Procs, event[p] = None, DeleteTier1Removes(p) PROVE Good'
  <2>1. frame[p].ref \in Creds /\ frame[p].ref \in Refs
    BY <1>0, <1>8 DEF DeleteTier1Removes, At, IInv, Proc, Shape, Refs
  <2>2. event' \in [Procs -> OrNone(Events)]
    BY <1>8, <2>1 DEF DeleteTier1Removes, EInv, Event, Events
  <2>3. NoStaleCredential'
    <3>1. SUFFICES ASSUME NEW r \in Creds, plain'[r] # None, r \notin raced',
                          \A q \in Procs : event'[q] # None => event'[q].ref # r
                   PROVE  new'[r] # None /\ new'[r].key = plain'[r]
      BY DEF NoStaleCredential
    <3>2. /\ plain' = plain /\ raced' = raced
          /\ \A q \in Procs \ {p} : event'[q] = event[q]
      BY <1>8 DEF DeleteTier1Removes, EInv
    <3>3. new'[r] = new[r]
      <4>1. CASE r = frame[p].ref
        BY <1>8, <2>1, <3>1, <4>1 DEF DeleteTier1Removes, EInv, Event, Events
      <4>2. CASE r # frame[p].ref
        BY <1>0, <1>8, <2>1, <4>2 DEF DeleteTier1Removes, Unlink, Types, Refs
      <4> QED BY <4>1, <4>2
    <3> QED BY <1>8, <3>1, <3>2, <3>3 DEF EInv, NoStaleCredential
  <2> QED BY <1>8, <2>2, <2>3 DEF DeleteTier1Removes, EInv, Quiet
<1>9. ASSUME NEW p \in Procs, BroadcastTier1Change(p) PROVE Good'
  <2>1. UNCHANGED new /\ event[p] \in Events
    BY <1>9 DEF BroadcastTier1Change, vars, diskVars, EInv
  <2> QED BY <1>9, <2>1 DEF BroadcastTier1Change, EInv, Quiet, NoStaleCredential, Events
<1>10. ASSUME NEW p \in Procs, ConsumerGets(p) PROVE Good'
  <2>1. frame[p].ref \in Creds /\ frame[p].ref \in Refs
    BY <1>0, <1>10 DEF ConsumerGets, At, IInv, Proc, Shape, Refs
  <2>2. UNCHANGED <<new, core, event, raced>> /\ new[frame[p].ref] \in Blob
    BY <1>0, <1>10, <2>1 DEF ConsumerGets, GetBlob, Opens, diskVars, Types
  <2> QED BY <1>10, <2>1, <2>2 DEF ConsumerGets, EInv, Quiet, NoStaleCredential, Blob
<1> HIDE DEF Good
<1> QED
  BY <1>1, <1>2, <1>3, <1>4, <1>5, <1>6, <1>7, <1>8, <1>9, <1>10, Zenon DEF EventsNext

\* broadcastTier1Change: a consumer that reads a credential with GetTier1 and drops
\* it at the next broadcast never keeps one that PutTier1 replaced or DeleteTier1
\* removed, in whatever order calls and broadcasts come, but for a reference that a
\* put replaced after it had seen no blob there, which it does not announce.
THEOREM NoStaleCredentialEver == EventsSpec => []NoStaleCredential
<1>1. EventsInit => EInv
  BY InitInv, InitRenaming DEF EventsInit, EInv, Quiet, NoStaleCredential
<1>2. EInv /\ [EventsNext]_<<vars, eventVars>> => EInv'
  BY EventsKeepEInv
<1>3. EInv => NoStaleCredential
  BY DEF EInv
<1> QED BY <1>1, <1>2, <1>3, PTL DEF EventsSpec
=============================================================================
