---------------------------- MODULE KeysMasters ----------------------------
(***************************************************************************)
(* The masters of the key store (keys/service.go): how a tier's master is  *)
(* loaded, generated or migrated from the layout before the two tiers, and *)
(* what becomes of the blobs sealed under it.                              *)
(*                                                                         *)
(* Loading and migrating run under s.mu, so within the process they        *)
(* exclude each other; but they write several files one by one, and an     *)
(* error or a stop in between leaves the disk half way.  Blobs are read    *)
(* and written outside s.mu, with a master resolved earlier.               *)
(*                                                                         *)
(* A master and a plaintext are numbers; a blob is the master it is sealed *)
(* under and its plaintext; opening it needs that master.  The KEK of a    *)
(* tier is fixed: only whether its provider gives it varies.  The          *)
(* reference SI, "single-instance", is the one of tier 0; all the others   *)
(* are credentials of tier 1.  A write replaces its file as a whole.       *)
(***************************************************************************)
EXTENDS Integers

CONSTANTS
  Procs,              \* goroutines
  SI, Creds,          \* the single-instance reference; the tier-1 references
  Secrets,            \* the plaintexts that PutTier1 may be given
  Installs,           \* what may be found: "fresh", or a "raw" or "wrapped" .master
  Calls,              \* the methods this instance may call
  Tier0AtBoot,        \* the host wires tier 0 before anything else runs
  MayFail,            \* whether a file operation can fail
  MayCrash,           \* whether the program can stop inside a call
  MaxMasters, MaxKeys,   \* bounds: masters and plaintexts ever generated
  None

VARIABLES
  master,      \* .master: the legacy master, raw or wrapped under the tier-1 KEK
  disk,        \* .master-tier0 and .master-tier1, by tier
  old, new,    \* the ref.aead and the ref.tN.aead of each reference
  cache,       \* s.tier0Master and s.tier1Master, by tier
  wired,       \* whether each tier has a provider
  unlocked,    \* whether the tier-1 provider gives its KEK
  complete,    \* s.migrationComplete
  mu, goMu,    \* the holders of s.mu and s.getOrCreateMu
  frame,       \* the call of each process
  masters, keys,      \* how many masters and plaintexts were generated
  returned,    \* history: the keys SingleInstanceKey has returned
  legacy       \* history: the references with a ref.aead at the start, not deleted since

diskVars == <<master, disk, old, new>>
memVars == <<cache, wired, unlocked, complete, mu, goMu>>
vars == <<diskVars, memVars, frame, masters, keys, returned, legacy>>

Tiers == {0, 1}
Refs == Creds \cup {SI}
Masters == 1..MaxMasters
Keys == 1..MaxKeys
TierOf(ref) == IF ref = SI THEN 0 ELSE 1
Methods == {"SingleInstanceKey", "PutTier1", "GetTier1", "DeleteTier0", "DeleteTier1",
            "SetKEKProvider", "SetKEKProviderTier0", "Unlock", "ServiceShutdown"}

OrNone(S) == S \cup {None}

Blob == [seal : Masters, key : Keys]
Sealed(m, k) == [seal |-> m, key |-> k]
Legacy == [form : {"raw", "wrapped"}, m : {1}]

\* A call: pc is the next thing the method does; m the master it has resolved,
\* stage how far GetOrCreate is, key what it will store, todo the files to rename
Migrations == {"reseal", "remove", "unseal", "rename", "tier0", "tier1"}
Frame == [method : Methods, pc : {"ensure", "blob", "lock", "unlink"} \cup Migrations,
          ref : Refs, m : OrNone(Masters), stage : {"fast", "slow", "put"},
          key : Keys, todo : SUBSET Creds]

ASSUME KeysAssumption ==
  /\ Installs \subseteq {"fresh", "raw", "wrapped"} /\ Calls \subseteq Methods
  /\ SI \notin Creds
  /\ {Tier0AtBoot, MayFail, MayCrash} \subseteq BOOLEAN
  /\ MaxMasters \in Nat \ {0} /\ MaxKeys \in Nat \ {0, 1}
  /\ Secrets \subseteq Keys
  /\ None \notin Masters /\ None \notin Keys /\ None \notin Procs
  /\ None \notin Blob /\ None \notin Legacy /\ None \notin Frame

\* The legacy install: master 1 seals every blob, key 1 is the single-instance
\* key, key 2 stands for any stored credential.
Init ==
  /\ \E install \in Installs :
       /\ master = (IF install = "fresh" THEN None ELSE [form |-> install, m |-> 1])
       /\ legacy \in IF install = "fresh" THEN {{}} ELSE SUBSET Refs
  /\ disk = [t \in Tiers |-> None]
  /\ old = [r \in Refs |-> IF r \in legacy THEN Sealed(1, IF r = SI THEN 1 ELSE 2)
                                           ELSE None]
  /\ new = [r \in Refs |-> None]
  /\ cache = [t \in Tiers |-> None]
  /\ wired = [t \in Tiers |-> t = 0 /\ Tier0AtBoot] /\ unlocked = FALSE
  /\ complete = FALSE /\ mu = None /\ goMu = None
  /\ frame = [p \in Procs |-> None]
  /\ masters = 1 /\ keys = 2 /\ returned = {}

KEK(t) == wired[t] /\ (t = 1 => unlocked)

Call(method, pc, ref) ==
  [method |-> method, pc |-> pc, ref |-> ref, m |-> None, stage |-> "fast",
   key |-> 2, todo |-> {}]

Called(p, method) == frame[p] = None /\ method \in Calls
At(p, method, pc) == frame[p] # None /\ frame[p].method = method /\ frame[p].pc = pc
GoTo(p, pc) == frame' = [frame EXCEPT ![p].pc = pc]
Return(p) == frame' = [frame EXCEPT ![p] = None]

-----------------------------------------------------------------------------
(* Get and Put of a blob, and GetOrCreate around them                       *)

Start(p, method, ref, key) ==
  /\ Called(p, method)
  /\ frame' = [frame EXCEPT ![p] = [Call(method, "ensure", ref) EXCEPT !.key = key]]
  /\ UNCHANGED <<diskVars, memVars, masters, keys, returned, legacy>>

SingleInstanceKey(p) == Start(p, "SingleInstanceKey", SI, 2)
PutTier1(p) == \E ref \in Creds, secret \in Secrets : Start(p, "PutTier1", ref, secret)
GetTier1(p) == \E ref \in Creds : Start(p, "GetTier1", ref, 2)

Creating(p, stage) == frame[p].method = "SingleInstanceKey" /\ frame[p].stage = stage
Puts(p) == frame[p].method = "PutTier1" \/ Creating(p, "put")
\* Release with a mistake: getOrCreateMu is not released on the way out
NoRelease == UNCHANGED goMu
Release == goMu' = (IF \E p \in Procs : goMu = p /\ frame'[p] = None THEN None ELSE goMu)

\* The get or put in progress has failed.  GetOrCreate does not ask why: after
\* the first get it takes its lock, after the second it generates a key.
FallBack(p) ==
  \/ Creating(p, "fast") /\ GoTo(p, "lock") /\ UNCHANGED <<goMu, keys>>
  \/ /\ Creating(p, "slow") /\ keys < MaxKeys
     /\ keys' = keys + 1
     /\ frame' = [frame EXCEPT ![p] = [@ EXCEPT !.stage = "put", !.pc = "ensure", !.key = keys + 1]]
     /\ UNCHANGED goMu
  \/ /\ ~Creating(p, "fast") /\ ~Creating(p, "slow")
     /\ Return(p) /\ Release /\ UNCHANGED keys

\* LockGetOrCreate with a mistake: no second get under the lock
LockAndGenerate(p) ==
  /\ At(p, "SingleInstanceKey", "lock") /\ goMu = None /\ keys < MaxKeys
  /\ goMu' = p /\ keys' = keys + 1
  /\ frame' = [frame EXCEPT ![p] = [@ EXCEPT !.stage = "put", !.pc = "ensure", !.key = keys + 1]]
  /\ UNCHANGED <<diskVars, cache, wired, unlocked, complete, mu, masters, returned, legacy>>

LockGetOrCreate(p) ==
  /\ At(p, "SingleInstanceKey", "lock") /\ goMu = None
  /\ goMu' = p
  /\ frame' = [frame EXCEPT ![p] = [@ EXCEPT !.stage = "slow", !.pc = "ensure"]]
  /\ UNCHANGED <<diskVars, cache, wired, unlocked, complete, mu, masters, keys, returned, legacy>>

AtBlob(p) == frame[p] # None /\ frame[p].pc = "blob"
Opens(ref, m) == new[ref] # None /\ new[ref].seal = m

Got(p, key) == returned' = (IF frame[p].ref = SI THEN returned \cup {key} ELSE returned)

GetBlob(p) ==
  /\ AtBlob(p) /\ ~Puts(p) /\ Opens(frame[p].ref, frame[p].m)
  /\ Got(p, new[frame[p].ref].key)
  /\ Return(p) /\ Release
  /\ UNCHANGED <<diskVars, cache, wired, unlocked, complete, mu, masters, keys, legacy>>

PutBlob(p) ==
  /\ AtBlob(p) /\ Puts(p)
  /\ new' = [new EXCEPT ![frame[p].ref] = Sealed(frame[p].m, frame[p].key)]
  /\ Got(p, frame[p].key)
  /\ Return(p) /\ Release
  /\ UNCHANGED <<master, disk, old, cache, wired, unlocked, complete, mu, masters, keys, legacy>>

BlobFails(p) ==
  /\ AtBlob(p)
  /\ \/ MayFail
     \/ ~Puts(p) /\ ~Opens(frame[p].ref, frame[p].m)
  /\ FallBack(p)
  /\ UNCHANGED <<diskVars, cache, wired, unlocked, complete, mu, masters, returned, legacy>>

\* DeleteTier0 and DeleteTier1 look for the file of the tier, then remove it,
\* with no lock and no master.  A ref.aead still to be migrated is not looked at.
Delete(p, method, ref) ==
  /\ Called(p, method) /\ new[ref] # None
  /\ frame' = [frame EXCEPT ![p] = Call(method, "unlink", ref)]
  /\ UNCHANGED <<diskVars, memVars, masters, keys, returned, legacy>>

DeleteTier0(p) == Delete(p, "DeleteTier0", SI)
DeleteTier1(p) == \E ref \in Creds : Delete(p, "DeleteTier1", ref)

Unlink(p) ==
  /\ frame[p] # None /\ frame[p].pc = "unlink"
  /\ \/ /\ new' = [new EXCEPT ![frame[p].ref] = None]
        /\ legacy' = legacy \ {frame[p].ref}
     \/ MayFail /\ UNCHANGED <<new, legacy>>
  /\ Return(p)
  /\ UNCHANGED <<master, disk, old, memVars, masters, keys, returned>>

-----------------------------------------------------------------------------
(* ensureMaster, for the tier of the reference in hand.  Its steps run under *)
(* s.mu; where they write one file only they are one step here.             *)

Ensuring(p) == frame[p] # None /\ frame[p].pc = "ensure" /\ mu = None
T(p) == TierOf(frame[p].ref)
Resolved(p, m) == frame' = [frame EXCEPT ![p] = [@ EXCEPT !.pc = "blob", !.m = m]]
Fresh == masters + 1
CanGenerate == masters < MaxMasters

\* writeMasterLocked: the master of a tier, wrapped under its KEK
WriteMaster(t, m) == disk' = [disk EXCEPT ![t] = m]

UseCached(p) ==
  /\ Ensuring(p) /\ cache[T(p)] # None
  /\ Resolved(p, cache[T(p)])
  /\ UNCHANGED <<diskVars, memVars, masters, keys, returned, legacy>>

LoadMaster(p) ==
  /\ Ensuring(p) /\ cache[T(p)] = None /\ disk[T(p)] # None /\ KEK(T(p))
  /\ cache' = [cache EXCEPT ![T(p)] = disk[T(p)]]
  /\ Resolved(p, disk[T(p)])
  /\ UNCHANGED <<diskVars, wired, unlocked, complete, mu, goMu, masters, keys, returned, legacy>>

\* Only tier 0 looks at .master before it generates a master
Generates(t) == disk[t] = None /\ (t = 0 => master = None)

GenerateMaster(p) ==
  /\ Ensuring(p) /\ cache[T(p)] = None /\ Generates(T(p)) /\ KEK(T(p)) /\ CanGenerate
  /\ WriteMaster(T(p), Fresh)
  /\ cache' = [cache EXCEPT ![T(p)] = Fresh]
  /\ masters' = Fresh
  /\ Resolved(p, Fresh)
  /\ UNCHANGED <<master, old, new, wired, unlocked, complete, mu, goMu, keys, returned, legacy>>

Unresolvable(t) ==
  ~KEK(t) \/ (t = 0 /\ disk[0] = None /\ master # None /\ master.form = "wrapped")

\* EnsureFails with a mistake: the master whose write failed stays in the cache
EnsureFailsButCaches(p) ==
  /\ Ensuring(p) /\ cache[T(p)] = None
  /\ MayFail \/ Unresolvable(T(p))
  /\ FallBack(p)
  /\ cache' = IF Generates(T(p)) /\ KEK(T(p)) /\ CanGenerate
              THEN [cache EXCEPT ![T(p)] = Fresh] ELSE cache
  /\ UNCHANGED <<diskVars, wired, unlocked, complete, mu, masters, returned, legacy>>

EnsureFails(p) ==
  /\ Ensuring(p) /\ cache[T(p)] = None
  /\ MayFail \/ Unresolvable(T(p))
  /\ FallBack(p)
  /\ UNCHANGED <<diskVars, cache, wired, unlocked, complete, mu, masters, returned, legacy>>

-----------------------------------------------------------------------------
(* Step 0b, inside ensureMaster: tier 0 leaves a raw legacy install.  The   *)
(* master is written first and cached last.                                 *)

Reseal(p, m) == new' = [new EXCEPT ![SI] = Sealed(m, old[SI].key)]
RemoveOld(ref) ==
  \/ old' = [old EXCEPT ![ref] = None]
  \/ MayFail /\ UNCHANGED old      \* only warned about

BeginTier0Migration(p) ==
  /\ Ensuring(p) /\ T(p) = 0 /\ cache[0] = None /\ disk[0] = None
  /\ master # None /\ master.form = "raw" /\ KEK(0) /\ CanGenerate
  /\ WriteMaster(0, Fresh) /\ masters' = Fresh
  /\ IF old[SI] = None
     THEN cache' = [cache EXCEPT ![0] = Fresh] /\ Resolved(p, Fresh) /\ UNCHANGED mu
     ELSE mu' = p /\ GoTo(p, "reseal") /\ UNCHANGED cache
  /\ UNCHANGED <<master, old, new, wired, unlocked, complete, goMu, keys, returned, legacy>>

Migrating0(p, pc) == At(p, "SingleInstanceKey", pc) /\ mu = p

Reseal0(p) ==
  /\ Migrating0(p, "reseal") /\ old[SI].seal = master.m
  /\ Reseal(p, disk[0]) /\ GoTo(p, "remove")
  /\ UNCHANGED <<master, disk, old, memVars, masters, keys, returned, legacy>>

Reseal0Fails(p) ==
  /\ Migrating0(p, "reseal") /\ MayFail
  /\ FallBack(p) /\ mu' = None
  /\ UNCHANGED <<diskVars, cache, wired, unlocked, complete, masters, returned, legacy>>

\* EndTier0Migration with a mistake: .master is removed before step 3 needs it
EndTier0MigrationAndMaster(p) ==
  /\ Migrating0(p, "remove")
  /\ RemoveOld(SI) /\ master' = None
  /\ cache' = [cache EXCEPT ![0] = disk[0]] /\ mu' = None
  /\ Resolved(p, disk[0])
  /\ UNCHANGED <<disk, new, wired, unlocked, complete, goMu, masters, keys, returned, legacy>>

EndTier0Migration(p) ==
  /\ Migrating0(p, "remove")
  /\ RemoveOld(SI)
  /\ cache' = [cache EXCEPT ![0] = disk[0]] /\ mu' = None
  /\ Resolved(p, disk[0])
  /\ UNCHANGED <<master, disk, new, wired, unlocked, complete, goMu, masters, keys, returned, legacy>>

-----------------------------------------------------------------------------
(* The providers.  The first non-nil tier-1 provider also starts the        *)
(* migration, under the same hold of s.mu.                                  *)

SetKEKProviderTier0(p) ==
  /\ Called(p, "SetKEKProviderTier0") /\ mu = None
  /\ \E on \in BOOLEAN : wired' = [wired EXCEPT ![0] = on]
  /\ cache' = [cache EXCEPT ![0] = None]
  /\ UNCHANGED <<diskVars, unlocked, complete, mu, goMu, frame, masters, keys, returned, legacy>>

\* Steps 2 to 3b.5: the legacy master is there and the tier-1 one is not, the
\* tier-1 KEK is given, and the tier-0 KEK too when there is a key to re-seal
MigrationStarts == master # None /\ disk[1] = None /\ unlocked /\ (old[SI] # None => KEK(0))

\* SetKEKProvider with a mistake: a migration that cannot start yet is latched
SetKEKProviderLatching(p) ==
  /\ Called(p, "SetKEKProvider") /\ mu = None
  /\ cache' = [cache EXCEPT ![1] = None]
  /\ \E on \in BOOLEAN :
       /\ wired' = [wired EXCEPT ![1] = on]
       /\ complete' = (complete \/ (on /\ ~MigrationStarts))
       /\ IF on /\ ~complete /\ MigrationStarts
          THEN mu' = p /\ frame' = [frame EXCEPT ![p] = Call("SetKEKProvider", "tier0", SI)]
          ELSE UNCHANGED <<mu, frame>>
  /\ UNCHANGED <<diskVars, unlocked, goMu, masters, keys, returned, legacy>>

SetKEKProvider(p) ==
  /\ Called(p, "SetKEKProvider") /\ mu = None
  /\ cache' = [cache EXCEPT ![1] = None]
  /\ \E on \in BOOLEAN :
       /\ wired' = [wired EXCEPT ![1] = on]
       /\ \/ /\ on /\ ~complete /\ MigrationStarts
             /\ mu' = p /\ frame' = [frame EXCEPT ![p] = Call("SetKEKProvider", "tier0", SI)]
             /\ UNCHANGED complete
          \/ /\ ~on \/ complete \/ ~MigrationStarts \/ MayFail
             /\ complete' = (complete \/ (on /\ master = None))
             /\ UNCHANGED <<mu, frame>>
  /\ UNCHANGED <<diskVars, unlocked, goMu, masters, keys, returned, legacy>>

Migrating(p, pc) == At(p, "SetKEKProvider", pc)

\* 3c
MigrateTier0Master(p) ==
  /\ Migrating(p, "tier0") /\ GoTo(p, "tier1")
  /\ \/ /\ KEK(0) /\ disk[0] = None /\ CanGenerate
        /\ WriteMaster(0, Fresh) /\ cache' = [cache EXCEPT ![0] = Fresh]
        /\ masters' = Fresh
     \/ /\ KEK(0) /\ disk[0] # None /\ cache[0] = None
        /\ cache' = [cache EXCEPT ![0] = disk[0]] /\ UNCHANGED <<disk, masters>>
     \/ /\ ~KEK(0) \/ (disk[0] # None /\ cache[0] # None)
        /\ UNCHANGED <<disk, cache, masters>>
  /\ UNCHANGED <<master, old, new, wired, unlocked, complete, mu, goMu, keys, returned, legacy>>

BeginRename(p) ==
  frame' = [frame EXCEPT ![p] =
              [@ EXCEPT !.pc = "rename", !.todo = {r \in Creds : old[r] # None}]]

\* 3d
MigrateTier1Master(p) ==
  /\ Migrating(p, "tier1")
  /\ WriteMaster(1, master.m) /\ cache' = [cache EXCEPT ![1] = master.m]
  /\ IF old[SI] # None THEN GoTo(p, "reseal") ELSE BeginRename(p)
  /\ UNCHANGED <<master, old, new, wired, unlocked, complete, mu, goMu, masters, keys, returned, legacy>>

\* 3e
MigrateSingleInstance(p) ==
  /\ Migrating(p, "reseal") /\ old[SI].seal = master.m /\ cache[0] # None
  /\ Reseal(p, cache[0]) /\ GoTo(p, "unseal")
  /\ UNCHANGED <<master, disk, old, memVars, masters, keys, returned, legacy>>

RemoveSingleInstance(p) ==
  /\ Migrating(p, "unseal")
  /\ RemoveOld(SI) /\ BeginRename(p)
  /\ UNCHANGED <<master, disk, new, memVars, masters, keys, returned, legacy>>

\* 3f, one reference after another
RenameBlob(p) ==
  /\ Migrating(p, "rename")
  /\ \E ref \in frame[p].todo :
       /\ new' = [new EXCEPT ![ref] = old[ref]]
       /\ frame' = [frame EXCEPT ![p] = [@ EXCEPT !.pc = "remove", !.ref = ref]]
  /\ UNCHANGED <<master, disk, old, memVars, masters, keys, returned, legacy>>

RemoveBlob(p) ==
  /\ Migrating(p, "remove")
  /\ RemoveOld(frame[p].ref)
  /\ frame' = [frame EXCEPT ![p] =
                  [@ EXCEPT !.pc = "rename", !.todo = frame[p].todo \ {frame[p].ref}]]
  /\ UNCHANGED <<master, disk, new, memVars, masters, keys, returned, legacy>>

\* 3g and 3h: the latch is set whether or not .master could be removed
EndMigration(p) ==
  /\ Migrating(p, "rename") /\ frame[p].todo = {}
  /\ master' = None \/ (MayFail /\ UNCHANGED master)
  /\ complete' = TRUE /\ mu' = None /\ Return(p)
  /\ UNCHANGED <<disk, old, new, cache, wired, unlocked, goMu, masters, keys, returned, legacy>>

\* Any other error ends the migration where it is, and so does a tier-0 master
\* that is missing in 3e, which 3b.5 is there to rule out
MigrationFails(p) ==
  /\ \E pc \in {"tier0", "tier1", "reseal", "rename"} :
       Migrating(p, pc) /\ (MayFail \/ (pc = "reseal" /\ cache[0] = None))
  /\ mu' = None /\ Return(p)
  /\ UNCHANGED <<diskVars, cache, wired, unlocked, complete, goMu, masters, keys, returned, legacy>>

-----------------------------------------------------------------------------
\* The account is unlocked or locked again: the provider notices by itself
Unlock ==
  /\ "Unlock" \in Calls /\ unlocked' = ~unlocked
  /\ UNCHANGED <<diskVars, cache, wired, complete, mu, goMu, frame, masters, keys, returned, legacy>>

ServiceShutdown(p) ==
  /\ Called(p, "ServiceShutdown") /\ mu = None
  /\ cache' = [t \in Tiers |-> None]
  /\ UNCHANGED <<diskVars, wired, unlocked, complete, mu, goMu, frame, masters, keys, returned, legacy>>

\* The program ends, between calls or in one, and a new process starts: New
\* gives a Service with no master and no provider
Restart ==
  /\ MayCrash \/ \A p \in Procs : frame[p] = None
  /\ cache' = [t \in Tiers |-> None]
  /\ wired' = [t \in Tiers |-> t = 0 /\ Tier0AtBoot] /\ unlocked' = FALSE
  /\ complete' = FALSE /\ mu' = None /\ goMu' = None
  /\ frame' = [p \in Procs |-> None]
  /\ UNCHANGED <<diskVars, masters, keys, returned, legacy>>

Step(p) ==
  \/ SingleInstanceKey(p) \/ PutTier1(p) \/ GetTier1(p) \/ LockGetOrCreate(p)
  \/ GetBlob(p) \/ PutBlob(p) \/ BlobFails(p)
  \/ DeleteTier0(p) \/ DeleteTier1(p) \/ Unlink(p)
  \/ UseCached(p) \/ LoadMaster(p) \/ GenerateMaster(p) \/ EnsureFails(p)
  \/ BeginTier0Migration(p) \/ Reseal0(p) \/ Reseal0Fails(p) \/ EndTier0Migration(p)
  \/ SetKEKProviderTier0(p) \/ SetKEKProvider(p) \/ MigrateTier0Master(p)
  \/ MigrateTier1Master(p) \/ MigrateSingleInstance(p) \/ RemoveSingleInstance(p)
  \/ RenameBlob(p) \/ RemoveBlob(p) \/ EndMigration(p) \/ MigrationFails(p)
  \/ ServiceShutdown(p)

Next == Unlock \/ Restart \/ \E p \in Procs : Step(p)
Spec == Init /\ [][Next]_vars

-----------------------------------------------------------------------------
\* The types, and who may hold which lock: a process inside a migration, and
\* no other, holds s.mu; a process past GetOrCreate's lock holds getOrCreateMu.
TypeOK ==
  /\ master \in OrNone(Legacy)
  /\ disk \in [Tiers -> OrNone(Masters)] /\ cache \in [Tiers -> OrNone(Masters)]
  /\ old \in [Refs -> OrNone(Blob)] /\ new \in [Refs -> OrNone(Blob)]
  /\ wired \in [Tiers -> BOOLEAN] /\ unlocked \in BOOLEAN /\ complete \in BOOLEAN
  /\ mu \in OrNone(Procs) /\ goMu \in OrNone(Procs)
  /\ masters \in Masters /\ keys \in 2..MaxKeys /\ returned \subseteq Keys
  /\ frame \in [Procs -> OrNone(Frame)]
  /\ \A p \in Procs : frame[p] # None =>
       /\ mu = p <=> frame[p].pc \in Migrations
       /\ goMu = p <=> Creating(p, "slow") \/ Creating(p, "put")
  /\ \A lock \in {mu, goMu} \ {None} : frame[lock] # None

\* What is in memory opens what is on disk, at every moment, through failed
\* writes, crashes and migrations: a cached or resolved master is the one of
\* its tier's file, and every blob of a tier is sealed under that one.  (A
\* master that is replaced makes every blob of its tier unreadable for ever.)
MastersOpenBlobs ==
  /\ \A t \in Tiers : cache[t] \in {None, disk[t]}
  /\ \A r \in Refs : new[r] # None => new[r].seal = disk[TierOf(r)]
  /\ \A p \in Procs : frame[p] # None => frame[p].m \in {None, disk[T(p)]}

\* Nothing that was stored in the legacy layout and has not been deleted is
\* lost at any point of the migrations: it is in ref.aead with a master on disk
\* that opens it, or in the file of its tier.
LegacyIsKept ==
  \A r \in legacy :
    \/ new[r] # None
    \/ /\ old[r] # None
       /\ old[r].seal = disk[1] \/ (master # None /\ old[r].seal = master.m)

\* Once the migration is latched complete, by whichever branch, every
\* reference of the legacy layout can be reached through the tiers.
CompleteMeansReachable ==
  complete => \A r \in legacy : new[r] # None

\* SingleInstanceKey: "the key is stable across restarts" (service.go:1768-1769).
\* All its calls, in this process and the next, return one key, and after an
\* upgrade that is the key of the legacy install.
SIKeyIsStable ==
  /\ \A a, b \in returned : a = b
  /\ SI \in legacy => returned \subseteq {1}

\* "any error logs a core.Warn and leaves migrationComplete=false so the next
\* SetKEKProvider retries.  Tier-1 reads will fail-closed via ensureTier1Locked
\* until migration succeeds" (service.go:910-913): a migration that has not
\* completed does not find a tier-1 master in its way.
UnfinishedIsRetried ==
  ~complete /\ mu = None /\ master # None => disk[1] = None
=============================================================================
