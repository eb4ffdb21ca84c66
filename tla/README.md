# A TLA+ model of go-crypt

go-crypt (`src/go`) is a Go library: an authenticator with accounts, challenges
and sessions (`auth`), an encrypted key store in two tiers with a migration from
an older layout (`keys`), a trust service with an agent registry, a policy
engine, an approval queue and an audit log (`trust`), and wrappers of
cryptographic primitives (`crypt`, `internal/corecompat`, `cmd`). This directory
models its stateful parts in TLA+, checks them on small instances with TLC, and
proves every safety property that holds for all instances with TLAPS.

Below: `A` is `src/go/auth/auth.go`, `K` is `src/go/keys/service.go`.

## Inventory

| Part | State | Operations | What is hard about it |
|---|---|---|---|
| Session stores (`auth/session_store*.go`) | a map in memory, or rows in SQLite | Get, Set, Delete, DeleteByUser, Cleanup | the SQLite loops delete row by row; errors and crashes in the middle |
| Session life cycle (`A`) | none of its own: it reads and writes the store | createSession, ValidateSession, RefreshSession, RevokeSession, StartCleanup | Get and then Delete or Set, with no lock around the two |
| Accounts, challenges, logins (`A`) | six files per user; a map of pending challenges in memory | Register, CreateChallenge, ValidateResponse, Login, RotateKeyPair, RevokeKey, DeleteUser, and the challenge and response files | only the challenges map is locked; files are written one by one; checks go stale |
| Masters and migrations (`K`) | `.master*` and `*.aead` files; cached masters; providers; the latch `migrationComplete` | Put, Get, GetOrCreate, Delete per tier, SetKEKProvider and SetKEKProviderTier0, ServiceShutdown, SingleInstanceKey | two migrations of several file operations; crashes and failed writes; the order in which the host wires the tiers |
| Lock order (`K`) | `mu`, `kekProviderMu`, `getOrCreateMu` | every method | locks taken under locks |
| Tier-1 events (`K`) | the caches of the subscribers | the broadcasts of PutTier1 and DeleteTier1 | a stat before the write, the broadcast after it, no lock |
| Trust (`trust/*.go`) | agents, policies, requests, entries; one lock each except for the policies | Register, Remove, Evaluate, ApplyPolicies, Submit, Approve, Deny, Pending | evaluations use an agent and a policy read at different times; two reviewers of one request |
| Service (`trust/service.go`) | holds the parts above | the `auth.*`, `trust.*`, `crypt.*` actions | passes options on; stateless |
| Primitives (`crypt/*`, `internal/corecompat`) | none | hashes, encryption, OpenPGP, RSA, base64 | parsing, padding and lengths at the boundaries: a string that nobody encoded must not pass for one that somebody did |
| References and files (`K`) | the names in the key directory | keyPath, listing, the renaming of the migration | a name is all that tells a legacy blob from a migrated one, or a key from a master |
| Commands (`cmd/*`) | none | `crypt`: flags in, one primitive, text out; `testcmd`: runs `go test` and reads what it prints | a coverage line that says not whose it is; a test run that is killed |

How they interact: the Authenticator calls a SessionStore, which has a lock of
its own, and an `io.Medium` for the files. The service gives each caller's
goroutine straight to the Authenticator and to the trust parts. The key store
calls back into the host for a KEK (`KEKProvider`) and broadcasts tier-1 changes
on the host's bus. Nothing in `auth` calls `keys` or `trust`.

What makes each part correct, in one line each:

- a session store's methods look atomic, and a reported success means a complete one;
- a session that is gone stays gone, and none outlives one TTL from its last refresh;
- the files of an account agree with each other, a nonce is used once, and replaced or revoked credentials stay useless;
- a master on disk or in memory opens every blob of its tier, and no migration loses a legacy blob;
- once a put or a deletion has returned, no consumer of the broadcasts keeps a credential that it replaced;
- an agent that has scopes is never allowed a repository outside of them, a rejected policy file has no effect, and the first verdict on a request stands;
- what was encoded decodes to itself, nothing else decodes, and a summary says of each package what that package printed.

PROJECT.json lists the hazards of the code line by line, each with the
properties that cover it or the reason why none does.

## Modules

| Module | Models | Correspondence |
|---|---|---|
| `SessionStore` | the `SessionStore` interface as `MemorySessionStore` implements it | `sessions` is the map; each method is an operator with a flag for success that the modules above use in their actions |
| `StorePromise` | what a `SessionStore` promises a caller | the same operations, each as one atomic step; a failed bulk deletion may have deleted some of its rows |
| `SQLiteSessionStore` | `session_store_sqlite.go` | one action per statement; `mu` is the frame of the multi-row loop that holds the mutex. It implements `StorePromise` with `sessions <- Visible`: the rows, or while a loop runs the rows as they were when it took the lock |
| `Sessions` | the session methods of the Authenticator and the cleanup goroutine | a process is a goroutine; `call[p]` is its copy of the session between two store calls |
| `Authenticator` | accounts, challenges, logins | one action per file or store operation; `frame[p].pc` is what the method does next and `todo` the files it has still to write. Keys, passwords and signatures are what they open or verify |
| `Primitives` | what `crypt/pgp`, the hashes of `crypt/hash.go` and `crypt/lthn` decide | perfect cryptography: a keypair is a number, a ciphertext opens with its key, a hash verifies its password. An empty password leaves a private key unlocked, as in the code |
| `KeysMasters` | masters, migrations, blobs | one action per file of a migration; `mu` and `goMu` are `s.mu` and `getOrCreateMu`; `disk`, `old`, `new` are the files |
| `KeysEvents` | the broadcasts of PutTier1 and DeleteTier1, and a consumer that keeps plaintexts | extends `KeysMasters`: the look at the file, its write or removal, and the broadcast are three steps around the same methods. `event[p]` is the broadcast `p` has still to make, `plain` the consumer's copies |
| `KeysLocks` | the lock operations of the same methods | each method is the sequences of its lock operations; it takes and frees one per step |
| `TrustService` | registry, policies, queue, log | one action per critical section; a repository name is the sequence of its segments |
| `KeyNames` | keyPath, the listings, the renaming of the migration | a name is the sequence of its parts between the dots |
| `Encodings` | `internal/corecompat/encode.go` | bytes and base64 digits as numbers, with padding and characters that are neither |
| `PasswordHash` | the encoded Argon2id string and VerifyPassword | the parts between the `$`; the widths of the two number parsers are constants |
| `Sealing` | Encrypt, Decrypt, EncryptAES, DecryptAES | a ciphertext is a sequence of stretches of salt, nonce and box, each known by the encryption it is from |
| `TestOutput` | parseTestOutput and runTest of `cmd/testcmd` | a line of output is its kind and the coverage on it; how `go test` prints and ends is written down beside it, as external |
| `Formats` | the five above against reference definitions | its states are their inputs, built piece by piece up to a bound; its properties compare |
| `SessionsProofs`, `SQLiteStoreProofs`, `TrustProofs` | theorems about `Sessions`, `SQLiteSessionStore`, `TrustService` | |
| `FormatsProofs` | theorems about `Formats`, and with it about the five pure modules | |
| `AuthenticatorProofs`, `AuthFilesProofs` | theorems about `Authenticator`; the second, on the six files, builds on the first | |
| `KeysProofs` | theorems about `KeysMasters`, and about `KeysEvents` from those | |
| `KeysLocksProofs` | which lock order `KeysLocks` keeps | |
| `MC*` | instances for TLC | calls allowed, symmetry, sample repositories, policy files, inputs |

`Sessions` and `Authenticator` both extend `SessionStore`; `KeysEvents` extends
`KeysMasters`; `Formats` puts the five pure modules together. `Sessions` has the
inner steps of the session methods and every way a session dies; `Authenticator`
takes what decides who is in: `createSession` and `DeleteByUser`, a RefreshSession,
whose Get and whose Set are two steps that anything may come between, and
RevokeSession, which stands for every other deletion of a session. At these
points the two agree. `KeysMasters` treats a call of
SetKEKProvider up to its migration as one step, which its locks allow when they
do not block; that they can block for ever is the subject of `KeysLocks`.

Definitions called "... with a mistake" are slips a change to the code could
make, each put in front of the definition it would replace. No action uses them:
PROJECT.json pairs each with a property that fails when it is swapped in.

## Runs

Every run finishes in less than two minutes with two workers. Deadlock is
checked in all of them but `Formats`, whose inputs end at their bounds.

| Run | Instance | Shows |
|---|---|---|
| `SQLiteStore` | 2 users, 3 tokens, clock to 2 | The row-by-row store keeps the promise of an atomic one, with failing statements and crashes inside a loop (88,626 states). Three tokens let a loop of two rows stop between them and leave a third of another user. |
| `SessionsSqlite` | 2 goroutines, 2 users, 2 tokens, clock to 3, TTL 1, failing store, restarts | `ExpiryBound`, `DeadStaysDead`, `OnlyStaleCopyDropsLive` under all interleavings, and `ExpiredIsCollected` under fairness (below); 767,976 states. Clock 3 is a session refreshed once and expired. |
| `SessionsRevoke` | the same | **A violation**: `RevokedTokenGone`. |
| `AuthAll` | 2 goroutines, any method, 1 legacy user, 1 token, 2 passwords of which one is empty, 2 keypairs | Files agree after any sequence of calls that did not overlap or were not cut, nobody signs in, rotates or revokes without the password, revoked users who are shut out stay out, replaced passwords and keypairs stay dead (1,688,599 states). One token is enough for a refresh to write back what RevokeKey has just deleted: `RevokedStayShutOut` fails in this instance when `MayAdmit` leaves out RefreshSession. |
| `AuthFaults` | an account manager beside a user who signs in and refreshes sessions; failing files and store; clock to 1, sessions and challenges that expire at the next tick; 2 tokens, 2 nonces | The same under failures, and `ChallengeUsedOnce` with overwritten and expired challenges (993,919 states). |
| `AuthRevoked` | one goroutine | **A violation**: `NoSessionForRevoked`. |
| `KeysAll` | 2 goroutines, any method, fresh, raw or wrapped legacy install, failing files, crashes; 3 masters | No blob is ever orphaned or lost (`MastersOpenBlobs`, `LegacyIsKept`, `CompleteMeansReachable`; 3.0 million states). Three masters: the legacy one and one for each tier. |
| `KeysStable` | tier 0 wired at boot, raw or fresh install, no failure, stops only between calls; the bus wired at any time, 2 goroutines, 1 credential with 2 values | The single-instance key never changes (`SIKeyIsStable`), and no consumer of the broadcasts keeps a credential that was replaced or deleted, in whatever order they arrive (`NoStaleCredential`); 633,688 states. |
| `KeysRetry` | wiring, unlocking and puts only | **A violation**: `UnfinishedIsRetried`. |
| `KeysLocks` | 2 goroutines, any method | **A violation**: `RaceIsSafe`. |
| `Trust` | one evaluator beside one that evaluates nothing but reloads policies or reviews; 1 agent, 3 capabilities, 3 repositories, 2 policy files | `AllowedInScope`, `RejectedFileChangesNothing`, `RefusedStayRefused`, `FirstVerdictStands` (227,600 states). The repositories are a child, a grandchild and a child with no name, the three cases of `matchScope`. |
| `Formats` | up to 7 bytes, 8 base64 characters, names of 3 parts, ciphertexts of 5 pieces of 3 encryptions, 5 packages; hash parsers of 2 and 4 bits | The eight properties of the pure parts (320,511 states). Seven bytes are two full groups and a partial one, eight characters a group in front of the last; every width has a number that just fits, one that just does not and one that would wrap to the right value. |

The bounds (`MaxTime`, `MaxKeys`, `MaxNonces`, `MaxMasters`, `MaxEntries`,
`MaxRequests`) stop the clock and the supplies of fresh values, and are guards of
the actions that use them up. Two goroutines are enough for each race we know of
in this code: all of them are between two methods.

### The violations

- `RevokedTokenGone` (A:369). RefreshSession reads a session, RevokeSession
  deletes it and returns nil, RefreshSession writes it back: the token is valid
  again. The comment of RevokeSession promises that the token is invalid
  "immediately". The same race is open to DeleteByUser and Cleanup.
- `NoSessionForRevoked` (A:328). ValidateResponse does not look at `.rev`: a
  challenge made before RevokeKey admits the user after it, one call after the
  other.
- `UnfinishedIsRetried` (K:887). A tier-1 provider wired while the account is
  locked makes the migration return early; the first tier-1 call after the unlock
  generates a new `.master-tier1`, and from then on every attempt finds both
  masters and gives up. The legacy credentials cannot be reached.
- `RaceIsSafe` (K:582). SetKEKProvider takes `mu` while it holds
  `kekProviderMu`; ensureMaster takes `kekProviderMu` while it holds `mu`. The two
  provider setters are the only methods out of order, which is proved (below).

Other weaknesses met on the way have no run; each is a hazard with a note in
PROJECT.json. Four more are places where a comment says other than the code.
`trust/trust.go:100-101` says of ScopedRepos that it limits tier 2, that an empty one
means no repository access, and that tier 3 ignores it; Evaluate takes an empty one
for no limit in every tier (`trust/policy.go:130`; for tier 2 known as finding F3
of `docs/history.md`), and limits tier 3 as well when it has scopes. Who may do
what depends on it: `AllowedInScope` says what the code does (below).
`trust/service.go:502` says bcrypt where the code uses Argon2id,
`trust/service.go:453` says scrypt, and K:1174 says that dot-files are skipped by
a step that does not skip them; nothing depends on these three. The model has the behaviour of all those that concern
`Authenticator` and `KeysMasters` but K:858, so they show when the run is changed:
`SIKeyIsStable` fails with `Installs = {"wrapped"}` (a put of GetOrCreate
overwrites what a migration has just written), with `MayFail = TRUE` (a read
error is taken for absence) and with `MayCrash = TRUE` (a stop inside the tier-0
migration).

### Restrictions of the properties

`QuietFilesAgree` says nothing of a user whose files two methods rewrote at the
same time or one method left half written (`torn`): there the code promises
nothing and the files do come apart. So the hazards A:182, A:404, A:552 and, for a
login that overlaps a rotation, A:476 are in the model but excused, not caught;
what is caught is a sequence of calls that ran to their ends one after the other.
`RevokedStayShutOut` starts counting when no call that may still admit the user
is under way, a RefreshSession included. A refresh that read its session before
RevokeKey's DeleteByUser (A:606) stores it again afterwards (A:369) without a look
at `.rev`, and the revoked user is in again: the race of `SessionsRevoke`, here with
another deletion. `ShutOut` also asks that no challenge is pending, for the reason
that `AuthRevoked` shows.
`ReplacedCredentialsStayDead` starts counting when no call that accepted the old
credential is under way; before that, a legacy login may write the replaced
password back to `.hash` (hazard A:476). `DeadStaysDead` likewise counts from
when no writer of the token is under way, which is exactly what
`SessionsRevoke` shows to be necessary. `OnlyStaleCopyDropsLive` takes any step that
leaves the store as a partial DeleteByUser would for one, whoever made it.

`AllowedInScope` is about agents that have scopes, whatever their tier. It makes
two exceptions to the comment in `trust/trust.go:100-101`: an agent without
scopes is not limited (`Unscoped`), also in tier 2, and one of tier 3 that has some is.
It judges an evaluation by the agent that it read; that copies do not outlive a
removal is the subject of `RefusedStayRefused`, which in turn counts only while
neither registry nor policies change. A valid policy file is half in force while it
is being applied (hazard `trust/config.go:89`), which no property objects to.
`LegacyIsKept` and `CompleteMeansReachable` stop counting a reference that is deleted,
and so do not see that the migration brings one back (hazards K:1598, K:1604).

`PasswordNeedsPassword` says nothing of an account whose password is empty: its
private key lies in the clear, and RotateKeyPair, which checks the old password
only by opening that key, takes any for it. `NoStaleCredential` excepts a
credential that two PutTier1 calls wrote although both had found none (`raced`):
neither broadcasts, and the consumer may keep the first value until the next
broadcast (hazard K:1509). `RenamingKeepsTheKeys` excepts legacy references that
end in `.t0` or `.t1`, whose files the migration takes for migrated ones: it does not
rename them, and renaming `x` may overwrite the file of `x.t1`.
`CoverageIsOwn` promises a package no other coverage than its own only in a run
that is not verbose and in which nothing failed: otherwise a coverage line of its
own may be given to a package without statements.

### Fairness

Only `SessionsSqlite` uses any: `WF_vars(CleanupTickDoes(TRUE))`, a tick of the
cleanup whose store call succeeds. StartCleanup's goroutine loops on a
`time.Ticker` until its context ends, and goes on after an error, so a tick that
stays possible happens; and a store that fails may fail any number of times but
not at every tick for ever, or nothing could be collected. No caller is assumed
ever to make or to finish a call.

## Proofs

`SessionsProofs` proves, for any sets of users, tokens and goroutines, any TTL
and an unbounded number of steps:

- `SessionsTypeCorrect`: `Spec => []TypeOK`. `TypeOK` is inductive as it stands;
  `TypeStep` has one case per action, and what a store operation leaves behind is
  stated once in `StoreOpsType`.
- `ExpiryIsBounded`: `Spec => []ExpiryBound`. No stored or copied session expires
  later than `now + TTL`. The copies have to be part of the invariant: a refresh
  writes back a copy made at an earlier time. `StoreStep` and `FrameStep` say where
  the sessions and copies of the next state come from, `ClockStep` that the clock
  does not run backwards.
- `DeadTokensStayDead`: `Spec => DeadStaysDead`, from `TypeOK`. `Dead` itself is
  the invariant of the step: a dead token is issued, so no createSession draws it
  again; it is not stored, so no refresh can read it; and no process that could
  write it exists (`DeadStep`).
- `LiveSessionsAreKept`: `Spec => OnlyStaleCopyDropsLive`, from `TypeOK` and the
  invariant `DropsExpired`: a call about to delete a session holds a copy that has
  expired. `LiveDropStep` has the cases.

`SQLiteStoreProofs` proves, for any users, any finite set of tokens and any
bound of the clock:

- `SQLiteTypeCorrect`: `Spec => []TypeOK`. `TypeOK` bounds what a loop has counted
  and has still to do by the rows there are, which is not inductive. `IInv` adds
  `LoopInv`: while a loop holds the mutex, the rows are the snapshot it started
  from without those it has counted (`Gone`), and `Gone` and the rows to do are
  together the rows the method is about.
- `SQLiteStoreKeepsPromise`: `Spec => KeepsPromise`. Under the refinement mapping
  (the snapshot stands for the rows while a loop runs) every step in a loop is a
  stutter but its last, which is the atomic deletion of `StorePromise`: all rows
  of the method on success, some of them on an error or a crash. `LoopInv` gives
  the set of rows and its cardinality, the count the method returns.

`AuthenticatorProofs` proves, for any users, passwords, tokens and goroutines,
with medium errors and restarts:

- `AuthenticatorTypeCorrect` and `ChallengeIsUsedOnce`, from `AuthInv`, which has
  three parts. `Types` bounds the files, challenges, sessions and calls; `Shapes`
  says what a call remembers where it is (which list of files it has left, which
  challenge it has taken). `OnePlace` is what makes a nonce single-use: it is
  pending, in one call, or spent on one token, and never in two of these places. A
  call that has taken a challenge may fail or be cut, but nothing puts the nonce
  back.
- `RevokedIsShutOut`: `Spec => RevokedStayShutOut`, for a medium that does not
  fail (`MediumMayFail = FALSE`). The hypothesis is the code's: `IsRevoked` takes
  a failed read of `.rev` for "not revoked" (hazard A:619), and `AuthFaults`
  leaves the property out for the same reason. Restarts are allowed. `ShutOut` is
  the invariant of the step: no challenge and no session of the user is left, and
  no call of its could bring one, in particular no refresh that holds a copy.
- `ReplacedCredentialsDie`: `Spec => ReplacedCredentialsStayDead`, with any errors.

A step is one call that goes on, begins or ends, or a restart. The lemmas `...Moves`
say of each action what becomes of the call; the properties are then proved from
these, and the updates of `frame` are opened once.

`AuthFilesProofs` proves, with no hypothesis beyond those of the module:

- `QuietFilesAlwaysAgree`: `Spec => []QuietFilesAgree`. In the middle of a rewrite
  the files do not agree, so what is inductive (`FilesSettled`) is that the
  call *aims* at files that do (`Aims`): there is a coherent account of which each
  file is there already or among those the call has left to write. No other
  rewrite may start meanwhile, a login may only rewrite `.hash` with the
  password it stands for (`Sound`), and a call that is cut before its first
  write leaves the old account. Whatever breaks one of these is what `torn`
  records; `Settled` is claimed of every user outside it.
- `PasswordChangesNeedIt`: `Spec => PasswordNeedsPassword`, from the same.

`KeysProofs` proves, for any credentials, goroutines, installs and calls, with
failing files and crashes:

- `KeysTypeCorrect`, `MastersAlwaysOpen`, `LegacyNeverLost` and `CompleteReaches`,
  from one `IInv`. `Files` says that a blob is sealed under the master of its tier
  and that a reference not yet moved still has its old file and the master for
  it. For each process, `Shape` says which method can be at which step, `Locks`
  when it holds `mu` and `getOrCreateMu`, and `Knows` what the step may rely on:
  the master in its hand is the one on disk, and each step of a migration finds
  what the ones before it wrote. `Keeps` is what a step of one process must leave
  to the others: masters on disk stay, and while a process holds `mu` nobody
  touches what a migration works on. Each action has one lemma that it preserves
  `IInv` and `Keeps`.
- `SIKeyNeverChanges`: `StableHost` implies `Spec => []SIKeyIsStable`. `StableHost`
  is the setting of `KeysStable` for any credentials and goroutines: tier 0 wired
  at boot, a raw or fresh install, no failing file, stops only between calls, and
  nobody rewires tier 0 or deletes the key. TLC finds the key changed when the
  install, the failures, the stops, the rewiring or the deletion is set free; a host
  that never wires tier 0 gets no key at all. The invariant is `OneKey`, that the old,
  the new and every returned key are one, and `Careful`, that no call is on its way
  to generate another.

Its second part proves, of the broadcasts:

- `EventsImplementKeys`: `EventsSpec => Spec`. The broadcasts only watch: each step
  is one of `KeysMasters` or leaves its variables alone, so all of the above
  holds of `KeysEvents`.
- `NoStaleCredentialEver`: `EventsSpec => []NoStaleCredential`, which is inductive
  with `IInv` and `Renaming`: while a migration runs no call holds a tier-1 master,
  and what it is about to rename is not in the new place yet, so no step that does
  not broadcast changes a blob that is there.

`TrustProofs` proves, for any agents, scopes, policies, policy files, evaluators
and reviewers:

- `TrustTypeCorrect`, `RejectedFilesChangeNothing`, `AllowedStaysInScope`, from one
  `IInv`: the types of the registry, policies, queue and log, and what each call
  under way knows. A call that sets policies has only tiers of an accepted file
  left (`FromValidFiles`); an evaluation that has allowed something found the
  repository in the scope of the agent it read, or no scope there (`InScope`). `MatchesAreCovered`
  is the lemma about `matchScope` on all sequences of segments: what it accepts is
  what the documented patterns cover.
- `FirstVerdictHolds`: `Spec => FirstVerdictStands`, because Approve and Deny look
  at the status again under the lock.
- `RefusedHolds`: `Spec => RefusedStayRefused`. `RefusedStep` says that the call a
  step leaves in its goroutine is refused as well.

`KeysLocksProofs` proves, for any number of goroutines and calls:

- `OnlyRewiringDeadlocks`: `Spec => []OnlyRewiringBlocks`. Of any goroutines that
  wait for each other's locks, or of one that waits for its own, one is in
  SetKEKProvider or SetKEKProviderTier0, holds `kekProviderMu` and waits for `mu`.
  `OtherwiseTheRaceIsSafe` says the same as `RaceIsSafe` with that excepted, so
  taking `mu` first in these two methods would be enough to make it true.
  A path is well nested when it frees what it takes and takes only later locks in
  between, in the order `getOrCreateMu`, `mu`, `kekProviderMu`; the paths of all
  other methods are (`Bracketed`, `Joined`). Inductive is `LInv`: what a goroutine
  has still to do is well nested and frees what it holds, or it is a setter before
  its second lock (`Ordered`). Whoever is waited for then waits for a later lock
  (`LaterLock`), and there are three. A writer that waits also holds up later
  readers in Go, which `KeysLocks` leaves out; such a reader waits for the same
  lock as that writer, so the order rules out the same circles.

`FormatsProofs` proves of the pure parts all eight properties of the run, for
inputs of any length and samples of any size. The inductive invariant is `Built`:
an input is a sequence over what inputs of its kind are made of
(`InputsAreBuilt`), which is also true without the bounds on the lengths.

- `BytesSurviveEncoding` and `DecodingIsExact`. Three bytes and four digits are
  the same number in base 256 and 64 (`DigitsOfWord`, `BytesOfWord`); encoding and
  decoding are then opened group by group, and a partial group at the end is
  filled with zeros. `WellFormedIs` is what the decoder tells apart: `=` only at
  the end, no character that is no digit, no remainder of one.
- `PasswordsMatchTheirHash`, for any widths of the number parsers. `VerifyPassword`
  reads back what `HashPassword` wrote because the parameters fit (`VerifiesOwn`),
  and whatever matches was checked with what the string says (`MatchIsThis`).
- `CiphertextsOpenWhole`, for any lengths of salts and boxes. Every stretch of an
  encryption names it, so an input that opens has them all from one, in order
  (`OpensOnlyWhole`).
- `KeysHaveTheirOwnFiles`, `ListingNamesTheKeys` (with its case `TwoKeysAreListed`,
  which the run checks) and `MigrationKeepsTheKeys` (with `LegacyKeysAreRenamed`):
  two keys never share a file, a listing of a tier gives exactly its keys, and the
  renaming leaves every legacy key but the single-instance one listed in tier 1.
  `PathEndsWithItsTier` and `PathWithoutSuffix` say what the suffix of a path is and
  what it is without it, `LegacyHasNoTier` that no legacy file but the excepted
  ones passes for a migrated one. None of them needs keyPath's refusals, which keep
  references inside the directory and apart from the legacy files.
- `SummariesAreTrue` and `FailuresAreReported`, for any number of packages.
  parseTestOutput is a fold over the lines, and `Account` what it has after the
  first `n` packages: the counts are theirs, a package that told its coverage has
  it, and one that told none has none in a run that is not verbose and in which
  nothing failed. `PackageCounts` is the step, over what `go test` prints of one
  package.

The folds and the sums over sequences are recursive, and the library's induction
theorems take an operator, which no installed prover can instantiate. `UpTo`
proves them by induction over a *set* of numbers instead, from the
well-foundedness of `<` on the naturals.

The assumptions of these modules are what the code fixes: `LengthsAssumption`
(a box is at least its tag), `WidthsAssumption` (the parameters of `hash.go` fit
the numbers they are printed and parsed as), `HashesAssumption` (a hash drawn by
Argon2 is neither empty nor the mark for text that does not decode),
`SamplesAssumption` (bytes are bytes and digits digits) and `PackagesAssumption`
(what `go test` can tell of a package).

All theorems assume the constants' assumptions in the modules they are about
(tokens and idle values are distinct from sessions; TTL is positive; patterns and
repositories are sequences of segments). Randomly drawn tokens are taken to be
distinct.

An action that sets several fields of one call writes them as
`[frame EXCEPT ![p] = [@ EXCEPT !.pc = ..., !.m = ...]]`. TLC takes several updates
in one `EXCEPT` as well, but the translation of these to the SMT solver is wrong in
tlapm 1.4.5, and proofs could not be trusted that rest on it.

Only model-checked:

- the liveness of the cleanup (`ExpiredIsCollected`), out of TLAPS' reach under
  fairness;
- the four properties that are violated, of which TLC's counterexample is the
  proof.

## Not modelled

- Cryptography. Keys open what was sealed to them, a password verifies against
  its own hash, and random values are fresh. bcrypt, scrypt, HKDF, RSA, checksums
  and HMAC are single calls of a library; the OpenPGP service
  (`crypt/openpgp/service.go`) is a wrapper around one that keeps nothing.
- The wording of errors, logging, audit rows of the key store, file modes, the
  registration of services, options.
- The JSON of policy files, accounts and revocations, exports of policies, the
  writer of the audit log (the service always passes none), and rate limits and
  expiry dates of agents, which nothing reads.
- The iterators `PendingSeq`, `EntriesSeq` and `EntriesForSeq`, which hold their
  lock while the caller's loop runs: a loop that calls back into the same queue or
  log waits for itself (hazard `trust/approval.go:190`).
- The hardware key contract: an interface that nothing implements.
- A torn write of a single file: `core.WriteFile` is taken to replace its file
  whole or fail.
- A stat that fails for a reason other than absence (hazard K:858; in `A`, an IsFile
  that fails so at A:443 or A:691 makes a login try `.lthn`).
- The data race on the policies map beyond the stop of the program that the Go
  runtime makes of it (`Restart` in `TrustService`).
- The real widths of the numbers in a password hash: 8 and 32 bits are scaled to
  2 and 4 in the run of `Formats`, which keeps their order and the parameters in
  range; the theorem about them is for any widths.
- Lines of test output longer than the buffer of `bufio.Scanner`, at which
  parseTestOutput stops reading.
- The `crypt` commands: flags and a file in, one primitive, text out.

## What is left

Every safety property that a run checks and that holds is a theorem. Further work
would model more of the code rather than prove more of the models:

1. The iterators of the audit log and of the approval queue with their locks, and
   a caller whose loop calls back (hazard `trust/approval.go:190`).
2. A medium whose `stat` fails (hazard K:858), in `KeysMasters`.
3. The exports of `trust/config.go`: that a policy file written by
   ExportPolicies loads to the same policies.
