--------------------------- MODULE Authenticator ---------------------------
(***************************************************************************)
(* The Authenticator (auth/auth.go): accounts kept as six files per user   *)
(* on an io.Medium, pending challenges kept in memory, and the sessions    *)
(* that logins and challenge responses create in the SessionStore, that    *)
(* RefreshSession writes back, and that the other session methods remove.  *)
(*                                                                         *)
(* The only lock, a.mu, guards the challenges map, so the methods of       *)
(* several goroutines interleave at every file and store operation: that   *)
(* is the grain of the actions.  A process p is a goroutine in a method;   *)
(* frame[p] is its local state between two such operations.                *)
(*                                                                         *)
(* Cryptography is what Primitives says of it: .key is a private key that  *)
(* a password may lock, .json is metadata encrypted to a public key, .hash *)
(* and .lthn are hashes of the password.                                   *)
(***************************************************************************)
EXTENDS SessionStore, Primitives, Sequences

CONSTANTS
  Passwords, Procs,
  Calls,          \* the <<process, method>> pairs this instance may call
  Protected,      \* protectedUsers: cannot be deleted
  LegacyUsers,    \* accounts that exist at the start, with .lthn, no .hash
  MediumMayFail,  \* whether a file operation can fail
  Durable,        \* whether sessions survive a restart (SQLite)
  ChallengeTTL, SessionTTL,
  MaxTime, MaxKeys, MaxNonces,   \* bounds: ticks, keypairs, challenges
  Absent,         \* a file that does not exist
  NoChallenge, NoFrame

Methods == {"Register", "CreateChallenge", "ValidateResponse", "Login",
            "RotateKeyPair", "RevokeKey", "DeleteUser", "RefreshSession"}

ASSUME AuthenticatorAssumption ==
  /\ Calls \subseteq Procs \X Methods
  /\ {Protected, LegacyUsers} \subseteq SUBSET Users
  /\ {MediumMayFail, Durable} \subseteq BOOLEAN
  /\ \A u, v \in LegacyUsers : u = v /\ MaxKeys > 0   \* bound: keypair 1 is that user's
  /\ {ChallengeTTL, SessionTTL, MaxTime, MaxKeys, MaxNonces} \subseteq Nat
  /\ Absent \notin Passwords /\ Absent \notin 0..MaxKeys /\ Absent \notin 0..MaxNonces
  /\ Absent \notin {"placeholder", "revoked"} /\ Absent \notin [kp : 1..MaxKeys, pw : Passwords]
  /\ \A w \in Passwords : Absent \notin {HashPassword(w), LthnHash(w)}
  /\ \A k \in 1..MaxKeys : Absent # Encrypt(k)

VARIABLES
  files,          \* files[u]: the six artifacts of user u
  challenges,     \* a.challenges: the pending challenge of a user
  frame,          \* the running method of each process
  keys, nonces,   \* how many keypairs and nonces were generated
  origin,         \* history: the challenge nonce a token was issued for, 0 for a password
  torn            \* history: users whose files a cut or an overlap may have left mixed

vars == <<sessions, now, files, challenges, frame, keys, nonces, origin, torn>>

Keys == 1..MaxKeys
Nonces == 1..MaxNonces
Exts == {"pub", "key", "rev", "json", "hash", "lthn"}
LockedKey == [kp : Keys, pw : Passwords]

\* What a file of each kind may hold
Content(ext) ==
  CASE ext = "pub" -> Keys \cup {Absent}
    [] ext = "json" -> {Encrypt(k) : k \in Keys} \cup {Absent}
    [] ext = "key" -> LockedKey \cup {Absent}
    [] ext = "rev" -> {"placeholder", "revoked", Absent}
    [] ext = "hash" -> {HashPassword(w) : w \in Passwords} \cup {Absent}
    [] ext = "lthn" -> {LthnHash(w) : w \in Passwords} \cup {Absent}

Files == [pub : Content("pub"), key : Content("key"), rev : Content("rev"),
          json : Content("json"), hash : Content("hash"), lthn : Content("lthn")]

Challenge == [nonce : Nonces, exp : Nat]
Signature == [nonce : Nonces, key : Keys]

NoFiles == [e \in Exts |-> Absent]

LegacyFiles(k, w, json) ==
  LET pair == CreateKeyPair(k, w) IN
  [pub |-> pair.pub, key |-> pair.key, rev |-> "placeholder", json |-> json,
   hash |-> Absent, lthn |-> LthnHash(w)]

(* The program counter of a method is what it does next:                   *)
(*   "encrypt" read .pub, encrypt a nonce     "put"     store the challenge *)
(*   "verify"  read .pub, verify a response   "hash"    look at .hash       *)
(*   "lthn"    look at .lthn                  "readKey", "readJson"         *)
(*   "files"   write or delete todo's files   "invalidate" DeleteByUser     *)
(*   "session" createSession                                                *)
(*   "extend"  store.Set, "drop" store.Delete of the token it has read      *)
Pcs == {"encrypt", "put", "verify", "hash", "lthn", "readKey", "readJson",
        "files", "invalidate", "session", "extend", "drop"}

\* What a process may remember
Frame == [method : Methods, pc : Pcs, user : Users,
          pw : Passwords \cup {Absent}, new : Passwords \cup {Absent},
          key : LockedKey \cup {Absent}, sig : Signature \cup {Absent}, nonce : Nonces \cup {0},
          token : Tokens \cup {Absent},
          todo : Seq([ext : Exts, to : UNION {Content(ext) : ext \in Exts}])]

ASSUME FrameAssumption == NoFrame \notin Frame /\ NoChallenge \notin Challenge

Enter(p, method, pc, u, w) ==
  [method |-> method, pc |-> pc, user |-> u, pw |-> w, new |-> Absent,
   key |-> Absent, sig |-> Absent, nonce |-> 0, token |-> Absent, todo |-> <<>>]

Called(p, method) == frame[p] = NoFrame /\ <<p, method>> \in Calls
At(p, pc) == frame[p] # NoFrame /\ frame[p].pc = pc
Do(p, f) == frame' = [frame EXCEPT ![p] = f]
GoTo(p, pc) == frame' = [frame EXCEPT ![p].pc = pc]
Return(p) == frame' = [frame EXCEPT ![p] = NoFrame]

Issued(t) == origin[t] # Absent
InMethod(p, u, S) == /\ frame[p] # NoFrame
                     /\ frame[p].user = u /\ frame[p].method \in S

Init ==
  /\ sessions = EmptyStore /\ now = 0
  /\ files \in {f \in [Users -> {NoFiles} \cup
                         {LegacyFiles(1, w, j) : w \in Passwords, j \in {Encrypt(1), Absent}}] :
                  \A u \in Users : f[u] = NoFiles <=> u \notin LegacyUsers}
  /\ challenges = [u \in Users |-> NoChallenge]
  /\ frame = [p \in Procs |-> NoFrame]
  /\ keys = (IF LegacyUsers = {} THEN 0 ELSE 1) /\ nonces = 0
  /\ origin = [t \in Tokens |-> Absent]
  /\ torn = {}
-----------------------------------------------------------------------------
\* Bookkeeping of `torn`.  The methods that rewrite several files of a user,
\* and those that must not run beside them if the files are to agree:
Rewriting(p, u) == InMethod(p, u, {"Register", "RotateKeyPair", "DeleteUser"})
Touching(p, u) ==
  \/ Rewriting(p, u) \/ InMethod(p, u, {"RevokeKey"})
  \/ InMethod(p, u, {"Login"}) /\ frame[p].pc \in {"lthn", "files"}

Overlap(u) == \E p, q \in Procs : p # q /\ Rewriting(p, u) /\ Touching(q, u)

\* p has done some of its file operations and still has others to do
Halfway(p) ==
  /\ At(p, "files")
  /\ Len(frame[p].todo) < CASE frame[p].method = "Register" -> 5
                            [] frame[p].method = "RotateKeyPair" -> 4
                            [] frame[p].method = "DeleteUser" -> 6
                            [] OTHER -> 1

Cut(u) == \E p \in Procs : /\ Halfway(p) /\ frame[p].user = u
                          /\ frame'[p] = NoFrame /\ files' = files

Note == torn' = torn \cup {u \in Users : Overlap(u)' \/ Cut(u)}
-----------------------------------------------------------------------------
\* IsRevoked reads .rev, and takes a read error for "not revoked".
SeenRevoked(u, readOK) == readOK /\ files[u].rev = "revoked"
ReadOutcomes == IF MediumMayFail THEN BOOLEAN ELSE {TRUE}

\* What Register and RotateKeyPair write, in order; what DeleteUser removes
Put(ext, content) == [ext |-> ext, to |-> content]
NewAccount(k, w) ==
  LET pair == CreateKeyPair(k, w) IN
  <<Put("pub", pair.pub), Put("key", pair.key), Put("rev", "placeholder"),
    Put("hash", HashPassword(w)), Put("json", Encrypt(pair.pub))>>

\* RotatedAccount with a mistake: the password hash is not updated
RotatedAllButHash(k, w) ==
  LET pair == CreateKeyPair(k, w) IN
  <<Put("pub", pair.pub), Put("key", pair.key), Put("json", Encrypt(pair.pub))>>

RotatedAccount(k, w) ==
  LET pair == CreateKeyPair(k, w) IN
  <<Put("pub", pair.pub), Put("key", pair.key), Put("json", Encrypt(pair.pub)),
    Put("hash", HashPassword(w))>>

\* NoAccount with a mistake: .lthn is forgotten
NoAccountButLegacyHash ==
  <<Put("pub", Absent), Put("key", Absent), Put("rev", Absent), Put("json", Absent),
    Put("hash", Absent)>>

NoAccount ==
  <<Put("pub", Absent), Put("key", Absent), Put("rev", Absent), Put("json", Absent),
    Put("hash", Absent), Put("lthn", Absent)>>

AuthVars == <<sessions, now, challenges, origin>>

Register(p, u, w) ==
  /\ Called(p, "Register") /\ files[u].pub = Absent /\ keys < MaxKeys
  /\ keys' = keys + 1
  /\ Do(p, [Enter(p, "Register", "files", u, w) EXCEPT !.todo = NewAccount(keys', w)])
  /\ UNCHANGED <<AuthVars, files, nonces>> /\ Note

\* One iteration of a method's file operations.  Deleting an absent file is
\* skipped.  The write that migrates a legacy hash is best effort.
After(method) == CASE method = "Register" -> "return"
                   [] method = "Login" -> "session"
                   [] OTHER -> "invalidate"

NextFile(p) ==
  IF Len(frame[p].todo) > 1
  THEN frame' = [frame EXCEPT ![p].todo = Tail(@)]
  ELSE IF After(frame[p].method) = "return" THEN Return(p)
  ELSE frame' = [frame EXCEPT ![p] = [@ EXCEPT !.todo = <<>>, !.pc = After(frame[p].method)]]

FileStep(p) ==
  /\ At(p, "files")
  /\ LET do == Head(frame[p].todo) IN
       files' = [files EXCEPT ![frame[p].user][do.ext] = do.to]
  /\ NextFile(p)
  /\ UNCHANGED <<AuthVars, keys, nonces>> /\ Note

FileFails(p) ==
  /\ At(p, "files") /\ MediumMayFail
  /\ IF frame[p].method = "Login" THEN NextFile(p) ELSE Return(p)
  /\ UNCHANGED <<AuthVars, files, keys, nonces>> /\ Note

\* A read fails: the method returns an error, having changed nothing.
ReadFails(p) ==
  /\ MediumMayFail
  /\ \E pc \in {"encrypt", "verify", "hash", "lthn", "readKey", "readJson"} : At(p, pc)
  /\ Return(p)
  /\ UNCHANGED <<AuthVars, files, keys, nonces>> /\ Note
-----------------------------------------------------------------------------
CreateChallenge(p, u) ==
  /\ Called(p, "CreateChallenge")
  /\ \E readOK \in ReadOutcomes : ~SeenRevoked(u, readOK)
  /\ Do(p, Enter(p, "CreateChallenge", "encrypt", u, Absent))
  /\ UNCHANGED <<AuthVars, files, keys, nonces>> /\ Note

EncryptNonce(p) ==
  /\ At(p, "encrypt")
  /\ \/ files[frame[p].user].pub = Absent /\ Return(p) /\ nonces' = nonces
     \/ /\ files[frame[p].user].pub # Absent /\ nonces < MaxNonces
        /\ nonces' = nonces + 1
        /\ frame' = [frame EXCEPT ![p] = [@ EXCEPT !.pc = "put", !.nonce = nonces']]
  /\ UNCHANGED <<AuthVars, files, keys>> /\ Note

\* Under a.mu.  A pending challenge of the user is overwritten.
PutChallenge(p) ==
  /\ At(p, "put")
  /\ challenges' = [challenges EXCEPT ![frame[p].user] =
                      [nonce |-> frame[p].nonce, exp |-> now + ChallengeTTL]]
  /\ Return(p)
  /\ UNCHANGED <<sessions, now, origin, files, keys, nonces>> /\ Note

\* ValidateResponse with a mistake: the challenge is only read, not removed
ReuseChallenge(p, u, sig) ==
  /\ Called(p, "ValidateResponse") /\ challenges[u] # NoChallenge
  /\ challenges' = challenges
  /\ IF now > challenges[u].exp THEN frame' = frame
     ELSE Do(p, [Enter(p, "ValidateResponse", "verify", u, Absent)
                   EXCEPT !.nonce = challenges[u].nonce, !.sig = sig])
  /\ UNCHANGED <<sessions, now, origin, files, keys, nonces>> /\ Note

\* Take the challenge under a.mu, whatever becomes of the response, then look
\* at its expiry.  With no pending challenge the method returns at once.
ValidateResponse(p, u, sig) ==
  /\ Called(p, "ValidateResponse") /\ challenges[u] # NoChallenge
  /\ challenges' = [challenges EXCEPT ![u] = NoChallenge]
  /\ IF now > challenges[u].exp THEN frame' = frame
     ELSE Do(p, [Enter(p, "ValidateResponse", "verify", u, Absent)
                   EXCEPT !.nonce = challenges[u].nonce, !.sig = sig])
  /\ UNCHANGED <<sessions, now, origin, files, keys, nonces>> /\ Note

\* pgp.Verify of the signature over the nonce, with the .pub of this moment
Verified(p) ==
  Verify(frame[p].nonce, frame[p].sig, files[frame[p].user].pub)

VerifyResponse(p) ==
  /\ At(p, "verify")
  /\ IF Verified(p) THEN GoTo(p, "session") ELSE Return(p)
  /\ UNCHANGED <<AuthVars, files, keys, nonces>> /\ Note
-----------------------------------------------------------------------------
\* Login with a mistake: .rev is not looked at
LoginUnchecked(p, u, w) ==
  /\ Called(p, "Login")
  /\ Do(p, Enter(p, "Login", "hash", u, w))
  /\ UNCHANGED <<AuthVars, files, keys, nonces>> /\ Note

Login(p, u, w) ==
  /\ Called(p, "Login")
  /\ \E readOK \in ReadOutcomes : ~SeenRevoked(u, readOK)
  /\ Do(p, Enter(p, "Login", "hash", u, w))
  /\ UNCHANGED <<AuthVars, files, keys, nonces>> /\ Note

RevokeKey(p, u, w) ==
  /\ Called(p, "RevokeKey") /\ files[u].pub # Absent
  /\ Do(p, Enter(p, "RevokeKey", "hash", u, w))
  /\ UNCHANGED <<AuthVars, files, keys, nonces>> /\ Note

\* The password was right: RevokeKey writes .rev; Login creates the session,
\* after it has re-hashed a legacy password.
Accepted(p, legacy) ==
  CASE frame[p].method = "RevokeKey" ->
         frame' =
           [frame EXCEPT ![p] = [@ EXCEPT !.pc = "files", !.todo = <<Put("rev", "revoked")>>]]
    [] frame[p].method = "Login" /\ legacy ->
         frame' =
           [frame EXCEPT ![p] =
              [@ EXCEPT !.pc = "files", !.todo = <<Put("hash", HashPassword(frame[p].pw))>>]]
    [] OTHER -> GoTo(p, "session")

\* VerifyHash with a mistake: a wrong password is tried on .lthn as well
VerifyEitherHash(p) ==
  /\ At(p, "hash")
  /\ IF VerifyPassword(frame[p].pw, files[frame[p].user].hash)
     THEN Accepted(p, FALSE) ELSE GoTo(p, "lthn")
  /\ UNCHANGED <<AuthVars, files, keys, nonces>> /\ Note

\* .hash if the file exists (Argon2id), else .lthn in a later read
VerifyHash(p) ==
  /\ At(p, "hash")
  /\ LET hash == files[frame[p].user].hash IN
     \/ hash = Absent /\ GoTo(p, "lthn")
     \/ hash # Absent /\ VerifyPassword(frame[p].pw, hash) /\ Accepted(p, FALSE)
     \/ hash # Absent /\ ~VerifyPassword(frame[p].pw, hash) /\ Return(p)
  /\ UNCHANGED <<AuthVars, files, keys, nonces>> /\ Note

VerifyLegacy(p) ==
  /\ At(p, "lthn")
  /\ IF LthnVerify(frame[p].pw, files[frame[p].user].lthn)
     THEN Accepted(p, TRUE) ELSE Return(p)
  /\ UNCHANGED <<AuthVars, files, keys, nonces>> /\ Note

\* createSession: a fresh random token; store.Set may fail
CreateSession(p, t) ==
  /\ At(p, "session") /\ ~Issued(t)
  /\ \E ok \in BOOLEAN : Set(t, [user |-> frame[p].user, exp |-> now + SessionTTL], ok)
  /\ origin' = [origin EXCEPT ![t] = frame[p].nonce]
  /\ Return(p)
  /\ UNCHANGED <<now, challenges, files, keys, nonces>> /\ Note
-----------------------------------------------------------------------------
\* store.Get and the look at the clock.  A token that is not in the store makes
\* the method return at once.  The rest is done on the copy, whoever deletes the
\* session meanwhile; .rev is not read.  (Sessions has Get and the clock apart.)
RefreshSession(p, t) ==
  /\ Called(p, "RefreshSession") /\ Present(t)
  /\ LET pc == IF ExpiredAt(sessions[t], now) THEN "drop" ELSE "extend" IN
     Do(p, [Enter(p, "RefreshSession", pc, sessions[t].user, Absent) EXCEPT !.token = t])
  /\ UNCHANGED <<AuthVars, files, keys, nonces>> /\ Note

\* store.Set of the copy, with ExpiresAt one TTL ahead
ExtendSession(p) ==
  /\ At(p, "extend")
  /\ \E ok \in BOOLEAN :
       Set(frame[p].token, [user |-> frame[p].user, exp |-> now + SessionTTL], ok)
  /\ Return(p)
  /\ UNCHANGED <<now, challenges, origin, files, keys, nonces>> /\ Note

DropExpired(p) ==
  /\ At(p, "drop")
  /\ \E ok \in BOOLEAN : Delete(frame[p].token, ok)
  /\ Return(p)
  /\ UNCHANGED <<now, challenges, origin, files, keys, nonces>> /\ Note

\* One store.Delete.  ValidateSession and Cleanup remove sessions as well, but
\* only expired ones: what they do to an account, this does.
RevokeSession(t) ==
  /\ \E ok \in BOOLEAN : Delete(t, ok)
  /\ UNCHANGED <<now, challenges, origin, files, frame, keys, nonces>> /\ Note
-----------------------------------------------------------------------------
RotateKeyPair(p, u, old, new) ==
  /\ Called(p, "RotateKeyPair") /\ files[u].pub # Absent
  /\ Do(p, [Enter(p, "RotateKeyPair", "readKey", u, old) EXCEPT !.new = new])
  /\ UNCHANGED <<AuthVars, files, keys, nonces>> /\ Note

\* RotateReadKey with a mistake: an absent .key is not noticed
RotateReadKeyUnchecked(p) ==
  /\ At(p, "readKey")
  /\ frame' = [frame EXCEPT ![p] =
                  [@ EXCEPT !.key = files[frame[p].user].key, !.pc = "readJson"]]
  /\ UNCHANGED <<AuthVars, files, keys, nonces>> /\ Note

RotateReadKey(p) ==
  /\ At(p, "readKey")
  /\ LET key == files[frame[p].user].key IN
       IF key = Absent THEN Return(p)
       ELSE frame' = [frame EXCEPT ![p] = [@ EXCEPT !.key = key, !.pc = "readJson"]]
  /\ UNCHANGED <<AuthVars, files, keys, nonces>> /\ Note

\* RotateDecrypts with a mistake: the key is used as if it were not locked
RotateDecryptsLocked(p) ==
  Decrypts(files[frame[p].user].json, frame[p].key, frame[p].key.pw)

\* pgp.Decrypt(.json, .key, oldPassword)
RotateDecrypts(p) ==
  Decrypts(files[frame[p].user].json, frame[p].key, frame[p].pw)

RotateReadJson(p) ==
  /\ At(p, "readJson")
  /\ \/ ~RotateDecrypts(p) /\ Return(p) /\ keys' = keys
     \/ /\ RotateDecrypts(p) /\ keys < MaxKeys
        /\ keys' = keys + 1
        /\ frame' = [frame EXCEPT ![p] =
                        [@ EXCEPT !.pc = "files", !.todo = RotatedAccount(keys', frame[p].new)]]
  /\ UNCHANGED <<AuthVars, files, nonces>> /\ Note

DeleteUser(p, u) ==
  /\ Called(p, "DeleteUser") /\ u \notin Protected /\ files[u].pub # Absent
  /\ Do(p, [Enter(p, "DeleteUser", "files", u, Absent) EXCEPT !.todo = NoAccount])
  /\ UNCHANGED <<AuthVars, files, keys, nonces>> /\ Note

\* store.DeleteByUser, the last step of RotateKeyPair, RevokeKey, DeleteUser
Invalidate(p, ok) ==
  /\ At(p, "invalidate")
  /\ DeleteByUser(frame[p].user, ok)
  /\ Return(p)
  /\ UNCHANGED <<now, challenges, origin, files, keys, nonces>> /\ Note
-----------------------------------------------------------------------------
Tick ==
  /\ now < MaxTime /\ now' = now + 1
  /\ UNCHANGED <<sessions, challenges, origin, files, frame, keys, nonces>> /\ Note

\* The program stops and is started again: calls and challenges are lost.
Restart ==
  /\ frame' = [p \in Procs |-> NoFrame]
  /\ challenges' = [u \in Users |-> NoChallenge]
  /\ sessions' = IF Durable THEN sessions ELSE EmptyStore
  /\ UNCHANGED <<now, origin, files, keys, nonces>> /\ Note

FileMethods(p, u) ==
  \/ \E w \in Passwords : Register(p, u, w) \/ RevokeKey(p, u, w)
  \/ \E old, new \in Passwords : RotateKeyPair(p, u, old, new)
  \/ DeleteUser(p, u)

\* WriteChallengeFile is CreateChallenge and a write of what it returned;
\* ReadResponseFile is a read of the response and ValidateResponse.  The courier's
\* files are not an account's, and a failing read or write undoes nothing.
AdmissionMethods(p, u) ==
  \/ CreateChallenge(p, u)
  \/ \E sig \in [nonce : 1..nonces, key : 1..keys] : ValidateResponse(p, u, sig)
  \/ \E w \in Passwords : Login(p, u, w)

Step(p) ==
  \/ FileStep(p) \/ FileFails(p) \/ ReadFails(p)
  \/ EncryptNonce(p) \/ PutChallenge(p) \/ VerifyResponse(p)
  \/ VerifyHash(p) \/ VerifyLegacy(p)
  \/ \E t \in Tokens : CreateSession(p, t)
  \/ ExtendSession(p) \/ DropExpired(p)
  \/ RotateReadKey(p) \/ RotateReadJson(p)
  \/ \E ok \in BOOLEAN : Invalidate(p, ok)

Next ==
  \/ \E p \in Procs, u \in Users : FileMethods(p, u) \/ AdmissionMethods(p, u)
  \/ \E p \in Procs, t \in Tokens : RefreshSession(p, t)
  \/ \E p \in Procs : Step(p)
  \/ \E t \in Tokens : RevokeSession(t)
  \/ Tick \/ Restart

Spec == Init /\ [][Next]_vars
-----------------------------------------------------------------------------
FrameOK(f) ==
  /\ f.method \in Methods /\ f.pc \in Pcs /\ f.user \in Users
  /\ {f.pw, f.new} \subseteq Passwords \cup {Absent}
  /\ f.key \in LockedKey \cup {Absent}
  /\ f.sig \in Signature \cup {Absent}
  /\ f.nonce \in Nonces \cup {0}
  /\ f.token \in Tokens \cup {Absent}
  /\ f.pc = "readJson" => f.key # Absent
  /\ f.pc \in {"extend", "drop"} => f.token \in Tokens
  /\ f.pc = "files" <=> f.todo # <<>>
  /\ \A i \in 1..Len(f.todo) : f.todo[i].to \in Content(f.todo[i].ext)

TypeOK ==
  /\ StoreTypeOK
  /\ files \in [Users -> Files]
  /\ challenges \in [Users -> Challenge \cup {NoChallenge}]
  /\ DOMAIN frame = Procs
  /\ \A p \in Procs : frame[p] # NoFrame => FrameOK(frame[p])
  /\ keys \in 0..MaxKeys /\ nonces \in 0..MaxNonces
  /\ origin \in [Tokens -> Nonces \cup {0, Absent}]
  /\ torn \subseteq Users

\* A nonce is spent by the first ValidateResponse that takes it: however
\* responses, new challenges and restarts interleave, no two sessions are
\* created from one challenge (the delete under a.mu in ValidateResponse).
ChallengeUsedOnce ==
  \A s, t \in Tokens : Issued(s) /\ origin[s] = origin[t] /\ origin[s] # 0 => s = t

\* The files of an account that agree: one keypair in .pub, .key and .json,
\* and one password for the private key and for Login.  A legacy account may
\* have no .json.  An account that does not exist has no file at all.
LoginPassword(f) ==
  IF f.hash # Absent THEN f.hash.of ELSE IF f.lthn # Absent THEN f.lthn.of ELSE Absent

Coherent(f) ==
  \/ f = NoFiles
  \/ /\ f.pub # Absent /\ f.rev # Absent
     /\ f.key = [kp |-> f.pub, pw |-> LoginPassword(f)]
     /\ f.json \in {Encrypt(f.pub), Absent}

\* Any sequence of registrations, rotations, revocations, deletions and legacy
\* logins leaves the files of a user in agreement, unless two methods that
\* write them overlapped or one was cut short after its first file.
QuietFilesAgree ==
  \A u \in Users : u \notin torn /\ (\A p \in Procs : ~Rewriting(p, u))
                  => Coherent(files[u])

\* A call of one of the methods S for user u begins in this step.
Starts(u, S) == \E p \in Procs : ~InMethod(p, u, S) /\ InMethod(p, u, S)'

\* A revoked user who has no session, no pending challenge, no call that is past
\* its revocation check and no refresh under way never gets in again, until the
\* account is registered anew or deleted.  A RefreshSession that read a session
\* before the DeleteByUser of RevokeKey stores it again after: while there is
\* one, the user is not shut out yet.
MayAdmit(p, u) ==
  InMethod(p, u, {"Register", "DeleteUser", "Login", "CreateChallenge", "ValidateResponse",
                  "RefreshSession"})

ShutOut(u) ==
  /\ files[u].rev = "revoked" /\ OfUser(u) = {} /\ challenges[u] = NoChallenge
  /\ \A p \in Procs : ~MayAdmit(p, u)

RevokedStayShutOut ==
  [][\A u \in Users : ShutOut(u) =>
       ShutOut(u)' \/ Starts(u, {"Register", "DeleteUser"})]_vars

\* A password that RotateKeyPair replaced does not work again: once .hash holds
\* another one and no call has accepted the old one or is about to write it,
\* only a new rotation, registration or deletion can bring it back.
PasswordDead(u, w) ==
  /\ files[u].hash \notin {Absent, HashPassword(w)}
  /\ \A p \in Procs :
       /\ ~InMethod(p, u, {"Register", "RotateKeyPair", "DeleteUser"})
       /\ InMethod(p, u, {"Login"}) /\ frame[p].pw = w => frame[p].pc = "hash"

\* A keypair that was replaced does not work again.
KeyDead(u, k) ==
  /\ k <= keys /\ files[u].pub # k
  /\ \A p \in Procs :
       /\ ~InMethod(p, u, {"Register", "RotateKeyPair"})
       /\ InMethod(p, u, {"ValidateResponse"}) /\ frame[p].sig.key = k
          => frame[p].pc = "verify"

ReplacedCredentialsStayDead ==
  [][\A u \in Users : \/ Starts(u, {"Register", "RotateKeyPair", "DeleteUser"})
                      \/ /\ \A w \in Passwords : PasswordDead(u, w) => PasswordDead(u, w)'
                         /\ \A k \in Keys : KeyDead(u, k) => KeyDead(u, k)']_vars

\* "The caller must provide the current password (oldPassword) to decrypt existing
\* metadata" (auth.go:487-488): the password of an account, unless it is empty,
\* is changed only by a rotation that was given it, by the deletion of the
\* account, or when methods that write the files overlap.  RotateKeyPair looks at
\* no hash: it relies on .key being locked with the password of .hash.
PasswordNeedsPassword ==
  [][\A u \in Users :
       LET w == LoginPassword(files[u]) IN
       w \notin {Absent, EmptyPassword, LoginPassword(files[u])'} /\ u \notin torn' =>
         \E p \in Procs : \/ InMethod(p, u, {"RotateKeyPair"}) /\ frame[p].pw = w
                         \/ InMethod(p, u, {"DeleteUser"})]_vars

\* RevokeKey "invalidates all sessions for the user" (auth.go:573-575) and a
\* revoked user is rejected: no session is stored for a user whose .rev holds
\* a revocation.
NoSessionForRevoked ==
  [][\A u \in Users : files[u].rev = "revoked" => OfUser(u)' \subseteq OfUser(u)]_vars
=============================================================================
