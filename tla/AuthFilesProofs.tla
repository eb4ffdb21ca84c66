-------------------------- MODULE AuthFilesProofs --------------------------
(***************************************************************************)
(* What holds of the files of an account: between two rewrites they agree, *)
(* and the password changes only under the password.                       *)
(*                                                                         *)
(* Neither is inductive by itself: in the middle of Register, of           *)
(* RotateKeyPair or of DeleteUser the files do not agree.  What is kept    *)
(* all the way is that such a call aims at files that do: those its list   *)
(* does not mention are already so (Aims).  The target is chosen when the  *)
(* call begins, or when a rotation has decrypted .json.  From then until   *)
(* its last write nothing else may touch the account, which is what `torn` *)
(* records; a call cut before its first write leaves the old files, one    *)
(* cut later leaves the user in `torn` as well.                            *)
(***************************************************************************)
EXTENDS AuthenticatorProofs

-----------------------------------------------------------------------------
(* The invariant                                                            *)

\* The methods that write several files, and how many
Rewrites == {"Register", "RotateKeyPair", "DeleteUser"}

Full(method) == CASE method = "Register" -> 5
                  [] method = "RotateKeyPair" -> 4
                  [] method = "DeleteUser" -> 6
                  [] OTHER -> 1

\* f has done some of its writes and has others to do.
Started(f) == f.pc = "files" /\ Len(f.todo) < Full(f.method)

\* Once f has done the rest of its writes, the files a have become t.  A rotation has
\* decrypted .json: the password of a is the one it was given, or the new one already.
Aims(f, a, t) ==
  /\ Coherent(t)
  /\ \A w \in Elems(f.todo) : w.to = t[w.ext]
  /\ \A e \in Exts : a[e] = t[e] \/ \E w \in Elems(f.todo) : w.ext = e
  /\ Len(f.todo) <= Full(f.method)
  /\ f.method = "Register" => t.lthn = Absent /\ a.lthn = Absent /\ a.hash \in {Absent, t.hash}
  /\ f.method = "RotateKeyPair" =>
       t.hash # Absent /\ LoginPassword(a) \in {EmptyPassword, f.pw, t.hash.of}

\* What the call f may rely on, when the files of its user are a
Sound(f, a) ==
  /\ f.method \in Rewrites => Coherent(a) \/ Started(f)
  /\ f.method \in Rewrites /\ f.pc = "files" => \E t \in Files : Aims(f, a, t)
  /\ f.pc = "readJson" => f.key = a.key
  /\ f.method = "RevokeKey" /\ f.pc # "invalidate" => a.pub # Absent
  /\ f.method = "Login" /\ f.pc = "lthn" =>
       a.hash = Absent \/ a.lthn = Absent \/ a.hash.of = a.lthn.of
  /\ f.method = "Login" /\ f.pc = "files" =>
       a.lthn # Absent /\ a.lthn.of = f.pw /\ (a.hash = Absent \/ a.hash.of = f.pw)

\* No two rewrites of u overlap, its files agree when none runs, and its calls are sound.
Settled(u) ==
  /\ ~Overlap(u)
  /\ (\A p \in Procs : ~Rewriting(p, u)) => Coherent(files[u])
  /\ \A p \in Procs : frame[p] # NoFrame /\ frame[p].user = u => Sound(frame[p], files[u])

FilesInv == \A u \in Users \ torn : Settled(u)

-----------------------------------------------------------------------------
(* Files and their targets                                                  *)

\* The call f rewrites the files of u.
RewriteCall(f, u) == f # NoFrame /\ f.user = u /\ f.method \in Rewrites

LEMMA RewritingIs ==
  ASSUME NEW u
  PROVE  \A q \in Procs : /\ Rewriting(q, u) <=> RewriteCall(frame[q], u)
                          /\ Rewriting(q, u)' <=> RewriteCall(frame'[q], u)
BY DEF Rewriting, InMethod, Rewrites, RewriteCall

LEMMA SettledIs ==
  ASSUME NEW u
  PROVE  Settled(u)' <=>
           /\ ~(Overlap(u)')
           /\ (\A q \in Procs : ~(Rewriting(q, u)')) => Coherent(files'[u])
           /\ \A q \in Procs : frame'[q] # NoFrame /\ frame'[q].user = u =>
                               Sound(frame'[q], files'[u])
BY DEF Settled, Coherent, Sound

LEMMA SameFiles ==
  ASSUME NEW a \in Files, NEW b \in Files, \A e \in Exts : a[e] = b[e]
  PROVE  a = b
<1>1. /\ a.pub = b.pub /\ a.key = b.key /\ a.rev = b.rev
      /\ a.json = b.json /\ a.hash = b.hash /\ a.lthn = b.lthn
  BY DEF Exts
<1> QED BY <1>1 DEF Files

-----------------------------------------------------------------------------
(* A step that leaves the files of u                                        *)

\* Nothing of u's files has changed, and at most p has moved.
LEMMA SettledMoves ==
  ASSUME NEW u \in Users, Settled(u), ~Overlap(u)', ~Cut(u), files'[u] = files[u],
         NEW p \in Procs, NEW g, Moves(p, g),
         Rewriting(p, u) => files' = files,
         g = NoFrame \/ frame[p] = NoFrame \/ SameCall(g, frame[p]),
         g # NoFrame /\ g.user = u =>
           \/ Sound(g, files[u])
           \/ /\ frame[p] = NoFrame /\ g.method \in Rewrites
              /\ Coherent(files[u]) => Sound(g, files[u])
  PROVE  Settled(u)'
<1>0. frame'[p] = g /\ \A q \in Procs \ {p} : frame'[q] = frame[q]
  BY DEF Moves
<1>1. \A q \in Procs : /\ Rewriting(q, u) <=> RewriteCall(frame[q], u)
                       /\ Rewriting(q, u)' <=> RewriteCall(frame'[q], u)
  BY RewritingIs
<1>2. ASSUME \A q \in Procs : ~Rewriting(q, u)' PROVE Coherent(files'[u])
  <2>1. \A q \in Procs \ {p} : ~Rewriting(q, u)
    BY <1>0, <1>1, <1>2
  <2>2. CASE ~Rewriting(p, u)
    BY <2>1, <2>2 DEF Settled
  <2>3. CASE Rewriting(p, u)
    <3>1. g = NoFrame /\ files' = files
      BY <1>0, <1>1, <1>2, <2>3 DEF SameCall, RewriteCall
    <3>2. /\ frame[p] # NoFrame /\ frame[p].user = u /\ frame[p].method \in Rewrites
          /\ Sound(frame[p], files[u])
      BY <1>1, <2>3 DEF Settled, RewriteCall
    <3>3. ~Started(frame[p])
      BY <1>0, <3>1, <3>2 DEF Cut, Halfway, At, Started, Full
    <3> QED BY <3>2, <3>3 DEF Sound
  <2> QED BY <2>2, <2>3
<1>3. ASSUME NEW q \in Procs, frame'[q] # NoFrame, frame'[q].user = u
      PROVE  Sound(frame'[q], files'[u])
  <2>1. CASE q # p
    BY <1>0, <1>3, <2>1 DEF Settled
  <2>2. CASE q = p /\ Sound(g, files[u])
    BY <1>0, <2>2
  <2>3. CASE /\ q = p /\ frame[p] = NoFrame /\ g.method \in Rewrites
             /\ Coherent(files[u]) => Sound(g, files[u])
    <3>1. Rewriting(p, u)'
      BY <1>0, <1>1, <1>3, <2>3 DEF RewriteCall
    <3>2. \A r \in Procs \ {p} : ~Rewriting(r, u)'
      BY <3>1 DEF Overlap, Touching
    <3>3. \A r \in Procs : ~Rewriting(r, u)
      BY <1>0, <1>1, <2>3, <3>2 DEF RewriteCall
    <3> QED BY <1>0, <2>3, <3>3 DEF Settled
  <2> QED BY <1>0, <1>3, <2>1, <2>2, <2>3
<1> QED BY <1>2, <1>3, SettledIs

-----------------------------------------------------------------------------
(* The targets of Register, RotateKeyPair and DeleteUser                    *)

LEMMA NoFilesAt == /\ Coherent(NoFiles) /\ NoFiles \in Files
                   /\ \A e \in Exts : NoFiles[e] = Absent
BY DEF Coherent, NoFiles, Files, Exts, Content

\* The files that Register aims at, and those that a rotation of a aims at
Registered(k, w) ==
  [pub |-> k, key |-> [kp |-> k, pw |-> w], rev |-> "placeholder", json |-> Encrypt(k),
   hash |-> HashPassword(w), lthn |-> Absent]
Rotated(a, k, w) ==
  [pub |-> k, key |-> [kp |-> k, pw |-> w], rev |-> a.rev, json |-> Encrypt(k),
   hash |-> HashPassword(w), lthn |-> a.lthn]

LEMMA TargetsCoherent ==
  ASSUME NEW k \in Keys, NEW w \in Passwords, NEW a \in Files
  PROVE  /\ Registered(k, w) \in Files /\ Coherent(Registered(k, w))
         /\ Rotated(a, k, w) \in Files
         /\ a.rev # Absent => Coherent(Rotated(a, k, w))
<1>1. /\ HashPassword(w) # Absent /\ k # Absent /\ "placeholder" # Absent
      /\ HashPassword(w).of = w
  BY AuthenticatorAssumption DEF Keys, HashPassword
<1>2. /\ k \in Content("pub") /\ [kp |-> k, pw |-> w] \in Content("key")
      /\ "placeholder" \in Content("rev") /\ Encrypt(k) \in Content("json")
      /\ HashPassword(w) \in Content("hash") /\ Absent \in Content("lthn")
  BY Contents
<1>3. a.rev \in Content("rev") /\ a.lthn \in Content("lthn")
  BY DEF Files
<1>4. Registered(k, w) \in Files /\ Rotated(a, k, w) \in Files
  BY <1>2, <1>3 DEF Registered, Rotated, Files
<1>5. Coherent(Registered(k, w))
  BY <1>1 DEF Registered, Coherent, LoginPassword
<1>6. a.rev # Absent => Coherent(Rotated(a, k, w))
  BY <1>1 DEF Rotated, Coherent, LoginPassword
<1> QED BY <1>4, <1>5, <1>6

\* Register begins when the user has no .pub, hence no file.
LEMMA RegisterSound ==
  ASSUME NEW u, NEW a \in Files, a.pub = Absent, Coherent(a), NEW k \in Keys,
         NEW w \in Passwords
  PROVE  Sound(Call("Register", "files", u, w, Absent, Absent, 0, NewAccount(k, w)), a)
<1> DEFINE f == Call("Register", "files", u, w, Absent, Absent, 0, NewAccount(k, w))
           t == Registered(k, w)
<1>1. f.method = "Register" /\ f.pc = "files" /\ f.todo = NewAccount(k, w)
  BY DEF Call
<1>2. /\ Elems(f.todo) =
           {Put("pub", k), Put("key", [kp |-> k, pw |-> w]), Put("rev", "placeholder"),
            Put("hash", HashPassword(w)), Put("json", Encrypt(k))}
      /\ Len(f.todo) = 5
  BY <1>1, NewAccountPlan
<1>3. a = NoFiles /\ \A e \in Exts : a[e] = Absent
  BY NoFilesAt DEF Coherent
<1>4. a.hash = Absent /\ a.lthn = Absent
  BY <1>3 DEF Exts
<1> HIDE DEF f
<1>5. \A x \in Elems(f.todo) : x.to = t[x.ext]
  BY <1>2 DEF Put, Registered
<1>6. \A e \in Exts : e = "lthn" \/ \E x \in Elems(f.todo) : x.ext = e
  BY <1>2 DEF Put, Exts
<1>7. t.lthn = Absent /\ t \in Files /\ Coherent(t)
  BY TargetsCoherent DEF Registered
<1> HIDE DEF t
<1>8. Aims(f, a, t)
  BY <1>1, <1>2, <1>3, <1>4, <1>5, <1>6, <1>7 DEF Aims, Full, Exts
<1>9. Sound(f, a)
  BY <1>1, <1>7, <1>8 DEF Sound
<1> QED BY <1>9 DEF f

\* DeleteUser aims at no files, whatever there was.
LEMMA DeleteSound ==
  ASSUME NEW u, NEW a \in Files, Coherent(a)
  PROVE  Sound(Call("DeleteUser", "files", u, Absent, Absent, Absent, 0, NoAccount), a)
<1> DEFINE f == Call("DeleteUser", "files", u, Absent, Absent, Absent, 0, NoAccount)
<1>1. f.method = "DeleteUser" /\ f.pc = "files" /\ f.todo = NoAccount
  BY DEF Call
<1>2. /\ Elems(f.todo) = {Put(e, Absent) : e \in Exts} /\ Len(f.todo) = 6
  BY <1>1, NoAccountPlan
<1> HIDE DEF f
<1>3. \A x \in Elems(f.todo) : x.to = NoFiles[x.ext]
  BY <1>2, NoFilesAt DEF Put
<1>4. ASSUME NEW o \in Exts PROVE \E x \in Elems(f.todo) : x.ext = o
  <2>1. Put(o, Absent) \in Elems(f.todo) /\ Put(o, Absent).ext = o
    BY <1>2 DEF Put
  <2> QED BY <2>1
<1>5. Aims(f, a, NoFiles)
  BY <1>1, <1>2, <1>3, <1>4, NoFilesAt DEF Aims, Full
<1>6. Sound(f, a)
  BY <1>1, <1>5, NoFilesAt DEF Sound
<1> QED BY <1>6 DEF f

\* The old .key opened .json under the old password: it is the key of .pub, and its
\* password is the one of .hash (or is empty).
LEMMA RotateSound ==
  ASSUME NEW a \in Files, Coherent(a), NEW f \in Frame, f.method = "RotateKeyPair",
         f.key = a.key, f.key # Absent, Decrypts(a.json, f.key, f.pw),
         NEW k \in Keys, f.new \in Passwords
  PROVE  Sound(With(f, "files", f.key, f.nonce, RotatedAccount(k, f.new)), a)
<1> DEFINE g == With(f, "files", f.key, f.nonce, RotatedAccount(k, f.new))
           t == Rotated(a, k, f.new)
<1>1. /\ g.method = "RotateKeyPair" /\ g.pc = "files" /\ g.pw = f.pw
      /\ g.todo = RotatedAccount(k, f.new)
  BY WithIs
<1>2. /\ Elems(g.todo) = {Put("pub", k), Put("key", [kp |-> k, pw |-> f.new]),
                          Put("json", Encrypt(k)), Put("hash", HashPassword(f.new))}
      /\ Len(g.todo) = 4
  BY <1>1, RotatedPlan
<1> HIDE DEF g
<1>3. a # NoFiles
  BY NoFilesAt DEF Exts
<1>4. a.rev # Absent /\ a.key = [kp |-> a.pub, pw |-> LoginPassword(a)]
  BY <1>3 DEF Coherent
<1>5. LoginPassword(a) \in {EmptyPassword, f.pw}
  BY <1>4 DEF Decrypts, Unlocks
<1>6. \A x \in Elems(g.todo) : x.to = t[x.ext]
  BY <1>2 DEF Put, Rotated
<1>7. \A e \in Exts : a[e] = t[e] \/ \E x \in Elems(g.todo) : x.ext = e
  BY <1>2 DEF Put, Exts, Rotated
<1>8. t \in Files /\ Coherent(t) /\ t.hash # Absent
  BY <1>4, TargetsCoherent, AuthenticatorAssumption DEF Rotated
<1> HIDE DEF t
<1>9. Aims(g, a, t)
  BY <1>1, <1>2, <1>5, <1>6, <1>7, <1>8 DEF Aims, Full
<1>10. Sound(g, a)
  BY <1>1, <1>8, <1>9 DEF Sound
<1> QED BY <1>10 DEF g

-----------------------------------------------------------------------------
(* A step that writes a file of u                                           *)

\* What a step of Medium.Write or Delete on an account's files is about
LEMMA WriteIs ==
  ASSUME AuthInv, NEW p \in Procs, FileStep(p), NEW f, f = frame[p],
         NEW u, u = f.user, NEW do, do = Head(f.todo)
  PROVE  /\ u \in Users /\ f # NoFrame /\ f \in Frame /\ Shape(f) /\ f.pc = "files"
         /\ f.method \in Rewrites \cup {"Login", "RevokeKey"}
         /\ files[u] \in Files /\ files'[u] \in Files
         /\ Moves(p, Advanced(f))
         /\ f.todo \in Seq(Write) /\ f.todo # <<>>
         /\ do \in Elems(f.todo) /\ do.ext \in Exts /\ Planned(f, do)
         /\ files'[u][do.ext] = do.to
         /\ \A e \in Exts \ {do.ext} : files'[u][e] = files[u][e]
         /\ \A v \in Users \ {u} : files'[v] = files[v]
<1>1. At(p, "files") /\ NextFile(p) /\ Types
  BY DEF FileStep, AuthInv
<1>2. /\ f # NoFrame /\ f \in Frame /\ Shape(f) /\ f.pc = "files"
      /\ u \in Users /\ files[u] \in Files
  BY <1>1, Running DEF At, AuthInv, Shapes
<1>3. f.method \in Rewrites \cup {"Login", "RevokeKey"}
  BY <1>2, MethodAt DEF Rewrites
<1>4. f.todo \in Seq(Write) /\ f.todo # <<>> /\ do \in Elems(f.todo) /\ Planned(f, do)
  BY <1>1, HeadIsPlanned
<1>5. Moves(p, Advanced(f))
  BY <1>1, <1>4, NextFileMoves
<1>6. /\ do.ext \in Exts /\ files' \in [Users -> Files] /\ files'[u][do.ext] = do.to
      /\ \A e \in Exts \ {do.ext} : files'[u][e] = files[u][e]
      /\ \A v \in Users \ {u} : files'[v] = files[v]
  BY FileWritten
<1> QED BY <1>2, <1>3, <1>4, <1>5, <1>6

\* One write of a method that rewrites the files: it comes nearer to its
\* target, and the last one arrives.
LEMMA RewriteSound ==
  ASSUME NEW f \in Frame, Shape(f), f.method \in Rewrites, f.pc = "files",
         NEW a \in Files, NEW b \in Files, Sound(f, a),
         b[Head(f.todo).ext] = Head(f.todo).to,
         \A e \in Exts \ {Head(f.todo).ext} : b[e] = a[e]
  PROVE  /\ Advanced(f) # NoFrame => Sound(Advanced(f), b)
         /\ Advanced(f) = NoFrame => Coherent(b)
<1> DEFINE do == Head(f.todo)
           rest == Tail(f.todo)
<1>1. PICK t \in Files : Aims(f, a, t)
  BY DEF Sound
<1>2. /\ f.todo \in Seq(Write) /\ f.todo # <<>> /\ Elems(f.todo) = {do} \cup Elems(rest)
      /\ Len(rest) = Len(f.todo) - 1 /\ rest \in Seq(Write) /\ do \in Write
      /\ Len(f.todo) \in Nat
  <2>1. f.todo \in Seq(Write) /\ f.todo # <<>>
    BY DEF Frame, Write, Shape
  <2> QED BY <2>1, TailElems
<1>3. do.ext \in Exts /\ do.to = t[do.ext] /\ Planned(f, do)
  BY <1>1, <1>2 DEF Aims, Write, Shape
<1>4. b[do.ext] = t[do.ext] /\ \A e \in Exts \ {do.ext} : b[e] = a[e]
  BY <1>3
<1> HIDE DEF do, rest
<1>5. \A e \in Exts : b[e] = t[e] \/ \E w \in Elems(rest) : w.ext = e
  BY <1>1, <1>2, <1>4 DEF Aims
<1>6. CASE Len(f.todo) > 1
  <2> DEFINE g == With(f, f.pc, f.key, f.nonce, rest)
  <2>1. g.method = f.method /\ g.pc = "files" /\ g.pw = f.pw /\ g.todo = rest
    BY WithIs
  <2>2. Advanced(f) = g
    BY <1>6 DEF Advanced, rest
  <2> HIDE DEF g
  <2>3. f.method = "Register" => b.lthn = Absent /\ b.hash \in {Absent, t.hash}
    <3>1. b["lthn"] \in {a["lthn"], t["lthn"]} /\ b["hash"] \in {a["hash"], t["hash"]}
      BY <1>4 DEF Exts
    <3> QED BY <1>1, <3>1 DEF Aims
  <2>4. f.method = "RotateKeyPair" => LoginPassword(b) \in {EmptyPassword, f.pw, t.hash.of}
    <3> SUFFICES ASSUME f.method = "RotateKeyPair"
                 PROVE  LoginPassword(b) \in {EmptyPassword, f.pw, t.hash.of}
      OBVIOUS
    <3>1. /\ do.ext # "lthn" /\ t.hash # Absent
          /\ LoginPassword(a) \in {EmptyPassword, f.pw, t.hash.of}
      BY <1>1, <1>3 DEF Planned, Aims
    <3>2. b["lthn"] = a["lthn"] /\ b["hash"] \in {a["hash"], t["hash"]}
      BY <1>4, <3>1 DEF Exts
    <3>3. CASE b.hash = t.hash
      BY <3>1, <3>3 DEF LoginPassword
    <3>4. CASE b.hash = a.hash
      BY <3>1, <3>2, <3>4 DEF LoginPassword
    <3> QED BY <3>2, <3>3, <3>4
  <2>5. Aims(g, b, t)
    BY <1>1, <1>2, <1>5, <2>1, <2>3, <2>4 DEF Aims, Full, Rewrites
  <2>6. Started(g)
    BY <1>1, <1>2, <2>1 DEF Aims, Started, Full, Rewrites
  <2>7. Sound(g, b)
    BY <2>1, <2>5, <2>6 DEF Sound, Rewrites
  <2>8. g # NoFrame
    <3>1. g \in Frame
      BY <1>2 DEF g, With, Frame, Write
    <3> QED BY <3>1, FrameAssumption
  <2> QED BY <2>2, <2>7, <2>8
<1>7. CASE ~(Len(f.todo) > 1)
  <2>1. Elems(rest) = {}
    BY <1>2, <1>7 DEF Elems
  <2>2. b = t
    BY <1>5, <2>1, SameFiles
  <2>3. Coherent(b)
    BY <1>1, <2>2 DEF Aims
  <2>4. ASSUME Advanced(f) # NoFrame
        PROVE  Advanced(f).method = f.method /\ Advanced(f).pc = "invalidate"
    BY <1>7, <2>4, WithIs DEF Advanced, After, Rewrites
  <2>5. Advanced(f) # NoFrame => Sound(Advanced(f), b)
    BY <2>3, <2>4 DEF Sound, Rewrites
  <2> QED BY <2>3, <2>5
<1> QED BY <1>6, <1>7

\* RevokeKey's .rev and Login's .hash agree with the other files.
LEMMA SmallWriteSound ==
  ASSUME NEW f \in Frame, f.method \in {"Login", "RevokeKey"}, f.pc = "files",
         NEW do, Planned(f, do), do.ext \in Exts, f.pw \in Passwords,
         NEW a \in Files, NEW b \in Files, Sound(f, a), Coherent(a),
         b[do.ext] = do.to, \A e \in Exts \ {do.ext} : b[e] = a[e]
  PROVE  /\ Coherent(b) /\ LoginPassword(b) = LoginPassword(a)
         /\ b.pub = a.pub /\ b.key = a.key /\ b.lthn = a.lthn
         /\ b.hash = a.hash \/ (a.lthn # Absent /\ b.hash.of = a.lthn.of)
<1>1. CASE f.method = "RevokeKey"
  <2>1. do.ext = "rev" /\ b.rev = "revoked" /\ a.pub # Absent
    BY <1>1 DEF Planned, Put, Sound
  <2>2. /\ b.pub = a.pub /\ b.key = a.key /\ b.json = a.json /\ b.hash = a.hash
        /\ b.lthn = a.lthn
    BY <2>1 DEF Exts
  <2>3. LoginPassword(b) = LoginPassword(a)
    BY <2>2 DEF LoginPassword
  <2>4. a # NoFiles
    BY <2>1, NoFilesAt DEF Exts
  <2>5. Coherent(b)
    BY <2>1, <2>2, <2>3, <2>4, AuthenticatorAssumption DEF Coherent
  <2> QED BY <2>2, <2>3, <2>5
<1>2. CASE f.method = "Login"
  <2>1. /\ do.ext = "hash" /\ b.hash = HashPassword(f.pw)
        /\ a.lthn # Absent /\ a.lthn.of = f.pw /\ (a.hash = Absent \/ a.hash.of = f.pw)
    BY <1>2 DEF Planned, Put, Sound
  <2>2. /\ b.pub = a.pub /\ b.key = a.key /\ b.json = a.json /\ b.rev = a.rev
        /\ b.lthn = a.lthn
    BY <2>1 DEF Exts
  <2>3. b.hash # Absent /\ b.hash.of = f.pw
    BY <2>1, AuthenticatorAssumption DEF HashPassword
  <2>4. LoginPassword(b) = LoginPassword(a)
    BY <2>1, <2>2, <2>3 DEF LoginPassword
  <2>5. a # NoFiles
    BY <2>1, NoFilesAt DEF Exts
  <2>6. Coherent(b)
    BY <2>2, <2>4, <2>5 DEF Coherent
  <2> QED BY <2>1, <2>2, <2>3, <2>4, <2>6
<1> QED BY <1>1, <1>2

\* What a write of a call leaves another call of the same user with
LEMMA OtherSound ==
  ASSUME NEW f \in Frame, Shape(f), NEW a, NEW b, Sound(f, a),
         \/ /\ f.method \notin Rewrites \cup {"RevokeKey"}
            /\ f.method = "Login" => f.pc \notin {"lthn", "files"}
         \/ /\ f.method \notin Rewrites /\ b.pub = a.pub /\ b.lthn = a.lthn
            /\ b.hash = a.hash \/ b.hash.of = a.lthn.of
  PROVE  Sound(f, b)
<1>1. f.pc = "readJson" => f.method \in Rewrites
  BY MethodAt DEF Rewrites
<1> QED BY <1>1 DEF Sound

\* A write of u's own call
LEMMA FileStepSettles ==
  ASSUME AuthInv, NEW p \in Procs, FileStep(p), NEW u \in Users, u = frame[p].user,
         Settled(u), ~Overlap(u)'
  PROVE  Settled(u)'
<1> DEFINE f == frame[p]
           do == Head(f.todo)
           a == files[u]
           b == files'[u]
           g == Advanced(f)
<1>1. /\ f # NoFrame /\ f \in Frame /\ Shape(f) /\ f.pc = "files" /\ Sound(f, a)
      /\ f.method \in Rewrites \cup {"Login", "RevokeKey"}
      /\ a \in Files /\ b \in Files
      /\ do.ext \in Exts /\ Planned(f, do) /\ b[do.ext] = do.to
      /\ \A e \in Exts \ {do.ext} : b[e] = a[e]
  BY WriteIs DEF Settled
<1>2. frame'[p] = g /\ \A q \in Procs \ {p} : frame'[q] = frame[q]
  BY WriteIs DEF Moves
<1>3. \A q \in Procs : /\ frame[q] # NoFrame => frame[q] \in Frame /\ Shape(frame[q])
                       /\ frame[q] # NoFrame /\ frame[q].user = u => Sound(frame[q], a)
  BY Running DEF AuthInv, Shapes, Settled
<1>4. g # NoFrame => g.method = f.method /\ g.user = u /\ g.pw = f.pw
  BY AdvancedIs
<1>5. \A q \in Procs : /\ Rewriting(q, u) <=> RewriteCall(frame[q], u)
                       /\ Rewriting(q, u)' <=> RewriteCall(frame'[q], u)
  BY RewritingIs
<1>6. Settled(u)' <=> /\ ~(Overlap(u)')
                      /\ (\A q \in Procs : ~(Rewriting(q, u)')) => Coherent(b)
                      /\ \A q \in Procs : frame'[q] # NoFrame /\ frame'[q].user = u =>
                                          Sound(frame'[q], b)
  BY SettledIs
<1> HIDE DEF f, do, a, b, g
<1>7. CASE f.method \in Rewrites
  <2>1. \A q \in Procs \ {p} : ~Touching(q, u)
    <3>1. Rewriting(p, u)
      BY <1>1, <1>5, <1>7 DEF f, RewriteCall
    <3> QED BY <3>1 DEF Settled, Overlap
  <2>2. (g # NoFrame => Sound(g, b)) /\ (g = NoFrame => Coherent(b))
    BY <1>1, <1>7, RewriteSound DEF g, do
  <2>3. ASSUME NEW q \in Procs \ {p}, frame[q] # NoFrame, frame[q].user = u
        PROVE  Sound(frame[q], b)
    <3>1. /\ frame[q].method \notin Rewrites \cup {"RevokeKey"}
          /\ frame[q].method = "Login" => frame[q].pc \notin {"lthn", "files"}
      BY <1>5, <2>1, <2>3 DEF Touching, InMethod, RewriteCall
    <3> QED BY <1>3, <2>3, <3>1, OtherSound
  <2>4. g # NoFrame => Rewriting(p, u)'
    BY <1>2, <1>4, <1>5, <1>7 DEF RewriteCall
  <2> QED BY <1>2, <1>6, <2>2, <2>3, <2>4
<1>8. CASE f.method \in {"Login", "RevokeKey"}
  <2>1. Touching(p, u) /\ f.pw \in Passwords
    BY <1>1, <1>8 DEF Touching, InMethod, f, Shape
  <2>2. \A q \in Procs : ~Rewriting(q, u)
    <3>1. ~Rewriting(p, u)
      BY <1>5, <1>8 DEF f, Rewrites, RewriteCall
    <3> QED BY <2>1, <3>1 DEF Settled, Overlap
  <2>3. Coherent(a)
    BY <2>2 DEF Settled, a
  <2>4. /\ Coherent(b) /\ b.pub = a.pub /\ b.lthn = a.lthn
        /\ b.hash = a.hash \/ (a.lthn # Absent /\ b.hash.of = a.lthn.of)
    BY <1>1, <1>8, <2>1, <2>3, SmallWriteSound
  <2>5. ASSUME NEW q \in Procs, frame[q] # NoFrame, frame[q].user = u PROVE Sound(frame[q], b)
    <3>1. frame[q].method \notin Rewrites
      BY <1>5, <2>2, <2>5 DEF RewriteCall
    <3> QED BY <1>3, <2>4, <2>5, <3>1, OtherSound
  <2>6. g # NoFrame => Sound(g, b)
    <3> SUFFICES ASSUME g # NoFrame PROVE Sound(g, b)
      OBVIOUS
    <3>1. Sound(f, b)
      BY <1>1, <2>5 DEF f
    <3>2. g.method = f.method /\ g.pw = f.pw /\ g.pc \in {"files", "session", "invalidate"}
      BY <1>1, <1>4, <1>8, WithIs DEF g, Advanced, After
    <3> QED BY <1>1, <1>8, <3>1, <3>2 DEF Sound, Rewrites
  <2> QED BY <1>2, <1>6, <2>4, <2>5, <2>6
<1> QED BY <1>1, <1>7, <1>8

-----------------------------------------------------------------------------
(* Every step keeps the invariant                                           *)

\* Everything but a write: no file changes.
LEMMA QuietStep ==
  ASSUME AuthInv, NEW p \in Procs, Step(p), ~FileStep(p), NEW u \in Users, Settled(u),
         ~Overlap(u)', ~Cut(u)
  PROVE  Settled(u)'
<1> DEFINE f == frame[p]
           a == files[u]
<1>0. /\ f # NoFrame /\ f \in Frame /\ Shape(f) /\ a \in Files /\ Types
      /\ f.user = u => Sound(f, a)
  BY StepOfCall DEF AuthInv, Types, Settled
<1>1. files' = files
  BY StepEffects
<1>2. ASSUME NEW g, Moves(p, g), g = NoFrame \/ SameCall(g, f),
             g # NoFrame /\ f.user = u => Sound(g, a)
      PROVE  Settled(u)'
  <2>1. g # NoFrame => g.user = f.user
    BY <1>2 DEF SameCall
  <2> QED BY <1>1, <1>2, <2>1, SettledMoves
<1>3. ASSUME Return(p) PROVE Settled(u)'
  BY <1>0, <1>2, <1>3, ReturnMoves
<1>4. ASSUME NEW pc \in Pcs, NEW key, NEW nonce, NEW todo,
             Moves(p, With(f, pc, key, nonce, todo)),
             f.user = u => Sound(With(f, pc, key, nonce, todo), a)
      PROVE  Settled(u)'
  <2>1. SameCall(With(f, pc, key, nonce, todo), f)
    BY WithIs DEF SameCall
  <2> QED BY <1>2, <1>4, <2>1
<1>5. ASSUME f.method \in {"CreateChallenge", "ValidateResponse"},
             NEW pc \in Pcs \ {"readJson"}, NEW key, NEW nonce, NEW todo
      PROVE  Sound(With(f, pc, key, nonce, todo), a)
  BY <1>5, WithIs DEF Sound, Rewrites
<1>6. ASSUME At(p, "files"), f.method = "Login", NextFile(p) PROVE Settled(u)'
  <2>1. Moves(p, Advanced(f)) /\ f.pc = "files"
    BY <1>0, <1>6, HeadIsPlanned, NextFileMoves DEF At
  <2>2. Advanced(f) = NoFrame \/ SameCall(Advanced(f), f)
    BY AdvancedIs DEF SameCall
  <2>3. Advanced(f) # NoFrame => Advanced(f).pc \in {"files", "session"}
    BY <1>6, <2>1, WithIs DEF Advanced, After
  <2>4. Advanced(f) # NoFrame /\ f.user = u => Sound(Advanced(f), a)
    BY <1>0, <1>6, <2>1, <2>2, <2>3 DEF Sound, SameCall, Rewrites
  <2> QED BY <1>2, <2>1, <2>2, <2>4
<1>7. ASSUME NEW legacy \in BOOLEAN, Accepted(p, legacy),
             At(p, "hash") \/ At(p, "lthn"),
             legacy /\ f.user = u => f.pc = "lthn" /\ LthnVerify(f.pw, a.lthn)
      PROVE  Settled(u)'
  <2>1. f.method \in {"Login", "RevokeKey"}
    BY <1>0, <1>7, MethodAt DEF At
  <2>2. f.pw \in Passwords /\ f.pc \in {"hash", "lthn"}
    BY <1>0, <1>7, <2>1 DEF Shape, At
  <2>3. {"files", "session"} \subseteq Pcs
    BY DEF Pcs
  <2>4. CASE /\ f.method = "RevokeKey"
             /\ Moves(p, With(f, "files", f.key, f.nonce, <<Put("rev", "revoked")>>))
    <3>1. f.user = u => Sound(With(f, "files", f.key, f.nonce, <<Put("rev", "revoked")>>), a)
      BY <1>0, <2>2, <2>4, WithIs DEF Sound, Rewrites
    <3> QED BY <1>4, <2>3, <2>4, <3>1
  <2>5. CASE /\ f.method = "Login" /\ legacy
             /\ Moves(p, With(f, "files", f.key, f.nonce, <<Put("hash", HashPassword(f.pw))>>))
    <3>1. f.user = u => a.lthn # Absent /\ a.lthn.of = f.pw
      BY <1>7, <2>2, <2>5, AuthenticatorAssumption DEF LthnVerify, LthnHash
    <3>2. f.user = u =>
            Sound(With(f, "files", f.key, f.nonce, <<Put("hash", HashPassword(f.pw))>>), a)
      BY <1>0, <1>7, <2>5, <3>1, WithIs DEF Sound, Rewrites
    <3> QED BY <1>4, <2>3, <2>5, <3>2
  <2>6. CASE f.method = "Login" /\ Moves(p, With(f, "session", f.key, f.nonce, f.todo))
    <3>1. Sound(With(f, "session", f.key, f.nonce, f.todo), a)
      BY <2>6, WithIs DEF Sound, Rewrites
    <3> QED BY <1>4, <2>3, <2>6, <3>1
  <2> QED BY <1>0, <1>7, <2>1, <2>2, <2>4, <2>5, <2>6, AcceptedMoves
<1>8. ASSUME FileFails(p) PROVE Settled(u)'
  BY <1>3, <1>6, <1>8 DEF FileFails
<1>9. ASSUME EncryptNonce(p) PROVE Settled(u)'
  <2>1. f.method = "CreateChallenge" /\ "put" \in Pcs
    BY <1>0, <1>9, MethodAt DEF EncryptNonce, At, Pcs
  <2>2. \/ Moves(p, NoFrame)
        \/ Moves(p, With(f, "put", f.key, nonces + 1, f.todo))
    BY <1>0, <1>9, EncryptNonceMoves
  <2>3. Sound(With(f, "put", f.key, nonces + 1, f.todo), a)
    BY <1>5, <2>1
  <2> QED BY <1>2, <1>4, <2>1, <2>2, <2>3
<1>10. ASSUME VerifyResponse(p) PROVE Settled(u)'
  <2>1. f.method = "ValidateResponse" /\ "session" \in Pcs
    BY <1>0, <1>10, MethodAt DEF VerifyResponse, At, Pcs
  <2>2. ASSUME GoTo(p, "session") PROVE Settled(u)'
    <3>1. Moves(p, With(f, "session", f.key, f.nonce, f.todo))
      BY <1>0, <2>1, <2>2, GoToMoves
    <3>2. Sound(With(f, "session", f.key, f.nonce, f.todo), a)
      BY <1>5, <2>1
    <3> QED BY <1>4, <2>1, <3>1, <3>2
  <2> QED BY <1>3, <1>10, <2>2 DEF VerifyResponse
<1>11. ASSUME VerifyHash(p) PROVE Settled(u)'
  <2>1. At(p, "hash") /\ f.pc = "hash" /\ f.method \in {"Login", "RevokeKey"} /\ "lthn" \in Pcs
    BY <1>0, <1>11, MethodAt DEF VerifyHash, At, Pcs
  <2>2. ASSUME GoTo(p, "lthn"), files[f.user].hash = Absent PROVE Settled(u)'
    <3>1. Moves(p, With(f, "lthn", f.key, f.nonce, f.todo))
      BY <1>0, <2>1, <2>2, GoToMoves
    <3>2. f.user = u => Sound(With(f, "lthn", f.key, f.nonce, f.todo), a)
      BY <1>0, <2>1, <2>2, WithIs DEF Sound, Rewrites
    <3> QED BY <1>4, <2>1, <3>1, <3>2
  <2> QED BY <1>3, <1>7, <1>11, <2>1, <2>2 DEF VerifyHash
<1>12. ASSUME VerifyLegacy(p) PROVE Settled(u)'
  <2>1. At(p, "lthn") /\ f.pc = "lthn"
    BY <1>12 DEF VerifyLegacy, At
  <2> QED BY <1>3, <1>7, <1>12, <2>1 DEF VerifyLegacy
<1>13. ASSUME RotateReadKey(p) PROVE Settled(u)'
  <2>1. f.pc = "readKey" /\ f.method = "RotateKeyPair" /\ "readJson" \in Pcs
    BY <1>0, <1>13, MethodAt DEF RotateReadKey, At, Pcs
  <2>2. \/ Moves(p, NoFrame)
        \/ Moves(p, With(f, "readJson", files[f.user].key, f.nonce, f.todo))
    BY <1>0, <1>13, RotateReadKeyMoves
  <2>3. f.user = u => Sound(With(f, "readJson", files[f.user].key, f.nonce, f.todo), a)
    BY <1>0, <2>1, WithIs DEF Sound, Rewrites, Started
  <2> QED BY <1>2, <1>4, <2>1, <2>2, <2>3
<1>14. ASSUME RotateReadJson(p) PROVE Settled(u)'
  <2>1. /\ f.pc = "readJson" /\ f.method = "RotateKeyPair" /\ "files" \in Pcs
        /\ f.key # Absent /\ f.new \in Passwords
    BY <1>0, <1>14, MethodAt DEF RotateReadJson, At, Pcs, Shape
  <2>2. \/ Moves(p, NoFrame)
        \/ /\ keys + 1 \in Keys /\ RotateDecrypts(p)
           /\ Moves(p, With(f, "files", f.key, f.nonce, RotatedAccount(keys + 1, f.new)))
    BY <1>0, <1>14, <2>1, RotateReadJsonMoves
  <2>3. f.user = u => Coherent(a) /\ f.key = a.key
    BY <1>0, <2>1 DEF Sound, Rewrites, Started
  <2>4. f.user = u /\ RotateDecrypts(p) /\ keys + 1 \in Keys =>
          Sound(With(f, "files", f.key, f.nonce, RotatedAccount(keys + 1, f.new)), a)
    BY <1>0, <2>1, <2>3, RotateSound DEF RotateDecrypts
  <2> QED BY <1>2, <1>4, <2>1, <2>2, <2>4
<1>15. ASSUME \/ ReadFails(p) \/ PutChallenge(p) \/ \E t \in Tokens : CreateSession(p, t)
              \/ ExtendSession(p) \/ DropExpired(p) \/ \E ok \in BOOLEAN : Invalidate(p, ok)
       PROVE  Settled(u)'
  BY <1>3, <1>15
     DEF ReadFails, PutChallenge, CreateSession, ExtendSession, DropExpired, Invalidate
<1> QED BY <1>8, <1>9, <1>10, <1>11, <1>12, <1>13, <1>14, <1>15, Zenon DEF Step

LEMMA StepSettles ==
  ASSUME AuthInv, NEW p \in Procs, Step(p), NEW u \in Users, Settled(u), ~Overlap(u)', ~Cut(u)
  PROVE  Settled(u)'
<1>1. CASE FileStep(p) /\ frame[p].user # u
  <2> DEFINE g == Advanced(frame[p])
  <2>1. Moves(p, g) /\ files'[u] = files[u]
    BY <1>1, WriteIs
  <2>2. g = NoFrame \/ SameCall(g, frame[p])
    BY AdvancedIs DEF SameCall
  <2>3. ~Rewriting(p, u) /\ (g # NoFrame => g.user # u)
    BY <1>1, <2>2 DEF Rewriting, InMethod, SameCall
  <2> HIDE DEF g
  <2> QED BY <2>1, <2>2, <2>3, SettledMoves
<1>2. CASE FileStep(p) /\ frame[p].user = u
  BY <1>2, FileStepSettles
<1> QED BY <1>1, <1>2, QuietStep

\* A call begins.
LEMMA CallSettles ==
  ASSUME AuthInv, NEW p \in Procs, NEW v \in Users, FileMethods(p, v) \/ AdmissionMethods(p, v),
         NEW u \in Users, Settled(u), ~Overlap(u)', ~Cut(u)
  PROVE  Settled(u)'
<1> DEFINE a == files[u]
<1>0. Types /\ a \in Files
  BY DEF AuthInv, Types
<1>1. files' = files
  BY Zenon DEF FileMethods, AdmissionMethods, Register, RevokeKey, RotateKeyPair, DeleteUser,
         CreateChallenge, ValidateResponse, Login, AuthVars
<1>2. ASSUME NEW g, Enters(p, g),
             g.user = u => \/ Sound(g, a)
                           \/ g.method \in Rewrites /\ (Coherent(a) => Sound(g, a))
      PROVE  Settled(u)'
  BY <1>1, <1>2, SettledMoves DEF Enters
<1>3. ASSUME NEW w \in Passwords, Register(p, v, w) PROVE Settled(u)'
  <2> DEFINE g == Call("Register", "files", v, w, Absent, Absent, 0, NewAccount(keys + 1, w))
  <2>1. Enters(p, g) /\ keys + 1 \in Keys /\ (v = u => a.pub = Absent)
    BY <1>0, <1>3, RegisterMoves DEF Register
  <2>2. g.user = v /\ g.method \in Rewrites
    BY DEF Call, Rewrites
  <2>3. v = u /\ Coherent(a) => Sound(g, a)
    BY <1>0, <2>1, RegisterSound
  <2> HIDE DEF g
  <2> QED BY <1>2, <2>1, <2>2, <2>3
<1>4. ASSUME DeleteUser(p, v) PROVE Settled(u)'
  <2> DEFINE g == Call("DeleteUser", "files", v, Absent, Absent, Absent, 0, NoAccount)
  <2>1. Enters(p, g)
    BY <1>0, <1>4, DeleteUserMoves
  <2>2. g.user = v /\ g.method \in Rewrites
    BY DEF Call, Rewrites
  <2>3. Coherent(a) => Sound(g, a)
    BY <1>0, DeleteSound
  <2> HIDE DEF g
  <2> QED BY <1>2, <2>1, <2>2, <2>3
<1>5. ASSUME NEW old \in Passwords, NEW new \in Passwords, RotateKeyPair(p, v, old, new)
      PROVE  Settled(u)'
  <2> DEFINE g == Call("RotateKeyPair", "readKey", v, old, new, Absent, 0, <<>>)
  <2>1. Enters(p, g)
    BY <1>0, <1>5, RotateKeyPairMoves
  <2>2. g.user = v /\ g.method = "RotateKeyPair" /\ g.pc = "readKey"
    BY DEF Call
  <2> HIDE DEF g
  <2>3. Coherent(a) => Sound(g, a)
    BY <2>2 DEF Sound
  <2> QED BY <1>2, <2>1, <2>2, <2>3 DEF Rewrites
<1>6. ASSUME NEW w \in Passwords, RevokeKey(p, v, w) PROVE Settled(u)'
  <2> DEFINE g == Call("RevokeKey", "hash", v, w, Absent, Absent, 0, <<>>)
  <2>1. Enters(p, g) /\ (v = u => a.pub # Absent)
    BY <1>0, <1>6, RevokeKeyMoves DEF RevokeKey
  <2>2. g.user = v /\ g.method = "RevokeKey" /\ g.pc = "hash"
    BY DEF Call
  <2> HIDE DEF g
  <2> QED BY <1>2, <2>1, <2>2 DEF Sound, Rewrites
<1>7. ASSUME NEW g, Enters(p, g), g.method \in {"CreateChallenge", "Login", "ValidateResponse"},
             g.pc \in {"encrypt", "hash", "verify"}
      PROVE  Settled(u)'
  <2>1. Sound(g, a)
    BY <1>7 DEF Sound, Rewrites
  <2> QED BY <1>2, <1>7, <2>1
<1>8. ASSUME CreateChallenge(p, v) PROVE Settled(u)'
  BY <1>0, <1>7, <1>8, CreateChallengeMoves DEF Call
<1>9. ASSUME NEW w \in Passwords, Login(p, v, w) PROVE Settled(u)'
  BY <1>0, <1>7, <1>9, LoginMoves DEF Call
<1>10. ASSUME NEW sig \in [nonce : 1..nonces, key : 1..keys], ValidateResponse(p, v, sig)
       PROVE  Settled(u)'
  <2>1. ASSUME frame' = frame PROVE Settled(u)'
    BY <1>1, <2>1 DEF Settled, Coherent, Sound, Rewriting, InMethod
  <2> QED BY <1>0, <1>7, <1>10, <2>1, ValidateResponseMoves DEF Call
<1> QED BY <1>3, <1>4, <1>5, <1>6, <1>8, <1>9, <1>10, Zenon DEF FileMethods, AdmissionMethods

\* A refresh that begins has no part in the files.
LEMMA RefreshSettles ==
  ASSUME AuthInv, NEW p \in Procs, NEW t \in Tokens, RefreshSession(p, t),
         NEW u \in Users, Settled(u), ~Overlap(u)', ~Cut(u)
  PROVE  Settled(u)'
<1>1. PICK pc \in {"extend", "drop"} : Enters(p, Refresh(pc, sessions[t].user, t))
  BY RefreshSessionMoves DEF AuthInv
<1> DEFINE g == Refresh(pc, sessions[t].user, t)
<1>2. Moves(p, g) /\ frame[p] = NoFrame /\ Sound(g, files[u])
  BY <1>1 DEF Enters, Refresh, Sound, Rewrites
<1>3. files' = files
  BY DEF RefreshSession
<1> HIDE DEF g
<1> QED BY <1>2, <1>3, SettledMoves

\* A restart ends every call: a rewrite among them had not begun to write, or it is cut.
LEMMA OthersSettle ==
  ASSUME Others, NEW u \in Users, Settled(u), ~Overlap(u)', ~Cut(u)
  PROVE  Settled(u)'
<1>1. CASE files' = files /\ frame' = frame
  BY <1>1 DEF Settled, Coherent, Sound, Rewriting, InMethod
<1>2. CASE Restart
  <2>1. files' = files /\ \A q \in Procs : frame'[q] = NoFrame
    BY <1>2 DEF Restart
  <2>2. Coherent(files[u])
    <3>1. CASE \E q \in Procs : Rewriting(q, u)
      <4>1. PICK q \in Procs : Rewriting(q, u)
        BY <3>1
      <4>2. /\ frame[q] # NoFrame /\ frame[q].user = u /\ frame[q].method \in Rewrites
            /\ Sound(frame[q], files[u])
        BY <4>1 DEF Rewriting, InMethod, Rewrites, Settled
      <4>3. ~Started(frame[q])
        BY <2>1, <4>2 DEF Cut, Halfway, At, Started, Full
      <4> QED BY <4>2, <4>3 DEF Sound
    <3> QED BY <3>1 DEF Settled
  <2> QED BY <2>1, <2>2 DEF Settled, Coherent
<1> QED BY <1>1, <1>2 DEF Others, Tick, RevokeSession, vars

LEMMA InitFilesInv == Init => FilesInv
<1> SUFFICES ASSUME Init, NEW u \in Users PROVE Settled(u)
  BY DEF FilesInv
<1>1. \A p \in Procs : frame[p] = NoFrame
  BY DEF Init
<1>2. ~Overlap(u)
  BY <1>1 DEF Overlap, Rewriting, InMethod
<1>3. /\ files[u] \in {NoFiles} \cup
           {LegacyFiles(1, w, j) : w \in Passwords, j \in {Encrypt(1), Absent}}
      /\ u \notin LegacyUsers => files[u] = NoFiles
  BY DEF Init
<1>4. ASSUME NEW w \in Passwords, NEW j \in {Encrypt(1), Absent}, u \in LegacyUsers
      PROVE  Coherent(LegacyFiles(1, w, j))
  <2>1. 1 # Absent /\ "placeholder" # Absent /\ LthnHash(w) # Absent /\ LthnHash(w).of = w
    BY <1>4, AuthenticatorAssumption DEF LthnHash
  <2>2. LegacyFiles(1, w, j) = [pub |-> 1, key |-> [kp |-> 1, pw |-> w], rev |-> "placeholder",
                                json |-> j, hash |-> Absent, lthn |-> LthnHash(w)]
    BY DEF LegacyFiles, CreateKeyPair
  <2> QED BY <2>1, <2>2 DEF Coherent, LoginPassword
<1>5. Coherent(files[u])
  BY <1>3, <1>4, NoFilesAt
<1> QED BY <1>1, <1>2, <1>5 DEF Settled

\* What Note leaves of a user whose files are not torn
LEMMA NotedIs ==
  ASSUME NEW u \in Users \ torn', Next PROVE u \notin torn /\ ~Overlap(u)' /\ ~Cut(u)
<1>1. Note
  BY Zenon DEF Next, FileMethods, AdmissionMethods, Step, Register, RevokeKey, RotateKeyPair,
         DeleteUser, CreateChallenge, ValidateResponse, Login, FileStep, FileFails, ReadFails,
         EncryptNonce, PutChallenge, VerifyResponse, VerifyHash, VerifyLegacy, CreateSession,
         RotateReadKey, RotateReadJson, Invalidate, Tick, Restart,
         RefreshSession, ExtendSession, DropExpired, RevokeSession
<1> QED BY <1>1 DEF Note

LEMMA FilesInvKept == AuthInv /\ FilesInv /\ [Next]_vars => FilesInv'
<1> SUFFICES ASSUME AuthInv, FilesInv, [Next]_vars, NEW u \in Users \ torn' PROVE Settled(u)'
  BY DEF FilesInv
<1>1. CASE Next
  <2>1. u \notin torn /\ ~Overlap(u)' /\ ~Cut(u) /\ Settled(u)
    BY <1>1, NotedIs DEF FilesInv
  <2> QED
    BY <1>1, <2>1, StepSettles, CallSettles, RefreshSettles, OthersSettle, Zenon DEF Next, Others
<1>2. CASE UNCHANGED vars
  <2>1. Settled(u)
    BY <1>2 DEF FilesInv, vars
  <2> QED BY <1>2, <2>1
     DEF vars, Settled, Overlap, Touching, Coherent, Sound, Rewriting, InMethod
<1> QED BY <1>1, <1>2

\* Outside of `torn`, the files of every account are settled: they agree when no
\* method rewrites them, and a method that does aims at files that agree.
THEOREM FilesSettled == Spec => []FilesInv
BY InitFilesInv, FilesInvKept, AuthenticatorInvariant, PTL DEF Spec

\* Whatever registrations, rotations, revocations, deletions, legacy logins, medium
\* errors and restarts there are: one keypair in .pub, .key and .json and one
\* password in .key and .hash, unless two rewrites overlapped or one was cut.
THEOREM QuietFilesAlwaysAgree == Spec => []QuietFilesAgree
<1>1. FilesInv => QuietFilesAgree
  BY DEF FilesInv, Settled, QuietFilesAgree
<1> QED BY <1>1, FilesSettled, PTL

-----------------------------------------------------------------------------
(* Whose password changes                                                   *)

\* What a write does to the password of its account
LEMMA WritePassword ==
  ASSUME AuthInv, FilesInv, NEW p \in Procs, FileStep(p),
         NEW u \in Users \ torn, u = frame[p].user
  PROVE  \/ LoginPassword(files'[u]) = LoginPassword(files[u])
         \/ LoginPassword(files[u]) \in {Absent, EmptyPassword}
         \/ frame[p].method = "RotateKeyPair" /\ frame[p].pw = LoginPassword(files[u])
         \/ frame[p].method = "DeleteUser"
<1> DEFINE f == frame[p]
           do == Head(f.todo)
           a == files[u]
           b == files'[u]
<1>1. /\ f # NoFrame /\ f \in Frame /\ Shape(f) /\ f.pc = "files"
      /\ f.method \in Rewrites \cup {"Login", "RevokeKey"}
      /\ a \in Files /\ b \in Files
      /\ do \in Elems(f.todo) /\ do.ext \in Exts /\ Planned(f, do) /\ b[do.ext] = do.to
      /\ \A e \in Exts \ {do.ext} : b[e] = a[e]
  BY WriteIs
<1>2. Settled(u) /\ Sound(f, a)
  BY <1>1 DEF FilesInv, Settled
<1>3. f.method = "Login" \/ f.method = "RevokeKey" => Touching(p, u) /\ f.pw \in Passwords
  BY <1>1 DEF Touching, InMethod, Shape
<1>4. f.method \notin Rewrites => ~Rewriting(p, u)
  BY DEF Rewriting, InMethod, Rewrites
<1> HIDE DEF f, do, a, b
<1>5. CASE f.method \in {"Login", "RevokeKey"}
  <2>1. \A q \in Procs : ~Rewriting(q, u)
    BY <1>2, <1>3, <1>4, <1>5 DEF Settled, Overlap, Rewrites
  <2>2. Coherent(a)
    BY <1>2, <2>1 DEF Settled, a
  <2>3. LoginPassword(b) = LoginPassword(a)
    BY <1>1, <1>2, <1>3, <1>5, <2>2, SmallWriteSound
  <2> QED BY <2>3 DEF a, b
<1>6. CASE f.method \in {"Register", "RotateKeyPair"}
  <2>1. PICK t \in Files : Aims(f, a, t)
    BY <1>1, <1>2, <1>6 DEF Sound, Rewrites
  <2>2. do.to = t[do.ext]
    BY <1>1, <2>1 DEF Aims
  <2>3. b["hash"] \in {a["hash"], t["hash"]} /\ b["lthn"] \in {a["lthn"], t["lthn"]}
    BY <1>1, <2>2 DEF Exts
  <2>4. CASE f.method = "Register"
    BY <2>1, <2>3, <2>4 DEF Aims, LoginPassword, a, b
  <2>5. CASE f.method = "RotateKeyPair"
    <3>1. b["lthn"] = a["lthn"]
      BY <1>1, <2>5 DEF Planned, Exts
    <3>2. t.hash # Absent /\ LoginPassword(a) \in {EmptyPassword, f.pw, t.hash.of}
      BY <2>1, <2>5 DEF Aims
    <3>3. CASE b.hash = a.hash
      BY <3>1, <3>3 DEF LoginPassword, a, b
    <3>4. CASE b.hash = t.hash
      <4>1. LoginPassword(b) = t.hash.of
        BY <3>2, <3>4 DEF LoginPassword
      <4> QED BY <2>5, <3>2, <4>1 DEF a, b, f
    <3> QED BY <2>3, <3>3, <3>4
  <2> QED BY <1>6, <2>4, <2>5
<1> QED BY <1>1, <1>5, <1>6 DEF Rewrites, f

\* The password of an account that is not empty is changed only by a RotateKeyPair
\* that was given it or by DeleteUser (auth.go:487-488), unless rewrites overlap.
THEOREM PasswordChangesNeedIt == Spec => PasswordNeedsPassword
<1>1. ASSUME AuthInv, FilesInv, [Next]_vars, NEW u \in Users, u \notin torn',
             LoginPassword(files[u]) \notin {Absent, EmptyPassword, LoginPassword(files[u])'}
      PROVE  \E p \in Procs :
               \/ InMethod(p, u, {"RotateKeyPair"}) /\ frame[p].pw = LoginPassword(files[u])
               \/ InMethod(p, u, {"DeleteUser"})
  <2>1. files'[u] # files[u]
    BY <1>1 DEF LoginPassword
  <2>2. PICK p \in Procs : FileStep(p)
    <3>1. Next
      BY <1>1, <2>1 DEF vars
    <3>2. ASSUME NEW p \in Procs, Step(p) PROVE FileStep(p)
      BY <2>1, <3>2, StepEffects
    <3>3. ASSUME NEW p \in Procs, NEW v \in Users,
                 FileMethods(p, v) \/ AdmissionMethods(p, v) PROVE FALSE
      <4>1. files' = files
        BY <3>3, Zenon
           DEF FileMethods, AdmissionMethods, Register, RevokeKey, RotateKeyPair, DeleteUser,
               CreateChallenge, ValidateResponse, Login, AuthVars
      <4> QED BY <2>1, <4>1
    <3>4. ~Tick /\ ~Restart /\ (\A t \in Tokens : ~RevokeSession(t))
          /\ (\A p \in Procs, t \in Tokens : ~RefreshSession(p, t))
      BY <2>1 DEF Tick, Restart, RevokeSession, RefreshSession
    <3> QED BY <3>1, <3>2, <3>3, <3>4, Zenon DEF Next
  <2>3. frame[p].user = u
    BY <1>1, <2>1, <2>2, WriteIs
  <2>4. u \notin torn
    BY <1>1, <2>1, NotedIs DEF vars
  <2>5. LoginPassword(files[u])' = LoginPassword(files'[u])
    BY DEF LoginPassword
  <2>6. frame[p] # NoFrame
    BY <1>1, <2>2, WriteIs
  <2> QED BY <1>1, <2>2, <2>3, <2>4, <2>5, <2>6, WritePassword DEF InMethod
<1>2. AuthInv /\ FilesInv /\ [Next]_vars =>
        [\A u \in Users :
           LET w == LoginPassword(files[u]) IN
           w \notin {Absent, EmptyPassword, LoginPassword(files[u])'} /\ u \notin torn' =>
             \E p \in Procs : \/ InMethod(p, u, {"RotateKeyPair"}) /\ frame[p].pw = w
                             \/ InMethod(p, u, {"DeleteUser"})]_vars
  BY <1>1, Zenon
<1> QED BY <1>2, AuthenticatorInvariant, FilesSettled, PTL DEF Spec, PasswordNeedsPassword
====
