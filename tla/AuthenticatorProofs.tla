------------------------ MODULE AuthenticatorProofs ------------------------
(***************************************************************************)
(* What holds of the accounts for any users, passwords, tokens, keypairs   *)
(* and goroutines, with any medium errors and restarts.                    *)
(*                                                                         *)
(* Every step is made by one process, and leaves it with another call or   *)
(* none (Moves).  The lemmas named ...Moves say for each operation which   *)
(* one; the invariants and the two action properties are then proved over  *)
(* these, and never over the updates of frame themselves.                  *)
(***************************************************************************)
EXTENDS Authenticator, SequenceTheorems, TLAPS

-----------------------------------------------------------------------------
(* Lists of file operations                                                 *)

\* A file operation, and the operations of a list
Write == [ext : Exts, to : UNION {Content(ext) : ext \in Exts}]
Elems(s) == {s[i] : i \in 1..Len(s)}

LEMMA TailElems ==
  ASSUME NEW S, NEW s \in Seq(S), s # <<>>
  PROVE  /\ Elems(s) = {Head(s)} \cup Elems(Tail(s)) /\ Tail(s) \in Seq(S) /\ Head(s) \in S
         /\ Len(Tail(s)) = Len(s) - 1 /\ (Len(s) > 1 => Tail(s) # <<>>)
<1>1. /\ Tail(s) \in Seq(S) /\ Head(s) \in S /\ Len(Tail(s)) = Len(s) - 1
      /\ \A i \in 1..Len(Tail(s)) : Tail(s)[i] = s[i + 1]
  BY HeadTailProperties
<1> DEFINE n == Len(s)
           m == Len(Tail(s))
           t == Tail(s)
<1>2. n \in Nat /\ m \in Nat /\ m = n - 1
  BY <1>1
<1>3. Head(s) = s[1]
  OBVIOUS
<1>4. \A i \in 1..m : t[i] = s[i + 1]
  BY <1>1
<1> HIDE DEF n, m, t
<1>5. \A i \in 1..m : i + 1 \in 1..n
  BY <1>2
<1>6. \A i \in 1..n : i = 1 \/ (i - 1 \in 1..m /\ s[i] = t[i - 1])
  BY <1>2, <1>4
<1>7. 1 \in 1..n
  BY <1>2
<1>8. {s[i] : i \in 1..n} = {Head(s)} \cup {t[i] : i \in 1..m}
  BY <1>3, <1>4, <1>5, <1>6, <1>7
<1>9. n > 1 => t # <<>>
  BY <1>2 DEF m, t
<1> QED BY <1>1, <1>8, <1>9 DEF Elems, n, m, t

LEMMA ListOf0 == ASSUME NEW S PROVE <<>> \in Seq(S) /\ Elems(<<>>) = {} /\ Len(<<>>) = 0
BY DEF Elems

LEMMA ListOf1 ==
  ASSUME NEW S, NEW a \in S
  PROVE  <<a>> \in Seq(S) /\ Elems(<<a>>) = {a} /\ <<a>> # <<>> /\ Len(<<a>>) = 1
BY DEF Elems

LEMMA ListOf4 ==
  ASSUME NEW S, NEW a \in S, NEW b \in S, NEW c \in S, NEW d \in S
  PROVE  /\ <<a, b, c, d>> \in Seq(S) /\ Elems(<<a, b, c, d>>) = {a, b, c, d}
         /\ Len(<<a, b, c, d>>) = 4 /\ <<a, b, c, d>> # <<>>
BY DEF Elems

LEMMA ListOf5 ==
  ASSUME NEW S, NEW a \in S, NEW b \in S, NEW c \in S, NEW d \in S, NEW e \in S
  PROVE  /\ <<a, b, c, d, e>> \in Seq(S) /\ Elems(<<a, b, c, d, e>>) = {a, b, c, d, e}
         /\ Len(<<a, b, c, d, e>>) = 5 /\ <<a, b, c, d, e>> # <<>>
BY DEF Elems

LEMMA ListOf6 ==
  ASSUME NEW S, NEW a \in S, NEW b \in S, NEW c \in S, NEW d \in S, NEW e \in S, NEW f \in S
  PROVE  /\ <<a, b, c, d, e, f>> \in Seq(S) /\ Elems(<<a, b, c, d, e, f>>) = {a, b, c, d, e, f}
         /\ Len(<<a, b, c, d, e, f>>) = 6 /\ <<a, b, c, d, e, f>> # <<>>
BY DEF Elems

LEMMA FilesExcept ==
  ASSUME NEW f \in Files, NEW e \in Exts, NEW x \in Content(e)
  PROVE  /\ [f EXCEPT ![e] = x] \in Files /\ [f EXCEPT ![e] = x][e] = x
         /\ \A o \in Exts \ {e} : [f EXCEPT ![e] = x][o] = f[o]
BY DEF Files, Exts, Content

LEMMA PutIsWrite ==
  ASSUME NEW e \in Exts, NEW x \in Content(e)
  PROVE  Put(e, x) \in Write /\ Put(e, x).ext = e /\ Put(e, x).to = x
BY DEF Put, Write

LEMMA Contents ==
  /\ \A k \in Keys : k \in Content("pub") /\ Encrypt(k) \in Content("json")
  /\ \A k \in Keys, w \in Passwords : [kp |-> k, pw |-> w] \in Content("key")
  /\ \A w \in Passwords : HashPassword(w) \in Content("hash") /\ LthnHash(w) \in Content("lthn")
  /\ {"placeholder", "revoked"} \subseteq Content("rev")
  /\ \A e \in Exts : Absent \in Content(e)
  /\ Exts = {"pub", "key", "rev", "json", "hash", "lthn"}
BY DEF Content, LockedKey, Exts

\* What Register, RotateKeyPair and DeleteUser write, in their order
LEMMA NewAccountPlan ==
  ASSUME NEW k \in Keys, NEW w \in Passwords
  PROVE  /\ NewAccount(k, w) \in Seq(Write) /\ Len(NewAccount(k, w)) = 5 /\ NewAccount(k, w) # <<>>
         /\ Elems(NewAccount(k, w)) =
              {Put("pub", k), Put("key", [kp |-> k, pw |-> w]), Put("rev", "placeholder"),
               Put("hash", HashPassword(w)), Put("json", Encrypt(k))}
         /\ \A x \in Elems(NewAccount(k, w)) : x.to \in Content(x.ext)
<1> DEFINE a == Put("pub", k)
           b == Put("key", [kp |-> k, pw |-> w])
           c == Put("rev", "placeholder")
           d == Put("hash", HashPassword(w))
           e == Put("json", Encrypt(k))
<1>1. \A x \in {a, b, c, d, e} : x \in Write /\ x.to \in Content(x.ext)
  BY PutIsWrite, Contents
<1>2. NewAccount(k, w) = <<a, b, c, d, e>>
  BY DEF NewAccount, CreateKeyPair
<1> HIDE DEF a, b, c, d, e
<1>3. /\ NewAccount(k, w) \in Seq(Write) /\ Len(NewAccount(k, w)) = 5 /\ NewAccount(k, w) # <<>>
      /\ Elems(NewAccount(k, w)) = {a, b, c, d, e}
  BY <1>1, <1>2, ListOf5
<1> QED BY <1>1, <1>3 DEF a, b, c, d, e

LEMMA RotatedPlan ==
  ASSUME NEW k \in Keys, NEW w \in Passwords
  PROVE  /\ RotatedAccount(k, w) \in Seq(Write) /\ RotatedAccount(k, w) # <<>>
         /\ Len(RotatedAccount(k, w)) = 4
         /\ Elems(RotatedAccount(k, w)) =
              {Put("pub", k), Put("key", [kp |-> k, pw |-> w]), Put("json", Encrypt(k)),
               Put("hash", HashPassword(w))}
         /\ \A x \in Elems(RotatedAccount(k, w)) :
              x.to \in Content(x.ext) /\ x.ext \notin {"rev", "lthn"}
<1> DEFINE a == Put("pub", k)
           b == Put("key", [kp |-> k, pw |-> w])
           c == Put("json", Encrypt(k))
           d == Put("hash", HashPassword(w))
<1>1. \A x \in {a, b, c, d} : x \in Write /\ x.to \in Content(x.ext) /\ x.ext \notin {"rev", "lthn"}
  BY PutIsWrite, Contents
<1>2. RotatedAccount(k, w) = <<a, b, c, d>>
  BY DEF RotatedAccount, CreateKeyPair
<1> HIDE DEF a, b, c, d
<1>3. /\ RotatedAccount(k, w) \in Seq(Write) /\ RotatedAccount(k, w) # <<>>
      /\ Len(RotatedAccount(k, w)) = 4
      /\ Elems(RotatedAccount(k, w)) = {a, b, c, d}
  BY <1>1, <1>2, ListOf4
<1> QED BY <1>1, <1>3 DEF a, b, c, d

LEMMA NoAccountPlan ==
  /\ NoAccount \in Seq(Write) /\ Len(NoAccount) = 6 /\ NoAccount # <<>>
  /\ Elems(NoAccount) = {Put(e, Absent) : e \in Exts}
  /\ \A x \in Elems(NoAccount) : x.to = Absent /\ x.to \in Content(x.ext)
<1> DEFINE a == Put("pub", Absent)
           b == Put("key", Absent)
           c == Put("rev", Absent)
           d == Put("json", Absent)
           e == Put("hash", Absent)
           f == Put("lthn", Absent)
<1>1. \A x \in {a, b, c, d, e, f} : x \in Write /\ x.to = Absent /\ x.to \in Content(x.ext)
  BY PutIsWrite, Contents
<1>2. NoAccount = <<a, b, c, d, e, f>>
  BY DEF NoAccount
<1>4. {Put(x, Absent) : x \in Exts} = {a, b, c, d, e, f}
  BY Contents
<1> HIDE DEF a, b, c, d, e, f
<1>3. /\ NoAccount \in Seq(Write) /\ Len(NoAccount) = 6 /\ NoAccount # <<>>
      /\ Elems(NoAccount) = {a, b, c, d, e, f}
  BY <1>1, <1>2, ListOf6
<1> QED BY <1>1, <1>3, <1>4

-----------------------------------------------------------------------------
(* How an operation moves the process that makes it                         *)

Types ==
  /\ StoreTypeOK
  /\ files \in [Users -> Files]
  /\ challenges \in [Users -> Challenge \cup {NoChallenge}]
  /\ frame \in [Procs -> Frame \cup {NoFrame}]
  /\ keys \in 0..MaxKeys /\ nonces \in 0..MaxNonces
  /\ origin \in [Tokens -> Nonces \cup {0, Absent}]
  /\ torn \subseteq Users

\* f gone on to pc
With(f, pc, key, nonce, todo) ==
  [method |-> f.method, pc |-> pc, user |-> f.user, pw |-> f.pw, new |-> f.new,
   key |-> key, sig |-> f.sig, nonce |-> nonce, token |-> f.token, todo |-> todo]

\* p leaves its frame as g, and the others as they are.
Moves(p, g) ==
  /\ frame' \in [Procs -> Frame \cup {NoFrame}]
  /\ frame'[p] = g
  /\ \A q \in Procs \ {p} : frame'[q] = frame[q]

\* What is left of a call after its file operation of this moment
Advanced(f) ==
  IF Len(f.todo) > 1 THEN With(f, f.pc, f.key, f.nonce, Tail(f.todo))
  ELSE IF After(f.method) = "return" THEN NoFrame
  ELSE With(f, After(f.method), f.key, f.nonce, <<>>)

LEMMA FrameIs ==
  ASSUME NEW f \in Frame, NEW pc \in Pcs, NEW key \in LockedKey \cup {Absent},
         NEW nonce \in Nonces \cup {0}, NEW todo \in Seq(Write)
  PROVE  /\ With(f, pc, key, nonce, todo) \in Frame
         /\ With(f, pc, f.key, f.nonce, f.todo) \in Frame
         /\ With(f, pc, f.key, nonce, f.todo) \in Frame
         /\ With(f, pc, key, f.nonce, f.todo) \in Frame
         /\ With(f, pc, f.key, f.nonce, todo) \in Frame
         /\ With(f, f.pc, f.key, f.nonce, todo) \in Frame
BY DEF Frame, With, Write

LEMMA Moved ==
  ASSUME frame \in [Procs -> Frame \cup {NoFrame}], NEW p \in Procs,
         NEW g \in Frame \cup {NoFrame}, frame' = [frame EXCEPT ![p] = g]
  PROVE  Moves(p, g)
BY DEF Moves

LEMMA MovedPc ==
  ASSUME frame \in [Procs -> Frame \cup {NoFrame}], NEW p \in Procs, frame[p] # NoFrame,
         NEW pc \in Pcs,
         frame' = [frame EXCEPT ![p].pc = pc]
  PROVE  Moves(p, With(frame[p], pc, frame[p].key, frame[p].nonce, frame[p].todo))
<1>1. frame[p] \in Frame OBVIOUS
<1>2. frame'[p] = With(frame[p], pc, frame[p].key, frame[p].nonce, frame[p].todo)
  BY <1>1 DEF Frame, With
<1>3. With(frame[p], pc, frame[p].key, frame[p].nonce, frame[p].todo) \in Frame
  BY <1>1 DEF Frame, With, Write
<1>4. \A q \in Procs \ {p} : frame'[q] = frame[q] OBVIOUS
<1>5. frame' = [q \in Procs |-> frame'[q]] OBVIOUS
<1> QED BY <1>2, <1>3, <1>4, <1>5 DEF Moves

LEMMA MovedPcNonce ==
  ASSUME frame \in [Procs -> Frame \cup {NoFrame}], NEW p \in Procs, frame[p] # NoFrame,
         NEW pc \in Pcs, NEW nonce \in Nonces \cup {0},
         frame' = [frame EXCEPT ![p] = [@ EXCEPT !.pc = pc, !.nonce = nonce]]
  PROVE  Moves(p, With(frame[p], pc, frame[p].key, nonce, frame[p].todo))
<1>1. frame[p] \in Frame OBVIOUS
<1>2. frame'[p] = With(frame[p], pc, frame[p].key, nonce, frame[p].todo)
  BY <1>1 DEF Frame, With
<1>3. With(frame[p], pc, frame[p].key, nonce, frame[p].todo) \in Frame
  BY <1>1 DEF Frame, With, Write
<1>4. \A q \in Procs \ {p} : frame'[q] = frame[q] OBVIOUS
<1>5. frame' = [q \in Procs |-> frame'[q]] OBVIOUS
<1> QED BY <1>2, <1>3, <1>4, <1>5 DEF Moves

LEMMA MovedKeyPc ==
  ASSUME frame \in [Procs -> Frame \cup {NoFrame}], NEW p \in Procs, frame[p] # NoFrame,
         NEW pc \in Pcs, NEW key \in LockedKey \cup {Absent},
         frame' = [frame EXCEPT ![p] = [@ EXCEPT !.key = key, !.pc = pc]]
  PROVE  Moves(p, With(frame[p], pc, key, frame[p].nonce, frame[p].todo))
<1>1. frame[p] \in Frame OBVIOUS
<1>2. frame'[p] = With(frame[p], pc, key, frame[p].nonce, frame[p].todo)
  BY <1>1 DEF Frame, With
<1>3. With(frame[p], pc, key, frame[p].nonce, frame[p].todo) \in Frame
  BY <1>1 DEF Frame, With, Write
<1>4. \A q \in Procs \ {p} : frame'[q] = frame[q] OBVIOUS
<1>5. frame' = [q \in Procs |-> frame'[q]] OBVIOUS
<1> QED BY <1>2, <1>3, <1>4, <1>5 DEF Moves

LEMMA MovedPcTodo ==
  ASSUME frame \in [Procs -> Frame \cup {NoFrame}], NEW p \in Procs, frame[p] # NoFrame,
         NEW pc \in Pcs, NEW todo \in Seq(Write),
         frame' = [frame EXCEPT ![p] = [@ EXCEPT !.pc = pc, !.todo = todo]]
  PROVE  Moves(p, With(frame[p], pc, frame[p].key, frame[p].nonce, todo))
<1>1. frame[p] \in Frame OBVIOUS
<1>2. frame'[p] = With(frame[p], pc, frame[p].key, frame[p].nonce, todo)
  BY <1>1 DEF Frame, With
<1>3. With(frame[p], pc, frame[p].key, frame[p].nonce, todo) \in Frame
  BY <1>1 DEF Frame, With, Write
<1>4. \A q \in Procs \ {p} : frame'[q] = frame[q] OBVIOUS
<1>5. frame' = [q \in Procs |-> frame'[q]] OBVIOUS
<1> QED BY <1>2, <1>3, <1>4, <1>5 DEF Moves

LEMMA MovedTodoPc ==
  ASSUME frame \in [Procs -> Frame \cup {NoFrame}], NEW p \in Procs, frame[p] # NoFrame,
         NEW pc \in Pcs, NEW todo \in Seq(Write),
         frame' = [frame EXCEPT ![p] = [@ EXCEPT !.todo = todo, !.pc = pc]]
  PROVE  Moves(p, With(frame[p], pc, frame[p].key, frame[p].nonce, todo))
<1>1. frame[p] \in Frame OBVIOUS
<1>2. frame'[p] = With(frame[p], pc, frame[p].key, frame[p].nonce, todo)
  BY <1>1 DEF Frame, With
<1>3. With(frame[p], pc, frame[p].key, frame[p].nonce, todo) \in Frame
  BY <1>1 DEF Frame, With, Write
<1>4. \A q \in Procs \ {p} : frame'[q] = frame[q] OBVIOUS
<1>5. frame' = [q \in Procs |-> frame'[q]] OBVIOUS
<1> QED BY <1>2, <1>3, <1>4, <1>5 DEF Moves

LEMMA MovedTodo ==
  ASSUME frame \in [Procs -> Frame \cup {NoFrame}], NEW p \in Procs, frame[p] # NoFrame,
         NEW todo \in Seq(Write),
         frame' = [frame EXCEPT ![p].todo = todo]
  PROVE  Moves(p, With(frame[p], frame[p].pc, frame[p].key, frame[p].nonce, todo))
<1>1. frame[p] \in Frame OBVIOUS
<1>2. frame'[p] = With(frame[p], frame[p].pc, frame[p].key, frame[p].nonce, todo)
  BY <1>1 DEF Frame, With
<1>3. With(frame[p], frame[p].pc, frame[p].key, frame[p].nonce, todo) \in Frame
  BY <1>1 DEF Frame, With, Write
<1>4. \A q \in Procs \ {p} : frame'[q] = frame[q] OBVIOUS
<1>5. frame' = [q \in Procs |-> frame'[q]] OBVIOUS
<1> QED BY <1>2, <1>3, <1>4, <1>5 DEF Moves

\* A call as it begins
Call(method, pc, u, pw, new, sig, nonce, todo) ==
  [method |-> method, pc |-> pc, user |-> u, pw |-> pw, new |-> new,
   key |-> Absent, sig |-> sig, nonce |-> nonce, token |-> Absent, todo |-> todo]

\* A call of RefreshSession that has read the session of token t
Refresh(pc, u, t) ==
  [method |-> "RefreshSession", pc |-> pc, user |-> u, pw |-> Absent, new |-> Absent,
   key |-> Absent, sig |-> Absent, nonce |-> 0, token |-> t, todo |-> <<>>]

\* p, which runs nothing, begins the call g.
Enters(p, g) == frame[p] = NoFrame /\ g \in Frame /\ Moves(p, g)

LEMMA CallIsFrame ==
  ASSUME NEW m \in Methods, NEW pc \in Pcs, NEW u \in Users, NEW w \in Passwords \cup {Absent},
         NEW new \in Passwords \cup {Absent}, NEW sig \in Signature \cup {Absent},
         NEW nonce \in Nonces \cup {0}, NEW todo \in Seq(Write)
  PROVE  Call(m, pc, u, w, new, sig, nonce, todo) \in Frame
BY DEF Call, Frame, Write

\* The methods as they are called
LEMMA RegisterMoves ==
  ASSUME Types, NEW p \in Procs, NEW u \in Users, NEW w \in Passwords, Register(p, u, w)
  PROVE  /\ keys + 1 \in Keys
         /\ Enters(p, Call("Register", "files", u, w, Absent, Absent, 0, NewAccount(keys + 1, w)))
<1>1. keys + 1 \in Keys
  BY AuthenticatorAssumption DEF Types, Register, Keys
<1>2. NewAccount(keys + 1, w) \in Seq(Write)
  BY <1>1, NewAccountPlan
<1>3. Call("Register", "files", u, w, Absent, Absent, 0, NewAccount(keys + 1, w)) \in Frame
  BY <1>2, CallIsFrame DEF Methods, Pcs
<1>4. keys' = keys + 1
  BY DEF Register
<1>5. [Enter(p, "Register", "files", u, w) EXCEPT !.todo = NewAccount(keys + 1, w)]
        = Call("Register", "files", u, w, Absent, Absent, 0, NewAccount(keys + 1, w))
  BY DEF Enter, Call
<1>6. frame' = [frame EXCEPT ![p] =
                   Call("Register", "files", u, w, Absent, Absent, 0, NewAccount(keys + 1, w))]
  BY <1>4, <1>5 DEF Register, Do
<1> QED BY <1>1, <1>3, <1>6, Moved DEF Types, Enters, Called, Register

LEMMA CreateChallengeMoves ==
  ASSUME Types, NEW p \in Procs, NEW u \in Users, CreateChallenge(p, u)
  PROVE  Enters(p, Call("CreateChallenge", "encrypt", u, Absent, Absent, Absent, 0, <<>>))
<1>1. Call("CreateChallenge", "encrypt", u, Absent, Absent, Absent, 0, <<>>) \in Frame
  BY CallIsFrame, ListOf0 DEF Methods, Pcs
<1>2. frame' = [frame EXCEPT ![p] =
                  Call("CreateChallenge", "encrypt", u, Absent, Absent, Absent, 0, <<>>)]
  BY DEF CreateChallenge, Do, Enter, Call
<1> QED BY <1>1, <1>2, Moved DEF Types, Enters, Called, CreateChallenge

LEMMA ValidateResponseMoves ==
  ASSUME Types, NEW p \in Procs, NEW u \in Users,
         NEW sig \in [nonce : 1..nonces, key : 1..keys], ValidateResponse(p, u, sig)
  PROVE  /\ sig \in Signature /\ challenges[u] \in Challenge
         /\ \/ frame' = frame
            \/ Enters(p, Call("ValidateResponse", "verify", u, Absent, Absent, sig,
                             challenges[u].nonce, <<>>))
<1>1. sig \in Signature
  BY AuthenticatorAssumption DEF Types, Signature, Nonces, Keys
<1>2. challenges[u] \in Challenge
  BY DEF Types, ValidateResponse
<1>3. Call("ValidateResponse", "verify", u, Absent, Absent, sig, challenges[u].nonce, <<>>)
        \in Frame
  BY <1>1, <1>2, CallIsFrame, ListOf0 DEF Methods, Pcs, Challenge
<1>4. \/ frame' = frame
      \/ frame' = [frame EXCEPT ![p] = Call("ValidateResponse", "verify", u, Absent, Absent, sig,
                                           challenges[u].nonce, <<>>)]
  BY DEF ValidateResponse, Do, Enter, Call
<1> QED BY <1>1, <1>2, <1>3, <1>4, Moved DEF Types, Enters, Called, ValidateResponse

LEMMA LoginMoves ==
  ASSUME Types, NEW p \in Procs, NEW u \in Users, NEW w \in Passwords, Login(p, u, w)
  PROVE  Enters(p, Call("Login", "hash", u, w, Absent, Absent, 0, <<>>))
<1>1. Call("Login", "hash", u, w, Absent, Absent, 0, <<>>) \in Frame
  BY CallIsFrame, ListOf0 DEF Methods, Pcs
<1>2. frame' = [frame EXCEPT ![p] = Call("Login", "hash", u, w, Absent, Absent, 0, <<>>)]
  BY DEF Login, Do, Enter, Call
<1> QED BY <1>1, <1>2, Moved DEF Types, Enters, Called, Login

LEMMA RevokeKeyMoves ==
  ASSUME Types, NEW p \in Procs, NEW u \in Users, NEW w \in Passwords, RevokeKey(p, u, w)
  PROVE  Enters(p, Call("RevokeKey", "hash", u, w, Absent, Absent, 0, <<>>))
<1>1. Call("RevokeKey", "hash", u, w, Absent, Absent, 0, <<>>) \in Frame
  BY CallIsFrame, ListOf0 DEF Methods, Pcs
<1>2. frame' = [frame EXCEPT ![p] = Call("RevokeKey", "hash", u, w, Absent, Absent, 0, <<>>)]
  BY DEF RevokeKey, Do, Enter, Call
<1> QED BY <1>1, <1>2, Moved DEF Types, Enters, Called, RevokeKey

LEMMA RotateKeyPairMoves ==
  ASSUME Types, NEW p \in Procs, NEW u \in Users, NEW old \in Passwords, NEW new \in Passwords,
         RotateKeyPair(p, u, old, new)
  PROVE  Enters(p, Call("RotateKeyPair", "readKey", u, old, new, Absent, 0, <<>>))
<1>1. Call("RotateKeyPair", "readKey", u, old, new, Absent, 0, <<>>) \in Frame
  BY CallIsFrame, ListOf0 DEF Methods, Pcs
<1>2. [Enter(p, "RotateKeyPair", "readKey", u, old) EXCEPT !.new = new]
        = Call("RotateKeyPair", "readKey", u, old, new, Absent, 0, <<>>)
  BY DEF Enter, Call
<1>3. frame' = [frame EXCEPT ![p] =
                  Call("RotateKeyPair", "readKey", u, old, new, Absent, 0, <<>>)]
  BY <1>2 DEF RotateKeyPair, Do
<1> QED BY <1>1, <1>3, Moved DEF Types, Enters, Called, RotateKeyPair

LEMMA DeleteUserMoves ==
  ASSUME Types, NEW p \in Procs, NEW u \in Users, DeleteUser(p, u)
  PROVE  Enters(p, Call("DeleteUser", "files", u, Absent, Absent, Absent, 0, NoAccount))
<1>1. Call("DeleteUser", "files", u, Absent, Absent, Absent, 0, NoAccount) \in Frame
  BY CallIsFrame, NoAccountPlan DEF Methods, Pcs
<1>2. [Enter(p, "DeleteUser", "files", u, Absent) EXCEPT !.todo = NoAccount]
        = Call("DeleteUser", "files", u, Absent, Absent, Absent, 0, NoAccount)
  BY DEF Enter, Call
<1>3. frame' = [frame EXCEPT ![p] =
                   Call("DeleteUser", "files", u, Absent, Absent, Absent, 0, NoAccount)]
  BY <1>2 DEF DeleteUser, Do
<1> QED BY <1>1, <1>3, Moved DEF Types, Enters, Called, DeleteUser

LEMMA RefreshSessionMoves ==
  ASSUME Types, NEW p \in Procs, NEW t \in Tokens, RefreshSession(p, t)
  PROVE  /\ sessions[t] # NoSession /\ sessions[t].user \in Users
         /\ \E pc \in {"extend", "drop"} : Enters(p, Refresh(pc, sessions[t].user, t))
<1>1. sessions[t] # NoSession /\ sessions[t] \in Session
  BY DEF RefreshSession, Present, Types, StoreTypeOK
<1>2. sessions[t].user \in Users
  BY <1>1 DEF Session
<1> DEFINE u == sessions[t].user
           pc == IF ExpiredAt(sessions[t], now) THEN "drop" ELSE "extend"
<1>3. frame[p] = NoFrame
  BY DEF RefreshSession, Called
<1>4. frame' = [frame EXCEPT ![p] =
                  [Enter(p, "RefreshSession", pc, u, Absent) EXCEPT !.token = t]]
  BY DEF RefreshSession, Do
<1>5. pc \in {"extend", "drop"}
  OBVIOUS
<1>6. u \in Users
  BY <1>2
<1> HIDE DEF pc, u
<1>7. [Enter(p, "RefreshSession", pc, u, Absent) EXCEPT !.token = t] = Refresh(pc, u, t)
  BY DEF Enter, Refresh
<1>8. Refresh(pc, u, t) \in Frame
  BY <1>5, <1>6, ListOf0 DEF Refresh, Frame, Methods, Pcs, Write
<1>9. Enters(p, Refresh(pc, u, t))
  BY <1>3, <1>4, <1>7, <1>8, Moved DEF Types, Enters
<1> QED BY <1>1, <1>2, <1>5, <1>9 DEF u

\* The steps of a running call
LEMMA Running ==
  ASSUME Types, NEW p \in Procs, frame[p] # NoFrame
  PROVE  /\ frame[p] \in Frame /\ frame[p].user \in Users /\ frame[p].method \in Methods
         /\ frame[p].pc \in Pcs /\ frame[p].key \in LockedKey \cup {Absent}
         /\ frame[p].nonce \in Nonces \cup {0} /\ frame[p].todo \in Seq(Write)
         /\ frame[p].pw \in Passwords \cup {Absent} /\ frame[p].new \in Passwords \cup {Absent}
         /\ frame[p].sig \in Signature \cup {Absent}
         /\ frame[p].token \in Tokens \cup {Absent}
         /\ files[frame[p].user] \in Files
BY DEF Types, Frame, Write

LEMMA ReturnMoves ==
  ASSUME Types, NEW p \in Procs, Return(p) PROVE Moves(p, NoFrame)
BY Moved DEF Types, Return

LEMMA GoToMoves ==
  ASSUME Types, NEW p \in Procs, frame[p] # NoFrame, NEW pc \in Pcs, GoTo(p, pc)
  PROVE  Moves(p, With(frame[p], pc, frame[p].key, frame[p].nonce, frame[p].todo))
BY MovedPc DEF Types, GoTo

LEMMA NextFileMoves ==
  ASSUME Types, NEW p \in Procs, At(p, "files"), frame[p].todo # <<>>, NextFile(p)
  PROVE  Moves(p, Advanced(frame[p]))
<1>1. frame[p] # NoFrame /\ frame[p].todo \in Seq(Write) /\ frame[p].method \in Methods
  BY Running DEF At
<1>2. CASE Len(frame[p].todo) > 1
  <2>1. Tail(frame[p].todo) \in Seq(Write)
    BY <1>1, TailElems
  <2>2. frame' = [frame EXCEPT ![p].todo = Tail(frame[p].todo)]
    BY <1>2 DEF NextFile, Types
  <2> QED BY <1>1, <1>2, <2>1, <2>2, MovedTodo DEF Types, Advanced
<1>3. CASE ~(Len(frame[p].todo) > 1) /\ After(frame[p].method) = "return"
  BY <1>3, ReturnMoves DEF NextFile, Advanced
<1>4. CASE ~(Len(frame[p].todo) > 1) /\ After(frame[p].method) # "return"
  <2>1. After(frame[p].method) \in Pcs
    BY <1>1, <1>4 DEF After, Pcs
  <2>2. frame' = [frame EXCEPT ![p] = [@ EXCEPT !.todo = <<>>, !.pc = After(frame[p].method)]]
    BY <1>4 DEF NextFile
  <2> QED BY <1>1, <1>4, <2>1, <2>2, MovedTodoPc, ListOf0 DEF Types, Advanced
<1> QED BY <1>2, <1>3, <1>4

LEMMA EncryptNonceMoves ==
  ASSUME Types, NEW p \in Procs, EncryptNonce(p)
  PROVE  \/ Moves(p, NoFrame) /\ nonces' = nonces
         \/ /\ nonces' = nonces + 1 /\ nonces + 1 \in Nonces
            /\ Moves(p, With(frame[p], "put", frame[p].key, nonces + 1, frame[p].todo))
<1>1. CASE Return(p) /\ nonces' = nonces
  BY <1>1, ReturnMoves
<1>2. CASE /\ nonces < MaxNonces /\ nonces' = nonces + 1
           /\ frame' = [frame EXCEPT ![p] = [@ EXCEPT !.pc = "put", !.nonce = nonces']]
  <2>1. nonces + 1 \in Nonces
    BY <1>2, AuthenticatorAssumption DEF Types, Nonces
  <2>2. frame' = [frame EXCEPT ![p] = [@ EXCEPT !.pc = "put", !.nonce = nonces + 1]]
    BY <1>2
  <2>3. frame[p] # NoFrame /\ "put" \in Pcs
    BY DEF EncryptNonce, At, Pcs
  <2> QED BY <1>2, <2>1, <2>2, <2>3, MovedPcNonce DEF Types
<1> QED BY <1>1, <1>2 DEF EncryptNonce

LEMMA AcceptedMoves ==
  ASSUME Types, NEW p \in Procs, frame[p] # NoFrame, NEW legacy \in BOOLEAN, Accepted(p, legacy),
         frame[p].method \in {"Login", "RevokeKey"}, frame[p].pw \in Passwords
  PROVE  \/ /\ frame[p].method = "RevokeKey"
            /\ Moves(p, With(frame[p], "files", frame[p].key, frame[p].nonce,
                             <<Put("rev", "revoked")>>))
         \/ /\ frame[p].method = "Login" /\ legacy
            /\ Moves(p, With(frame[p], "files", frame[p].key, frame[p].nonce,
                             <<Put("hash", HashPassword(frame[p].pw))>>))
         \/ /\ frame[p].method = "Login" /\ ~legacy
            /\ Moves(p, With(frame[p], "session", frame[p].key, frame[p].nonce, frame[p].todo))
<1>1. "files" \in Pcs /\ "session" \in Pcs
  BY DEF Pcs
<1>2. CASE frame[p].method = "RevokeKey"
  <2>1. <<Put("rev", "revoked")>> \in Seq(Write)
    BY PutIsWrite, Contents, ListOf1
  <2>2. frame' = [frame EXCEPT ![p] =
                    [@ EXCEPT !.pc = "files", !.todo = <<Put("rev", "revoked")>>]]
    BY <1>2 DEF Accepted
  <2> QED BY <1>1, <1>2, <2>1, <2>2, MovedPcTodo DEF Types
<1>3. CASE frame[p].method = "Login" /\ legacy
  <2>1. <<Put("hash", HashPassword(frame[p].pw))>> \in Seq(Write)
    BY PutIsWrite, Contents, ListOf1
  <2>2. frame' = [frame EXCEPT ![p] =
                    [@ EXCEPT !.pc = "files", !.todo = <<Put("hash", HashPassword(frame[p].pw))>>]]
    BY <1>3 DEF Accepted
  <2> QED BY <1>1, <1>3, <2>1, <2>2, MovedPcTodo DEF Types
<1>4. CASE frame[p].method = "Login" /\ ~legacy
  BY <1>1, <1>4, GoToMoves DEF Accepted
<1> QED BY <1>2, <1>3, <1>4

LEMMA RotateReadKeyMoves ==
  ASSUME Types, NEW p \in Procs, RotateReadKey(p)
  PROVE  \/ Moves(p, NoFrame)
         \/ /\ files[frame[p].user].key \in LockedKey
            /\ Moves(p, With(frame[p], "readJson", files[frame[p].user].key, frame[p].nonce,
                             frame[p].todo))
<1>1. frame[p] # NoFrame /\ "readJson" \in Pcs
  BY DEF RotateReadKey, At, Pcs
<1>2. files[frame[p].user].key \in LockedKey \cup {Absent}
  BY <1>1, Running DEF Files, Content
<1>3. CASE Return(p)
  BY <1>3, ReturnMoves
<1>4. CASE /\ files[frame[p].user].key # Absent
           /\ frame' = [frame EXCEPT ![p] =
                           [@ EXCEPT !.key = files[frame[p].user].key, !.pc = "readJson"]]
  BY <1>1, <1>2, <1>4, MovedKeyPc DEF Types
<1> QED BY <1>3, <1>4 DEF RotateReadKey

LEMMA RotateReadJsonMoves ==
  ASSUME Types, NEW p \in Procs, RotateReadJson(p), frame[p].new \in Passwords
  PROVE  \/ Moves(p, NoFrame) /\ keys' = keys
         \/ /\ keys' = keys + 1 /\ keys + 1 \in Keys /\ RotateDecrypts(p)
            /\ Moves(p, With(frame[p], "files", frame[p].key, frame[p].nonce,
                             RotatedAccount(keys + 1, frame[p].new)))
<1>1. frame[p] # NoFrame /\ "files" \in Pcs
  BY DEF RotateReadJson, At, Pcs
<1>2. CASE Return(p) /\ keys' = keys
  BY <1>2, ReturnMoves
<1>3. CASE /\ RotateDecrypts(p) /\ keys < MaxKeys /\ keys' = keys + 1
           /\ frame' = [frame EXCEPT ![p] =
                           [@ EXCEPT !.pc = "files", !.todo = RotatedAccount(keys', frame[p].new)]]
  <2>1. keys + 1 \in Keys
    BY <1>3, AuthenticatorAssumption DEF Types, Keys
  <2>2. RotatedAccount(keys + 1, frame[p].new) \in Seq(Write)
    BY <2>1, RotatedPlan
  <2>3. frame' = [frame EXCEPT ![p] =
                    [@ EXCEPT !.pc = "files", !.todo = RotatedAccount(keys + 1, frame[p].new)]]
    BY <1>3
  <2> QED BY <1>1, <1>3, <2>1, <2>2, <2>3, MovedPcTodo DEF Types
<1> QED BY <1>2, <1>3 DEF RotateReadJson

-----------------------------------------------------------------------------
(* The invariant: what a call remembers where it is                         *)

\* What a call may still write
Planned(f, w) ==
  /\ w.to \in Content(w.ext)
  /\ f.method = "Login" => w = Put("hash", HashPassword(f.pw))
  /\ f.method = "RevokeKey" => w = Put("rev", "revoked")
  /\ f.method = "RotateKeyPair" => w.ext \notin {"rev", "lthn"}
  /\ f.method = "DeleteUser" => w.to = Absent

PcsOf(method) ==
  CASE method = "Register" -> {"files"}
    [] method = "CreateChallenge" -> {"encrypt", "put"}
    [] method = "ValidateResponse" -> {"verify", "session"}
    [] method = "Login" -> {"hash", "lthn", "files", "session"}
    [] method = "RevokeKey" -> {"hash", "lthn", "files", "invalidate"}
    [] method = "RotateKeyPair" -> {"readKey", "readJson", "files", "invalidate"}
    [] method = "DeleteUser" -> {"files", "invalidate"}
    [] method = "RefreshSession" -> {"extend", "drop"}

\* A call is where its method can be, and remembers what it needs there.
Shape(f) ==
  /\ f.pc \in PcsOf(f.method)
  /\ f.method \in {"Register", "Login", "RevokeKey", "RotateKeyPair"} => f.pw \in Passwords
  /\ f.method = "RotateKeyPair" => f.new \in Passwords
  /\ f.pc = "readJson" => f.key # Absent
  /\ f.method = "RefreshSession" => f.token \in Tokens
  /\ f.pc = "files" <=> f.todo # <<>>
  /\ f.nonce # 0 <=> f.method = "ValidateResponse" \/ f.pc = "put"
  /\ \A w \in Elems(f.todo) : Planned(f, w)

Shapes == \A p \in Procs : frame[p] # NoFrame => Shape(frame[p])

LEMMA MethodAt ==
  ASSUME NEW f \in Frame, Shape(f)
  PROVE  /\ f.pc \in {"encrypt", "put"} => f.method = "CreateChallenge"
         /\ f.pc = "verify" => f.method = "ValidateResponse"
         /\ f.pc \in {"hash", "lthn"} => f.method \in {"Login", "RevokeKey"}
         /\ f.pc = "session" => f.method \in {"Login", "ValidateResponse"}
         /\ f.pc \in {"readKey", "readJson"} => f.method = "RotateKeyPair"
         /\ f.pc = "invalidate" => f.method \in {"RevokeKey", "RotateKeyPair", "DeleteUser"}
         /\ f.pc \in {"extend", "drop"} => f.method = "RefreshSession"
         /\ f.pc = "files" =>
              f.method \in {"Register", "Login", "RevokeKey", "RotateKeyPair", "DeleteUser"}
<1>1. f.method \in Methods /\ f.pc \in PcsOf(f.method)
  BY DEF Frame, Shape
<1> QED BY <1>1 DEF PcsOf, Methods

LEMMA ShapesKept ==
  ASSUME Types, Shapes, NEW p \in Procs, NEW g, Moves(p, g), g = NoFrame \/ Shape(g)
  PROVE  Shapes'
BY DEF Shapes, Moves

LEMMA FirstShapes ==
  /\ \A u : \A w \in Passwords, k \in Keys :
       Shape(Call("Register", "files", u, w, Absent, Absent, 0, NewAccount(k, w)))
  /\ \A u : Shape(Call("CreateChallenge", "encrypt", u, Absent, Absent, Absent, 0, <<>>))
  /\ \A u, sig : \A n \in Nonces :
       Shape(Call("ValidateResponse", "verify", u, Absent, Absent, sig, n, <<>>))
  /\ \A u : \A w \in Passwords : Shape(Call("Login", "hash", u, w, Absent, Absent, 0, <<>>))
  /\ \A u : \A w \in Passwords : Shape(Call("RevokeKey", "hash", u, w, Absent, Absent, 0, <<>>))
  /\ \A u : \A w, new \in Passwords :
       Shape(Call("RotateKeyPair", "readKey", u, w, new, Absent, 0, <<>>))
  /\ \A u : Shape(Call("DeleteUser", "files", u, Absent, Absent, Absent, 0, NoAccount))
<1>1. Elems(<<>>) = {}
  BY ListOf0
<1>2. ASSUME NEW u, NEW w \in Passwords, NEW k \in Keys
      PROVE  Shape(Call("Register", "files", u, w, Absent, Absent, 0, NewAccount(k, w)))
  <2> DEFINE f == Call("Register", "files", u, w, Absent, Absent, 0, NewAccount(k, w))
  <2>0. /\ NewAccount(k, w) # <<>>
        /\ \A x \in Elems(NewAccount(k, w)) : x.to \in Content(x.ext)
    BY NewAccountPlan
  <2>1. /\ f.method = "Register" /\ f.pc = "files" /\ f.pw = w /\ f.nonce = 0
        /\ f.todo = NewAccount(k, w)
    BY DEF Call
  <2> HIDE DEF f
  <2>2. Shape(f)
    BY <2>0, <2>1 DEF Shape, Planned, PcsOf
  <2> QED BY <2>2 DEF f
<1>5. NoAccount # <<>> /\ \A x \in Elems(NoAccount) : x.to = Absent /\ x.to \in Content(x.ext)
  BY NoAccountPlan
<1>6. ASSUME NEW u
      PROVE  Shape(Call("DeleteUser", "files", u, Absent, Absent, Absent, 0, NoAccount))
  BY <1>5 DEF Shape, Call, Planned, PcsOf
<1>7. ASSUME NEW u
      PROVE  Shape(Call("CreateChallenge", "encrypt", u, Absent, Absent, Absent, 0, <<>>))
  BY <1>1 DEF Shape, Call, PcsOf
<1>8. ASSUME NEW u, NEW sig, NEW n \in Nonces
      PROVE  Shape(Call("ValidateResponse", "verify", u, Absent, Absent, sig, n, <<>>))
  BY <1>1 DEF Shape, Call, PcsOf, Nonces
<1>9. ASSUME NEW u, NEW w \in Passwords
      PROVE  /\ Shape(Call("Login", "hash", u, w, Absent, Absent, 0, <<>>))
             /\ Shape(Call("RevokeKey", "hash", u, w, Absent, Absent, 0, <<>>))
  BY <1>1 DEF Shape, Call, PcsOf
<1>10. ASSUME NEW u, NEW w \in Passwords, NEW new \in Passwords
       PROVE  Shape(Call("RotateKeyPair", "readKey", u, w, new, Absent, 0, <<>>))
  BY <1>1 DEF Shape, Call, PcsOf
<1> QED BY <1>2, <1>6, <1>7, <1>8, <1>9, <1>10, Zenon

LEMMA RefreshShape ==
  ASSUME NEW pc \in {"extend", "drop"}, NEW u, NEW t \in Tokens
  PROVE  Shape(Refresh(pc, u, t))
BY ListOf0 DEF Shape, Refresh, PcsOf

LEMMA AdvancedShape ==
  ASSUME NEW f \in Frame, Shape(f), f.pc = "files"
  PROVE  Advanced(f) = NoFrame \/ Shape(Advanced(f))
<1>1. f.todo \in Seq(Write) /\ f.todo # <<>>
  BY DEF Frame, Write, Shape
<1>2. Elems(Tail(f.todo)) \subseteq Elems(f.todo) /\ Len(Tail(f.todo)) = Len(f.todo) - 1
  BY <1>1, TailElems
<1>3. CASE Len(f.todo) > 1
  <2>1. Tail(f.todo) # <<>>
    BY <1>1, <1>3, TailElems
  <2>2. Shape(With(f, f.pc, f.key, f.nonce, Tail(f.todo)))
    <3> DEFINE g == With(f, f.pc, f.key, f.nonce, Tail(f.todo))
    <3>1. /\ g.method = f.method /\ g.pc = f.pc /\ g.pw = f.pw /\ g.new = f.new /\ g.key = f.key
          /\ g.nonce = f.nonce /\ g.token = f.token /\ g.todo = Tail(f.todo)
      BY DEF With
    <3> HIDE DEF g
    <3>2. \A w : Planned(f, w) => Planned(g, w)
      BY <3>1 DEF Planned
    <3>3. Shape(g)
      BY <1>2, <2>1, <3>1, <3>2 DEF Shape
    <3> QED BY <3>3 DEF g
  <2> QED BY <1>3, <2>2 DEF Advanced
<1>4. CASE ~(Len(f.todo) > 1) /\ After(f.method) # "return"
  <2>1. /\ f.method \in {"Login", "RevokeKey", "RotateKeyPair", "DeleteUser"}
        /\ After(f.method) = IF f.method = "Login" THEN "session" ELSE "invalidate"
    BY <1>4 DEF Shape, PcsOf, After, Frame, Methods
  <2>2. Shape(With(f, After(f.method), f.key, f.nonce, <<>>))
    BY <2>1, ListOf0 DEF Shape, With, PcsOf
  <2> QED BY <1>4, <2>2 DEF Advanced
<1> QED BY <1>3, <1>4 DEF Advanced

-----------------------------------------------------------------------------
(* The invariant: every nonce is in one place                               *)

\* Where a challenge nonce may be: pending, in a call, or spent on a token
Places == [at : {"challenge"}, of : Users] \cup [at : {"call"}, of : Procs]
            \cup [at : {"token"}, of : Tokens]
Pending(u) == [at |-> "challenge", of |-> u]
Held(p) == [at |-> "call", of |-> p]
Spent(t) == [at |-> "token", of |-> t]

NonceAt(x) ==
  IF x.at = "challenge" THEN IF challenges[x.of] = NoChallenge THEN 0 ELSE challenges[x.of].nonce
  ELSE IF x.at = "call" THEN IF frame[x.of] = NoFrame THEN 0 ELSE frame[x.of].nonce
  ELSE IF origin[x.of] = Absent THEN 0 ELSE origin[x.of]

\* A nonce that was generated is in one place at most.
OnePlace ==
  /\ \A x \in Places : NonceAt(x) \in 0..nonces
  /\ \A x, y \in Places : NonceAt(x) = NonceAt(y) /\ NonceAt(x) # 0 => x = y

LEMMA PlaceIs ==
  /\ \A u \in Users : Pending(u) \in Places
  /\ \A p \in Procs : Held(p) \in Places
  /\ \A t \in Tokens : Spent(t) \in Places
  /\ \A x \in Places : \/ \E u \in Users : x = Pending(u)
                       \/ \E p \in Procs : x = Held(p)
                       \/ \E t \in Tokens : x = Spent(t)
BY DEF Places, Pending, Held, Spent

LEMMA NonceAtIs ==
  ASSUME NEW z
  PROVE  /\ NonceAt(Pending(z)) = IF challenges[z] = NoChallenge THEN 0 ELSE challenges[z].nonce
         /\ NonceAt(Held(z)) = IF frame[z] = NoFrame THEN 0 ELSE frame[z].nonce
         /\ NonceAt(Spent(z)) = IF origin[z] = Absent THEN 0 ELSE origin[z]
         /\ NonceAt(Pending(z))' = IF challenges'[z] = NoChallenge THEN 0 ELSE challenges'[z].nonce
         /\ NonceAt(Held(z))' = IF frame'[z] = NoFrame THEN 0 ELSE frame'[z].nonce
         /\ NonceAt(Spent(z))' = IF origin'[z] = Absent THEN 0 ELSE origin'[z]
BY DEF NonceAt, Pending, Held, Spent

\* A step loses nonces, or carries one from a place to another.
LEMMA CarriedNonce ==
  ASSUME Types, OnePlace, NEW src \in Places, NEW dst \in Places, nonces' = nonces,
         \A x \in Places \ {dst} : NonceAt(x)' \in {0, NonceAt(x)},
         NonceAt(dst)' \in {0, NonceAt(dst), NonceAt(src)},
         src # dst => NonceAt(src)' = 0
  PROVE  OnePlace'
<1>1. \A x \in Places : NonceAt(x)' \in 0..nonces'
  BY DEF OnePlace, Types
<1>2. \A x, y \in Places : NonceAt(x)' = NonceAt(y)' /\ NonceAt(x)' # 0 => x = y
  <2> SUFFICES ASSUME NEW x \in Places, NEW y \in Places,
                      NonceAt(x)' = NonceAt(y)', NonceAt(x)' # 0
               PROVE  x = y
    OBVIOUS
  <2> QED BY DEF OnePlace
<1> QED BY <1>1, <1>2 DEF OnePlace, Places

\* A step generates a nonce.
LEMMA FreshNonce ==
  ASSUME Types, OnePlace, NEW dst \in Places, nonces' = nonces + 1, NonceAt(dst)' = nonces + 1,
         \A x \in Places \ {dst} : NonceAt(x)' = NonceAt(x)
  PROVE  OnePlace'
<1>0. nonces \in Nat
  BY AuthenticatorAssumption DEF Types
<1>1. \A x \in Places : NonceAt(x)' \in 0..nonces'
  BY <1>0 DEF OnePlace
<1>2. \A x, y \in Places : NonceAt(x)' = NonceAt(y)' /\ NonceAt(x)' # 0 => x = y
  BY <1>0 DEF OnePlace
<1> QED BY <1>1, <1>2 DEF OnePlace, Places

\* What one process does to its own call, without a challenge or a session
LEMMA NonceOfCall ==
  ASSUME Types, OnePlace, NEW p \in Procs, NEW g, Moves(p, g),
         g = NoFrame \/ g.nonce \in {0, NonceAt(Held(p))},
         UNCHANGED <<challenges, origin, nonces>>
  PROVE  OnePlace'
<1>1. \A x \in Places \ {Held(p)} : NonceAt(x)' = NonceAt(x)
  BY PlaceIs, NonceAtIs DEF Moves
<1>2. NonceAt(Held(p))' \in {0, NonceAt(Held(p))}
  BY NonceAtIs DEF Moves
<1> QED BY <1>1, <1>2, CarriedNonce, PlaceIs

-----------------------------------------------------------------------------
(* Every action keeps the invariant                                         *)

AuthInv == Types /\ Shapes /\ OnePlace

LEMMA InitAuthInv == Init => AuthInv
<1> SUFFICES ASSUME Init PROVE AuthInv
  OBVIOUS
<1>1. NoFiles \in Files
  BY DEF NoFiles, Exts, Files, Content
<1>2. ASSUME NEW u \in LegacyUsers, NEW w \in Passwords, NEW j \in {Encrypt(1), Absent}
      PROVE  LegacyFiles(1, w, j) \in Files
  BY AuthenticatorAssumption
     DEF LegacyFiles, CreateKeyPair, Files, Content, Keys, LockedKey
<1>3. files \in [Users -> Files]
  <2>1. ASSUME NEW u \in Users PROVE files[u] \in Files
    <3>1. files[u] \in {NoFiles} \cup
            {LegacyFiles(1, w, j) : w \in Passwords, j \in {Encrypt(1), Absent}}
      BY DEF Init
    <3>2. u \notin LegacyUsers => files[u] = NoFiles
      BY DEF Init
    <3> QED BY <1>1, <1>2, <3>1, <3>2
  <2> QED BY <2>1 DEF Init
<1>4. keys \in 0..MaxKeys /\ nonces \in 0..MaxNonces
  <2>1. LegacyUsers # {} => MaxKeys > 0
    BY AuthenticatorAssumption
  <2> QED BY <2>1, AuthenticatorAssumption DEF Init
<1>5. Types
  BY <1>3, <1>4 DEF Init, Types, StoreTypeOK, EmptyStore
<1>6. Shapes
  BY DEF Init, Shapes
<1>7. OnePlace
  <2>1. \A x \in Places : NonceAt(x) = 0
    BY DEF Init, Places, NonceAt
  <2> QED BY <2>1, <1>4, AuthenticatorAssumption DEF OnePlace
<1> QED BY <1>5, <1>6, <1>7 DEF AuthInv

LEMMA NoteKeepsTorn ==
  ASSUME Types, Note PROVE torn' \subseteq Users
BY DEF Types, Note

LEMMA CallStep ==
  ASSUME AuthInv, NEW p \in Procs, NEW g, Moves(p, g), g = NoFrame \/ Shape(g),
         g = NoFrame \/ g.nonce \in {0, NonceAt(Held(p))},
         UNCHANGED AuthVars, UNCHANGED nonces, Note,
         files' \in [Users -> Files], keys' \in 0..MaxKeys
  PROVE  AuthInv'
<1>1. UNCHANGED <<sessions, now, challenges, origin, nonces>>
  BY DEF AuthVars
<1>2. Types'
  BY <1>1, NoteKeepsTorn DEF AuthInv, Types, StoreTypeOK, Moves
<1>3. Shapes'
  BY ShapesKept DEF AuthInv
<1>4. OnePlace'
  BY <1>1, NonceOfCall DEF AuthInv
<1> QED BY <1>2, <1>3, <1>4 DEF AuthInv

LEMMA ReturnStep ==
  ASSUME AuthInv, NEW p \in Procs, Return(p), UNCHANGED AuthVars, UNCHANGED nonces, Note,
         files' \in [Users -> Files], keys' \in 0..MaxKeys
  PROVE  AuthInv'
BY CallStep, ReturnMoves DEF AuthInv

\* The methods that rewrite the account's files, and those that admit
LEMMA FileMethodsKeep ==
  ASSUME AuthInv, NEW p \in Procs, NEW u \in Users, FileMethods(p, u)
  PROVE  AuthInv'
<1>0. Types /\ files \in [Users -> Files] /\ keys \in 0..MaxKeys
  BY DEF AuthInv, Types
<1>1. ASSUME NEW w \in Passwords, Register(p, u, w) PROVE AuthInv'
  <2> DEFINE g == Call("Register", "files", u, w, Absent, Absent, 0, NewAccount(keys + 1, w))
  <2>1. keys + 1 \in Keys /\ Moves(p, g)
    BY <1>0, <1>1, RegisterMoves DEF Enters
  <2>2. Shape(g) /\ g.nonce = 0
    BY <2>1, FirstShapes DEF Call
  <2>3. /\ keys' \in 0..MaxKeys /\ files' \in [Users -> Files]
        /\ UNCHANGED AuthVars /\ UNCHANGED nonces /\ Note
    BY <1>0, <1>1, <2>1 DEF Register, Keys
  <2> HIDE DEF g
  <2> QED BY <2>1, <2>2, <2>3, CallStep
<1>2. ASSUME NEW w \in Passwords, RevokeKey(p, u, w) PROVE AuthInv'
  <2> DEFINE g == Call("RevokeKey", "hash", u, w, Absent, Absent, 0, <<>>)
  <2>1. Moves(p, g)
    BY <1>0, <1>2, RevokeKeyMoves DEF Enters
  <2>2. Shape(g) /\ g.nonce = 0
    BY FirstShapes DEF Call
  <2>3. /\ keys' \in 0..MaxKeys /\ files' \in [Users -> Files]
        /\ UNCHANGED AuthVars /\ UNCHANGED nonces /\ Note
    BY <1>0, <1>2 DEF RevokeKey
  <2> HIDE DEF g
  <2> QED BY <2>1, <2>2, <2>3, CallStep
<1>3. ASSUME NEW old \in Passwords, NEW new \in Passwords, RotateKeyPair(p, u, old, new)
      PROVE  AuthInv'
  <2> DEFINE g == Call("RotateKeyPair", "readKey", u, old, new, Absent, 0, <<>>)
  <2>1. Moves(p, g)
    BY <1>0, <1>3, RotateKeyPairMoves DEF Enters
  <2>2. Shape(g) /\ g.nonce = 0
    BY FirstShapes DEF Call
  <2>3. /\ keys' \in 0..MaxKeys /\ files' \in [Users -> Files]
        /\ UNCHANGED AuthVars /\ UNCHANGED nonces /\ Note
    BY <1>0, <1>3 DEF RotateKeyPair
  <2> HIDE DEF g
  <2> QED BY <2>1, <2>2, <2>3, CallStep
<1>4. ASSUME DeleteUser(p, u) PROVE AuthInv'
  <2> DEFINE g == Call("DeleteUser", "files", u, Absent, Absent, Absent, 0, NoAccount)
  <2>1. Moves(p, g)
    BY <1>0, <1>4, DeleteUserMoves DEF Enters
  <2>2. Shape(g) /\ g.nonce = 0
    BY FirstShapes DEF Call
  <2>3. /\ keys' \in 0..MaxKeys /\ files' \in [Users -> Files]
        /\ UNCHANGED AuthVars /\ UNCHANGED nonces /\ Note
    BY <1>0, <1>4 DEF DeleteUser
  <2> HIDE DEF g
  <2> QED BY <2>1, <2>2, <2>3, CallStep
<1> QED BY <1>1, <1>2, <1>3, <1>4 DEF FileMethods

LEMMA AdmissionMethodsKeep ==
  ASSUME AuthInv, NEW p \in Procs, NEW u \in Users, AdmissionMethods(p, u)
  PROVE  AuthInv'
<1>0. Types /\ Shapes /\ OnePlace /\ files \in [Users -> Files] /\ keys \in 0..MaxKeys
  BY DEF AuthInv, Types
<1>1. ASSUME CreateChallenge(p, u) PROVE AuthInv'
  <2> DEFINE g == Call("CreateChallenge", "encrypt", u, Absent, Absent, Absent, 0, <<>>)
  <2>1. Moves(p, g)
    BY <1>0, <1>1, CreateChallengeMoves DEF Enters
  <2>2. Shape(g) /\ g.nonce = 0
    BY FirstShapes DEF Call
  <2>3. /\ keys' \in 0..MaxKeys /\ files' \in [Users -> Files]
        /\ UNCHANGED AuthVars /\ UNCHANGED nonces /\ Note
    BY <1>0, <1>1 DEF CreateChallenge
  <2> HIDE DEF g
  <2> QED BY <2>1, <2>2, <2>3, CallStep
<1>2. ASSUME NEW w \in Passwords, Login(p, u, w) PROVE AuthInv'
  <2> DEFINE g == Call("Login", "hash", u, w, Absent, Absent, 0, <<>>)
  <2>1. Moves(p, g)
    BY <1>0, <1>2, LoginMoves DEF Enters
  <2>2. Shape(g) /\ g.nonce = 0
    BY FirstShapes DEF Call
  <2>3. /\ keys' \in 0..MaxKeys /\ files' \in [Users -> Files]
        /\ UNCHANGED AuthVars /\ UNCHANGED nonces /\ Note
    BY <1>0, <1>2 DEF Login
  <2> HIDE DEF g
  <2> QED BY <2>1, <2>2, <2>3, CallStep
<1>3. ASSUME NEW sig \in [nonce : 1..nonces, key : 1..keys], ValidateResponse(p, u, sig)
      PROVE  AuthInv'
  <2> DEFINE g == Call("ValidateResponse", "verify", u, Absent, Absent, sig,
                       challenges[u].nonce, <<>>)
  <2>1. /\ challenges[u] \in Challenge /\ challenges[u].nonce \in Nonces
        /\ frame' = frame \/ Moves(p, g)
    BY <1>0, <1>3, ValidateResponseMoves DEF Enters, Challenge
  <2>2. Shape(g) /\ g.nonce = challenges[u].nonce
    BY <2>1, FirstShapes DEF Call
  <2>3. /\ UNCHANGED <<sessions, now, origin, files, keys, nonces>> /\ Note
        /\ challenges' = [challenges EXCEPT ![u] = NoChallenge]
        /\ frame[p] = NoFrame /\ challenges[u] # NoChallenge
    BY <1>3 DEF ValidateResponse, Called
  <2> HIDE DEF g
  <2>4. Types'
    BY <1>0, <2>1, <2>3, NoteKeepsTorn DEF Types, StoreTypeOK, Moves
  <2>5. Shapes'
    BY <1>0, <2>1, <2>2, ShapesKept DEF Shapes
  <2>6. OnePlace'
    <3>1. /\ Pending(u) \in Places /\ Held(p) \in Places /\ Pending(u) # Held(p)
          /\ NonceAt(Pending(u)) = challenges[u].nonce /\ NonceAt(Pending(u))' = 0
      BY <1>0, <2>3, PlaceIs, NonceAtIs DEF Types, Pending, Held
    <3>2. NonceAt(Held(p))' \in {0, challenges[u].nonce}
      BY <2>1, <2>2, <2>3, NonceAtIs DEF Moves
    <3>3. \A x \in Places \ {Held(p)} : NonceAt(x)' \in {0, NonceAt(x)}
      BY <1>0, <2>1, <2>3, <3>1, PlaceIs, NonceAtIs DEF Moves, Types
    <3> QED BY <1>0, <2>3, <3>1, <3>2, <3>3, CarriedNonce
  <2> QED BY <2>4, <2>5, <2>6 DEF AuthInv
<1> QED BY <1>1, <1>2, <1>3 DEF AdmissionMethods

LEMMA RefreshKeeps ==
  ASSUME AuthInv, NEW p \in Procs, NEW t \in Tokens, RefreshSession(p, t)
  PROVE  AuthInv'
<1>1. PICK pc \in {"extend", "drop"} : Enters(p, Refresh(pc, sessions[t].user, t))
  BY RefreshSessionMoves DEF AuthInv
<1> DEFINE g == Refresh(pc, sessions[t].user, t)
<1>2. Shape(g) /\ g.nonce = 0 /\ Moves(p, g)
  BY <1>1, RefreshShape DEF Refresh, Enters
<1>3. /\ keys' \in 0..MaxKeys /\ files' \in [Users -> Files]
      /\ UNCHANGED AuthVars /\ UNCHANGED nonces /\ Note
  BY DEF RefreshSession, AuthInv, Types
<1> HIDE DEF g
<1> QED BY <1>2, <1>3, CallStep

LEMMA WithIs ==
  ASSUME NEW f, NEW pc, NEW key, NEW nonce, NEW todo
  PROVE  LET g == With(f, pc, key, nonce, todo) IN
         /\ g.method = f.method /\ g.user = f.user /\ g.pw = f.pw /\ g.new = f.new /\ g.sig = f.sig
         /\ g.pc = pc /\ g.key = key /\ g.nonce = nonce /\ g.token = f.token /\ g.todo = todo
BY DEF With

\* Where a call goes when it writes nothing yet
LEMMA WithShape ==
  ASSUME NEW f \in Frame, Shape(f), f.pc # "files", NEW pc \in PcsOf(f.method) \ {"files"},
         NEW key, NEW nonce, pc = "readJson" => key # Absent,
         nonce # 0 <=> f.method = "ValidateResponse" \/ pc = "put"
  PROVE  Shape(With(f, pc, key, nonce, f.todo))
<1> DEFINE g == With(f, pc, key, nonce, f.todo)
<1>1. /\ g.method = f.method /\ g.pw = f.pw /\ g.new = f.new
      /\ g.pc = pc /\ g.key = key /\ g.nonce = nonce /\ g.token = f.token /\ g.todo = f.todo
  BY WithIs
<1>2. f.todo = <<>> /\ Elems(<<>>) = {}
  BY ListOf0 DEF Shape
<1> HIDE DEF g
<1>3. Shape(g)
  BY <1>1, <1>2 DEF Shape
<1> QED BY <1>3 DEF g

\* Where a call goes that begins to write
LEMMA FilesShape ==
  ASSUME NEW f \in Frame, Shape(f), f.pc \notin {"files", "put"}, "files" \in PcsOf(f.method),
         NEW todo, todo # <<>>, \A w \in Elems(todo) : Planned(f, w)
  PROVE  Shape(With(f, "files", f.key, f.nonce, todo))
<1> DEFINE g == With(f, "files", f.key, f.nonce, todo)
<1>1. /\ g.method = f.method /\ g.pw = f.pw /\ g.new = f.new
      /\ g.pc = "files" /\ g.key = f.key /\ g.nonce = f.nonce /\ g.token = f.token
      /\ g.todo = todo
  BY WithIs
<1> HIDE DEF g
<1>2. \A w : Planned(f, w) => Planned(g, w)
  BY <1>1 DEF Planned
<1>3. Shape(g)
  BY <1>1, <1>2 DEF Shape
<1> QED BY <1>3 DEF g

LEMMA AdvancedIs ==
  ASSUME NEW f, Advanced(f) # NoFrame
  PROVE  /\ Advanced(f).method = f.method /\ Advanced(f).user = f.user /\ Advanced(f).pw = f.pw
         /\ Advanced(f).new = f.new /\ Advanced(f).sig = f.sig /\ Advanced(f).nonce = f.nonce
BY WithIs DEF Advanced

LEMMA HeadIsPlanned ==
  ASSUME AuthInv, NEW p \in Procs, At(p, "files")
  PROVE  /\ frame[p].todo # <<>> /\ frame[p].todo \in Seq(Write)
         /\ Head(frame[p].todo) \in Elems(frame[p].todo)
         /\ Head(frame[p].todo) \in Write /\ Planned(frame[p], Head(frame[p].todo))
<1>1. frame[p] \in Frame /\ frame[p].todo \in Seq(Write) /\ Shape(frame[p]) /\ frame[p].pc = "files"
  BY Running DEF AuthInv, Shapes, At
<1>2. frame[p].todo # <<>> /\ \A w \in Elems(frame[p].todo) : Planned(frame[p], w)
  BY <1>1 DEF Shape
<1> QED BY <1>1, <1>2, TailElems

LEMMA FileWritten ==
  ASSUME AuthInv, NEW p \in Procs, FileStep(p)
  PROVE  LET u == frame[p].user
             do == Head(frame[p].todo)
         IN  /\ u \in Users /\ do.ext \in Exts /\ do.to \in Content(do.ext)
             /\ files' \in [Users -> Files]
             /\ files'[u][do.ext] = do.to
             /\ \A e \in Exts \ {do.ext} : files'[u][e] = files[u][e]
             /\ \A v \in Users \ {u} : files'[v] = files[v]
<1> DEFINE u == frame[p].user
           do == Head(frame[p].todo)
<1>1. At(p, "files") /\ files' = [files EXCEPT ![u][do.ext] = do.to]
  BY DEF FileStep
<1>2. u \in Users /\ files[u] \in Files
  BY <1>1, Running DEF AuthInv, At
<1>3. do \in Write /\ do.to \in Content(do.ext) /\ do.ext \in Exts
  BY <1>1, HeadIsPlanned DEF Planned, Write
<1>4. files \in [Users -> Files]
  BY DEF AuthInv, Types
<1> HIDE DEF u, do
<1>5. files' = [files EXCEPT ![u] = [files[u] EXCEPT ![do.ext] = do.to]]
  BY <1>1, <1>2, <1>4
<1>6. /\ [files[u] EXCEPT ![do.ext] = do.to] \in Files
      /\ [files[u] EXCEPT ![do.ext] = do.to][do.ext] = do.to
      /\ \A e \in Exts \ {do.ext} : [files[u] EXCEPT ![do.ext] = do.to][e] = files[u][e]
  BY <1>2, <1>3, FilesExcept
<1>7. files'[u] = [files[u] EXCEPT ![do.ext] = do.to]
  BY <1>2, <1>4, <1>5
<1>8. \A v \in Users \ {u} : files'[v] = files[v]
  BY <1>4, <1>5
<1>9. files' \in [Users -> Files]
  BY <1>4, <1>5, <1>6
<1> QED BY <1>2, <1>3, <1>6, <1>7, <1>8, <1>9 DEF u, do

\* The file step of Medium.Write, the accepted password, and then every step
LEMMA NextFileKeeps ==
  ASSUME AuthInv, NEW p \in Procs, At(p, "files"), NextFile(p), UNCHANGED AuthVars,
         UNCHANGED <<keys, nonces>>, Note, files' \in [Users -> Files]
  PROVE  AuthInv'
<1>1. Moves(p, Advanced(frame[p]))
  BY HeadIsPlanned, NextFileMoves DEF AuthInv
<1>2. frame[p] \in Frame /\ Shape(frame[p]) /\ frame[p].pc = "files" /\ frame[p] # NoFrame
  BY Running DEF AuthInv, Shapes, At
<1>3. Advanced(frame[p]) = NoFrame \/ Shape(Advanced(frame[p]))
  BY <1>2, AdvancedShape
<1>4. Advanced(frame[p]) = NoFrame \/ Advanced(frame[p]).nonce = NonceAt(Held(p))
  BY <1>2, AdvancedIs, NonceAtIs
<1>5. keys' \in 0..MaxKeys
  BY DEF AuthInv, Types
<1> QED BY <1>1, <1>3, <1>4, <1>5, CallStep

LEMMA AcceptedKeeps ==
  ASSUME AuthInv, NEW p \in Procs, NEW legacy \in BOOLEAN, Accepted(p, legacy),
         At(p, "hash") \/ At(p, "lthn"),
         UNCHANGED AuthVars, UNCHANGED <<files, keys, nonces>>, Note
  PROVE  AuthInv'
<1> DEFINE f == frame[p]
<1>1. /\ f # NoFrame /\ f \in Frame /\ Shape(f) /\ f.pc \in {"hash", "lthn"}
      /\ f.method \in Methods
  BY Running DEF AuthInv, Shapes, At
<1>2. f.method \in {"Login", "RevokeKey"} /\ f.pw \in Passwords
  BY <1>1 DEF Shape, PcsOf, Methods
<1>3. NonceAt(Held(p)) = f.nonce /\ f.nonce = 0
  BY <1>1, <1>2, NonceAtIs DEF Shape
<1>4. files' \in [Users -> Files] /\ keys' \in 0..MaxKeys
  BY DEF AuthInv, Types
<1>5. CASE /\ f.method = "RevokeKey"
           /\ Moves(p, With(f, "files", f.key, f.nonce, <<Put("rev", "revoked")>>))
  <2>1. /\ <<Put("rev", "revoked")>> # <<>>
        /\ \A w \in Elems(<<Put("rev", "revoked")>>) : Planned(f, w)
    BY <1>5, PutIsWrite, Contents, ListOf1 DEF Planned
  <2>2. Shape(With(f, "files", f.key, f.nonce, <<Put("rev", "revoked")>>))
    BY <1>1, <1>5, <2>1, FilesShape DEF PcsOf
  <2> QED BY <1>3, <1>4, <1>5, <2>2, WithIs, CallStep
<1>6. CASE /\ f.method = "Login"
           /\ Moves(p, With(f, "files", f.key, f.nonce, <<Put("hash", HashPassword(f.pw))>>))
  <2>1. /\ <<Put("hash", HashPassword(f.pw))>> # <<>>
        /\ \A w \in Elems(<<Put("hash", HashPassword(f.pw))>>) : Planned(f, w)
    BY <1>2, <1>6, PutIsWrite, Contents, ListOf1 DEF Planned
  <2>2. Shape(With(f, "files", f.key, f.nonce, <<Put("hash", HashPassword(f.pw))>>))
    BY <1>1, <1>6, <2>1, FilesShape DEF PcsOf
  <2> QED BY <1>3, <1>4, <1>6, <2>2, WithIs, CallStep
<1>7. CASE /\ f.method = "Login"
           /\ Moves(p, With(f, "session", f.key, f.nonce, f.todo))
  <2>1. Shape(With(f, "session", f.key, f.nonce, f.todo))
    BY <1>1, <1>3, <1>7, WithShape DEF PcsOf
  <2> QED BY <1>3, <1>4, <1>7, <2>1, WithIs, CallStep
<1> QED BY <1>1, <1>2, <1>5, <1>6, <1>7, AcceptedMoves DEF AuthInv

\* A step that returns and leaves no more sessions than the table can hold
LEMMA StoreStepKeeps ==
  ASSUME AuthInv, NEW p \in Procs, Return(p), Note,
         UNCHANGED <<now, challenges, origin, files, keys, nonces>>,
         sessions' \in [Tokens -> Session \cup {NoSession}]
  PROVE  AuthInv'
<1>0. Types /\ Shapes /\ OnePlace
  BY DEF AuthInv
<1>1. Moves(p, NoFrame)
  BY <1>0, ReturnMoves
<1>2. Types'
  BY <1>0, <1>1, NoteKeepsTorn DEF Types, StoreTypeOK, Moves
<1>3. Shapes'
  BY <1>0, <1>1, ShapesKept
<1>4. OnePlace'
  BY <1>0, <1>1, NonceOfCall
<1> QED BY <1>2, <1>3, <1>4 DEF AuthInv

LEMMA DeleteKeepsStore ==
  ASSUME Types, NEW t, NEW ok \in BOOLEAN, Delete(t, ok)
  PROVE  /\ sessions' \in [Tokens -> Session \cup {NoSession}]
         /\ \E gone : sessions' = Without(gone)
<1>1. sessions \in [Tokens -> Session \cup {NoSession}]
  BY DEF Types, StoreTypeOK
<1>2. sessions = Without({})
  BY <1>1 DEF Without
<1>3. sessions' = Without({t}) \/ sessions' = Without({})
  BY <1>2 DEF Delete
<1>4. \A gone : Without(gone) \in [Tokens -> Session \cup {NoSession}]
  BY <1>1 DEF Without
<1>5. \E gone : sessions' = Without(gone)
  BY <1>3, Zenon
<1> QED BY <1>3, <1>4, <1>5

LEMMA StepKeeps ==
  ASSUME AuthInv, NEW p \in Procs, Step(p)
  PROVE  AuthInv'
<1> DEFINE f == frame[p]
<1>0. /\ Types /\ Shapes /\ OnePlace /\ files \in [Users -> Files] /\ keys \in 0..MaxKeys
      /\ nonces \in 0..MaxNonces
      /\ \A pc : At(p, pc) => f # NoFrame /\ f \in Frame /\ Shape(f) /\ f.pc = pc
      /\ f # NoFrame => NonceAt(Held(p)) = f.nonce
  BY Running, NonceAtIs DEF AuthInv, Types, Shapes, At
<1>1. ASSUME FileStep(p) PROVE AuthInv'
  <2>1. /\ At(p, "files") /\ NextFile(p) /\ UNCHANGED AuthVars /\ UNCHANGED <<keys, nonces>> /\ Note
    BY <1>1 DEF FileStep
  <2> QED BY <1>1, <2>1, FileWritten, NextFileKeeps
<1>2. ASSUME FileFails(p) PROVE AuthInv'
  <2>1. /\ At(p, "files") /\ (NextFile(p) \/ Return(p))
        /\ UNCHANGED AuthVars /\ UNCHANGED <<keys, nonces>> /\ Note /\ files' = files
    BY <1>2 DEF FileFails
  <2> QED BY <1>0, <2>1, NextFileKeeps, ReturnStep
<1>3. ASSUME ReadFails(p) PROVE AuthInv'
  BY <1>0, <1>3, ReturnStep DEF ReadFails
<1>4. ASSUME EncryptNonce(p) PROVE AuthInv'
  <2>1. /\ UNCHANGED <<sessions, now, challenges, origin, files, keys>> /\ Note /\ At(p, "encrypt")
    BY <1>4 DEF EncryptNonce, AuthVars
  <2>2. CASE Moves(p, NoFrame) /\ nonces' = nonces
    BY <1>0, <2>1, <2>2, CallStep DEF AuthVars
  <2> DEFINE g == With(f, "put", f.key, nonces + 1, f.todo)
  <2>3. CASE nonces' = nonces + 1 /\ nonces + 1 \in Nonces /\ Moves(p, g)
    <3>1. Shape(g) /\ g.nonce = nonces + 1
      <4>1. f.method = "CreateChallenge" /\ f \in Frame /\ Shape(f) /\ f.pc = "encrypt"
        BY <1>0, <2>1, MethodAt
      <4>2. "put" \in PcsOf(f.method) \ {"files"} /\ nonces + 1 # 0
        BY <2>3, <4>1 DEF PcsOf, Nonces
      <4>3. Shape(g)
        BY <4>1, <4>2, WithShape
      <4> QED BY <4>3, WithIs
    <3>0. g \in Frame
      <4>1. f \in Frame /\ "put" \in Pcs
        BY <1>0, <2>1 DEF Pcs
      <4> QED BY <2>3, <4>1 DEF With, Frame
    <3> HIDE DEF g
    <3>2. Types'
      BY <1>0, <2>1, <2>3, NoteKeepsTorn DEF Types, StoreTypeOK, Moves, Nonces
    <3>3. Shapes'
      BY <1>0, <2>3, <3>1, ShapesKept
    <3>4. NonceAt(Held(p))' = nonces + 1
      <4>1. frame'[p] = g /\ g \in Frame \cup {NoFrame} /\ g # NoFrame
        BY <2>3, <3>0, FrameAssumption DEF Moves
      <4> QED BY <3>1, <4>1, NonceAtIs
    <3>5. \A x \in Places \ {Held(p)} : NonceAt(x)' = NonceAt(x)
      BY <2>1, <2>3, PlaceIs, NonceAtIs DEF Moves
    <3>6. OnePlace'
      BY <1>0, <2>3, <3>4, <3>5, PlaceIs, FreshNonce
    <3> QED BY <3>2, <3>3, <3>6 DEF AuthInv
  <2> QED BY <1>0, <1>4, <2>2, <2>3, EncryptNonceMoves
<1>5. ASSUME PutChallenge(p) PROVE AuthInv'
  <2>1. /\ UNCHANGED <<sessions, now, origin, files, keys, nonces>> /\ Note /\ At(p, "put")
        /\ Moves(p, NoFrame)
        /\ challenges' = [challenges EXCEPT ![f.user] =
                            [nonce |-> f.nonce, exp |-> now + ChallengeTTL]]
    BY <1>0, <1>5, ReturnMoves DEF PutChallenge
  <2>2. f.user \in Users /\ f.nonce \in Nonces
    BY <1>0, <2>1, Running DEF Shape
  <2>3. [nonce |-> f.nonce, exp |-> now + ChallengeTTL] \in Challenge
    BY <1>0, <2>2, AuthenticatorAssumption DEF Types, StoreTypeOK, Challenge
  <2>4. Types'
    BY <1>0, <2>1, <2>2, <2>3, NoteKeepsTorn DEF Types, StoreTypeOK, Moves
  <2>5. Shapes'
    BY <1>0, <2>1, ShapesKept
  <2>6. OnePlace'
    <3>1. PICK u \in Users, n \in Nonces : u = f.user /\ n = f.nonce
      BY <2>2
    <3>2. /\ Pending(u) \in Places /\ Held(p) \in Places /\ Pending(u) # Held(p)
          /\ NonceAt(Held(p)) = n /\ NonceAt(Held(p))' = 0
      BY <1>0, <2>1, <3>1, PlaceIs, NonceAtIs DEF Moves, Pending, Held
    <3>3. NonceAt(Pending(u))' = n
      <4>1. challenges'[u] = [nonce |-> n, exp |-> now + ChallengeTTL]
        BY <1>0, <2>1, <3>1 DEF Types
      <4>2. challenges'[u] # NoChallenge /\ challenges'[u].nonce = n
        BY <2>3, <3>1, <4>1, FrameAssumption
      <4> QED BY <4>2, NonceAtIs
    <3>4. \A x \in Places \ {Pending(u)} : NonceAt(x)' \in {0, NonceAt(x)}
      BY <1>0, <2>1, <3>1, <3>2, PlaceIs, NonceAtIs DEF Moves, Types
    <3> QED BY <1>0, <2>1, <3>2, <3>3, <3>4, CarriedNonce
  <2> QED BY <2>4, <2>5, <2>6 DEF AuthInv
<1>6. ASSUME VerifyResponse(p) PROVE AuthInv'
  <2>1. /\ UNCHANGED AuthVars /\ UNCHANGED nonces /\ Note /\ At(p, "verify")
        /\ (GoTo(p, "session") \/ Return(p))
        /\ files' \in [Users -> Files] /\ keys' \in 0..MaxKeys
    BY <1>0, <1>6 DEF VerifyResponse
  <2>2. CASE GoTo(p, "session")
    <3>1. f.method = "ValidateResponse" /\ f \in Frame /\ Shape(f) /\ f.pc = "verify" /\ f # NoFrame
      BY <1>0, <2>1, MethodAt
    <3>2. Shape(With(f, "session", f.key, f.nonce, f.todo))
      BY <3>1, WithShape DEF PcsOf, Shape
    <3>3. Moves(p, With(f, "session", f.key, f.nonce, f.todo))
      BY <1>0, <2>2, <3>1, GoToMoves DEF Pcs
    <3> QED BY <1>0, <2>1, <3>1, <3>2, <3>3, WithIs, CallStep
  <2> QED BY <2>1, <2>2, ReturnStep
<1>7. ASSUME VerifyHash(p) PROVE AuthInv'
  <2>1. /\ UNCHANGED AuthVars /\ UNCHANGED <<files, keys, nonces>> /\ Note /\ At(p, "hash")
        /\ (GoTo(p, "lthn") \/ Accepted(p, FALSE) \/ Return(p))
        /\ files' \in [Users -> Files] /\ keys' \in 0..MaxKeys
    BY <1>0, <1>7 DEF VerifyHash
  <2>2. CASE GoTo(p, "lthn")
    <3>1. f.method \in {"Login", "RevokeKey"} /\ f \in Frame /\ Shape(f) /\ f.pc = "hash" /\ f # NoFrame
      BY <1>0, <2>1, MethodAt
    <3>2. Shape(With(f, "lthn", f.key, f.nonce, f.todo))
      BY <3>1, WithShape DEF PcsOf, Shape
    <3>3. Moves(p, With(f, "lthn", f.key, f.nonce, f.todo))
      BY <1>0, <2>2, <3>1, GoToMoves DEF Pcs
    <3> QED BY <1>0, <2>1, <3>1, <3>2, <3>3, WithIs, CallStep
  <2>3. CASE Accepted(p, FALSE)
    BY <2>1, <2>3, AcceptedKeeps
  <2> QED BY <2>1, <2>2, <2>3, ReturnStep
<1>8. ASSUME VerifyLegacy(p) PROVE AuthInv'
  <2>1. /\ UNCHANGED AuthVars /\ UNCHANGED <<files, keys, nonces>> /\ Note /\ At(p, "lthn")
        /\ (Accepted(p, TRUE) \/ Return(p))
        /\ files' \in [Users -> Files] /\ keys' \in 0..MaxKeys
    BY <1>0, <1>8 DEF VerifyLegacy
  <2>2. CASE Accepted(p, TRUE)
    BY <2>1, <2>2, AcceptedKeeps
  <2> QED BY <2>1, <2>2, ReturnStep
<1>9. ASSUME NEW t \in Tokens, CreateSession(p, t) PROVE AuthInv'
  <2>1. /\ At(p, "session") /\ origin[t] = Absent /\ Moves(p, NoFrame)
        /\ UNCHANGED <<now, challenges, files, keys, nonces>> /\ Note
        /\ origin' = [origin EXCEPT ![t] = f.nonce]
    BY <1>0, <1>9, ReturnMoves DEF CreateSession, Issued
  <2>2. f.user \in Users /\ f.nonce \in Nonces \cup {0} /\ f # NoFrame
    BY <1>0, <2>1, Running
  <2>3. sessions' \in [Tokens -> Session \cup {NoSession}]
    <3>1. [user |-> f.user, exp |-> now + SessionTTL] \in Session
      BY <1>0, <2>2, AuthenticatorAssumption DEF Types, StoreTypeOK, Session
    <3>2. sessions \in [Tokens -> Session \cup {NoSession}]
      BY <1>0 DEF Types, StoreTypeOK
    <3>3. \/ sessions' = [sessions EXCEPT ![t] = [user |-> f.user, exp |-> now + SessionTTL]]
          \/ sessions' = sessions
      BY <1>9 DEF CreateSession, Set
    <3> QED BY <3>1, <3>2, <3>3
  <2>4. Types'
    BY <1>0, <2>1, <2>2, <2>3, NoteKeepsTorn DEF Types, StoreTypeOK, Moves
  <2>5. Shapes'
    BY <1>0, <2>1, ShapesKept
  <2>6. OnePlace'
    <3>1. /\ Spent(t) \in Places /\ Held(p) \in Places /\ Spent(t) # Held(p)
          /\ NonceAt(Held(p)) = f.nonce /\ NonceAt(Held(p))' = 0
      BY <1>0, <2>1, <2>2, PlaceIs, NonceAtIs DEF Moves, Spent, Held
    <3>2. NonceAt(Spent(t))' \in {0, f.nonce}
      BY <1>0, <2>1, NonceAtIs DEF Types
    <3>3. \A x \in Places \ {Spent(t)} : NonceAt(x)' \in {0, NonceAt(x)}
      BY <1>0, <2>1, <3>1, PlaceIs, NonceAtIs DEF Moves, Types
    <3>4. NonceAt(Spent(t))' \in {0, NonceAt(Spent(t)), NonceAt(Held(p))}
      BY <3>1, <3>2
    <3> QED BY <1>0, <2>1, <3>1, <3>3, <3>4, CarriedNonce
  <2> QED BY <2>4, <2>5, <2>6 DEF AuthInv
<1>10. ASSUME RotateReadKey(p) PROVE AuthInv'
  <2>1. /\ UNCHANGED AuthVars /\ UNCHANGED nonces /\ Note /\ At(p, "readKey")
        /\ files' \in [Users -> Files] /\ keys' \in 0..MaxKeys
    BY <1>0, <1>10 DEF RotateReadKey
  <2> DEFINE key == files[f.user].key
             g == With(f, "readJson", key, f.nonce, f.todo)
  <2>2. CASE key \in LockedKey /\ Moves(p, g)
    <3>1. f.method = "RotateKeyPair" /\ f \in Frame /\ Shape(f) /\ f.pc = "readKey" /\ f # NoFrame
      BY <1>0, <2>1, MethodAt
    <3>2. key # Absent
      BY <2>2, AuthenticatorAssumption DEF LockedKey, Keys
    <3>3. Shape(g)
      BY <3>1, <3>2, WithShape DEF PcsOf, Shape
    <3>4. g.nonce = NonceAt(Held(p))
      BY <1>0, <3>1, WithIs
    <3> HIDE DEF g
    <3> QED BY <2>1, <2>2, <3>3, <3>4, CallStep
  <2>3. CASE Moves(p, NoFrame)
    BY <2>1, <2>3, CallStep
  <2> QED BY <1>0, <1>10, <2>2, <2>3, RotateReadKeyMoves
<1>11. ASSUME RotateReadJson(p) PROVE AuthInv'
  <2>1. /\ UNCHANGED AuthVars /\ UNCHANGED nonces /\ Note /\ At(p, "readJson")
        /\ files' \in [Users -> Files]
    BY <1>0, <1>11 DEF RotateReadJson
  <2>2. f.method = "RotateKeyPair" /\ f \in Frame /\ Shape(f) /\ f.pc = "readJson" /\ f # NoFrame
    BY <1>0, <2>1, MethodAt
  <2>3. f.new \in Passwords
    BY <2>2 DEF Shape
  <2> DEFINE todo == RotatedAccount(keys + 1, f.new)
             g == With(f, "files", f.key, f.nonce, todo)
  <2>4. CASE keys' = keys + 1 /\ keys + 1 \in Keys /\ Moves(p, g)
    <3>1. /\ todo # <<>>
          /\ \A w \in Elems(todo) : w.to \in Content(w.ext) /\ w.ext \notin {"rev", "lthn"}
      BY <2>3, <2>4, RotatedPlan
    <3> HIDE DEF todo
    <3>2. \A w \in Elems(todo) : Planned(f, w)
      BY <2>2, <3>1 DEF Planned
    <3>3. Shape(g)
      BY <2>2, <3>1, <3>2, FilesShape DEF PcsOf
    <3>4. g.nonce = NonceAt(Held(p))
      BY <1>0, <2>2, WithIs
    <3>5. keys' \in 0..MaxKeys
      BY <2>4 DEF Keys
    <3> HIDE DEF g
    <3> QED BY <2>1, <2>4, <3>3, <3>4, <3>5, CallStep
  <2>5. CASE Moves(p, NoFrame) /\ keys' = keys
    BY <1>0, <2>1, <2>5, CallStep
  <2> QED BY <1>0, <1>11, <2>3, <2>4, <2>5, RotateReadJsonMoves
<1>12. ASSUME NEW ok \in BOOLEAN, Invalidate(p, ok) PROVE AuthInv'
  <2>1. /\ UNCHANGED <<now, challenges, origin, files, keys, nonces>> /\ Note /\ Return(p)
        /\ DeleteByUser(f.user, ok)
    BY <1>12 DEF Invalidate
  <2>2. sessions' \in [Tokens -> Session \cup {NoSession}]
    <3>1. sessions \in [Tokens -> Session \cup {NoSession}]
      BY <1>0 DEF Types, StoreTypeOK
    <3>2. \E gone : sessions' = Without(gone)
      BY <2>1 DEF DeleteByUser
    <3> QED BY <3>1, <3>2 DEF Without
  <2> QED BY <2>1, <2>2, StoreStepKeeps
<1>13. ASSUME ExtendSession(p) PROVE AuthInv'
  <2>1. /\ UNCHANGED <<now, challenges, origin, files, keys, nonces>> /\ Note /\ Return(p)
        /\ At(p, "extend")
    BY <1>13 DEF ExtendSession
  <2>2. f.user \in Users
    BY <1>0, <2>1, Running
  <2>3. sessions' \in [Tokens -> Session \cup {NoSession}]
    <3> DEFINE s == [user |-> f.user, exp |-> now + SessionTTL]
    <3>1. s \in Session
      BY <1>0, <2>2, AuthenticatorAssumption DEF Types, StoreTypeOK, Session
    <3> HIDE DEF s
    <3>2. sessions \in [Tokens -> Session \cup {NoSession}]
      BY <1>0 DEF Types, StoreTypeOK
    <3>3. sessions' = [sessions EXCEPT ![f.token] = s] \/ sessions' = sessions
      BY <1>13 DEF ExtendSession, Set, s
    <3> QED BY <3>1, <3>2, <3>3
  <2> QED BY <2>1, <2>3, StoreStepKeeps
<1>14. ASSUME DropExpired(p) PROVE AuthInv'
  <2>1. /\ UNCHANGED <<now, challenges, origin, files, keys, nonces>> /\ Note /\ Return(p)
        /\ \E ok \in BOOLEAN : Delete(f.token, ok)
    BY <1>14 DEF DropExpired
  <2> QED BY <1>0, <2>1, DeleteKeepsStore, StoreStepKeeps
<1> QED
  BY <1>1, <1>2, <1>3, <1>4, <1>5, <1>6, <1>7, <1>8, <1>9, <1>10, <1>11, <1>12, <1>13,
     <1>14, Zenon DEF Step

\* Steps that are no process's
Others == Tick \/ Restart \/ (\E t \in Tokens : RevokeSession(t)) \/ UNCHANGED vars

LEMMA OthersAre ==
  ASSUME Types, Others
  PROVE  /\ UNCHANGED <<origin, files, keys, nonces>>
         /\ frame' = frame \/ frame' = [p \in Procs |-> NoFrame]
         /\ challenges' = challenges \/ challenges' = [u \in Users |-> NoChallenge]
         /\ now' \in {now, now + 1} /\ torn' \subseteq Users
         /\ \E gone : sessions' = Without(gone)
<1>1. sessions \in [Tokens -> Session \cup {NoSession}]
  BY DEF Types, StoreTypeOK
<1>2. sessions = Without({}) /\ EmptyStore = Without(Tokens)
  BY <1>1 DEF Without, EmptyStore
<1>3. CASE Tick
  BY <1>2, <1>3, NoteKeepsTorn DEF Tick
<1>4. CASE Restart
  BY <1>2, <1>4, NoteKeepsTorn DEF Restart
<1>5. ASSUME NEW t \in Tokens, RevokeSession(t)
      PROVE  /\ UNCHANGED <<origin, files, keys, nonces, frame, challenges, now>>
             /\ torn' \subseteq Users /\ \E gone : sessions' = Without(gone)
  <2>1. UNCHANGED <<origin, files, keys, nonces, frame, challenges, now>> /\ torn' \subseteq Users
    BY <1>5, NoteKeepsTorn DEF RevokeSession
  <2>2. PICK ok \in BOOLEAN : Delete(t, ok)
    BY <1>5 DEF RevokeSession
  <2> QED BY <2>1, <2>2, DeleteKeepsStore
<1>6. CASE UNCHANGED vars
  BY <1>2, <1>6 DEF vars, Types
<1> QED BY <1>3, <1>4, <1>5, <1>6 DEF Others

LEMMA OthersKeep == AuthInv /\ Others => AuthInv'
<1> SUFFICES ASSUME AuthInv, Others PROVE AuthInv'
  OBVIOUS
<1>0. Types /\ Shapes /\ OnePlace
  BY DEF AuthInv
<1>1. torn' \subseteq Users
  BY <1>0, OthersAre
<1>2. /\ UNCHANGED <<origin, files, keys, nonces>>
      /\ frame' = frame \/ frame' = [p \in Procs |-> NoFrame]
      /\ challenges' = challenges \/ challenges' = [u \in Users |-> NoChallenge]
      /\ now' \in {now, now + 1}
  BY <1>0, OthersAre
<1>6. sessions' \in [Tokens -> Session \cup {NoSession}]
  <2>1. sessions \in [Tokens -> Session \cup {NoSession}]
    BY <1>0 DEF Types, StoreTypeOK
  <2> QED BY <1>0, <2>1, OthersAre DEF Without
<1>3. Types'
  BY <1>0, <1>1, <1>2, <1>6 DEF Types, StoreTypeOK
<1>4. Shapes'
  BY <1>0, <1>2 DEF Shapes
<1>5. OnePlace'
  <2>1. \A x \in Places : NonceAt(x)' \in {0, NonceAt(x)}
    BY <1>2, PlaceIs, NonceAtIs
  <2>2. CASE Places = {}
    BY <2>2 DEF OnePlace, Places
  <2>3. CASE \E x : x \in Places
    BY <1>0, <1>2, <2>1, <2>3, CarriedNonce
  <2> QED BY <2>2, <2>3
<1> QED BY <1>3, <1>4, <1>5 DEF AuthInv

\* Every reachable state of the authenticator has well typed files, challenges,
\* sessions and calls, every call remembers what its method needs where it is, and
\* no nonce of CreateChallenge is in two places.
THEOREM AuthenticatorInvariant == Spec => []AuthInv
<1>1. AuthInv /\ [Next]_vars => AuthInv'
  <2> SUFFICES ASSUME AuthInv, [Next]_vars PROVE AuthInv'
    OBVIOUS
  <2> QED
    BY FileMethodsKeep, AdmissionMethodsKeep, RefreshKeeps, StepKeeps, OthersKeep, Zenon
       DEF Next, Others
<1> QED BY InitAuthInv, <1>1, PTL DEF Spec

\* Each file of an account holds what its extension may hold, a call has something
\* left to write exactly while it is at its files, and RotateKeyPair has read a
\* private key before it looks at the metadata.
THEOREM AuthenticatorTypeCorrect == Spec => []TypeOK
<1>1. AuthInv => TypeOK
  <2> SUFFICES ASSUME AuthInv PROVE TypeOK
    OBVIOUS
  <2>1. ASSUME NEW p \in Procs, frame[p] # NoFrame PROVE FrameOK(frame[p])
    <3>1. Shape(frame[p])
      BY <2>1 DEF AuthInv, Shapes
    <3>2. \A i \in 1..Len(frame[p].todo) : frame[p].todo[i].to \in Content(frame[p].todo[i].ext)
      BY <3>1 DEF Shape, Planned, Elems
    <3>3. frame[p].pc \in {"extend", "drop"} => frame[p].token \in Tokens
      BY <2>1, <3>1, Running, MethodAt DEF AuthInv, Shape
    <3> QED BY <2>1, <3>1, <3>2, <3>3, Running DEF AuthInv, Shape, FrameOK
  <2> QED BY <2>1 DEF AuthInv, Types, TypeOK
<1> QED BY AuthenticatorInvariant, <1>1, PTL

\* ValidateResponse takes the challenge out of the map before it verifies the
\* signature: of two calls with the same response one session at most is created.
THEOREM ChallengeIsUsedOnce == Spec => []ChallengeUsedOnce
<1>1. AuthInv => ChallengeUsedOnce
  <2> SUFFICES ASSUME AuthInv, NEW s \in Tokens, NEW t \in Tokens,
                      Issued(s), origin[s] = origin[t], origin[s] # 0
               PROVE  s = t
    BY DEF ChallengeUsedOnce
  <2>1. NonceAt(Spent(s)) = origin[s] /\ NonceAt(Spent(t)) = origin[s]
    BY NonceAtIs DEF Issued
  <2>2. Spent(s) = Spent(t)
    BY <2>1, PlaceIs DEF AuthInv, OnePlace
  <2> QED BY <2>2 DEF Spent
<1> QED BY AuthenticatorInvariant, <1>1, PTL

-----------------------------------------------------------------------------
(* A revoked account stays shut out                                         *)

\* A step of a running call leaves it the same call, or returns.
SameCall(g, f) ==
  /\ g.method = f.method /\ g.user = f.user /\ g.pw = f.pw /\ g.new = f.new /\ g.sig = f.sig

LEMMA StepOfCall ==
  ASSUME AuthInv, NEW p \in Procs, Step(p)
  PROVE  /\ frame[p] # NoFrame /\ frame[p] \in Frame /\ Shape(frame[p])
         /\ \E g : Moves(p, g) /\ (g = NoFrame \/ SameCall(g, frame[p]))
<1> DEFINE f == frame[p]
           Goal == \E g : Moves(p, g) /\ (g = NoFrame \/ SameCall(g, frame[p]))
<1>0. Types /\ (f # NoFrame => f \in Frame /\ Shape(f))
  BY Running DEF AuthInv, Shapes
<1>1. f # NoFrame
  BY DEF Step, FileStep, FileFails, ReadFails, EncryptNonce, PutChallenge, VerifyResponse,
         VerifyHash,
         VerifyLegacy, CreateSession, RotateReadKey, RotateReadJson, Invalidate,
         ExtendSession, DropExpired, At
<1>2. \A pc, key, nonce, todo : SameCall(With(f, pc, key, nonce, todo), f)
  BY WithIs DEF SameCall
<1>3. ASSUME Return(p) PROVE Goal
  BY <1>0, <1>3, ReturnMoves
<1>4. ASSUME NEW pc \in Pcs, GoTo(p, pc) PROVE Goal
  BY <1>0, <1>1, <1>2, <1>4, GoToMoves
<1>5. ASSUME At(p, "files"), NextFile(p) PROVE Goal
  <2>1. Moves(p, Advanced(f))
    BY <1>0, <1>5, HeadIsPlanned, NextFileMoves
  <2>2. Advanced(f) = NoFrame \/ SameCall(Advanced(f), f)
    BY AdvancedIs DEF SameCall
  <2> QED BY <2>1, <2>2
<1>6. ASSUME At(p, "hash") \/ At(p, "lthn"), NEW legacy \in BOOLEAN, Accepted(p, legacy) PROVE Goal
  <2>1. f.method \in {"Login", "RevokeKey"}
    BY <1>0, <1>1, <1>6, MethodAt DEF At
  <2>2. f.pw \in Passwords
    BY <1>0, <1>1, <2>1 DEF Shape
  <2> QED BY <1>0, <1>1, <1>2, <1>6, <2>1, <2>2, AcceptedMoves
<1>7. ASSUME RotateReadJson(p) PROVE Goal
  <2>1. f.new \in Passwords
    BY <1>0, <1>1, <1>7, MethodAt DEF Shape, RotateReadJson, At
  <2> QED BY <1>0, <1>2, <1>7, <2>1, RotateReadJsonMoves
<1>8. ASSUME EncryptNonce(p) PROVE Goal
  BY <1>0, <1>2, <1>8, EncryptNonceMoves
<1>9. ASSUME RotateReadKey(p) PROVE Goal
  BY <1>0, <1>2, <1>9, RotateReadKeyMoves
<1> HIDE DEF Goal
<1>10. ASSUME FileStep(p) \/ FileFails(p) PROVE Goal
  BY <1>3, <1>5, <1>10 DEF FileStep, FileFails
<1>11. ASSUME VerifyResponse(p) PROVE Goal
  BY <1>3, <1>4, <1>11 DEF VerifyResponse, Pcs
<1>12. ASSUME VerifyHash(p) PROVE Goal
  <2>1. At(p, "hash") /\ (GoTo(p, "lthn") \/ Accepted(p, FALSE) \/ Return(p))
    BY <1>12 DEF VerifyHash
  <2> QED BY <1>3, <1>4, <1>6, <2>1 DEF Pcs
<1>13. ASSUME VerifyLegacy(p) PROVE Goal
  <2>1. At(p, "lthn") /\ (Accepted(p, TRUE) \/ Return(p))
    BY <1>13 DEF VerifyLegacy
  <2> QED BY <1>3, <1>6, <2>1
<1>14. ASSUME \/ ReadFails(p) \/ PutChallenge(p) \/ \E t \in Tokens : CreateSession(p, t)
              \/ ExtendSession(p) \/ DropExpired(p) \/ \E ok \in BOOLEAN : Invalidate(p, ok)
       PROVE Goal
  BY <1>3, <1>14 DEF ReadFails, PutChallenge, CreateSession, ExtendSession, DropExpired, Invalidate
<1>15. Goal
  BY <1>7, <1>8, <1>9, <1>10, <1>11, <1>12, <1>13, <1>14, Zenon DEF Step
<1> QED BY <1>0, <1>1, <1>15 DEF Goal

\* What a step of a running call changes beside its frame
LEMMA StepEffects ==
  ASSUME NEW p \in Procs, Step(p)
  PROVE  /\ FileStep(p) \/ files' = files
         /\ (\E t \in Tokens : CreateSession(p, t)) \/ ExtendSession(p)
              \/ (\E gone : sessions' = Without(gone)) \/ sessions' = sessions
         /\ PutChallenge(p) \/ challenges' = challenges
         /\ (\E t \in Tokens : CreateSession(p, t)) \/ origin' = origin
BY Zenon
   DEF Step, AuthVars, FileStep, FileFails, ReadFails, EncryptNonce, PutChallenge,
       VerifyResponse, VerifyHash, VerifyLegacy, CreateSession, RotateReadKey, RotateReadJson,
       ExtendSession, DropExpired, Delete, Invalidate, DeleteByUser

\* A shut out user is still shut out if the call that moved cannot admit it.
LEMMA NobodyAdmitted ==
  ASSUME NEW p \in Procs, NEW u, NEW g, Moves(p, g), \A q \in Procs : ~MayAdmit(q, u),
         \/ g = NoFrame \/ g.user # u
         \/ g.method \notin {"Register", "DeleteUser", "Login", "CreateChallenge",
                            "ValidateResponse", "RefreshSession"}
  PROVE  \A q \in Procs : ~MayAdmit(q, u)'
<1>1. ~MayAdmit(p, u)'
  BY DEF Moves, MayAdmit, InMethod
<1>2. ASSUME NEW q \in Procs \ {p} PROVE ~MayAdmit(q, u)'
  BY DEF Moves, MayAdmit, InMethod
<1> QED BY <1>1, <1>2

LEMMA StepStaysShut ==
  ASSUME AuthInv, NEW p \in Procs, Step(p), NEW u \in Users, ShutOut(u)
  PROVE  ShutOut(u)'
<1> DEFINE f == frame[p]
<1>0. f # NoFrame /\ f \in Frame /\ Shape(f)
  BY StepOfCall
<1>1. f.user # u \/ f.method \in {"RevokeKey", "RotateKeyPair"}
  BY <1>0 DEF ShutOut, MayAdmit, InMethod, Frame, Methods
<1>2. \A q \in Procs : ~MayAdmit(q, u)'
  <2>1. PICK g : Moves(p, g) /\ (g = NoFrame \/ SameCall(g, f))
    BY StepOfCall
  <2> QED BY <1>1, <2>1, NobodyAdmitted DEF ShutOut, SameCall
<1>3. files'[u].rev = "revoked"
  <2>1. CASE FileStep(p)
    <3>1. At(p, "files")
      BY <2>1 DEF FileStep
    <3>2. CASE f.user # u
      BY <2>1, <3>2, FileWritten DEF ShutOut
    <3>3. CASE f.user = u
      <4> DEFINE do == Head(f.todo)
      <4>1. do = Put("rev", "revoked") \/ do.ext # "rev"
        BY <1>1, <3>1, <3>3, HeadIsPlanned DEF Planned
      <4>2. do.ext = "rev" => do.to = "revoked"
        BY <4>1 DEF Put
      <4>3. /\ files'[u][do.ext] = do.to
            /\ \A e \in Exts \ {do.ext} : files'[u][e] = files[u][e]
        BY <2>1, <3>3, FileWritten
      <4>4. files[u]["rev"] = "revoked" /\ "rev" \in Exts
        BY Contents DEF ShutOut
      <4> HIDE DEF do
      <4>5. files'[u]["rev"] = "revoked"
        BY <4>2, <4>3, <4>4
      <4> QED BY <4>5
    <3> QED BY <3>2, <3>3
  <2> QED BY <2>1, StepEffects DEF ShutOut
<1>4. challenges'[u] = NoChallenge
  <2>1. CASE PutChallenge(p)
    <3>1. f.method = "CreateChallenge"
      BY <1>0, <2>1, MethodAt DEF PutChallenge, At
    <3>2. f.user # u
      BY <1>1, <3>1
    <3> QED BY <2>1, <3>2 DEF PutChallenge, ShutOut, AuthInv, Types
  <2> QED BY <2>1, StepEffects DEF ShutOut
<1>5. \A t \in Tokens : sessions'[t] = NoSession \/ sessions'[t].user # u
  <2>0. /\ \A t \in Tokens : sessions[t] = NoSession \/ sessions[t].user # u
        /\ sessions \in [Tokens -> Session \cup {NoSession}]
    BY DEF ShutOut, OfUser, Present, AuthInv, Types, StoreTypeOK
  <2>1. ASSUME NEW t \in Tokens, CreateSession(p, t)
        PROVE  \A s \in Tokens : sessions'[s] = NoSession \/ sessions'[s].user # u
    <3>1. f.method \in {"Login", "ValidateResponse"}
      BY <1>0, <2>1, MethodAt DEF CreateSession, At
    <3>2. f.user # u
      BY <1>1, <3>1
    <3>3. \/ sessions' = [sessions EXCEPT ![t] = [user |-> f.user, exp |-> now + SessionTTL]]
          \/ sessions' = sessions
      BY <2>1 DEF CreateSession, Set
    <3> QED BY <2>0, <3>2, <3>3
  <2>2. ASSUME NEW gone, sessions' = Without(gone)
        PROVE  \A s \in Tokens : sessions'[s] = NoSession \/ sessions'[s].user # u
    BY <2>0, <2>2 DEF Without
  <2>3. ASSUME ExtendSession(p)
        PROVE  \A s \in Tokens : sessions'[s] = NoSession \/ sessions'[s].user # u
    <3>1. f.method = "RefreshSession"
      BY <1>0, <2>3, MethodAt DEF ExtendSession, At
    <3>2. f.user # u
      BY <1>1, <3>1
    <3>3. \/ sessions' = [sessions EXCEPT ![f.token] =
                            [user |-> f.user, exp |-> now + SessionTTL]]
          \/ sessions' = sessions
      BY <2>3 DEF ExtendSession, Set
    <3> QED BY <2>0, <3>2, <3>3
  <2> QED BY <2>0, <2>1, <2>2, <2>3, StepEffects
<1>6. OfUser(u)' = {}
  BY <1>5 DEF OfUser, Present
<1> QED BY <1>2, <1>3, <1>4, <1>6 DEF ShutOut

\* A method that starts does not admit a shut out user, unless it rewrites the files.
LEMMA MethodsStayShut ==
  ASSUME AuthInv, MediumMayFail = FALSE, NEW p \in Procs, NEW v \in Users,
         FileMethods(p, v) \/ AdmissionMethods(p, v), NEW u \in Users, ShutOut(u)
  PROVE  ShutOut(u)' \/ Starts(u, {"Register", "DeleteUser"})
<1>0. Types /\ \A q \in Procs : ~MayAdmit(q, u)
  BY DEF AuthInv, ShutOut
<1>1. UNCHANGED <<sessions, files>>
  BY Zenon DEF FileMethods, AdmissionMethods, Register, RevokeKey, RotateKeyPair, DeleteUser,
         CreateChallenge, ValidateResponse, Login, AuthVars
<1>2. challenges'[u] = NoChallenge
  <2>1. challenges' = challenges \/ challenges' = [challenges EXCEPT ![v] = NoChallenge]
    BY Zenon DEF FileMethods, AdmissionMethods, Register, RevokeKey, RotateKeyPair, DeleteUser,
           CreateChallenge, ValidateResponse, Login, AuthVars
  <2> QED BY <1>0, <2>1 DEF ShutOut, Types
<1>3. ASSUME \A q \in Procs : ~MayAdmit(q, u)' PROVE ShutOut(u)'
  BY <1>1, <1>2, <1>3 DEF ShutOut, OfUser, Present
<1> DEFINE Goal == ShutOut(u)' \/ Starts(u, {"Register", "DeleteUser"})
<1>4. ASSUME NEW g, Enters(p, g), g.method \in {"Register", "DeleteUser"}, g.user = v
      PROVE  Goal
  <2>1. CASE v = u
    <3>1. ~InMethod(p, u, {"Register", "DeleteUser"})
      BY <1>4 DEF InMethod, Enters
    <3>2. InMethod(p, u, {"Register", "DeleteUser"})'
      BY <1>4, <2>1, FrameAssumption DEF InMethod, Enters, Moves
    <3> QED BY <3>1, <3>2 DEF Starts
  <2>2. CASE v # u
    BY <1>0, <1>3, <1>4, <2>2, NobodyAdmitted DEF Enters
  <2> QED BY <2>1, <2>2
<1>5. ASSUME NEW g, Enters(p, g), g.method \in {"RevokeKey", "RotateKeyPair"} \/ v # u, g.user = v
      PROVE  Goal
  BY <1>0, <1>3, <1>5, NobodyAdmitted DEF Enters
<1> HIDE DEF Goal
<1>6. ASSUME NEW w \in Passwords, Register(p, v, w) PROVE Goal
  BY <1>0, <1>4, <1>6, RegisterMoves DEF Call
<1>7. ASSUME DeleteUser(p, v) PROVE Goal
  BY <1>0, <1>4, <1>7, DeleteUserMoves DEF Call
<1>8. ASSUME NEW w \in Passwords, RevokeKey(p, v, w) PROVE Goal
  BY <1>0, <1>5, <1>8, RevokeKeyMoves DEF Call
<1>9. ASSUME NEW old \in Passwords, NEW new \in Passwords, RotateKeyPair(p, v, old, new) PROVE Goal
  BY <1>0, <1>5, <1>9, RotateKeyPairMoves DEF Call
<1>10. ASSUME CreateChallenge(p, v) PROVE Goal
  <2>1. v # u
    BY <1>10 DEF CreateChallenge, SeenRevoked, ReadOutcomes, ShutOut
  <2> QED BY <1>0, <1>5, <1>10, <2>1, CreateChallengeMoves DEF Call
<1>11. ASSUME NEW w \in Passwords, Login(p, v, w) PROVE Goal
  <2>1. v # u
    BY <1>11 DEF Login, SeenRevoked, ReadOutcomes, ShutOut
  <2> QED BY <1>0, <1>5, <1>11, <2>1, LoginMoves DEF Call
<1>12. ASSUME NEW sig \in [nonce : 1..nonces, key : 1..keys], ValidateResponse(p, v, sig) PROVE Goal
  <2>1. v # u
    BY <1>12 DEF ValidateResponse, ShutOut
  <2>2. CASE frame' = frame
    <3>1. \A q \in Procs : ~MayAdmit(q, u)'
      BY <1>0, <2>2 DEF MayAdmit, InMethod
    <3> QED BY <1>3, <3>1 DEF Goal
  <2> QED BY <1>0, <1>5, <1>12, <2>1, <2>2, ValidateResponseMoves DEF Call
<1>13. Goal
  BY <1>6, <1>7, <1>8, <1>9, <1>10, <1>11, <1>12, Zenon DEF FileMethods, AdmissionMethods
<1> QED BY <1>13 DEF Goal

\* A refresh that starts has read a session of somebody else.
LEMMA RefreshStaysShut ==
  ASSUME AuthInv, NEW p \in Procs, NEW t \in Tokens, RefreshSession(p, t),
         NEW u \in Users, ShutOut(u)
  PROVE  ShutOut(u)'
<1>1. PICK pc \in {"extend", "drop"} : Enters(p, Refresh(pc, sessions[t].user, t))
  BY RefreshSessionMoves DEF AuthInv
<1>2. sessions[t] # NoSession /\ sessions[t].user # u
  BY DEF RefreshSession, ShutOut, OfUser, Present
<1> DEFINE g == Refresh(pc, sessions[t].user, t)
<1>3. Moves(p, g) /\ g.user # u
  BY <1>1, <1>2 DEF Enters, Refresh
<1> HIDE DEF g
<1>4. \A q \in Procs : ~MayAdmit(q, u)'
  BY <1>3, NobodyAdmitted DEF ShutOut
<1>5. UNCHANGED <<sessions, files, challenges>>
  BY DEF RefreshSession, AuthVars
<1> QED BY <1>4, <1>5 DEF ShutOut, OfUser, Present

LEMMA OthersStayShut ==
  ASSUME AuthInv, Others, NEW u \in Users, ShutOut(u)
  PROVE  ShutOut(u)'
<1>1. /\ files' = files
      /\ frame' = frame \/ frame' = [p \in Procs |-> NoFrame]
      /\ challenges' = challenges \/ challenges' = [v \in Users |-> NoChallenge]
      /\ \E gone : sessions' = Without(gone)
  BY OthersAre DEF AuthInv
<1>2. \A q \in Procs : ~MayAdmit(q, u)'
  BY <1>1 DEF ShutOut, MayAdmit, InMethod
<1>3. OfUser(u)' = {}
  BY <1>1 DEF ShutOut, OfUser, Present, Without
<1> QED BY <1>1, <1>2, <1>3 DEF ShutOut

\* Once RevokeKey has written the revocation and dropped the sessions, and no call
\* from before is left, a refresh of a dropped session among them, no call, response,
\* refresh or restart gives the user a session until Register or DeleteUser rewrites
\* the account.  The medium must not fail: IsRevoked
\* takes a failed read of the .rev file for "not revoked".
THEOREM RevokedIsShutOut == ASSUME MediumMayFail = FALSE PROVE Spec => RevokedStayShutOut
<1>1. ASSUME AuthInv, [Next]_vars, NEW u \in Users, ShutOut(u)
      PROVE  ShutOut(u)' \/ Starts(u, {"Register", "DeleteUser"})
  BY <1>1, StepStaysShut, MethodsStayShut, RefreshStaysShut, OthersStayShut, Zenon DEF Next, Others
<1>2. AuthInv /\ [Next]_vars =>
        [\A u \in Users : ShutOut(u) => ShutOut(u)' \/ Starts(u, {"Register", "DeleteUser"})]_vars
  BY <1>1, Zenon
<1> QED BY <1>2, AuthenticatorInvariant, PTL DEF Spec, RevokedStayShutOut

-----------------------------------------------------------------------------
(* A replaced password or keypair stays dead                                *)

\* What makes a password or a keypair dead, said of one call
DeadPasswordCall(f, u, w) ==
  f # NoFrame /\ f.user = u =>
    /\ f.method \notin {"Register", "RotateKeyPair", "DeleteUser"}
    /\ f.method = "Login" /\ f.pw = w => f.pc = "hash"

DeadKeyCall(f, u, k) ==
  f # NoFrame /\ f.user = u =>
    /\ f.method \notin {"Register", "RotateKeyPair"}
    /\ f.method = "ValidateResponse" /\ f.sig.key = k => f.pc = "verify"

LEMMA DeadIs ==
  ASSUME NEW u, NEW w, NEW k
  PROVE  /\ PasswordDead(u, w) <=> /\ files[u].hash \notin {Absent, HashPassword(w)}
                                   /\ \A p \in Procs : DeadPasswordCall(frame[p], u, w)
         /\ KeyDead(u, k) <=> /\ k <= keys /\ files[u].pub # k
                              /\ \A p \in Procs : DeadKeyCall(frame[p], u, k)
         /\ PasswordDead(u, w)' <=> /\ files'[u].hash \notin {Absent, HashPassword(w)}
                                    /\ \A p \in Procs : DeadPasswordCall(frame'[p], u, w)
         /\ KeyDead(u, k)' <=> /\ k <= keys' /\ files'[u].pub # k
                               /\ \A p \in Procs : DeadKeyCall(frame'[p], u, k)
BY DEF PasswordDead, KeyDead, DeadPasswordCall, DeadKeyCall, InMethod

LEMMA StepStaysDead ==
  ASSUME AuthInv, NEW p \in Procs, Step(p), NEW u \in Users
  PROVE  /\ \A w \in Passwords : PasswordDead(u, w) => PasswordDead(u, w)'
         /\ \A k \in Keys : KeyDead(u, k) => KeyDead(u, k)'
<1> DEFINE f == frame[p]
<1>0. /\ f # NoFrame /\ f \in Frame /\ Shape(f) /\ Types
      /\ \A q \in Procs \ {p} : frame'[q] = frame[q]
  BY StepOfCall DEF AuthInv, Moves
<1>1. PICK g : Moves(p, g) /\ (g = NoFrame \/ SameCall(g, f))
  BY StepOfCall
<1>2. ASSUME NEW w \in Passwords, PasswordDead(u, w) PROVE PasswordDead(u, w)'
  <2>0. /\ files[u].hash \notin {Absent, HashPassword(w)}
        /\ \A q \in Procs : DeadPasswordCall(frame[q], u, w)
    BY <1>2, DeadIs
  <2>1. files'[u].hash \notin {Absent, HashPassword(w)}
    <3>1. CASE FileStep(p) /\ f.user = u
      <4> DEFINE do == Head(f.todo)
      <4>1. f.pc = "files" /\ f.method \in {"RevokeKey", "Login"}
        BY <1>0, <2>0, <3>1, MethodAt DEF FileStep, At, DeadPasswordCall
      <4>2. Planned(f, do)
        BY <3>1, HeadIsPlanned DEF FileStep
      <4>3. do.ext = "hash" => do.to = HashPassword(f.pw) /\ f.pw \in Passwords \ {w}
        BY <1>0, <2>0, <3>1, <4>1, <4>2 DEF Planned, Put, Shape, DeadPasswordCall
      <4>4. /\ files'[u][do.ext] = do.to
            /\ \A e \in Exts \ {do.ext} : files'[u][e] = files[u][e]
        BY <3>1, FileWritten
      <4>5. files[u]["hash"] \notin {Absent, HashPassword(w)} /\ "hash" \in Exts
        BY <2>0, Contents
      <4>6. \A v \in Passwords \ {w} : HashPassword(v) \notin {Absent, HashPassword(w)}
        BY AuthenticatorAssumption DEF HashPassword
      <4> HIDE DEF do
      <4>7. files'[u]["hash"] \notin {Absent, HashPassword(w)}
        BY <4>3, <4>4, <4>5, <4>6
      <4> QED BY <4>7
    <3>2. CASE FileStep(p) /\ f.user # u
      BY <2>0, <3>2, FileWritten
    <3> QED BY <2>0, <3>1, <3>2, StepEffects
  <2>2. DeadPasswordCall(frame'[p], u, w)
    <3>1. CASE f.user # u
      BY <1>1, <3>1 DEF Moves, DeadPasswordCall, SameCall
    <3>2. CASE f.method = "RevokeKey" \/ f.pw # w
      BY <1>0, <1>1, <2>0, <3>2 DEF Moves, DeadPasswordCall, SameCall
    <3>3. CASE f.user = u /\ f.method = "Login" /\ f.pw = w
      <4>1. f.pc = "hash" /\ files[u].hash \notin {Absent, HashPassword(w)}
        BY <1>0, <2>0, <3>3 DEF DeadPasswordCall
      <4>2. VerifyHash(p) \/ ReadFails(p)
        BY <4>1, Zenon DEF Step, FileStep, FileFails, EncryptNonce, PutChallenge, VerifyResponse,
               VerifyLegacy, CreateSession, RotateReadKey, RotateReadJson, Invalidate,
               ExtendSession, DropExpired, At
      <4>3. Return(p)
        BY <3>3, <4>1, <4>2 DEF VerifyHash, ReadFails, VerifyPassword
      <4> QED BY <1>0, <4>3, ReturnMoves DEF Moves, DeadPasswordCall
    <3>4. f.user = u => f.method \in {"CreateChallenge", "ValidateResponse", "Login", "RevokeKey",
                                      "RefreshSession"}
      BY <1>0, <2>0 DEF DeadPasswordCall, Frame, Methods
    <3>5. CASE f.method \in {"CreateChallenge", "ValidateResponse", "RefreshSession"}
      BY <1>1, <3>5 DEF Moves, DeadPasswordCall, SameCall
    <3> QED BY <3>1, <3>2, <3>3, <3>4, <3>5
  <2> QED BY <1>0, <2>0, <2>1, <2>2, DeadIs
<1>3. ASSUME NEW k \in Keys, KeyDead(u, k) PROVE KeyDead(u, k)'
  <2>0. /\ k <= keys /\ files[u].pub # k
        /\ \A q \in Procs : DeadKeyCall(frame[q], u, k)
    BY <1>3, DeadIs
  <2>1. files'[u].pub # k
    <3>1. CASE FileStep(p) /\ f.user = u
      <4> DEFINE do == Head(f.todo)
      <4>1. f.pc = "files" /\ f.method \in {"RevokeKey", "Login", "DeleteUser"}
        BY <1>0, <2>0, <3>1, MethodAt DEF FileStep, At, DeadKeyCall
      <4>2. Planned(f, do)
        BY <3>1, HeadIsPlanned DEF FileStep
      <4>3. do.ext = "pub" => do.to = Absent
        BY <4>1, <4>2 DEF Planned, Put
      <4>4. /\ files'[u][do.ext] = do.to
            /\ \A e \in Exts \ {do.ext} : files'[u][e] = files[u][e]
        BY <3>1, FileWritten
      <4>5. files[u]["pub"] # k /\ "pub" \in Exts /\ Absent # k
        BY <2>0, Contents, AuthenticatorAssumption DEF Keys
      <4> HIDE DEF do
      <4>6. files'[u]["pub"] # k
        BY <4>3, <4>4, <4>5
      <4> QED BY <4>6
    <3>2. CASE FileStep(p) /\ f.user # u
      BY <2>0, <3>2, FileWritten
    <3> QED BY <2>0, <3>1, <3>2, StepEffects
  <2>2. DeadKeyCall(frame'[p], u, k)
    <3>1. CASE f.user # u
      BY <1>1, <3>1 DEF Moves, DeadKeyCall, SameCall
    <3>2. CASE f.user = u /\ (f.method # "ValidateResponse" \/ f.sig.key # k)
      BY <1>0, <1>1, <2>0, <3>2 DEF Moves, DeadKeyCall, SameCall
    <3>3. CASE f.user = u /\ f.method = "ValidateResponse" /\ f.sig.key = k
      <4>1. f.pc = "verify" /\ files[u].pub # k
        BY <1>0, <2>0, <3>3 DEF DeadKeyCall
      <4>2. VerifyResponse(p) \/ ReadFails(p)
        BY <4>1, Zenon DEF Step, FileStep, FileFails, EncryptNonce, PutChallenge, VerifyHash,
               VerifyLegacy, CreateSession, RotateReadKey, RotateReadJson, Invalidate,
               ExtendSession, DropExpired, At
      <4>3. ~Verified(p)
        BY <3>3, <4>1 DEF Verified, Verify, Sign
      <4>4. Return(p)
        BY <4>2, <4>3 DEF VerifyResponse, ReadFails
      <4> QED BY <1>0, <4>4, ReturnMoves DEF Moves, DeadKeyCall
    <3> QED BY <3>1, <3>2, <3>3
  <2>3. k <= keys'
    <3>1. keys' \in {keys, keys + 1}
      BY DEF Step, AuthVars, FileStep, FileFails, ReadFails, EncryptNonce, PutChallenge,
             VerifyResponse,
             VerifyHash, VerifyLegacy, CreateSession, RotateReadKey, RotateReadJson, Invalidate,
             ExtendSession, DropExpired
    <3> QED BY <1>0, <2>0, <3>1, AuthenticatorAssumption DEF Types, Keys
  <2> QED BY <1>0, <2>0, <2>1, <2>2, <2>3, DeadIs
<1> QED BY <1>2, <1>3

LEMMA MethodsStayDead ==
  ASSUME AuthInv, NEW p \in Procs, NEW v \in Users, FileMethods(p, v) \/ AdmissionMethods(p, v),
         NEW u \in Users, ~Starts(u, {"Register", "RotateKeyPair", "DeleteUser"})
  PROVE  /\ \A w \in Passwords : PasswordDead(u, w) => PasswordDead(u, w)'
         /\ \A k \in Keys : KeyDead(u, k) => KeyDead(u, k)'
<1>0. Types
  BY DEF AuthInv
<1>1. /\ files' = files /\ keys' \in {keys, keys + 1}
  BY Zenon, AuthenticatorAssumption DEF FileMethods, AdmissionMethods, Register, RevokeKey,
         RotateKeyPair, DeleteUser, CreateChallenge, ValidateResponse, Login, AuthVars
<1>2. \A k \in Keys : k <= keys => k <= keys'
  BY <1>0, <1>1, AuthenticatorAssumption DEF Types, Keys
<1> DEFINE Harmless(g) == \/ g.user # u
                          \/ g.method \in {"RevokeKey", "CreateChallenge"}
                          \/ g.method = "Login" /\ g.pc = "hash"
                          \/ g.method = "ValidateResponse" /\ g.pc = "verify"
           Goal == /\ \A w \in Passwords : PasswordDead(u, w) => PasswordDead(u, w)'
                   /\ \A k \in Keys : KeyDead(u, k) => KeyDead(u, k)'
<1>3. ASSUME NEW g, Enters(p, g), Harmless(g) PROVE Goal
  <2>1. \A w, k : DeadPasswordCall(g, u, w) /\ DeadKeyCall(g, u, k)
    BY <1>3 DEF DeadPasswordCall, DeadKeyCall
  <2>2. frame'[p] = g /\ \A q \in Procs \ {p} : frame'[q] = frame[q]
    BY <1>3 DEF Enters, Moves
  <2> QED BY <1>1, <1>2, <2>1, <2>2, DeadIs
<1>4. ASSUME NEW g, Enters(p, g), g.method \in {"Register", "RotateKeyPair", "DeleteUser"}
      PROVE  g.user # u
  BY <1>4, FrameAssumption DEF Starts, InMethod, Enters, Moves
<1>5. ASSUME frame' = frame PROVE Goal
  BY <1>1, <1>2, <1>5, DeadIs
<1> HIDE DEF Goal
<1>6. ASSUME NEW w \in Passwords, Register(p, v, w) PROVE Goal
  BY <1>0, <1>3, <1>4, <1>6, RegisterMoves DEF Call
<1>7. ASSUME DeleteUser(p, v) PROVE Goal
  BY <1>0, <1>3, <1>4, <1>7, DeleteUserMoves DEF Call
<1>8. ASSUME NEW w \in Passwords, RevokeKey(p, v, w) PROVE Goal
  BY <1>0, <1>3, <1>8, RevokeKeyMoves DEF Call
<1>9. ASSUME NEW old \in Passwords, NEW new \in Passwords, RotateKeyPair(p, v, old, new) PROVE Goal
  BY <1>0, <1>3, <1>4, <1>9, RotateKeyPairMoves DEF Call
<1>10. ASSUME CreateChallenge(p, v) PROVE Goal
  BY <1>0, <1>3, <1>10, CreateChallengeMoves DEF Call
<1>11. ASSUME NEW w \in Passwords, Login(p, v, w) PROVE Goal
  BY <1>0, <1>3, <1>11, LoginMoves DEF Call
<1>12. ASSUME NEW sig \in [nonce : 1..nonces, key : 1..keys], ValidateResponse(p, v, sig) PROVE Goal
  BY <1>0, <1>3, <1>5, <1>12, ValidateResponseMoves DEF Call
<1>13. Goal
  BY <1>6, <1>7, <1>8, <1>9, <1>10, <1>11, <1>12, Zenon DEF FileMethods, AdmissionMethods
<1> QED BY <1>13 DEF Goal

LEMMA RefreshStaysDead ==
  ASSUME AuthInv, NEW p \in Procs, NEW t \in Tokens, RefreshSession(p, t), NEW u \in Users
  PROVE  /\ \A w \in Passwords : PasswordDead(u, w) => PasswordDead(u, w)'
         /\ \A k \in Keys : KeyDead(u, k) => KeyDead(u, k)'
<1>1. PICK pc \in {"extend", "drop"} : Enters(p, Refresh(pc, sessions[t].user, t))
  BY RefreshSessionMoves DEF AuthInv
<1> DEFINE g == Refresh(pc, sessions[t].user, t)
<1>2. Moves(p, g) /\ \A w, k : DeadPasswordCall(g, u, w) /\ DeadKeyCall(g, u, k)
  BY <1>1 DEF Enters, Refresh, DeadPasswordCall, DeadKeyCall
<1>3. frame'[p] = g /\ \A q \in Procs \ {p} : frame'[q] = frame[q]
  BY <1>2 DEF Moves
<1>4. UNCHANGED <<files, keys>>
  BY DEF RefreshSession
<1> HIDE DEF g
<1> QED BY <1>2, <1>3, <1>4, DeadIs

LEMMA OthersStayDead ==
  ASSUME AuthInv, Others, NEW u \in Users
  PROVE  /\ \A w \in Passwords : PasswordDead(u, w) => PasswordDead(u, w)'
         /\ \A k \in Keys : KeyDead(u, k) => KeyDead(u, k)'
<1>1. /\ UNCHANGED <<files, keys>>
      /\ frame' = frame \/ frame' = [p \in Procs |-> NoFrame]
  BY OthersAre DEF AuthInv
<1>2. ASSUME NEW w, NEW k, NEW p \in Procs
      PROVE  /\ DeadPasswordCall(frame[p], u, w) => DeadPasswordCall(frame'[p], u, w)
             /\ DeadKeyCall(frame[p], u, k) => DeadKeyCall(frame'[p], u, k)
  BY <1>1 DEF DeadPasswordCall, DeadKeyCall
<1>3. ASSUME NEW w, PasswordDead(u, w) PROVE PasswordDead(u, w)'
  BY <1>1, <1>2, <1>3, DeadIs
<1>4. ASSUME NEW k, KeyDead(u, k) PROVE KeyDead(u, k)'
  BY <1>1, <1>2, <1>4, DeadIs
<1> QED BY <1>3, <1>4

\* A password whose hash RotateKeyPair has replaced, and the keypair it has
\* replaced, open nothing again, whatever fails, until another Register, rotation
\* or deletion of that user begins.
THEOREM ReplacedCredentialsDie == Spec => ReplacedCredentialsStayDead
<1>1. ASSUME AuthInv, [Next]_vars, NEW u \in Users
      PROVE  \/ Starts(u, {"Register", "RotateKeyPair", "DeleteUser"})
             \/ /\ \A w \in Passwords : PasswordDead(u, w) => PasswordDead(u, w)'
                /\ \A k \in Keys : KeyDead(u, k) => KeyDead(u, k)'
  BY <1>1, StepStaysDead, MethodsStayDead, RefreshStaysDead, OthersStayDead, Zenon DEF Next, Others
<1>2. AuthInv /\ [Next]_vars =>
        [\A u \in Users : \/ Starts(u, {"Register", "RotateKeyPair", "DeleteUser"})
                          \/ /\ \A w \in Passwords : PasswordDead(u, w) => PasswordDead(u, w)'
                             /\ \A k \in Keys : KeyDead(u, k) => KeyDead(u, k)']_vars
  BY <1>1, Zenon
<1> QED BY <1>2, AuthenticatorInvariant, PTL DEF Spec, ReplacedCredentialsStayDead
=============================================================================
