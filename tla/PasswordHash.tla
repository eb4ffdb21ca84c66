---------------------------- MODULE PasswordHash ----------------------------
(***************************************************************************)
(* The encoded Argon2id hashes of crypt/hash.go: what HashPassword writes  *)
(* and what VerifyPassword makes of any string.                            *)
(*                                                                         *)
(* A hash string is its parts between the "$": the version, the list of    *)
(* parameters, the salt and the hash.  (The two parts in front are not     *)
(* looked at.)  A number in it is a field, a prefix and a numeral.  The    *)
(* widths are scaled down: Uint8Max and Uint32Max are the largest numbers  *)
(* that the two parsers accept.                                            *)
(***************************************************************************)
EXTENDS Integers, Sequences

CONSTANTS Uint8Max, Uint32Max,
          Memory, Time, Parallelism,   \* the parameters of HashPassword
          Version,                     \* of the argon2 package
          Undecodable,                 \* a salt or hash that is not base64
          EmptyHash                    \* a hash of no bytes

ASSUME WidthsAssumption ==
  /\ {Uint8Max, Uint32Max, Memory, Time, Parallelism} \subseteq Nat \ {0}
  /\ Uint8Max <= Uint32Max /\ Parallelism <= Uint8Max
  /\ Memory <= Uint32Max /\ Time <= Uint32Max

NotANumber == -1
Field(prefix, number) == [prefix |-> prefix, number |-> number]

\* argon2.IDKey: the hash of a password, with no collision.  It panics when the
\* time, the parallelism or the length asked for is zero.
Argon2(pw, salt, m, t, p) == [pw |-> pw, salt |-> salt, m |-> m, t |-> t, p |-> p]
Argon2Panics(t, p, hash) == t = 0 \/ p = 0 \/ hash = EmptyHash

\* core.Split gives parts; the string has two more in front of these.
HashPassword(pw, salt) ==
  [version |-> Field("v", Version),
   params |-> <<Field("m", Memory), Field("t", Time), Field("p", Parallelism)>>,
   salt |-> salt, hash |-> Argon2(pw, salt, Memory, Time, Parallelism)]

ParseUint(field, prefix, max) == field.prefix = prefix /\ field.number \in 0..max

\* ParseArgon2Params with a mistake, which is parseArgonParams beside it in
\* hash.go: the parallelism is read with the wider parser and then cut off
ParseArgonParams(params) ==
  IF /\ Len(params) = 3
     /\ ParseUint(params[1], "m", Uint32Max)
     /\ ParseUint(params[2], "t", Uint32Max)
     /\ ParseUint(params[3], "p", Uint32Max)
  THEN <<params[1].number, params[2].number, params[3].number % (Uint8Max + 1)>>
  ELSE <<>>

\* The memory, the time and the parallelism, or nothing
ParseArgon2Params(params) ==
  IF /\ Len(params) = 3
     /\ ParseUint(params[1], "m", Uint32Max)
     /\ ParseUint(params[2], "t", Uint32Max)
     /\ ParseUint(params[3], "p", Uint8Max)
  THEN <<params[1].number, params[2].number, params[3].number>>
  ELSE <<>>

VerifyPassword(pw, s) ==
  LET params == ParseArgon2Params(s.params) IN
  IF \/ s.version.prefix # "v" \/ s.version.number # Version
     \/ params = <<>> \/ s.salt = Undecodable \/ s.hash = Undecodable
  THEN "error"
  ELSE IF Argon2Panics(params[2], params[3], s.hash) THEN "panic"
  ELSE IF s.hash = Argon2(pw, s.salt, params[1], params[2], params[3])
  THEN "match" ELSE "mismatch"
=============================================================================
