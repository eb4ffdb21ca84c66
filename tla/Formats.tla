------------------------------- MODULE Formats -------------------------------
(***************************************************************************)
(* The pure parts of go-crypt against what they are for: the base64 of     *)
(* corecompat, encoded password hashes, passphrase ciphertexts, the file   *)
(* names of the key store and the summary of a test run.                   *)
(*                                                                         *)
(* They keep no state.  An input is built here piece by piece, so that the *)
(* states are all inputs up to a bound, and the properties compare what    *)
(* the code computes from the input with a definition of what it should.   *)
(***************************************************************************)
EXTENDS FiniteSets, Encodings, PasswordHash, Sealing, KeyNames, TestOutput

CONSTANTS
  SampleBytes, SampleDigits,     \* of the inputs of the encodings
  Passphrases, Salts, Numbers,   \* of hash strings and ciphertexts
  Encryptions,                   \* whose pieces a ciphertext may be made of
  Parts,                         \* of the names of keys
  Packages,                      \* the results go test may have to tell
  MaxBytes, MaxDigits, MaxPieces, MaxParts, MaxPackages     \* bounds: lengths

\* A hash of HashPassword is 32 bytes in base64, and its salt is base64 too.
ASSUME HashesAssumption ==
  /\ Undecodable \notin Salts
  /\ \A pw \in Passphrases, salt \in Salts :
       Argon2(pw, salt, Memory, Time, Parallelism) \notin {Undecodable, EmptyHash}

\* Bytes, and digits of base64.
ASSUME SamplesAssumption == SampleBytes \subseteq 0..255 /\ SampleDigits \subseteq Digits

\* What go test can tell of a package
ASSUME PackagesAssumption ==
  Packages \subseteq [result : {"ok", "FAIL", "no test files"}, cov : Nat \cup {NoCov}]

VARIABLES kind, input     \* what the input is for, and the input

Kinds == {"bytes", "base64", "params", "ciphertext", "ref", "tests"}

Init == kind \in Kinds /\ input = <<>>

Extend(k, S, max) ==
  /\ kind = k /\ Len(input) < max
  /\ \E x \in S : input' = Append(input, x)
  /\ UNCHANGED kind

AddByte == Extend("bytes", SampleBytes, MaxBytes)
AddDigit == Extend("base64", SampleDigits \cup {Pad, Junk}, MaxDigits)
AddParam == Extend("params", [prefix : {"m", "t", "p"}, number : Numbers], 3)
AddPiece ==
  Extend("ciphertext", UNION {{Encrypt(e)[i] : i \in 1..Len(Encrypt(e))} : e \in Encryptions},
         MaxPieces)
AddPart == Extend("ref", Parts, MaxParts)
AddPackage == Extend("tests", Packages, MaxPackages)

Next == AddByte \/ AddDigit \/ AddParam \/ AddPiece \/ AddPart \/ AddPackage
Spec == Init /\ [][Next]_<<kind, input>>
-----------------------------------------------------------------------------
\* Encoding and decoding are inverse to each other, padded or not, at every
\* length: no byte of the last group is lost or added (encode.go:26-53, 68-76).
\* A checksum in hexadecimal has two digits for each byte, in order.
Base64RoundTrips ==
  kind = "bytes" => /\ Base64Decode(Base64Encode(input)) = Ok(input)
                    /\ RawBase64Decode(RawBase64Encode(input)) = Ok(input)
                    /\ \A i \in DOMAIN input :
                         input[i] = 16 * HexEncode(input)[2 * i - 1] + HexEncode(input)[2 * i]

\* A padded base64 string: whole groups, and at most two "=", at the very end.
WellFormed(s) ==
  LET pads == {i \in 1..Len(s) : s[i] = Pad} IN
  /\ Len(s) % 4 = 0 /\ \A i \in 1..Len(s) : s[i] # Junk
  /\ pads \in {{}, {Len(s)}, {Len(s) - 1, Len(s)}}

\* The last digit in front of the padding, without the bits that no byte holds
Canonical(s) ==
  LET n == Len(s) - Padding(s)
      unused == CASE Padding(s) = 0 -> 1 [] Padding(s) = 1 -> 4 [] Padding(s) = 2 -> 16
  IN [i \in 1..Len(s) |-> IF i = n THEN (s[i] \div unused) * unused ELSE s[i]]

\* Base64Decode accepts the padded strings and no other, and what it decodes is
\* encoded as the string it came from, up to the bits that hold nothing.
Base64DecodeIsExact ==
  kind = "base64" =>
    /\ Base64Decode(input).ok <=> WellFormed(input)
    /\ WellFormed(input) => Base64Encode(Base64Decode(input).value) = Canonical(input)

\* A password matches its own hash and no other password does; and a match is
\* never one under other parameters than the string names: a number that does
\* not fit its width is an error, not another number.
HashStrings ==
  [version : {Field("v", Version), Field("v", Version + 1), Field("m", Version)},
   params : {input}, salt : Salts \cup {Undecodable},
   hash : {Argon2(pw, salt, m, t, p) : pw \in Passphrases, salt \in Salts,
             m, t \in {1, Uint32Max}, p \in 0..Uint8Max} \cup {Undecodable, EmptyHash}]

MatchMeansThisHash ==
  kind = "params" =>
    /\ \A pw, other \in Passphrases, salt \in Salts :
         VerifyPassword(pw, HashPassword(other, salt))
           = IF pw = other THEN "match" ELSE "mismatch"
    /\ \A pw \in Passphrases, s \in HashStrings :
         VerifyPassword(pw, s) = "match" =>
           /\ s.version = Field("v", Version)
           /\ \A i \in 1..3 : s.params[i].prefix = <<"m", "t", "p">>[i]
           /\ s.hash = Argon2(pw, s.salt, input[1].number, input[2].number, input[3].number)

\* A ciphertext opens with the passphrase and the cipher it was made with, and
\* nothing else opens: not a part of it, not one with something behind it, and
\* not the pieces of two ciphertexts put together.
OnlyWholeCiphertextsOpen ==
  kind = "ciphertext" =>
    \A cipher \in Ciphers, pass \in Passphrases :
      LET made == {e \in Encryptions : e.cipher = cipher /\ e.pass = pass
                                       /\ Encrypt(e) = input} IN
      DecryptWith(cipher, input, pass)
        = IF made = {} THEN Refused
          ELSE [ok |-> TRUE, text |-> (CHOOSE e \in made : TRUE).text]

Names == UNION {[1..n -> Parts] : n \in 1..(MaxParts - 1)}
ValidName(name) == name # <<>> /\ ValidRef(name)

\* A directory with the files of any two keys and the masters lists exactly
\* these keys, each in its tier: no two keys share a file, none has the name of
\* a master, and no master or key of the other tier is taken for a key.
ListNamesTheKeys ==
  kind = "ref" /\ ValidName(input) =>
    \A other \in {n \in Names : ValidRef(n)}, t, u \in Tiers :
      LET dir == {KeyPath(input, t), KeyPath(other, u), LegacyMaster}
                 \cup {MasterFile(v) : v \in Tiers} IN
      \A v \in Tiers : ListTier(dir, v) = (IF t = v THEN {input} ELSE {})
                                          \cup (IF u = v THEN {other} ELSE {})

LooksTiered(ref) == Len(ref) > 1 /\ ref[Len(ref)] \in {"t0", "t1"}

\* The migration gives every legacy blob the tier-1 name of its reference, and
\* leaves the single-instance key alone.  A legacy reference that ends in ".t0"
\* or ".t1" is the exception: its file looks migrated and is not renamed, and the
\* blob of another reference ("x" beside "x.t1") may be written over it.
RenamingKeepsTheKeys ==
  kind = "ref" /\ ValidName(input) /\ ~LooksTiered(input) =>
    \A other \in {n \in Names : ValidRef(n) /\ ~LooksTiered(n)} :
      LET legacy == {input, other, SingleInstanceRef}
          dir == {ref \o LegacySuffix : ref \in legacy} \cup {LegacyMaster, MasterFile(1)} IN
      /\ ListTier(Renamed(dir), 1) = legacy \ {SingleInstanceRef}
      /\ ListTier(Renamed(dir), 0) = {}
      /\ SingleInstanceRef \o LegacySuffix \in Renamed(dir)

\* The packages with a result, of the first n; what one coverage adds to a total
With(result, n) == {i \in 1..n : input[i].result = result}
AddCov(total, cov) == IF cov = NoCov THEN total ELSE total + cov

\* The summary counts every package once, and a package that told its coverage
\* is shown with it, also where go test prints that coverage twice.  In a plain
\* run in which nothing failed no other package is given any, and the average is
\* over what the packages told; otherwise a package without statements may be
\* given that of another, which then counts twice.
CoverageIsOwn ==
  kind = "tests" =>
    \A verbose \in BOOLEAN :
      LET results == ParseTestOutput(Output(input, verbose))
          shown == results.packages
      IN /\ results.passed = Cardinality(With("ok", Len(input)))
         /\ results.failed = Cardinality(With("FAIL", Len(input)))
         /\ Len(shown) = results.passed
         /\ \A i \in With("ok", Len(input)) :
              LET place == Cardinality(With("ok", i)) IN
              /\ input[i].cov # NoCov => shown[place] = input[i].cov
              /\ ~verbose /\ results.failed = 0 => shown[place] = input[i].cov
         /\ results.covCount = Cardinality({i \in DOMAIN shown : shown[i] # NoCov})
         /\ results.totalCov = FoldLeft(AddCov, 0, shown)

\* However go test ends, also killed before it printed a failure, runTest returns
\* an error unless every package passed, and no report of it says otherwise.
FailureIsReported ==
  kind = "tests" =>
    \A verbose \in BOOLEAN : \A end \in Ends(input, verbose) :
      LET run == RunTest(end) IN
      /\ run.error <=> end.code # 0
      /\ ~run.error <=> run.exit_code = 0
      /\ run.results.failed > 0 => run.error
=============================================================================
