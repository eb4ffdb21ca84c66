----------------------------- MODULE Primitives -----------------------------
(***************************************************************************)
(* What the primitives of go-crypt decide, for the modules that use them:  *)
(* OpenPGP (crypt/pgp), the Argon2id hashes of crypt/hash.go and the LTHN  *)
(* hashes of crypt/lthn.  The algorithms are taken to be perfect: a        *)
(* ciphertext opens with its key and nothing else, a signature is made by  *)
(* its key, and two passwords never have one hash.                         *)
(***************************************************************************)
CONSTANT EmptyPassword     \* ""

\* pgp.CreateKeyPair: a keypair is a number.  The private key is locked with the
\* password; with an empty password it is written in the clear.
CreateKeyPair(k, pw) == [pub |-> k, key |-> [kp |-> k, pw |-> pw]]
Unlocks(pw, key) == key.pw \in {EmptyPassword, pw}

\* pgp.Encrypt and pgp.Decrypt, pgp.Sign and pgp.Verify.  What the message says
\* does not matter here, only whose it is.
Encrypt(pub) == [to |-> pub]
Decrypts(message, key, pw) == Unlocks(pw, key) /\ message = Encrypt(key.kp)
Sign(nonce, k) == [nonce |-> nonce, key |-> k]
Verify(nonce, signature, pub) == signature = Sign(nonce, pub)

HashPassword(pw) == [alg |-> "argon2id", of |-> pw]
VerifyPassword(pw, hash) == hash = HashPassword(pw)
LthnHash(input) == [alg |-> "lthn", of |-> input]
LthnVerify(input, hash) == hash = LthnHash(input)
=============================================================================
