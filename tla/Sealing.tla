------------------------------- MODULE Sealing -------------------------------
(***************************************************************************)
(* Encryption with a passphrase (crypt/crypt.go, crypt/symmetric.go): what *)
(* Encrypt and EncryptAES put together and what Decrypt and DecryptAES     *)
(* take apart.                                                             *)
(*                                                                         *)
(* A ciphertext is a sequence of pieces, each a stretch of bytes of some   *)
(* encryption: its salt, its nonce and its box, which is the sealed text   *)
(* with its tag.  An encryption is what it was given, under one name.  The *)
(* nonces of the two ciphers have different lengths.                       *)
(***************************************************************************)
EXTENDS Integers, Sequences

CONSTANTS SaltLen, BoxLen      \* in pieces

\* A box holds at least its tag.
ASSUME LengthsAssumption == SaltLen \in Nat /\ BoxLen \in Nat \ {0}

Ciphers == {"chacha20", "aes-gcm"}
NonceSize(cipher) == IF cipher = "chacha20" THEN 2 ELSE 1

\* An encryption is [cipher, pass, text, id]: the id stands for the randomness.
Piece(e, part, i) == [of |-> e, part |-> part, i |-> i]
Pieces(e, part, n) == [i \in 1..n |-> Piece(e, part, i)]

\* DeriveKey: two passphrases, or two salts, never give one key
DeriveKey(pass, salt) == [pass |-> pass, salt |-> salt]

Encrypt(e) ==
  Pieces(e, "salt", SaltLen) \o Pieces(e, "nonce", NonceSize(e.cipher))
  \o Pieces(e, "box", BoxLen)

Refused == [ok |-> FALSE, text |-> "none"]

\* aead.Open: only the whole box, with its key and its nonce
Open(cipher, key, nonce, box) ==
  LET e == box[1].of IN
  IF /\ box # <<>> /\ e.cipher = cipher
     /\ box = Pieces(e, "box", BoxLen)
     /\ nonce = Pieces(e, "nonce", NonceSize(cipher))
     /\ key = DeriveKey(e.pass, Pieces(e, "salt", SaltLen))
  THEN [ok |-> TRUE, text |-> e.text] ELSE Refused

\* DecryptWith with a mistake: the nonce is taken at the length of the other cipher
DecryptWithNonceOf(cipher, data, pass) ==
  LET size == NonceSize(CHOOSE c \in Ciphers : c # cipher)
      rest == SubSeq(data, SaltLen + 1, Len(data))
  IN IF Len(data) < SaltLen \/ Len(rest) < size THEN Refused
     ELSE Open(cipher, DeriveKey(pass, SubSeq(data, 1, SaltLen)),
               SubSeq(rest, 1, size), SubSeq(rest, size + 1, Len(rest)))

\* Decrypt and DecryptAES, with the ChaCha20Decrypt or AESGCMDecrypt inside
DecryptWith(cipher, data, pass) ==
  LET rest == SubSeq(data, SaltLen + 1, Len(data))
      size == NonceSize(cipher)
  IN IF Len(data) < SaltLen \/ Len(rest) < size THEN Refused
     ELSE Open(cipher, DeriveKey(pass, SubSeq(data, 1, SaltLen)),
               SubSeq(rest, 1, size), SubSeq(rest, size + 1, Len(rest)))
=============================================================================
