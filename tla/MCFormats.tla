----------------------------- MODULE MCFormats -----------------------------
(* Formats for TLC: sample inputs.                                         *)
EXTENDS Formats

\* The smallest and largest values, and some with bits at both ends
Bytes == {0, 129, 255}
SomeDigits == {0, 33}

SomeNumbers == {NotANumber, 0, 1, Parallelism, Uint8Max, Uint8Max + 1 + Parallelism,
                Uint32Max, Uint32Max + 1}

\* Two of one cipher and one passphrase, and one of the other
Sealed == {[cipher |-> "chacha20", pass |-> "p", text |-> "x", id |-> 1],
           [cipher |-> "chacha20", pass |-> "p", text |-> "y", id |-> 2],
           [cipher |-> "aes-gcm", pass |-> "q", text |-> "x", id |-> 3]}

NameParts == {"", "x", "a/b", "t0", "t1", "t7", "aead", "master", "single-instance"}

Results == {[result |-> "ok", cov |-> c] : c \in {NoCov, 0, 40, 90}} \cup
           {[result |-> "FAIL", cov |-> c] : c \in {NoCov, 50}} \cup
           {[result |-> "no test files", cov |-> c] : c \in {NoCov, 0}}
=============================================================================
