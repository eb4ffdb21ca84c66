------------------------------ MODULE Encodings ------------------------------
(***************************************************************************)
(* The encodings of internal/corecompat/encode.go and the unpadded base64  *)
(* of crypt/hash.go.                                                       *)
(*                                                                         *)
(* A byte is a number below 256.  A character of a base64 string is its    *)
(* value, a number below 64, or Pad ("="), or Junk (any other).            *)
(***************************************************************************)
EXTENDS Integers, Sequences

Digits == 0..63
Pad == 64
Junk == 65

Ok(value) == [ok |-> TRUE, value |-> value]
Invalid == [ok |-> FALSE, value |-> <<>>]

HexEncode(src) ==
  [i \in 1..2 * Len(src) |-> LET b == src[(i + 1) \div 2] IN
                             IF i % 2 = 1 THEN b \div 16 ELSE b % 16]

\* Base64Encode with a mistake: the last digit of a partial group is left out
Base64EncodeShort(src) ==
  LET Byte(i) == IF i <= Len(src) THEN src[i] ELSE 0
      Word(g) == Byte(3 * g + 1) * 65536 + Byte(3 * g + 2) * 256 + Byte(3 * g + 3)
  IN [i \in 1..4 * ((Len(src) + 2) \div 3) |->
        IF i > (4 * Len(src)) \div 3 THEN Pad
        ELSE (Word((i - 1) \div 4) \div 64 ^ (3 - ((i - 1) % 4))) % 64]

\* Three bytes are a word of four digits; what is missing of the last three
\* counts as zero, and digits that hold none of its bits are padding.
Base64Encode(src) ==
  LET Byte(i) == IF i <= Len(src) THEN src[i] ELSE 0
      Word(g) == Byte(3 * g + 1) * 65536 + Byte(3 * g + 2) * 256 + Byte(3 * g + 3)
  IN [i \in 1..4 * ((Len(src) + 2) \div 3) |->
        IF i > (4 * Len(src) + 2) \div 3 THEN Pad
        ELSE (Word((i - 1) \div 4) \div 64 ^ (3 - ((i - 1) % 4))) % 64]

IsPad(s, i) == i >= 1 /\ s[i] = Pad
Padding(s) == IF ~IsPad(s, Len(s)) THEN 0 ELSE IF ~IsPad(s, Len(s) - 1) THEN 1 ELSE 2

\* GroupOK with a mistake: padding is accepted in any group
GroupOKPaddedAnywhere(s, g) ==
  LET at(k) == s[4 * g + k] IN
  /\ at(1) \in Digits /\ at(2) \in Digits
  /\ at(3) \in Digits \/ (at(3) = Pad /\ at(4) = Pad)
  /\ at(4) \in Digits \/ at(4) = Pad

\* Four characters, the g-th group of the string
GroupOK(s, g) ==
  LET at(k) == s[4 * g + k]
      last == 4 * g + 4 = Len(s)
  IN /\ at(1) \in Digits /\ at(2) \in Digits
     /\ at(3) \in Digits \/ (at(3) = Pad /\ last /\ at(4) = Pad)
     /\ at(4) \in Digits \/ (at(4) = Pad /\ last)

Base64Decode(s) ==
  LET Value(i) == IF s[i] = Pad THEN 0 ELSE s[i]
      Word(g) == Value(4 * g + 1) * 262144 + Value(4 * g + 2) * 4096
                 + Value(4 * g + 3) * 64 + Value(4 * g + 4)
  IN IF Len(s) % 4 # 0 \/ \E g \in 0..(Len(s) \div 4 - 1) : ~GroupOK(s, g)
     THEN Invalid
     ELSE Ok([i \in 1..((Len(s) \div 4) * 3 - Padding(s)) |->
                (Word((i - 1) \div 3) \div 256 ^ (2 - ((i - 1) % 3))) % 256])

RawBase64Encode(src) ==
  LET s == Base64Encode(src) IN SubSeq(s, 1, Len(s) - Padding(s))

PadRawBase64(s) ==
  s \o CASE Len(s) % 4 = 2 -> <<Pad, Pad>> [] Len(s) % 4 = 3 -> <<Pad>> [] OTHER -> <<>>

RawBase64Decode(s) == Base64Decode(PadRawBase64(s))
=============================================================================
