---------------------------- MODULE FormatsProofs ----------------------------
(***************************************************************************)
(* Proofs about the pure parts (Formats): the inputs of every length and   *)
(* from samples of every size.  The properties do not depend on the bounds *)
(* on the lengths, only on what an input is made of, which is the one      *)
(* invariant of the specification that they need.                          *)
(*                                                                         *)
(* First sequences, induction and the inputs, then the five parts: base64, *)
(* password hashes, ciphertexts, the names of keys and summaries of test   *)
(* runs.  An induction is over a set of numbers, as the theorems on        *)
(* induction take an operator, which no prover here can instantiate.  A    *)
(* leaf about numbers names SMT: Zenon counts a large number by its units. *)
(***************************************************************************)
EXTENDS Formats, SequenceTheorems, FiniteSetTheorems, WellFoundedInduction, TLAPS

\* ----- sequences

LEMMA PairIsSeq ==
  ASSUME NEW S, NEW a \in S, NEW b \in S
  PROVE  <<a, b>> \in Seq(S) /\ Len(<<a, b>>) = 2 /\ <<a, b>>[1] = a /\ <<a, b>>[2] = b
<1>1. <<a, b>> \in Seq(S)
  OBVIOUS
<1>2. Len(<<a, b>>) = 2 /\ <<a, b>>[1] = a /\ <<a, b>>[2] = b
  OBVIOUS
<1> QED BY <1>1, <1>2

LEMMA Cut ==
  ASSUME NEW S, NEW a \in Seq(S), NEW b \in Seq(S)
  PROVE  SubSeq(a \o b, 1, Len(a)) = a /\ SubSeq(a \o b, Len(a) + 1, Len(a \o b)) = b
<1> DEFINE s == a \o b
           m == Len(a)
           n == Len(b)
<1>1. /\ s \in Seq(S) /\ Len(s) = m + n /\ m \in Nat /\ n \in Nat
      /\ \A i \in 1..(m + n) : s[i] = IF i <= m THEN a[i] ELSE b[i - m]
  BY ConcatProperties, LenProperties
<1>2. \A i \in 1..(m + n) : s[i] \in S
  BY <1>1, ElementOfSeq
<1> HIDE DEF s, m, n
<1>3. /\ SubSeq(s, 1, m) \in Seq(S) /\ Len(SubSeq(s, 1, m)) = m
      /\ \A i \in 1..m : SubSeq(s, 1, m)[i] = s[i]
  <2>1. \A i \in 1..m : s[i] \in S
    BY <1>1, <1>2
  <2>2. 1 \in Int /\ m \in Int
    BY <1>1
  <2> QED BY <1>1, <2>1, <2>2, SubSeqProperties
<1>4. /\ SubSeq(s, m + 1, m + n) \in Seq(S) /\ Len(SubSeq(s, m + 1, m + n)) = n
      /\ \A i \in 1..n : SubSeq(s, m + 1, m + n)[i] = s[m + i]
  <2>1. \A i \in (m + 1)..(m + n) : s[i] \in S
    BY <1>1, <1>2
  <2>2. m + 1 \in Int /\ m + n \in Int
    BY <1>1
  <2> QED BY <1>1, <2>1, <2>2, SubSeqProperties
<1>5. SubSeq(s, 1, m) = a
  BY <1>1, <1>3, SeqEqual DEF m
<1>6. SubSeq(s, m + 1, m + n) = b
  BY <1>1, <1>4, SeqEqual DEF n
<1> QED BY <1>1, <1>5, <1>6 DEF s, m

LEMMA Joined ==
  ASSUME NEW S, NEW s \in Seq(S), NEW n \in 0..Len(s)
  PROVE  /\ s = SubSeq(s, 1, n) \o SubSeq(s, n + 1, Len(s))
         /\ SubSeq(s, 1, n) \in Seq(S) /\ Len(SubSeq(s, 1, n)) = n
         /\ SubSeq(s, n + 1, Len(s)) \in Seq(S) /\ Len(SubSeq(s, n + 1, Len(s))) = Len(s) - n
         /\ \A i \in 1..(Len(s) - n) : SubSeq(s, n + 1, Len(s))[i] = s[n + i]
<1>1. Len(s) \in Nat /\ \A i \in 1..Len(s) : s[i] \in S
  BY LenProperties, ElementOfSeq
<1>2. /\ SubSeq(s, 1, n) \in Seq(S) /\ Len(SubSeq(s, 1, n)) = n
  <2>1. \A i \in 1..n : s[i] \in S
    BY <1>1
  <2>2. 1 \in Int /\ n \in Int
    BY <1>1
  <2> QED BY <1>1, <2>1, <2>2, SubSeqProperties
<1>3. /\ SubSeq(s, n + 1, Len(s)) \in Seq(S) /\ Len(SubSeq(s, n + 1, Len(s))) = Len(s) - n
      /\ \A i \in 1..(Len(s) - n) : SubSeq(s, n + 1, Len(s))[i] = s[n + i]
  <2>1. \A i \in (n + 1)..Len(s) : s[i] \in S
    BY <1>1
  <2>2. n + 1 \in Int /\ Len(s) \in Int
    BY <1>1
  <2> QED BY <1>1, <2>1, <2>2, SubSeqProperties
<1>4. s = SubSeq(s, 1, n) \o SubSeq(s, n + 1, Len(s))
  <2>1. 1 \in 1..(Len(s) + 1) /\ n \in (1 - 1)..Len(s) /\ Len(s) \in n..Len(s)
    BY <1>1
  <2>2. SubSeq(s, 1, n) \o SubSeq(s, n + 1, Len(s)) = SubSeq(s, 1, Len(s))
    BY <2>1, ConcatAdjacentSubSeq
  <2> QED BY <2>2, SubSeqFull
<1> QED BY <1>2, <1>3, <1>4

\* ----- induction

\* A set of numbers that is not empty has a least one.  Inductions start here.
LEMMA Least ==
  ASSUME NEW T \in SUBSET Nat, T # {}
  PROVE  \E x \in T : \A y \in T : x <= y
<1> DEFINE R == {ss \in Nat \X Nat : ss[1] < ss[2]}
<1>1. IsWellFoundedOn(R, Nat)
  BY NatLessThanWellFounded DEF OpToRel
<1> HIDE DEF R
<1>2. PICK x \in T : \A y \in T : ~ (<<y, x>> \in R)
  BY <1>1, WFMin
<1>3. ASSUME NEW y \in T PROVE x <= y
  <2>1. ~ (<<y, x>> \in R)
    BY <1>2
  <2> QED BY <2>1 DEF R
<1> QED BY <1>3

\* To prove something of all numbers up to n: prove it of 0, and of k + 1 from k.
LEMMA UpTo ==
  ASSUME NEW n \in Nat, NEW S \in SUBSET (0..n), 0 \in S,
         \A k \in 0..(n - 1) : k \in S => k + 1 \in S
  PROVE  S = 0..n
<1> DEFINE T == (0..n) \ S
<1>1. SUFFICES ASSUME T # {} PROVE FALSE
  OBVIOUS
<1>2. T \in SUBSET Nat
  OBVIOUS
<1>3. PICK x \in T : \A y \in T : x <= y
  BY <1>1, <1>2, Least
<1>4. x # 0 /\ x - 1 \in 0..(n - 1) /\ x - 1 \notin T
  BY <1>3
<1> QED BY <1>3, <1>4

\* ----- the inputs

\* What an input of each kind is made of
Source ==
  [bytes |-> SampleBytes, base64 |-> SampleDigits \cup {Pad, Junk},
   params |-> [prefix : {"m", "t", "p"}, number : Numbers],
   ciphertext |-> UNION {{Encrypt(e)[i] : i \in 1..Len(Encrypt(e))} : e \in Encryptions},
   ref |-> Parts, tests |-> Packages]

\* The invariant that the properties need: an input is a sequence of its pieces.
\* How long it may get does not matter to any of them.
Built == kind \in Kinds /\ input \in Seq(Source[kind])

LEMMA EmptyInput == ASSUME NEW S PROVE <<>> \in Seq(S)
OBVIOUS

\* The inputs of the pure functions (Base64Decode, VerifyPassword, Decrypt,
\* listTier, migrateTier1Locked) are sequences of pieces of their kind.
THEOREM InputsAreBuilt == Spec => []Built
<1>1. Init => Built
  BY EmptyInput DEF Init, Built
<1>2. Built /\ [Next]_<<kind, input>> => Built'
  <2> SUFFICES ASSUME Built, Next \/ UNCHANGED <<kind, input>> PROVE Built'
    OBVIOUS
  <2>1. ASSUME NEW k \in Kinds, NEW max, Extend(k, Source[k], max) PROVE Built'
    BY <2>1 DEF Extend, Built
  <2>2. CASE UNCHANGED <<kind, input>>
    BY <2>2 DEF Built
  <2>3. ASSUME Next PROVE \E k \in Kinds : \E max : Extend(k, Source[k], max)
    <3>1. ASSUME NEW k \in Kinds, NEW max, Extend(k, Source[k], max)
          PROVE  \E l \in Kinds : \E m : Extend(l, Source[l], m)
      BY <3>1
    <3> QED
      BY <2>3, <3>1
         DEF Next, AddByte, AddDigit, AddParam, AddPiece, AddPart, AddPackage, Source, Kinds
  <2> QED BY <2>1, <2>2, <2>3
<1> QED BY <1>1, <1>2, PTL DEF Spec
-----------------------------------------------------------------------------
\* ----- arithmetic of a group of three bytes or four digits

LEMMA Powers ==
  /\ 64 ^ 0 = 1 /\ 64 ^ 1 = 64 /\ 64 ^ 2 = 4096 /\ 64 ^ 3 = 262144
  /\ 256 ^ 0 = 1 /\ 256 ^ 1 = 256 /\ 256 ^ 2 = 65536
BY SMT

\* What a byte can be
Octets == 0..255

LEMMA DividedBy4 ==
  ASSUME NEW a \in 0..255
  PROVE  a \div 4 \in 0..63 /\ a % 4 \in 0..3 /\ a = (a \div 4) * 4 + (a % 4)
BY SMT

LEMMA DividedBy16 ==
  ASSUME NEW a \in 0..255
  PROVE  a \div 16 \in 0..15 /\ a % 16 \in 0..15 /\ a = (a \div 16) * 16 + (a % 16)
BY SMT

LEMMA DividedBy64 ==
  ASSUME NEW a \in 0..255
  PROVE  a \div 64 \in 0..3 /\ a % 64 \in 0..63 /\ a = (a \div 64) * 64 + (a % 64)
BY SMT

\* A word, from its digits and from its bytes, and these from the word
FourDigits(d1, d2, d3, d4) == d1 * 262144 + d2 * 4096 + d3 * 64 + d4
ThreeBytes(b1, b2, b3) == b1 * 65536 + b2 * 256 + b3
WordDigit(w, k) == (w \div 64 ^ (4 - k)) % 64
WordByte(w, k) == (w \div 256 ^ (3 - k)) % 256

LEMMA DigitsOfWord ==
  ASSUME NEW d1 \in Digits, NEW d2 \in Digits, NEW d3 \in Digits, NEW d4 \in Digits
  PROVE  LET w == FourDigits(d1, d2, d3, d4) IN
         /\ WordDigit(w, 1) = d1 /\ WordDigit(w, 2) = d2
         /\ WordDigit(w, 3) = d3 /\ WordDigit(w, 4) = d4
<1> DEFINE w == FourDigits(d1, d2, d3, d4)
<1>0. /\ w = d1 * 262144 + d2 * 4096 + d3 * 64 + d4
      /\ d1 \in 0..63 /\ d2 \in 0..63 /\ d3 \in 0..63 /\ d4 \in 0..63
  BY SMT DEF FourDigits, Digits
<1> HIDE DEF w
<1>1. w = d1 * 262144 + (d2 * 4096 + d3 * 64 + d4) /\ w \in Nat
  BY <1>0, SMT
<1>2. w \div 262144 = d1 /\ d1 % 64 = d1
  BY <1>0, <1>1, SMT
<1>3. w = (d1 * 64 + d2) * 4096 + (d3 * 64 + d4)
  BY <1>0, SMT
<1>4. w \div 4096 = d1 * 64 + d2 /\ (d1 * 64 + d2) % 64 = d2
  BY <1>0, <1>3, SMT
<1>5. w = ((d1 * 64 + d2) * 64 + d3) * 64 + d4
  BY <1>0, SMT
<1>6. /\ w \div 64 = (d1 * 64 + d2) * 64 + d3 /\ w % 64 = d4
      /\ ((d1 * 64 + d2) * 64 + d3) % 64 = d3
  BY <1>0, <1>5, SMT
<1>7. 4 - 1 = 3 /\ 4 - 2 = 2 /\ 4 - 3 = 1 /\ 4 - 4 = 0 /\ w \div 1 = w
  BY <1>1, SMT
<1> QED BY <1>2, <1>4, <1>6, <1>7, Powers, SMT DEF w, WordDigit

LEMMA BytesOfWord ==
  ASSUME NEW b1 \in Octets, NEW b2 \in Octets, NEW b3 \in Octets
  PROVE  LET w == ThreeBytes(b1, b2, b3) IN
         WordByte(w, 1) = b1 /\ WordByte(w, 2) = b2 /\ WordByte(w, 3) = b3
<1> DEFINE w == ThreeBytes(b1, b2, b3)
<1>0. /\ w = b1 * 65536 + b2 * 256 + b3
      /\ b1 \in 0..255 /\ b2 \in 0..255 /\ b3 \in 0..255
  BY SMT DEF ThreeBytes, Octets
<1> HIDE DEF w
<1>1. w = b1 * 65536 + (b2 * 256 + b3) /\ w \in Nat
  BY <1>0, SMT
<1>2. w \div 65536 = b1 /\ b1 % 256 = b1
  BY <1>0, <1>1, SMT
<1>3. w = (b1 * 256 + b2) * 256 + b3
  BY <1>0, SMT
<1>4. w \div 256 = b1 * 256 + b2 /\ w % 256 = b3 /\ (b1 * 256 + b2) % 256 = b2
  BY <1>0, <1>3, SMT
<1>5. 3 - 1 = 2 /\ 3 - 2 = 1 /\ 3 - 3 = 0 /\ w \div 1 = w
  BY <1>1, SMT
<1> QED BY <1>2, <1>4, <1>5, Powers, SMT DEF w, WordByte

LEMMA WordsAreIntegers ==
  /\ \A d1, d2, d3, d4 \in Digits : FourDigits(d1, d2, d3, d4) \in Nat
  /\ \A b1, b2, b3 \in Octets : ThreeBytes(b1, b2, b3) \in Nat
<1>1. ASSUME NEW d1 \in Digits, NEW d2 \in Digits, NEW d3 \in Digits, NEW d4 \in Digits
      PROVE  FourDigits(d1, d2, d3, d4) \in Nat
  BY SMT DEF FourDigits, Digits
<1>2. ASSUME NEW b1 \in Octets, NEW b2 \in Octets, NEW b3 \in Octets
      PROVE  ThreeBytes(b1, b2, b3) \in Nat
  BY SMT DEF ThreeBytes, Octets
<1> QED BY <1>1, <1>2, Zenon

LEMMA DigitsAndBytesAreSmall ==
  ASSUME NEW w \in Nat
  PROVE  /\ \A k \in 1..4 : WordDigit(w, k) \in Digits
         /\ \A k \in 1..3 : WordByte(w, k) \in Octets
<1>1. ASSUME NEW k \in 1..4 PROVE WordDigit(w, k) \in Digits
  <2>1. PICK e \in {0, 1, 2, 3} : 4 - k = e
    BY SMT
  <2>2. (w \div 64 ^ e) % 64 \in 0..63
    BY SMT
  <2> QED BY <2>1, <2>2, SMT DEF WordDigit, Digits
<1>2. ASSUME NEW k \in 1..3 PROVE WordByte(w, k) \in Octets
  <2>1. PICK e \in {0, 1, 2} : 3 - k = e
    BY SMT
  <2>2. (w \div 256 ^ e) % 256 \in 0..255
    BY SMT
  <2> QED BY <2>1, <2>2, SMT DEF WordByte, Octets
<1> QED BY <1>1, <1>2, SMT

\* The digits that hold given bytes, and the bytes in given digits
Digit1(b1) == b1 \div 4
Digit2(b1, b2) == (b1 % 4) * 16 + (b2 \div 16)
Digit3(b2, b3) == (b2 % 16) * 4 + (b3 \div 64)
Digit4(b3) == b3 % 64
Byte1(d1, d2) == d1 * 4 + (d2 \div 16)
Byte2(d2, d3) == (d2 % 16) * 16 + (d3 \div 4)
Byte3(d3, d4) == (d3 % 4) * 64 + d4

LEMMA BytesInDigits ==
  ASSUME NEW b1 \in Octets, NEW b2 \in Octets, NEW b3 \in Octets
  PROVE  /\ Digit1(b1) \in Digits /\ Digit2(b1, b2) \in Digits
         /\ Digit3(b2, b3) \in Digits /\ Digit4(b3) \in Digits
         /\ ThreeBytes(b1, b2, b3)
              = FourDigits(Digit1(b1), Digit2(b1, b2), Digit3(b2, b3), Digit4(b3))
<1> DEFINE q1 == b1 \div 4
           r1 == b1 % 4
           q2 == b2 \div 16
           r2 == b2 % 16
           q3 == b3 \div 64
           r3 == b3 % 64
<1>1. /\ q1 \in 0..63 /\ r1 \in 0..3 /\ b1 = q1 * 4 + r1
      /\ q2 \in 0..15 /\ r2 \in 0..15 /\ b2 = q2 * 16 + r2
      /\ q3 \in 0..3 /\ r3 \in 0..63 /\ b3 = q3 * 64 + r3
  BY DividedBy4, DividedBy16, DividedBy64, SMT DEF Octets
<1> HIDE DEF q1, r1, q2, r2, q3, r3
<1>2. /\ r1 * 16 + q2 \in 0..63 /\ r2 * 4 + q3 \in 0..63
      /\ ThreeBytes(b1, b2, b3) = FourDigits(q1, r1 * 16 + q2, r2 * 4 + q3, r3)
  BY <1>1, SMT DEF ThreeBytes, FourDigits
<1> QED BY <1>1, <1>2, SMT DEF q1, r1, q2, r2, q3, r3, Digit1, Digit2, Digit3, Digit4, Digits

LEMMA DigitsInBytes ==
  ASSUME NEW d1 \in Digits, NEW d2 \in Digits, NEW d3 \in Digits, NEW d4 \in Digits
  PROVE  /\ Byte1(d1, d2) \in Octets /\ Byte2(d2, d3) \in Octets /\ Byte3(d3, d4) \in Octets
         /\ FourDigits(d1, d2, d3, d4)
              = ThreeBytes(Byte1(d1, d2), Byte2(d2, d3), Byte3(d3, d4))
<1> DEFINE q2 == d2 \div 16
           r2 == d2 % 16
           q3 == d3 \div 4
           r3 == d3 % 4
<1>1. /\ q2 \in 0..3 /\ r2 \in 0..15 /\ d2 = q2 * 16 + r2 /\ d1 \in 0..63
      /\ q3 \in 0..15 /\ r3 \in 0..3 /\ d3 = q3 * 4 + r3 /\ d4 \in 0..63
  <2>1. /\ d2 \in 0..255 /\ d3 \in 0..255 /\ d2 \in 0..63 /\ d3 \in 0..63
        /\ d1 \in 0..63 /\ d4 \in 0..63
    BY SMT DEF Digits
  <2>2. /\ r2 \in 0..15 /\ d2 = q2 * 16 + r2 /\ q2 \in 0..15
        /\ r3 \in 0..3 /\ d3 = q3 * 4 + r3 /\ q3 \in 0..63
    BY <2>1, DividedBy4, DividedBy16, SMT
  <2> HIDE DEF q2, r2, q3, r3
  <2> QED BY <2>1, <2>2, SMT
<1> HIDE DEF q2, r2, q3, r3
<1>2. /\ d1 * 4 + q2 \in 0..255 /\ r2 * 16 + q3 \in 0..255 /\ r3 * 64 + d4 \in 0..255
      /\ FourDigits(d1, d2, d3, d4) = ThreeBytes(d1 * 4 + q2, r2 * 16 + q3, r3 * 64 + d4)
  BY <1>1, SMT DEF FourDigits, ThreeBytes
<1> QED BY <1>2, SMT DEF q2, r2, q3, r3, Byte1, Byte2, Byte3, Octets

\* ----- encoding

\* The bytes of group g, zero beyond the end
ByteAt(src, i) == IF i <= Len(src) THEN src[i] ELSE 0
BytesWord(src, g) ==
  ThreeBytes(ByteAt(src, 3 * g + 1), ByteAt(src, 3 * g + 2), ByteAt(src, 3 * g + 3))

LEMMA BytesAre ==
  ASSUME NEW src \in Seq(Octets), NEW g \in Nat
  PROVE  /\ ByteAt(src, 3 * g + 1) \in Octets /\ ByteAt(src, 3 * g + 2) \in Octets
         /\ ByteAt(src, 3 * g + 3) \in Octets /\ BytesWord(src, g) \in Nat
<1>1. Len(src) \in Nat /\ \A i \in 1..Len(src) : src[i] \in Octets
  BY LenProperties, ElementOfSeq, SMT
<1>2. \A k \in Nat \ {0} : ByteAt(src, k) \in Octets
  BY <1>1, SMT DEF ByteAt, Octets
<1>3. 3 * g + 1 \in Nat \ {0} /\ 3 * g + 2 \in Nat \ {0} /\ 3 * g + 3 \in Nat \ {0}
  BY SMT
<1>4. /\ ByteAt(src, 3 * g + 1) \in Octets /\ ByteAt(src, 3 * g + 2) \in Octets
      /\ ByteAt(src, 3 * g + 3) \in Octets
  BY <1>2, <1>3, Zenon
<1>5. BytesWord(src, g) \in Nat
  BY <1>4, WordsAreIntegers, Zenon DEF BytesWord
<1> QED BY <1>4, <1>5, Zenon

LEMMA Encoded ==
  ASSUME NEW src \in Seq(Octets)
  PROVE  LET m == 4 * ((Len(src) + 2) \div 3) IN
         /\ Base64Encode(src) \in Seq(Digits \cup {Pad}) /\ Len(Base64Encode(src)) = m
         /\ \A i \in 1..m : Base64Encode(src)[i] =
              IF i > (4 * Len(src) + 2) \div 3 THEN Pad
              ELSE WordDigit(BytesWord(src, (i - 1) \div 4), 1 + ((i - 1) % 4))
<1> DEFINE m == 4 * ((Len(src) + 2) \div 3)
           f == Base64Encode(src)
<1>1. Len(src) \in Nat
  BY LenProperties, Zenon
<1>2. m \in Nat
  BY <1>1, SMT
<1>3. f = [i \in 1..m |-> IF i > (4 * Len(src) + 2) \div 3 THEN Pad
             ELSE (BytesWord(src, (i - 1) \div 4) \div 64 ^ (3 - ((i - 1) % 4))) % 64]
  BY SMT DEF Base64Encode, BytesWord, ByteAt, ThreeBytes
<1> HIDE DEF f, m
<1>4. ASSUME NEW i \in 1..m
      PROVE  /\ f[i] = IF i > (4 * Len(src) + 2) \div 3 THEN Pad
                       ELSE WordDigit(BytesWord(src, (i - 1) \div 4), 1 + ((i - 1) % 4))
             /\ f[i] \in Digits \cup {Pad}
  <2> DEFINE g == (i - 1) \div 4
             k == 1 + ((i - 1) % 4)
             e == 3 - ((i - 1) % 4)
  <2>1. g \in Nat /\ k \in 1..4 /\ e = 4 - k
    BY <1>2, SMT
  <2>2. f[i] = IF i > (4 * Len(src) + 2) \div 3 THEN Pad
               ELSE (BytesWord(src, g) \div 64 ^ e) % 64
    BY <1>3, SMT
  <2> HIDE DEF g, k, e
  <2>3. WordDigit(BytesWord(src, g), k) \in Digits
    BY <2>1, BytesAre, DigitsAndBytesAreSmall, Zenon
  <2>4. (BytesWord(src, g) \div 64 ^ e) % 64 = WordDigit(BytesWord(src, g), k)
    BY <2>1, Zenon DEF WordDigit
  <2>5. f[i] = IF i > (4 * Len(src) + 2) \div 3 THEN Pad ELSE WordDigit(BytesWord(src, g), k)
    BY <2>2, <2>4, Zenon
  <2>6. f[i] \in Digits \cup {Pad}
    BY <2>3, <2>5, Zenon
  <2> QED BY <2>5, <2>6, Zenon DEF g, k
<1>5. f = [i \in 1..m |-> f[i]]
  BY <1>3, SMT
<1>6. f \in [1..m -> Digits \cup {Pad}]
  BY <1>4, <1>5, Zenon
<1>7. f \in Seq(Digits \cup {Pad})
  BY <1>2, <1>6, SeqDef, SMT
<1>8. Len(f) = m
  BY <1>2, <1>6, <1>7, LenProperties, SMT
<1> QED BY <1>4, <1>7, <1>8, Zenon DEF f, m

\* The characters of a group: the digits of its bytes, or padding
LEMMA EncodedGroup ==
  ASSUME NEW src \in Seq(Octets), NEW g \in Nat, 3 * g < Len(src)
  PROVE  LET e == Base64Encode(src)
             n == Len(src)
             b1 == ByteAt(src, 3 * g + 1)
             b2 == ByteAt(src, 3 * g + 2)
             b3 == ByteAt(src, 3 * g + 3)
         IN /\ e[4 * g + 1] = Digit1(b1) /\ e[4 * g + 2] = Digit2(b1, b2)
            /\ e[4 * g + 3] = IF n <= 3 * g + 1 THEN Pad ELSE Digit3(b2, b3)
            /\ e[4 * g + 4] = IF n <= 3 * g + 2 THEN Pad ELSE Digit4(b3)
<1> DEFINE e == Base64Encode(src)
           n == Len(src)
           w == BytesWord(src, g)
           b1 == ByteAt(src, 3 * g + 1)
           b2 == ByteAt(src, 3 * g + 2)
           b3 == ByteAt(src, 3 * g + 3)
<1>1. n \in Nat /\ 3 * g < n
  BY LenProperties, SMT
<1>2. b1 \in Octets /\ b2 \in Octets /\ b3 \in Octets /\ w = ThreeBytes(b1, b2, b3)
  BY BytesAre, Zenon DEF BytesWord
<1>3. \A i \in 1..4 * ((n + 2) \div 3) :
        e[i] = IF i > (4 * n + 2) \div 3 THEN Pad
               ELSE WordDigit(BytesWord(src, (i - 1) \div 4), 1 + ((i - 1) % 4))
  BY Encoded, Zenon
<1> HIDE DEF e, n, w, b1, b2, b3
<1>4. /\ WordDigit(w, 1) = Digit1(b1) /\ WordDigit(w, 2) = Digit2(b1, b2)
      /\ WordDigit(w, 3) = Digit3(b2, b3) /\ WordDigit(w, 4) = Digit4(b3)
  <2>1. /\ Digit1(b1) \in Digits /\ Digit2(b1, b2) \in Digits
        /\ Digit3(b2, b3) \in Digits /\ Digit4(b3) \in Digits
        /\ w = FourDigits(Digit1(b1), Digit2(b1, b2), Digit3(b2, b3), Digit4(b3))
    BY <1>2, BytesInDigits, Zenon
  <2> QED BY <2>1, DigitsOfWord, SMT
<1>5. ASSUME NEW k \in 1..4
      PROVE  e[4 * g + k] = IF 4 * g + k > (4 * n + 2) \div 3 THEN Pad ELSE WordDigit(w, k)
  <2>1. PICK i \in Nat : i = 4 * g + k
    BY SMT
  <2>2. i \in 1..4 * ((n + 2) \div 3) /\ (i - 1) \div 4 = g /\ 1 + ((i - 1) % 4) = k
    BY <1>1, <2>1, SMT
  <2>3. e[i] = IF i > (4 * n + 2) \div 3 THEN Pad ELSE WordDigit(BytesWord(src, g), k)
    BY <1>3, <2>2, Zenon
  <2> QED BY <2>1, <2>3, Zenon DEF w
<1>6. /\ ~(4 * g + 1 > (4 * n + 2) \div 3) /\ ~(4 * g + 2 > (4 * n + 2) \div 3)
      /\ 4 * g + 3 > (4 * n + 2) \div 3 <=> n <= 3 * g + 1
      /\ 4 * g + 4 > (4 * n + 2) \div 3 <=> n <= 3 * g + 2
      /\ 1 \in 1..4 /\ 2 \in 1..4 /\ 3 \in 1..4 /\ 4 \in 1..4
  BY <1>1, SMT
<1> QED BY <1>4, <1>5, <1>6, Zenon DEF e, n, b1, b2, b3

\* ----- decoding

\* The characters of a string, and the digits of its group g, padding as zero
Chars == Digits \cup {Pad, Junk}
ValueAt(s, i) == IF s[i] = Pad THEN 0 ELSE s[i]
DigitsWord(s, g) ==
  FourDigits(ValueAt(s, 4 * g + 1), ValueAt(s, 4 * g + 2), ValueAt(s, 4 * g + 3),
             ValueAt(s, 4 * g + 4))
\* Whole groups, each well formed
GroupsOK(s) == Len(s) % 4 = 0 /\ \A g \in 0..((Len(s) \div 4) - 1) : GroupOK(s, g)

LEMMA GroupValues ==
  ASSUME NEW s, NEW g \in Nat, GroupOK(s, g)
  PROVE  /\ ValueAt(s, 4 * g + 1) \in Digits /\ ValueAt(s, 4 * g + 2) \in Digits
         /\ ValueAt(s, 4 * g + 3) \in Digits /\ ValueAt(s, 4 * g + 4) \in Digits
         /\ DigitsWord(s, g) \in Nat
<1>1. 0 \in Digits /\ Pad \notin Digits
  BY SMT DEF Digits, Pad
<1>2. /\ s[4 * g + 1] \in Digits /\ s[4 * g + 2] \in Digits
      /\ s[4 * g + 3] \in Digits \cup {Pad} /\ s[4 * g + 4] \in Digits \cup {Pad}
  BY Zenon DEF GroupOK
<1>3. /\ ValueAt(s, 4 * g + 1) \in Digits /\ ValueAt(s, 4 * g + 2) \in Digits
      /\ ValueAt(s, 4 * g + 3) \in Digits /\ ValueAt(s, 4 * g + 4) \in Digits
  BY <1>1, <1>2, Zenon DEF ValueAt
<1>4. DigitsWord(s, g) \in Nat
  BY <1>3, WordsAreIntegers, Zenon DEF DigitsWord
<1> QED BY <1>3, <1>4, Zenon

LEMMA PaddingIs ==
  ASSUME NEW s \in Seq(Chars), Len(s) % 4 = 0
  PROVE  /\ Padding(s) \in 0..2 /\ Len(s) \in Nat
         /\ (Len(s) \div 4) * 3 - Padding(s) \in Nat
         /\ Len(s) = 0 => Padding(s) = 0
         /\ Len(s) > 0 => /\ Len(s) >= 4
                          /\ Padding(s) = 0 <=> s[Len(s)] # Pad
                          /\ Padding(s) = 2 <=> s[Len(s)] = Pad /\ s[Len(s) - 1] = Pad
<1>1. Len(s) \in Nat
  BY LenProperties, Zenon
<1>2. CASE Len(s) = 0
  <2>1. Padding(s) = 0
    BY <1>2, SMT DEF Padding, IsPad
  <2> QED BY <1>2, <2>1, SMT
<1>3. CASE Len(s) > 0
  <2>1. Len(s) >= 4 /\ Len(s) \div 4 >= 1
    BY <1>1, <1>3, SMT
  <2>2. Padding(s) = IF s[Len(s)] # Pad THEN 0 ELSE IF s[Len(s) - 1] # Pad THEN 1 ELSE 2
    BY <1>1, <2>1, SMT DEF Padding, IsPad
  <2>3. /\ Padding(s) \in 0..2
        /\ Padding(s) = 0 <=> s[Len(s)] # Pad
        /\ Padding(s) = 2 <=> s[Len(s)] = Pad /\ s[Len(s) - 1] = Pad
    BY <2>2, SMT
  <2> QED BY <1>1, <1>3, <2>1, <2>3, SMT
<1> QED BY <1>1, <1>2, <1>3, SMT

LEMMA Decoded ==
  ASSUME NEW s \in Seq(Chars), GroupsOK(s)
  PROVE  LET m == (Len(s) \div 4) * 3 - Padding(s)
             v == Base64Decode(s).value
         IN /\ Base64Decode(s) = Ok(v) /\ v \in Seq(Octets) /\ Len(v) = m /\ m \in Nat
            /\ \A i \in 1..m :
                 v[i] = WordByte(DigitsWord(s, (i - 1) \div 3), 1 + ((i - 1) % 3))
<1> DEFINE m == (Len(s) \div 4) * 3 - Padding(s)
           f == [i \in 1..m |->
                  (DigitsWord(s, (i - 1) \div 3) \div 256 ^ (2 - ((i - 1) % 3))) % 256]
<1>1. /\ Len(s) \in Nat /\ m \in Nat /\ Len(s) % 4 = 0 /\ Padding(s) \in 0..2
      /\ m <= (Len(s) \div 4) * 3
  <2>1. Len(s) % 4 = 0
    BY Zenon DEF GroupsOK
  <2>2. Len(s) \in Nat /\ m \in Nat /\ Padding(s) \in 0..2
    BY <2>1, PaddingIs, Zenon
  <2> QED BY <2>1, <2>2, SMT
<1>2. Base64Decode(s) = Ok(f)
  <2>1. ~(Len(s) % 4 # 0 \/ \E g \in 0..(Len(s) \div 4 - 1) : ~GroupOK(s, g))
    BY SMT DEF GroupsOK
  <2> QED BY <2>1, SMT DEF Base64Decode, ValueAt, DigitsWord, FourDigits
<1>3. Ok(f).value = f
  BY SMT DEF Ok
<1> HIDE DEF m
<1>4. ASSUME NEW i \in 1..m
      PROVE  /\ f[i] = WordByte(DigitsWord(s, (i - 1) \div 3), 1 + ((i - 1) % 3))
             /\ f[i] \in Octets
  <2> DEFINE g == (i - 1) \div 3
             k == 1 + ((i - 1) % 3)
             e == 2 - ((i - 1) % 3)
  <2>1. g \in Nat /\ k \in 1..3 /\ e = 3 - k /\ g \in 0..((Len(s) \div 4) - 1)
    BY <1>1, SMT
  <2>2. f[i] = (DigitsWord(s, g) \div 256 ^ e) % 256
    BY SMT
  <2> HIDE DEF g, k, e, f
  <2>3. DigitsWord(s, g) \in Nat
    BY <2>1, GroupValues, Zenon DEF GroupsOK
  <2>4. WordByte(DigitsWord(s, g), k) \in Octets
    BY <2>1, <2>3, DigitsAndBytesAreSmall, Zenon
  <2>5. f[i] = WordByte(DigitsWord(s, g), k)
    BY <2>1, <2>2, Zenon DEF WordByte
  <2> QED BY <2>4, <2>5, Zenon DEF g, k
<1>5. f \in [1..m -> Octets]
  <2>1. f = [i \in 1..m |-> f[i]]
    BY SMT
  <2> HIDE DEF f
  <2> QED BY <1>4, <2>1, Zenon
<1> HIDE DEF f
<1>6. f \in Seq(Octets)
  BY <1>1, <1>5, SeqDef, SMT
<1>7. Len(f) = m
  BY <1>1, <1>5, <1>6, LenProperties, SMT
<1> QED BY <1>1, <1>2, <1>3, <1>4, <1>6, <1>7, Zenon DEF m

\* Digits that hold none of the bytes are zero
LEMMA NoBytesNoDigits ==
  /\ Digit3(0, 0) = 0 /\ Digit4(0) = 0 /\ 0 \in Octets /\ 0 \in Digits /\ Pad \notin Digits
BY SMT DEF Digit3, Digit4, Octets, Digits, Pad

LEMMA EncodedValues ==
  ASSUME NEW src \in Seq(Octets), NEW g \in Nat, 3 * g < Len(src)
  PROVE  LET e == Base64Encode(src) IN
         GroupOK(e, g) /\ DigitsWord(e, g) = BytesWord(src, g)
<1> DEFINE e == Base64Encode(src)
           n == Len(src)
           b1 == ByteAt(src, 3 * g + 1)
           b2 == ByteAt(src, 3 * g + 2)
           b3 == ByteAt(src, 3 * g + 3)
<1>1. /\ b1 \in Octets /\ b2 \in Octets /\ b3 \in Octets
      /\ BytesWord(src, g) = ThreeBytes(b1, b2, b3)
  BY BytesAre, Zenon DEF BytesWord
<1>2. /\ e[4 * g + 1] = Digit1(b1) /\ e[4 * g + 2] = Digit2(b1, b2)
      /\ e[4 * g + 3] = IF n <= 3 * g + 1 THEN Pad ELSE Digit3(b2, b3)
      /\ e[4 * g + 4] = IF n <= 3 * g + 2 THEN Pad ELSE Digit4(b3)
  BY EncodedGroup, Zenon
<1>3. n \in Nat /\ n > 3 * g /\ Len(e) = 4 * ((n + 2) \div 3)
  BY Encoded, LenProperties, SMT
<1>4. n <= 3 * g + 1 => b2 = 0 /\ b3 = 0
  BY <1>3, SMT DEF ByteAt
<1>5. n <= 3 * g + 2 => b3 = 0
  BY <1>3, SMT DEF ByteAt
<1> HIDE DEF e, n, b1, b2, b3
<1>6. /\ Digit1(b1) \in Digits /\ Digit2(b1, b2) \in Digits
      /\ Digit3(b2, b3) \in Digits /\ Digit4(b3) \in Digits
      /\ ThreeBytes(b1, b2, b3)
           = FourDigits(Digit1(b1), Digit2(b1, b2), Digit3(b2, b3), Digit4(b3))
  BY <1>1, BytesInDigits, Zenon
<1>7. /\ n <= 3 * g + 1 => n <= 3 * g + 2
      /\ n <= 3 * g + 2 => 4 * g + 4 = Len(e)
  BY <1>3, SMT
<1>8. GroupOK(e, g)
  BY <1>2, <1>6, <1>7, Zenon DEF GroupOK
<1>9. ValueAt(e, 4 * g + 1) = Digit1(b1) /\ ValueAt(e, 4 * g + 2) = Digit2(b1, b2)
  BY <1>2, <1>6, NoBytesNoDigits, Zenon DEF ValueAt
<1>10. ValueAt(e, 4 * g + 3) = Digit3(b2, b3)
  <2>1. CASE n <= 3 * g + 1
    BY <1>2, <1>4, <2>1, NoBytesNoDigits, SMT DEF ValueAt
  <2>2. CASE ~(n <= 3 * g + 1)
    BY <1>2, <1>6, <2>2, NoBytesNoDigits, Zenon DEF ValueAt
  <2> QED BY <2>1, <2>2, Zenon
<1>11. ValueAt(e, 4 * g + 4) = Digit4(b3)
  <2>1. CASE n <= 3 * g + 2
    BY <1>2, <1>5, <2>1, NoBytesNoDigits, SMT DEF ValueAt
  <2>2. CASE ~(n <= 3 * g + 2)
    BY <1>2, <1>6, <2>2, NoBytesNoDigits, Zenon DEF ValueAt
  <2> QED BY <2>1, <2>2, Zenon
<1>12. DigitsWord(e, g) = BytesWord(src, g)
  BY <1>1, <1>6, <1>9, <1>10, <1>11, SMT DEF DigitsWord
<1> QED BY <1>8, <1>12, Zenon DEF e

LEMMA EncodedIsWhole ==
  ASSUME NEW src \in Seq(Octets)
  PROVE  LET e == Base64Encode(src) IN
         /\ e \in Seq(Chars) /\ GroupsOK(e) /\ (Len(e) \div 4) * 3 - Padding(e) = Len(src)
<1> DEFINE e == Base64Encode(src)
           n == Len(src)
<1>1. n \in Nat
  BY LenProperties, Zenon
<1>2. Len(e) = 4 * ((n + 2) \div 3) /\ e \in Seq(Digits \cup {Pad})
  BY Encoded, Zenon
<1>3. e \in Seq(Chars)
  BY <1>2, SeqMonotonic, Zenon DEF Chars
<1>4. ASSUME NEW g \in Nat, 3 * g < n PROVE GroupOK(e, g)
  BY <1>4, EncodedValues, Zenon
<1>5. /\ Len(e) % 4 = 0 /\ Len(e) \div 4 = (n + 2) \div 3
      /\ \A g \in 0..((Len(e) \div 4) - 1) : g \in Nat /\ 3 * g < n
  <2> HIDE DEF e, n
  <2> QED BY <1>1, <1>2, SMT
<1>6. GroupsOK(e)
  BY <1>4, <1>5, Zenon DEF GroupsOK
<1>7. CASE n = 0
  <2>1. Len(e) = 0
    <3> HIDE DEF e, n
    <3> QED BY <1>2, <1>7, SMT
  <2>2. Padding(e) = 0
    BY <1>3, <1>5, <2>1, PaddingIs, Zenon
  <2>3. (Len(e) \div 4) * 3 - Padding(e) = n
    <3> HIDE DEF e, n
    <3> QED BY <1>7, <2>1, <2>2, SMT
  <2> QED BY <1>3, <1>6, <2>3, Zenon
<1>8. CASE n # 0
  <2> DEFINE g == ((n + 2) \div 3) - 1
  <2>1. g \in Nat /\ 3 * g < n /\ n <= 3 * g + 3 /\ Len(e) = 4 * g + 4
    <3> HIDE DEF e, n
    <3> QED BY <1>1, <1>2, <1>8, SMT
  <2> DEFINE b1 == ByteAt(src, 3 * g + 1)
             b2 == ByteAt(src, 3 * g + 2)
             b3 == ByteAt(src, 3 * g + 3)
  <2> HIDE DEF g
  <2>2. /\ e[4 * g + 3] = IF n <= 3 * g + 1 THEN Pad ELSE Digit3(b2, b3)
        /\ e[4 * g + 4] = IF n <= 3 * g + 2 THEN Pad ELSE Digit4(b3)
    BY <2>1, EncodedGroup, Zenon
  <2>3. Digit3(b2, b3) # Pad /\ Digit4(b3) # Pad
    <3>1. b1 \in Octets /\ b2 \in Octets /\ b3 \in Octets
      BY <2>1, BytesAre, Zenon
    <3> HIDE DEF b1, b2, b3
    <3>2. Digit3(b2, b3) \in Digits /\ Digit4(b3) \in Digits
      BY <3>1, BytesInDigits, Zenon
    <3> QED BY <3>2, NoBytesNoDigits, Zenon
  <2> HIDE DEF e, n, b1, b2, b3
  <2>4. /\ Padding(e) \in 0..2
        /\ Padding(e) = 0 <=> e[Len(e)] # Pad
        /\ Padding(e) = 2 <=> e[Len(e)] = Pad /\ e[Len(e) - 1] = Pad
    <3>1. Len(e) > 0
      BY <2>1, SMT
    <3> QED BY <1>3, <1>5, <3>1, PaddingIs, Zenon
  <2>5. Len(e) - 1 = 4 * g + 3
    BY <2>1, SMT
  <2>6. /\ Padding(e) = 0 <=> ~(n <= 3 * g + 2)
        /\ Padding(e) = 2 <=> n <= 3 * g + 2 /\ n <= 3 * g + 1
    BY <2>1, <2>2, <2>3, <2>4, <2>5, Zenon
  <2>7. Padding(e) = 3 * g + 3 - n
    BY <1>1, <2>1, <2>4, <2>6, SMT
  <2>8. (Len(e) \div 4) * 3 - Padding(e) = n
    BY <1>1, <2>1, <2>7, SMT
  <2> QED BY <1>3, <1>6, <2>8, Zenon DEF e, n
<1> QED BY <1>7, <1>8, Zenon

LEMMA DecodesEncoded ==
  ASSUME NEW src \in Seq(Octets)
  PROVE  Base64Decode(Base64Encode(src)) = Ok(src)
<1> DEFINE e == Base64Encode(src)
           n == Len(src)
           v == Base64Decode(e).value
<1>1. e \in Seq(Chars) /\ GroupsOK(e) /\ (Len(e) \div 4) * 3 - Padding(e) = n
  BY EncodedIsWhole, Zenon
<1>2. n \in Nat
  BY LenProperties, Zenon
<1> HIDE DEF e, n
<1>3. /\ Base64Decode(e) = Ok(v) /\ v \in Seq(Octets) /\ Len(v) = n
      /\ \A i \in 1..n : v[i] = WordByte(DigitsWord(e, (i - 1) \div 3), 1 + ((i - 1) % 3))
  BY <1>1, Decoded, SMT
<1> HIDE DEF v
<1>4. ASSUME NEW i \in 1..n PROVE v[i] = src[i]
  <2> DEFINE g == (i - 1) \div 3
             k == 1 + ((i - 1) % 3)
             b1 == ByteAt(src, 3 * g + 1)
             b2 == ByteAt(src, 3 * g + 2)
             b3 == ByteAt(src, 3 * g + 3)
  <2>1. g \in Nat /\ 3 * g < n /\ k \in 1..3 /\ i = 3 * g + k
    BY <1>2, SMT
  <2>2. v[i] = WordByte(DigitsWord(e, g), k)
    BY <1>3, Zenon
  <2> HIDE DEF g, k
  <2>3. DigitsWord(e, g) = BytesWord(src, g)
    BY <2>1, EncodedValues, Zenon DEF e, n
  <2>4. BytesWord(src, g) = ThreeBytes(b1, b2, b3)
    BY Zenon DEF BytesWord
  <2>5. b1 \in Octets /\ b2 \in Octets /\ b3 \in Octets
    BY <2>1, BytesAre, Zenon
  <2> HIDE DEF b1, b2, b3
  <2>6. /\ WordByte(ThreeBytes(b1, b2, b3), 1) = b1 /\ WordByte(ThreeBytes(b1, b2, b3), 2) = b2
        /\ WordByte(ThreeBytes(b1, b2, b3), 3) = b3
    BY <2>5, BytesOfWord, SMT
  <2>7. ByteAt(src, i) = src[i]
    BY <1>2, SMT DEF ByteAt, n
  <2>8. CASE k = 1
    <3>1. v[i] = b1
      BY <2>2, <2>3, <2>4, <2>6, <2>8, Zenon
    <3>2. i = 3 * g + 1
      BY <2>1, <2>8, Zenon
    <3> QED BY <2>7, <3>1, <3>2, Zenon DEF b1
  <2>9. CASE k = 2
    <3>1. v[i] = b2
      BY <2>2, <2>3, <2>4, <2>6, <2>9, Zenon
    <3>2. i = 3 * g + 2
      BY <2>1, <2>9, Zenon
    <3> QED BY <2>7, <3>1, <3>2, Zenon DEF b2
  <2>10. CASE k = 3
    <3>1. v[i] = b3
      BY <2>2, <2>3, <2>4, <2>6, <2>10, Zenon
    <3>2. i = 3 * g + 3
      BY <2>1, <2>10, Zenon
    <3> QED BY <2>7, <3>1, <3>2, Zenon DEF b3
  <2> QED BY <2>1, <2>8, <2>9, <2>10, SMT
<1>5. v = src
  BY <1>3, <1>4, SeqEqual, SMT DEF n
<1> QED BY <1>3, <1>5, Zenon DEF e

\* Without its padding a string is padded as it was
LEMMA PaddedAgain ==
  ASSUME NEW s \in Seq(Chars), Len(s) % 4 = 0
  PROVE  PadRawBase64(SubSeq(s, 1, Len(s) - Padding(s))) = s
<1> DEFINE n == Len(s)
           p == Padding(s)
           front == SubSeq(s, 1, n - p)
           back == SubSeq(s, n - p + 1, n)
<1>1. /\ n \in Nat /\ p \in 0..2 /\ n % 4 = 0 /\ (n = 0 => p = 0)
      /\ n > 0 => n >= 4 /\ (p = 0 <=> s[n] # Pad) /\ (p = 2 <=> s[n] = Pad /\ s[n - 1] = Pad)
  BY PaddingIs, Zenon
<1> HIDE DEF n, p
<1>2. n - p \in 0..n
  BY <1>1, SMT
<1>3. /\ s = front \o back /\ Len(front) = n - p /\ front \in Seq(Chars)
      /\ back \in Seq(Chars) /\ Len(back) = n - (n - p)
      /\ \A i \in 1..(n - (n - p)) : back[i] = s[n - p + i]
  <2>1. PICK m \in 0..n : m = n - p
    BY <1>2, Zenon
  <2>2. /\ s = SubSeq(s, 1, m) \o SubSeq(s, m + 1, n)
        /\ SubSeq(s, 1, m) \in Seq(Chars) /\ Len(SubSeq(s, 1, m)) = m
        /\ SubSeq(s, m + 1, n) \in Seq(Chars) /\ Len(SubSeq(s, m + 1, n)) = n - m
        /\ \A i \in 1..(n - m) : SubSeq(s, m + 1, n)[i] = s[m + i]
    BY Joined, Zenon DEF n
  <2> QED BY <2>1, <2>2, Zenon
<1> HIDE DEF front, back
<1>4. /\ Len(back) = p /\ Pad \in Chars
      /\ \A i \in 1..p : back[i] = s[n - p + i]
  <2>1. n - (n - p) = p
    BY <1>1, SMT
  <2> QED BY <1>3, <2>1, Zenon DEF Chars
<1>5. Len(front) = n - p
  BY <1>3, Zenon
<1>6. CASE p = 0
  <2>1. back = <<>>
    BY <1>3, <1>4, <1>6, EmptySeq, SMT
  <2>2. Len(front) % 4 = 0
    BY <1>1, <1>5, <1>6, SMT
  <2> QED BY <1>3, <2>1, <2>2, SMT DEF PadRawBase64, front, n, p
<1>7. CASE p = 1
  <2>1. n > 0 /\ n - p + 1 = n /\ s[n] = Pad
    BY <1>1, <1>7, SMT
  <2>2. Len(front) % 4 = 3
    BY <1>1, <1>5, <1>7, SMT
  <2>3. back[1] = Pad
    <3>1. 1 \in 1..p
      BY <1>7, SMT
    <3> QED BY <1>4, <2>1, <3>1, Zenon
  <2>4. back = <<Pad>>
    <3>1. <<Pad>> \in Seq(Chars) /\ Len(<<Pad>>) = 1 /\ <<Pad>>[1] = Pad
      BY <1>4, SMT
    <3>2. Len(back) = Len(<<Pad>>) /\ \A i \in 1..Len(back) : back[i] = <<Pad>>[i]
      BY <1>4, <1>7, <2>3, <3>1, SMT
    <3> QED BY <1>3, <3>1, <3>2, SeqEqual, Zenon
  <2>5. PadRawBase64(front) = front \o <<Pad>>
    BY <2>2, SMT DEF PadRawBase64
  <2> QED BY <1>3, <2>4, <2>5, Zenon DEF front, n, p
<1>8. CASE p = 2
  <2>1. n > 0 /\ n - p + 1 = n - 1 /\ n - p + 2 = n /\ s[n] = Pad /\ s[n - 1] = Pad
    BY <1>1, <1>8, SMT
  <2>2. Len(front) % 4 = 2
    BY <1>1, <1>5, <1>8, SMT
  <2>3. back[1] = Pad /\ back[2] = Pad
    <3>1. 1 \in 1..p /\ 2 \in 1..p
      BY <1>8, SMT
    <3> QED BY <1>4, <2>1, <3>1, Zenon
  <2>4. back = <<Pad, Pad>>
    <3>1. /\ <<Pad, Pad>> \in Seq(Chars) /\ Len(<<Pad, Pad>>) = 2
          /\ <<Pad, Pad>>[1] = Pad /\ <<Pad, Pad>>[2] = Pad
      BY <1>4, PairIsSeq, Zenon
    <3>2. Len(back) = Len(<<Pad, Pad>>) /\ \A i \in 1..Len(back) : back[i] = <<Pad, Pad>>[i]
      BY <1>4, <1>8, <2>3, <3>1, SMT
    <3> QED BY <1>3, <3>1, <3>2, SeqEqual, Zenon
  <2>5. PadRawBase64(front) = front \o <<Pad, Pad>>
    BY <2>2, SMT DEF PadRawBase64
  <2> QED BY <1>3, <2>4, <2>5, Zenon DEF front, n, p
<1> QED BY <1>1, <1>6, <1>7, <1>8, SMT

LEMMA HexIsInOrder ==
  ASSUME NEW src \in Seq(Octets), NEW i \in 1..Len(src)
  PROVE  src[i] = 16 * HexEncode(src)[2 * i - 1] + HexEncode(src)[2 * i]
<1> DEFINE h == HexEncode(src)
           n == Len(src)
<1>1. n \in Nat /\ src[i] \in 0..255 /\ i \in 1..n
  BY LenProperties, ElementOfSeq, SMT DEF Octets
<1>2. h = [j \in 1..2 * n |-> IF j % 2 = 1 THEN src[(j + 1) \div 2] \div 16
                                           ELSE src[(j + 1) \div 2] % 16]
  BY SMT DEF HexEncode
<1> HIDE DEF h, n
<1>3. h[2 * i - 1] = src[i] \div 16
  <2>1. PICK j \in 1..2 * n : j = 2 * i - 1
    BY <1>1, SMT
  <2>2. j % 2 = 1 /\ (j + 1) \div 2 = i
    BY <1>1, <2>1, SMT
  <2>3. h[j] = src[i] \div 16
    BY <1>2, <2>2, SMT
  <2> QED BY <2>1, <2>3, Zenon
<1>4. h[2 * i] = src[i] % 16
  <2>1. PICK j \in 1..2 * n : j = 2 * i
    BY <1>1, SMT
  <2>2. j % 2 # 1 /\ (j + 1) \div 2 = i
    BY <1>1, <2>1, SMT
  <2>3. h[j] = src[i] % 16
    BY <1>2, <2>2, SMT
  <2> QED BY <2>1, <2>3, Zenon
<1>5. src[i] = 16 * (src[i] \div 16) + (src[i] % 16)
  <2>1. PICK b \in 0..255 : b = src[i]
    BY <1>1, Zenon
  <2>2. b = 16 * (b \div 16) + (b % 16)
    BY SMT
  <2> QED BY <2>1, <2>2, Zenon
<1> QED BY <1>3, <1>4, <1>5, Zenon DEF h

LEMMA EncodingIsUndone == Built => Base64RoundTrips
<1> SUFFICES ASSUME Built, kind = "bytes"
             PROVE  /\ Base64Decode(Base64Encode(input)) = Ok(input)
                    /\ RawBase64Decode(RawBase64Encode(input)) = Ok(input)
                    /\ \A i \in DOMAIN input :
                         input[i] = 16 * HexEncode(input)[2 * i - 1] + HexEncode(input)[2 * i]
  BY Zenon DEF Base64RoundTrips
<1>1. input \in Seq(Octets)
  <2>1. input \in Seq(SampleBytes)
    BY SMT DEF Built, Source
  <2> QED BY <2>1, SamplesAssumption, SeqMonotonic, Zenon DEF Octets
<1>2. Base64Decode(Base64Encode(input)) = Ok(input)
  BY <1>1, DecodesEncoded, Zenon
<1>3. RawBase64Decode(RawBase64Encode(input)) = Ok(input)
  <2>1. Base64Encode(input) \in Seq(Chars) /\ Len(Base64Encode(input)) % 4 = 0
    BY <1>1, EncodedIsWhole, Zenon DEF GroupsOK
  <2>2. PadRawBase64(RawBase64Encode(input)) = Base64Encode(input)
    BY <2>1, PaddedAgain, Zenon DEF RawBase64Encode
  <2> QED BY <1>2, <2>2, Zenon DEF RawBase64Decode
<1>4. \A i \in DOMAIN input :
        input[i] = 16 * HexEncode(input)[2 * i - 1] + HexEncode(input)[2 * i]
  <2>1. DOMAIN input = 1..Len(input)
    BY <1>1, LenProperties, Zenon
  <2> QED BY <1>1, <2>1, HexIsInOrder, Zenon
<1> QED BY <1>2, <1>3, <1>4, Zenon

\* Whatever bytes are encoded, in padded or unpadded base64, decoding gives these
\* bytes and no others, and their hexadecimal form has two digits for each, in
\* order (Base64Encode, HexEncode, encode.go; rawBase64Encode, hash.go).
THEOREM BytesSurviveEncoding == Spec => []Base64RoundTrips
BY InputsAreBuilt, EncodingIsUndone, PTL

LEMMA CharsDiffer == Pad \notin Digits /\ Junk \notin Digits /\ Junk # Pad
BY SMT DEF Digits, Pad, Junk

\* Where the padding may be
LEMMA WellFormedIs ==
  ASSUME NEW s \in Seq(Chars), Len(s) % 4 = 0
  PROVE  WellFormed(s) <=>
           /\ \A i \in 1..Len(s) : s[i] # Junk
           /\ \A i \in 1..Len(s) : s[i] = Pad => i \in {Len(s) - 1, Len(s)}
           /\ Len(s) > 0 /\ s[Len(s) - 1] = Pad => s[Len(s)] = Pad
<1> DEFINE n == Len(s)
           pads == {i \in 1..n : s[i] = Pad}
<1>1. n \in Nat /\ (n > 0 => n >= 4)
  <2>1. n \in Nat
    BY LenProperties, Zenon
  <2> QED BY <2>1, SMT
<1>2. WellFormed(s) <=> (\A i \in 1..n : s[i] # Junk) /\ pads \in {{}, {n}, {n - 1, n}}
  BY Zenon DEF WellFormed
<1> HIDE DEF n
<1>3. pads \in {{}, {n}, {n - 1, n}}
        <=> /\ \A i \in 1..n : s[i] = Pad => i \in {n - 1, n}
            /\ n > 0 /\ s[n - 1] = Pad => s[n] = Pad
  <2>1. ASSUME pads = {}
        PROVE  /\ \A i \in 1..n : s[i] = Pad => i \in {n - 1, n}
               /\ n > 0 /\ s[n - 1] = Pad => s[n] = Pad
    <3>1. \A i \in 1..n : s[i] # Pad
      BY <2>1, Zenon
    <3> QED BY <1>1, <3>1, SMT
  <2>2. ASSUME pads = {n}
        PROVE  /\ \A i \in 1..n : s[i] = Pad => i \in {n - 1, n}
               /\ n > 0 /\ s[n - 1] = Pad => s[n] = Pad
    BY <2>2, Zenon
  <2>3. ASSUME pads = {n - 1, n}
        PROVE  /\ \A i \in 1..n : s[i] = Pad => i \in {n - 1, n}
               /\ n > 0 /\ s[n - 1] = Pad => s[n] = Pad
    BY <2>3, Zenon
  <2>4. ASSUME \A i \in 1..n : s[i] = Pad => i \in {n - 1, n},
               n > 0 /\ s[n - 1] = Pad => s[n] = Pad
        PROVE  pads \in {{}, {n}, {n - 1, n}}
    <3>1. CASE n = 0
      <4>1. \A i : i \notin 1..n
        BY <3>1, SMT
      <4>2. pads = {}
        BY <4>1, Zenon
      <4> QED BY <4>2, Zenon
    <3>2. CASE n > 0
      <4>1. n \in 1..n /\ n - 1 \in 1..n /\ n - 1 # n
        BY <1>1, <3>2, SMT
      <4>2. CASE s[n] # Pad
        <5>1. pads = {}
          BY <2>4, <3>2, <4>2, Zenon
        <5> QED BY <5>1, Zenon
      <4>3. CASE s[n] = Pad /\ s[n - 1] # Pad
        <5>1. pads = {n}
          BY <2>4, <4>1, <4>3, Zenon
        <5> QED BY <5>1, Zenon
      <4>4. CASE s[n] = Pad /\ s[n - 1] = Pad
        <5>1. pads = {n - 1, n}
          BY <2>4, <4>1, <4>4, Zenon
        <5> QED BY <5>1, Zenon
      <4> QED BY <4>2, <4>3, <4>4, Zenon
    <3> QED BY <1>1, <3>1, <3>2, SMT
  <2> QED BY <2>1, <2>2, <2>3, <2>4, Zenon
<1> QED BY <1>2, <1>3, Zenon DEF n

LEMMA GroupIndex ==
  ASSUME NEW n \in Nat, n % 4 = 0
  PROVE  /\ \A g \in 0..((n \div 4) - 1) :
              /\ g \in Nat /\ 4 * g + 4 <= n
              /\ 4 * g + 1 \in 1..n /\ 4 * g + 2 \in 1..n
              /\ 4 * g + 3 \in 1..n /\ 4 * g + 4 \in 1..n
         /\ \A i \in 1..n :
              \E g \in 0..((n \div 4) - 1) :
                i \in {4 * g + 1, 4 * g + 2, 4 * g + 3, 4 * g + 4}
<1>1. ASSUME NEW g \in 0..((n \div 4) - 1)
      PROVE  /\ g \in Nat /\ 4 * g + 4 <= n
             /\ 4 * g + 1 \in 1..n /\ 4 * g + 2 \in 1..n
             /\ 4 * g + 3 \in 1..n /\ 4 * g + 4 \in 1..n
  BY SMT
<1>2. ASSUME NEW i \in 1..n
      PROVE  \E g \in 0..((n \div 4) - 1) :
                i \in {4 * g + 1, 4 * g + 2, 4 * g + 3, 4 * g + 4}
  <2> DEFINE g == (i - 1) \div 4
  <2>1. g \in 0..((n \div 4) - 1) /\ i \in {4 * g + 1, 4 * g + 2, 4 * g + 3, 4 * g + 4}
    BY SMT
  <2> QED BY <2>1, Zenon
<1> QED BY <1>1, <1>2, Zenon

LEMMA GroupsAreWellFormed ==
  ASSUME NEW s \in Seq(Chars)
  PROVE  GroupsOK(s) <=> WellFormed(s)
<1> DEFINE n == Len(s)
<1>1. n \in Nat /\ \A i \in 1..n : s[i] \in Chars
  BY LenProperties, ElementOfSeq, SMT
<1>2. SUFFICES ASSUME n % 4 = 0 PROVE GroupsOK(s) <=> WellFormed(s)
  BY Zenon DEF GroupsOK, WellFormed
<1>3. WellFormed(s) <=>
        /\ \A i \in 1..n : s[i] # Junk
        /\ \A i \in 1..n : s[i] = Pad => i \in {n - 1, n}
        /\ n > 0 /\ s[n - 1] = Pad => s[n] = Pad
  BY <1>2, WellFormedIs, Zenon
<1>4. GroupsOK(s) <=> \A g \in 0..((n \div 4) - 1) : GroupOK(s, g)
  BY <1>2, Zenon DEF GroupsOK
<1>5. \A g : GroupOK(s, g) <=>
        /\ s[4 * g + 1] \in Digits /\ s[4 * g + 2] \in Digits
        /\ \/ s[4 * g + 3] \in Digits
           \/ s[4 * g + 3] = Pad /\ 4 * g + 4 = n /\ s[4 * g + 4] = Pad
        /\ s[4 * g + 4] \in Digits \/ (s[4 * g + 4] = Pad /\ 4 * g + 4 = n)
  BY Zenon DEF GroupOK
<1> HIDE DEF n
<1>6. ASSUME \A g \in 0..((n \div 4) - 1) : GroupOK(s, g)
      PROVE  /\ \A i \in 1..n : s[i] # Junk
             /\ \A i \in 1..n : s[i] = Pad => i \in {n - 1, n}
             /\ n > 0 /\ s[n - 1] = Pad => s[n] = Pad
  <2>1. ASSUME NEW i \in 1..n
        PROVE  /\ s[i] # Junk
               /\ s[i] = Pad => i \in {n - 1, n} /\ s[n] = Pad
    <3>1. PICK g \in 0..((n \div 4) - 1) : i \in {4 * g + 1, 4 * g + 2, 4 * g + 3, 4 * g + 4}
      BY <1>1, <1>2, GroupIndex, Zenon
    <3>2. /\ s[4 * g + 1] \in Digits /\ s[4 * g + 2] \in Digits
          /\ \/ s[4 * g + 3] \in Digits
             \/ s[4 * g + 3] = Pad /\ 4 * g + 4 = n /\ s[4 * g + 4] = Pad
          /\ s[4 * g + 4] \in Digits \/ (s[4 * g + 4] = Pad /\ 4 * g + 4 = n)
      BY <1>5, <1>6, Zenon
    <3>3. 4 * g + 4 = n => 4 * g + 3 = n - 1
      BY <3>1, SMT
    <3> QED BY <3>1, <3>2, <3>3, CharsDiffer, Zenon
  <2>2. n > 0 => n - 1 \in 1..n
    BY <1>1, <1>2, SMT
  <2> QED BY <2>1, <2>2, Zenon
<1>7. ASSUME \A i \in 1..n : s[i] # Junk,
             \A i \in 1..n : s[i] = Pad => i \in {n - 1, n},
             n > 0 /\ s[n - 1] = Pad => s[n] = Pad,
             NEW g \in 0..((n \div 4) - 1)
      PROVE  GroupOK(s, g)
  <2>1. /\ 4 * g + 1 \in 1..n /\ 4 * g + 2 \in 1..n
 /\ 4 * g + 3 \in 1..n /\ 4 * g + 4 \in 1..n
    BY <1>1, <1>2, GroupIndex, Zenon
  <2>2. \A i \in 1..n : s[i] \in Digits \/ (s[i] = Pad /\ i \in {n - 1, n})
    BY <1>1, <1>7, Zenon DEF Chars
  <2>3. /\ 4 * g + 1 \notin {n - 1, n} /\ 4 * g + 2 \notin {n - 1, n}
        /\ 4 * g + 3 \in {n - 1, n} => 4 * g + 3 = n - 1 /\ 4 * g + 4 = n
        /\ 4 * g + 4 \in {n - 1, n} => 4 * g + 4 = n
        /\ n > 0
    BY <1>1, <1>2, SMT
  <2> QED BY <1>5, <1>7, <2>1, <2>2, <2>3, Zenon
<1> QED BY <1>3, <1>4, <1>6, <1>7, Zenon

LEMMA DecodesWellFormed ==
  ASSUME NEW s \in Seq(Chars)
  PROVE  Base64Decode(s).ok <=> WellFormed(s)
<1>1. CASE GroupsOK(s)
  <2>1. Base64Decode(s) = Ok(Base64Decode(s).value)
    BY <1>1, Decoded, Zenon
  <2>2. \A v : Ok(v).ok
    BY SMT DEF Ok
  <2>3. Base64Decode(s).ok
    BY <2>1, <2>2, Zenon
  <2> QED BY <1>1, <2>3, GroupsAreWellFormed, Zenon
<1>2. CASE ~GroupsOK(s)
  <2>1. Len(s) % 4 # 0 \/ \E g \in 0..(Len(s) \div 4 - 1) : ~GroupOK(s, g)
    BY <1>2, SMT DEF GroupsOK
  <2>2. Base64Decode(s) = Invalid
    BY <2>1, SMT DEF Base64Decode
  <2>3. ~Base64Decode(s).ok
    BY <2>2, SMT DEF Invalid
  <2> QED BY <1>2, <2>3, GroupsAreWellFormed, Zenon
<1> QED BY <1>1, <1>2, Zenon

\* The digits of the bytes of four digits, when bytes are missing too
LEMMA DigitsAgain ==
  ASSUME NEW d1 \in Digits, NEW d2 \in Digits, NEW d3 \in Digits, NEW d4 \in Digits
  PROVE  /\ Digit1(Byte1(d1, d2)) = d1 /\ Digit2(Byte1(d1, d2), Byte2(d2, d3)) = d2
         /\ Digit3(Byte2(d2, d3), Byte3(d3, d4)) = d3 /\ Digit4(Byte3(d3, d4)) = d4
         /\ Digit2(Byte1(d1, d2), 0) = (d2 \div 16) * 16
         /\ Digit3(Byte2(d2, d3), 0) = (d3 \div 4) * 4
<1> DEFINE q2 == d2 \div 16
           r2 == d2 % 16
           q3 == d3 \div 4
           r3 == d3 % 4
<1>1. /\ q2 \in 0..3 /\ r2 \in 0..15 /\ d2 = q2 * 16 + r2 /\ d1 \in 0..63
      /\ q3 \in 0..15 /\ r3 \in 0..3 /\ d3 = q3 * 4 + r3 /\ d4 \in 0..63
  <2>1. d1 \in 0..63 /\ d2 \in 0..63 /\ d3 \in 0..63 /\ d4 \in 0..63
    BY SMT DEF Digits
  <2>2. r2 \in 0..15 /\ d2 = q2 * 16 + r2 /\ q2 \in 0..3
    BY <2>1, SMT
  <2>3. r3 \in 0..3 /\ d3 = q3 * 4 + r3 /\ q3 \in 0..15
    BY <2>1, SMT
  <2> QED BY <2>1, <2>2, <2>3, Zenon
<1> HIDE DEF q2, r2, q3, r3
<1>2. /\ (d1 * 4 + q2) \div 4 = d1 /\ (d1 * 4 + q2) % 4 = q2
  BY <1>1, SMT
<1>3. (r2 * 16 + q3) \div 16 = r2 /\ (r2 * 16 + q3) % 16 = q3
  BY <1>1, SMT
<1>4. (r3 * 64 + d4) \div 64 = r3 /\ (r3 * 64 + d4) % 64 = d4
  BY <1>1, SMT
<1>5. 0 \div 16 = 0 /\ 0 \div 64 = 0
  BY SMT
<1>6. Digit1(Byte1(d1, d2)) = d1
  BY <1>2, SMT DEF Digit1, Byte1, q2
<1>7. Digit2(Byte1(d1, d2), Byte2(d2, d3)) = q2 * 16 + r2
  BY <1>2, <1>3, SMT DEF Digit2, Byte1, Byte2, q2, r2, q3
<1>8. Digit3(Byte2(d2, d3), Byte3(d3, d4)) = q3 * 4 + r3
  BY <1>3, <1>4, SMT DEF Digit3, Byte2, Byte3, r2, q3, r3
<1>9. Digit4(Byte3(d3, d4)) = d4
  BY <1>4, SMT DEF Digit4, Byte3, r3
<1>10. Digit2(Byte1(d1, d2), 0) = q2 * 16 + 0
  BY <1>2, <1>5, SMT DEF Digit2, Byte1, q2
<1>11. Digit3(Byte2(d2, d3), 0) = q3 * 4 + 0
  BY <1>3, <1>5, SMT DEF Digit3, Byte2, r2, q3
<1> QED BY <1>1, <1>6, <1>7, <1>8, <1>9, <1>10, <1>11, SMT DEF q2, q3

\* What is decoded of a group, as far as there are bytes
LEMMA DecodedGroup ==
  ASSUME NEW s \in Seq(Chars), GroupsOK(s), NEW g \in 0..((Len(s) \div 4) - 1)
  PROVE  LET m == (Len(s) \div 4) * 3 - Padding(s)
             v == Base64Decode(s).value
             d1 == ValueAt(s, 4 * g + 1)
             d2 == ValueAt(s, 4 * g + 2)
             d3 == ValueAt(s, 4 * g + 3)
             d4 == ValueAt(s, 4 * g + 4)
         IN /\ d1 \in Digits /\ d2 \in Digits /\ d3 \in Digits /\ d4 \in Digits
            /\ ByteAt(v, 3 * g + 1) = Byte1(d1, d2) /\ 3 * g + 1 <= m
            /\ ByteAt(v, 3 * g + 2) = IF 3 * g + 2 <= m THEN Byte2(d2, d3) ELSE 0
            /\ ByteAt(v, 3 * g + 3) = IF 3 * g + 3 <= m THEN Byte3(d3, d4) ELSE 0
<1> DEFINE m == (Len(s) \div 4) * 3 - Padding(s)
           v == Base64Decode(s).value
           d1 == ValueAt(s, 4 * g + 1)
           d2 == ValueAt(s, 4 * g + 2)
           d3 == ValueAt(s, 4 * g + 3)
           d4 == ValueAt(s, 4 * g + 4)
           w == DigitsWord(s, g)
<1>1. GroupOK(s, g) /\ Len(s) % 4 = 0
  BY Zenon DEF GroupsOK
<1>2. Padding(s) \in 0..2 /\ Len(s) \in Nat
  BY <1>1, PaddingIs, Zenon
<1>3. g \in Nat /\ m \in Nat /\ 3 * g + 1 <= m
  BY <1>1, <1>2, SMT
<1>4. /\ v \in Seq(Octets) /\ Len(v) = m
      /\ \A i \in 1..m : v[i] = WordByte(DigitsWord(s, (i - 1) \div 3), 1 + ((i - 1) % 3))
  BY Decoded, SMT
<1>5. d1 \in Digits /\ d2 \in Digits /\ d3 \in Digits /\ d4 \in Digits
  BY <1>1, <1>3, GroupValues, Zenon
<1>6. w = FourDigits(d1, d2, d3, d4)
  BY Zenon DEF DigitsWord
<1> HIDE DEF m, v, d1, d2, d3, d4
<1>7. /\ WordByte(w, 1) = Byte1(d1, d2) /\ WordByte(w, 2) = Byte2(d2, d3)
      /\ WordByte(w, 3) = Byte3(d3, d4)
  <2>1. /\ Byte1(d1, d2) \in Octets /\ Byte2(d2, d3) \in Octets /\ Byte3(d3, d4) \in Octets
        /\ w = ThreeBytes(Byte1(d1, d2), Byte2(d2, d3), Byte3(d3, d4))
    BY <1>5, <1>6, DigitsInBytes, ZenonT(60)
  <2> HIDE DEF w
  <2> QED BY <2>1, BytesOfWord, SMT
<1> HIDE DEF w
<1>8. ASSUME NEW k \in 1..3
      PROVE  ByteAt(v, 3 * g + k) = IF 3 * g + k <= m THEN WordByte(w, k) ELSE 0
  <2>1. PICK i \in Nat : i = 3 * g + k
    BY <1>3, SMT
  <2>2. ByteAt(v, i) = IF i <= m THEN v[i] ELSE 0
    BY <1>4, Zenon DEF ByteAt
  <2>3. CASE i <= m
    <3>1. i \in 1..m /\ (i - 1) \div 3 = g /\ 1 + ((i - 1) % 3) = k
      BY <1>3, <2>1, <2>3, SMT
    <3>2. v[i] = WordByte(w, k)
      BY <1>4, <3>1, Zenon DEF w
    <3> QED BY <2>1, <2>2, <2>3, <3>2, Zenon
  <2>4. CASE ~(i <= m)
    BY <2>1, <2>2, <2>4, Zenon
  <2> QED BY <2>3, <2>4, Zenon
<1>9. 1 \in 1..3 /\ 2 \in 1..3 /\ 3 \in 1..3
  BY SMT
<1> QED BY <1>3, <1>5, <1>7, <1>8, <1>9, Zenon DEF m, v, d1, d2, d3, d4

LEMMA EncodesDecoded ==
  ASSUME NEW s \in Seq(Chars), GroupsOK(s)
  PROVE  Base64Encode(Base64Decode(s).value) = Canonical(s)
<1> DEFINE n == Len(s)
           p == Padding(s)
           m == (n \div 4) * 3 - p
           v == Base64Decode(s).value
           e == Base64Encode(v)
           unused == CASE p = 0 -> 1 [] p = 1 -> 4 [] p = 2 -> 16
           c == Canonical(s)
<1>1. n % 4 = 0 /\ \A g \in 0..((n \div 4) - 1) : GroupOK(s, g)
  BY Zenon DEF GroupsOK
<1>2. /\ p \in 0..2 /\ n \in Nat /\ (n = 0 => p = 0)
      /\ n > 0 => n >= 4 /\ (p = 0 <=> s[n] # Pad) /\ (p = 2 <=> s[n] = Pad /\ s[n - 1] = Pad)
  BY <1>1, PaddingIs, Zenon
<1>3. v \in Seq(Octets) /\ Len(v) = m
  BY Decoded, SMT
<1>4. c = [i \in 1..n |-> IF i = n - p THEN (s[i] \div unused) * unused ELSE s[i]]
  BY Zenon DEF Canonical
<1>5. Len(e) = 4 * ((m + 2) \div 3) /\ e \in Seq(Digits \cup {Pad})
  <2> HIDE DEF v, m
  <2> QED BY <1>3, Encoded, SMT
<1>6. Len(e) = n
  <2> HIDE DEF n, p, e
  <2> QED BY <1>1, <1>2, <1>5, SMT
<1>7. ASSUME NEW g \in 0..((n \div 4) - 1), NEW k \in 1..4
      PROVE  e[4 * g + k] = c[4 * g + k]
  <2> DEFINE d1 == ValueAt(s, 4 * g + 1)
             d2 == ValueAt(s, 4 * g + 2)
             d3 == ValueAt(s, 4 * g + 3)
             d4 == ValueAt(s, 4 * g + 4)
             b1 == ByteAt(v, 3 * g + 1)
             b2 == ByteAt(v, 3 * g + 2)
             b3 == ByteAt(v, 3 * g + 3)
  <2>1. /\ d1 \in Digits /\ d2 \in Digits /\ d3 \in Digits /\ d4 \in Digits
        /\ b1 = Byte1(d1, d2) /\ 3 * g + 1 <= m
        /\ b2 = IF 3 * g + 2 <= m THEN Byte2(d2, d3) ELSE 0
        /\ b3 = IF 3 * g + 3 <= m THEN Byte3(d3, d4) ELSE 0
    BY DecodedGroup, Zenon
  <2>2. g \in Nat /\ 3 * g < m
    <3> HIDE DEF n, p
    <3> QED BY <1>1, <1>2, SMT
  <2>3. /\ e[4 * g + 1] = Digit1(b1) /\ e[4 * g + 2] = Digit2(b1, b2)
        /\ e[4 * g + 3] = IF m <= 3 * g + 1 THEN Pad ELSE Digit3(b2, b3)
        /\ e[4 * g + 4] = IF m <= 3 * g + 2 THEN Pad ELSE Digit4(b3)
    <3> HIDE DEF v, m
    <3> QED BY <1>3, <2>2, EncodedGroup, Zenon
  <2>4. /\ s[4 * g + 1] \in Digits /\ s[4 * g + 2] \in Digits
        /\ \/ s[4 * g + 3] \in Digits
           \/ s[4 * g + 3] = Pad /\ 4 * g + 4 = n /\ s[4 * g + 4] = Pad
        /\ s[4 * g + 4] \in Digits \/ (s[4 * g + 4] = Pad /\ 4 * g + 4 = n)
    BY <1>1, Zenon DEF GroupOK
  <2>5. d1 = s[4 * g + 1] /\ d2 = s[4 * g + 2]
    BY <2>4, CharsDiffer, Zenon DEF ValueAt
  <2>6. s[4 * g + 3] # Pad => d3 = s[4 * g + 3]
    BY Zenon DEF ValueAt
  <2>7. s[4 * g + 4] # Pad => d4 = s[4 * g + 4]
    BY Zenon DEF ValueAt
  <2>8. /\ Digit1(Byte1(d1, d2)) = d1 /\ Digit2(Byte1(d1, d2), Byte2(d2, d3)) = d2
        /\ Digit3(Byte2(d2, d3), Byte3(d3, d4)) = d3 /\ Digit4(Byte3(d3, d4)) = d4
        /\ Digit2(Byte1(d1, d2), 0) = (d2 \div 16) * 16
        /\ Digit3(Byte2(d2, d3), 0) = (d3 \div 4) * 4
    <3>1. d1 \in Digits /\ d2 \in Digits /\ d3 \in Digits /\ d4 \in Digits
      BY <2>1, Zenon
    <3> HIDE DEF d1, d2, d3, d4
    <3> QED BY <3>1, DigitsAgain, SMT
  <2>9. ASSUME NEW l \in 1..4
        PROVE  c[4 * g + l] = IF 4 * g + l = n - p THEN (s[4 * g + l] \div unused) * unused
                              ELSE s[4 * g + l]
    <3>1. 4 * g + l \in 1..n
      <4> HIDE DEF n
      <4> QED BY <1>1, <1>2, SMT
    <3> HIDE DEF n, p, unused, c
    <3> QED BY <1>4, <3>1, SMT
  <2>10. s[4 * g + 3] # Pad \/ s[4 * g + 4] = Pad
    BY <2>4, CharsDiffer, Zenon
  <2> HIDE DEF d1, d2, d3, d4, b1, b2, b3, e, c, v
  \* no padding in this group
  <2>11. CASE s[4 * g + 4] # Pad
    <3>1. s[4 * g + 3] # Pad
      BY <2>10, <2>11, Zenon
    <3>2. 4 * g + 4 = n => p = 0
      BY <1>2, <2>2, <2>11, SMT
    <3>3. 3 * g + 3 <= m /\ 3 * g + 2 <= m /\ ~(m <= 3 * g + 1) /\ ~(m <= 3 * g + 2)
      <4> HIDE DEF n, p
      <4> QED BY <1>1, <1>2, <3>2, SMT
    <3>4. /\ e[4 * g + 1] = s[4 * g + 1] /\ e[4 * g + 2] = s[4 * g + 2]
          /\ e[4 * g + 3] = s[4 * g + 3] /\ e[4 * g + 4] = s[4 * g + 4]
      BY <2>1, <2>3, <2>5, <2>6, <2>7, <2>8, <2>11, <3>1, <3>3, Zenon
    <3>5. c[4 * g + k] = s[4 * g + k]
      <4>1. CASE 4 * g + k = n - p
        <5>1. p = 0 /\ k = 4
          <6> HIDE DEF n, p
          <6> QED BY <1>1, <1>2, <3>2, <4>1, SMT
        <5>2. s[4 * g + 4] \in 0..63
          BY <2>4, <2>11, Zenon DEF Digits
        <5>3. unused = 1
          BY <5>1, SMT
        <5>4. (s[4 * g + 4] \div 1) * 1 = s[4 * g + 4]
          <6>1. PICK d \in 0..63 : d = s[4 * g + 4]
            BY <5>2, Zenon
          <6>2. (d \div 1) * 1 = d
            BY SMT
          <6> QED BY <6>1, <6>2, Zenon
        <5> HIDE DEF unused
        <5> QED BY <2>9, <5>1, <5>3, <5>4, Zenon
      <4>2. CASE 4 * g + k # n - p
        BY <2>9, <4>2, Zenon
      <4> QED BY <4>1, <4>2, Zenon
    <3> QED BY <3>4, <3>5, SMT
  \* one character of padding
  <2>12. CASE s[4 * g + 4] = Pad /\ s[4 * g + 3] # Pad
    <3>1. 4 * g + 4 = n /\ s[4 * g + 3] \in Digits
      BY <2>4, <2>12, CharsDiffer, Zenon
    <3>2. p = 1
      <4>1. n > 0 /\ n - 1 = 4 * g + 3
        BY <2>2, <3>1, SMT
      <4>2. p # 0 /\ p # 2
        BY <1>2, <2>12, <3>1, <4>1, Zenon
      <4> HIDE DEF p
      <4> QED BY <1>2, <4>2, SMT
    <3>3. m = 3 * g + 2
      <4> HIDE DEF n, p
      <4> QED BY <2>2, <3>1, <3>2, SMT
    <3>4. /\ 3 * g + 2 <= m /\ ~(3 * g + 3 <= m) /\ ~(m <= 3 * g + 1) /\ m <= 3 * g + 2
          /\ n - p = 4 * g + 3 /\ unused = 4
      <4>1. unused = 4
        BY <3>2, SMT
      <4> HIDE DEF n, p, m, unused
      <4> QED BY <2>2, <3>1, <3>2, <3>3, <4>1, SMT
    <3>5. /\ e[4 * g + 1] = s[4 * g + 1] /\ e[4 * g + 2] = s[4 * g + 2]
          /\ e[4 * g + 3] = (s[4 * g + 3] \div 4) * 4 /\ e[4 * g + 4] = Pad
      <4> HIDE DEF m
      <4> QED BY <2>1, <2>3, <2>5, <2>6, <2>8, <2>12, <3>4, Zenon
    <3> HIDE DEF n, p, m, unused
    <3>6. CASE k = 3
      BY <2>9, <3>4, <3>5, <3>6, Zenon
    <3>7. CASE k # 3
      <4>1. 4 * g + k # n - p
        BY <2>2, <3>4, <3>7, SMT
      <4>2. c[4 * g + k] = s[4 * g + k]
        BY <2>9, <4>1, Zenon
      <4>3. k \in {1, 2, 4}
        BY <3>7, SMT
      <4> QED BY <2>12, <3>5, <4>2, <4>3, Zenon
    <3> QED BY <3>6, <3>7, Zenon
  \* two characters of padding
  <2>13. CASE s[4 * g + 4] = Pad /\ s[4 * g + 3] = Pad
    <3>1. 4 * g + 4 = n
      BY <2>4, <2>13, CharsDiffer, Zenon
    <3>2. p = 2
      <4>1. n > 0 /\ n - 1 = 4 * g + 3
        BY <2>2, <3>1, SMT
      <4> QED BY <1>2, <2>13, <3>1, <4>1, Zenon
    <3>3. m = 3 * g + 1
      <4> HIDE DEF n, p
      <4> QED BY <2>2, <3>1, <3>2, SMT
    <3>4. /\ ~(3 * g + 2 <= m) /\ ~(3 * g + 3 <= m) /\ m <= 3 * g + 1 /\ m <= 3 * g + 2
          /\ n - p = 4 * g + 2 /\ unused = 16
      <4>1. unused = 16
        BY <3>2, SMT
      <4> HIDE DEF n, p, m, unused
      <4> QED BY <2>2, <3>1, <3>2, <3>3, <4>1, SMT
    <3>5. /\ e[4 * g + 1] = s[4 * g + 1] /\ e[4 * g + 2] = (s[4 * g + 2] \div 16) * 16
          /\ e[4 * g + 3] = Pad /\ e[4 * g + 4] = Pad
      <4> HIDE DEF m
      <4> QED BY <2>1, <2>3, <2>5, <2>8, <3>4, Zenon
    <3> HIDE DEF n, p, m, unused
    <3>6. CASE k = 2
      BY <2>9, <3>4, <3>5, <3>6, Zenon
    <3>7. CASE k # 2
      <4>1. 4 * g + k # n - p
        BY <2>2, <3>4, <3>7, SMT
      <4>2. c[4 * g + k] = s[4 * g + k]
        BY <2>9, <4>1, Zenon
      <4>3. k \in {1, 3, 4}
        BY <3>7, SMT
      <4> QED BY <2>13, <3>5, <4>2, <4>3, Zenon
    <3> QED BY <3>6, <3>7, Zenon
  <2> QED BY <2>11, <2>12, <2>13, Zenon
<1>8. \A i \in 1..n : e[i] = c[i]
  <2> HIDE DEF n, e, c
  <2> TAKE i \in 1..n
  <2>1. PICK g \in 0..((n \div 4) - 1) : i \in {4 * g + 1, 4 * g + 2, 4 * g + 3, 4 * g + 4}
    BY <1>1, <1>2, GroupIndex, Zenon
  <2>2. PICK k \in 1..4 : i = 4 * g + k
    <3>1. 1 \in 1..4 /\ 2 \in 1..4 /\ 3 \in 1..4 /\ 4 \in 1..4
      BY SMT
    <3> QED BY <2>1, <3>1, Zenon
  <2> QED BY <1>7, <2>2, Zenon
<1>9. e = c
  <2>1. e = [i \in 1..n |-> e[i]]
    <3> HIDE DEF e, n
    <3> QED BY <1>5, <1>6, LenProperties, SMT
  <2>2. c = [i \in 1..n |-> c[i]]
    <3> HIDE DEF n, p, unused
    <3> QED BY <1>4, SMT
  <2> HIDE DEF e, c, n
  <2> QED BY <1>8, <2>1, <2>2, SMT
<1> QED BY <1>9, Zenon

LEMMA DecodingIsStrict == Built => Base64DecodeIsExact
<1> SUFFICES ASSUME Built, kind = "base64"
             PROVE  /\ Base64Decode(input).ok <=> WellFormed(input)
                    /\ WellFormed(input) =>
                         Base64Encode(Base64Decode(input).value) = Canonical(input)
  BY Zenon DEF Base64DecodeIsExact
<1>1. input \in Seq(Chars)
  <2>1. input \in Seq(SampleDigits \cup {Pad, Junk})
    BY SMT DEF Built, Source
  <2>2. SampleDigits \cup {Pad, Junk} \subseteq Chars
    BY SamplesAssumption, Zenon DEF Chars
  <2> QED BY <2>1, <2>2, SeqMonotonic, Zenon
<1> QED BY <1>1, DecodesWellFormed, GroupsAreWellFormed, EncodesDecoded, Zenon

\* Of the strings of any length base64 decoding accepts the padded ones and no
\* other, and loses nothing but the bits no byte holds (Base64Decode, encode.go).
THEOREM DecodingIsExact == Spec => []Base64DecodeIsExact
BY InputsAreBuilt, DecodingIsStrict, PTL
-----------------------------------------------------------------------------
\* ----- password hashes

LEMMA OwnParams ==
  ParseArgon2Params(<<Field("m", Memory), Field("t", Time), Field("p", Parallelism)>>)
    = <<Memory, Time, Parallelism>>
BY WidthsAssumption DEF ParseArgon2Params, ParseUint, Field

LEMMA VerifiesOwn ==
  ASSUME NEW pw \in Passphrases, NEW other \in Passphrases, NEW salt \in Salts
  PROVE  VerifyPassword(pw, HashPassword(other, salt))
           = IF pw = other THEN "match" ELSE "mismatch"
<1> DEFINE s == HashPassword(other, salt)
           params == ParseArgon2Params(s.params)
<1>1. /\ s.version = Field("v", Version) /\ s.salt = salt
      /\ s.hash = Argon2(other, salt, Memory, Time, Parallelism)
      /\ s.params = <<Field("m", Memory), Field("t", Time), Field("p", Parallelism)>>
  BY DEF HashPassword
<1>2. params = <<Memory, Time, Parallelism>>
  BY <1>1, OwnParams, Zenon
<1>3. salt # Undecodable /\ s.hash # Undecodable /\ s.hash # EmptyHash
  BY <1>1, HashesAssumption, Zenon
<1> HIDE DEF s, params
<1>4. params # <<>> /\ params[1] = Memory /\ params[2] = Time /\ params[3] = Parallelism
  BY <1>2
<1>5. s.version.prefix = "v" /\ s.version.number = Version
  BY <1>1 DEF Field
<1>6. ~Argon2Panics(params[2], params[3], s.hash)
  BY <1>3, <1>4, WidthsAssumption DEF Argon2Panics
<1>7. s.hash = Argon2(pw, s.salt, params[1], params[2], params[3]) <=> pw = other
  BY <1>1, <1>4 DEF Argon2
<1> QED BY <1>1, <1>3, <1>4, <1>5, <1>6, <1>7, Zenon DEF VerifyPassword, s, params

LEMMA MatchIsThis ==
  ASSUME NEW pw, NEW s, VerifyPassword(pw, s) = "match"
  PROVE  /\ s.version.prefix = "v" /\ s.version.number = Version
         /\ Len(s.params) = 3
         /\ s.params[1].prefix = "m" /\ s.params[2].prefix = "t" /\ s.params[3].prefix = "p"
         /\ s.hash = Argon2(pw, s.salt, s.params[1].number, s.params[2].number,
                            s.params[3].number)
<1> DEFINE params == ParseArgon2Params(s.params)
<1>1. /\ s.version.prefix = "v" /\ s.version.number = Version /\ params # <<>>
      /\ s.hash = Argon2(pw, s.salt, params[1], params[2], params[3])
  BY DEF VerifyPassword
<1>2. /\ Len(s.params) = 3 /\ ParseUint(s.params[1], "m", Uint32Max)
      /\ ParseUint(s.params[2], "t", Uint32Max) /\ ParseUint(s.params[3], "p", Uint8Max)
  BY <1>1, Zenon DEF ParseArgon2Params
<1>3. params = <<s.params[1].number, s.params[2].number, s.params[3].number>>
  BY <1>2, Zenon DEF ParseArgon2Params
<1> HIDE DEF params
<1>4. params[1] = s.params[1].number /\ params[2] = s.params[2].number
      /\ params[3] = s.params[3].number
  BY <1>3
<1> QED BY <1>1, <1>2, <1>4 DEF ParseUint

LEMMA MatchesAreTheirs == Built => MatchMeansThisHash
<1> SUFFICES ASSUME Built, kind = "params"
             PROVE  /\ \A pw, other \in Passphrases, salt \in Salts :
                         VerifyPassword(pw, HashPassword(other, salt))
                           = IF pw = other THEN "match" ELSE "mismatch"
                    /\ \A pw \in Passphrases, s \in HashStrings :
                         VerifyPassword(pw, s) = "match" =>
                           /\ s.version = Field("v", Version)
                           /\ \A i \in 1..3 : s.params[i].prefix = <<"m", "t", "p">>[i]
                           /\ s.hash = Argon2(pw, s.salt, input[1].number, input[2].number,
                                              input[3].number)
  BY Zenon DEF MatchMeansThisHash
<1>1. \A pw, other \in Passphrases, salt \in Salts :
        VerifyPassword(pw, HashPassword(other, salt))
          = IF pw = other THEN "match" ELSE "mismatch"
  BY VerifiesOwn
<1>2. ASSUME NEW pw \in Passphrases, NEW s \in HashStrings, VerifyPassword(pw, s) = "match"
      PROVE  /\ s.version = Field("v", Version)
             /\ \A i \in 1..3 : s.params[i].prefix = <<"m", "t", "p">>[i]
             /\ s.hash = Argon2(pw, s.salt, input[1].number, input[2].number, input[3].number)
  <2>1. /\ s.params = input
        /\ s.version \in {Field("v", Version), Field("v", Version + 1), Field("m", Version)}
    BY DEF HashStrings
  <2>2. s.version = Field("v", Version)
    <3>1. s.version.prefix = "v" /\ s.version.number = Version
      BY <1>2, MatchIsThis
    <3> QED BY <2>1, <3>1 DEF Field
  <2>3. /\ s.params[1].prefix = "m" /\ s.params[2].prefix = "t" /\ s.params[3].prefix = "p"
        /\ s.hash = Argon2(pw, s.salt, s.params[1].number, s.params[2].number,
                           s.params[3].number)
    BY <1>2, MatchIsThis
  <2>4. \A i \in 1..3 : s.params[i].prefix = <<"m", "t", "p">>[i]
    BY <2>3
  <2> QED BY <2>1, <2>2, <2>3, <2>4, Zenon
<1> QED BY <1>1, <1>2

\* At any width of the parsers, whatever parameters a hash string names: a
\* password matches its own hash and no other password does, and only under the
\* parameters and the version in the string (VerifyPassword, hash.go).
THEOREM PasswordsMatchTheirHash == Spec => []MatchMeansThisHash
BY InputsAreBuilt, MatchesAreTheirs, PTL
-----------------------------------------------------------------------------
\* ----- ciphertexts

\* The pieces of an encryption
AnyPiece(e) == [of : {e}, part : {"salt", "nonce", "box"}, i : Int]

LEMMA PiecesOf ==
  ASSUME NEW e, NEW part \in {"salt", "nonce", "box"}, NEW n \in Nat
  PROVE  /\ Pieces(e, part, n) \in Seq(AnyPiece(e)) /\ Len(Pieces(e, part, n)) = n
         /\ \A i \in 1..n : Pieces(e, part, n)[i] = Piece(e, part, i)
<1>1. \A i \in 1..n : Piece(e, part, i) \in AnyPiece(e)
  BY DEF Piece, AnyPiece
<1>2. [i \in 1..n |-> Piece(e, part, i)] \in [1..n -> AnyPiece(e)]
  BY <1>1
<1>3. Pieces(e, part, n) \in Seq(AnyPiece(e))
  BY <1>2, SeqDef DEF Pieces
<1> QED BY <1>3, LenProperties DEF Pieces

\* What Encrypt puts together, and that each stretch of it tells the encryption it is from
LEMMA EncryptIs ==
  ASSUME NEW e
  PROVE  /\ Encrypt(e) \in Seq(AnyPiece(e)) /\ Len(Encrypt(e)) >= 1
         /\ \A i \in 1..Len(Encrypt(e)) : Encrypt(e)[i].of = e
         /\ Len(Encrypt(e)) = SaltLen + NonceSize(e.cipher) + BoxLen
<1> DEFINE n == NonceSize(e.cipher)
           a == Pieces(e, "salt", SaltLen)
           b == Pieces(e, "nonce", n)
           c == Pieces(e, "box", BoxLen)
<1>1. n \in Nat \ {0}
  BY DEF NonceSize
<1>2. /\ a \in Seq(AnyPiece(e)) /\ b \in Seq(AnyPiece(e)) /\ c \in Seq(AnyPiece(e))
      /\ Len(a) = SaltLen /\ Len(b) = n /\ Len(c) = BoxLen
  BY <1>1, PiecesOf, LengthsAssumption
<1>3. Encrypt(e) = (a \o b) \o c
  BY DEF Encrypt
<1> HIDE DEF a, b, c, n
<1>4. (a \o b) \in Seq(AnyPiece(e)) /\ Len(a \o b) = SaltLen + n
  BY <1>2, ConcatProperties
<1>5. (a \o b) \o c \in Seq(AnyPiece(e)) /\ Len((a \o b) \o c) = SaltLen + n + BoxLen
  <2> DEFINE ab == a \o b
  <2>1. ab \in Seq(AnyPiece(e)) /\ Len(ab) = SaltLen + n
    BY <1>4
  <2> HIDE DEF ab
  <2>2. ab \o c \in Seq(AnyPiece(e)) /\ Len(ab \o c) = SaltLen + n + BoxLen
    BY <1>1, <1>2, <2>1, ConcatProperties, LengthsAssumption
  <2> QED BY <2>2 DEF ab
<1>6. Encrypt(e) \in Seq(AnyPiece(e)) /\ Len(Encrypt(e)) = SaltLen + n + BoxLen
  BY <1>3, <1>5
<1>7. \A i \in 1..Len(Encrypt(e)) : Encrypt(e)[i].of = e
  <2>1. \A i \in 1..Len(Encrypt(e)) : Encrypt(e)[i] \in AnyPiece(e)
    BY <1>6, ElementOfSeq
  <2>2. \A x \in AnyPiece(e) : x.of = e
    BY DEF AnyPiece
  <2> QED BY <2>1, <2>2
<1>8. Len(Encrypt(e)) >= 1
  BY <1>1, <1>6, LengthsAssumption
<1> QED BY <1>6, <1>7, <1>8 DEF n

LEMMA EncryptDiffers ==
  ASSUME NEW e, NEW f, Encrypt(e) = Encrypt(f) PROVE e = f
<1>1. ASSUME NEW g PROVE Encrypt(g)[1].of = g
  <2>1. Encrypt(g) \in Seq(AnyPiece(g)) /\ Len(Encrypt(g)) >= 1
    BY EncryptIs
  <2>2. Len(Encrypt(g)) \in Nat
    BY <2>1, LenProperties
  <2>3. 1 \in 1..Len(Encrypt(g))
    BY <2>1, <2>2
  <2> QED BY <2>3, EncryptIs
<1> QED BY <1>1

\* The stretches that Decrypt takes
LEMMA DecryptTakes ==
  ASSUME NEW e
  PROVE  LET s == Encrypt(e)
             rest == SubSeq(s, SaltLen + 1, Len(s))
             n == NonceSize(e.cipher)
         IN /\ SubSeq(s, 1, SaltLen) = Pieces(e, "salt", SaltLen)
            /\ Len(rest) = n + BoxLen
            /\ SubSeq(rest, 1, n) = Pieces(e, "nonce", n)
            /\ SubSeq(rest, n + 1, Len(rest)) = Pieces(e, "box", BoxLen)
<1> DEFINE n == NonceSize(e.cipher)
           a == Pieces(e, "salt", SaltLen)
           b == Pieces(e, "nonce", n)
           c == Pieces(e, "box", BoxLen)
           s == Encrypt(e)
           rest == SubSeq(s, SaltLen + 1, Len(s))
<1>1. n \in Nat \ {0}
  BY DEF NonceSize
<1>2. /\ a \in Seq(AnyPiece(e)) /\ b \in Seq(AnyPiece(e)) /\ c \in Seq(AnyPiece(e))
      /\ Len(a) = SaltLen /\ Len(b) = n /\ Len(c) = BoxLen
  BY <1>1, PiecesOf, LengthsAssumption
<1>3. s = (a \o b) \o c
  BY DEF Encrypt
<1> HIDE DEF a, b, c, n, s
<1>4. s = a \o (b \o c)
  BY <1>2, <1>3, ConcatAssociative
<1>5. b \o c \in Seq(AnyPiece(e)) /\ Len(b \o c) = n + BoxLen
  BY <1>2, ConcatProperties
<1>6. SubSeq(s, 1, SaltLen) = a /\ rest = b \o c
  BY <1>2, <1>4, <1>5, Cut
<1> HIDE DEF rest
<1>7. SubSeq(rest, 1, n) = b /\ SubSeq(rest, n + 1, Len(rest)) = c
  BY <1>2, <1>6, Cut
<1> QED BY <1>5, <1>6, <1>7 DEF a, b, c, n, s, rest

\* A ciphertext opens
LEMMA DecryptsOwn ==
  ASSUME NEW e
  PROVE  DecryptWith(e.cipher, Encrypt(e), e.pass) = [ok |-> TRUE, text |-> e.text]
<1> DEFINE s == Encrypt(e)
           n == NonceSize(e.cipher)
           rest == SubSeq(s, SaltLen + 1, Len(s))
           box == Pieces(e, "box", BoxLen)
<1>1. /\ SubSeq(s, 1, SaltLen) = Pieces(e, "salt", SaltLen)
      /\ Len(rest) = n + BoxLen
      /\ SubSeq(rest, 1, n) = Pieces(e, "nonce", n)
      /\ SubSeq(rest, n + 1, Len(rest)) = box
  BY DecryptTakes
<1>2. Len(s) = SaltLen + n + BoxLen /\ n \in Nat
  BY EncryptIs DEF NonceSize
<1>3. box # <<>> /\ box[1].of = e
  <2>1. Len(box) = BoxLen /\ \A i \in 1..BoxLen : box[i] = Piece(e, "box", i)
    BY PiecesOf, LengthsAssumption
  <2>2. 1 \in 1..BoxLen /\ BoxLen # 0
    BY LengthsAssumption
  <2>3. box[1] = Piece(e, "box", 1)
    BY <2>1, <2>2
  <2>4. Len(<<>>) = 0
    OBVIOUS
  <2> QED BY <2>1, <2>2, <2>3, <2>4 DEF Piece
<1>4. Open(e.cipher, DeriveKey(e.pass, Pieces(e, "salt", SaltLen)), Pieces(e, "nonce", n), box)
        = [ok |-> TRUE, text |-> e.text]
  BY <1>3 DEF Open
<1>5. ~(Len(s) < SaltLen \/ Len(rest) < n)
  <2> HIDE DEF s, n, rest, box
  <2> QED BY <1>1, <1>2, LengthsAssumption
<1> QED BY <1>1, <1>4, <1>5, Zenon DEF DecryptWith

\* What opens was encrypted so, whole
LEMMA OpensOnlyWhole ==
  ASSUME NEW E, NEW s \in Seq(UNION {AnyPiece(e) : e \in E}), NEW cipher, NEW pass,
         DecryptWith(cipher, s, pass) # Refused
  PROVE  \E e \in E : e.cipher = cipher /\ e.pass = pass /\ Encrypt(e) = s
<1> DEFINE S == UNION {AnyPiece(e) : e \in E}
           n == NonceSize(cipher)
           salt == SubSeq(s, 1, SaltLen)
           rest == SubSeq(s, SaltLen + 1, Len(s))
           nonce == SubSeq(rest, 1, n)
           box == SubSeq(rest, n + 1, Len(rest))
           e == box[1].of
<1>1. /\ ~(Len(s) < SaltLen \/ Len(rest) < n)
      /\ Open(cipher, DeriveKey(pass, salt), nonce, box) # Refused
  BY Zenon DEF DecryptWith
<1>2. /\ box # <<>> /\ e.cipher = cipher /\ box = Pieces(e, "box", BoxLen)
      /\ nonce = Pieces(e, "nonce", n)
      /\ DeriveKey(pass, salt) = DeriveKey(e.pass, Pieces(e, "salt", SaltLen))
  BY <1>1, Zenon DEF Open
<1>3. pass = e.pass /\ salt = Pieces(e, "salt", SaltLen)
  BY <1>2 DEF DeriveKey
<1> HIDE DEF S, n, salt, rest, nonce, box, e
<1>4. n \in Nat /\ Len(s) \in Nat /\ s \in Seq(S)
  BY LenProperties DEF n, NonceSize, S
<1>5. SaltLen \in 0..Len(s)
  BY <1>1, <1>4, LengthsAssumption
<1>6. s = salt \o rest /\ salt \in Seq(S) /\ rest \in Seq(S)
  BY <1>4, <1>5, Joined DEF salt, rest
<1>7. n \in 0..Len(rest)
  BY <1>1, <1>4, <1>6, LenProperties
<1>8. rest = nonce \o box /\ nonce \in Seq(S) /\ box \in Seq(S)
  BY <1>6, <1>7, Joined DEF nonce, box
<1>9. e \in E
  <2>1. box[1] \in S
    BY <1>2, <1>8, EmptySeq, ElementOfSeq
  <2>2. \A x \in S : x.of \in E
    BY DEF S, AnyPiece
  <2> QED BY <2>1, <2>2 DEF e
<1>10. s = (salt \o nonce) \o box
  BY <1>6, <1>8, ConcatAssociative
<1> QED BY <1>2, <1>3, <1>9, <1>10 DEF Encrypt, n

LEMMA WholeOnesOpen == Built => OnlyWholeCiphertextsOpen
<1> SUFFICES ASSUME Built, kind = "ciphertext", NEW cipher \in Ciphers, NEW pass \in Passphrases
             PROVE  LET made == {e \in Encryptions : e.cipher = cipher /\ e.pass = pass
                                                     /\ Encrypt(e) = input}
                    IN DecryptWith(cipher, input, pass)
                         = IF made = {} THEN Refused
                           ELSE [ok |-> TRUE, text |-> (CHOOSE e \in made : TRUE).text]
  BY Zenon DEF OnlyWholeCiphertextsOpen
<1> DEFINE made == {e \in Encryptions : e.cipher = cipher /\ e.pass = pass
                                        /\ Encrypt(e) = input}
<1>1. input \in Seq(UNION {AnyPiece(e) : e \in Encryptions})
  <2>1. Source["ciphertext"] \subseteq UNION {AnyPiece(e) : e \in Encryptions}
    <3>1. \A e \in Encryptions : \A i \in 1..Len(Encrypt(e)) : Encrypt(e)[i] \in AnyPiece(e)
      BY EncryptIs, ElementOfSeq
    <3> QED BY <3>1 DEF Source, Kinds
  <2>2. input \in Seq(Source["ciphertext"])
    BY DEF Built
  <2> QED BY <2>1, <2>2, SeqMonotonic
<1>2. DecryptWith(cipher, input, pass)
        = IF made = {} THEN Refused ELSE [ok |-> TRUE, text |-> (CHOOSE e \in made : TRUE).text]
  <2>1. CASE made = {}
    <3>1. DecryptWith(cipher, input, pass) = Refused
      BY <1>1, <2>1, OpensOnlyWhole
    <3> QED BY <2>1, <3>1
  <2>2. CASE made # {}
    <3> DEFINE e == CHOOSE e \in made : TRUE
    <3>1. e \in made
      BY <2>2
    <3>2. e.cipher = cipher /\ e.pass = pass /\ Encrypt(e) = input
      BY <3>1
    <3>3. DecryptWith(cipher, input, pass) = [ok |-> TRUE, text |-> e.text]
      <4> HIDE DEF e
      <4> QED BY <3>2, DecryptsOwn
    <3> QED BY <2>2, <3>3, Zenon
  <2> QED BY <2>1, <2>2, Zenon
<1> QED BY <1>2, Zenon

\* However the pieces of ciphertexts are put together, and whatever the length of
\* a salt and of a box: what opens is one ciphertext, whole, with the passphrase
\* and the cipher it was made with (Decrypt, DecryptAES, crypt.go, symmetric.go).
THEOREM CiphertextsOpenWhole == Spec => []OnlyWholeCiphertextsOpen
BY InputsAreBuilt, WholeOnesOpen, PTL
-----------------------------------------------------------------------------
\* ----- names of keys

\* The parts of the names: those of the references, and those the code adds
Part == Parts \cup {"t0", "t1", "aead", "single-instance"}

\* References are not the empty sequence; the empty string is <<"">>
Refs == Seq(Part) \ {<<>>}

\* The directory that holds the given keys, each a reference and a tier, and
\* every master
Directory(keys) ==
  {KeyPath(k[1], k[2]) : k \in keys} \cup {LegacyMaster} \cup {MasterFile(t) : t \in Tiers}

LEMMA SuffixOfTwo ==
  ASSUME NEW t \in Tiers
  PROVE  /\ BlobSuffix(t) \in Seq(Part) /\ Len(BlobSuffix(t)) = 2
         /\ BlobSuffix(t)[1] = (IF t = 0 THEN "t0" ELSE "t1") /\ BlobSuffix(t)[2] = "aead"
<1> DEFINE part == IF t = 0 THEN "t0" ELSE "t1"
<1>1. "t0" \in Part /\ "t1" \in Part /\ "aead" \in Part
  BY DEF Part
<1>2. part \in Part
  BY <1>1, Zenon
<1>3. BlobSuffix(t) = <<part, "aead">>
  BY DEF BlobSuffix
<1> HIDE DEF part
<1>4. /\ <<part, "aead">> \in Seq(Part) /\ Len(<<part, "aead">>) = 2
      /\ <<part, "aead">>[1] = part /\ <<part, "aead">>[2] = "aead"
  BY <1>1, <1>2, PairIsSeq, Zenon
<1> QED BY <1>3, <1>4, Zenon DEF part

LEMMA PartsOfPath ==
  ASSUME NEW ref \in Refs, NEW t \in Tiers
  PROVE  /\ KeyPath(ref, t) \in Seq(Part) /\ Len(KeyPath(ref, t)) = Len(ref) + 2
         /\ Len(ref) \in Nat \ {0}
         /\ \A i \in 1..Len(ref) : KeyPath(ref, t)[i] = ref[i]
         /\ KeyPath(ref, t)[Len(ref) + 1] = BlobSuffix(t)[1]
         /\ KeyPath(ref, t)[Len(ref) + 2] = BlobSuffix(t)[2]
<1> DEFINE s == BlobSuffix(t)
<1>1. s \in Seq(Part) /\ Len(s) = 2
  BY SuffixOfTwo
<1>2. ref \in Seq(Part) /\ Len(ref) \in Nat \ {0}
  BY EmptySeq DEF Refs
<1> HIDE DEF s
<1>3. /\ ref \o s \in Seq(Part) /\ Len(ref \o s) = Len(ref) + Len(s)
      /\ \A i \in 1..(Len(ref) + Len(s)) :
           (ref \o s)[i] = IF i <= Len(ref) THEN ref[i] ELSE s[i - Len(ref)]
  BY <1>1, <1>2, ConcatProperties, Zenon
<1>4. KeyPath(ref, t) = ref \o s
  BY DEF KeyPath, s
<1>5. /\ (ref \o s)[Len(ref) + 1] = s[1] /\ (ref \o s)[Len(ref) + 2] = s[2]
      /\ \A i \in 1..Len(ref) : (ref \o s)[i] = ref[i]
  BY <1>1, <1>2, <1>3
<1> QED BY <1>1, <1>2, <1>3, <1>4, <1>5 DEF s

\* The path of a key ends with the suffix of its own tier and of no other, and
\* without it is the reference again (keyPath and the listings cut the suffix).
LEMMA PathEndsWithItsTier ==
  ASSUME NEW ref \in Refs, NEW t \in Tiers, NEW u \in Tiers
  PROVE  EndsWith(KeyPath(ref, t), BlobSuffix(u)) <=> u = t
<1> DEFINE path == KeyPath(ref, t)
           n == Len(ref)
           end == SubSeq(path, n + 1, n + 2)
<1>1. /\ path \in Seq(Part) /\ Len(path) = n + 2 /\ n \in Nat \ {0}
      /\ path[n + 1] = BlobSuffix(t)[1] /\ path[n + 2] = BlobSuffix(t)[2]
  BY PartsOfPath
<1> HIDE DEF path, n
<1>2. \A i \in (n + 1)..(n + 2) : path[i] \in Part
  BY <1>1, ElementOfSeq
<1>3. /\ end \in Seq(Part) /\ Len(end) = 2
      /\ end[1] = path[n + 1] /\ end[2] = path[n + 2]
  BY <1>1, <1>2, SubSeqProperties
<1>4. EndsWith(path, BlobSuffix(u)) <=> end = BlobSuffix(u)
  <2>1. Len(BlobSuffix(u)) = 2
    BY SuffixOfTwo
  <2>2. Len(path) > Len(BlobSuffix(u)) /\ Len(path) - Len(BlobSuffix(u)) + 1 = n + 1
    BY <1>1, <2>1
  <2> QED BY <1>1, <2>2, Zenon DEF EndsWith
<1> HIDE DEF end
<1>5. end = BlobSuffix(t)
  <2>1. \A i \in 1..2 : end[i] = BlobSuffix(t)[i]
    BY <1>1, <1>3
  <2>2. BlobSuffix(t) \in Seq(Part) /\ Len(BlobSuffix(t)) = 2
    BY SuffixOfTwo
  <2> HIDE DEF end
  <2> QED BY <1>3, <2>1, <2>2, SeqEqual
<1>6. BlobSuffix(t) = BlobSuffix(u) => u = t
  BY SuffixOfTwo DEF Tiers
<1> QED BY <1>4, <1>5, <1>6 DEF path

LEMMA PathWithoutSuffix ==
  ASSUME NEW ref \in Refs, NEW t \in Tiers
  PROVE  Strip(KeyPath(ref, t), BlobSuffix(t)) = ref
<1> DEFINE path == KeyPath(ref, t)
           n == Len(ref)
           front == SubSeq(path, 1, n)
<1>1. /\ path \in Seq(Part) /\ Len(path) = n + 2 /\ n \in Nat \ {0}
      /\ \A i \in 1..n : path[i] = ref[i]
  BY PartsOfPath
<1>2. ref \in Seq(Part) /\ Len(ref) = n
  BY DEF Refs
<1> HIDE DEF path, n
<1>3. \A i \in 1..n : path[i] \in Part
  BY <1>1, ElementOfSeq
<1>4. /\ front \in Seq(Part) /\ Len(front) = n
      /\ \A i \in 1..n : front[i] = path[i]
  BY <1>1, <1>3, SubSeqProperties
<1> HIDE DEF front
<1>5. front = ref
  BY <1>1, <1>2, <1>4, SeqEqual
<1>6. Len(path) - Len(BlobSuffix(t)) = n
  <2>1. Len(BlobSuffix(t)) = 2
    BY SuffixOfTwo
  <2> QED BY <1>1, <2>1
<1> QED BY <1>5, <1>6, Zenon DEF Strip, path, front

\* No two keys share a file, of one tier or of two: a put never overwrites
\* another key (keyPath, service.go).
THEOREM KeysHaveTheirOwnFiles ==
  ASSUME NEW ref \in Refs, NEW other \in Refs, NEW t \in Tiers, NEW u \in Tiers,
         KeyPath(ref, t) = KeyPath(other, u)
  PROVE  ref = other /\ t = u
<1>1. t = u
  BY PathEndsWithItsTier
<1> QED BY <1>1, PathWithoutSuffix

\* However many keys a directory holds beside the masters, a listing of a tier
\* gives exactly the keys of that tier: it takes no master for a key, and no key
\* for one of the other tier (ListTier0, ListTier1, service.go).
THEOREM ListingNamesTheKeys ==
  ASSUME NEW keys \in SUBSET (Refs \X Tiers), NEW t \in Tiers
  PROVE  ListTier(Directory(keys), t) = {ref \in Refs : <<ref, t>> \in keys}
<1> DEFINE listed == {n \in Directory(keys) : EndsWith(n, BlobSuffix(t))}
<1>1. \A m \in {LegacyMaster} \cup {MasterFile(u) : u \in Tiers} : ~EndsWith(m, BlobSuffix(t))
  <2>1. \A m \in {LegacyMaster} \cup {MasterFile(u) : u \in Tiers} : Len(m) = 2
    <3>1. Len(LegacyMaster) = 2
      BY DEF LegacyMaster
    <3>2. ASSUME NEW u \in Tiers PROVE Len(MasterFile(u)) = 2
      <4>1. CASE u = 0
        BY <4>1 DEF MasterFile
      <4>2. CASE u # 0
        BY <4>2 DEF MasterFile
      <4> QED BY <4>1, <4>2
    <3> QED BY <3>1, <3>2
  <2>2. Len(BlobSuffix(t)) = 2 /\ ~(2 > 2)
    BY SuffixOfTwo
  <2> QED BY <2>1, <2>2, Zenon DEF EndsWith
<1>2. \A k \in keys : k[1] \in Refs /\ k[2] \in Tiers /\ k = <<k[1], k[2]>>
  OBVIOUS
<1>3. \A n : n \in listed <=> \E k \in keys : n = KeyPath(k[1], k[2]) /\ k[2] = t
  <2>1. \A k \in keys : EndsWith(KeyPath(k[1], k[2]), BlobSuffix(t)) <=> k[2] = t
    BY <1>2, PathEndsWithItsTier
  <2> QED BY <1>1, <2>1, Zenon DEF Directory
<1>4. \A n : n \in listed <=> \E ref \in Refs : <<ref, t>> \in keys /\ n = KeyPath(ref, t)
  <2>1. ASSUME NEW n, NEW k \in keys, n = KeyPath(k[1], k[2]), k[2] = t
        PROVE  k[1] \in Refs /\ <<k[1], t>> \in keys /\ n = KeyPath(k[1], t)
    BY <1>2, <2>1
  <2>2. ASSUME NEW n, NEW ref \in Refs, <<ref, t>> \in keys, n = KeyPath(ref, t)
        PROVE  \E k \in keys : n = KeyPath(k[1], k[2]) /\ k[2] = t
    BY <2>2
  <2> HIDE DEF listed
  <2> QED BY <1>3, <2>1, <2>2
<1> HIDE DEF listed
<1>5. \A ref \in Refs : Strip(KeyPath(ref, t), BlobSuffix(t)) = ref
  BY PathWithoutSuffix
<1>6. ListTier(Directory(keys), t) = {Strip(n, BlobSuffix(t)) : n \in listed}
  BY DEF ListTier, listed
<1>7. \A ref : ref \in {Strip(n, BlobSuffix(t)) : n \in listed}
               <=> ref \in Refs /\ <<ref, t>> \in keys
  <2>1. ASSUME NEW ref, ref \in {Strip(n, BlobSuffix(t)) : n \in listed}
        PROVE  ref \in Refs /\ <<ref, t>> \in keys
    <3>1. PICK n \in listed : ref = Strip(n, BlobSuffix(t))
      BY <2>1
    <3>2. PICK r \in Refs : <<r, t>> \in keys /\ n = KeyPath(r, t)
      BY <1>4, <3>1
    <3> QED BY <1>5, <3>1, <3>2
  <2>2. ASSUME NEW ref \in Refs, <<ref, t>> \in keys
        PROVE  ref \in {Strip(n, BlobSuffix(t)) : n \in listed}
    BY <1>4, <1>5, <2>2
  <2> QED BY <2>1, <2>2
<1> QED BY <1>6, <1>7

LEMMA SuffixOfOne ==
  LegacySuffix \in Seq(Part) /\ Len(LegacySuffix) = 1 /\ LegacySuffix[1] = "aead"
<1>1. "aead" \in Part
  BY DEF Part
<1> QED BY <1>1 DEF LegacySuffix

LEMMA PartsOfLegacy ==
  ASSUME NEW ref \in Refs
  PROVE  LET path == ref \o LegacySuffix
             n == Len(ref)
         IN /\ path \in Seq(Part) /\ Len(path) = n + 1 /\ n \in Nat \ {0} /\ ref \in Seq(Part)
            /\ \A i \in 1..n : path[i] = ref[i]
            /\ path[n + 1] = "aead"
            /\ \A i \in 1..(n + 1) : path[i] \in Part
<1> DEFINE s == LegacySuffix
<1>1. s \in Seq(Part) /\ Len(s) = 1 /\ s[1] = "aead"
  BY SuffixOfOne
<1>2. ref \in Seq(Part) /\ Len(ref) \in Nat \ {0}
  BY EmptySeq DEF Refs
<1> HIDE DEF s
<1>3. /\ ref \o s \in Seq(Part) /\ Len(ref \o s) = Len(ref) + Len(s)
      /\ \A i \in 1..(Len(ref) + Len(s)) :
           (ref \o s)[i] = IF i <= Len(ref) THEN ref[i] ELSE s[i - Len(ref)]
  BY <1>1, <1>2, ConcatProperties, Zenon
<1>4. (ref \o s)[Len(ref) + 1] = "aead" /\ \A i \in 1..Len(ref) : (ref \o s)[i] = ref[i]
  BY <1>1, <1>2, <1>3
<1>5. Len(ref \o s) = Len(ref) + 1
  BY <1>1, <1>3
<1>6. \A i \in 1..(Len(ref) + 1) : (ref \o s)[i] \in Part
  BY <1>3, <1>5, ElementOfSeq
<1> QED BY <1>1, <1>2, <1>3, <1>4, <1>5, <1>6 DEF s

LEMMA LegacyWithoutSuffix ==
  ASSUME NEW ref \in Refs
  PROVE  /\ EndsWith(ref \o LegacySuffix, LegacySuffix)
         /\ Strip(ref \o LegacySuffix, LegacySuffix) = ref
<1> DEFINE path == ref \o LegacySuffix
           n == Len(ref)
           front == SubSeq(path, 1, n)
           end == SubSeq(path, n + 1, n + 1)
<1>1. /\ path \in Seq(Part) /\ Len(path) = n + 1 /\ n \in Nat \ {0} /\ ref \in Seq(Part)
      /\ \A i \in 1..n : path[i] = ref[i]
      /\ path[n + 1] = "aead" /\ \A i \in 1..(n + 1) : path[i] \in Part
  BY PartsOfLegacy
<1>2. Len(ref) = n
  OBVIOUS
<1> HIDE DEF path, n
<1>3. front \in Seq(Part) /\ Len(front) = n /\ \A i \in 1..n : front[i] = path[i]
  <2>1. \A i \in 1..n : path[i] \in Part
    BY <1>1
  <2>2. 1 \in Int /\ n \in Int
    BY <1>1
  <2> QED BY <1>1, <2>1, <2>2, SubSeqProperties
<1>4. end \in Seq(Part) /\ Len(end) = 1 /\ end[1] = path[n + 1]
  <2>1. \A i \in (n + 1)..(n + 1) : path[i] \in Part
    BY <1>1
  <2>2. n + 1 \in Int
    BY <1>1
  <2> QED BY <1>1, <2>1, <2>2, SubSeqProperties
<1> HIDE DEF front, end
<1>5. front = ref
  BY <1>1, <1>2, <1>3, SeqEqual
<1>6. end = LegacySuffix
  BY <1>1, <1>4, SuffixOfOne, SeqEqual
<1>7. Len(path) > Len(LegacySuffix) /\ Len(path) - Len(LegacySuffix) = n
  BY <1>1, SuffixOfOne
<1>8. Len(path) = n + 1
  BY <1>1
<1>9. EndsWith(path, LegacySuffix)
  BY <1>6, <1>7, <1>8, Zenon DEF EndsWith, end
<1>10. Strip(path, LegacySuffix) = ref
  BY <1>5, <1>7, Zenon DEF Strip, front
<1> QED BY <1>9, <1>10 DEF path

\* A legacy blob looks like one of a tier only if its reference ends like one.
LEMMA LegacyHasNoTier ==
  ASSUME NEW ref \in Refs, ~LooksTiered(ref), NEW t \in Tiers
  PROVE  ~EndsWith(ref \o LegacySuffix, BlobSuffix(t))
<1> DEFINE path == ref \o LegacySuffix
           n == Len(ref)
           end == SubSeq(path, n, n + 1)
<1>1. /\ path \in Seq(Part) /\ Len(path) = n + 1 /\ n \in Nat \ {0}
      /\ \A i \in 1..n : path[i] = ref[i]
      /\ \A i \in 1..(n + 1) : path[i] \in Part
  BY PartsOfLegacy
<1>2. n > 1 => ref[n] \notin {"t0", "t1"}
  BY DEF LooksTiered
<1> HIDE DEF path, n
<1>3. SUFFICES ASSUME EndsWith(path, BlobSuffix(t)) PROVE FALSE
  BY DEF path
<1>4. Len(BlobSuffix(t)) = 2 /\ BlobSuffix(t)[1] \in {"t0", "t1"}
  BY SuffixOfTwo
<1>5. n > 1
  BY <1>1, <1>3, <1>4 DEF EndsWith
<1>6. end = BlobSuffix(t)
  <2>1. Len(path) - Len(BlobSuffix(t)) + 1 = n
    BY <1>1, <1>4
  <2> QED BY <1>1, <1>3, <2>1, Zenon DEF EndsWith, end
<1>7. end[1] = path[n]
  <2>1. \A i \in n..(n + 1) : path[i] \in Part
    BY <1>1
  <2>2. n \in Int /\ n + 1 \in Int
    BY <1>1
  <2>3. Len(end) = 2 /\ \A i \in 1..2 : end[i] = path[n + i - 1]
    <3> HIDE DEF end
    <3>1. /\ SubSeq(path, n, n + 1) \in Seq(Part)
          /\ Len(SubSeq(path, n, n + 1)) = IF n <= n + 1 THEN (n + 1) - n + 1 ELSE 0
          /\ \A i \in 1..((n + 1) - n + 1) : SubSeq(path, n, n + 1)[i] = path[n + i - 1]
      BY <2>1, <2>2, SubSeqProperties
    <3> QED BY <1>1, <3>1 DEF end
  <2> HIDE DEF end
  <2> QED BY <1>1, <2>3
<1> HIDE DEF end
<1>8. path[n] = ref[n]
  BY <1>1
<1> QED BY <1>2, <1>4, <1>5, <1>6, <1>7, <1>8

LEMMA SingleInstanceIsPlain ==
  /\ SingleInstanceRef \in Refs /\ Len(SingleInstanceRef) = 1 /\ ~LooksTiered(SingleInstanceRef)
<1>1. "single-instance" \in Part
  BY DEF Part
<1>2. SingleInstanceRef \in Seq(Part) /\ Len(SingleInstanceRef) = 1
  BY <1>1 DEF SingleInstanceRef
<1>3. Len(<<>>) = 0
  OBVIOUS
<1> QED BY <1>2, <1>3 DEF Refs, LooksTiered

\* The masters are too short for a key of a tier, and end otherwise than a blob.
LEMMA MastersAreNoBlobs ==
  ASSUME NEW m \in {LegacyMaster} \cup {MasterFile(t) : t \in Tiers}
  PROVE  /\ ~EndsWith(m, LegacySuffix)
         /\ \A t \in Tiers : ~EndsWith(m, BlobSuffix(t))
<1> DEFINE S == {"", "master", "master-tier0", "master-tier1"}
<1>1. m \in {<<"", "master">>, <<"", "master-tier0">>, <<"", "master-tier1">>}
  <2>1. LegacyMaster = <<"", "master">>
    BY DEF LegacyMaster
  <2>2. ASSUME NEW t \in Tiers
        PROVE  MasterFile(t) \in {<<"", "master-tier0">>, <<"", "master-tier1">>}
    BY DEF MasterFile
  <2> QED BY <2>1, <2>2
<1>2. PICK part \in {"master", "master-tier0", "master-tier1"} : m = <<"", part>>
  BY <1>1
<1>3. m \in Seq(S) /\ Len(m) = 2 /\ m[2] = part
  <2>1. "" \in S /\ part \in S
    OBVIOUS
  <2> HIDE DEF S
  <2>2. /\ <<"", part>> \in Seq(S) /\ Len(<<"", part>>) = 2 /\ <<"", part>>[2] = part
    BY <2>1, PairIsSeq
  <2> QED BY <1>2, <2>2, Zenon
<1>4. ~EndsWith(m, LegacySuffix)
  <2>1. Len(LegacySuffix) = 1 /\ LegacySuffix[1] = "aead"
    BY SuffixOfOne
  <2>2. SubSeq(m, 2, 2)[1] = m[2]
    <3> HIDE DEF S
    <3>1. \A i \in 1..2 : m[i] \in S
      BY <1>3, ElementOfSeq
    <3>2. \A i \in 2..2 : m[i] \in S
      BY <3>1
    <3>3. \A i \in 1..(2 - 2 + 1) : SubSeq(m, 2, 2)[i] = m[2 + i - 1]
      BY <1>3, <3>2, SubSeqProperties
    <3> QED BY <3>3
  <2>3. SubSeq(m, 2, 2) # LegacySuffix
    BY <1>2, <1>3, <2>1, <2>2
  <2>4. Len(m) - Len(LegacySuffix) + 1 = 2
    <3> HIDE DEF S
    <3> QED BY <1>3, <2>1
  <2> QED BY <1>3, <2>3, <2>4, Zenon DEF EndsWith
<1>5. \A t \in Tiers : ~EndsWith(m, BlobSuffix(t))
  <2>1. \A t \in Tiers : ~(Len(m) > Len(BlobSuffix(t)))
    <3>1. \A t \in Tiers : Len(BlobSuffix(t)) = 2
      BY SuffixOfTwo
    <3>2. Len(m) = 2
      BY <1>3, Zenon
    <3> HIDE DEF S
    <3> QED BY <3>1, <3>2
  <2> QED BY <2>1, Zenon DEF EndsWith
<1> QED BY <1>4, <1>5

\* References that a migration can rename: the others look like blobs of a tier
Plain == {ref \in Refs : ~LooksTiered(ref)}
LegacyFile(ref) == ref \o LegacySuffix

LEMMA WhatIsRenamed ==
  ASSUME NEW ref \in Plain
  PROVE  IsLegacyBlob(LegacyFile(ref)) <=> ref # SingleInstanceRef
<1>1. ref \in Refs /\ ~LooksTiered(ref)
  BY DEF Plain
<1>2. EndsWith(LegacyFile(ref), LegacySuffix)
  BY <1>1, LegacyWithoutSuffix, Zenon DEF LegacyFile
<1>3. \A t \in Tiers : ~EndsWith(LegacyFile(ref), BlobSuffix(t))
  BY <1>1, LegacyHasNoTier, Zenon DEF LegacyFile
<1>4. LegacyFile(ref) = LegacyFile(SingleInstanceRef) <=> ref = SingleInstanceRef
  <2>1. Strip(LegacyFile(ref), LegacySuffix) = ref
    BY <1>1, LegacyWithoutSuffix, Zenon DEF LegacyFile
  <2>2. Strip(LegacyFile(SingleInstanceRef), LegacySuffix) = SingleInstanceRef
    BY SingleInstanceIsPlain, LegacyWithoutSuffix, Zenon DEF LegacyFile
  <2> QED BY <2>1, <2>2
<1> QED BY <1>2, <1>3, <1>4, Zenon DEF IsLegacyBlob, LegacyFile

\* The directory that a migration finds, with the master it has written
LegacyDirectory(refs) == {LegacyFile(ref) : ref \in refs} \cup {LegacyMaster, MasterFile(1)}

LEMMA FilesAfterRenaming ==
  ASSUME NEW refs \in SUBSET Plain
  PROVE  Renamed(LegacyDirectory(refs))
           = {LegacyMaster, MasterFile(1)}
             \cup {LegacyFile(ref) : ref \in refs \cap {SingleInstanceRef}}
             \cup {KeyPath(ref, 1) : ref \in refs \ {SingleInstanceRef}}
<1> DEFINE dir == LegacyDirectory(refs)
           old == {n \in dir : IsLegacyBlob(n)}
<1>1. \A m \in {LegacyMaster, MasterFile(1)} : ~IsLegacyBlob(m)
  <2>1. 1 \in Tiers
    BY DEF Tiers
  <2>2. \A m \in {LegacyMaster, MasterFile(1)} : ~EndsWith(m, LegacySuffix)
    BY <2>1, MastersAreNoBlobs
  <2> QED BY <2>2, Zenon DEF IsLegacyBlob
<1>2. \A ref \in refs : IsLegacyBlob(LegacyFile(ref)) <=> ref # SingleInstanceRef
  BY WhatIsRenamed
<1>3. \A ref \in refs : Strip(LegacyFile(ref), LegacySuffix) = ref
  BY LegacyWithoutSuffix DEF Plain, LegacyFile
<1>4. \A n : n \in dir
            <=> n \in {LegacyMaster, MasterFile(1)} \/ \E ref \in refs : n = LegacyFile(ref)
  BY Zenon DEF LegacyDirectory
<1>5. \A n : n \in old <=> \E ref \in refs \ {SingleInstanceRef} : n = LegacyFile(ref)
  <2> HIDE DEF dir
  <2> QED BY <1>1, <1>2, <1>4
<1>6. \A n : n \in dir /\ ~IsLegacyBlob(n)
             <=> \/ n \in {LegacyMaster, MasterFile(1)}
                 \/ \E ref \in refs \cap {SingleInstanceRef} : n = LegacyFile(ref)
  <2> HIDE DEF dir
  <2> QED BY <1>1, <1>2, <1>4
<1> HIDE DEF old
<1>7. {KeyPath(Strip(n, LegacySuffix), 1) : n \in old}
        = {KeyPath(ref, 1) : ref \in refs \ {SingleInstanceRef}}
  <2>1. ASSUME NEW n \in old
        PROVE  \E ref \in refs \ {SingleInstanceRef} :
                 KeyPath(Strip(n, LegacySuffix), 1) = KeyPath(ref, 1)
    <3>1. PICK ref \in refs \ {SingleInstanceRef} : n = LegacyFile(ref)
      BY <1>5, <2>1
    <3> QED BY <1>3, <3>1
  <2>2. ASSUME NEW ref \in refs \ {SingleInstanceRef}
        PROVE  \E n \in old : KeyPath(ref, 1) = KeyPath(Strip(n, LegacySuffix), 1)
    BY <1>3, <1>5, <2>2
  <2> QED BY <2>1, <2>2
<1>8. Renamed(dir) = {n \in dir : ~IsLegacyBlob(n)}
                     \cup {KeyPath(Strip(n, LegacySuffix), 1) : n \in old}
  BY DEF Renamed, old
<1>9. {n \in dir : ~IsLegacyBlob(n)}
        = {LegacyMaster, MasterFile(1)}
          \cup {LegacyFile(ref) : ref \in refs \cap {SingleInstanceRef}}
  <2> HIDE DEF dir
  <2> QED BY <1>6
<1> QED BY <1>7, <1>8, <1>9, Zenon DEF dir

\* However many legacy keys a directory holds, the migration of the masters
\* renames each blob but the single-instance key to the name of its reference in
\* tier 1, so that tier 1 lists all of them and no master
\* (migrateTier1Locked, service.go).
THEOREM MigrationKeepsTheKeys ==
  ASSUME NEW refs \in SUBSET Plain
  PROVE  LET dir == Renamed(LegacyDirectory(refs)) IN
         /\ ListTier(dir, 1) = refs \ {SingleInstanceRef} /\ ListTier(dir, 0) = {}
         /\ SingleInstanceRef \in refs => LegacyFile(SingleInstanceRef) \in dir
<1> DEFINE dir == Renamed(LegacyDirectory(refs))
           listed(t) == {n \in dir : EndsWith(n, BlobSuffix(t))}
<1>1. \A n : n \in dir <=> \/ n \in {LegacyMaster, MasterFile(1)}
                           \/ n = LegacyFile(SingleInstanceRef) /\ SingleInstanceRef \in refs
                           \/ \E ref \in refs \ {SingleInstanceRef} : n = KeyPath(ref, 1)
  BY FilesAfterRenaming
<1> HIDE DEF dir
<1>2. 0 \in Tiers /\ 1 \in Tiers
  BY DEF Tiers
<1>3. \A t \in Tiers : \A n \in {LegacyMaster, MasterFile(1), LegacyFile(SingleInstanceRef)} :
        ~EndsWith(n, BlobSuffix(t))
  <2>1. \A t \in Tiers : \A n \in {LegacyMaster, MasterFile(1)} : ~EndsWith(n, BlobSuffix(t))
    BY <1>2, MastersAreNoBlobs
  <2>2. \A t \in Tiers : ~EndsWith(LegacyFile(SingleInstanceRef), BlobSuffix(t))
    BY SingleInstanceIsPlain, LegacyHasNoTier, Zenon DEF LegacyFile
  <2> QED BY <2>1, <2>2
<1>4. \A ref \in refs : ref \in Refs
  BY DEF Plain
<1>5. \A ref \in refs : Strip(KeyPath(ref, 1), BlobSuffix(1)) = ref
  BY <1>2, <1>4, PathWithoutSuffix
<1>6. \A ref \in refs :
        EndsWith(KeyPath(ref, 1), BlobSuffix(1)) /\ ~EndsWith(KeyPath(ref, 1), BlobSuffix(0))
  BY <1>2, <1>4, PathEndsWithItsTier
<1>7. \A n : n \in listed(1) <=> \E ref \in refs \ {SingleInstanceRef} : n = KeyPath(ref, 1)
  BY <1>1, <1>2, <1>3, <1>6
<1>8. listed(0) = {}
  BY <1>1, <1>2, <1>3, <1>6
<1>9. ListTier(dir, 1) = {Strip(n, BlobSuffix(1)) : n \in listed(1)}
      /\ ListTier(dir, 0) = {Strip(n, BlobSuffix(0)) : n \in listed(0)}
  BY DEF ListTier
<1> HIDE DEF listed
<1>10. \A ref : ref \in {Strip(n, BlobSuffix(1)) : n \in listed(1)}
                <=> ref \in refs \ {SingleInstanceRef}
  <2>1. ASSUME NEW ref \in {Strip(n, BlobSuffix(1)) : n \in listed(1)}
        PROVE  ref \in refs \ {SingleInstanceRef}
    <3>1. PICK n \in listed(1) : ref = Strip(n, BlobSuffix(1))
      BY <2>1
    <3>2. PICK r \in refs \ {SingleInstanceRef} : n = KeyPath(r, 1)
      BY <1>7, <3>1
    <3> QED BY <1>5, <3>1, <3>2
  <2>2. ASSUME NEW ref \in refs \ {SingleInstanceRef}
        PROVE  ref \in {Strip(n, BlobSuffix(1)) : n \in listed(1)}
    BY <1>5, <1>7, <2>2
  <2> QED BY <2>1, <2>2
<1>11. ListTier(dir, 1) = refs \ {SingleInstanceRef}
  BY <1>9, <1>10
<1>12. ListTier(dir, 0) = {}
  BY <1>8, <1>9
<1> QED BY <1>1, <1>11, <1>12 DEF dir

\* ----- the run's properties
LEMMA InputsAreRefs ==
  ASSUME Built, kind = "ref", ValidName(input) PROVE input \in Refs
<1>1. input \in Seq(Parts)
  BY DEF Built, Source
<1>2. input \in Seq(Part)
  BY <1>1, SeqMonotonic DEF Part
<1> QED BY <1>2 DEF Refs, ValidName

LEMMA NamesAreRefs ==
  ASSUME NEW name \in Names PROVE name \in Refs
<1>1. PICK n \in 1..(MaxParts - 1) : name \in [1..n -> Parts]
  BY DEF Names
<1>2. n \in Nat /\ n # 0 /\ \A i \in 1..n : name[i] \in Part
  BY <1>1 DEF Part
<1>3. name \in [1..n -> Part]
  BY <1>1, <1>2
<1>4. name \in Seq(Part)
  BY <1>2, <1>3, SeqDef
<1>5. Len(name) = n
  BY <1>2, <1>3, <1>4, LenProperties
<1>6. Len(<<>>) = 0
  OBVIOUS
<1> QED BY <1>2, <1>4, <1>5, <1>6 DEF Refs

LEMMA TwoAreListed == Built => ListNamesTheKeys
<1> SUFFICES ASSUME Built, kind = "ref", ValidName(input),
                    NEW other \in {n \in Names : ValidRef(n)}, NEW t \in Tiers, NEW u \in Tiers,
                    NEW v \in Tiers
             PROVE  LET dir == {KeyPath(input, t), KeyPath(other, u), LegacyMaster}
                               \cup {MasterFile(w) : w \in Tiers}
                    IN ListTier(dir, v) = (IF t = v THEN {input} ELSE {})
                                          \cup (IF u = v THEN {other} ELSE {})
  BY Zenon DEF ListNamesTheKeys
<1> DEFINE dir == {KeyPath(input, t), KeyPath(other, u), LegacyMaster}
                  \cup {MasterFile(w) : w \in Tiers}
           keys == {<<input, t>>, <<other, u>>}
<1>1. input \in Refs /\ other \in Refs
  BY InputsAreRefs, NamesAreRefs
<1>2. keys \in SUBSET (Refs \X Tiers)
  BY <1>1
<1>3. Directory(keys) = dir
  BY DEF Directory
<1>4. ListTier(dir, v) = {ref \in Refs : <<ref, v>> \in keys}
  <2> HIDE DEF keys, dir
  <2> QED BY <1>2, <1>3, ListingNamesTheKeys
<1>5. {ref \in Refs : <<ref, v>> \in keys}
        = (IF t = v THEN {input} ELSE {}) \cup (IF u = v THEN {other} ELSE {})
  <2>1. \A ref \in Refs : <<ref, v>> \in keys
                         <=> (ref = input /\ v = t) \/ (ref = other /\ v = u)
    OBVIOUS
  <2> HIDE DEF keys
  <2> QED BY <1>1, <2>1
<1> QED BY <1>4, <1>5, Zenon

\* A directory with two keys and the masters lists these keys, each in its tier,
\* whatever the parts their references have (ListTier0, ListTier1, service.go).
THEOREM TwoKeysAreListed == Spec => []ListNamesTheKeys
BY InputsAreBuilt, TwoAreListed, PTL

LEMMA LegacyOnesAreRenamed == Built => RenamingKeepsTheKeys
<1> SUFFICES ASSUME Built, kind = "ref", ValidName(input), ~LooksTiered(input),
                    NEW other \in {n \in Names : ValidRef(n) /\ ~LooksTiered(n)}
             PROVE  LET legacy == {input, other, SingleInstanceRef}
                        dir == {ref \o LegacySuffix : ref \in legacy}
                               \cup {LegacyMaster, MasterFile(1)}
                    IN /\ ListTier(Renamed(dir), 1) = legacy \ {SingleInstanceRef}
                       /\ ListTier(Renamed(dir), 0) = {}
                       /\ SingleInstanceRef \o LegacySuffix \in Renamed(dir)
  BY Zenon DEF RenamingKeepsTheKeys
<1> DEFINE legacy == {input, other, SingleInstanceRef}
           dir == {ref \o LegacySuffix : ref \in legacy} \cup {LegacyMaster, MasterFile(1)}
<1>1. legacy \in SUBSET Plain
  BY InputsAreRefs, NamesAreRefs, SingleInstanceIsPlain DEF Plain
<1>2. dir = LegacyDirectory(legacy)
  BY Zenon DEF LegacyDirectory, LegacyFile
<1>3. SingleInstanceRef \in legacy
  OBVIOUS
<1>4. /\ ListTier(Renamed(dir), 1) = legacy \ {SingleInstanceRef}
      /\ ListTier(Renamed(dir), 0) = {}
      /\ LegacyFile(SingleInstanceRef) \in Renamed(dir)
  <2> HIDE DEF legacy, dir
  <2> QED BY <1>1, <1>2, <1>3, MigrationKeepsTheKeys
<1> QED BY <1>4, Zenon DEF LegacyFile

\* The migration gives legacy blobs the names of their references in tier 1, and
\* leaves the single-instance key, for references that do not end like a tier
\* (migrateTier1Locked, service.go).
THEOREM LegacyKeysAreRenamed == Spec => []RenamingKeepsTheKeys
BY InputsAreBuilt, LegacyOnesAreRenamed, PTL
-----------------------------------------------------------------------------
\* ----- summaries of test runs

LEMMA MaxIs ==
  ASSUME NEW S \in SUBSET Int, NEW x \in S, \A y \in S : y <= x
  PROVE  Max(S) = x
<1>1. x \in S /\ \A y \in S : x >= y
  OBVIOUS
<1>2. Max(S) \in S /\ \A y \in S : Max(S) >= y
  BY <1>1, Zenon DEF Max
<1>3. Max(S) \in Int /\ x \in Int
  BY <1>2
<1>4. Max(S) >= x /\ x >= Max(S)
  BY <1>1, <1>2, Zenon
<1> QED BY <1>3, <1>4

\* The two folds, of the lines and of the coverages, as one
StepOf(what, acc, x) == IF what = "lines" THEN ParseLine(acc, x) ELSE AddCov(acc, x)
FoldOf(what, base, seq) == FoldLeft(LAMBDA acc, x : StepOf(what, acc, x), base, seq)

LEMMA LinesFold == \A lines : ParseTestOutput(lines) = FoldOf("lines", Empty, lines)
BY SMT DEF FoldOf, FoldLeft, MapThenFoldSet, ParseTestOutput, StepOf

LEMMA CoveragesFold ==
  \A covs : FoldLeft(AddCov, 0, covs) = FoldOf("coverages", 0, covs)
BY SMT DEF FoldOf, FoldLeft, MapThenFoldSet, StepOf

LEMMA FoldsStepwise ==
  ASSUME NEW what, NEW base, NEW S, NEW seq \in Seq(S)
  PROVE  \E P : /\ P[0] = base
                /\ \A k \in 1..Len(seq) : P[k] = StepOf(what, P[k - 1], seq[k])
                /\ FoldOf(what, base, seq) = P[Len(seq)]
<1> DEFINE n == Len(seq)
           Body(g, k) == [s \in SUBSET (1..k) |->
                            IF s = {} THEN base
                            ELSE StepOf(what, g[s \ {Max(s)}], seq[Max(s)])]
           good == {k \in 0..n : \E g : g = Body(g, k)}
           iter == CHOOSE g : g = Body(g, n)
<1>1. n \in Nat /\ DOMAIN seq = 1..n
  BY LenProperties
<1>2. FoldOf(what, base, seq) = iter[1..n]
  BY <1>1 DEF FoldOf, FoldLeft, MapThenFoldSet
<1> HIDE DEF n, iter
<1>3. 0 \in good
  <2> DEFINE g == [s \in SUBSET (1..0) |-> base]
  <2>1. \A s \in SUBSET (1..0) : s = {}
    OBVIOUS
  <2>2. g = Body(g, 0)
    BY <2>1
  <2>3. \E h : h = Body(h, 0)
    BY <2>2, Zenon
  <2>4. 0 \in 0..n
    BY <1>1
  <2> QED BY <2>3, <2>4
<1>4. ASSUME NEW k \in 0..(n - 1), k \in good PROVE k + 1 \in good
  <2>1. PICK g : g = Body(g, k)
    BY <1>4
  <2> DEFINE m == k + 1
             h == [s \in SUBSET (1..m) |->
                     IF m \in s THEN StepOf(what, g[s \ {m}], seq[m]) ELSE g[s]]
  <2>2. ASSUME NEW s \in SUBSET (1..m)
        PROVE  h[s] = IF s = {} THEN base ELSE StepOf(what, h[s \ {Max(s)}], seq[Max(s)])
    <3>1. CASE m \in s
      <4>1. Max(s) = m
        BY <1>1, <3>1, MaxIs
      <4>2. s \ {m} \in SUBSET (1..m) /\ m \notin s \ {m} /\ s # {}
        BY <3>1
      <4>3. h[s \ {m}] = g[s \ {m}]
        BY <4>2
      <4> QED BY <3>1, <4>1, <4>2, <4>3
    <3>2. CASE m \notin s
      <4>1. s \in SUBSET (1..k)
        BY <1>1, <3>2
      <4>2. h[s] = g[s]
        BY <3>2
      <4>3. g[s] = IF s = {} THEN base ELSE StepOf(what, g[s \ {Max(s)}], seq[Max(s)])
        BY <2>1, <4>1
      <4>4. h[s \ {Max(s)}] = g[s \ {Max(s)}]
        BY <3>2
      <4> QED BY <4>2, <4>3, <4>4
    <3> QED BY <3>1, <3>2
  <2>3. h = Body(h, m)
    <3>1. h = [s \in SUBSET (1..m) |-> h[s]]
      OBVIOUS
    <3> HIDE DEF h, m
    <3> QED BY <2>2, <3>1
  <2>4. m \in 0..n
    BY <1>1
  <2> QED BY <2>3, <2>4
<1>5. n \in good
  <2> HIDE DEF good
  <2>1. good \in SUBSET (0..n)
    BY DEF good
  <2> QED BY <1>1, <1>3, <1>4, <2>1, UpTo
<1>6. iter = Body(iter, n)
  BY <1>5 DEF iter
<1> DEFINE P == [k \in 0..n |-> iter[1..k]]
<1>7. ASSUME NEW k \in 0..n
      PROVE  P[k] = IF k = 0 THEN base ELSE StepOf(what, P[k - 1], seq[k])
  <2>1. 1..k \in SUBSET (1..n)
    BY <1>1
  <2>2. iter[1..k] = IF 1..k = {} THEN base
                     ELSE StepOf(what, iter[(1..k) \ {Max(1..k)}], seq[Max(1..k)])
    BY <1>6, <2>1
  <2>3. CASE k = 0
    <3>1. P[k] = iter[1..k]
      OBVIOUS
    <3>2. 1..k = {}
      BY <1>1, <2>3
    <3> QED BY <2>2, <2>3, <3>1, <3>2
  <2>4. CASE k # 0
    <3>1. k \in 1..k /\ 1..k \in SUBSET Int /\ \A y \in 1..k : y <= k
      BY <1>1, <2>4
    <3>2. Max(1..k) = k
      BY <3>1, MaxIs
    <3>3. (1..k) \ {k} = 1..(k - 1)
      BY <1>1
    <3>4. P[k] = iter[1..k] /\ k - 1 \in 0..n /\ P[k - 1] = iter[1..(k - 1)]
      BY <1>1, <2>4
    <3> QED BY <2>2, <2>4, <3>1, <3>2, <3>3, <3>4
  <2> QED BY <2>3, <2>4
<1>8. P[0] = base /\ \A k \in 1..n : P[k] = StepOf(what, P[k - 1], seq[k])
  <2> HIDE DEF P
  <2>1. 0 \in 0..n /\ \A k \in 1..n : k \in 0..n /\ k # 0
    BY <1>1
  <2> QED BY <1>7, <2>1
<1>9. P[n] = iter[1..n]
  BY <1>1
<1> HIDE DEF P
<1> QED BY <1>2, <1>8, <1>9 DEF n

LEMMA FoldsNothing == ASSUME NEW what, NEW base PROVE FoldOf(what, base, <<>>) = base
<1> DEFINE none == <<>>
           S == {}
<1>0. Len(none) = 0
  OBVIOUS
<1>1. none \in Seq(S)
  OBVIOUS
<1> HIDE DEF none, S
<1>2. \E P : /\ P[0] = base
             /\ \A k \in 1..Len(none) : P[k] = StepOf(what, P[k - 1], none[k])
             /\ FoldOf(what, base, none) = P[Len(none)]
  BY <1>1, FoldsStepwise
<1> QED BY <1>0, <1>2 DEF none

LEMMA FoldsOneMore ==
  ASSUME NEW what, NEW base, NEW S, NEW seq \in Seq(S), NEW x \in S
  PROVE  FoldOf(what, base, Append(seq, x)) = StepOf(what, FoldOf(what, base, seq), x)
<1> DEFINE n == Len(seq)
           more == Append(seq, x)
<1>1. /\ n \in Nat /\ more \in Seq(S) /\ Len(more) = n + 1 /\ more[n + 1] = x
      /\ \A i \in 1..n : more[i] = seq[i]
  BY AppendProperties, LenProperties
<1>2. PICK P : /\ P[0] = base
               /\ \A k \in 1..n : P[k] = StepOf(what, P[k - 1], seq[k])
               /\ FoldOf(what, base, seq) = P[n]
  BY FoldsStepwise
<1>3. PICK Q : /\ Q[0] = base
               /\ \A k \in 1..(n + 1) : Q[k] = StepOf(what, Q[k - 1], more[k])
               /\ FoldOf(what, base, more) = Q[n + 1]
  <2> HIDE DEF more
  <2>1. \E Q : /\ Q[0] = base
               /\ \A k \in 1..Len(more) : Q[k] = StepOf(what, Q[k - 1], more[k])
               /\ FoldOf(what, base, more) = Q[Len(more)]
    BY <1>1, FoldsStepwise
  <2> QED BY <1>1, <2>1
<1> HIDE DEF n, more
<1> DEFINE same == {k \in 0..n : P[k] = Q[k]}
<1>4. 0 \in same
  BY <1>1, <1>2, <1>3
<1>5. ASSUME NEW k \in 0..(n - 1), k \in same PROVE k + 1 \in same
  <2>1. k + 1 \in 0..n /\ k + 1 \in 1..n /\ k + 1 \in 1..(n + 1) /\ k + 1 - 1 = k
    BY <1>1
  <2>2. P[k + 1] = StepOf(what, P[k], seq[k + 1])
    BY <1>2, <2>1
  <2>3. Q[k + 1] = StepOf(what, Q[k], more[k + 1])
    BY <1>3, <2>1
  <2> QED BY <1>1, <1>5, <2>1, <2>2, <2>3
<1>6. P[n] = Q[n]
  <2>1. same = 0..n
    <3> HIDE DEF same
    <3>1. same \in SUBSET (0..n)
      BY DEF same
    <3> QED BY <1>1, <1>4, <1>5, <3>1, UpTo
  <2> QED BY <1>1, <2>1
<1>7. Q[n + 1] = StepOf(what, Q[n], more[n + 1])
  <2>1. n + 1 \in 1..(n + 1) /\ n + 1 - 1 = n
    BY <1>1
  <2> QED BY <1>1, <1>3, <2>1
<1> QED BY <1>1, <1>2, <1>3, <1>6, <1>7 DEF more

\* The first so many sequences, one after the other
LEMMA FlattensStepwise ==
  ASSUME NEW S, NEW seqs \in Seq(Seq(S))
  PROVE  \E f : /\ f \in [0..Len(seqs) -> Seq(S)] /\ f[0] = <<>>
                /\ \A k \in 1..Len(seqs) : f[k] = f[k - 1] \o seqs[k]
                /\ FlattenSeq(seqs) = f[Len(seqs)]
<1> DEFINE n == Len(seqs)
           Body(g, k) == [i \in 1..k |-> IF i = 1 THEN seqs[i] ELSE g[i - 1] \o seqs[i]]
           good == {k \in 0..n : \E g : g = Body(g, k)}
           flat == CHOOSE g : g = Body(g, n)
<1>1. n \in Nat /\ \A i \in 1..n : seqs[i] \in Seq(S)
  BY LenProperties, ElementOfSeq
<1>2. FlattenSeq(seqs) = IF n = 0 THEN seqs ELSE flat[n]
  BY DEF FlattenSeq
<1> HIDE DEF n, flat
<1>3. 0 \in good
  <2> DEFINE g == [i \in 1..0 |-> <<>>]
  <2>1. \A i : i \notin 1..0
    OBVIOUS
  <2>2. g = Body(g, 0)
    BY <2>1
  <2>3. \E h : h = Body(h, 0)
    BY <2>2, Zenon
  <2>4. 0 \in 0..n
    BY <1>1
  <2> QED BY <2>3, <2>4
<1>4. ASSUME NEW k \in 0..(n - 1), k \in good PROVE k + 1 \in good
  <2>1. PICK g : g = Body(g, k)
    BY <1>4
  <2> DEFINE m == k + 1
             h == [i \in 1..m |->
                     IF i <= k THEN g[i] ELSE IF i = 1 THEN seqs[i] ELSE g[i - 1] \o seqs[i]]
  <2>2. ASSUME NEW i \in 1..m
        PROVE  h[i] = IF i = 1 THEN seqs[i] ELSE h[i - 1] \o seqs[i]
    <3>1. CASE i <= k
      <4>1. i \in 1..k /\ (i # 1 => i - 1 \in 1..m /\ i - 1 <= k)
        BY <1>1, <3>1
      <4>2. g[i] = IF i = 1 THEN seqs[i] ELSE g[i - 1] \o seqs[i]
        BY <2>1, <4>1
      <4> QED BY <3>1, <4>1, <4>2
    <3>2. CASE ~ (i <= k)
      <4>1. i # 1 => i - 1 \in 1..m /\ i - 1 <= k
        BY <1>1
      <4> QED BY <3>2, <4>1
    <3> QED BY <3>1, <3>2
  <2>3. h = Body(h, m)
    <3>1. h = [i \in 1..m |-> h[i]]
      OBVIOUS
    <3> HIDE DEF h, m
    <3> QED BY <2>2, <3>1
  <2>4. m \in 0..n
    BY <1>1
  <2> QED BY <2>3, <2>4
<1>5. n \in good
  <2> HIDE DEF good
  <2>1. good \in SUBSET (0..n)
    BY DEF good
  <2>2. good = 0..n
    BY <1>1, <1>3, <1>4, <2>1, UpTo, ZenonT(60)
  <2>3. n \in 0..n
    BY <1>1
  <2> QED BY <2>2, <2>3
<1>6. flat = Body(flat, n)
  BY <1>5 DEF flat
<1> DEFINE f == [k \in 0..n |-> IF k = 0 THEN <<>> ELSE flat[k]]
<1>7. ASSUME NEW k \in 1..n PROVE f[k] = f[k - 1] \o seqs[k]
  <2>1. flat[k] = IF k = 1 THEN seqs[k] ELSE flat[k - 1] \o seqs[k]
    BY <1>6
  <2>2. k \in 0..n /\ k # 0 /\ k - 1 \in 0..n /\ (k - 1 = 0 <=> k = 1)
    BY <1>1
  <2>3. <<>> \o seqs[k] = seqs[k]
    BY <1>1, ConcatEmptySeq
  <2> QED BY <2>1, <2>2, <2>3
<1>8. f[0] = <<>> /\ FlattenSeq(seqs) = f[n]
  <2>1. n = 0 => seqs = <<>>
    BY EmptySeq DEF n
  <2> QED BY <1>1, <1>2, <2>1
<1>9. f \in [0..n -> Seq(S)]
  <2> DEFINE typed == {k \in 0..n : f[k] \in Seq(S)}
  <2>0. f = [k \in 0..n |-> f[k]]
    OBVIOUS
  <2> HIDE DEF f
  <2>1. <<>> \in Seq(S)
    OBVIOUS
  <2>2. 0 \in typed
    <3>1. 0 \in 0..n
      BY <1>1
    <3>2. f[0] \in Seq(S)
      BY <1>8, <2>1, Zenon
    <3> QED BY <3>1, <3>2
  <2>3. ASSUME NEW k \in 0..(n - 1), k \in typed PROVE k + 1 \in typed
    <3>1. k + 1 \in 1..n /\ k + 1 - 1 = k
      BY <1>1
    <3>2. f[k + 1] = f[k] \o seqs[k + 1]
      <4>1. PICK j \in 1..n : j = k + 1
        BY <3>1
      <4>2. f[j] = f[j - 1] \o seqs[j]
        BY <1>7, Zenon
      <4>3. j - 1 = k
        BY <4>1
      <4> QED BY <4>1, <4>2, <4>3, Zenon
    <3>3. f[k] \in Seq(S) /\ seqs[k + 1] \in Seq(S)
      BY <1>1, <2>3, <3>1
    <3>4. f[k] \o seqs[k + 1] \in Seq(S)
      BY <3>3, ConcatProperties
    <3>5. f[k + 1] \in Seq(S)
      BY <3>2, <3>4, Zenon
    <3>6. k + 1 \in 0..n
      BY <1>1
    <3> QED BY <3>5, <3>6
  <2>4. typed = 0..n
    <3> HIDE DEF typed
    <3>1. typed \in SUBSET (0..n)
      BY DEF typed
    <3> QED BY <1>1, <2>2, <2>3, <3>1, UpTo
  <2> QED BY <2>0, <2>4
<1> HIDE DEF f
<1> QED BY <1>7, <1>8, <1>9 DEF n

\* What a summary is made of
Covs == Nat \cup {NoCov}
Summaries ==
  [packages : Seq(Covs), passed : Nat, failed : Nat, skipped : Nat, totalCov : Int,
   covCount : Nat]
Told(shown) == {i \in DOMAIN shown : shown[i] # NoCov}

\* The counts of a summary are those of the coverages it shows
AddsUp(r) ==
  /\ r.covCount = Cardinality(Told(r.packages))
  /\ r.totalCov = FoldOf("coverages", 0, r.packages)

LEMMA CovsAreInts == Covs \subseteq Int /\ NoCov \in Covs /\ NoCov = -1
BY DEF Covs, NoCov

LEMMA ToldIsFinite ==
  ASSUME NEW shown \in Seq(Covs)
  PROVE  /\ Told(shown) = {i \in 1..Len(shown) : shown[i] # NoCov}
         /\ IsFiniteSet(Told(shown)) /\ Cardinality(Told(shown)) \in Nat
<1>1. Told(shown) \in SUBSET (1..Len(shown)) /\ Len(shown) \in Nat
  BY LenProperties DEF Told
<1>2. IsFiniteSet(1..Len(shown))
  BY <1>1, FS_Interval
<1>3. IsFiniteSet(Told(shown))
  BY <1>1, <1>2, FS_Subset
<1>4. Cardinality(Told(shown)) \in Nat
  BY <1>3, FS_CardinalityType
<1>5. Told(shown) = {i \in 1..Len(shown) : shown[i] # NoCov}
  BY LenProperties DEF Told
<1> QED BY <1>3, <1>4, <1>5

\* Another package
LEMMA ToldOneMore ==
  ASSUME NEW shown \in Seq(Covs), NEW c \in Covs
  PROVE  Cardinality(Told(Append(shown, c)))
           = Cardinality(Told(shown)) + (IF c = NoCov THEN 0 ELSE 1)
<1> DEFINE n == Len(shown)
           more == Append(shown, c)
<1>1. /\ n \in Nat /\ more \in Seq(Covs) /\ Len(more) = n + 1 /\ more[n + 1] = c
      /\ \A i \in 1..n : more[i] = shown[i]
  BY AppendProperties, LenProperties
<1>2. /\ Told(shown) = {i \in 1..n : shown[i] # NoCov} /\ IsFiniteSet(Told(shown))
      /\ Cardinality(Told(shown)) \in Nat
  BY ToldIsFinite
<1>3. Told(more) = {i \in 1..(n + 1) : more[i] # NoCov}
  <2> HIDE DEF more
  <2>1. Told(more) = {i \in 1..Len(more) : more[i] # NoCov}
    BY <1>1, ToldIsFinite
  <2> QED BY <1>1, <2>1
<1> HIDE DEF n, more
<1>4. CASE c = NoCov
  <2>1. Told(more) = Told(shown)
    BY <1>1, <1>2, <1>3, <1>4
  <2> QED BY <1>2, <1>4, <2>1 DEF more
<1>5. CASE c # NoCov
  <2>1. Told(more) = Told(shown) \cup {n + 1} /\ n + 1 \notin Told(shown)
    BY <1>1, <1>2, <1>3, <1>5
  <2>2. Cardinality(Told(shown) \cup {n + 1}) = Cardinality(Told(shown)) + 1
    BY <1>2, <2>1, FS_AddElement
  <2> QED BY <1>5, <2>1, <2>2 DEF more
<1> QED BY <1>4, <1>5

\* A package that gets the coverage it had not
LEMMA ToldInPlace ==
  ASSUME NEW shown \in Seq(Covs), NEW i \in 1..Len(shown), shown[i] = NoCov, NEW c \in Nat
  PROVE  Cardinality(Told([shown EXCEPT ![i] = c])) = Cardinality(Told(shown)) + 1
<1> DEFINE n == Len(shown)
           new == [shown EXCEPT ![i] = c]
<1>0. c \in Covs /\ c # NoCov
  BY DEF Covs, NoCov
<1>1. /\ new \in Seq(Covs) /\ Len(new) = n
      /\ \A j \in 1..n : new[j] = IF j = i THEN c ELSE shown[j]
  BY <1>0, ExceptSeq
<1>2. /\ Told(shown) = {j \in 1..n : shown[j] # NoCov} /\ IsFiniteSet(Told(shown))
      /\ Cardinality(Told(shown)) \in Nat
  BY ToldIsFinite
<1>3. Told(new) = {j \in 1..n : new[j] # NoCov}
  <2> HIDE DEF new
  <2>1. Told(new) = {j \in 1..Len(new) : new[j] # NoCov}
    BY <1>1, ToldIsFinite
  <2> QED BY <1>1, <2>1
<1>4. i \in 1..n
  OBVIOUS
<1> HIDE DEF n, new
<1>5. Told(new) = Told(shown) \cup {i} /\ i \notin Told(shown)
  BY <1>0, <1>1, <1>2, <1>3, <1>4
<1>6. Cardinality(Told(shown) \cup {i}) = Cardinality(Told(shown)) + 1
  BY <1>2, <1>5, FS_AddElement
<1> QED BY <1>5, <1>6 DEF new

LEMMA TotalOneMore ==
  ASSUME NEW shown \in Seq(Covs), NEW c \in Covs
  PROVE  FoldOf("coverages", 0, Append(shown, c))
           = IF c = NoCov THEN FoldOf("coverages", 0, shown)
             ELSE FoldOf("coverages", 0, shown) + c
<1>1. FoldOf("coverages", 0, Append(shown, c))
        = StepOf("coverages", FoldOf("coverages", 0, shown), c)
  BY FoldsOneMore
<1> QED BY <1>1 DEF StepOf, AddCov

LEMMA TotalsStepwise ==
  ASSUME NEW shown \in Seq(Covs)
  PROVE  \E P : /\ P[0] = 0
                /\ \A k \in 1..Len(shown) : P[k] = StepOf("coverages", P[k - 1], shown[k])
                /\ FoldOf("coverages", 0, shown) = P[Len(shown)]
<1> DEFINE what == "coverages"
           zero == 0
<1> HIDE DEF what, zero
<1>1. \E P : /\ P[0] = zero
             /\ \A k \in 1..Len(shown) : P[k] = StepOf(what, P[k - 1], shown[k])
             /\ FoldOf(what, zero, shown) = P[Len(shown)]
  BY FoldsStepwise
<1> QED BY <1>1, Zenon DEF what, zero

LEMMA TotalInPlace ==
  ASSUME NEW shown \in Seq(Covs), NEW i \in 1..Len(shown), shown[i] = NoCov, NEW c \in Nat
  PROVE  /\ FoldOf("coverages", 0, shown) \in Int
         /\ FoldOf("coverages", 0, [shown EXCEPT ![i] = c])
              = FoldOf("coverages", 0, shown) + c
<1> DEFINE n == Len(shown)
           new == [shown EXCEPT ![i] = c]
<1>0. c \in Covs /\ c # NoCov /\ n \in Nat /\ i \in 1..n
  BY LenProperties DEF Covs, NoCov
<1>1. /\ new \in Seq(Covs) /\ Len(new) = n
      /\ \A j \in 1..n : new[j] = IF j = i THEN c ELSE shown[j]
  BY <1>0, ExceptSeq
<1>2. PICK P : /\ P[0] = 0
               /\ \A k \in 1..n : P[k] = StepOf("coverages", P[k - 1], shown[k])
               /\ FoldOf("coverages", 0, shown) = P[n]
  BY TotalsStepwise
<1>3. PICK Q : /\ Q[0] = 0
               /\ \A k \in 1..n : Q[k] = StepOf("coverages", Q[k - 1], new[k])
               /\ FoldOf("coverages", 0, new) = Q[n]
  <2> HIDE DEF new
  <2>1. \E Q : /\ Q[0] = 0
               /\ \A k \in 1..Len(new) : Q[k] = StepOf("coverages", Q[k - 1], new[k])
               /\ FoldOf("coverages", 0, new) = Q[Len(new)]
    BY <1>1, TotalsStepwise
  <2> QED BY <1>1, <2>1
<1>4. \A k \in 1..n : shown[k] \in Covs
  BY <1>0, ElementOfSeq
<1> HIDE DEF n, new
<1> DEFINE S == {k \in 0..n : P[k] \in Int /\ Q[k] = IF k < i THEN P[k] ELSE P[k] + c}
<1>5. 0 \in S
  BY <1>0, <1>2, <1>3
<1>6. ASSUME NEW k \in 0..(n - 1), k \in S PROVE k + 1 \in S
  <2>1. PICK j \in 1..n : j = k + 1
    BY <1>0
  <2>2. P[j] = StepOf("coverages", P[j - 1], shown[j])
    BY <1>2
  <2>3. Q[j] = StepOf("coverages", Q[j - 1], new[j])
    BY <1>3
  <2>4. j - 1 = k /\ j \in 0..n
    BY <2>1
  <2>5. P[j] = IF shown[j] = NoCov THEN P[k] ELSE P[k] + shown[j]
    BY <2>2, <2>4 DEF StepOf, AddCov
  <2>6. Q[j] = IF new[j] = NoCov THEN Q[k] ELSE Q[k] + new[j]
    BY <2>3, <2>4 DEF StepOf, AddCov
  <2>7. shown[j] \in Int
    BY <1>4, CovsAreInts
  <2>8. P[k] \in Int /\ Q[k] = IF k < i THEN P[k] ELSE P[k] + c
    BY <1>6
  <2>9. P[j] \in Int
    BY <2>5, <2>7, <2>8
  <2>10. CASE j = i
    BY <1>0, <1>1, <2>1, <2>5, <2>6, <2>8, <2>10
  <2>11. CASE j # i
    <3>1. new[j] = shown[j]
      BY <1>1, <2>11
    <3>2. k < i <=> j < i
      BY <1>0, <2>1, <2>11
    <3> QED BY <1>0, <2>1, <2>4, <2>5, <2>6, <2>7, <2>8, <2>9, <3>1, <3>2
  <2> QED BY <2>10, <2>11
<1>7. n \in S
  <2> HIDE DEF S
  <2>1. S \in SUBSET (0..n)
    BY DEF S
  <2>2. S = 0..n
    BY <1>0, <1>5, <1>6, <2>1, UpTo
  <2> QED BY <1>0, <2>2
<1>8. P[n] \in Int /\ Q[n] = P[n] + c
  BY <1>0, <1>7
<1> QED BY <1>2, <1>3, <1>8 DEF new

LEMMA SummaryParts ==
  ASSUME NEW r \in Summaries
  PROVE  /\ r.packages \in Seq(Covs) /\ r.passed \in Nat /\ r.failed \in Nat
         /\ r.skipped \in Nat /\ r.totalCov \in Int /\ r.covCount \in Nat
BY DEF Summaries

LEMMA SummaryOf ==
  ASSUME NEW packages \in Seq(Covs), NEW passed \in Nat, NEW failed \in Nat,
         NEW skipped \in Nat, NEW totalCov \in Int, NEW covCount \in Nat
  PROVE  [packages |-> packages, passed |-> passed, failed |-> failed, skipped |-> skipped,
          totalCov |-> totalCov, covCount |-> covCount] \in Summaries
BY DEF Summaries

LEMMA NothingRead == Empty \in Summaries /\ AddsUp(Empty)
<1>1. <<>> \in Seq(Covs)
  OBVIOUS
<1>2. Empty \in Summaries
  BY <1>1 DEF Empty, Summaries
<1>3. Told(<<>>) = {}
  BY DEF Told
<1>4. Cardinality({}) = 0
  BY FS_EmptySet
<1>5. FoldOf("coverages", 0, <<>>) = 0
  BY FoldsNothing
<1>6. Empty.packages = <<>> /\ Empty.covCount = 0 /\ Empty.totalCov = 0
  BY DEF Empty
<1> QED BY <1>2, <1>3, <1>4, <1>5, <1>6, Zenon DEF AddsUp

\* What the lines do to a summary
LEMMA OkLine ==
  ASSUME NEW r \in Summaries, AddsUp(r), NEW c \in Covs
  PROVE  LET q == ParseLine(r, Line("ok", c)) IN
         /\ q \in Summaries /\ AddsUp(q)
         /\ q.packages = Append(r.packages, c) /\ q.passed = r.passed + 1
         /\ q.failed = r.failed
<1> DEFINE q == ParseLine(r, Line("ok", c))
           d == Counted(r, c)
<1>1. /\ Line("ok", c).kind = "ok" /\ Line("ok", c).cov = c
  BY DEF Line
<1>2. q = [d EXCEPT !.packages = Append(@, c), !.passed = @ + 1]
  BY <1>1 DEF ParseLine
<1>3. /\ d.packages = r.packages /\ d.passed = r.passed /\ d.failed = r.failed
      /\ d.skipped = r.skipped
      /\ d.totalCov = IF c = NoCov THEN r.totalCov ELSE r.totalCov + c
      /\ d.covCount = IF c = NoCov THEN r.covCount ELSE r.covCount + 1
      /\ d \in Summaries
  <2>1. c \in Int
    BY CovsAreInts
  <2>2. CASE c = NoCov
    BY <2>2 DEF Counted
  <2>3. CASE c # NoCov
    <3>1. d = [r EXCEPT !.totalCov = @ + c, !.covCount = @ + 1]
      BY <2>3 DEF Counted
    <3>2. r.totalCov + c \in Int /\ r.covCount + 1 \in Nat
      BY <2>1, SummaryParts
    <3> HIDE DEF d
    <3> QED BY <2>3, <3>1, <3>2 DEF Summaries
  <2> QED BY <2>2, <2>3
<1> HIDE DEF d
<1>4. /\ q.packages = Append(r.packages, c) /\ q.passed = r.passed + 1
      /\ q.failed = r.failed /\ q.skipped = r.skipped
      /\ q.totalCov = d.totalCov /\ q.covCount = d.covCount
  BY <1>2, <1>3 DEF Summaries
<1>5. Append(r.packages, c) \in Seq(Covs)
  BY SummaryParts, AppendProperties
<1>6. q \in Summaries
  <2>1. r.passed + 1 \in Nat
    BY SummaryParts
  <2> QED BY <1>2, <1>3, <1>5, <2>1 DEF Summaries
<1> HIDE DEF q
<1>7. Cardinality(Told(Append(r.packages, c)))
        = Cardinality(Told(r.packages)) + (IF c = NoCov THEN 0 ELSE 1)
  BY SummaryParts, ToldOneMore
<1>8. FoldOf("coverages", 0, Append(r.packages, c))
        = IF c = NoCov THEN FoldOf("coverages", 0, r.packages)
          ELSE FoldOf("coverages", 0, r.packages) + c
  BY SummaryParts, TotalOneMore
<1>9. AddsUp(q)
  <2>1. r.covCount = Cardinality(Told(r.packages)) /\ r.covCount \in Nat
        /\ r.totalCov = FoldOf("coverages", 0, r.packages)
    BY SummaryParts DEF AddsUp
  <2> QED BY <1>3, <1>4, <1>7, <1>8, <2>1 DEF AddsUp
<1> QED BY <1>4, <1>6, <1>9 DEF q

LEMMA OtherLines ==
  ASSUME NEW r \in Summaries, AddsUp(r), NEW c \in Covs, NEW name \in {"FAIL", "?"}
  PROVE  LET q == ParseLine(r, Line(name, c)) IN
         /\ q \in Summaries /\ AddsUp(q) /\ q.packages = r.packages /\ q.passed = r.passed
         /\ q.failed = IF name = "FAIL" THEN r.failed + 1 ELSE r.failed
<1> DEFINE q == ParseLine(r, Line(name, c))
<1>1. Line(name, c).kind = name
  BY DEF Line
<1>2. CASE name = "FAIL"
  <2>1. q = [r EXCEPT !.failed = @ + 1]
    BY <1>1, <1>2 DEF ParseLine
  <2>2. /\ q.packages = r.packages /\ q.passed = r.passed /\ q.failed = r.failed + 1
        /\ q.totalCov = r.totalCov /\ q.covCount = r.covCount
    BY <2>1 DEF Summaries
  <2>3. r.failed + 1 \in Nat
    BY SummaryParts
  <2>4. q \in Summaries
    BY <2>1, <2>3 DEF Summaries
  <2> QED BY <1>2, <2>2, <2>4 DEF AddsUp
<1>3. CASE name = "?"
  <2>1. q = [r EXCEPT !.skipped = @ + 1]
    BY <1>1, <1>3 DEF ParseLine
  <2>2. /\ q.packages = r.packages /\ q.passed = r.passed /\ q.failed = r.failed
        /\ q.totalCov = r.totalCov /\ q.covCount = r.covCount
    BY <2>1 DEF Summaries
  <2>3. r.skipped + 1 \in Nat
    BY SummaryParts
  <2>4. q \in Summaries
    BY <2>1, <2>3 DEF Summaries
  <2> QED BY <1>3, <2>2, <2>4 DEF AddsUp
<1> QED BY <1>2, <1>3

LEMMA LargestIsOne ==
  ASSUME NEW n \in Nat, NEW I \in SUBSET (1..n), I # {}
  PROVE  Max(I) \in I
<1> DEFINE T == {k \in 0..n : n - k \in I}
<1>1. T # {}
  <2>1. PICK i \in I : TRUE
    OBVIOUS
  <2>2. n - i \in 0..n /\ n - (n - i) = i
    OBVIOUS
  <2> QED BY <2>1, <2>2
<1>2. PICK k \in T : \A l \in T : k <= l
  <2> HIDE DEF T
  <2>1. T \in SUBSET Nat
    BY DEF T
  <2> QED BY <1>1, <2>1, Least
<1>3. ASSUME NEW i \in I PROVE i <= n - k
  <2>1. n - i \in 0..n /\ n - (n - i) = i
    OBVIOUS
  <2>2. n - i \in T
    BY <2>1
  <2> QED BY <1>2, <2>2
<1>4. n - k \in I /\ I \in SUBSET Int
  BY <1>2
<1>5. Max(I) = n - k
  BY <1>3, <1>4, MaxIs
<1> QED BY <1>4, <1>5

\* A coverage line keeps every package's coverage but that of one that has none.
LEMMA CoverageLine ==
  ASSUME NEW r \in Summaries, AddsUp(r), NEW c \in Covs
  PROVE  LET q == ParseLine(r, Line("coverage", c)) IN
         /\ q \in Summaries /\ AddsUp(q) /\ q.passed = r.passed /\ q.failed = r.failed
         /\ Len(q.packages) = Len(r.packages)
         /\ \A i \in 1..Len(r.packages) :
              r.packages[i] # NoCov => q.packages[i] = r.packages[i]
         /\ c <= 0 => q = r
<1> DEFINE q == ParseLine(r, Line("coverage", c))
           n == Len(r.packages)
           I == {i \in 1..n : r.packages[i] = NoCov}
           last == IF I # {} THEN Max(I) ELSE 0
           d == [r EXCEPT !.packages = [r.packages EXCEPT ![last] = c]]
<1>1. Line("coverage", c).kind = "coverage" /\ Line("coverage", c).cov = c
  BY DEF Line
<1>2. q = BackFill(r, c)
  BY <1>1 DEF ParseLine
<1>3. BackFill(r, c) = IF c <= 0 \/ last = 0 THEN r ELSE Counted(d, c)
  BY DEF BackFill, SelectLastInSeq
<1>4. r.packages \in Seq(Covs) /\ n \in Nat
  BY SummaryParts, LenProperties
<1> HIDE DEF q
<1>5. CASE c <= 0 \/ last = 0
  <2>1. q = r
    BY <1>2, <1>3, <1>5
  <2> QED BY <2>1 DEF q
<1>6. CASE ~ (c <= 0) /\ last # 0
  <2>1. I # {} /\ last = Max(I)
    BY <1>6
  <2>2. last \in I
    <3>1. I \in SUBSET (1..n)
      OBVIOUS
    <3> HIDE DEF I, n
    <3> QED BY <1>4, <2>1, <3>1, LargestIsOne
  <2>3. last \in 1..n /\ r.packages[last] = NoCov
    BY <2>2
  <2>4. c \in Nat /\ c # NoCov
    BY <1>6, CovsAreInts DEF Covs
  <2> HIDE DEF last, I
  <2> DEFINE new == [r.packages EXCEPT ![last] = c]
  <2>5. /\ new \in Seq(Covs) /\ Len(new) = n
        /\ \A i \in 1..n : new[i] = IF i = last THEN c ELSE r.packages[i]
    BY <1>4, <2>3, ExceptSeq
  <2>6. /\ Cardinality(Told(new)) = Cardinality(Told(r.packages)) + 1
        /\ FoldOf("coverages", 0, new) = FoldOf("coverages", 0, r.packages) + c
    BY <1>4, <2>3, <2>4, ToldInPlace, TotalInPlace
  <2> HIDE DEF new, n
  <2>7. d = [r EXCEPT !.packages = new]
    BY DEF new
  <2>8. /\ d \in Summaries /\ d.packages = new /\ d.passed = r.passed /\ d.failed = r.failed
        /\ d.totalCov = r.totalCov /\ d.covCount = r.covCount
    BY <2>5, <2>7 DEF Summaries
  <2> HIDE DEF d
  <2>9. q = [d EXCEPT !.totalCov = @ + c, !.covCount = @ + 1]
    BY <1>2, <1>3, <1>6, <2>4 DEF Counted
  <2>10. /\ q.packages = new /\ q.passed = r.passed /\ q.failed = r.failed
         /\ q.totalCov = r.totalCov + c /\ q.covCount = r.covCount + 1
    BY <2>8, <2>9 DEF Summaries
  <2>11. q \in Summaries
    <3>1. d.totalCov + c \in Int /\ d.covCount + 1 \in Nat
      BY <2>4, <2>8, SummaryParts
    <3> QED BY <2>8, <2>9, <3>1 DEF Summaries
  <2>12. AddsUp(q)
    BY <2>6, <2>10 DEF AddsUp
  <2>13. ASSUME NEW i \in 1..n, r.packages[i] # NoCov PROVE q.packages[i] = r.packages[i]
    <3>1. i # last
      BY <2>3, <2>13
    <3> QED BY <2>5, <2>10, <3>1
  <2> QED BY <1>6, <2>5, <2>10, <2>11, <2>12, <2>13 DEF n, q
<1> QED BY <1>5, <1>6 DEF q

\* What the lines of the first n packages say of them
Account(n, verbose, r) ==
  /\ r \in Summaries /\ AddsUp(r)
  /\ r.passed = Cardinality(With("ok", n)) /\ r.failed = Cardinality(With("FAIL", n))
  /\ Len(r.packages) = r.passed
  /\ \A i \in With("ok", n) :
       LET place == Cardinality(With("ok", i)) IN
       /\ input[i].cov # NoCov => r.packages[place] = input[i].cov
       /\ ~verbose /\ r.failed = 0 => r.packages[place] = input[i].cov

LEMMA CountsAre ==
  ASSUME input \in Seq(Packages), NEW result, NEW n \in 0..Len(input)
  PROVE  IsFiniteSet(With(result, n)) /\ Cardinality(With(result, n)) \in Nat
<1>1. With(result, n) \in SUBSET (1..n) /\ n \in Int
  BY LenProperties DEF With
<1>2. IsFiniteSet(1..n)
  BY <1>1, FS_Interval
<1>3. IsFiniteSet(With(result, n))
  BY <1>1, <1>2, FS_Subset
<1> QED BY <1>3, FS_CardinalityType

LEMMA CountOneMore ==
  ASSUME input \in Seq(Packages), NEW result, NEW k \in 0..(Len(input) - 1)
  PROVE  /\ With(result, k + 1) = IF input[k + 1].result = result
                                  THEN With(result, k) \cup {k + 1} ELSE With(result, k)
         /\ Cardinality(With(result, k + 1))
              = Cardinality(With(result, k)) + (IF input[k + 1].result = result THEN 1 ELSE 0)
<1>0. k \in 0..Len(input) /\ k + 1 \in 1..Len(input) /\ k \in Nat
  BY LenProperties
<1>1. IsFiniteSet(With(result, k)) /\ Cardinality(With(result, k)) \in Nat
  BY <1>0, CountsAre
<1>2. k + 1 \notin With(result, k)
  BY <1>0 DEF With
<1>3. With(result, k + 1) = IF input[k + 1].result = result
                            THEN With(result, k) \cup {k + 1} ELSE With(result, k)
  BY <1>0 DEF With
<1>4. Cardinality(With(result, k) \cup {k + 1}) = Cardinality(With(result, k)) + 1
  BY <1>1, <1>2, FS_AddElement
<1> QED BY <1>1, <1>3, <1>4

\* Packages that passed have places of their own, up to the number of them
LEMMA PlacesAre ==
  ASSUME input \in Seq(Packages), NEW n \in 0..Len(input), NEW i \in With("ok", n)
  PROVE  Cardinality(With("ok", i)) \in 1..Cardinality(With("ok", n))
<1>1. i \in 1..n /\ i \in 0..Len(input) /\ i \in With("ok", i)
  BY LenProperties DEF With
<1>2. With("ok", i) \in SUBSET With("ok", n)
  BY <1>1, LenProperties DEF With
<1>3. /\ IsFiniteSet(With("ok", i)) /\ Cardinality(With("ok", i)) \in Nat
      /\ IsFiniteSet(With("ok", n)) /\ Cardinality(With("ok", n)) \in Nat
  BY <1>1, CountsAre
<1>4. Cardinality(With("ok", i)) <= Cardinality(With("ok", n))
  BY <1>2, <1>3, FS_Subset
<1>5. Cardinality(With("ok", i)) # 0
  BY <1>1, <1>3, FS_EmptySet
<1> QED BY <1>3, <1>4, <1>5

\* A line, or two, after others
LineKinds == {"ok", "FAIL", "?", "coverage"}
Lines == [kind : LineKinds, cov : Covs]

LEMMA ParsesOneMore ==
  ASSUME NEW s \in Seq(Lines), NEW a \in Lines
  PROVE  /\ s \o <<a>> \in Seq(Lines)
         /\ ParseTestOutput(s \o <<a>>) = ParseLine(ParseTestOutput(s), a)
<1>1. s \o <<a>> = Append(s, a)
  BY AppendIsConcat
<1>2. Append(s, a) \in Seq(Lines)
  BY AppendProperties
<1>3. FoldOf("lines", Empty, Append(s, a)) = StepOf("lines", FoldOf("lines", Empty, s), a)
  BY FoldsOneMore
<1>4. \A acc : StepOf("lines", acc, a) = ParseLine(acc, a)
  BY DEF StepOf
<1>5. /\ ParseTestOutput(Append(s, a)) = FoldOf("lines", Empty, Append(s, a))
      /\ ParseTestOutput(s) = FoldOf("lines", Empty, s)
  BY LinesFold, Zenon
<1> QED BY <1>1, <1>2, <1>3, <1>4, <1>5, Zenon

LEMMA LineIs ==
  ASSUME NEW name \in LineKinds, NEW c \in Covs PROVE Line(name, c) \in Lines
BY DEF Line, Lines

\* What a package prints: perhaps its coverage, and then its result
LEMMA PrintedIs ==
  ASSUME NEW p \in Packages, NEW verbose \in BOOLEAN
  PROVE  /\ p.cov \in Covs /\ p.result \in {"ok", "FAIL", "no test files"}
         /\ p.result = "ok"
            => \/ Printed(p, verbose) = <<Line("ok", p.cov)>>
               \/ /\ verbose
                  /\ Printed(p, verbose) = <<Line("coverage", p.cov)>> \o <<Line("ok", p.cov)>>
         /\ p.result = "FAIL"
            => \/ Printed(p, verbose) = <<Line("FAIL", NoCov)>>
               \/ Printed(p, verbose)
                    = <<Line("coverage", p.cov)>> \o <<Line("FAIL", NoCov)>>
         /\ p.result = "no test files"
            => Printed(p, verbose) \in {<<Line("?", NoCov)>>, <<Line("coverage", 0)>>}
<1>1. p \in [result : {"ok", "FAIL", "no test files"}, cov : Nat \cup {NoCov}]
  BY PackagesAssumption
<1>2. p.cov \in Covs /\ p.result \in {"ok", "FAIL", "no test files"}
  BY <1>1 DEF Covs
<1> DEFINE own == IF p.cov = NoCov THEN <<>> ELSE <<Line("coverage", p.cov)>>
<1>3. \A x \in Lines : <<>> \o <<x>> = <<x>>
  OBVIOUS
<1>4. Line("ok", p.cov) \in Lines /\ Line("FAIL", NoCov) \in Lines
  <2>1. "ok" \in LineKinds /\ "FAIL" \in LineKinds
    BY DEF LineKinds
  <2>2. NoCov \in Covs
    BY CovsAreInts
  <2> QED BY <1>2, <2>1, <2>2, LineIs, Zenon
<1>5. own = <<>> \/ own = <<Line("coverage", p.cov)>>
  OBVIOUS
<1>6. CASE p.result = "ok"
  <2>1. Printed(p, verbose) = (IF verbose THEN own ELSE <<>>) \o <<Line("ok", p.cov)>>
    BY <1>6 DEF Printed
  <2> HIDE DEF own
  <2> QED BY <1>2, <1>3, <1>4, <1>5, <1>6, <2>1
<1>7. CASE p.result = "FAIL"
  <2>1. Printed(p, verbose) = own \o <<Line("FAIL", NoCov)>>
    BY <1>7 DEF Printed
  <2> HIDE DEF own
  <2> QED BY <1>2, <1>3, <1>4, <1>5, <1>7, <2>1
<1>8. CASE p.result = "no test files"
  BY <1>2, <1>8 DEF Printed
<1> QED BY <1>2, <1>6, <1>7, <1>8

LEMMA NoAccount ==
  ASSUME input \in Seq(Packages), NEW verbose \in BOOLEAN
  PROVE  Account(0, verbose, ParseTestOutput(<<>>))
<1>1. ParseTestOutput(<<>>) = Empty
  BY LinesFold, FoldsNothing
<1>2. \A result : With(result, 0) = {}
  BY DEF With
<1>3. Empty.passed = 0 /\ Empty.failed = 0 /\ Empty.packages = <<>> /\ Len(<<>>) = 0
  BY DEF Empty
<1>4. Cardinality({}) = 0
  BY FS_EmptySet
<1> QED BY <1>1, <1>2, <1>3, <1>4, NothingRead DEF Account

\* The coverage of its own that a package may print changes no account.
LEMMA OwnLineKeeps ==
  ASSUME input \in Seq(Packages), NEW n \in 0..Len(input), NEW r,
         Account(n, TRUE, r), NEW c \in Covs
  PROVE  Account(n, TRUE, ParseLine(r, Line("coverage", c)))
<1> DEFINE q == ParseLine(r, Line("coverage", c))
<1>1. r \in Summaries /\ AddsUp(r)
  BY DEF Account
<1>2. /\ q \in Summaries /\ AddsUp(q) /\ q.passed = r.passed /\ q.failed = r.failed
      /\ Len(q.packages) = Len(r.packages)
      /\ \A i \in 1..Len(r.packages) :
           r.packages[i] # NoCov => q.packages[i] = r.packages[i]
  BY <1>1, CoverageLine
<1> HIDE DEF q
<1>3. ASSUME NEW i \in With("ok", n), input[i].cov # NoCov
      PROVE  q.packages[Cardinality(With("ok", i))] = input[i].cov
  <2>1. Cardinality(With("ok", i)) \in 1..Len(r.packages)
    BY PlacesAre DEF Account
  <2>2. r.packages[Cardinality(With("ok", i))] = input[i].cov
    BY <1>3 DEF Account
  <2> QED BY <1>2, <1>3, <2>1, <2>2
<1>4. /\ q.passed = Cardinality(With("ok", n)) /\ q.failed = Cardinality(With("FAIL", n))
      /\ Len(q.packages) = q.passed
  BY <1>2 DEF Account
<1>5. Account(n, TRUE, q)
  BY <1>2, <1>3, <1>4 DEF Account
<1> QED BY <1>5 DEF q

\* The line of a next package that did not pass
LEMMA OtherLineCounts ==
  ASSUME input \in Seq(Packages), NEW verbose \in BOOLEAN, NEW k \in 0..(Len(input) - 1),
         NEW r, Account(k, verbose, r), input[k + 1].result # "ok", NEW q,
         q \in Summaries, AddsUp(q), q.packages = r.packages, q.passed = r.passed,
         q.failed = IF input[k + 1].result = "FAIL" THEN r.failed + 1 ELSE r.failed
  PROVE  Account(k + 1, verbose, q)
<1>0. k \in 0..Len(input) /\ k \in Nat
  BY LenProperties
<1>1. /\ r \in Summaries /\ r.failed \in Nat /\ r.passed = Cardinality(With("ok", k))
      /\ r.failed = Cardinality(With("FAIL", k)) /\ Len(r.packages) = r.passed
  BY SummaryParts DEF Account
<1>2. With("ok", k + 1) = With("ok", k)
  BY CountOneMore
<1>3. Cardinality(With("FAIL", k + 1))
        = Cardinality(With("FAIL", k)) + (IF input[k + 1].result = "FAIL" THEN 1 ELSE 0)
  BY CountOneMore
<1>4. q.failed = Cardinality(With("FAIL", k + 1)) /\ (q.failed = 0 => r.failed = 0)
  BY <1>1, <1>3
<1>5. ASSUME NEW i \in With("ok", k + 1)
      PROVE  LET place == Cardinality(With("ok", i)) IN
             /\ input[i].cov # NoCov => q.packages[place] = input[i].cov
             /\ ~verbose /\ q.failed = 0 => q.packages[place] = input[i].cov
  <2>1. /\ input[i].cov # NoCov => r.packages[Cardinality(With("ok", i))] = input[i].cov
        /\ ~verbose /\ r.failed = 0
           => r.packages[Cardinality(With("ok", i))] = input[i].cov
    BY <1>2, <1>5, Zenon DEF Account
  <2> QED BY <1>4, <2>1
<1> QED BY <1>1, <1>2, <1>4, <1>5 DEF Account

\* The ok line of the next package
LEMMA OkLineCounts ==
  ASSUME input \in Seq(Packages), NEW verbose \in BOOLEAN, NEW k \in 0..(Len(input) - 1),
         NEW r, Account(k, verbose, r), input[k + 1].result = "ok", input[k + 1].cov \in Covs
  PROVE  Account(k + 1, verbose, ParseLine(r, Line("ok", input[k + 1].cov)))
<1> DEFINE c == input[k + 1].cov
           q == ParseLine(r, Line("ok", c))
<1>1. r \in Summaries /\ AddsUp(r)
  BY DEF Account
<1>2. /\ q \in Summaries /\ AddsUp(q) /\ q.packages = Append(r.packages, c)
      /\ q.passed = r.passed + 1 /\ q.failed = r.failed
  BY <1>1, OkLine
<1>3. /\ With("ok", k + 1) = With("ok", k) \cup {k + 1}
      /\ Cardinality(With("ok", k + 1)) = Cardinality(With("ok", k)) + 1
      /\ Cardinality(With("FAIL", k + 1)) = Cardinality(With("FAIL", k))
  <2>1. /\ Cardinality(With("FAIL", k)) \in Nat
        /\ Cardinality(With("FAIL", k + 1)) = Cardinality(With("FAIL", k)) + 0
    <3>1. k \in 0..Len(input)
      BY LenProperties
    <3>2. input[k + 1].result # "FAIL"
      OBVIOUS
    <3> QED BY <3>1, <3>2, CountsAre, CountOneMore
  <2>2. /\ With("ok", k + 1) = With("ok", k) \cup {k + 1}
        /\ Cardinality(With("ok", k + 1)) = Cardinality(With("ok", k)) + 1
    BY CountOneMore
  <2> QED BY <2>1, <2>2
<1>4. /\ r.packages \in Seq(Covs) /\ Len(r.packages) \in Nat
      /\ Len(q.packages) = Len(r.packages) + 1
      /\ q.packages[Len(r.packages) + 1] = c
      /\ \A j \in 1..Len(r.packages) : q.packages[j] = r.packages[j]
  <2>1. r.packages \in Seq(Covs)
    BY <1>1, SummaryParts
  <2> QED BY <1>2, <2>1, AppendProperties, LenProperties
<1> HIDE DEF q, c
<1>5. /\ r.passed = Cardinality(With("ok", k)) /\ r.failed = Cardinality(With("FAIL", k))
      /\ Len(r.packages) = r.passed
  BY DEF Account
<1>6. ASSUME NEW i \in With("ok", k + 1)
      PROVE  LET place == Cardinality(With("ok", i)) IN
             /\ input[i].cov # NoCov => q.packages[place] = input[i].cov
             /\ ~verbose /\ q.failed = 0 => q.packages[place] = input[i].cov
  <2>1. CASE i = k + 1
    <3>1. Cardinality(With("ok", i)) = Len(r.packages) + 1
      BY <1>3, <1>5, <2>1
    <3> QED BY <1>4, <2>1, <3>1 DEF c
  <2>2. CASE i \in With("ok", k)
    <3>1. Cardinality(With("ok", i)) \in 1..Len(r.packages)
      <4>1. k \in 0..Len(input)
        BY LenProperties
      <4> QED BY <1>5, <2>2, <4>1, PlacesAre
    <3>2. /\ input[i].cov # NoCov => r.packages[Cardinality(With("ok", i))] = input[i].cov
          /\ ~verbose /\ r.failed = 0
             => r.packages[Cardinality(With("ok", i))] = input[i].cov
      BY <2>2 DEF Account
    <3> QED BY <1>2, <1>4, <3>1, <3>2
  <2> QED BY <1>3, <2>1, <2>2
<1>7. /\ q.passed = Cardinality(With("ok", k + 1))
      /\ q.failed = Cardinality(With("FAIL", k + 1)) /\ Len(q.packages) = q.passed
  BY <1>2, <1>3, <1>4, <1>5
<1>8. Account(k + 1, verbose, q)
  BY <1>2, <1>6, <1>7 DEF Account
<1> QED BY <1>8 DEF q, c

\* With the lines of the next package the account is of one more.
LEMMA PackageCounts ==
  ASSUME input \in Seq(Packages), NEW verbose \in BOOLEAN, NEW k \in 0..(Len(input) - 1),
         NEW s \in Seq(Lines), Account(k, verbose, ParseTestOutput(s))
  PROVE  /\ s \o Printed(input[k + 1], verbose) \in Seq(Lines)
         /\ Account(k + 1, verbose, ParseTestOutput(s \o Printed(input[k + 1], verbose)))
<1> DEFINE p == input[k + 1]
           c == p.cov
           own == Line("coverage", c)
           r == ParseTestOutput(s)
<1>0. k \in 0..Len(input) /\ k + 1 \in 1..Len(input) /\ p \in Packages
  <2>1. k \in 0..Len(input) /\ k + 1 \in 1..Len(input)
    BY LenProperties
  <2> QED BY <2>1, ElementOfSeq
<1>1. c \in Covs /\ NoCov \in Covs /\ 0 \in Covs
  BY <1>0, PrintedIs, CovsAreInts DEF Covs
<1>2. r \in Summaries /\ AddsUp(r)
  BY DEF Account
<1>3. /\ own \in Lines /\ Line("ok", c) \in Lines /\ Line("FAIL", NoCov) \in Lines
      /\ Line("?", NoCov) \in Lines /\ Line("coverage", 0) \in Lines
  <2>1. \A name \in {"ok", "FAIL", "?", "coverage"} : name \in LineKinds
    BY DEF LineKinds
  <2> QED BY <1>1, <2>1, LineIs
<1>4. \A t : Account(k, verbose, t) => Account(k, TRUE, t)
  BY DEF Account
<1>5. /\ s \o <<own>> \in Seq(Lines)
      /\ Account(k, TRUE, ParseTestOutput(s \o <<own>>))
  <2>1. Account(k, TRUE, ParseLine(r, own))
    BY <1>0, <1>1, <1>4, OwnLineKeeps
  <2> QED BY <1>3, <2>1, ParsesOneMore
<1>6. \A x \in Lines : s \o (<<own>> \o <<x>>) = (s \o <<own>>) \o <<x>>
  <2>1. \A x \in Lines : <<own>> \in Seq(Lines) /\ <<x>> \in Seq(Lines)
    BY <1>3
  <2> QED BY <2>1, ConcatAssociative
<1>7. CASE p.result = "ok"
  <2>1. ASSUME NEW t \in Seq(Lines), NEW v \in BOOLEAN, Account(k, v, ParseTestOutput(t))
        PROVE  /\ t \o <<Line("ok", c)>> \in Seq(Lines)
               /\ Account(k + 1, v, ParseTestOutput(t \o <<Line("ok", c)>>))
    <3>1. Account(k + 1, v, ParseLine(ParseTestOutput(t), Line("ok", c)))
      BY <1>1, <1>7, <2>1, OkLineCounts
    <3> QED BY <1>3, <3>1, ParsesOneMore
  <2>2. CASE Printed(p, verbose) = <<Line("ok", c)>>
    BY <2>1, <2>2
  <2>3. CASE verbose /\ Printed(p, verbose) = <<own>> \o <<Line("ok", c)>>
    <3>1. verbose = TRUE
      BY <2>3
    <3>2. /\ (s \o <<own>>) \o <<Line("ok", c)>> \in Seq(Lines)
          /\ Account(k + 1, TRUE, ParseTestOutput((s \o <<own>>) \o <<Line("ok", c)>>))
      BY <1>5, <2>1
    <3>3. s \o Printed(p, verbose) = (s \o <<own>>) \o <<Line("ok", c)>>
      BY <1>3, <1>6, <2>3, Zenon
    <3> HIDE DEF p, c, own
    <3> QED BY <3>1, <3>2, <3>3, Zenon DEF p
  <2> QED BY <1>0, <1>7, <2>2, <2>3, PrintedIs
<1>8. CASE p.result = "FAIL"
  <2>1. ASSUME NEW t \in Seq(Lines), NEW v \in BOOLEAN, Account(k, v, ParseTestOutput(t))
        PROVE  /\ t \o <<Line("FAIL", NoCov)>> \in Seq(Lines)
               /\ Account(k + 1, verbose, ParseTestOutput(t \o <<Line("FAIL", NoCov)>>))
    <3> DEFINE q == ParseLine(ParseTestOutput(t), Line("FAIL", NoCov))
    <3>1. ParseTestOutput(t) \in Summaries /\ AddsUp(ParseTestOutput(t))
      BY <2>1 DEF Account
    <3>2. /\ q \in Summaries /\ AddsUp(q) /\ q.packages = ParseTestOutput(t).packages
          /\ q.passed = ParseTestOutput(t).passed
          /\ q.failed = ParseTestOutput(t).failed + 1
      BY <1>1, <3>1, OtherLines
    <3> HIDE DEF q
    <3>3. Account(k + 1, v, q)
      BY <1>8, <2>1, <3>2, OtherLineCounts
    <3>4. q.failed # 0
      BY <3>1, <3>2, SummaryParts
    <3>5. Account(k + 1, verbose, q)
      BY <3>3, <3>4 DEF Account
    <3> QED BY <1>3, <3>5, ParsesOneMore DEF q
  <2>2. CASE Printed(p, verbose) = <<Line("FAIL", NoCov)>>
    BY <2>1, <2>2
  <2>3. CASE Printed(p, verbose) = <<own>> \o <<Line("FAIL", NoCov)>>
    <3>1. /\ (s \o <<own>>) \o <<Line("FAIL", NoCov)>> \in Seq(Lines)
          /\ Account(k + 1, verbose, ParseTestOutput((s \o <<own>>) \o <<Line("FAIL", NoCov)>>))
      BY <1>5, <2>1
    <3>2. s \o Printed(p, verbose) = (s \o <<own>>) \o <<Line("FAIL", NoCov)>>
      BY <1>3, <1>6, <2>3, Zenon
    <3> HIDE DEF p, c, own
    <3> QED BY <3>1, <3>2, Zenon DEF p
  <2> QED BY <1>0, <1>8, <2>2, <2>3, PrintedIs
<1>9. CASE p.result = "no test files"
  <2>1. ASSUME NEW x \in Lines, NEW q, ParseLine(r, x) = q, q \in Summaries, AddsUp(q),
               q.packages = r.packages, q.passed = r.passed, q.failed = r.failed
        PROVE  /\ s \o <<x>> \in Seq(Lines)
               /\ Account(k + 1, verbose, ParseTestOutput(s \o <<x>>))
    <3>1. Account(k + 1, verbose, q)
      BY <1>9, <2>1, OtherLineCounts
    <3> QED BY <2>1, <3>1, ParsesOneMore
  <2>2. CASE Printed(p, verbose) = <<Line("?", NoCov)>>
    <3> DEFINE q == ParseLine(r, Line("?", NoCov))
    <3>1. /\ q \in Summaries /\ AddsUp(q) /\ q.packages = r.packages /\ q.passed = r.passed
          /\ q.failed = r.failed
      BY <1>1, <1>2, OtherLines
    <3> HIDE DEF q
    <3> QED BY <1>3, <2>1, <2>2, <3>1 DEF q
  <2>3. CASE Printed(p, verbose) = <<Line("coverage", 0)>>
    <3>1. ParseLine(r, Line("coverage", 0)) = r
      BY <1>1, <1>2, CoverageLine
    <3> QED BY <1>2, <1>3, <2>1, <2>3, <3>1
  <2> QED BY <1>0, <1>9, <2>2, <2>3, PrintedIs
<1> QED BY <1>0, <1>7, <1>8, <1>9, PrintedIs

LEMMA PrintedIsLines ==
  ASSUME NEW p \in Packages, NEW verbose \in BOOLEAN
  PROVE  Printed(p, verbose) \in Seq(Lines)
<1>1. p.cov \in Covs /\ NoCov \in Covs /\ 0 \in Covs
  BY PrintedIs, CovsAreInts DEF Covs
<1>2. /\ Line("coverage", p.cov) \in Lines /\ Line("ok", p.cov) \in Lines
      /\ Line("FAIL", NoCov) \in Lines /\ Line("?", NoCov) \in Lines
      /\ Line("coverage", 0) \in Lines
  <2>1. \A name \in {"ok", "FAIL", "?", "coverage"} : name \in LineKinds
    BY DEF LineKinds
  <2> QED BY <1>1, <2>1, LineIs
<1>3. \A a, b \in Lines : <<a>> \in Seq(Lines) /\ <<a>> \o <<b>> \in Seq(Lines)
  <2>1. \A a \in Lines : <<a>> \in Seq(Lines)
    OBVIOUS
  <2> QED BY <2>1, ConcatProperties
<1> QED BY <1>2, <1>3, PrintedIs

\* Of the lines that a finished run prints
LEMMA AllAreCounted ==
  ASSUME input \in Seq(Packages), NEW verbose \in BOOLEAN
  PROVE  Account(Len(input), verbose, ParseTestOutput(Output(input, verbose)))
<1> DEFINE n == Len(input)
           seqs == [i \in 1..n |-> Printed(input[i], verbose)]
<1>1. n \in Nat /\ \A i \in 1..n : input[i] \in Packages
  BY LenProperties, ElementOfSeq
<1>2. seqs \in Seq(Seq(Lines)) /\ Len(seqs) = n
  <2>1. \A i \in 1..n : Printed(input[i], verbose) \in Seq(Lines)
    BY <1>1, PrintedIsLines
  <2> HIDE DEF n
  <2> QED BY <1>1, <2>1
<1>3. Output(input, verbose) = FlattenSeq(seqs)
  BY DEF Output
<1>4. \A k \in 1..n : seqs[k] = Printed(input[k], verbose)
  OBVIOUS
<1> HIDE DEF seqs, n
<1>5. PICK f : /\ f \in [0..n -> Seq(Lines)] /\ f[0] = <<>>
               /\ \A k \in 1..n : f[k] = f[k - 1] \o seqs[k]
               /\ FlattenSeq(seqs) = f[n]
  <2>1. \E f : /\ f \in [0..Len(seqs) -> Seq(Lines)] /\ f[0] = <<>>
               /\ \A k \in 1..Len(seqs) : f[k] = f[k - 1] \o seqs[k]
               /\ FlattenSeq(seqs) = f[Len(seqs)]
    BY <1>2, FlattensStepwise
  <2> QED BY <1>2, <2>1
<1> DEFINE S == {k \in 0..n : Account(k, verbose, ParseTestOutput(f[k]))}
<1>6. 0 \in S
  <2>1. Account(0, verbose, ParseTestOutput(f[0]))
    BY <1>5, NoAccount, Zenon
  <2> QED BY <1>1, <2>1
<1>7. ASSUME NEW k \in 0..(n - 1), k \in S PROVE k + 1 \in S
  <2>1. PICK j \in 1..n : j = k + 1
    BY <1>1
  <2>2. f[j] = f[j - 1] \o seqs[j] /\ seqs[j] = Printed(input[j], verbose)
    BY <1>4, <1>5, Zenon
  <2>3. j - 1 = k
    BY <2>1
  <2>4. f[k] \in Seq(Lines) /\ Account(k, verbose, ParseTestOutput(f[k]))
    BY <1>5, <1>7
  <2>5. Account(k + 1, verbose, ParseTestOutput(f[k] \o Printed(input[k + 1], verbose)))
    BY <2>4, PackageCounts DEF n
  <2>6. f[k + 1] = f[k] \o Printed(input[k + 1], verbose)
    BY <2>1, <2>2, <2>3, Zenon
  <2>7. Account(k + 1, verbose, ParseTestOutput(f[k + 1]))
    BY <2>5, <2>6, Zenon
  <2>8. k + 1 \in 0..n
    BY <1>1
  <2> QED BY <2>7, <2>8
<1>8. n \in S
  <2> HIDE DEF S
  <2>1. S \in SUBSET (0..n)
    BY DEF S
  <2>2. S = 0..n
    BY <1>1, <1>6, <1>7, <2>1, UpTo
  <2> QED BY <1>1, <2>2
<1>9. Account(n, verbose, ParseTestOutput(f[n]))
  BY <1>8
<1> QED BY <1>3, <1>5, <1>9, Zenon DEF n

LEMMA TestsAreBuilt == ASSUME Built, kind = "tests" PROVE input \in Seq(Packages)
BY DEF Built, Source, Kinds

LEMMA SummaryIsTrue == Built => CoverageIsOwn
<1> SUFFICES ASSUME Built, kind = "tests", NEW verbose \in BOOLEAN
             PROVE  LET results == ParseTestOutput(Output(input, verbose))
                        shown == results.packages
                    IN /\ results.passed = Cardinality(With("ok", Len(input)))
                       /\ results.failed = Cardinality(With("FAIL", Len(input)))
                       /\ Len(shown) = results.passed
                       /\ \A i \in With("ok", Len(input)) :
                            LET place == Cardinality(With("ok", i)) IN
                            /\ input[i].cov # NoCov => shown[place] = input[i].cov
                            /\ ~verbose /\ results.failed = 0
                               => shown[place] = input[i].cov
                       /\ results.covCount = Cardinality({i \in DOMAIN shown :
                                                            shown[i] # NoCov})
                       /\ results.totalCov = FoldLeft(AddCov, 0, shown)
  BY DEF CoverageIsOwn
<1> DEFINE results == ParseTestOutput(Output(input, verbose))
<1>1. Account(Len(input), verbose, results)
  BY TestsAreBuilt, AllAreCounted
<1> HIDE DEF results
<1>2. results.totalCov = FoldLeft(AddCov, 0, results.packages)
  BY <1>1, CoveragesFold, Zenon DEF Account, AddsUp
<1>3. results.covCount = Cardinality({i \in DOMAIN results.packages :
                                        results.packages[i] # NoCov})
  BY <1>1, Zenon DEF Account, AddsUp, Told
<1> QED BY <1>1, <1>2, <1>3, Zenon DEF Account, results

\* The summary counts every package once and shows each with its own coverage,
\* whatever and however many packages go test ran (parseTestOutput, cmd_output.go).
THEOREM SummariesAreTrue == Spec => []CoverageIsOwn
BY InputsAreBuilt, SummaryIsTrue, PTL

LEMMA ErrorsAreReported == Built => FailureIsReported
<1> SUFFICES ASSUME Built, kind = "tests", NEW verbose \in BOOLEAN,
                    NEW end \in Ends(input, verbose)
             PROVE  LET run == RunTest(end) IN
                    /\ run.error <=> end.code # 0
                    /\ ~run.error <=> run.exit_code = 0
                    /\ run.results.failed > 0 => run.error
  BY DEF FailureIsReported
<1> DEFINE out == Output(input, verbose)
           run == RunTest(end)
<1>1. input \in Seq(Packages) /\ Account(Len(input), verbose, ParseTestOutput(out))
  BY TestsAreBuilt, AllAreCounted
<1>2. \/ end.code = NotStarted \/ end.code = 1 \/ end.code = -1
      \/ /\ end.code = 0 /\ end.lines = out
         /\ ~ \E i \in DOMAIN input : input[i].result = "FAIL"
  BY DEF Ends
<1>3. CASE end.code # 0
  <2>1. NotStarted = -2
    BY DEF NotStarted
  <2>2. run.error = TRUE /\ run.exit_code # 0
    <3>1. CASE end.code = NotStarted \/ (end.code # 0 /\ end.lines = <<>>)
      <4>1. run = [error |-> TRUE, exit_code |-> -1, results |-> Empty]
        BY <3>1, Zenon DEF RunTest
      <4> HIDE DEF run
      <4> QED BY <4>1
    <3>2. CASE ~ (end.code = NotStarted \/ (end.code # 0 /\ end.lines = <<>>))
      <4>1. ExitCode(end.code) = 1
        BY <1>2, <1>3, <3>2 DEF ExitCode
      <4>2. /\ run.error = (ExitCode(end.code) # 0)
            /\ run.exit_code = ExitCode(end.code)
        BY <3>2 DEF RunTest
      <4>3. (ExitCode(end.code) # 0) = TRUE /\ ExitCode(end.code) # 0
        BY <4>1
      <4> HIDE DEF run
      <4> QED BY <4>2, <4>3, Zenon
    <3> QED BY <3>1, <3>2
  <2> QED BY <1>3, <2>2
<1>4. CASE end.code = 0
  <2>1. end.lines = out /\ ~ \E i \in DOMAIN input : input[i].result = "FAIL"
    BY <1>2, <1>4 DEF NotStarted
  <2>2. run.error = FALSE /\ run.exit_code = 0 /\ run.results = ParseTestOutput(out)
    <3>1. ExitCode(end.code) = 0 /\ end.code # NotStarted
      BY <1>4 DEF ExitCode, NotStarted
    <3>2. /\ run.error = (ExitCode(end.code) # 0) /\ run.exit_code = ExitCode(end.code)
          /\ run.results = ParseTestOutput(end.lines)
      BY <1>4, <3>1 DEF RunTest
    <3> HIDE DEF run
    <3> QED BY <2>1, <3>1, <3>2
  <2>3. With("FAIL", Len(input)) = {}
    <3>1. DOMAIN input = 1..Len(input)
      BY <1>1, LenProperties
    <3> QED BY <2>1, <3>1 DEF With
  <2>4. ParseTestOutput(out).failed = 0
    BY <1>1, <2>3, FS_EmptySet DEF Account
  <2> QED BY <1>4, <2>2, <2>4
<1> QED BY <1>3, <1>4

\* However go test ends, the command reports an error unless every package passed
\* (runTest, cmd_runner.go).
THEOREM FailuresAreReported == Spec => []FailureIsReported
BY InputsAreBuilt, ErrorsAreReported, PTL
=============================================================================
