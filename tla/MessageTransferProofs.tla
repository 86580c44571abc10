------------------------ MODULE MessageTransferProofs ------------------------
(***************************************************************************)
(* A message arrives: its arguments, whatever their number and their       *)
(* values, are read as they were meant, and of a message that was cut off  *)
(* nothing is reported that was not sent.  Write and Read are parameters   *)
(* here: all that is assumed of them is that they are the overloads of     *)
(* Containers (Unfolded), as Streams defines them.                         *)
(*                                                                         *)
(* An argument has laws: the sender refuses it or appends a chunk of whole *)
(* bytes (Puts), a receiver that has the chunk ahead of it reads what was  *)
(* meant and ends behind it (Gets), one that has only a part of it ahead   *)
(* does not take it for what was sent (Misses), and no receiver leaves the *)
(* body (Stays).  The laws are proved for each overload, and the message   *)
(* is the sequence of the chunks (Layout).                                 *)
(***************************************************************************)
EXTENDS StreamsProofs, MessageTransfer

-----------------------------------------------------------------------------
(* Numbers.                                                                *)

LEMMA PowersOfTwo ==
  /\ 2 ^ 0 = 1 /\ 2 ^ 1 = 2 /\ 2 ^ 2 = 4 /\ 2 ^ 3 = 8 /\ 2 ^ 4 = 16 /\ 2 ^ 5 = 32 /\ 2 ^ 6 = 64
  /\ 2 ^ 7 = 128 /\ 2 ^ 8 = 256 /\ 2 ^ 9 = 512 /\ 2 ^ 10 = 1024 /\ 2 ^ 11 = 2048 /\ 2 ^ 12 = 4096
  /\ 2 ^ 13 = 8192 /\ 2 ^ 14 = 16384 /\ 2 ^ 15 = 32768 /\ 2 ^ 16 = 65536 /\ 2 ^ 17 = 131072
  /\ 2 ^ 18 = 262144 /\ 2 ^ 19 = 524288 /\ 2 ^ 20 = 1048576
BY SMT

\* Powers of two as a function, whose values are literals.
Power == [k \in 0 .. 20 |-> 2 ^ k]

LEMMA PowerDoubles ==
  ASSUME NEW k \in Nat, k < 20
  PROVE  Power[k] \in Nat \ {0} /\ Power[k + 1] = 2 * Power[k]
<1>1. \/ k = 0 \/ k = 1 \/ k = 2 \/ k = 3 \/ k = 4 \/ k = 5 \/ k = 6 \/ k = 7 \/ k = 8 \/ k = 9
      \/ k = 10 \/ k = 11 \/ k = 12 \/ k = 13 \/ k = 14 \/ k = 15 \/ k = 16 \/ k = 17 \/ k = 18 \/ k = 19
  BY SMT
<1>2. k \in 0 .. 20 /\ k + 1 \in 0 .. 20
  BY SMT
<1>3. Power[k] = 2 ^ k /\ Power[k + 1] = 2 ^ (k + 1)
  BY <1>2 DEF Power
<1>4. CASE k = 0
  BY <1>3, <1>4, PowersOfTwo, SMT
<1>5. CASE k = 1
  BY <1>3, <1>5, PowersOfTwo, SMT
<1>6. CASE k = 2
  BY <1>3, <1>6, PowersOfTwo, SMT
<1>7. CASE k = 3
  BY <1>3, <1>7, PowersOfTwo, SMT
<1>8. CASE k = 4
  BY <1>3, <1>8, PowersOfTwo, SMT
<1>9. CASE k = 5
  BY <1>3, <1>9, PowersOfTwo, SMT
<1>10. CASE k = 6
  BY <1>3, <1>10, PowersOfTwo, SMT
<1>11. CASE k = 7
  BY <1>3, <1>11, PowersOfTwo, SMT
<1>12. CASE k = 8
  BY <1>3, <1>12, PowersOfTwo, SMT
<1>13. CASE k = 9
  BY <1>3, <1>13, PowersOfTwo, SMT
<1>14. CASE k = 10
  BY <1>3, <1>14, PowersOfTwo, SMT
<1>15. CASE k = 11
  BY <1>3, <1>15, PowersOfTwo, SMT
<1>16. CASE k = 12
  BY <1>3, <1>16, PowersOfTwo, SMT
<1>17. CASE k = 13
  BY <1>3, <1>17, PowersOfTwo, SMT
<1>18. CASE k = 14
  BY <1>3, <1>18, PowersOfTwo, SMT
<1>19. CASE k = 15
  BY <1>3, <1>19, PowersOfTwo, SMT
<1>20. CASE k = 16
  BY <1>3, <1>20, PowersOfTwo, SMT
<1>21. CASE k = 17
  BY <1>3, <1>21, PowersOfTwo, SMT
<1>22. CASE k = 18
  BY <1>3, <1>22, PowersOfTwo, SMT
<1>23. CASE k = 19
  BY <1>3, <1>23, PowersOfTwo, SMT
<1> QED  BY <1>1, <1>4, <1>5, <1>6, <1>7, <1>8, <1>9, <1>10, <1>11, <1>12, <1>13, <1>14, <1>15, <1>16, <1>17, <1>18, <1>19, <1>20, <1>21, <1>22, <1>23

LEMMA PowerGrows ==
  /\ Power[0] = 1 /\ Power[8] = 256 /\ Power[16] = 65536 /\ Power[20] = 1048576
  /\ \A k \in 0 .. 20 : Power[k] = 2 ^ k
BY PowersOfTwo DEF Power

LEMMA Remainder ==
  ASSUME NEW m \in Nat, NEW a \in Nat, NEW s \in Nat, s < m
  PROVE  (m * a + s) % m = s
OBVIOUS

\* The bits of n below the k-th, one after the other.
LEMMA NextBinaryDigit ==
  ASSUME NEW n \in Nat, NEW p \in Nat \ {0}
  PROVE  n % (2 * p) = (n % p) + ((n \div p) % 2) * p
<1>1. /\ n = p * (n \div p) + (n % p) /\ n % p < p
      /\ n \div p \in Nat /\ n % p \in Nat
  OBVIOUS
<1>2. PICK q \in Nat, r \in Nat : q = n \div p /\ r = n % p
  BY <1>1
<1>3. PICK h \in Nat : q = 2 * h + (q % 2) /\ (q % 2 = 0 \/ q % 2 = 1)
  OBVIOUS
<1>4. 2 * p \in Nat /\ p + r \in Nat /\ r < 2 * p /\ p + r < 2 * p
  BY <1>1, <1>2
<1>5. CASE q % 2 = 0
  <2>1. p * q = (2 * p) * h
    BY <1>3, <1>5
  <2>2. n = (2 * p) * h + r
    BY <1>1, <1>2, <2>1
  <2>3. n % (2 * p) = r
    BY <1>4, <2>2, Remainder
  <2> QED  BY <1>2, <1>5, <2>3
<1>6. CASE q % 2 = 1
  <2>1. p * q = (2 * p) * h + p
    BY <1>3, <1>6
  <2>2. n = (2 * p) * h + (p + r)
    BY <1>1, <1>2, <2>1
  <2>3. n % (2 * p) = p + r
    BY <1>4, <2>2, Remainder
  <2> QED  BY <1>2, <1>6, <2>3
<1> QED  BY <1>3, <1>5, <1>6

\* The step of NumberOf.
Digit(v, k) == IF k <= Len(v) /\ v[k] = 1 THEN 2 ^ (k - 1) ELSE 0

SumTo(v, f, k) == IF k = 0 THEN 0 ELSE f[k - 1] + Digit(v, k)

LEMMA NumberOfUnfolds ==
  ASSUME NEW v
  PROVE  NumberOf(v) = IF \E k \in 21 .. Len(v) : v[k] = 1 THEN Huge
                       ELSE (CHOOSE f : f = [k \in 0 .. 20 |-> SumTo(v, f, k)])[20]
BY Zenon DEF NumberOf, SumTo, Digit

LEMMA DigitType ==
  ASSUME NEW v, NEW k \in 1 .. 20
  PROVE  Digit(v, k) \in Nat
<1>1. k - 1 \in Nat /\ k - 1 < 20 /\ k - 1 \in 0 .. 20
  BY SMT
<1>2. Power[k - 1] \in Nat
  BY <1>1, PowerDoubles
<1>3. Power[k - 1] = 2 ^ (k - 1)
  BY <1>1, Zenon DEF Power
<1> QED  BY <1>2, <1>3, Zenon DEF Digit

LEMMA SumDefined ==
  ASSUME NEW v
  PROVE  \E f : f = [k \in 0 .. 20 |-> SumTo(v, f, k)]
<1> DEFINE X == 0 .. 20
           stop == [k \in X |-> k = 0]
           last == [k \in X |-> 0]
           next == [k \in X |-> IF k = 0 THEN 0 ELSE k - 1]
           comb == [y \in X \X Nat |-> IF y[1] = 0 THEN 0 ELSE y[2] + Digit(v, y[1])]
           rank == [k \in X |-> k]
<1>1. stop \in [X -> BOOLEAN] /\ last \in [X -> Nat] /\ rank \in [X -> 0 .. 20]
  OBVIOUS
<1>0. /\ next \in [X -> X]
      /\ \A k \in X : ~stop[k] => rank[next[k]] < rank[k]
  <2>1. ASSUME NEW k \in X
        PROVE  /\ (IF k = 0 THEN 0 ELSE k - 1) \in X
               /\ k # 0 => (IF k = 0 THEN 0 ELSE k - 1) < k
    OBVIOUS
  <2>2. next \in [X -> X]
    BY <2>1
  <2>3. \A k \in X : next[k] \in X /\ next[k] = (IF k = 0 THEN 0 ELSE k - 1) /\ stop[k] = (k = 0)
    BY <2>1
  <2>4. \A k \in X : rank[k] = k
    OBVIOUS
  <2> HIDE DEF next, stop, rank
  <2>5. ASSUME NEW k \in X, ~stop[k]  PROVE rank[next[k]] < rank[k]
    <3>1. k # 0 /\ next[k] = k - 1 /\ next[k] \in X
      BY <2>3, <2>5
    <3>2. rank[next[k]] = next[k] /\ rank[k] = k
      BY <2>4, <3>1
    <3> QED  BY <2>1, <3>1, <3>2
  <2> QED  BY <2>2, <2>5
<1>2. comb \in [X \X Nat -> Nat]
  <2>1. \A k \in X : k # 0 => Digit(v, k) \in Nat
    BY DigitType, SMT
  <2>2. ASSUME NEW y \in X \X Nat  PROVE (IF y[1] = 0 THEN 0 ELSE y[2] + Digit(v, y[1])) \in Nat
    BY <2>1, SMT
  <2> QED  BY <2>2
<1>3. \A k \in X, w \in Nat : comb[<<k, w>>] = IF k = 0 THEN 0 ELSE w + Digit(v, k)
  OBVIOUS
<1> HIDE DEF comb
<1>4. Defined(X, Nat, stop, last, next, comb)
  <2> HIDE DEF stop, last, next, rank, X
  <2>1. 20 \in Nat
    OBVIOUS
  <2> QED  BY <1>0, <1>1, <1>2, <2>1, Recursion
<1>5. PICK f \in [X -> Nat] : \A k \in X : f[k] = IF stop[k] THEN last[k] ELSE comb[<<k, f[next[k]]>>]
  BY <1>4, Zenon DEF Defined
<1>6. ASSUME NEW k \in X  PROVE f[k] = SumTo(v, f, k)
  <2>1. CASE k = 0
    BY <1>5, <2>1 DEF SumTo
  <2>2. CASE k # 0
    <3>1. next[k] = k - 1 /\ k - 1 \in X /\ f[k - 1] \in Nat
      BY <2>2
    <3> QED  BY <1>3, <1>5, <2>2, <3>1 DEF SumTo
  <2> QED  BY <2>1, <2>2
<1>7. f = [k \in 0 .. 20 |-> SumTo(v, f, k)]
  BY <1>6
<1> QED  BY <1>7

\* What NumberOf adds up.
Sums(v, f) == \A k \in 0 .. 20 : f[k] = SumTo(v, f, k)

LEMMA NumberOfSums ==
  ASSUME NEW v
  PROVE  \E f : Sums(v, f) /\ NumberOf(v) = IF \E k \in 21 .. Len(v) : v[k] = 1 THEN Huge ELSE f[20]
<1> DEFINE f == CHOOSE f : f = [k \in 0 .. 20 |-> SumTo(v, f, k)]
<1>1. f = [k \in 0 .. 20 |-> SumTo(v, f, k)]
  BY SumDefined, Zenon
<1>2. NumberOf(v) = IF \E k \in 21 .. Len(v) : v[k] = 1 THEN Huge ELSE f[20]
  BY NumberOfUnfolds
<1> HIDE DEF f
<1>3. Sums(v, f)
  <2> SUFFICES ASSUME NEW k \in 0 .. 20  PROVE f[k] = SumTo(v, f, k)
    BY DEF Sums
  <2> QED  BY <1>1, Zenon
<1> QED  BY <1>2, <1>3

LEMMA SumType ==
  ASSUME NEW v, NEW f, Sums(v, f)
  PROVE  f[20] \in Nat
<1> DEFINE M == {k \in Nat : f[k - 1] \in Nat}
<1>1. 1 \in M
  <2>1. f[0] = 0
    BY DEF Sums, SumTo
  <2> QED  BY <2>1
<1>2. ASSUME NEW k \in 1 .. 20, k \in M  PROVE k + 1 \in M
  <2>1. f[k] = f[k - 1] + Digit(v, k)
    BY DEF Sums, SumTo
  <2>2. f[k] \in Nat
    BY <1>2, <2>1, DigitType
  <2> QED  BY <2>2
<1>3. 20 \in Nat /\ 21 \in 1 .. 20 + 1
  OBVIOUS
<1> HIDE DEF M
<1>4. \A k \in 1 .. 20 + 1 : k \in M
  BY <1>1, <1>2, <1>3, Upwards
<1>5. 21 \in M
  BY <1>3, <1>4
<1> QED  BY <1>5 DEF M

LEMMA NumberType ==
  ASSUME NEW v
  PROVE  NumberOf(v) \in Nat
<1>1. PICK f : Sums(v, f) /\ NumberOf(v) = IF \E k \in 21 .. Len(v) : v[k] = 1 THEN Huge ELSE f[20]
  BY NumberOfSums
<1>2. f[20] \in Nat
  BY <1>1, SumType
<1>3. Huge \in Nat
  BY PowersOfTwo DEF Huge
<1> QED  BY <1>1, <1>2, <1>3

\* A digit of n that NumberBits writes is the one that NumberOf finds.
LEMMA DigitKept ==
  ASSUME NEW n \in Nat, NEW width \in Nat, NEW k \in 1 .. 20, k <= 8 * width
  PROVE  Digit(NumberBits(n, width), k) = ((n \div Power[k - 1]) % 2) * Power[k - 1]
<1>1. k - 1 \in Nat /\ k - 1 < 20 /\ k - 1 \in 0 .. 20 /\ k \in 1 .. 8 * width /\ ~(k > 20)
  BY SMT
<1>2. Power[k - 1] \in Nat \ {0}
  BY <1>1, PowerDoubles
<1>3. Power[k - 1] = 2 ^ (k - 1)
  BY <1>1, Zenon DEF Power
<1>4. NumberBits(n, width)[k] = (n \div 2 ^ (k - 1)) % 2
  BY <1>1, Zenon DEF NumberBits
<1>5. k <= Len(NumberBits(n, width))
  BY NumberBitsType
<1>6. Digit(NumberBits(n, width), k) = IF (n \div Power[k - 1]) % 2 = 1 THEN Power[k - 1] ELSE 0
  BY <1>3, <1>4, <1>5, Zenon DEF Digit
<1>7. PICK p \in Nat \ {0} : p = Power[k - 1]
  BY <1>2
<1>8. (n \div p) % 2 = 0 \/ (n \div p) % 2 = 1
  BY <1>7
<1> QED  BY <1>6, <1>7, <1>8

LEMMA DigitMissing ==
  ASSUME NEW v, NEW k \in Nat, Len(v) \in Nat, k > Len(v)
  PROVE  Digit(v, k) = 0
BY DEF Digit

\* The numbers that a length field of a given width can hold, up to the bound of
\* the model.
Holds(width, n) == n < 2 ^ Least(8 * width, 20)

LEMMA WidthHolds ==
  ASSUME NEW n \in Nat
  PROVE  /\ Holds(1, n) <=> n < 256
         /\ Holds(2, n) <=> n < 65536
         /\ Holds(4, n) <=> n < 1048576
<1>1. Least(8 * 1, 20) = 8 /\ Least(8 * 2, 20) = 16 /\ Least(8 * 4, 20) = 20
  BY DEF Least
<1>2. (Holds(1, n) <=> n < 2 ^ 8) /\ (Holds(2, n) <=> n < 2 ^ 16) /\ (Holds(4, n) <=> n < 2 ^ 20)
  BY <1>1, Zenon DEF Holds
<1> QED  BY <1>2, PowersOfTwo

\* f adds up n, from whose k-th digit on the rest of the sum is 0.
LEMMA SumOfDigits ==
  ASSUME NEW n \in Nat, NEW width \in {1, 2, 4}, Holds(width, n),
         NEW f, Sums(NumberBits(n, width), f)
  PROVE  f[20] = n
<1> DEFINE v == NumberBits(n, width)
           top == IF width = 4 THEN 20 ELSE 8 * width
           M == {k \in Nat : k <= 21 => f[k - 1] = n % Power[k - 1] /\ (k > top => n < Power[k - 1])}
<1>0. Len(v) = 8 * width /\ top \in Nat /\ top <= 20 /\ top >= 8 /\ top <= 8 * width
      /\ (8 * width < 20 => top = 8 * width)
  <2>1. Len(v) = 8 * width
    BY NumberBitsType
  <2> HIDE DEF v
  <2> QED  BY <2>1
<1>1. Power[top] \in Nat /\ n < Power[top]
  BY WidthHolds, PowerGrows, SMT
<1> HIDE DEF v, top
<1>2. 1 \in M
  <2>1. f[0] = 0 /\ Power[0] = 1 /\ n % 1 = 0
    BY PowerGrows DEF Sums, SumTo
  <2> QED  BY <1>0, <2>1
<1>3. ASSUME NEW k \in 1 .. 20, k \in M  PROVE k + 1 \in M
  <2>1. k \in 0 .. 20 /\ k - 1 \in Nat /\ k - 1 < 20 /\ k \in Nat /\ (k - 1) + 1 = k /\ (k + 1) - 1 = k
    BY SMT
  <2>2. f[k] = f[k - 1] + Digit(v, k)
    BY <2>1 DEF Sums, SumTo, v
  <2>3. f[k - 1] = n % Power[k - 1] /\ (k > top => n < Power[k - 1])
    BY <1>3
  <2>4. Power[k - 1] \in Nat \ {0} /\ Power[k] = 2 * Power[k - 1]
    BY <2>1, PowerDoubles
  <2>5. PICK p \in Nat \ {0} : p = Power[k - 1] /\ 2 * p = Power[k]
    BY <2>4
  <2>6. CASE k <= 8 * width
    <3>1. Digit(v, k) = ((n \div p) % 2) * p
      BY <2>5, <2>6, DigitKept DEF v
    <3>2. f[k] = n % Power[k]
      BY <2>2, <2>3, <2>5, <3>1, NextBinaryDigit
    <3>3. k + 1 > top => n < Power[k]
      <4>1. CASE k = top
        BY <1>1, <4>1
      <4>2. CASE k > top
        BY <2>3, <2>5, <4>2
      <4> QED  BY <1>0, <2>1, <4>1, <4>2
    <3> QED  BY <2>1, <3>2, <3>3
  <2>7. CASE ~(k <= 8 * width)
    <3>1. Digit(v, k) = 0
      BY <1>0, <2>1, <2>7, DigitMissing
    <3>2. k > top /\ n < p
      BY <1>0, <2>1, <2>3, <2>5, <2>7
    <3>3. n % p = n /\ n % (2 * p) = n /\ n < 2 * p
      BY <3>2
    <3>4. f[k] = n % Power[k] /\ n < Power[k]
      BY <2>2, <2>3, <2>5, <3>1, <3>3
    <3> QED  BY <2>1, <3>4
  <2> QED  BY <2>6, <2>7
<1>4. 20 \in Nat /\ 21 \in 1 .. 20 + 1
  OBVIOUS
<1>5. 21 \in M
  <2> HIDE DEF M
  <2>1. \A k \in 1 .. 20 + 1 : k \in M
    BY <1>2, <1>3, <1>4, Upwards
  <2> QED  BY <1>4, <2>1
<1>6. f[20] = n % Power[20] /\ n < Power[20] /\ Power[20] = 1048576
  BY <1>0, <1>5, PowerGrows
<1> QED  BY <1>6

\* A number that fits into its length field is read again.
LEMMA NumberKept ==
  ASSUME NEW n \in Nat, NEW width \in {1, 2, 4}, Holds(width, n)
  PROVE  NumberOf(NumberBits(n, width)) = n
<1> DEFINE v == NumberBits(n, width)
<1>1. PICK f : Sums(v, f) /\ NumberOf(v) = IF \E k \in 21 .. Len(v) : v[k] = 1 THEN Huge ELSE f[20]
  BY NumberOfSums
<1>2. f[20] = n
  BY <1>1, SumOfDigits
<1>3. ASSUME NEW k \in 21 .. Len(v)  PROVE v[k] # 1
  <2>1. Len(v) = 8 * width
    BY NumberBitsType
  <2>2. k \in 1 .. 8 * width /\ k > 20
    BY <2>1
  <2>3. v[k] = 0
    BY <2>2, Zenon DEF NumberBits
  <2> QED  BY <2>3
<1> QED  BY <1>1, <1>2, <1>3

LEMMA PieceType ==
  ASSUME NEW S, NEW s \in Seq(S), NEW k \in Nat, k >= 1, NEW n \in Nat, k + n <= Len(s) + 1
  PROVE  /\ SubSeq(s, k, k + n - 1) \in Seq(S) /\ Len(SubSeq(s, k, k + n - 1)) = n
         /\ \A j \in 1 .. n : SubSeq(s, k, k + n - 1)[j] = s[k + j - 1]
<1>1. Len(s) \in Nat /\ k \in Int /\ k + n - 1 \in Int
  BY LenProperties
<1>2. \A j \in k .. k + n - 1 : s[j] \in S
  <2> SUFFICES ASSUME NEW j \in k .. k + n - 1  PROVE s[j] \in S
    OBVIOUS
  <2>1. j \in 1 .. Len(s)
    BY <1>1
  <2> QED  BY <2>1, ElementOfSeq
<1>3. /\ SubSeq(s, k, k + n - 1) \in Seq(S)
      /\ Len(SubSeq(s, k, k + n - 1)) = (IF k <= k + n - 1 THEN k + n - 1 - k + 1 ELSE 0)
      /\ \A j \in 1 .. k + n - 1 - k + 1 : SubSeq(s, k, k + n - 1)[j] = s[k + j - 1]
  BY <1>1, <1>2, SubSeqProperties
<1> QED  BY <1>3

LEMMA PieceBehind ==
  ASSUME NEW S, NEW s \in Seq(S), NEW p \in Nat, NEW n \in Nat, p + n <= Len(s)
  PROVE  /\ SubSeq(s, p + 1, p + n) \in Seq(S) /\ Len(SubSeq(s, p + 1, p + n)) = n
         /\ \A j \in 1 .. n : SubSeq(s, p + 1, p + n)[j] = s[p + j]
<1>1. PICK k \in Nat : k = p + 1
  OBVIOUS
<1>2. k >= 1 /\ k + n <= Len(s) + 1 /\ k + n - 1 = p + n
  BY <1>1, LenProperties
<1>3. /\ SubSeq(s, k, k + n - 1) \in Seq(S) /\ Len(SubSeq(s, k, k + n - 1)) = n
      /\ \A j \in 1 .. n : SubSeq(s, k, k + n - 1)[j] = s[k + j - 1]
  BY <1>2, PieceType
<1>4. \A j \in 1 .. n : k + j - 1 = p + j
  BY <1>1
<1> QED  BY <1>1, <1>2, <1>3, <1>4

\* A sequence that stands in another one is a piece of it.
LEMMA PieceFound ==
  ASSUME NEW S, NEW s \in Seq(S), NEW c \in Seq(S), NEW k \in Nat, k >= 1, k + Len(c) <= Len(s) + 1,
         Has(s, k, c)
  PROVE  SubSeq(s, k, k + Len(c) - 1) = c
<1>1. Len(c) \in Nat
  BY LenProperties
<1>2. /\ SubSeq(s, k, k + Len(c) - 1) \in Seq(S) /\ Len(SubSeq(s, k, k + Len(c) - 1)) = Len(c)
      /\ \A j \in 1 .. Len(c) : SubSeq(s, k, k + Len(c) - 1)[j] = s[k + j - 1]
  BY <1>1, PieceType
<1>3. \A j \in 1 .. Len(c) : SubSeq(s, k, k + Len(c) - 1)[j] = c[j]
  BY <1>2 DEF Has
<1> QED  BY <1>2, <1>3, SeqEqual

LEMMA BitsType ==
  ASSUME NEW bytes \in Seq(Octets)
  PROVE  BitsOf(bytes) \in Seq(Bit) /\ Len(BitsOf(bytes)) = 8 * Len(bytes)
<1> DEFINE b == BitsOf(bytes)
<1>0. Len(bytes) \in Nat
  BY LenProperties
<1>1. Len(b) = 8 * Len(bytes)
  BY <1>0 DEF BitsOf
<1>2. b \in Seq(Bit)
  <2>1. ASSUME NEW j \in 1 .. 8 * Len(bytes)
        PROVE  (bytes[(j - 1) \div 8 + 1] \div 2 ^ ((j - 1) % 8)) % 2 \in Bit
    <3>1. (j - 1) \div 8 + 1 \in 1 .. Len(bytes) /\ (j - 1) % 8 \in Nat /\ (j - 1) % 8 < 20
      BY <1>0
    <3>2. bytes[(j - 1) \div 8 + 1] \in Nat
      BY <3>1, ElementOfSeq DEF Octets
    <3>3. Power[(j - 1) % 8] \in Nat \ {0}
      BY <3>1, PowerDoubles
    <3>4. (j - 1) % 8 \in 0 .. 20
      BY <3>1
    <3>5. Power[(j - 1) % 8] = 2 ^ ((j - 1) % 8)
      BY <3>4, Zenon DEF Power
    <3>6. \A x \in Nat, y \in Nat \ {0} : (x \div y) % 2 \in Bit
      BY DEF Bit
    <3>7. (bytes[(j - 1) \div 8 + 1] \div Power[(j - 1) % 8]) % 2 \in Bit
      BY <3>2, <3>3, <3>6
    <3> QED  BY <3>5, <3>7, Zenon
  <2>2. b \in [1 .. 8 * Len(bytes) -> Bit]
    BY <2>1, Zenon DEF BitsOf
  <2>3. 8 * Len(bytes) \in Nat
    BY <1>0
  <2> QED  BY <2>2, <2>3, SeqDef
<1> QED  BY <1>1, <1>2

LEMMA EightsApart ==
  ASSUME NEW k \in Nat, k >= 1, NEW j \in Nat, j >= 1, j <= 8
  PROVE  ((8 * k - 7 + j - 1) - 1) \div 8 + 1 = k /\ ((8 * k - 7 + j - 1) - 1) % 8 = j - 1
<1>1. (8 * k - 7 + j - 1) - 1 = 8 * (k - 1) + (j - 1)
  OBVIOUS
<1> QED  BY <1>1

\* The bits of a byte are those of the number that it is.
LEMMA ByteBits ==
  ASSUME NEW bytes \in Seq(Octets), NEW k \in 1 .. Len(bytes)
  PROVE  SubSeq(BitsOf(bytes), 8 * k - 7, 8 * k) = NumberBits(bytes[k], 1)
<1> DEFINE b == BitsOf(bytes)
           c == NumberBits(bytes[k], 1)
<1>0. Len(bytes) \in Nat /\ k \in Nat /\ k >= 1 /\ k <= Len(bytes) /\ bytes[k] \in Nat
  BY LenProperties, ElementOfSeq DEF Octets
<1>1. b \in Seq(Bit) /\ Len(b) = 8 * Len(bytes) /\ c \in Seq(Bit) /\ Len(c) = 8
  <2>1. 1 \in Nat /\ 8 * 1 = 8
    OBVIOUS
  <2>2. c \in Seq(Bit) /\ Len(c) = 8 * 1
    BY <1>0, <2>1, NumberBitsType
  <2> QED  BY <2>1, <2>2, BitsType
<1>2. ASSUME NEW j \in 1 .. 8  PROVE b[8 * k - 7 + j - 1] = c[j]
  <2>1. j \in Nat /\ j >= 1 /\ j <= 8 /\ 8 * k - 7 + j - 1 \in 1 .. 8 * Len(bytes)
    BY <1>0
  <2>2. ((8 * k - 7 + j - 1) - 1) \div 8 + 1 = k /\ ((8 * k - 7 + j - 1) - 1) % 8 = j - 1
    BY <1>0, <2>1, EightsApart
  <2>3. b[8 * k - 7 + j - 1]
          = (bytes[((8 * k - 7 + j - 1) - 1) \div 8 + 1] \div 2 ^ (((8 * k - 7 + j - 1) - 1) % 8)) % 2
    BY <2>1, Zenon DEF BitsOf
  <2>4. j \in 1 .. 8 * 1 /\ ~(j > 20)
    OBVIOUS
  <2>5. c[j] = (bytes[k] \div 2 ^ (j - 1)) % 2
    BY <2>4, Zenon DEF NumberBits
  <2> QED  BY <2>2, <2>3, <2>5, Zenon
<1> HIDE DEF b, c
<1>3. Has(b, 8 * k - 7, c)
  BY <1>1, <1>2 DEF Has
<1>4. 8 * k - 7 \in Nat /\ 8 * k - 7 >= 1 /\ 8 * k - 7 + Len(c) <= Len(b) + 1 /\ 8 * k - 7 + Len(c) - 1 = 8 * k
  BY <1>0, <1>1
<1>5. SubSeq(b, 8 * k - 7, 8 * k - 7 + Len(c) - 1) = c
  BY <1>1, <1>3, <1>4, PieceFound
<1> QED  BY <1>4, <1>5 DEF b, c

LEMMA BytesKept ==
  ASSUME NEW bytes \in Seq(Octets)
  PROVE  /\ BitsOf(bytes) \in Seq(Bit) /\ Len(BitsOf(bytes)) = 8 * Len(bytes)
         /\ BytesOf(BitsOf(bytes)) = bytes
<1> DEFINE b == BitsOf(bytes)
<1>0. Len(bytes) \in Nat
  BY LenProperties
<1>1. b \in Seq(Bit) /\ Len(b) = 8 * Len(bytes)
  BY BitsType
<1>3. BytesOf(b) = bytes
  <2>1. Len(b) \div 8 = Len(bytes)
    BY <1>0, <1>1
  <2>2. BytesOf(b) = [k \in 1 .. Len(bytes) |-> NumberOf(SubSeq(b, 8 * k - 7, 8 * k))]
    BY <2>1, Zenon DEF BytesOf
  <2>3. ASSUME NEW k \in 1 .. Len(bytes)  PROVE NumberOf(SubSeq(b, 8 * k - 7, 8 * k)) = bytes[k]
    <3>1. bytes[k] \in Nat /\ bytes[k] <= 255
      BY ElementOfSeq DEF Octets
    <3>2. Holds(1, bytes[k])
      BY <3>1, WidthHolds
    <3>3. NumberOf(NumberBits(bytes[k], 1)) = bytes[k]
      BY <3>1, <3>2, NumberKept
    <3> QED  BY <3>3, ByteBits
  <2>4. bytes = [k \in 1 .. Len(bytes) |-> bytes[k]]
    BY LenProperties
  <2> QED  BY <2>2, <2>3, <2>4, Zenon
<1> QED  BY <1>1, <1>3

-----------------------------------------------------------------------------
(* Pieces of a body, of whole bytes.                                       *)

Chunks == {c \in Seq(Bit) : Len(c) % 8 = 0}

Bytes(c) == Len(c) \div 8

LEMMA ChunkType ==
  ASSUME NEW c \in Chunks
  PROVE  c \in Seq(Bit) /\ Bytes(c) \in Nat /\ Len(c) = 8 * Bytes(c)
<1>1. c \in Seq(Bit) /\ Len(c) \in Nat /\ Len(c) % 8 = 0
  BY LenProperties DEF Chunks
<1> QED  BY <1>1, WholeBytes DEF Bytes

LEMMA ChunkOf ==
  ASSUME NEW c \in Seq(Bit), NEW n \in Nat, Len(c) = 8 * n
  PROVE  c \in Chunks /\ Bytes(c) = n
BY DEF Chunks, Bytes

LEMMA ChunkConcat ==
  ASSUME NEW c \in Chunks, NEW d \in Chunks
  PROVE  c \o d \in Chunks /\ Bytes(c \o d) = Bytes(c) + Bytes(d)
<1>1. c \in Seq(Bit) /\ Bytes(c) \in Nat /\ Len(c) = 8 * Bytes(c)
  BY ChunkType
<1>2. d \in Seq(Bit) /\ Bytes(d) \in Nat /\ Len(d) = 8 * Bytes(d)
  BY ChunkType
<1>3. c \o d \in Seq(Bit) /\ Len(c \o d) = Len(c) + Len(d)
  BY <1>1, <1>2, ConcatProperties
<1>4. Len(c \o d) = 8 * (Bytes(c) + Bytes(d)) /\ Bytes(c) + Bytes(d) \in Nat
  BY <1>1, <1>2, <1>3
<1> QED  BY <1>3, <1>4, ChunkOf

-----------------------------------------------------------------------------
(* A reader at the beginning of a byte, without an error.                  *)

Ready(i, le) ==
  /\ i \in Inputs /\ Counted(i) /\ i.pos % 8 = 0
  /\ ~i.err /\ i.stray = "no" /\ i.le = le

\* n bytes further.
Moved(i, n) == [i EXCEPT !.pos = @ + 8 * n, !.rem = @ - n]

\* What is ahead of the reader agrees with c as far as the body goes, which is
\* all of c, or not.
Meets(i, c) == \A j \in 1 .. Len(c) : i.pos + j <= Len(i.body) => i.body[i.pos + j] = c[j]

Ahead(i, c) == Bytes(c) <= i.rem /\ Meets(i, c)

Short(i, c) == Bytes(c) > i.rem /\ Meets(i, c)

LEMMA ReadyFields ==
  ASSUME NEW i, NEW le, Ready(i, le)
  PROVE  /\ i.body \in Seq(Bit) /\ Len(i.body) \in Nat /\ i.pos \in Nat /\ i.rem \in Nat
         /\ i.pos % 8 = 0 /\ i.pos + 8 * i.rem <= Len(i.body) /\ Len(i.body) < i.pos + 8 * i.rem + 8
         /\ i.err = FALSE /\ i.stray = "no" /\ i.le = le /\ le \in BOOLEAN
<1>1. i.body \in Seq(Bit) /\ i.pos \in Nat /\ i.rem \in Nat /\ i.err = FALSE /\ i.le = le /\ le \in BOOLEAN
  BY DEF Ready, Inputs
<1>2. Len(i.body) \in Nat
  BY <1>1, LenProperties
<1>3. i.pos % 8 = 0 /\ i.stray = "no"
  BY DEF Ready
<1>4. i.pos <= 8 * (Len(i.body) \div 8) /\ i.rem = Len(i.body) \div 8 - i.pos \div 8
  BY DEF Ready, Counted
<1>5. PICK l \in Nat, p \in Nat : l = Len(i.body) /\ p = i.pos
  BY <1>1, <1>2
<1>6. PICK b \in Nat : b = p \div 8 /\ p = 8 * b
  BY <1>3, <1>5, WholeBytes
<1>7. PICK a \in Nat : a = l \div 8 /\ 8 * a <= l /\ l < 8 * a + 8
  OBVIOUS
<1>8. i.rem = a - b
  BY <1>4, <1>5, <1>6, <1>7
<1>9. i.pos + 8 * i.rem <= Len(i.body) /\ Len(i.body) < i.pos + 8 * i.rem + 8
  <2>1. p + 8 * (a - b) = 8 * a
    BY <1>6
  <2> QED  BY <1>5, <1>7, <1>8, <2>1
<1> QED  BY <1>1, <1>2, <1>3, <1>9

LEMMA MovedFields ==
  ASSUME NEW i \in Inputs, NEW n \in Nat, n <= i.rem
  PROVE  /\ Moved(i, n) \in Inputs /\ Moved(i, n).body = i.body /\ Moved(i, n).pos = i.pos + 8 * n
         /\ Moved(i, n).rem = i.rem - n /\ Moved(i, n).err = i.err /\ Moved(i, n).le = i.le
         /\ Moved(i, n).stray = i.stray
<1>1. i.pos + 8 * n \in Nat /\ i.rem - n \in Nat
  BY DEF Inputs
<1>2. DOMAIN i = {"body", "pos", "rem", "err", "le", "stray"}
  BY DEF Inputs
<1>3. /\ Moved(i, n).body = i.body /\ Moved(i, n).pos = i.pos + 8 * n
      /\ Moved(i, n).rem = i.rem - n /\ Moved(i, n).err = i.err /\ Moved(i, n).le = i.le
      /\ Moved(i, n).stray = i.stray
  BY <1>2 DEF Moved
<1>4. Moved(i, n) \in Inputs
  BY <1>1 DEF Moved, Inputs
<1> QED  BY <1>3, <1>4

LEMMA BytesLeft ==
  ASSUME NEW q \in Nat, NEW r \in Nat, NEW n \in Nat, n <= r
  PROVE  8 * (q + n) <= 8 * (q + r) /\ r - n = (q + r) - (q + n)
OBVIOUS

LEMMA MovedReady ==
  ASSUME NEW i, NEW le, Ready(i, le), NEW n \in Nat, n <= i.rem
  PROVE  Ready(Moved(i, n), le)
<1>1. i \in Inputs
  BY DEF Ready
<1> DEFINE m == Moved(i, n)
<1>2. /\ m \in Inputs /\ m.body = i.body /\ m.pos = i.pos + 8 * n
      /\ m.rem = i.rem - n /\ m.err = i.err /\ m.le = i.le /\ m.stray = i.stray
  BY <1>1, MovedFields
<1> HIDE DEF m
<1>3. PICK l \in Nat, p \in Nat, r \in Nat :
        /\ l = Len(i.body) /\ p = i.pos /\ r = i.rem /\ p % 8 = 0 /\ n <= r
        /\ p + 8 * r <= l /\ l < p + 8 * r + 8
  BY ReadyFields
<1>4. PICK q \in Nat : p = 8 * q
  BY <1>3, WholeBytes
<1>5. l \div 8 = q + r
  <2>1. 8 * (q + r) <= l /\ l < 8 * (q + r) + 8
    BY <1>3, <1>4
  <2>2. \A s \in Nat : 8 * s <= l /\ l < 8 * s + 8 => l \div 8 = s
    OBVIOUS
  <2>3. q + r \in Nat
    OBVIOUS
  <2> QED  BY <2>1, <2>2, <2>3
<1>8. p + 8 * n = 8 * (q + n)
  BY <1>4
<1>9. (8 * (q + n)) \div 8 = q + n /\ (8 * (q + n)) % 8 = 0
  OBVIOUS
<1>6. Counted(m) /\ m.pos % 8 = 0
  <2>1. m.pos = 8 * (q + n) /\ m.rem = r - n /\ Len(m.body) = l
    BY <1>2, <1>3, <1>8
  <2>2. m.pos \div 8 = q + n /\ m.pos % 8 = 0
    BY <1>9, <2>1
  <2>3. 8 * (q + n) <= 8 * (q + r) /\ r - n = (q + r) - (q + n)
    <3>1. n <= r
      BY <1>3
    <3> QED  BY <3>1, BytesLeft
  <2> QED  BY <1>5, <2>1, <2>2, <2>3 DEF Counted
<1>7. ~m.err /\ m.stray = "no" /\ m.le = le
  BY <1>2 DEF Ready
<1> QED  BY <1>2, <1>6, <1>7 DEF Ready, m

LEMMA AlignedReader ==
  ASSUME NEW i, i.pos % 8 = 0
  PROVE  AlignIn(i) = i
BY DEF AlignIn

LEMMA MovedNowhere ==
  ASSUME NEW i \in Inputs
  PROVE  Moved(i, 0) = i
<1>1. i.pos + 8 * 0 = i.pos /\ i.rem - 0 = i.rem
  BY DEF Inputs
<1>2. Moved(i, 0) = [i EXCEPT !.pos = i.pos, !.rem = i.rem]
  BY <1>1, Zenon DEF Moved
<1> QED  BY <1>2 DEF Inputs

LEMMA MovedTwice ==
  ASSUME NEW i \in Inputs, NEW n \in Nat, NEW k \in Nat, n <= i.rem
  PROVE  Moved(Moved(i, n), k) = Moved(i, n + k)
<1> DEFINE m == Moved(i, n)
<1>1. m \in Inputs /\ m.pos = i.pos + 8 * n /\ m.rem = i.rem - n
  BY MovedFields
<1>2. m.pos + 8 * k = i.pos + 8 * (n + k) /\ m.rem - k = i.rem - (n + k)
  BY <1>1 DEF Inputs
<1>3. Moved(m, k) = [m EXCEPT !.pos = i.pos + 8 * (n + k), !.rem = i.rem - (n + k)]
  BY <1>2, Zenon DEF Moved
<1>4. Moved(i, n + k) = [i EXCEPT !.pos = i.pos + 8 * (n + k), !.rem = i.rem - (n + k)]
  BY Zenon DEF Moved
<1>5. [m EXCEPT !.pos = i.pos + 8 * (n + k), !.rem = i.rem - (n + k)]
        = [i EXCEPT !.pos = i.pos + 8 * (n + k), !.rem = i.rem - (n + k)]
  BY DEF Moved, Inputs
<1> QED  BY <1>3, <1>4, <1>5

LEMMA PastFirst ==
  ASSUME NEW m \in Nat, NEW n \in Nat, NEW j \in 1 .. n
  PROVE  m + j \in 1 .. m + n /\ ~(m + j <= m) /\ (m + j) - m = j
OBVIOUS

LEMMA MeetsSplit ==
  ASSUME NEW i \in Inputs, NEW c \in Chunks, NEW d \in Chunks, Bytes(c) <= i.rem, Meets(i, c \o d)
  PROVE  Meets(i, c) /\ Meets(Moved(i, Bytes(c)), d)
<1>1. c \in Seq(Bit) /\ Bytes(c) \in Nat /\ Len(c) = 8 * Bytes(c) /\ d \in Seq(Bit) /\ Len(d) \in Nat
  BY ChunkType, LenProperties
<1>2. /\ Len(c \o d) = Len(c) + Len(d)
      /\ \A j \in 1 .. Len(c) + Len(d) : (c \o d)[j] = IF j <= Len(c) THEN c[j] ELSE d[j - Len(c)]
  BY <1>1, ConcatProperties
<1> DEFINE m == Moved(i, Bytes(c))
<1>3. m.body = i.body /\ m.pos = i.pos + Len(c) /\ i.pos \in Nat /\ Len(i.body) \in Nat
  BY <1>1, MovedFields, LenProperties DEF Inputs
<1> HIDE DEF m
<1>4. ASSUME NEW j \in 1 .. Len(c), i.pos + j <= Len(i.body)  PROVE i.body[i.pos + j] = c[j]
  <2>1. j \in 1 .. Len(c \o d) /\ (c \o d)[j] = c[j]
    BY <1>1, <1>2
  <2> QED  BY <1>4, <2>1 DEF Meets
<1>5. ASSUME NEW j \in 1 .. Len(d), m.pos + j <= Len(m.body)  PROVE m.body[m.pos + j] = d[j]
  <2>1. /\ Len(c) + j \in 1 .. Len(c \o d) /\ (c \o d)[Len(c) + j] = d[j]
        /\ m.pos + j = i.pos + (Len(c) + j)
    <3>1. Len(c) \in Nat
      BY <1>1
    <3>2. Len(c) + j \in 1 .. Len(c) + Len(d) /\ ~(Len(c) + j <= Len(c)) /\ (Len(c) + j) - Len(c) = j
      BY <1>1, <3>1, PastFirst
    <3>3. m.pos + j = i.pos + (Len(c) + j)
      BY <1>3, <3>1
    <3> QED  BY <1>2, <3>2, <3>3
  <2>2. i.pos + (Len(c) + j) <= Len(i.body)
    BY <1>3, <1>5, <2>1
  <2>3. i.body[i.pos + (Len(c) + j)] = (c \o d)[Len(c) + j]
    BY <2>1, <2>2 DEF Meets
  <2> QED  BY <1>3, <2>1, <2>3
<1> QED  BY <1>4, <1>5 DEF Meets, m

\* What is ahead is read piece by piece.
LEMMA AheadSplit ==
  ASSUME NEW i, NEW le, Ready(i, le), NEW c \in Chunks, NEW d \in Chunks, Ahead(i, c \o d)
  PROVE  /\ Ahead(i, c) /\ Bytes(c) <= i.rem /\ Ready(Moved(i, Bytes(c)), le)
         /\ Ahead(Moved(i, Bytes(c)), d) /\ Bytes(d) <= Moved(i, Bytes(c)).rem
         /\ Moved(Moved(i, Bytes(c)), Bytes(d)) = Moved(i, Bytes(c \o d))
<1>1. i \in Inputs /\ i.rem \in Nat
  BY ReadyFields DEF Ready
<1>2. Bytes(c) \in Nat /\ Bytes(d) \in Nat /\ Bytes(c \o d) = Bytes(c) + Bytes(d)
  BY ChunkType, ChunkConcat
<1>3. Bytes(c \o d) <= i.rem /\ Meets(i, c \o d)
  BY DEF Ahead
<1>4. Bytes(c) <= i.rem
  BY <1>1, <1>2, <1>3
<1>5. Meets(i, c) /\ Meets(Moved(i, Bytes(c)), d)
  BY <1>1, <1>3, <1>4, MeetsSplit
<1>6. Moved(i, Bytes(c)).rem = i.rem - Bytes(c)
  BY <1>1, <1>2, <1>4, MovedFields
<1>7. Bytes(d) <= Moved(i, Bytes(c)).rem
  BY <1>1, <1>2, <1>3, <1>6
<1>8. Ready(Moved(i, Bytes(c)), le)
  BY <1>2, <1>4, MovedReady
<1>9. Moved(Moved(i, Bytes(c)), Bytes(d)) = Moved(i, Bytes(c \o d))
  BY <1>1, <1>2, <1>4, MovedTwice
<1> QED  BY <1>4, <1>5, <1>7, <1>8, <1>9 DEF Ahead

LEMMA ShortSplit ==
  ASSUME NEW i, NEW le, Ready(i, le), NEW c \in Chunks, NEW d \in Chunks, Short(i, c \o d)
  PROVE  \/ Short(i, c)
         \/ Ahead(i, c) /\ Ready(Moved(i, Bytes(c)), le) /\ Short(Moved(i, Bytes(c)), d)
<1>1. i \in Inputs /\ i.rem \in Nat
  BY ReadyFields DEF Ready
<1>2. Bytes(c) \in Nat /\ Bytes(d) \in Nat /\ Bytes(c \o d) = Bytes(c) + Bytes(d)
  BY ChunkType, ChunkConcat
<1>3. Bytes(c \o d) > i.rem /\ Meets(i, c \o d)
  BY DEF Short
<1>4. CASE Bytes(c) <= i.rem
  <2>1. Meets(i, c) /\ Meets(Moved(i, Bytes(c)), d)
    BY <1>1, <1>3, <1>4, MeetsSplit
  <2>2. Moved(i, Bytes(c)).rem = i.rem - Bytes(c)
    BY <1>1, <1>2, <1>4, MovedFields
  <2>3. Bytes(d) > Moved(i, Bytes(c)).rem
    BY <1>1, <1>2, <1>3, <2>2
  <2>4. Ready(Moved(i, Bytes(c)), le)
    BY <1>2, <1>4, MovedReady
  <2> QED  BY <1>4, <2>1, <2>3, <2>4 DEF Short, Ahead
<1>5. CASE Bytes(c) > i.rem
  <2>1. Meets(i, c)
    <3>1. c \in Seq(Bit) /\ Len(c) \in Nat /\ d \in Seq(Bit) /\ Len(d) \in Nat
      BY ChunkType, LenProperties
    <3>2. /\ Len(c \o d) = Len(c) + Len(d)
          /\ \A j \in 1 .. Len(c) + Len(d) : (c \o d)[j] = IF j <= Len(c) THEN c[j] ELSE d[j - Len(c)]
      BY <3>1, ConcatProperties
    <3>3. \A j \in 1 .. Len(c) : j \in 1 .. Len(c \o d) /\ (c \o d)[j] = c[j]
      BY <3>1, <3>2
    <3> QED  BY <1>3, <3>3 DEF Meets
  <2> QED  BY <1>5, <2>1 DEF Short
<1> QED  BY <1>1, <1>2, <1>4, <1>5

LEMMA WithinRest ==
  ASSUME NEW p \in Nat, NEW r \in Nat, NEW l \in Nat, NEW w \in Nat, w <= r, p + 8 * r <= l
  PROVE  /\ p + 8 * w <= l /\ p + 1 \in Nat /\ p + 1 >= 1 /\ p + 1 + 8 * w <= l + 1
         /\ p + 1 + 8 * w - 1 = p + 8 * w
OBVIOUS

LEMMA PieceAhead ==
  ASSUME NEW i, NEW le, Ready(i, le), NEW c \in Chunks, Ahead(i, c)
  PROVE  i.pos + Len(c) <= Len(i.body) /\ SubSeq(i.body, i.pos + 1, i.pos + Len(c)) = c
<1>1. c \in Seq(Bit) /\ Bytes(c) \in Nat /\ Len(c) = 8 * Bytes(c)
  BY ChunkType
<1>2. /\ i.body \in Seq(Bit) /\ Len(i.body) \in Nat /\ i.pos \in Nat /\ i.rem \in Nat
      /\ i.pos + 8 * i.rem <= Len(i.body)
  BY ReadyFields
<1>3. Bytes(c) <= i.rem /\ Meets(i, c)
  BY DEF Ahead
<1>4. /\ i.pos + Len(c) <= Len(i.body) /\ i.pos + 1 \in Nat /\ i.pos + 1 >= 1
      /\ i.pos + 1 + Len(c) <= Len(i.body) + 1 /\ i.pos + 1 + Len(c) - 1 = i.pos + Len(c)
      /\ \A j \in 1 .. Len(c) : i.pos + j <= Len(i.body) /\ i.pos + 1 + j - 1 = i.pos + j
  <2>1. PICK p \in Nat, r \in Nat, l \in Nat, w \in Nat :
          /\ p = i.pos /\ r = i.rem /\ l = Len(i.body) /\ w = Bytes(c) /\ Len(c) = 8 * w
          /\ w <= r /\ p + 8 * r <= l
    BY <1>1, <1>2, <1>3
  <2>0. w <= r /\ p + 8 * r <= l
    BY <2>1
  <2>2. /\ p + 8 * w <= l /\ p + 1 \in Nat /\ p + 1 >= 1 /\ p + 1 + 8 * w <= l + 1
        /\ p + 1 + 8 * w - 1 = p + 8 * w
    BY <2>0, WithinRest
  <2>3. \A j \in 1 .. 8 * w : p + j <= l /\ p + 1 + j - 1 = p + j
    BY <2>2
  <2> QED  BY <2>1, <2>2, <2>3
<1>5. Has(i.body, i.pos + 1, c)
  <2> SUFFICES ASSUME NEW j \in 1 .. Len(c)  PROVE i.body[i.pos + 1 + j - 1] = c[j]
    BY DEF Has
  <2>1. i.pos + j <= Len(i.body) /\ i.pos + 1 + j - 1 = i.pos + j
    BY <1>4
  <2> QED  BY <1>3, <2>1 DEF Meets
<1>6. SubSeq(i.body, i.pos + 1, i.pos + 1 + Len(c) - 1) = c
  BY <1>1, <1>2, <1>4, <1>5, PieceFound
<1> QED  BY <1>4, <1>6

-----------------------------------------------------------------------------
(* Reads of whole bytes.                                                   *)

LEMMA SizeInBits ==
  ASSUME NEW size \in Nat \ {0}
  PROVE  /\ Least(8 * size, 8 * size) = 8 * size /\ 8 * size # 0 /\ (8 * size + 7) \div 8 = size
         /\ (0 + 8 * size) \div 8 = size
BY DEF Least

\* The bytes there are, in the order of the stream; or a failure that leaves
\* the stream alone.
LEMMA BitsTaken ==
  ASSUME NEW i \in Inputs, i.pos % 8 = 0, NEW size \in Nat \ {0}, NEW signed \in BOOLEAN
  PROVE  /\ i.rem < size =>
              ReadBits(i, size, 8 * size, signed) = [failed |-> TRUE, i |-> i, v |-> Copies(0, 8 * size)]
         /\ size <= i.rem /\ i.pos + 8 * size <= Len(i.body) =>
              ReadBits(i, size, 8 * size, signed)
                = [failed |-> FALSE, i |-> Moved(i, size),
                   v |-> Ordered(SubSeq(i.body, i.pos + 1, i.pos + 8 * size), i.le)]
<1> DEFINE b == Least(8 * size, 8 * size)
           j == [i EXCEPT !.pos = @ + b, !.rem = @ - ((i.pos % 8) + b) \div 8]
           c == SubSeq(i.body, i.pos + 1, i.pos + 8 * size)
<1>0. i.pos \in Nat /\ i.rem \in Nat /\ i.body \in Seq(Bit) /\ Len(i.body) \in Nat /\ i.le \in BOOLEAN
  BY LenProperties DEF Inputs
<1>1. b = 8 * size /\ b # 0 /\ (b + 7) \div 8 = size /\ ((i.pos % 8) + b) \div 8 = size
  BY SizeInBits
<1>2. ReadBits(i, size, 8 * size, signed) =
        IF b = 0 \/ i.rem < (b + 7) \div 8
          THEN [failed |-> TRUE, i |-> i, v |-> Copies(0, 8 * size)]
        ELSE IF j.pos > Len(i.body)
          THEN [failed |-> FALSE, i |-> [j EXCEPT !.stray = StrayAfter(i)], v |-> Copies(0, 8 * size)]
        ELSE [failed |-> FALSE, i |-> j,
              v |-> TargetBits(SubSeq(i.body, i.pos + 1, j.pos), size, signed, i.le)]
  BY Zenon DEF ReadBits
<1>3. ASSUME i.rem < size
      PROVE  ReadBits(i, size, 8 * size, signed) = [failed |-> TRUE, i |-> i, v |-> Copies(0, 8 * size)]
  BY <1>1, <1>2, <1>3, Zenon
<1>4. ASSUME size <= i.rem, i.pos + 8 * size <= Len(i.body)
      PROVE  ReadBits(i, size, 8 * size, signed)
               = [failed |-> FALSE, i |-> Moved(i, size), v |-> Ordered(c, i.le)]
  <2>1. j = Moved(i, size)
    BY <1>1, Zenon DEF Moved
  <2>2. j.pos = i.pos + 8 * size
    BY <1>4, <2>1, MovedFields
  <2>3. ~(i.rem < size) /\ ~(j.pos > Len(i.body))
    BY <1>0, <1>4, <2>2
  <2>4. c \in Seq(Bit) /\ Len(c) = 8 * size
    <3>1. PICK p \in Nat, n \in Nat : p = i.pos /\ n = 8 * size
      BY <1>0
    <3>2. p + n <= Len(i.body)
      BY <1>4, <3>1
    <3>3. SubSeq(i.body, p + 1, p + n) \in Seq(Bit) /\ Len(SubSeq(i.body, p + 1, p + n)) = n
      BY <1>0, <3>2, PieceBehind
    <3> QED  BY <3>1, <3>3, Zenon
  <2>5. TargetBits(c, size, signed, i.le) = Ordered(c, i.le)
    <3> HIDE DEF c
    <3> QED  BY <1>0, <2>4, WholeRead
  <2> HIDE DEF b, j
  <2>6. ReadBits(i, size, 8 * size, signed)
          = [failed |-> FALSE, i |-> j, v |-> TargetBits(SubSeq(i.body, i.pos + 1, j.pos), size, signed, i.le)]
    BY <1>1, <1>2, <2>3, Zenon
  <2> QED  BY <2>1, <2>2, <2>5, <2>6, Zenon
<1> QED  BY <1>3, <1>4

LEMMA BitsRead ==
  ASSUME NEW i, NEW le, Ready(i, le), NEW c \in Chunks, Bytes(c) # 0, NEW signed \in BOOLEAN
  PROVE  /\ Ahead(i, c) =>
              ReadBits(i, Bytes(c), 8 * Bytes(c), signed)
                = [failed |-> FALSE, i |-> Moved(i, Bytes(c)), v |-> Ordered(c, le)]
         /\ Short(i, c) =>
              ReadBits(i, Bytes(c), 8 * Bytes(c), signed)
                = [failed |-> TRUE, i |-> i, v |-> Copies(0, 8 * Bytes(c))]
<1> DEFINE n == Bytes(c)
<1>1. n \in Nat \ {0} /\ Len(c) = 8 * n
  BY ChunkType
<1>2. i \in Inputs /\ i.pos % 8 = 0 /\ i.le = le /\ i.rem \in Nat
  BY ReadyFields DEF Ready
<1>3. ASSUME Ahead(i, c)
      PROVE  ReadBits(i, n, 8 * n, signed) = [failed |-> FALSE, i |-> Moved(i, n), v |-> Ordered(c, le)]
  <2>1. n <= i.rem
    BY <1>3 DEF Ahead
  <2>2. i.pos + 8 * n <= Len(i.body) /\ SubSeq(i.body, i.pos + 1, i.pos + 8 * n) = c
    BY <1>1, <1>3, PieceAhead
  <2> HIDE DEF n
  <2> QED  BY <1>1, <1>2, <2>1, <2>2, BitsTaken
<1>4. ASSUME Short(i, c)
      PROVE  ReadBits(i, n, 8 * n, signed) = [failed |-> TRUE, i |-> i, v |-> Copies(0, 8 * n)]
  <2>1. i.rem < n
    BY <1>1, <1>2, <1>4 DEF Short
  <2> HIDE DEF n
  <2> QED  BY <1>1, <1>2, <2>1, BitsTaken
<1> QED  BY <1>3, <1>4

\* The bytes of a length field or a type that holds n.
Number(n, width, le) == Ordered(NumberBits(n, width), le)

LEMMA NumberChunk ==
  ASSUME NEW n \in Nat, NEW width \in {1, 2, 4}, NEW le \in BOOLEAN
  PROVE  Number(n, width, le) \in Chunks /\ Bytes(Number(n, width, le)) = width
<1>1. Number(n, width, le) \in Seq(Bit) /\ Len(Number(n, width, le)) = 8 * width
  BY NumberOrdered, Zenon DEF Number
<1>2. width \in Nat
  OBVIOUS
<1> QED  BY <1>1, <1>2, ChunkOf

LEMMA NumberRead ==
  ASSUME NEW i, NEW le, Ready(i, le), NEW n \in Nat, NEW width \in {1, 2, 4}, Holds(width, n),
         NEW permitted
  PROVE  /\ Ahead(i, Number(n, width, le)) =>
              ReadNumber(i, width, permitted) = [i |-> Moved(i, width), n |-> n]
         /\ Short(i, Number(n, width, le)) => ReadNumber(i, width, permitted).i = Fail(i)
<1> DEFINE c == Number(n, width, le)
           r == ReadBits(i, width, 8 * width, FALSE)
<1>1. le \in BOOLEAN /\ i \in Inputs /\ i.rem \in Nat /\ i.err = FALSE
  BY ReadyFields DEF Ready
<1>2. c \in Chunks /\ Bytes(c) = width /\ width # 0 /\ width \in Nat /\ FALSE \in BOOLEAN
  BY <1>1, NumberChunk
<1>3. ReadNumber(i, width, permitted) = [i |-> [r.i EXCEPT !.err = r.failed], n |-> NumberOf(r.v)]
  BY <1>2, Zenon DEF ReadNumber
<1>4. ASSUME Ahead(i, c)  PROVE ReadNumber(i, width, permitted) = [i |-> Moved(i, width), n |-> n]
  <2>1. r = [failed |-> FALSE, i |-> Moved(i, width), v |-> Ordered(c, le)]
    <3> HIDE DEF c
    <3> QED  BY <1>2, <1>4, BitsRead
  <2>2. Ordered(c, le) = NumberBits(n, width)
    <3>1. NumberBits(n, width) \in Seq(Bit) /\ Len(NumberBits(n, width)) = 8 * width
      BY <1>2, NumberBitsType
    <3>2. Len(NumberBits(n, width)) % 8 = 0
      BY <3>1
    <3> QED  BY <1>1, <3>1, <3>2, OrderedTwice DEF Number
  <2>3. NumberOf(NumberBits(n, width)) = n
    BY NumberKept
  <2>4. width <= i.rem
    BY <1>2, <1>4 DEF Ahead
  <2>5. Moved(i, width) \in Inputs /\ Moved(i, width).err = FALSE
    BY <1>1, <1>2, <2>4, MovedFields
  <2>6. [Moved(i, width) EXCEPT !.err = FALSE] = Moved(i, width)
    BY <2>5 DEF Inputs
  <2> HIDE DEF c, r
  <2>7. r.i = Moved(i, width) /\ r.failed = FALSE /\ r.v = NumberBits(n, width)
    BY <2>1, <2>2
  <2> QED  BY <1>3, <2>3, <2>6, <2>7, Zenon
<1>5. ASSUME Short(i, c)  PROVE ReadNumber(i, width, permitted).i = Fail(i)
  <2>1. r = [failed |-> TRUE, i |-> i, v |-> Copies(0, 8 * width)]
    <3> HIDE DEF c
    <3> QED  BY <1>2, <1>5, BitsRead
  <2> HIDE DEF c, r
  <2>2. r.i = i /\ r.failed = TRUE
    BY <2>1
  <2>3. ReadNumber(i, width, permitted).i = [r.i EXCEPT !.err = r.failed]
    BY <1>3
  <2> QED  BY <2>2, <2>3, Zenon DEF Fail
<1> QED  BY <1>4, <1>5

LEMMA SameInput ==
  ASSUME NEW i \in Inputs, NEW j \in Inputs, i.body = j.body, i.pos = j.pos, i.rem = j.rem,
         i.err = j.err, i.le = j.le, i.stray = j.stray
  PROVE  i = j
BY DEF Inputs

LEMMA RawMoved ==
  ASSUME NEW i \in Inputs, i.err = FALSE, NEW n \in Nat, n <= i.rem
  PROVE  ReadRaw(i, n) = Moved(i, n)
<1>1. i.rem \in Nat /\ i.pos \in Nat
  BY DEF Inputs
<1>2. (i.err \/ n > i.rem) = i.err /\ (IF n >= i.rem THEN 0 ELSE i.rem - n) = i.rem - n
  <2>1. ~(n > i.rem) /\ (IF n >= i.rem THEN 0 ELSE i.rem - n) = i.rem - n
    BY <1>1
  <2>2. (i.err \/ n > i.rem) = i.err
    BY <2>1, Zenon
  <2> QED  BY <2>1, <2>2
<1>7. i.rem - n \in Nat /\ i.pos + 8 * n \in Nat
  BY <1>1
<1>3. ReadRaw(i, n) = [i EXCEPT !.err = i.err, !.rem = i.rem - n, !.pos = i.pos + 8 * n]
  BY <1>2, Zenon DEF ReadRaw
<1>4. ReadRaw(i, n) \in Inputs
  BY <1>7, <1>3 DEF Inputs
<1>5. /\ ReadRaw(i, n).body = i.body /\ ReadRaw(i, n).pos = i.pos + 8 * n
      /\ ReadRaw(i, n).rem = i.rem - n /\ ReadRaw(i, n).err = i.err /\ ReadRaw(i, n).le = i.le
      /\ ReadRaw(i, n).stray = i.stray
  BY <1>3 DEF Inputs
<1>6. /\ Moved(i, n) \in Inputs /\ Moved(i, n).body = i.body /\ Moved(i, n).pos = i.pos + 8 * n
      /\ Moved(i, n).rem = i.rem - n /\ Moved(i, n).err = i.err /\ Moved(i, n).le = i.le
      /\ Moved(i, n).stray = i.stray
  BY MovedFields
<1> HIDE DEF ReadRaw
<1> QED  BY <1>4, <1>5, <1>6, SameInput

LEMMA RawRead ==
  ASSUME NEW i, NEW le, Ready(i, le), NEW c \in Chunks, Ahead(i, c)
  PROVE  /\ Bytes(c) <= i.rem /\ ReadRaw(i, Bytes(c)) = Moved(i, Bytes(c))
         /\ RawBytes(i, Bytes(c)) = BytesOf(c)
<1>1. i \in Inputs /\ i.err = FALSE
  BY ReadyFields DEF Ready
<1>2. Bytes(c) <= i.rem /\ Bytes(c) \in Nat /\ Len(c) = 8 * Bytes(c)
  BY ChunkType DEF Ahead
<1>3. SubSeq(i.body, i.pos + 1, i.pos + Len(c)) = c
  BY PieceAhead
<1>4. RawBytes(i, Bytes(c)) = BytesOf(c)
  BY <1>2, <1>3, Zenon DEF RawBytes
<1> QED  BY <1>1, <1>2, <1>4, RawMoved

-----------------------------------------------------------------------------
(* A writer at the beginning of a byte, without an error, and one with.    *)

Clean(o, le) == o \in Outputs /\ Len(o.bits) % 8 = 0 /\ ~o.err /\ o.le = le

Faulty(o) == "err" \in DOMAIN o /\ o.err = TRUE

LEMMA CleanFields ==
  ASSUME NEW o, NEW le, Clean(o, le)
  PROVE  /\ o \in Outputs /\ o.bits \in Seq(Bit) /\ Len(o.bits) \in Nat /\ Len(o.bits) % 8 = 0
         /\ o.err = FALSE /\ o.le = le /\ le \in BOOLEAN /\ o.marks \in Seq(Nat)
BY LenProperties DEF Clean, Outputs

LEMMA SameOutput ==
  ASSUME NEW o \in Outputs, NEW p \in Outputs, o.bits = p.bits, o.err = p.err, o.marks = p.marks,
         o.le = p.le
  PROVE  o = p
BY DEF Outputs

LEMMA RawFields ==
  ASSUME NEW o \in Outputs, NEW c \in Seq(Bit)
  PROVE  /\ WriteRaw(o, c) \in Outputs /\ WriteRaw(o, c).bits = o.bits \o c
         /\ WriteRaw(o, c).err = o.err /\ WriteRaw(o, c).marks = o.marks /\ WriteRaw(o, c).le = o.le
<1>1. o.bits \o c \in Seq(Bit)
  BY ConcatProperties DEF Outputs
<1>2. WriteRaw(o, c) = [o EXCEPT !.bits = o.bits \o c]
  BY Zenon DEF WriteRaw
<1> DEFINE b == o.bits \o c
<1>3. WriteRaw(o, c) = [o EXCEPT !.bits = b] /\ b \in Seq(Bit)
  BY <1>1, <1>2
<1> HIDE DEF b
<1>4. WriteRaw(o, c) \in Outputs
  BY <1>3 DEF Outputs
<1>5. /\ WriteRaw(o, c).bits = b /\ WriteRaw(o, c).err = o.err /\ WriteRaw(o, c).marks = o.marks
      /\ WriteRaw(o, c).le = o.le
  BY <1>3 DEF Outputs
<1> QED  BY <1>4, <1>5 DEF b

LEMMA AlignedWriter ==
  ASSUME NEW o \in Outputs, Len(o.bits) % 8 = 0
  PROVE  AlignOut(o) = o
<1>1. o.bits \in Seq(Bit) /\ (8 - (Len(o.bits) % 8)) % 8 = 0
  BY DEF Outputs
<1>2. Copies(0, 0) = <<>>
  BY DEF Copies
<1>3. o.bits \o <<>> = o.bits
  BY <1>1, ConcatEmptySeq
<1>4. AlignOut(o) = [o EXCEPT !.bits = o.bits \o Copies(0, (8 - (Len(o.bits) % 8)) % 8)]
  BY Zenon DEF AlignOut
<1>5. AlignOut(o) = [o EXCEPT !.bits = o.bits]
  BY <1>1, <1>2, <1>3, <1>4, Zenon
<1> QED  BY <1>5 DEF Outputs

LEMMA CleanWritten ==
  ASSUME NEW o, NEW le, Clean(o, le), NEW c \in Chunks
  PROVE  Clean(WriteRaw(o, c), le)
<1>1. c \in Seq(Bit) /\ Bytes(c) \in Nat /\ Len(c) = 8 * Bytes(c)
  BY ChunkType
<1>2. o \in Outputs /\ o.bits \in Seq(Bit) /\ Len(o.bits) \in Nat /\ Len(o.bits) % 8 = 0 /\ o.err = FALSE /\ o.le = le
  BY CleanFields
<1>3. Len(o.bits \o c) = Len(o.bits) + 8 * Bytes(c)
  <2>1. Len(o.bits \o c) = Len(o.bits) + Len(c)
    BY <1>1, <1>2, ConcatProperties, Zenon
  <2> QED  BY <1>1, <2>1
<1>4. Len(o.bits \o c) % 8 = 0
  <2>1. \A l, n \in Nat : l % 8 = 0 => (l + 8 * n) % 8 = 0
    OBVIOUS
  <2> QED  BY <1>1, <1>2, <1>3, <2>1
<1> QED  BY <1>1, <1>2, <1>4, RawFields DEF Clean

LEMMA BitsJoined ==
  ASSUME NEW c \in Seq(Bit), NEW d \in Seq(Bit)
  PROVE  c \o d \in Seq(Bit) /\ Len(c \o d) = Len(c) + Len(d)
BY ConcatProperties

LEMMA BitsAssociative ==
  ASSUME NEW a \in Seq(Bit), NEW c \in Seq(Bit), NEW d \in Seq(Bit)
  PROVE  (a \o c) \o d = a \o (c \o d)
BY ConcatAssociative

LEMMA WrittenTwice ==
  ASSUME NEW o \in Outputs, NEW c \in Seq(Bit), NEW d \in Seq(Bit)
  PROVE  WriteRaw(WriteRaw(o, c), d) = WriteRaw(o, c \o d)
<1>1. o.bits \in Seq(Bit) /\ c \o d \in Seq(Bit)
  BY ConcatProperties DEF Outputs
<1> DEFINE p == WriteRaw(o, c)
           q == WriteRaw(p, d)
           r == WriteRaw(o, c \o d)
<1>2. p \in Outputs /\ p.bits = o.bits \o c /\ p.err = o.err /\ p.marks = o.marks /\ p.le = o.le
  BY RawFields
<1>3. r \in Outputs /\ r.bits = o.bits \o (c \o d) /\ r.err = o.err /\ r.marks = o.marks /\ r.le = o.le
  BY <1>1, RawFields
<1> HIDE DEF p, r
<1>4. q \in Outputs /\ q.bits = p.bits \o d /\ q.err = p.err /\ q.marks = p.marks /\ q.le = p.le
  BY <1>2, RawFields
<1>5. (o.bits \o c) \o d = o.bits \o (c \o d)
  BY <1>1, BitsAssociative
<1> HIDE DEF q
<1>6. q.bits = r.bits /\ q.err = r.err /\ q.marks = r.marks /\ q.le = r.le
  BY <1>2, <1>3, <1>4, <1>5, Zenon
<1>7. q = r
  BY <1>3, <1>4, <1>6, SameOutput
<1> QED  BY <1>7 DEF p, q, r

LEMMA NothingWritten ==
  ASSUME NEW o \in Outputs
  PROVE  WriteRaw(o, <<>>) = o
<1>1. o.bits \in Seq(Bit)
  BY DEF Outputs
<1>2. o.bits \o <<>> = o.bits
  BY <1>1, ConcatEmptySeq
<1>3. WriteRaw(o, <<>>) = [o EXCEPT !.bits = o.bits]
  BY <1>2, Zenon DEF WriteRaw
<1> QED  BY <1>3 DEF Outputs

\* A value written with all its bits.
LEMMA BitsPut ==
  ASSUME NEW o, NEW le, Clean(o, le), NEW v \in Chunks, Bytes(v) # 0, NEW signed \in BOOLEAN
  PROVE  WriteBits(o, v, 8 * Bytes(v), signed) = WriteRaw(o, Ordered(v, le))
<1> DEFINE n == Bytes(v)
<1>1. v \in Seq(Bit) /\ n \in Nat \ {0} /\ Len(v) = 8 * n
  BY ChunkType
<1>2. o \in Outputs /\ o.le = le /\ le \in BOOLEAN
  BY CleanFields
<1> HIDE DEF n
<1>3. WriteBits(o, v, 8 * n, signed).bits = o.bits \o Ordered(v, o.le)
  BY <1>1, <1>2, WholeWritten
<1>4. Least(8 * n, Len(v)) = 8 * n /\ ~(8 * n < (IF signed THEN 2 ELSE 1))
  BY <1>1 DEF Least
<1>5. WriteBits(o, v, 8 * n, signed) = [o EXCEPT !.bits = o.bits \o SourceBits(v, 8 * n, o.le)]
  BY <1>4, Zenon DEF WriteBits
<1>6. WriteBits(o, v, 8 * n, signed) = [o EXCEPT !.bits = WriteBits(o, v, 8 * n, signed).bits]
  <2> DEFINE b == o.bits \o SourceBits(v, 8 * n, o.le)
  <2>1. WriteBits(o, v, 8 * n, signed) = [o EXCEPT !.bits = b]
    BY <1>5
  <2> HIDE DEF b
  <2>2. [o EXCEPT !.bits = b].bits = b
    BY <1>2 DEF Outputs
  <2> QED  BY <2>1, <2>2, Zenon
<1>7. WriteBits(o, v, 8 * n, signed) = [o EXCEPT !.bits = o.bits \o Ordered(v, o.le)]
  BY <1>3, <1>6, Zenon
<1> QED  BY <1>2, <1>7, Zenon DEF WriteRaw, n

LEMMA LimitType ==
  ASSUME NEW width \in {1, 2, 4}
  PROVE  2 ^ Least(8 * width, 20) \in Nat
<1>1. Least(8 * 1, 20) = 8 /\ Least(8 * 2, 20) = 16 /\ Least(8 * 4, 20) = 20
  BY DEF Least
<1>2. 2 ^ 8 \in Nat /\ 2 ^ 16 \in Nat /\ 2 ^ 20 \in Nat
  BY PowersOfTwo, SMT
<1>3. width = 1 \/ width = 2 \/ width = 4
  OBVIOUS
<1>4. CASE width = 1
  BY <1>1, <1>2, <1>4, Zenon
<1>5. CASE width = 2
  BY <1>1, <1>2, <1>5, Zenon
<1>6. CASE width = 4
  BY <1>1, <1>2, <1>6, Zenon
<1> QED  BY <1>3, <1>4, <1>5, <1>6

LEMMA NumberPut ==
  ASSUME NEW o, NEW le, Clean(o, le), NEW n \in Nat, NEW width \in {1, 2, 4}
  PROVE  /\ Holds(width, n) => WriteNumber(o, n, width) = WriteRaw(o, Number(n, width, le))
         /\ ~Holds(width, n) => Faulty(WriteNumber(o, n, width))
<1> DEFINE v == NumberBits(n, width)
           late == n >= 2 ^ Least(8 * width, 20)
<1>1. v \in Chunks /\ Bytes(v) = width /\ width # 0 /\ width \in Nat /\ FALSE \in BOOLEAN
  <2>1. width \in Nat /\ width # 0
    OBVIOUS
  <2>2. v \in Seq(Bit) /\ Len(v) = 8 * width
    BY <2>1, NumberBitsType
  <2> HIDE DEF v
  <2> QED  BY <2>1, <2>2, ChunkOf
<1>2. o \in Outputs /\ o.le = le /\ o.err = FALSE
  BY CleanFields
<1>3. WriteNumber(o, n, width) = WriteBits([o EXCEPT !.err = o.err \/ late], v, 8 * width, FALSE)
  BY Zenon DEF WriteNumber
<1>4. ASSUME Holds(width, n)  PROVE WriteNumber(o, n, width) = WriteRaw(o, Number(n, width, le))
  <2>1. (o.err \/ late) = FALSE
    <3>3. PICK p \in Nat : p = 2 ^ Least(8 * width, 20)
      BY LimitType, Zenon
    <3>4. n < p
      BY <1>4, <3>3 DEF Holds
    <3>5. ~(n >= p)
      BY <3>4
    <3> QED  BY <1>2, <3>3, <3>5, Zenon
  <2>2. [o EXCEPT !.err = FALSE] = o
    BY <1>2 DEF Outputs
  <2>3. WriteNumber(o, n, width) = WriteBits(o, v, 8 * width, FALSE)
    BY <1>3, <2>1, <2>2, Zenon
  <2> HIDE DEF v
  <2>4. WriteBits(o, v, 8 * width, FALSE) = WriteRaw(o, Ordered(v, le))
    BY <1>1, BitsPut
  <2> QED  BY <2>3, <2>4, Zenon DEF Number, v
<1>5. ASSUME ~Holds(width, n)  PROVE Faulty(WriteNumber(o, n, width))
  <2>1. late
    <3>3. PICK p \in Nat : p = 2 ^ Least(8 * width, 20)
      BY LimitType, Zenon
    <3>4. ~(n < p)
      BY <1>5, <3>3 DEF Holds
    <3>5. n >= p
      BY <3>4
    <3> QED  BY <3>3, <3>5, Zenon
  <2>2. (o.err \/ late) = TRUE
    BY <2>1, Zenon
  <2> DEFINE p == [o EXCEPT !.err = TRUE]
  <2>3. WriteNumber(o, n, width) = WriteBits(p, v, 8 * width, FALSE)
    BY <1>3, <2>2, Zenon
  <2>4. Faulty(p)
    BY <1>2 DEF Faulty, Outputs
  <2> HIDE DEF p, v
  <2>5. Faulty(WriteBits(p, v, 8 * width, FALSE))
    BY <2>4 DEF WriteBits, Faulty
  <2> QED  BY <2>3, <2>5
<1> QED  BY <1>4, <1>5

-----------------------------------------------------------------------------
(* An error stays: no operation of the writer clears it.                   *)

LEMMA FaultStays ==
  ASSUME NEW o, Faulty(o)
  PROVE  /\ \A x : Faulty([o EXCEPT !.bits = x])
         /\ \A x : Faulty([o EXCEPT !.marks = x])
         /\ \A x : Faulty([o EXCEPT !.err = TRUE \/ x])
         /\ Faulty([o EXCEPT !.err = TRUE])
BY DEF Faulty

LEMMA FaultyBits ==
  ASSUME NEW o, Faulty(o), NEW v, NEW bits, NEW signed
  PROVE  Faulty(WriteBits(o, v, bits, signed))
<1>1. \/ WriteBits(o, v, bits, signed) = [o EXCEPT !.err = TRUE]
      \/ WriteBits(o, v, bits, signed) = [o EXCEPT !.bits = o.bits \o SourceBits(v, bits, o.le)]
  BY Zenon DEF WriteBits
<1>2. CASE WriteBits(o, v, bits, signed) = [o EXCEPT !.err = TRUE]
  BY <1>2, FaultStays
<1>3. CASE WriteBits(o, v, bits, signed) = [o EXCEPT !.bits = o.bits \o SourceBits(v, bits, o.le)]
  <2> DEFINE b == o.bits \o SourceBits(v, bits, o.le)
  <2>1. Faulty([o EXCEPT !.bits = b])
    BY FaultStays, Zenon
  <2> HIDE DEF b
  <2> QED  BY <1>3, <2>1 DEF b
<1> QED  BY <1>1, <1>2, <1>3

LEMMA FaultyRaw ==
  ASSUME NEW o, Faulty(o), NEW c
  PROVE  Faulty(WriteRaw(o, c)) /\ Faulty(AlignOut(o)) /\ Faulty(PushPosition(o)) /\ Faulty(PopField(o))
BY FaultStays, Zenon DEF WriteRaw, AlignOut, PushPosition, PopField

\* A further test for an error.
LEMMA FaultyOr ==
  ASSUME NEW o, Faulty(o), NEW x
  PROVE  Faulty([o EXCEPT !.err = o.err \/ x])
<1>1. o.err = TRUE
  BY DEF Faulty
<1>2. (o.err \/ x) = TRUE
  BY <1>1, Zenon
<1> QED  BY <1>2, FaultStays, Zenon

LEMMA FaultyNumber ==
  ASSUME NEW o, Faulty(o), NEW n, NEW width
  PROVE  Faulty(WriteNumber(o, n, width))
<1> DEFINE p == [o EXCEPT !.err = o.err \/ n >= 2 ^ Least(8 * width, 20)]
<1>1. Faulty(p)
  BY FaultyOr, Zenon
<1>2. \/ WriteNumber(o, n, width) = WriteBits(p, NumberBits(n, width), 8 * width, FALSE)
      \/ WriteNumber(o, n, width) = o
  BY Zenon DEF WriteNumber
<1> HIDE DEF p
<1> QED  BY <1>1, <1>2, FaultyBits, Zenon

LEMMA FaultyNumberAt ==
  ASSUME NEW o, Faulty(o), NEW n, NEW width, NEW position
  PROVE  Faulty(WriteNumberAt(o, n, width, position))
<1> DEFINE late == n >= 2 ^ Least(8 * width, 20)
           p == [o EXCEPT !.err = o.err \/ late]
           from == 8 * position
           bits == Ordered(NumberBits(n, width), o.le)
           b == [k \in 1 .. Len(o.bits) |->
                   IF k \in from + 1 .. from + 8 * width THEN bits[k - from] ELSE o.bits[k]]
<1>1. Faulty(p) /\ o.err = TRUE
  BY FaultyOr, Zenon DEF Faulty
<1>2. \/ WriteNumberAt(o, n, width, position) = o
      \/ WriteNumberAt(o, n, width, position) = p
      \/ WriteNumberAt(o, n, width, position) = [o EXCEPT !.err = o.err \/ late, !.bits = b]
  BY Zenon DEF WriteNumberAt
<1> HIDE DEF late, b
<1>3. [o EXCEPT !.err = o.err \/ late, !.bits = b] = [p EXCEPT !.bits = b]
  BY Zenon
<1> HIDE DEF p
<1>4. Faulty([p EXCEPT !.bits = b])
  BY <1>1, FaultStays, Zenon
<1>5. CASE WriteNumberAt(o, n, width, position) = o
  BY <1>5
<1>6. CASE WriteNumberAt(o, n, width, position) = p
  BY <1>1, <1>6
<1>7. CASE WriteNumberAt(o, n, width, position) = [o EXCEPT !.err = o.err \/ late, !.bits = b]
  BY <1>3, <1>4, <1>7
<1> QED  BY <1>2, <1>5, <1>6, <1>7

LEMMA FaultyField ==
  ASSUME NEW o, Faulty(o), NEW width
  PROVE  Faulty(OpenField(o, width)) /\ Faulty(CloseField(o, width))
<1>1. Faulty(OpenField(o, width))
  BY FaultyRaw, FaultyNumber, Zenon DEF OpenField
<1>2. Faulty(CloseField(o, width))
  BY FaultyRaw, FaultyNumberAt, Zenon DEF CloseField
<1> QED  BY <1>1, <1>2

-----------------------------------------------------------------------------
(* Length fields.                                                          *)

\* Patching a number changes nothing but the bits and the error flag.
NumberAt(b, n, width, p) ==
  \E e, w : /\ WriteNumberAt(b, n, width, p) = [b EXCEPT !.err = e, !.bits = w]
            /\ Holds(width, n) => e = FALSE
            /\ ~Holds(width, n) => e = TRUE

LEMMA NumberAtFields ==
  ASSUME NEW b \in Outputs, ~b.err, NEW n \in Nat, NEW width \in {1, 2, 4}, NEW p \in Nat
  PROVE  NumberAt(b, n, width, p)
<1> DEFINE late == n >= 2 ^ Least(8 * width, 20)
           w == [k \in 1 .. Len(b.bits) |->
                   IF k \in 8 * p + 1 .. 8 * p + 8 * width
                     THEN Ordered(NumberBits(n, width), b.le)[k - 8 * p] ELSE b.bits[k]]
           c == WriteNumberAt(b, n, width, p)
<1>1. c = [b EXCEPT !.err = b.err \/ late] \/ c = [b EXCEPT !.err = b.err \/ late, !.bits = w]
  BY Zenon DEF WriteNumberAt
<1>2. PICK l \in Nat : l = 2 ^ Least(8 * width, 20)
  BY LimitType, Zenon
<1>3. (Holds(width, n) => ~late) /\ (~Holds(width, n) => late)
  <2>1. (n < l => ~(n >= l)) /\ (~(n < l) => n >= l)
    OBVIOUS
  <2> QED  BY <1>2, <2>1, Zenon DEF Holds
<1>4. (Holds(width, n) => (b.err \/ late) = FALSE) /\ (~Holds(width, n) => (b.err \/ late) = TRUE)
  <2>1. b.err = FALSE
    BY DEF Outputs
  <2> QED  BY <1>3, <2>1, Zenon
<1>5. PICK e : e = (b.err \/ late) /\ (Holds(width, n) => e = FALSE) /\ (~Holds(width, n) => e = TRUE)
  BY <1>4, Zenon
<1>6. c = [b EXCEPT !.err = e] \/ c = [b EXCEPT !.err = e, !.bits = w]
  BY <1>1, <1>5, Zenon
<1> HIDE DEF late, w, c
<1>7. [b EXCEPT !.err = e] = [b EXCEPT !.err = e, !.bits = b.bits]
  BY DEF Outputs
<1>8. c = [b EXCEPT !.err = e, !.bits = b.bits] \/ c = [b EXCEPT !.err = e, !.bits = w]
  BY <1>6, <1>7
<1> QED  BY <1>5, <1>8, Zenon DEF c, NumberAt

\* A writer without an error, and what it has written and marked.
Stream(b, bits, marks, le) ==
  b \in Outputs /\ b.bits = bits /\ b.err = FALSE /\ b.marks = marks /\ b.le = le

\* A field over the bytes z behind its second mark, with s between the field and the mark.
LEMMA FieldClosed ==
  ASSUME NEW b, NEW le \in BOOLEAN, NEW width \in {1, 2, 4},
         NEW x \in Chunks, NEW y \in Chunks, NEW s \in Chunks, NEW z \in Chunks, NEW m \in Seq(Nat),
         Bytes(y) = width,
         Stream(b, x \o y \o (s \o z), m \o <<Bytes(x), Bytes(x) + width + Bytes(s)>>, le)
  PROVE  /\ Holds(width, Bytes(z)) =>
              Stream(CloseField(b, width), x \o Number(Bytes(z), width, le) \o (s \o z), m, le)
         /\ ~Holds(width, Bytes(z)) => Faulty(CloseField(b, width))
<1>0. /\ b \in Outputs /\ b.bits = x \o y \o (s \o z) /\ b.err = FALSE /\ b.le = le
      /\ b.marks = m \o <<Bytes(x), Bytes(x) + width + Bytes(s)>>
  BY DEF Stream
<1>1. /\ x \in Seq(Bit) /\ Bytes(x) \in Nat /\ Len(x) = 8 * Bytes(x)
      /\ y \in Seq(Bit) /\ Len(y) = 8 * width
      /\ z \in Seq(Bit) /\ Bytes(z) \in Nat /\ Len(z) = 8 * Bytes(z)
      /\ s \in Seq(Bit) /\ Bytes(s) \in Nat /\ Len(s) = 8 * Bytes(s)
  BY ChunkType
<1>2. PICK p \in Nat, n \in Nat, g \in Nat : p = Bytes(x) /\ n = Bytes(z) /\ g = Bytes(s)
  BY <1>1
<1>3. PICK q \in Nat : q = p + width + g
  OBVIOUS
<1>4. b.marks = m \o <<p, q>>
  BY <1>0, <1>2, <1>3
<1>5. b.marks[Len(b.marks) - 1] = p /\ b.marks[Len(b.marks)] = q
      /\ SubSeq(b.marks, 1, Len(b.marks) - 2) = m
  BY <1>4, MarksPopped
<1>6. FieldLength(b) = n
  <2>1. s \o z \in Seq(Bit) /\ Len(s \o z) = 8 * g + 8 * n
    <3>1. s \o z \in Seq(Bit) /\ Len(s \o z) = Len(s) + Len(z)
      BY <1>1, BitsJoined
    <3> QED  BY <1>1, <1>2, <3>1
  <2>2. Len(b.bits) = 8 * p + 8 * width + (8 * g + 8 * n)
    <3>1. Assembled(x \o y \o (s \o z), x, y, s \o z)
      BY <1>1, <2>1, ThreePieces
    <3> QED  BY <1>0, <1>1, <1>2, <2>1, <3>1 DEF Assembled
  <2>3. \A w \in Nat : (8 * p + 8 * w + (8 * g + 8 * n)) \div 8 = p + w + g + n
    OBVIOUS
  <2>4. Position(b) = p + width + g + n
    BY <2>2, <2>3 DEF Position
  <2>5. FieldLength(b) = Position(b) - q
    BY <1>5 DEF FieldLength
  <2> QED  BY <1>3, <2>4, <2>5
<1> DEFINE a == WriteNumberAt(b, n, width, p)
           c == CloseField(b, width)
<1>7. c = PopField(a)
  BY <1>5, <1>6, Zenon DEF CloseField
<1>8. c.bits = x \o Number(n, width, le) \o (s \o z) /\ c.marks = m
  <2>1. s \o z \in Seq(Bit)
    BY <1>1, ConcatProperties
  <2>2. Patched(b, x, s \o z, n, width, p)
    <3>1. PICK t \in Seq(Bit) : t = s \o z
      BY <2>1
    <3>2. b.bits = x \o y \o t /\ Len(x) = 8 * p /\ Len(y) = 8 * width
      BY <1>0, <1>1, <1>2, <3>1
    <3>3. Patched(b, x, t, n, width, p)
      BY <1>0, <1>1, <3>2, FieldPatched
    <3> QED  BY <3>1, <3>3
  <2>3. /\ PopField(a).bits = x \o Ordered(NumberBits(n, width), b.le) \o (s \o z)
        /\ PopField(a).marks = SubSeq(b.marks, 1, Len(b.marks) - 2)
    BY <2>2, Zenon DEF Patched
  <2> QED  BY <1>0, <1>5, <1>7, <2>3, Zenon DEF Number
<1>9. PICK e, w : /\ a = [b EXCEPT !.err = e, !.bits = w]
                  /\ Holds(width, n) => e = FALSE
                  /\ ~Holds(width, n) => e = TRUE
  <2>1. ~b.err /\ b \in Outputs
    BY <1>0
  <2>2. NumberAt(b, n, width, p)
    BY <2>1, NumberAtFields
  <2> QED  BY <2>2, Zenon DEF NumberAt
<1>13. /\ DOMAIN a = {"bits", "err", "marks", "le"} /\ a.err = e /\ a.le = b.le
       /\ a = [k \in {"bits", "err", "marks", "le"} |-> a[k]]
  <2> HIDE DEF a
  <2> QED  BY <1>0, <1>9 DEF Outputs
<1>10. PopField(a) = [a EXCEPT !.marks = SubSeq(a.marks, 1, Len(a.marks) - 2)]
  BY Zenon DEF PopField
<1>11. ASSUME Holds(width, n)
       PROVE  c \in Outputs /\ c.err = FALSE /\ c.le = le
  <2>1. a.err = FALSE /\ a.le = le
    BY <1>0, <1>9, <1>11, <1>13
  <2> HIDE DEF a
  <2>2. /\ DOMAIN c = {"bits", "err", "marks", "le"} /\ c.err = FALSE /\ c.le = le
        /\ c = [k \in {"bits", "err", "marks", "le"} |-> c[k]]
    BY <1>7, <1>10, <1>13, <2>1
  <2>3. x \o Number(n, width, le) \o (s \o z) \in Seq(Bit)
    <3>1. Number(n, width, le) \in Seq(Bit) /\ s \o z \in Seq(Bit)
      BY <1>1, NumberChunk, ChunkType, ConcatProperties
    <3> QED  BY <1>1, <3>1, ThreePieces
  <2>4. c.bits \in Seq(Bit) /\ c.marks \in Seq(Nat)
    BY <1>8, <2>3
  <2> HIDE DEF c
  <2> QED  BY <2>2, <2>4 DEF Outputs
<1>12. ASSUME ~Holds(width, n)  PROVE Faulty(c)
  <2>1. Faulty(a)
    BY <1>9, <1>12, <1>13 DEF Faulty
  <2> HIDE DEF a
  <2> QED  BY <1>7, <2>1, FaultyRaw
<1> HIDE DEF c
<1> QED  BY <1>2, <1>8, <1>11, <1>12 DEF c, Stream

LEMMA MarkedClean ==
  ASSUME NEW o, NEW le, Clean(o, le)
  PROVE  Clean(PushPosition(o), le) /\ PushPosition(o).bits = o.bits
         /\ PushPosition(o).marks = Append(o.marks, Bytes(o.bits))
<1>1. o \in Outputs /\ o.err = FALSE /\ o.le = le /\ Len(o.bits) % 8 = 0
  BY CleanFields
<1>2. /\ PushPosition(o) \in Outputs /\ PushPosition(o).bits = o.bits /\ PushPosition(o).le = o.le
      /\ PushPosition(o).marks = Append(o.marks, Position(o)) /\ Position(o) \in Nat
  BY <1>1, Pushed
<1>3. PushPosition(o).err = o.err
  <2> DEFINE m == Append(o.marks, Position(o))
  <2>1. PushPosition(o) = [o EXCEPT !.marks = m]
    BY Zenon DEF PushPosition
  <2> HIDE DEF m
  <2> QED  BY <1>1, <2>1 DEF Outputs
<1>4. Position(o) = Bytes(o.bits)
  BY DEF Position, Bytes
<1> HIDE DEF PushPosition
<1> QED  BY <1>1, <1>2, <1>3, <1>4 DEF Clean

LEMMA ZeroHeld ==
  ASSUME NEW width \in {1, 2, 4}
  PROVE  Holds(width, 0)
<1>1. Holds(1, 0) /\ Holds(2, 0) /\ Holds(4, 0)
  BY WidthHolds
<1> QED  BY <1>1

\* An opened field and the bytes of the marks.
LEMMA FieldOpenedClean ==
  ASSUME NEW o, NEW le, Clean(o, le), NEW width \in {1, 2, 4}
  PROVE  /\ Clean(OpenField(o, width), le)
         /\ OpenField(o, width).bits = o.bits \o Number(0, width, le)
         /\ OpenField(o, width).marks = o.marks \o <<Bytes(o.bits), Bytes(o.bits) + width>>
<1>1. o \in Outputs /\ o.le = le /\ Len(o.bits) % 8 = 0
  BY CleanFields
<1> DEFINE q == PushPosition(o)
           r == WriteNumber(q, 0, width)
<1>2. Clean(q, le)
  BY MarkedClean
<1>3. r = WriteRaw(q, Number(0, width, le)) /\ Number(0, width, le) \in Chunks
  <2>1. 0 \in Nat /\ Holds(width, 0) /\ le \in BOOLEAN
    BY ZeroHeld, CleanFields
  <2> HIDE DEF q
  <2> QED  BY <1>2, <2>1, NumberPut, NumberChunk
<1>4. Clean(r, le)
  <2> HIDE DEF q, r
  <2> QED  BY <1>2, <1>3, CleanWritten
<1>5. Clean(PushPosition(r), le)
  <2> HIDE DEF q, r
  <2> QED  BY <1>4, MarkedClean
<1>6. OpenField(o, width) = PushPosition(r)
  BY Zenon DEF OpenField
<1>7. LET a == OpenField(o, width)
      IN  /\ a \in Outputs /\ a.le = o.le
          /\ a.bits = o.bits \o Ordered(NumberBits(0, width), o.le)
          /\ a.marks = o.marks \o <<Position(o), Position(o) + width>>
  BY <1>1, FieldOpened
<1> HIDE DEF q, r
<1> QED  BY <1>1, <1>5, <1>6, <1>7, Zenon DEF Position, Bytes, Number

\* A field, with the bytes it counts.
LEMMA FieldWritten ==
  ASSUME NEW o, NEW le, Clean(o, le), NEW width \in {1, 2, 4}, NEW c \in Chunks
  PROVE  /\ Holds(width, Bytes(c)) =>
              CloseField(WriteRaw(OpenField(o, width), c), width)
                = WriteRaw(o, Number(Bytes(c), width, le) \o c)
         /\ ~Holds(width, Bytes(c)) => Faulty(CloseField(WriteRaw(OpenField(o, width), c), width))
<1> DEFINE x == o.bits
           y == Number(0, width, le)
           a == OpenField(o, width)
           b == WriteRaw(a, c)
           d == CloseField(b, width)
           e == Number(Bytes(c), width, le)
<1>1. /\ o \in Outputs /\ x \in Seq(Bit) /\ Len(x) \in Nat /\ Len(x) % 8 = 0 /\ o.err = FALSE
      /\ o.le = le /\ le \in BOOLEAN /\ o.marks \in Seq(Nat)
  BY CleanFields
<1>2. x \in Chunks /\ c \in Seq(Bit) /\ Bytes(c) \in Nat
  BY <1>1, ChunkType DEF Chunks
<1>3. y \in Chunks /\ Bytes(y) = width /\ e \in Chunks
  BY <1>1, <1>2, NumberChunk
<1>4. y \in Seq(Bit) /\ e \in Seq(Bit)
  BY <1>3, ChunkType
<1>5. <<>> \in Chunks /\ Bytes(<<>>) = 0 /\ <<>> \o c = c
  <2>1. <<>> \in Seq(Bit) /\ Len(<<>>) = 8 * 0 /\ 0 \in Nat
    BY EmptySeq
  <2>2. <<>> \o c = c
    BY <1>2, ConcatEmptySeq
  <2> QED  BY <2>1, <2>2, ChunkOf
<1>6. Clean(a, le) /\ a.bits = x \o y /\ a.marks = o.marks \o <<Bytes(x), Bytes(x) + width>>
  BY FieldOpenedClean
<1> HIDE DEF a, y, e
<1>7. Stream(b, (x \o y) \o c, o.marks \o <<Bytes(x), Bytes(x) + width>>, le)
  <2>1. a \in Outputs /\ a.err = FALSE /\ a.le = le
    BY <1>6, CleanFields
  <2>2. b \in Outputs /\ b.bits = a.bits \o c /\ b.err = a.err /\ b.marks = a.marks /\ b.le = a.le
    BY <1>2, <2>1, RawFields
  <2> HIDE DEF b
  <2> QED  BY <1>6, <2>1, <2>2 DEF Stream
<1> HIDE DEF b
<1>8. Stream(b, x \o y \o (<<>> \o c), o.marks \o <<Bytes(x), Bytes(x) + width + Bytes(<<>>)>>, le)
  <2>1. Bytes(x) + width + 0 = Bytes(x) + width
    BY <1>2, ChunkType
  <2> QED  BY <1>5, <1>7, <2>1, Zenon
<1>9. /\ Holds(width, Bytes(c)) => Stream(d, x \o e \o (<<>> \o c), o.marks, le)
      /\ ~Holds(width, Bytes(c)) => Faulty(d)
  <2>1. PICK n \in Chunks : n = <<>>
    BY <1>5
  <2>2. Stream(b, x \o y \o (n \o c), o.marks \o <<Bytes(x), Bytes(x) + width + Bytes(n)>>, le)
    BY <1>8, <2>1
  <2>3. /\ Holds(width, Bytes(c)) => Stream(d, x \o e \o (n \o c), o.marks, le)
        /\ ~Holds(width, Bytes(c)) => Faulty(d)
    <3>1. x \in Chunks /\ y \in Chunks /\ Bytes(y) = width /\ o.marks \in Seq(Nat)
      BY <1>1, <1>2, <1>3
    <3>2. le \in BOOLEAN /\ n \in Chunks /\ c \in Chunks
      BY <1>1
    <3> QED  BY <2>2, <3>1, <3>2, FieldClosed DEF e
  <2> QED  BY <2>1, <2>3
<1> HIDE DEF d
<1>10. ASSUME Holds(width, Bytes(c))  PROVE d = WriteRaw(o, e \o c)
  <2> DEFINE w == WriteRaw(o, e \o c)
  <2>1. e \o c \in Seq(Bit)
    BY <1>2, <1>4, BitsJoined
  <2>2. w \in Outputs /\ w.bits = x \o (e \o c) /\ w.err = o.err /\ w.marks = o.marks /\ w.le = o.le
    BY <1>1, <2>1, RawFields
  <2>3. (x \o e) \o c = x \o (e \o c)
    BY <1>1, <1>2, <1>4, BitsAssociative
  <2> HIDE DEF w
  <2>4. d \in Outputs /\ d.bits = w.bits /\ d.err = w.err /\ d.marks = w.marks /\ d.le = w.le
    BY <1>1, <1>5, <1>9, <1>10, <2>2, <2>3 DEF Stream
  <2>5. d = w
    BY <2>2, <2>4, SameOutput
  <2> QED  BY <2>5 DEF w
<1> QED  BY <1>9, <1>10 DEF a, b, d, e

\* The bytes of a container: its content, behind a length field if it has one.
Framed(width, c, le) == IF width = 0 THEN c ELSE Number(Bytes(c), width, le) \o c

Frames(width, c) == width = 0 \/ Holds(width, Bytes(c))

LEMMA FramedChunk ==
  ASSUME NEW le \in BOOLEAN, NEW width \in {0, 1, 2, 4}, NEW c \in Chunks
  PROVE  Framed(width, c, le) \in Chunks
<1>1. CASE width = 0
  BY <1>1 DEF Framed
<1>2. CASE width # 0
  <2>1. width \in {1, 2, 4} /\ Bytes(c) \in Nat
    BY <1>2, ChunkType
  <2>2. Number(Bytes(c), width, le) \o c \in Chunks
    BY <2>1, NumberChunk, ChunkConcat
  <2> QED  BY <1>2, <2>2, Zenon DEF Framed
<1> QED  BY <1>1, <1>2

FrameOutcome(f, o, width, c, le) ==
  /\ Frames(width, c) => f = WriteRaw(o, Framed(width, c, le))
  /\ ~Frames(width, c) => Faulty(f)

LEMMA FrameWritten ==
  ASSUME NEW o, NEW le, Clean(o, le), NEW width \in {0, 1, 2, 4}, NEW c \in Chunks
  PROVE  /\ Clean(Opened(o, width), le) /\ Framed(width, c, le) \in Chunks
         /\ FrameOutcome(Closed(WriteRaw(Opened(o, width), c), width), o, width, c, le)
<1>1. CASE width = 0
  BY <1>1 DEF Opened, Closed, Framed, Frames, FrameOutcome
<1>2. CASE width # 0
  <2>1. width \in {1, 2, 4} /\ le \in BOOLEAN /\ Bytes(c) \in Nat
    BY <1>2, CleanFields, ChunkType
  <2>2. /\ Opened(o, width) = OpenField(o, width)
        /\ Framed(width, c, le) = Number(Bytes(c), width, le) \o c
        /\ Frames(width, c) <=> Holds(width, Bytes(c))
    BY <1>2 DEF Opened, Framed, Frames
  <2>3. Closed(WriteRaw(Opened(o, width), c), width) = CloseField(WriteRaw(OpenField(o, width), c), width)
    BY <1>2, <2>2, Zenon DEF Closed
  <2>4. Clean(OpenField(o, width), le)
    BY <2>1, FieldOpenedClean
  <2>5. Number(Bytes(c), width, le) \o c \in Chunks
    BY <2>1, NumberChunk, ChunkConcat
  <2>6. /\ Holds(width, Bytes(c)) =>
             CloseField(WriteRaw(OpenField(o, width), c), width)
               = WriteRaw(o, Number(Bytes(c), width, le) \o c)
        /\ ~Holds(width, Bytes(c)) => Faulty(CloseField(WriteRaw(OpenField(o, width), c), width))
    BY <2>1, FieldWritten
  <2> QED  BY <2>2, <2>3, <2>4, <2>5, <2>6 DEF FrameOutcome
<1> QED  BY <1>1, <1>2

\* A reader behind the length field, if there is one, has the content ahead.
Headed(s, i, width, c, le) ==
  /\ s = [i |-> Moved(i, width), n |-> IF width = 0 THEN 0 ELSE Bytes(c)]
  /\ Ready(Moved(i, width), le) /\ Ahead(Moved(i, width), c)
  /\ Moved(Moved(i, width), Bytes(c)) = Moved(i, Bytes(Framed(width, c, le)))

LEMMA FrameRead ==
  ASSUME NEW i, NEW le, Ready(i, le), NEW width \in {0, 1, 2, 4}, NEW c \in Chunks, Frames(width, c),
         Ahead(i, Framed(width, c, le)), NEW permitted, width # 0 \/ permitted = TRUE
  PROVE  Headed(ReadNumber(AlignIn(i), width, permitted), i, width, c, le)
<1>1. i \in Inputs /\ i.pos % 8 = 0 /\ i.err = FALSE /\ le \in BOOLEAN /\ i.rem \in Nat
  BY ReadyFields DEF Ready
<1>2. AlignIn(i) = i
  BY <1>1, AlignedReader
<1>3. Bytes(c) \in Nat
  BY ChunkType
<1>4. CASE width = 0
  <2>1. Moved(i, width) = i /\ Framed(width, c, le) = c
    BY <1>1, <1>4, MovedNowhere DEF Framed
  <2>2. ReadNumber(i, width, permitted) = [i |-> [i EXCEPT !.err = i.err \/ ~permitted], n |-> 0]
    BY <1>4, Zenon DEF ReadNumber
  <2>3. (i.err \/ ~permitted) = FALSE
    BY <1>1, <1>4, Zenon
  <2>4. [i EXCEPT !.err = FALSE] = i
    BY <1>1 DEF Inputs
  <2>5. ReadNumber(i, width, permitted) = [i |-> i, n |-> 0]
    BY <2>2, <2>3, <2>4, Zenon
  <2> QED  BY <1>2, <1>4, <2>1, <2>5 DEF Headed
<1>5. CASE width # 0
  <2>1. width \in {1, 2, 4} /\ width \in Nat
    BY <1>5
  <2>2. Framed(width, c, le) = Number(Bytes(c), width, le) \o c /\ Holds(width, Bytes(c))
    BY <1>5 DEF Framed, Frames
  <2>3. Number(Bytes(c), width, le) \in Chunks /\ Bytes(Number(Bytes(c), width, le)) = width
    BY <1>1, <1>3, <2>1, NumberChunk
  <2> DEFINE d == Number(Bytes(c), width, le)
  <2>4. d \in Chunks /\ Bytes(d) = width /\ Ahead(i, d \o c)
    BY <2>2, <2>3
  <2>5. /\ Ahead(i, d) /\ Ready(Moved(i, Bytes(d)), le)
        /\ Ahead(Moved(i, Bytes(d)), c)
        /\ Moved(Moved(i, Bytes(d)), Bytes(c)) = Moved(i, Bytes(d \o c))
    <3> HIDE DEF d
    <3> QED  BY <2>4, AheadSplit
  <2>6. ReadNumber(i, width, permitted) = [i |-> Moved(i, width), n |-> Bytes(c)]
    <3>1. Holds(width, Bytes(c)) /\ Bytes(c) \in Nat /\ width \in {1, 2, 4}
      BY <1>3, <2>1, <2>2
    <3>2. Ahead(i, d) => ReadNumber(i, width, permitted) = [i |-> Moved(i, width), n |-> Bytes(c)]
      BY <3>1, NumberRead
    <3> QED  BY <2>5, <3>2
  <2> HIDE DEF d
  <2> QED  BY <1>2, <1>5, <2>2, <2>4, <2>5, <2>6 DEF d, Headed
<1> QED  BY <1>4, <1>5

\* Of a body that ends in the length field or behind it.
LEMMA FrameShort ==
  ASSUME NEW i, NEW le, Ready(i, le), NEW width \in {1, 2, 4}, NEW c \in Chunks, Holds(width, Bytes(c)),
         Short(i, Framed(width, c, le)), NEW permitted
  PROVE  \/ ReadNumber(AlignIn(i), width, permitted).i = Fail(i)
         \/ /\ ReadNumber(AlignIn(i), width, permitted) = [i |-> Moved(i, width), n |-> Bytes(c)]
            /\ Ready(Moved(i, width), le) /\ Short(Moved(i, width), c)
<1>1. i \in Inputs /\ i.pos % 8 = 0 /\ le \in BOOLEAN
  BY ReadyFields DEF Ready
<1>2. AlignIn(i) = i
  BY <1>1, AlignedReader
<1>3. Bytes(c) \in Nat /\ width # 0
  BY ChunkType
<1> DEFINE d == Number(Bytes(c), width, le)
<1>4. d \in Chunks /\ Bytes(d) = width
  BY <1>1, <1>3, NumberChunk
<1>5. Short(i, d \o c)
  BY <1>3, Zenon DEF Framed
<1>6. \/ Short(i, d)
      \/ Ahead(i, d) /\ Ready(Moved(i, Bytes(d)), le) /\ Short(Moved(i, Bytes(d)), c)
  <2> HIDE DEF d
  <2> QED  BY <1>4, <1>5, ShortSplit
<1>7. /\ Ahead(i, d) => ReadNumber(i, width, permitted) = [i |-> Moved(i, width), n |-> Bytes(c)]
      /\ Short(i, d) => ReadNumber(i, width, permitted).i = Fail(i)
  BY <1>3, NumberRead
<1> HIDE DEF d
<1> QED  BY <1>2, <1>4, <1>6, <1>7

-----------------------------------------------------------------------------
(* The choice of the overload.                                             *)

LEMMA Overloads ==
  ASSUME NEW t
  PROVE  /\ t.k = "int" => /\ \A o, v : WriteOverload(o, t, v) = WriteInt(o, t, v)
                           /\ \A i : ReadOverload(i, t) = ReadInt(i, t)
         /\ t.k = "float" => /\ \A o, v : WriteOverload(o, t, v) = WriteBits(o, v, Len(v), FALSE)
                             /\ \A i : ReadOverload(i, t) = ReadFloat(i, t)
         /\ t.k = "ranged" => /\ \A o, v : WriteOverload(o, t, v) = WriteRanged(o, t, v)
                              /\ \A i : ReadOverload(i, t) = ReadRanged(i, t)
         /\ t.k = "enum" => /\ \A o, v : WriteOverload(o, t, v) = WriteEnum(o, t, v)
                            /\ \A i : ReadOverload(i, t) = ReadEnum(i, t)
         /\ t.k = "version" => /\ \A o, v : WriteOverload(o, t, v) = WriteVersion(o, v)
                               /\ \A i : ReadOverload(i, t) = ReadVersion(i)
         /\ t.k = "string" => /\ \A o, v : WriteOverload(o, t, v) = WriteString(o, t, v)
                              /\ \A i : ReadOverload(i, t) = ReadString(i, t)
         /\ t.k = "buffer" => /\ \A o, v : WriteOverload(o, t, v) = WriteByteBuffer(o, t, v)
                              /\ \A i : ReadOverload(i, t) = ReadByteBuffer(i, t)
         /\ t.k = "bytes" => /\ \A o, v : WriteOverload(o, t, v) = WriteByteArray(o, t, v)
                             /\ \A i : ReadOverload(i, t) = ReadByteArray(i, t)
BY DEF WriteOverload, ReadOverload

LEMMA ContainerOverloads ==
  ASSUME NEW t
  PROVE  /\ t.k = "array" => /\ \A o, v : WriteOverload(o, t, v) = WriteArray(o, t, v)
                             /\ \A i : ReadOverload(i, t) = ReadArray(i, t)
         /\ t.k = "map" => /\ \A o, v : WriteOverload(o, t, v) = WriteMap(o, t, v)
                           /\ \A i : ReadOverload(i, t) = ReadMap(i, t)
         /\ t.k = "struct" => /\ \A o, v : WriteOverload(o, t, v) = WriteStruct(o, t, v)
                              /\ \A i : ReadOverload(i, t) = ReadStruct(i, t)
         /\ t.k = "poly" => /\ \A o, v : WriteOverload(o, t, v) = WritePolymorphic(o, t, v)
                            /\ \A i : ReadOverload(i, t) = ReadPolymorphic(i, t)
         /\ t.k = "variant" => /\ \A o, v : WriteOverload(o, t, v) = WriteVariant(o, t, v)
                               /\ \A i : ReadOverload(i, t) = ReadVariant(i, t)
BY DEF WriteOverload, ReadOverload

-----------------------------------------------------------------------------
(* Values of whole bytes: what writing leaves and what reading finds.      *)

\* The bits of a number of n bytes.
Sized(v, n) == v \in Chunks /\ Bytes(v) = n /\ n \in Nat \ {0}

LEMMA ValueOrdered ==
  ASSUME NEW v, NEW n, Sized(v, n), NEW le \in BOOLEAN
  PROVE  /\ Ordered(v, le) \in Chunks /\ Bytes(Ordered(v, le)) = n
         /\ Ordered(Ordered(v, le), le) = v
<1>1. v \in Seq(Bit) /\ Len(v) = 8 * n /\ n \in Nat /\ Len(v) % 8 = 0
  BY ChunkType DEF Sized, Chunks
<1>2. Ordered(v, le) \in Seq(Bit) /\ Len(Ordered(v, le)) = Len(v)
  BY <1>1, OrderedType
<1>3. Ordered(Ordered(v, le), le) = v
  BY <1>1, OrderedTwice
<1> QED  BY <1>1, <1>2, <1>3, ChunkOf

LEMMA MovedClears ==
  ASSUME NEW i, NEW le, Ready(i, le), NEW n \in Nat, n <= i.rem
  PROVE  [Moved(i, n) EXCEPT !.err = FALSE] = Moved(i, n)
<1>1. i \in Inputs /\ i.err = FALSE
  BY ReadyFields DEF Ready
<1>2. Moved(i, n) \in Inputs /\ Moved(i, n).err = FALSE
  BY <1>1, MovedFields
<1> HIDE DEF Moved
<1> QED  BY <1>2 DEF Inputs

\* What a value that is all there is read as, and one that is not.
Intact(i, v, n, signed) ==
  /\ ReadBits(i, n, 8 * n, signed) = [failed |-> FALSE, i |-> Moved(i, n), v |-> v]
  /\ [Moved(i, n) EXCEPT !.err = FALSE] = Moved(i, n)

Cut(i, n, signed) ==
  ReadBits(i, n, 8 * n, signed) = [failed |-> TRUE, i |-> i, v |-> Copies(0, 8 * n)]

LEMMA ValueRead ==
  ASSUME NEW i, NEW le, Ready(i, le), NEW v, NEW n, Sized(v, n), NEW signed \in BOOLEAN
  PROVE  /\ Ahead(i, Ordered(v, le)) => Intact(i, v, n, signed)
         /\ Short(i, Ordered(v, le)) => Cut(i, n, signed)
<1> DEFINE c == Ordered(v, le)
<1>0. le \in BOOLEAN /\ n \in Nat /\ n # 0
  BY ReadyFields DEF Sized
<1>1. c \in Chunks /\ Bytes(c) = n /\ Ordered(c, le) = v /\ Bytes(c) # 0
  BY <1>0, ValueOrdered
<1> HIDE DEF c
<1>2. /\ Ahead(i, c) => ReadBits(i, n, 8 * n, signed) = [failed |-> FALSE, i |-> Moved(i, n), v |-> v]
      /\ Short(i, c) => ReadBits(i, n, 8 * n, signed) = [failed |-> TRUE, i |-> i, v |-> Copies(0, 8 * n)]
  BY <1>1, BitsRead
<1>3. Ahead(i, c) => n <= i.rem
  BY <1>1 DEF Ahead
<1>4. Ahead(i, c) => [Moved(i, n) EXCEPT !.err = FALSE] = Moved(i, n)
  BY <1>0, <1>3, MovedClears
<1> QED  BY <1>2, <1>4, Zenon DEF Intact, Cut, c

LEMMA SizedRead ==
  ASSUME NEW i, NEW t, NEW v, NEW n, t.bits = 8 * n
  PROVE  /\ Intact(i, v, n, t.signed) => ReadSized(i, t, n) = Result(Moved(i, n), v)
         /\ Cut(i, n, t.signed) /\ t.inv = NoInvalid => ReadSized(i, t, n).i = Fail(i)
<1> DEFINE r == ReadBits(i, n, 8 * n, t.signed)
<1>1. ReadSized(i, t, n) = IF r.failed /\ t.inv # NoInvalid
                             THEN Result([r.i EXCEPT !.err = FALSE], t.inv)
                             ELSE Result([r.i EXCEPT !.err = r.failed], r.v)
  BY Zenon DEF ReadSized
<1>2. ASSUME Intact(i, v, n, t.signed)  PROVE ReadSized(i, t, n) = Result(Moved(i, n), v)
  <2>1. r = [failed |-> FALSE, i |-> Moved(i, n), v |-> v]
    BY <1>2, Zenon DEF Intact
  <2> HIDE DEF r
  <2>2. r.failed = FALSE /\ r.i = Moved(i, n) /\ r.v = v
    BY <2>1
  <2>3. ReadSized(i, t, n) = Result([Moved(i, n) EXCEPT !.err = FALSE], v)
    BY <1>1, <2>2, Zenon
  <2> QED  BY <1>2, <2>3, Zenon DEF Intact
<1>3. ASSUME Cut(i, n, t.signed), t.inv = NoInvalid  PROVE ReadSized(i, t, n).i = Fail(i)
  <2>1. r = [failed |-> TRUE, i |-> i, v |-> Copies(0, 8 * n)]
    BY <1>3, Zenon DEF Cut
  <2> HIDE DEF r
  <2>2. r.failed = TRUE /\ r.i = i
    BY <2>1
  <2>3. ReadSized(i, t, n) = Result([i EXCEPT !.err = TRUE], r.v)
    BY <1>1, <1>3, <2>2, Zenon
  <2> QED  BY <2>3 DEF Result, Fail
<1> QED  BY <1>2, <1>3

LEMMA ValuePut ==
  ASSUME NEW o, NEW le, Clean(o, le), NEW v, NEW n, Sized(v, n), NEW signed \in BOOLEAN
  PROVE  WriteBits(o, v, 8 * n, signed) = WriteRaw(o, Ordered(v, le))
<1>1. v \in Chunks /\ Bytes(v) = n /\ Bytes(v) # 0
  BY DEF Sized
<1>2. WriteBits(o, v, 8 * Bytes(v), signed) = WriteRaw(o, Ordered(v, le))
  BY <1>1, BitsPut
<1> QED  BY <1>1, <1>2

LEMMA FailErr ==
  ASSUME NEW i \in Inputs
  PROVE  Fail(i).err = TRUE
BY DEF Fail, Inputs

\* Integers of whole bytes.
LEMMA IntCarried ==
  ASSUME NEW t, NEW v, Sized(v, t.size), t.bits = 8 * t.size, t.signed \in BOOLEAN, NEW le
  PROVE  /\ \A o : Clean(o, le) => WriteInt(o, t, v) = WriteRaw(o, Ordered(v, le))
         /\ \A i : Ready(i, le) /\ Ahead(i, Ordered(v, le)) => ReadInt(i, t) = Result(Moved(i, t.size), v)
         /\ \A i : Ready(i, le) /\ Short(i, Ordered(v, le)) /\ t.inv = NoInvalid => ReadInt(i, t).i = Fail(i)
<1>1. ASSUME NEW o, Clean(o, le)  PROVE WriteInt(o, t, v) = WriteRaw(o, Ordered(v, le))
  <2>1. WriteBits(o, v, 8 * t.size, t.signed) = WriteRaw(o, Ordered(v, le))
    BY <1>1, ValuePut
  <2> QED  BY <2>1, Zenon DEF WriteInt
<1>2. ASSUME NEW i, Ready(i, le)
      PROVE  /\ Ahead(i, Ordered(v, le)) => Intact(i, v, t.size, t.signed)
             /\ Short(i, Ordered(v, le)) => Cut(i, t.size, t.signed)
  BY <1>2, ValueRead
<1>3. ASSUME NEW i, Ready(i, le), Ahead(i, Ordered(v, le))
      PROVE  ReadInt(i, t) = Result(Moved(i, t.size), v)
  <2>1. Intact(i, v, t.size, t.signed)
    BY <1>2, <1>3
  <2>2. ReadSized(i, t, t.size) = Result(Moved(i, t.size), v)
    BY <2>1, SizedRead
  <2>3. ReadInt(i, t) = ReadSized(i, t, t.size)
    BY Zenon DEF ReadInt
  <2> QED  BY <2>2, <2>3
<1>4. ASSUME NEW i, Ready(i, le), Short(i, Ordered(v, le)), t.inv = NoInvalid
      PROVE  ReadInt(i, t).i = Fail(i)
  <2>1. Cut(i, t.size, t.signed)
    BY <1>2, <1>4
  <2>2. ReadSized(i, t, t.size).i = Fail(i)
    BY <1>4, <2>1, SizedRead
  <2>3. ReadInt(i, t) = ReadSized(i, t, t.size)
    BY Zenon DEF ReadInt
  <2> QED  BY <2>2, <2>3
<1> QED  BY <1>1, <1>3, <1>4

LEMMA FloatCarried ==
  ASSUME NEW t, NEW v, Sized(v, t.size), NEW le
  PROVE  /\ \A o : Clean(o, le) => WriteBits(o, v, Len(v), FALSE) = WriteRaw(o, Ordered(v, le))
         /\ \A i : Ready(i, le) /\ Ahead(i, Ordered(v, le)) => ReadFloat(i, t) = Result(Moved(i, t.size), v)
         /\ \A i : Ready(i, le) /\ Short(i, Ordered(v, le)) => ReadFloat(i, t).i = Fail(i)
<1>0. Len(v) = 8 * t.size /\ FALSE \in BOOLEAN
  BY ChunkType DEF Sized
<1>1. ASSUME NEW o, Clean(o, le)  PROVE WriteBits(o, v, Len(v), FALSE) = WriteRaw(o, Ordered(v, le))
  <2>1. WriteBits(o, v, 8 * t.size, FALSE) = WriteRaw(o, Ordered(v, le))
    BY <1>0, <1>1, ValuePut
  <2> QED  BY <1>0, <2>1
<1>2. ASSUME NEW i, Ready(i, le)
      PROVE  /\ Ahead(i, Ordered(v, le)) => Intact(i, v, t.size, FALSE)
             /\ Short(i, Ordered(v, le)) => Cut(i, t.size, FALSE)
  BY <1>0, <1>2, ValueRead
<1>3. ASSUME NEW i, Ready(i, le)
      PROVE  /\ Ahead(i, Ordered(v, le)) => ReadFloat(i, t) = Result(Moved(i, t.size), v)
             /\ Short(i, Ordered(v, le)) => ReadFloat(i, t).i = Fail(i)
  <2> DEFINE r == ReadBits(i, t.size, 8 * t.size, FALSE)
  <2>1. AlignIn(i) = i
    BY <1>3, AlignedReader DEF Ready
  <2>2. ReadFloat(i, t) = Result([r.i EXCEPT !.err = r.failed], r.v)
    BY <2>1, Zenon DEF ReadFloat
  <2>3. ASSUME Ahead(i, Ordered(v, le))  PROVE ReadFloat(i, t) = Result(Moved(i, t.size), v)
    <3>1. r = [failed |-> FALSE, i |-> Moved(i, t.size), v |-> v] /\ [Moved(i, t.size) EXCEPT !.err = FALSE] = Moved(i, t.size)
      BY <1>2, <1>3, <2>3, Zenon DEF Intact
    <3> HIDE DEF r
    <3>2. r.failed = FALSE /\ r.i = Moved(i, t.size) /\ r.v = v
      BY <3>1
    <3> QED  BY <2>2, <3>1, <3>2, Zenon
  <2>4. ASSUME Short(i, Ordered(v, le))  PROVE ReadFloat(i, t).i = Fail(i)
    <3>1. r = [failed |-> TRUE, i |-> i, v |-> Copies(0, 8 * t.size)]
      BY <1>2, <1>3, <2>4, Zenon DEF Cut
    <3> HIDE DEF r
    <3>2. r.failed = TRUE /\ r.i = i
      BY <3>1
    <3>3. ReadFloat(i, t) = Result([i EXCEPT !.err = TRUE], r.v)
      BY <2>2, <3>2, Zenon
    <3> QED  BY <3>3 DEF Result, Fail
  <2> QED  BY <2>3, <2>4
<1> QED  BY <1>1, <1>3

\* A ranged integer outside its range is not sent.
LEMMA RangedCarried ==
  ASSUME NEW t, NEW v, Sized(v, t.size), t.bits = 8 * t.size, t.signed \in BOOLEAN, NEW le
  PROVE  /\ v \in t.range => \A o : Clean(o, le) => WriteRanged(o, t, v) = WriteRaw(o, Ordered(v, le))
         /\ v \notin t.range => \A o : Clean(o, le) => Faulty(WriteRanged(o, t, v))
         /\ v \in t.range =>
              \A i : Ready(i, le) /\ Ahead(i, Ordered(v, le)) => ReadRanged(i, t) = Result(Moved(i, t.size), v)
         /\ t.inv = NoInvalid => \A i : Ready(i, le) /\ Short(i, Ordered(v, le)) => ReadRanged(i, t).i.err
<1>1. /\ \A o : Clean(o, le) => WriteInt(o, t, v) = WriteRaw(o, Ordered(v, le))
      /\ \A i : Ready(i, le) /\ Ahead(i, Ordered(v, le)) => ReadInt(i, t) = Result(Moved(i, t.size), v)
      /\ \A i : Ready(i, le) /\ Short(i, Ordered(v, le)) /\ t.inv = NoInvalid => ReadInt(i, t).i = Fail(i)
  BY IntCarried
<1>2. ASSUME v \in t.range, NEW o, Clean(o, le)  PROVE WriteRanged(o, t, v) = WriteRaw(o, Ordered(v, le))
  <2>1. WriteRanged(o, t, v) = WriteInt(o, t, v)
    BY <1>2 DEF WriteRanged
  <2> QED  BY <1>1, <1>2, <2>1
<1>3. ASSUME v \notin t.range, NEW o, Clean(o, le)  PROVE Faulty(WriteRanged(o, t, v))
  <2>1. WriteRanged(o, t, v) = [o EXCEPT !.err = TRUE]
    BY <1>3 DEF WriteRanged
  <2>2. o \in Outputs
    BY <1>3, CleanFields
  <2> QED  BY <2>1, <2>2 DEF Outputs, Faulty
<1>4. ASSUME v \in t.range, NEW i, Ready(i, le), Ahead(i, Ordered(v, le))
      PROVE  ReadRanged(i, t) = Result(Moved(i, t.size), v)
  <2>1. ReadInt(i, t) = Result(Moved(i, t.size), v)
    BY <1>1, <1>4
  <2>2. ReadInt(i, t).v = v
    BY <2>1 DEF Result
  <2>3. ReadRanged(i, t) = ReadInt(i, t)
    BY <1>4, <2>2, Zenon DEF ReadRanged
  <2> QED  BY <2>1, <2>3
<1>5. ASSUME t.inv = NoInvalid, NEW i, Ready(i, le), Short(i, Ordered(v, le))  PROVE ReadRanged(i, t).i.err
  <2>1. ReadInt(i, t).i = Fail(i) /\ i \in Inputs
    BY <1>1, <1>5 DEF Ready
  <2>2. ReadInt(i, t).i.err = TRUE
    BY <2>1, FailErr
  <2>3. ReadRanged(i, t) = ReadInt(i, t) \/ ReadRanged(i, t) = Result(Fail(ReadInt(i, t).i), ReadInt(i, t).v)
    BY DEF ReadRanged
  <2>4. Fail(ReadInt(i, t).i).err = TRUE
    <3>1. Fail(i) \in Inputs
      BY <2>1 DEF Inputs, Fail
    <3> QED  BY <2>1, <3>1, FailErr
  <2>5. CASE ReadRanged(i, t) = ReadInt(i, t)
    BY <2>2, <2>5
  <2>6. CASE ReadRanged(i, t) = Result(Fail(ReadInt(i, t).i), ReadInt(i, t).v)
    BY <2>4, <2>6 DEF Result
  <2> QED  BY <2>3, <2>5, <2>6
<1> QED  BY <1>1, <1>2, <1>3, <1>4, <1>5

LEMMA ConcatWithNothing ==
  ASSUME NEW v \in Seq(Bit), NEW x
  PROVE  v \o Copies(x, 0) = v
<1>1. Copies(x, 0) = <<>>
  BY DEF Copies
<1> QED  BY <1>1, ConcatEmptySeq

\* An enumeration: its lower bits, all that are not 0.
Narrow(v, w, n, size) == Sized(w, n) /\ size \in Nat /\ n <= size /\ v = w \o Copies(0, 8 * (size - n))

LEMMA NarrowType ==
  ASSUME NEW v, NEW w, NEW n, NEW size, Narrow(v, w, n, size)
  PROVE  SubSeq(v, 1, 8 * n) = w /\ 8 * size - Len(w) = 8 * (size - n)
<1>1. w \in Seq(Bit) /\ Len(w) = 8 * n /\ n \in Nat /\ size \in Nat /\ n <= size
  BY ChunkType DEF Narrow, Sized
<1>2. Copies(0, 8 * (size - n)) \in Seq(Bit)
  <2>1. 8 * (size - n) \in Nat
    BY <1>1
  <2>2. \A m \in Nat : Copies(0, m) \in Seq(Bit)
    BY SeqDef DEF Copies, Bit
  <2> QED  BY <2>1, <2>2
<1>3. SubSeq(w \o Copies(0, 8 * (size - n)), 1, Len(w)) = w
  <2>1. Len(w) >= 1
    BY <1>1 DEF Narrow, Sized
  <2> QED  BY <1>1, <1>2, <2>1, HeadOfConcat
<1>4. v = w \o Copies(0, 8 * (size - n))
  BY DEF Narrow
<1> QED  BY <1>1, <1>3, <1>4

LEMMA EnumCarried ==
  ASSUME NEW t, NEW v, NEW w, Narrow(v, w, EnumSize(t), t.size), t.bits = 8 * EnumSize(t),
         t.signed \in BOOLEAN, NEW le
  PROVE  /\ \A o : Clean(o, le) => WriteEnum(o, t, v) = WriteRaw(o, Ordered(w, le))
         /\ \A i : Ready(i, le) /\ Ahead(i, Ordered(w, le)) => ReadEnum(i, t) = Result(Moved(i, EnumSize(t)), v)
         /\ \A i : Ready(i, le) /\ Short(i, Ordered(w, le)) /\ t.inv = NoInvalid => ReadEnum(i, t).i = Fail(i)
<1> DEFINE n == EnumSize(t)
<1>0. Sized(w, n) /\ SubSeq(v, 1, 8 * n) = w /\ v = w \o Copies(0, 8 * t.size - Len(w))
  <2>1. SubSeq(v, 1, 8 * n) = w /\ 8 * t.size - Len(w) = 8 * (t.size - n)
    BY NarrowType
  <2> QED  BY <2>1, Zenon DEF Narrow
<1>1. ASSUME NEW o, Clean(o, le)  PROVE WriteEnum(o, t, v) = WriteRaw(o, Ordered(w, le))
  <2>1. WriteBits(o, w, 8 * n, t.signed) = WriteRaw(o, Ordered(w, le))
    <3> HIDE DEF n
    <3> QED  BY <1>0, <1>1, ValuePut
  <2> QED  BY <1>0, <2>1, Zenon DEF WriteEnum
<1>2. ASSUME NEW i, Ready(i, le)
      PROVE  /\ Ahead(i, Ordered(w, le)) => Intact(i, w, n, t.signed)
             /\ Short(i, Ordered(w, le)) => Cut(i, n, t.signed)
  <2> HIDE DEF n
  <2> QED  BY <1>0, <1>2, ValueRead
<1>3. ASSUME NEW i
      PROVE  /\ Intact(i, w, n, t.signed) => ReadSized(i, t, n) = Result(Moved(i, n), w)
             /\ Cut(i, n, t.signed) /\ t.inv = NoInvalid => ReadSized(i, t, n).i = Fail(i)
  <2>1. t.bits = 8 * n
    OBVIOUS
  <2> HIDE DEF n
  <2> QED  BY <2>1, SizedRead
<1>4. ASSUME NEW i
      PROVE  ReadEnum(i, t) = Result(ReadSized(i, t, n).i, ReadSized(i, t, n).v
                                                             \o Copies(0, 8 * t.size - Len(ReadSized(i, t, n).v)))
  BY Zenon DEF ReadEnum
<1> HIDE DEF n
<1>5. ASSUME NEW i, Ready(i, le), Ahead(i, Ordered(w, le))  PROVE ReadEnum(i, t) = Result(Moved(i, n), v)
  <2>1. ReadSized(i, t, n) = Result(Moved(i, n), w)
    BY <1>2, <1>3, <1>5
  <2>2. ReadSized(i, t, n).i = Moved(i, n) /\ ReadSized(i, t, n).v = w
    BY <2>1 DEF Result
  <2> QED  BY <1>0, <1>4, <2>2, Zenon
<1>6. ASSUME NEW i, Ready(i, le), Short(i, Ordered(w, le)), t.inv = NoInvalid  PROVE ReadEnum(i, t).i = Fail(i)
  <2>1. ReadSized(i, t, n).i = Fail(i)
    BY <1>2, <1>3, <1>6
  <2>2. PICK x : ReadEnum(i, t) = Result(Fail(i), x)
    BY <1>4, <2>1, Zenon
  <2> QED  BY <2>2 DEF Result
<1> QED  BY <1>1, <1>5, <1>6 DEF n

\* The two numbers of a version; one that is cut off is read as 0.
LEMMA VersionCarried ==
  ASSUME NEW a, NEW b, Sized(a, 4), Sized(b, 4), NEW le
  PROVE  /\ \A o : Clean(o, le) => WriteVersion(o, <<a, b>>) = WriteRaw(o, Ordered(a, le) \o Ordered(b, le))
         /\ \A i : Ready(i, le) /\ Ahead(i, Ordered(a, le) \o Ordered(b, le)) =>
                     ReadVersion(i) = Result(Moved(i, Bytes(Ordered(a, le) \o Ordered(b, le))), <<a, b>>)
         /\ \A i : Ready(i, le) /\ Short(i, Ordered(a, le) \o Ordered(b, le)) =>
                     ReadVersion(i).v[2] = Copies(0, 32)
<1> DEFINE c == Ordered(a, le)
           d == Ordered(b, le)
           v == <<a, b>>
<1>0. FALSE \in BOOLEAN /\ 8 * 4 = 32 /\ v[1] = a /\ v[2] = b
  OBVIOUS
<1>1. ASSUME NEW x, \/ Clean(x, le)
                    \/ Ready(x, le)
      PROVE  c \in Chunks /\ d \in Chunks /\ Bytes(c) = 4 /\ Bytes(d) = 4
  <2>1. le \in BOOLEAN
    BY <1>1, CleanFields, ReadyFields
  <2> QED  BY <2>1, ValueOrdered
<1>2. ASSUME NEW o, Clean(o, le)  PROVE WriteVersion(o, v) = WriteRaw(o, c \o d)
  <2>1. AlignOut(o) = o /\ o \in Outputs
    BY <1>2, CleanFields, AlignedWriter
  <2>2. WriteBits(o, a, 32, FALSE) = WriteRaw(o, c)
    <3>1. WriteBits(o, a, 8 * 4, FALSE) = WriteRaw(o, c)
      BY <1>0, <1>2, ValuePut
    <3> QED  BY <1>0, <3>1
  <2>3. Clean(WriteRaw(o, c), le)
    <3>1. c \in Chunks
      BY <1>1, <1>2
    <3> HIDE DEF c
    <3> QED  BY <1>2, <3>1, CleanWritten
  <2>4. WriteBits(WriteRaw(o, c), b, 32, FALSE) = WriteRaw(WriteRaw(o, c), d)
    <3>1. PICK p : p = WriteRaw(o, c) /\ Clean(p, le)
      BY <2>3
    <3>2. WriteBits(p, b, 8 * 4, FALSE) = WriteRaw(p, d)
      BY <1>0, <3>1, ValuePut
    <3> QED  BY <1>0, <3>1, <3>2
  <2>5. WriteRaw(WriteRaw(o, c), d) = WriteRaw(o, c \o d)
    <3>1. c \in Seq(Bit) /\ d \in Seq(Bit)
      BY <1>1, <1>2, ChunkType
    <3> HIDE DEF c, d
    <3> QED  BY <2>1, <3>1, WrittenTwice
  <2> QED  BY <1>0, <2>1, <2>2, <2>4, <2>5, Zenon DEF WriteVersion
<1>3. ASSUME NEW i, Ready(i, le)
      PROVE  /\ Ahead(i, c) => Intact(i, a, 4, FALSE)
             /\ Ahead(i, d) => Intact(i, b, 4, FALSE)
             /\ Short(i, d) => Cut(i, 4, FALSE)
  BY <1>0, <1>3, ValueRead
<1>4. ASSUME NEW i, Ready(i, le)
      PROVE  ReadVersion(i) = Result(ReadBits(ReadBits(i, 4, 32, FALSE).i, 4, 32, FALSE).i,
                                     <<ReadBits(i, 4, 32, FALSE).v,
                                       ReadBits(ReadBits(i, 4, 32, FALSE).i, 4, 32, FALSE).v>>)
  <2>1. AlignIn(i) = i
    BY <1>4, AlignedReader DEF Ready
  <2> QED  BY <2>1, Zenon DEF ReadVersion
<1>5. ASSUME NEW i, NEW u, Intact(i, u, 4, FALSE)
      PROVE  ReadBits(i, 4, 32, FALSE).i = Moved(i, 4) /\ ReadBits(i, 4, 32, FALSE).v = u
  <2>1. ReadBits(i, 4, 32, FALSE) = [failed |-> FALSE, i |-> Moved(i, 4), v |-> u]
    BY <1>0, <1>5 DEF Intact
  <2> DEFINE r == ReadBits(i, 4, 32, FALSE)
  <2>2. r = [failed |-> FALSE, i |-> Moved(i, 4), v |-> u]
    BY <2>1
  <2> HIDE DEF r
  <2>3. r.i = Moved(i, 4) /\ r.v = u
    BY <2>2
  <2> QED  BY <2>3 DEF r
<1>6. ASSUME NEW i, Ready(i, le), Ahead(i, c \o d)
      PROVE  ReadVersion(i) = Result(Moved(i, Bytes(c \o d)), v)
  <2>1. c \in Chunks /\ d \in Chunks /\ Bytes(c) = 4 /\ Bytes(d) = 4
    BY <1>1, <1>6
  <2>2. /\ Ahead(i, c) /\ Ready(Moved(i, Bytes(c)), le) /\ Ahead(Moved(i, Bytes(c)), d)
        /\ Moved(Moved(i, Bytes(c)), Bytes(d)) = Moved(i, Bytes(c \o d))
    <3> HIDE DEF c, d
    <3> QED  BY <1>6, <2>1, AheadSplit
  <2>3. Intact(i, a, 4, FALSE) /\ Intact(Moved(i, 4), b, 4, FALSE)
    <3> HIDE DEF c, d
    <3> QED  BY <1>3, <1>6, <2>1, <2>2
  <2> HIDE DEF c, d
  <2>4. ReadBits(i, 4, 32, FALSE).i = Moved(i, 4) /\ ReadBits(i, 4, 32, FALSE).v = a
    BY <1>5, <2>3
  <2>5. /\ ReadBits(Moved(i, 4), 4, 32, FALSE).i = Moved(Moved(i, 4), 4)
        /\ ReadBits(Moved(i, 4), 4, 32, FALSE).v = b
    <3>1. PICK m : m = Moved(i, 4)
      OBVIOUS
    <3>2. Intact(m, b, 4, FALSE)
      BY <2>3, <3>1
    <3>3. ReadBits(m, 4, 32, FALSE).i = Moved(m, 4) /\ ReadBits(m, 4, 32, FALSE).v = b
      BY <1>5, <3>2
    <3> QED  BY <3>1, <3>3
  <2> QED  BY <1>4, <1>6, <2>1, <2>2, <2>4, <2>5, Zenon
<1>7. ASSUME NEW i, Ready(i, le), Short(i, c \o d)
      PROVE  ReadVersion(i).v[2] = Copies(0, 32)
  <2>1. c \in Chunks /\ d \in Chunks /\ Bytes(c) = 4 /\ Bytes(d) = 4
    BY <1>1, <1>7
  <2>2. \/ Short(i, c)
        \/ Ahead(i, c) /\ Ready(Moved(i, Bytes(c)), le) /\ Short(Moved(i, Bytes(c)), d)
    <3> HIDE DEF c, d
    <3> QED  BY <1>7, <2>1, ShortSplit
  <2>3. ReadVersion(i).v[2] = ReadBits(ReadBits(i, 4, 32, FALSE).i, 4, 32, FALSE).v
    <3>1. PICK x, y, z : /\ ReadVersion(i) = Result(x, <<y, z>>)
                         /\ z = ReadBits(ReadBits(i, 4, 32, FALSE).i, 4, 32, FALSE).v
      BY <1>4, <1>7, Zenon
    <3> QED  BY <3>1 DEF Result
  <2>4. ASSUME NEW j, Cut(j, 4, FALSE)
        PROVE  ReadBits(j, 4, 32, FALSE).i = j /\ ReadBits(j, 4, 32, FALSE).v = Copies(0, 32)
    <3>1. ReadBits(j, 4, 32, FALSE) = [failed |-> TRUE, i |-> j, v |-> Copies(0, 32)]
      BY <1>0, <2>4 DEF Cut
    <3> DEFINE r == ReadBits(j, 4, 32, FALSE)
    <3>2. r = [failed |-> TRUE, i |-> j, v |-> Copies(0, 32)]
      BY <3>1
    <3> HIDE DEF r
    <3>3. r.i = j /\ r.v = Copies(0, 32)
      BY <3>2
    <3> QED  BY <3>3 DEF r
  <2>5. CASE Short(i, c)
    <3>1. i \in Inputs /\ i.pos % 8 = 0 /\ i.rem < 4 /\ 4 \in Nat \ {0}
      <4>1. Bytes(c) > i.rem /\ i.rem \in Nat
        BY <1>7, <2>5, ReadyFields DEF Short
      <4> HIDE DEF c
      <4> QED  BY <1>7, <2>1, <4>1 DEF Ready
    <3>2. Cut(i, 4, FALSE)
      BY <1>0, <3>1, BitsTaken, Zenon DEF Cut
    <3> QED  BY <2>3, <2>4, <3>2
  <2>6. CASE Ahead(i, c) /\ Ready(Moved(i, Bytes(c)), le) /\ Short(Moved(i, Bytes(c)), d)
    <3>1. Intact(i, a, 4, FALSE) /\ Cut(Moved(i, 4), 4, FALSE)
      <4> HIDE DEF c, d
      <4> QED  BY <1>3, <1>7, <2>1, <2>6
    <3> QED  BY <1>5, <2>3, <2>4, <3>1
  <2> QED  BY <2>2, <2>5, <2>6
<1> QED  BY <1>2, <1>6, <1>7

-----------------------------------------------------------------------------
(* Strings and bytes: as many bytes as a length field says.                *)

LEMMA CountedPut ==
  ASSUME NEW o, NEW le, Clean(o, le), NEW width \in {0, 1, 2, 4}, NEW c \in Chunks
  PROVE  /\ Frames(width, c) => WriteRaw(WriteNumber(o, Bytes(c), width), c) = WriteRaw(o, Framed(width, c, le))
         /\ ~Frames(width, c) => Faulty(WriteRaw(WriteNumber(o, Bytes(c), width), c))
<1>0. o \in Outputs /\ le \in BOOLEAN /\ Bytes(c) \in Nat /\ c \in Seq(Bit)
  BY CleanFields, ChunkType
<1>1. CASE width = 0
  <2>1. WriteNumber(o, Bytes(c), width) = o
    BY <1>1 DEF WriteNumber
  <2> QED  BY <1>1, <2>1 DEF Frames, Framed
<1>2. CASE width # 0
  <2>1. width \in {1, 2, 4}
    BY <1>2
  <2>2. /\ Holds(width, Bytes(c)) => WriteNumber(o, Bytes(c), width) = WriteRaw(o, Number(Bytes(c), width, le))
        /\ ~Holds(width, Bytes(c)) => Faulty(WriteNumber(o, Bytes(c), width))
    BY <1>0, <2>1, NumberPut
  <2>3. Number(Bytes(c), width, le) \in Seq(Bit)
    BY <1>0, <2>1, NumberChunk, ChunkType
  <2>4. WriteRaw(WriteRaw(o, Number(Bytes(c), width, le)), c) = WriteRaw(o, Number(Bytes(c), width, le) \o c)
    BY <1>0, <2>3, WrittenTwice
  <2>5. ASSUME ~Holds(width, Bytes(c))  PROVE Faulty(WriteRaw(WriteNumber(o, Bytes(c), width), c))
    BY <2>2, <2>5, FaultyRaw
  <2> QED  BY <1>2, <2>2, <2>4, <2>5 DEF Frames, Framed
<1> QED  BY <1>1, <1>2

\* The length of c, and the reader behind it.
Announced(i, s, width, n) ==
  /\ width = 0 => s = [i |-> AlignIn(i), n |-> n]
  /\ width # 0 => \E permitted : s = ReadNumber(AlignIn(i), width, permitted)

\* The reader j of c ends at e.
Holding(j, c, e) ==
  /\ j \in Inputs /\ j.err = FALSE /\ ~(Bytes(c) > j.rem)
  /\ ReadRaw(j, Bytes(c)) = e /\ RawBytes(j, Bytes(c)) = BytesOf(c)

Reached(i, s, width, c, le) ==
  /\ s = [i |-> Moved(i, width), n |-> Bytes(c)]
  /\ Ready(Moved(i, width), le) /\ Ahead(Moved(i, width), c)
  /\ Holding(Moved(i, width), c, Moved(i, Bytes(Framed(width, c, le))))

LEMMA CountedRead ==
  ASSUME NEW i, NEW le, Ready(i, le), NEW width \in {0, 1, 2, 4}, NEW c \in Chunks, Frames(width, c),
         Ahead(i, Framed(width, c, le)), NEW s, Announced(i, s, width, Bytes(c))
  PROVE  Reached(i, s, width, c, le)
<1> DEFINE j == Moved(i, width)
<1>1. /\ ReadNumber(AlignIn(i), width, TRUE) = [i |-> j, n |-> IF width = 0 THEN 0 ELSE Bytes(c)]
      /\ Ready(j, le) /\ Ahead(j, c) /\ Moved(j, Bytes(c)) = Moved(i, Bytes(Framed(width, c, le)))
  <2>1. Headed(ReadNumber(AlignIn(i), width, TRUE), i, width, c, le)
    BY FrameRead
  <2> QED  BY <2>1 DEF Headed
<1>2. s = [i |-> j, n |-> Bytes(c)]
  <2>1. CASE width = 0
    <3>1. AlignIn(i) = i /\ Moved(i, 0) = i
      BY AlignedReader, MovedNowhere DEF Ready
    <3> QED  BY <2>1, <3>1 DEF Announced
  <2>2. CASE width # 0
    <3>1. PICK permitted : s = ReadNumber(AlignIn(i), width, permitted)
      BY <2>2 DEF Announced
    <3>2. ReadNumber(AlignIn(i), width, permitted) = [i |-> j, n |-> IF width = 0 THEN 0 ELSE Bytes(c)]
      <4>1. Headed(ReadNumber(AlignIn(i), width, permitted), i, width, c, le)
        BY <2>2, FrameRead
      <4> QED  BY <4>1 DEF Headed
    <3> QED  BY <2>2, <3>1, <3>2
  <2> QED  BY <2>1, <2>2
<1> HIDE DEF j
<1>3. /\ Bytes(c) <= j.rem /\ ReadRaw(j, Bytes(c)) = Moved(j, Bytes(c))
      /\ RawBytes(j, Bytes(c)) = BytesOf(c)
  BY <1>1, RawRead
<1>4. j \in Inputs /\ j.err = FALSE /\ j.rem \in Nat /\ Bytes(c) \in Nat
  BY <1>1, ReadyFields, ChunkType DEF Ready
<1>5. ~(Bytes(c) > j.rem)
  BY <1>3, <1>4
<1>6. Holding(j, c, Moved(i, Bytes(Framed(width, c, le))))
  BY <1>1, <1>3, <1>4, <1>5, Zenon DEF Holding
<1> QED  BY <1>1, <1>2, <1>6, Zenon DEF j, Reached

LEMMA FailKept ==
  ASSUME NEW i \in Inputs
  PROVE  Fail(i) \in Inputs /\ Fail(i).err = TRUE /\ Fail(i).rem = i.rem /\ Fail(i).pos = i.pos
         /\ Fail(i).body = i.body /\ Fail(i).le = i.le /\ Fail(i).stray = i.stray
BY DEF Fail, Inputs

LEMMA CountedShort ==
  ASSUME NEW i, NEW le, Ready(i, le), NEW width \in {0, 1, 2, 4}, NEW c \in Chunks, Frames(width, c),
         Short(i, Framed(width, c, le)), NEW s, Announced(i, s, width, Bytes(c))
  PROVE  s.i \in Inputs /\ (s.i.err = TRUE \/ s.n > s.i.rem)
<1>0. i \in Inputs
  BY DEF Ready
<1>1. CASE width = 0
  <2>1. AlignIn(i) = i
    BY AlignedReader DEF Ready
  <2>2. s = [i |-> i, n |-> Bytes(c)]
    BY <1>1, <2>1 DEF Announced
  <2>3. Bytes(c) > i.rem
    BY <1>1 DEF Short, Framed
  <2> QED  BY <1>0, <2>2, <2>3
<1>2. CASE width # 0
  <2>1. width \in {1, 2, 4} /\ Holds(width, Bytes(c))
    BY <1>2 DEF Frames
  <2>2. PICK permitted : s = ReadNumber(AlignIn(i), width, permitted)
    BY <1>2 DEF Announced
  <2>3. \/ ReadNumber(AlignIn(i), width, permitted).i = Fail(i)
        \/ /\ ReadNumber(AlignIn(i), width, permitted) = [i |-> Moved(i, width), n |-> Bytes(c)]
           /\ Ready(Moved(i, width), le) /\ Short(Moved(i, width), c)
    BY <2>1, FrameShort
  <2>4. CASE s.i = Fail(i)
    BY <1>0, <2>4, FailKept
  <2>5. CASE /\ s = [i |-> Moved(i, width), n |-> Bytes(c)]
             /\ Ready(Moved(i, width), le) /\ Short(Moved(i, width), c)
    BY <2>5 DEF Ready, Short
  <2> QED  BY <2>2, <2>3, <2>4, <2>5
<1> QED  BY <1>1, <1>2

\* A string as it stands in a message.
TextOf(v, enc) == Bom(enc) \o Encode(v, enc) \o Termination(enc)

LEMMA NotMalformed ==
  ASSUME NEW v \in Seq(Octets)
  PROVE  v # Malformed
<1>1. Len(v) = 1 => v[1] \in Octets
  BY ElementOfSeq
<1>2. 256 \notin Octets
  BY DEF Octets
<1>3. Len(Malformed) = 1 /\ Malformed[1] = 256
  BY DEF Malformed
<1> HIDE DEF Malformed
<1> QED  BY <1>1, <1>2, <1>3, Zenon

LEMMA TextType ==
  ASSUME NEW v, NEW cs, NEW at, Spells(v, cs, at), NEW enc \in Encodings
  PROVE  TextOf(v, enc) \in Seq(Octets) /\ v # Malformed
<1>1. v \in Seq(Octets) /\ Len(cs) \in Nat
  BY SpelledTypes DEF Spells
<1>2. Encode(v, enc) \in Seq(Octets)
  <2>1. PICK to : Spells16(Utf8To16(v, enc), cs, enc, to)
    BY TextConverted
  <2>2. Utf8To16(v, enc) \in Seq(Octets)
    BY <1>1, <2>1, SpelledTypes16
  <2> QED  BY <1>1, <2>2 DEF Encode
<1>3. Bom(enc) \in Seq(Octets) /\ Termination(enc) \in Seq(Octets)
  BY Marks
<1>4. TextOf(v, enc) \in Seq(Octets)
  <2>1. PICK b \in Seq(Octets), e \in Seq(Octets), z \in Seq(Octets) :
          b = Bom(enc) /\ e = Encode(v, enc) /\ z = Termination(enc)
    BY <1>2, <1>3
  <2>2. b \o e \o z \in Seq(Octets)
    BY ThreePieces
  <2> QED  BY <2>1, <2>2 DEF TextOf
<1>5. v # Malformed
  BY <1>1, NotMalformed
<1> QED  BY <1>4, <1>5

LEMMA StringCarried ==
  ASSUME NEW t, NEW v, NEW cs, NEW at, Spells(v, cs, at), t.enc \in Encodings, t.width \in {0, 1, 2, 4},
         t.width = 0 => t.len = Len(TextOf(v, t.enc)), NEW le, NEW c, c = BitsOf(TextOf(v, t.enc))
  PROVE  /\ c \in Chunks
         /\ Frames(t.width, c) => \A o : Clean(o, le) => WriteString(o, t, v) = WriteRaw(o, Framed(t.width, c, le))
         /\ ~Frames(t.width, c) => \A o : Clean(o, le) => Faulty(WriteString(o, t, v))
         /\ Frames(t.width, c) => \A i : Ready(i, le) /\ Ahead(i, Framed(t.width, c, le)) =>
              ReadString(i, t) = Result(Moved(i, Bytes(Framed(t.width, c, le))), v)
         /\ Frames(t.width, c) => \A i : Ready(i, le) /\ Short(i, Framed(t.width, c, le)) => ReadString(i, t).i.err
<1> DEFINE text == TextOf(v, t.enc)
<1>1. text \in Seq(Octets) /\ Len(text) \in Nat /\ v # Malformed
  BY TextType, LenProperties
<1>2. Decode(text, t.enc) = v
  BY TextCarried DEF TextOf
<1> HIDE DEF text
<1>3. c \in Chunks /\ Bytes(c) = Len(text) /\ BytesOf(c) = text
  <2>1. c \in Seq(Bit) /\ Len(c) = 8 * Len(text) /\ BytesOf(c) = text
    BY <1>1, BytesKept DEF text
  <2> QED  BY <1>1, <2>1, ChunkOf
<1>4. ASSUME NEW o, Clean(o, le)
      PROVE  WriteString(o, t, v) = WriteRaw(WriteNumber(o, Bytes(c), t.width), c)
  <2>1. AlignOut(o) = o
    BY <1>4, CleanFields, AlignedWriter
  <2>2. WriteString(o, t, v) = IF t.width # 0 THEN WriteRaw(WriteNumber(o, Len(text), t.width), BitsOf(text))
                               ELSE IF t.len < Len(text) THEN o
                               ELSE WriteRaw(o, BitsOf(text \o Copies(0, t.len - Len(text))))
    BY <2>1, Zenon DEF WriteString, TextOf, text
  <2>3. CASE t.width # 0
    BY <1>3, <2>2, <2>3, Zenon DEF text
  <2>4. CASE t.width = 0
    <3>1. t.len = Len(text) /\ ~(t.len < Len(text)) /\ t.len - Len(text) = 0
      BY <1>1, <2>4 DEF text
    <3>2. text \o Copies(0, 0) = text
      <4>1. Copies(0, 0) = <<>>
        BY DEF Copies
      <4> QED  BY <1>1, <4>1, ConcatEmptySeq
    <3>3. WriteNumber(o, Bytes(c), t.width) = o
      BY <2>4 DEF WriteNumber
    <3> QED  BY <2>2, <2>4, <3>1, <3>2, <3>3, Zenon DEF text
  <2> QED  BY <2>3, <2>4
<1>5. ASSUME NEW o, Clean(o, le)
      PROVE  /\ Frames(t.width, c) => WriteString(o, t, v) = WriteRaw(o, Framed(t.width, c, le))
             /\ ~Frames(t.width, c) => Faulty(WriteString(o, t, v))
  BY <1>3, <1>4, <1>5, CountedPut
<1>6. ASSUME NEW i, Ready(i, le), Frames(t.width, c)
      PROVE  /\ Ahead(i, Framed(t.width, c, le)) =>
                   ReadString(i, t) = Result(Moved(i, Bytes(Framed(t.width, c, le))), v)
             /\ Short(i, Framed(t.width, c, le)) => ReadString(i, t).i.err
  <2> DEFINE s == IF t.width = 0 THEN [i |-> AlignIn(i), n |-> t.len] ELSE ReadNumber(AlignIn(i), t.width, FALSE)
             j == IF s.n > s.i.rem THEN Fail(s.i) ELSE s.i
             d == Decode(RawBytes(j, s.n), t.enc)
             e == Moved(i, Bytes(Framed(t.width, c, le)))
  <2>1. ReadString(i, t) = IF j.err THEN Result(j, <<>>)
                           ELSE IF d = Malformed THEN Result(Fail(ReadRaw(j, s.n)), <<>>)
                           ELSE Result(ReadRaw(j, s.n), d)
    BY Zenon DEF ReadString
  <2>2. Announced(i, s, t.width, Bytes(c))
    BY <1>3 DEF Announced, text
  <2> HIDE DEF s
  <2>3. ASSUME Ahead(i, Framed(t.width, c, le))  PROVE ReadString(i, t) = Result(e, v)
    <3>0. Reached(i, s, t.width, c, le)
      BY <1>3, <1>6, <2>2, <2>3, CountedRead
    <3>1. s = [i |-> Moved(i, t.width), n |-> Bytes(c)] /\ Holding(Moved(i, t.width), c, e)
      BY <3>0, Zenon DEF Reached
    <3>2. s.i = Moved(i, t.width) /\ s.n = Bytes(c)
      BY <3>1
    <3>3. j = s.i /\ j.err = FALSE /\ ReadRaw(j, s.n) = e /\ RawBytes(j, s.n) = text
      BY <1>3, <3>1, <3>2, Zenon DEF Holding
    <3>4. d = v
      BY <1>2, <3>3, Zenon
    <3> HIDE DEF j, d
    <3> QED  BY <1>1, <2>1, <3>3, <3>4, Zenon
  <2>4. ASSUME Short(i, Framed(t.width, c, le))  PROVE ReadString(i, t).i.err
    <3>1. s.i \in Inputs /\ (s.i.err = TRUE \/ s.n > s.i.rem)
      BY <1>3, <1>6, <2>2, <2>4, CountedShort
    <3>2. j.err = TRUE
      BY <3>1, FailKept
    <3> HIDE DEF j, d
    <3>3. ReadString(i, t) = Result(j, <<>>)
      BY <2>1, <3>2, Zenon
    <3> QED  BY <3>2, <3>3 DEF Result
  <2> QED  BY <2>3, <2>4
<1> QED  BY <1>3, <1>5, <1>6

\* Sequences of bytes, each a value of eight bits.
EightBits == {b \in Seq(Bit) : Len(b) = 8}

LEMMA JoinedType ==
  ASSUME NEW v \in Seq(EightBits)
  PROVE  Joined(v) \in Chunks /\ Bytes(Joined(v)) = Len(v)
<1>0. Len(v) \in Nat
  BY LenProperties
<1>1. Len(Joined(v)) = 8 * Len(v)
  BY <1>0 DEF Joined
<1>2. ASSUME NEW k \in 1 .. 8 * Len(v)  PROVE v[(k - 1) \div 8 + 1][((k - 1) % 8) + 1] \in Bit
  <2>1. (k - 1) \div 8 + 1 \in 1 .. Len(v) /\ ((k - 1) % 8) + 1 \in 1 .. 8
    BY <1>0
  <2>2. v[(k - 1) \div 8 + 1] \in EightBits
    BY <2>1, ElementOfSeq
  <2>3. PICK b : b = v[(k - 1) \div 8 + 1] /\ b \in Seq(Bit) /\ Len(b) = 8
    BY <2>2 DEF EightBits
  <2>4. b[((k - 1) % 8) + 1] \in Bit
    BY <2>1, <2>3, ElementOfSeq
  <2> QED  BY <2>3, <2>4
<1>3. Joined(v) \in [1 .. 8 * Len(v) -> Bit]
  BY <1>2, Zenon DEF Joined
<1>4. Joined(v) \in Seq(Bit)
  BY <1>0, <1>3, SeqDef
<1> QED  BY <1>0, <1>1, <1>4, ChunkOf

LEMMA ElementsFound ==
  ASSUME NEW i, NEW le, Ready(i, le), NEW v \in Seq(EightBits), Ahead(i, Joined(v))
  PROVE  Elements(i, Len(v)) = v
<1> DEFINE c == Joined(v)
<1>0. Len(v) \in Nat /\ c \in Chunks /\ Len(c) = 8 * Len(v)
  BY JoinedType, ChunkType, LenProperties
<1>1. /\ i.body \in Seq(Bit) /\ Len(i.body) \in Nat /\ i.pos \in Nat
  BY ReadyFields
<1>2. i.pos + Len(c) <= Len(i.body) /\ Meets(i, c)
  BY <1>0, PieceAhead DEF Ahead
<1>3. ASSUME NEW k \in 1 .. Len(v)  PROVE SubSeq(i.body, i.pos + 8 * k - 7, i.pos + 8 * k) = v[k]
  <2>1. v[k] \in EightBits
    BY ElementOfSeq
  <2>2. PICK b \in Seq(Bit) : b = v[k] /\ Len(b) = 8
    BY <2>1 DEF EightBits
  <2>3. PICK p \in Nat : p = i.pos + 8 * k - 7 /\ p >= 1
    BY <1>0, <1>1
  <2>4. p + Len(b) <= Len(i.body) + 1 /\ p + Len(b) - 1 = i.pos + 8 * k
    <3>1. Len(b) = 8 /\ i.pos + 8 * Len(v) <= Len(i.body) /\ k <= Len(v) /\ k \in Nat
      BY <1>0, <1>2, <2>2
    <3>2. PICK e \in Nat : e = i.pos + 8 * k /\ e <= Len(i.body)
      BY <1>0, <1>1, <3>1
    <3>3. p + 7 = e
      BY <1>1, <2>3, <3>1, <3>2
    <3>4. p + 8 <= Len(i.body) + 1 /\ p + 8 - 1 = e
      BY <1>1, <3>2, <3>3
    <3> QED  BY <3>1, <3>2, <3>4
  <2>5. Has(i.body, p, b)
    <3> SUFFICES ASSUME NEW m \in 1 .. 8  PROVE i.body[p + m - 1] = b[m]
      BY <2>2 DEF Has
    <3>1. k \in Nat /\ k >= 1 /\ m \in Nat /\ m >= 1 /\ m <= 8
      BY <1>0
    <3>2. PICK q \in Nat : q = 8 * k - 7 + m - 1
      BY <3>1
    <3>3. q \in 1 .. 8 * Len(v) /\ q \in 1 .. Len(c) /\ i.pos + q = p + m - 1 /\ i.pos + q <= Len(i.body)
      <4>1. k <= Len(v) /\ q <= 8 * Len(v) /\ q >= 1
        BY <1>0, <3>1, <3>2
      <4>2. i.pos + q = p + m - 1
        BY <1>1, <2>3, <3>1, <3>2
      <4> HIDE DEF c
      <4>3. i.pos + q <= Len(i.body)
        BY <1>0, <1>1, <1>2, <4>1
      <4> QED  BY <1>0, <4>1, <4>2, <4>3
    <3>4. (q - 1) \div 8 + 1 = k /\ (q - 1) % 8 = m - 1
      BY <3>1, <3>2, EightsApart
    <3>5. c[q] = v[(q - 1) \div 8 + 1][((q - 1) % 8) + 1]
      BY <3>3, Zenon DEF Joined
    <3>6. ((q - 1) % 8) + 1 = m
      BY <3>1, <3>4
    <3>7. c[q] = b[m]
      BY <2>2, <3>4, <3>5, <3>6, Zenon
    <3>8. i.body[i.pos + q] = c[q]
      BY <1>2, <3>3 DEF Meets
    <3> QED  BY <3>3, <3>7, <3>8
  <2>6. SubSeq(i.body, p, p + Len(b) - 1) = b
    BY <1>1, <2>2, <2>3, <2>4, <2>5, PieceFound
  <2> QED  BY <2>2, <2>3, <2>4, <2>6
<1>4. v = [k \in 1 .. Len(v) |-> v[k]]
  BY LenProperties
<1> QED  BY <1>3, <1>4, Zenon DEF Elements

\* Either reader of bytes.
TakenAsBytes(i, s, short, width, v, le) ==
  LET c == Joined(v)
      j == IF short \/ s.n > s.i.rem THEN Fail(s.i) ELSE s.i
      e == Moved(i, Bytes(Framed(width, c, le)))
  IN  /\ Ahead(i, Framed(width, c, le)) =>
           j.err = FALSE /\ s.n = Len(v) /\ ReadRaw(j, s.n) = e /\ Elements(j, Len(v)) = v
      /\ Short(i, Framed(width, c, le)) => j.err = TRUE

LEMMA ElementsRead ==
  ASSUME NEW i, NEW le, Ready(i, le), NEW width \in {0, 1, 2, 4}, NEW v \in Seq(EightBits),
         Frames(width, Joined(v)), NEW s, Announced(i, s, width, Len(v)),
         NEW short, short = TRUE => s.n # Len(v)
  PROVE  TakenAsBytes(i, s, short, width, v, le)
<1> DEFINE c == Joined(v)
           j == IF short \/ s.n > s.i.rem THEN Fail(s.i) ELSE s.i
           e == Moved(i, Bytes(Framed(width, c, le)))
<1>1. c \in Chunks /\ Bytes(c) = Len(v)
  BY JoinedType
<1>2. Frames(width, c) /\ Announced(i, s, width, Bytes(c))
  BY <1>1
<1>3. ASSUME Ahead(i, Framed(width, c, le))
      PROVE  j.err = FALSE /\ s.n = Len(v) /\ ReadRaw(j, s.n) = e /\ Elements(j, Len(v)) = v
  <2>1. Reached(i, s, width, c, le)
    <3> HIDE DEF c
    <3> QED  BY <1>1, <1>2, <1>3, CountedRead
  <2>2. /\ s = [i |-> Moved(i, width), n |-> Bytes(c)] /\ Holding(Moved(i, width), c, e)
        /\ Ready(Moved(i, width), le) /\ Ahead(Moved(i, width), c)
    BY <2>1, Zenon DEF Reached
  <2>3. s.i = Moved(i, width) /\ s.n = Bytes(c)
    BY <2>2
  <2>4. Elements(s.i, Len(v)) = v
    BY <2>2, <2>3, ElementsFound
  <2>5. ~(short = TRUE) /\ ~(s.n > s.i.rem) /\ s.i.err = FALSE /\ ReadRaw(s.i, s.n) = e
    BY <1>1, <2>2, <2>3, Zenon DEF Holding
  <2>6. j = s.i
    BY <2>5, Zenon
  <2> QED  BY <1>1, <2>3, <2>4, <2>5, <2>6, Zenon
<1>4. ASSUME Short(i, Framed(width, c, le))  PROVE j.err = TRUE
  <2>1. s.i \in Inputs /\ (s.i.err = TRUE \/ s.n > s.i.rem)
    <3> HIDE DEF c
    <3> QED  BY <1>1, <1>2, <1>4, CountedShort
  <2> QED  BY <2>1, FailKept
<1> QED  BY <1>3, <1>4, Zenon DEF TakenAsBytes

\* The lengths that a deployment of a buffer or of an array of bytes allows.
BufferFits(t, n) == IF t.width = 0 THEN n = t.max ELSE n >= t.min

LEMMA WholePiece ==
  ASSUME NEW S, NEW s \in Seq(S)
  PROVE  SubSeq(s, 1, Len(s)) = s
<1>1. Len(s) \in Nat /\ 1 \in Nat /\ 1 >= 1 /\ 1 + Len(s) <= Len(s) + 1 /\ 1 + Len(s) - 1 = Len(s)
  BY LenProperties
<1>2. /\ SubSeq(s, 1, 1 + Len(s) - 1) \in Seq(S) /\ Len(SubSeq(s, 1, 1 + Len(s) - 1)) = Len(s)
      /\ \A j \in 1 .. Len(s) : SubSeq(s, 1, 1 + Len(s) - 1)[j] = s[1 + j - 1]
  BY <1>1, PieceType
<1>3. \A j \in 1 .. Len(s) : 1 + j - 1 = j
  BY <1>1
<1> QED  BY <1>1, <1>2, <1>3, SeqEqual

LEMMA BufferCarried ==
  ASSUME NEW t, NEW v \in Seq(EightBits), t.width \in {0, 1, 2, 4}, t.min \in Nat, t.max \in Nat,
         t.width # 0 /\ t.max # 0 => Len(v) <= t.max, NEW le, NEW c, c = Joined(v)
  PROVE  /\ c \in Chunks
         /\ Frames(t.width, c) /\ BufferFits(t, Len(v)) =>
              \A o : Clean(o, le) => WriteByteBuffer(o, t, v) = WriteRaw(o, Framed(t.width, c, le))
         /\ ~(Frames(t.width, c) /\ BufferFits(t, Len(v))) =>
              \A o : Clean(o, le) => Faulty(WriteByteBuffer(o, t, v))
         /\ Frames(t.width, c) /\ BufferFits(t, Len(v)) =>
              \A i : Ready(i, le) /\ Ahead(i, Framed(t.width, c, le)) =>
                ReadByteBuffer(i, t) = Result(Moved(i, Bytes(Framed(t.width, c, le))), v)
         /\ Frames(t.width, c) /\ BufferFits(t, Len(v)) =>
              \A i : Ready(i, le) /\ Short(i, Framed(t.width, c, le)) => ReadByteBuffer(i, t).i.err
<1>1. c \in Chunks /\ Bytes(c) = Len(v) /\ Len(v) \in Nat /\ Len(c) = 8 * Len(v) /\ c \in Seq(Bit)
  BY JoinedType, ChunkType, LenProperties
<1>2. ASSUME NEW o, Clean(o, le)
      PROVE  /\ Frames(t.width, c) /\ BufferFits(t, Len(v)) =>
                  WriteByteBuffer(o, t, v) = WriteRaw(o, Framed(t.width, c, le))
             /\ ~(Frames(t.width, c) /\ BufferFits(t, Len(v))) => Faulty(WriteByteBuffer(o, t, v))
  <2> DEFINE size == IF t.width # 0 /\ t.max > 0 /\ t.max < Len(v) THEN t.max ELSE Len(v)
             bad == \/ t.width = 0 /\ t.max # size
                    \/ t.width # 0 /\ size < t.min
                    \/ t.width \notin {0, 1, 2, 4}
                    \/ t.width \in {1, 2} /\ size >= 2 ^ (8 * t.width)
             b == [o EXCEPT !.err = o.err \/ bad]
  <2>1. AlignOut(o) = o /\ o \in Outputs /\ o.err = FALSE
    BY <1>2, CleanFields, AlignedWriter
  <2>2. WriteByteBuffer(o, t, v) = IF b.err THEN b
                                   ELSE WriteRaw(WriteNumber(b, size, t.width), SubSeq(Joined(v), 1, 8 * size))
    BY <2>1, Zenon DEF WriteByteBuffer
  <2>3. size = Len(v)
    BY <1>1
  <2>4. ASSUME bad  PROVE ~(Frames(t.width, c) /\ BufferFits(t, Len(v)))
    <3>1. CASE t.width \in {1, 2} /\ size >= 2 ^ (8 * t.width)
      <4>1. Least(8 * t.width, 20) = 8 * t.width
        BY <3>1 DEF Least
      <4>2. 2 ^ (8 * t.width) \in Nat
        BY <3>1, <4>1, LimitType
      <4>3. ~(size < 2 ^ (8 * t.width))
        BY <1>1, <2>3, <3>1, <4>2
      <4>4. ~Holds(t.width, Len(v)) /\ t.width # 0
        BY <2>3, <3>1, <4>1, <4>3 DEF Holds
      <4> QED  BY <1>1, <4>4 DEF Frames
    <3>2. CASE t.width = 0 /\ t.max # size
      BY <2>3, <3>2 DEF BufferFits
    <3>3. CASE t.width # 0 /\ size < t.min
      <4> HIDE DEF size
      <4> QED  BY <1>1, <2>3, <3>3 DEF BufferFits
    <3> QED  BY <2>4, <3>1, <3>2, <3>3
  <2>5. ASSUME ~bad  PROVE BufferFits(t, Len(v))
    BY <1>1, <2>5 DEF BufferFits
  <2> HIDE DEF size, bad
  <2>6. CASE bad
    <3>1. b.err = TRUE /\ "err" \in DOMAIN b
      BY <2>1, <2>6 DEF Outputs
    <3> HIDE DEF b
    <3> QED  BY <2>2, <2>4, <2>6, <3>1, Zenon DEF Faulty
  <2>7. CASE ~bad
    <3>1. (o.err \/ bad) = FALSE
      BY <2>1, <2>7, Zenon
    <3>2. b = o
      BY <2>1, <3>1 DEF Outputs
    <3>3. SubSeq(c, 1, Len(c)) = c
      BY <1>1, WholePiece
    <3>4. WriteByteBuffer(o, t, v) = WriteRaw(WriteNumber(o, Bytes(c), t.width), c)
      BY <1>1, <2>1, <2>2, <2>3, <3>2, <3>3, Zenon
    <3>5. /\ Frames(t.width, c) => WriteRaw(WriteNumber(o, Bytes(c), t.width), c) = WriteRaw(o, Framed(t.width, c, le))
          /\ ~Frames(t.width, c) => Faulty(WriteRaw(WriteNumber(o, Bytes(c), t.width), c))
      BY <1>1, <1>2, CountedPut
    <3> QED  BY <2>5, <2>7, <3>4, <3>5, Zenon
  <2> QED  BY <2>6, <2>7
<1>3. ASSUME NEW i, Ready(i, le), Frames(t.width, c), BufferFits(t, Len(v))
      PROVE  /\ Ahead(i, Framed(t.width, c, le)) =>
                  ReadByteBuffer(i, t) = Result(Moved(i, Bytes(Framed(t.width, c, le))), v)
             /\ Short(i, Framed(t.width, c, le)) => ReadByteBuffer(i, t).i.err
  <2> DEFINE s == IF t.width # 0 THEN ReadNumber(AlignIn(i), t.width, TRUE) ELSE [i |-> AlignIn(i), n |-> t.max]
             kept == IF t.max # 0 /\ s.n > t.max THEN t.max ELSE s.n
             short == t.width # 0 /\ s.n < t.min
             j == IF short \/ s.n > s.i.rem THEN Fail(s.i) ELSE s.i
             e == Moved(i, Bytes(Framed(t.width, c, le)))
  <2>1. ReadByteBuffer(i, t) = IF j.err THEN Result(j, <<>>) ELSE Result(ReadRaw(j, s.n), Elements(j, kept))
    BY Zenon DEF ReadByteBuffer
  <2>2. Announced(i, s, t.width, Len(v))
    BY <1>3 DEF Announced, BufferFits
  <2> HIDE DEF s
  <2>3. short = TRUE => s.n # Len(v)
    BY <1>1, <1>3 DEF BufferFits
  <2>4. s.n = Len(v) => kept = Len(v)
    BY <1>1, <1>3 DEF BufferFits
  <2> HIDE DEF short, kept
  <2>5. /\ Ahead(i, Framed(t.width, c, le)) =>
             j.err = FALSE /\ s.n = Len(v) /\ ReadRaw(j, s.n) = e /\ Elements(j, Len(v)) = v
        /\ Short(i, Framed(t.width, c, le)) => j.err = TRUE
    <3>1. TakenAsBytes(i, s, short, t.width, v, le)
      BY <1>3, <2>2, <2>3, ElementsRead
    <3> QED  BY <3>1, Zenon DEF TakenAsBytes
  <2> HIDE DEF j
  <2>6. Short(i, Framed(t.width, c, le)) => ReadByteBuffer(i, t).i.err
    <3> SUFFICES ASSUME Short(i, Framed(t.width, c, le))  PROVE ReadByteBuffer(i, t).i.err
      OBVIOUS
    <3>1. ReadByteBuffer(i, t) = Result(j, <<>>) /\ j.err = TRUE
      BY <2>1, <2>5, Zenon
    <3> QED  BY <3>1 DEF Result
  <2> QED  BY <2>1, <2>4, <2>5, <2>6, Zenon
<1> QED  BY <1>1, <1>2, <1>3

LEMMA BytesCarried ==
  ASSUME NEW t, NEW v \in Seq(EightBits), t.width \in {0, 1, 2, 4}, t.min \in Nat, t.max \in Nat,
         NEW le, NEW c, c = Joined(v)
  PROVE  /\ c \in Chunks
         /\ Frames(t.width, c) /\ Fits(t, Len(v)) =>
              \A o : Clean(o, le) => WriteByteArray(o, t, v) = WriteRaw(o, Framed(t.width, c, le))
         /\ ~(Frames(t.width, c) /\ Fits(t, Len(v))) =>
              \A o : Clean(o, le) => Faulty(WriteByteArray(o, t, v))
         /\ Frames(t.width, c) /\ Fits(t, Len(v)) =>
              \A i : Ready(i, le) /\ Ahead(i, Framed(t.width, c, le)) =>
                ReadByteArray(i, t) = Result(Moved(i, Bytes(Framed(t.width, c, le))), v)
         /\ Frames(t.width, c) /\ Fits(t, Len(v)) =>
              \A i : Ready(i, le) /\ Short(i, Framed(t.width, c, le)) => ReadByteArray(i, t).i.err
<1>1. c \in Chunks /\ Bytes(c) = Len(v) /\ Len(v) \in Nat /\ Len(c) = 8 * Len(v) /\ c \in Seq(Bit)
  BY JoinedType, ChunkType, LenProperties
<1>2. ASSUME NEW o, Clean(o, le)
      PROVE  /\ Frames(t.width, c) /\ Fits(t, Len(v)) =>
                  WriteByteArray(o, t, v) = WriteRaw(o, Framed(t.width, c, le))
             /\ ~(Frames(t.width, c) /\ Fits(t, Len(v))) => Faulty(WriteByteArray(o, t, v))
  <2> DEFINE bad == ~Fits(t, Len(v))
             b == [o EXCEPT !.err = o.err \/ bad]
  <2>1. AlignOut(o) = o /\ o \in Outputs /\ o.err = FALSE
    BY <1>2, CleanFields, AlignedWriter
  <2>2. WriteByteArray(o, t, v) = IF b.err THEN b ELSE WriteRaw(WriteNumber(b, Len(v), t.width), Joined(v))
    BY <2>1, Zenon DEF WriteByteArray
  <2>3. CASE bad
    <3>1. b.err = TRUE /\ "err" \in DOMAIN b
      <4> HIDE DEF bad
      <4> QED  BY <2>1, <2>3 DEF Outputs
    <3> HIDE DEF b
    <3> QED  BY <2>2, <2>3, <3>1, Zenon DEF Faulty
  <2>4. CASE ~bad
    <3>1. (o.err \/ bad) = FALSE
      BY <2>1, <2>4, Zenon
    <3>2. b = o
      <4> HIDE DEF bad
      <4> QED  BY <2>1, <3>1 DEF Outputs
    <3>3. WriteByteArray(o, t, v) = WriteRaw(WriteNumber(o, Bytes(c), t.width), c)
      BY <1>1, <2>1, <2>2, <3>2, Zenon
    <3>4. /\ Frames(t.width, c) => WriteRaw(WriteNumber(o, Bytes(c), t.width), c) = WriteRaw(o, Framed(t.width, c, le))
          /\ ~Frames(t.width, c) => Faulty(WriteRaw(WriteNumber(o, Bytes(c), t.width), c))
      BY <1>1, <1>2, CountedPut
    <3> QED  BY <2>4, <3>3, <3>4, Zenon
  <2> QED  BY <2>3, <2>4
<1>3. ASSUME NEW i, Ready(i, le), Frames(t.width, c), Fits(t, Len(v))
      PROVE  /\ Ahead(i, Framed(t.width, c, le)) =>
                  ReadByteArray(i, t) = Result(Moved(i, Bytes(Framed(t.width, c, le))), v)
             /\ Short(i, Framed(t.width, c, le)) => ReadByteArray(i, t).i.err
  <2> DEFINE s == IF t.width # 0 THEN ReadNumber(AlignIn(i), t.width, TRUE) ELSE [i |-> AlignIn(i), n |-> t.max]
             short == t.width # 0 /\ (s.n < t.min \/ (t.max # 0 /\ s.n > t.max))
             j == IF short \/ s.n > s.i.rem THEN Fail(s.i) ELSE s.i
             e == Moved(i, Bytes(Framed(t.width, c, le)))
  <2>1. ReadByteArray(i, t) = IF j.err THEN Result(j, <<>>) ELSE Result(ReadRaw(j, s.n), Elements(j, s.n))
    BY Zenon DEF ReadByteArray
  <2>2. Announced(i, s, t.width, Len(v))
    BY <1>3 DEF Announced, Fits
  <2> HIDE DEF s
  <2>3. short = TRUE => s.n # Len(v)
    BY <1>1, <1>3 DEF Fits
  <2> HIDE DEF short
  <2>4. /\ Ahead(i, Framed(t.width, c, le)) =>
             j.err = FALSE /\ s.n = Len(v) /\ ReadRaw(j, s.n) = e /\ Elements(j, Len(v)) = v
        /\ Short(i, Framed(t.width, c, le)) => j.err = TRUE
    <3>1. TakenAsBytes(i, s, short, t.width, v, le)
      BY <1>3, <2>2, <2>3, ElementsRead
    <3> QED  BY <3>1, Zenon DEF TakenAsBytes
  <2> HIDE DEF j
  <2>5. Short(i, Framed(t.width, c, le)) => ReadByteArray(i, t).i.err
    <3> SUFFICES ASSUME Short(i, Framed(t.width, c, le))  PROVE ReadByteArray(i, t).i.err
      OBVIOUS
    <3>1. ReadByteArray(i, t) = Result(j, <<>>) /\ j.err = TRUE
      BY <2>1, <2>4, Zenon
    <3> QED  BY <3>1 DEF Result
  <2> QED  BY <2>1, <2>4, <2>5, Zenon
<1> QED  BY <1>1, <1>2, <1>3

-----------------------------------------------------------------------------
(* What writing and reading a value come to: the bytes c that are put into *)
(* a stream and taken from it, wherever they stand.  A part is a record of *)
(* the sender's type, the receiver's, the value and what it is meant to be *)
(* for the receiver, as in Arguments.                                      *)

Puts(q, le, c) == \A o : Clean(o, le) => Write(o, q.type, q.value) = WriteRaw(o, c)

Gets(q, le, c) ==
  \A i : Ready(i, le) /\ Ahead(i, c) => Read(i, q.reads) = Result(Moved(i, Bytes(c)), q.meant)

\* A value that is not all there is not taken for the one that was sent, and
\* is an error when the type is a guarded one.
Missed(r, q) == r.i.err \/ (r.v # q.meant /\ ~Guarded(q.reads))

Misses(q, le, c) == \A i : Ready(i, le) /\ Short(i, c) => Missed(Read(i, q.reads), q)

Refuses(q, le) == \A o : Clean(o, le) => Faulty(Write(o, q.type, q.value))

Persists(q) == \A o : Faulty(o) => Faulty(Write(o, q.type, q.value))

\* The recursion that Streams closes, for the types of T.  A loop over parts
\* calls itself last.
Unfolded(T) ==
  /\ \A t \in T : /\ \A o, v : Write(o, t, v) = WriteOverload(o, t, v)
                  /\ \A i : Read(i, t) = ReadOverload(i, t)
  /\ \A o, t, v, n : WriteNext(o, t, v, n) = WriteLoop(o, t, v, n)
  /\ \A i, t, size, acc : ReadNext(i, t, size, acc) = ReadLoop(i, t, size, acc)

\* Values of whole bytes that hold no other values.
IsNumber(t, v) == Sized(v, t.size) /\ t.bits = 8 * t.size /\ t.signed \in BOOLEAN

IsEnum(t, v) ==
  /\ t.bits = 8 * EnumSize(t) /\ t.signed \in BOOLEAN
  /\ \E w : Narrow(v, w, EnumSize(t), t.size)

IsVersion(v) == \E a, b : v = <<a, b>> /\ Sized(a, 4) /\ Sized(b, 4)

IsString(t, v) ==
  /\ t.enc \in Encodings /\ t.width \in {0, 1, 2, 4}
  /\ t.width = 0 => t.len = Len(TextOf(v, t.enc))
  /\ \E cs, at : Spells(v, cs, at)

IsBytes(t, v) == v \in Seq(EightBits) /\ t.width \in {0, 1, 2, 4} /\ t.min \in Nat /\ t.max \in Nat

Flat(t, v) ==
  \/ t.k \in {"int", "ranged"} /\ IsNumber(t, v)
  \/ t.k = "float" /\ Sized(v, t.size)
  \/ t.k = "enum" /\ IsEnum(t, v)
  \/ t.k = "version" /\ IsVersion(v)
  \/ t.k = "string" /\ IsString(t, v)
  \/ t.k = "buffer" /\ IsBytes(t, v) /\ (t.width # 0 /\ t.max # 0 => Len(v) <= t.max)
  \/ t.k = "bytes" /\ IsBytes(t, v)

\* No invalid value stands for one that could not be read, and the minor number
\* of a version is not the one that stands there if there is none to read.
Telling(t, v) ==
  \/ t.k \in {"float", "string", "buffer", "bytes"}
  \/ t.k \in {"int", "ranged", "enum"} /\ t.inv = NoInvalid
  \/ t.k = "version" /\ v[2] # Copies(0, 32)
  \/ t.k = "array" /\ t.elem.k = "int" /\ t.elem.inv = NoInvalid
  \/ t.k = "map" /\ t.key.k = "int" /\ t.key.inv = NoInvalid /\ t.val.k = "int" /\ t.val.inv = NoInvalid

Same(t, v) == [type |-> t, reads |-> t, value |-> v, meant |-> v]

\* The three laws of a value that can be written, or that it is refused.
Settles(q, le) ==
  \/ Refuses(q, le)
  \/ \E c \in Chunks : /\ Puts(q, le, c) /\ Gets(q, le, c)
                       /\ Telling(q.reads, q.meant) => Misses(q, le, c)

Settled(t, v, le) == Settles(Same(t, v), le)

Overloaded(t, v, le, c) ==
  /\ \A o : Clean(o, le) => WriteOverload(o, t, v) = WriteRaw(o, c)
  /\ \A i : Ready(i, le) /\ Ahead(i, c) => ReadOverload(i, t) = Result(Moved(i, Bytes(c)), v)
  /\ Telling(t, v) =>
       \A i : Ready(i, le) /\ Short(i, c) =>
         ReadOverload(i, t).i.err \/ (ReadOverload(i, t).v # v /\ ~Guarded(t))

LEMMA SettledBy ==
  ASSUME NEW t, NEW v, NEW le, Unfolded({t}), NEW c \in Chunks, Overloaded(t, v, le, c)
  PROVE  Settled(t, v, le)
<1>1. (\A o, x : Write(o, t, x) = WriteOverload(o, t, x)) /\ (\A i : Read(i, t) = ReadOverload(i, t))
  BY Zenon DEF Unfolded
<1>2. /\ Same(t, v).type = t /\ Same(t, v).reads = t /\ Same(t, v).value = v /\ Same(t, v).meant = v
  BY DEF Same
<1>3. Puts(Same(t, v), le, c)
  BY <1>1, <1>2, Zenon DEF Puts, Overloaded
<1>4. Gets(Same(t, v), le, c)
  BY <1>1, <1>2, Zenon DEF Gets, Overloaded
<1>5. Telling(t, v) => Misses(Same(t, v), le, c)
  BY <1>1, <1>2, Zenon DEF Misses, Missed, Overloaded
<1> QED  BY <1>2, <1>3, <1>4, <1>5, Zenon DEF Settled, Settles

LEMMA RefusedBy ==
  ASSUME NEW t, NEW v, NEW le, Unfolded({t}), \A o : Clean(o, le) => Faulty(WriteOverload(o, t, v))
  PROVE  Settled(t, v, le)
<1>1. \A o, x : Write(o, t, x) = WriteOverload(o, t, x)
  BY Zenon DEF Unfolded
<1>2. Same(t, v).type = t /\ Same(t, v).value = v
  BY DEF Same
<1> QED  BY <1>1, <1>2, Zenon DEF Settled, Settles, Refuses

LEMMA FailedRead ==
  ASSUME NEW r, NEW i, NEW le, Ready(i, le), r.i = Fail(i)
  PROVE  r.i.err
BY FailKept DEF Ready

LEMMA NumberSettled ==
  ASSUME NEW t, NEW v, NEW le \in BOOLEAN, Unfolded({t}), t.k \in {"int", "ranged"}, IsNumber(t, v)
  PROVE  Settled(t, v, le)
<1> DEFINE c == Ordered(v, le)
<1>1. Sized(v, t.size) /\ t.bits = 8 * t.size /\ t.signed \in BOOLEAN
  BY DEF IsNumber
<1>2. c \in Chunks /\ Bytes(c) = t.size
  BY <1>1, ValueOrdered
<1>3. CASE t.k = "int"
  <2>1. /\ \A o : Clean(o, le) => WriteInt(o, t, v) = WriteRaw(o, c)
        /\ \A i : Ready(i, le) /\ Ahead(i, c) => ReadInt(i, t) = Result(Moved(i, t.size), v)
        /\ \A i : Ready(i, le) /\ Short(i, c) /\ t.inv = NoInvalid => ReadInt(i, t).i = Fail(i)
    BY <1>1, IntCarried
  <2>2. (\A o, x : WriteOverload(o, t, x) = WriteInt(o, t, x)) /\ (\A i : ReadOverload(i, t) = ReadInt(i, t))
    BY <1>3, Overloads
  <2> HIDE DEF c
  <2>3. Telling(t, v) => t.inv = NoInvalid
    BY <1>3 DEF Telling
  <2>4. \A i : Ready(i, le) /\ Short(i, c) /\ t.inv = NoInvalid => ReadInt(i, t).i.err
    BY <2>1, FailedRead
  <2>5. Overloaded(t, v, le, c)
    BY <1>2, <2>1, <2>2, <2>3, <2>4, Zenon DEF Overloaded
  <2> QED  BY <1>2, <2>5, SettledBy
<1>4. CASE t.k = "ranged"
  <2>1. /\ v \in t.range => \A o : Clean(o, le) => WriteRanged(o, t, v) = WriteRaw(o, c)
        /\ v \notin t.range => \A o : Clean(o, le) => Faulty(WriteRanged(o, t, v))
        /\ v \in t.range =>
             \A i : Ready(i, le) /\ Ahead(i, c) => ReadRanged(i, t) = Result(Moved(i, t.size), v)
        /\ t.inv = NoInvalid => \A i : Ready(i, le) /\ Short(i, c) => ReadRanged(i, t).i.err
    BY <1>1, RangedCarried
  <2>2. /\ \A o, x : WriteOverload(o, t, x) = WriteRanged(o, t, x)
        /\ \A i : ReadOverload(i, t) = ReadRanged(i, t)
    BY <1>4, Overloads
  <2> HIDE DEF c
  <2>3. Telling(t, v) => t.inv = NoInvalid
    BY <1>4 DEF Telling
  <2>4. CASE v \in t.range
    <3>1. Overloaded(t, v, le, c)
      BY <1>2, <2>1, <2>2, <2>3, <2>4, Zenon DEF Overloaded
    <3> QED  BY <1>2, <3>1, SettledBy
  <2>5. CASE v \notin t.range
    BY <2>1, <2>2, <2>5, RefusedBy, Zenon
  <2> QED  BY <2>4, <2>5
<1> QED  BY <1>3, <1>4

LEMMA FloatSettled ==
  ASSUME NEW t, NEW v, NEW le \in BOOLEAN, Unfolded({t}), t.k = "float", Sized(v, t.size)
  PROVE  Settled(t, v, le)
<1> DEFINE c == Ordered(v, le)
<1>1. c \in Chunks /\ Bytes(c) = t.size
  BY ValueOrdered
<1>2. /\ \A o : Clean(o, le) => WriteBits(o, v, Len(v), FALSE) = WriteRaw(o, c)
      /\ \A i : Ready(i, le) /\ Ahead(i, c) => ReadFloat(i, t) = Result(Moved(i, t.size), v)
      /\ \A i : Ready(i, le) /\ Short(i, c) => ReadFloat(i, t).i = Fail(i)
  BY FloatCarried
<1>3. /\ \A o, x : WriteOverload(o, t, x) = WriteBits(o, x, Len(x), FALSE)
      /\ \A i : ReadOverload(i, t) = ReadFloat(i, t)
  BY Overloads
<1> HIDE DEF c
<1>4. \A i : Ready(i, le) /\ Short(i, c) => ReadFloat(i, t).i.err
  BY <1>2, FailedRead
<1>5. Overloaded(t, v, le, c)
  BY <1>1, <1>2, <1>3, <1>4, Zenon DEF Overloaded
<1> QED  BY <1>1, <1>5, SettledBy

LEMMA EnumSettled ==
  ASSUME NEW t, NEW v, NEW le \in BOOLEAN, Unfolded({t}), t.k = "enum", IsEnum(t, v)
  PROVE  Settled(t, v, le)
<1>1. PICK w : Narrow(v, w, EnumSize(t), t.size)
  BY DEF IsEnum
<1>2. t.bits = 8 * EnumSize(t) /\ t.signed \in BOOLEAN
  BY DEF IsEnum
<1> DEFINE c == Ordered(w, le)
<1>3. Sized(w, EnumSize(t))
  BY <1>1 DEF Narrow
<1>4. c \in Chunks /\ Bytes(c) = EnumSize(t)
  BY <1>3, ValueOrdered
<1>5. /\ \A o : Clean(o, le) => WriteEnum(o, t, v) = WriteRaw(o, c)
      /\ \A i : Ready(i, le) /\ Ahead(i, c) => ReadEnum(i, t) = Result(Moved(i, EnumSize(t)), v)
      /\ \A i : Ready(i, le) /\ Short(i, c) /\ t.inv = NoInvalid => ReadEnum(i, t).i = Fail(i)
  BY <1>1, <1>2, EnumCarried
<1>6. (\A o, x : WriteOverload(o, t, x) = WriteEnum(o, t, x)) /\ (\A i : ReadOverload(i, t) = ReadEnum(i, t))
  BY Overloads
<1> HIDE DEF c
<1>7. Telling(t, v) => t.inv = NoInvalid
  BY DEF Telling
<1>8. \A i : Ready(i, le) /\ Short(i, c) /\ t.inv = NoInvalid => ReadEnum(i, t).i.err
  BY <1>5, FailedRead
<1>9. Overloaded(t, v, le, c)
  BY <1>4, <1>5, <1>6, <1>7, <1>8, Zenon DEF Overloaded
<1> QED  BY <1>4, <1>9, SettledBy

LEMMA VersionSettled ==
  ASSUME NEW t, NEW v, NEW le \in BOOLEAN, Unfolded({t}), t.k = "version", IsVersion(v)
  PROVE  Settled(t, v, le)
<1>1. PICK a, b : v = <<a, b>> /\ Sized(a, 4) /\ Sized(b, 4)
  BY DEF IsVersion
<1> DEFINE c == Ordered(a, le) \o Ordered(b, le)
<1>2. c \in Chunks
  BY <1>1, ValueOrdered, ChunkConcat
<1>3. /\ \A o : Clean(o, le) => WriteVersion(o, <<a, b>>) = WriteRaw(o, c)
      /\ \A i : Ready(i, le) /\ Ahead(i, c) => ReadVersion(i) = Result(Moved(i, Bytes(c)), <<a, b>>)
      /\ \A i : Ready(i, le) /\ Short(i, c) => ReadVersion(i).v[2] = Copies(0, 32)
  BY <1>1, VersionCarried
<1>4. (\A o, x : WriteOverload(o, t, x) = WriteVersion(o, x)) /\ (\A i : ReadOverload(i, t) = ReadVersion(i))
  BY Overloads
<1> HIDE DEF c
<1>5. (Telling(t, v) => v[2] # Copies(0, 32)) /\ ~Guarded(t)
  BY DEF Telling, Guarded
<1>6. Overloaded(t, v, le, c)
  BY <1>1, <1>3, <1>4, <1>5, Zenon DEF Overloaded
<1> QED  BY <1>2, <1>6, SettledBy

LEMMA StringSettled ==
  ASSUME NEW t, NEW v, NEW le \in BOOLEAN, Unfolded({t}), t.k = "string", IsString(t, v)
  PROVE  Settled(t, v, le)
<1>1. PICK cs, at : Spells(v, cs, at)
  BY DEF IsString
<1>2. /\ t.enc \in Encodings /\ t.width \in {0, 1, 2, 4}
      /\ t.width = 0 => t.len = Len(TextOf(v, t.enc))
  BY DEF IsString
<1> DEFINE c == BitsOf(TextOf(v, t.enc))
           d == Framed(t.width, c, le)
<1>3. /\ c \in Chunks
      /\ Frames(t.width, c) => \A o : Clean(o, le) => WriteString(o, t, v) = WriteRaw(o, d)
      /\ ~Frames(t.width, c) => \A o : Clean(o, le) => Faulty(WriteString(o, t, v))
      /\ Frames(t.width, c) => \A i : Ready(i, le) /\ Ahead(i, d) => ReadString(i, t) = Result(Moved(i, Bytes(d)), v)
      /\ Frames(t.width, c) => \A i : Ready(i, le) /\ Short(i, d) => ReadString(i, t).i.err
  BY <1>1, <1>2, StringCarried
<1>4. (\A o, x : WriteOverload(o, t, x) = WriteString(o, t, x)) /\ (\A i : ReadOverload(i, t) = ReadString(i, t))
  BY Overloads
<1>5. d \in Chunks
  <2> HIDE DEF c
  <2> QED  BY <1>2, <1>3, FramedChunk
<1> HIDE DEF c, d
<1>6. CASE Frames(t.width, c)
  <2>1. Overloaded(t, v, le, d)
    BY <1>3, <1>4, <1>6, Zenon DEF Overloaded
  <2> QED  BY <1>5, <2>1, SettledBy
<1>7. CASE ~Frames(t.width, c)
  BY <1>3, <1>4, <1>7, RefusedBy, Zenon
<1> QED  BY <1>6, <1>7

LEMMA BytesSettled ==
  ASSUME NEW t, NEW v, NEW le \in BOOLEAN, Unfolded({t}), IsBytes(t, v),
         \/ t.k = "buffer" /\ (t.width # 0 /\ t.max # 0 => Len(v) <= t.max)
         \/ t.k = "bytes"
  PROVE  Settled(t, v, le)
<1>1. v \in Seq(EightBits) /\ t.width \in {0, 1, 2, 4} /\ t.min \in Nat /\ t.max \in Nat
  BY DEF IsBytes
<1> DEFINE c == Joined(v)
           d == Framed(t.width, c, le)
<1>2. c \in Chunks
  BY <1>1, JoinedType
<1>3. d \in Chunks
  <2> HIDE DEF c
  <2> QED  BY <1>1, <1>2, FramedChunk
<1>4. CASE t.k = "buffer"
  <2> DEFINE good == Frames(t.width, c) /\ BufferFits(t, Len(v))
  <2>0. t.width # 0 /\ t.max # 0 => Len(v) <= t.max
    BY <1>4
  <2>1. /\ good => \A o : Clean(o, le) => WriteByteBuffer(o, t, v) = WriteRaw(o, d)
        /\ ~good => \A o : Clean(o, le) => Faulty(WriteByteBuffer(o, t, v))
        /\ good => \A i : Ready(i, le) /\ Ahead(i, d) => ReadByteBuffer(i, t) = Result(Moved(i, Bytes(d)), v)
        /\ good => \A i : Ready(i, le) /\ Short(i, d) => ReadByteBuffer(i, t).i.err
    BY <1>1, <2>0, BufferCarried
  <2>2. /\ \A o, x : WriteOverload(o, t, x) = WriteByteBuffer(o, t, x)
        /\ \A i : ReadOverload(i, t) = ReadByteBuffer(i, t)
    BY <1>4, Overloads
  <2> HIDE DEF c, d, good
  <2>3. CASE good
    <3>1. Overloaded(t, v, le, d)
      BY <2>1, <2>2, <2>3, Zenon DEF Overloaded
    <3> QED  BY <1>3, <3>1, SettledBy
  <2>4. CASE ~good
    BY <2>1, <2>2, <2>4, RefusedBy, Zenon
  <2> QED  BY <2>3, <2>4
<1>5. CASE t.k = "bytes"
  <2> DEFINE good == Frames(t.width, c) /\ Fits(t, Len(v))
  <2>1. /\ good => \A o : Clean(o, le) => WriteByteArray(o, t, v) = WriteRaw(o, d)
        /\ ~good => \A o : Clean(o, le) => Faulty(WriteByteArray(o, t, v))
        /\ good => \A i : Ready(i, le) /\ Ahead(i, d) => ReadByteArray(i, t) = Result(Moved(i, Bytes(d)), v)
        /\ good => \A i : Ready(i, le) /\ Short(i, d) => ReadByteArray(i, t).i.err
    BY <1>1, BytesCarried
  <2>2. /\ \A o, x : WriteOverload(o, t, x) = WriteByteArray(o, t, x)
        /\ \A i : ReadOverload(i, t) = ReadByteArray(i, t)
    BY <1>5, Overloads
  <2> HIDE DEF c, d, good
  <2>3. CASE good
    <3>1. Overloaded(t, v, le, d)
      BY <2>1, <2>2, <2>3, Zenon DEF Overloaded
    <3> QED  BY <1>3, <3>1, SettledBy
  <2>4. CASE ~good
    BY <2>1, <2>2, <2>4, RefusedBy, Zenon
  <2> QED  BY <2>3, <2>4
<1> QED  BY <1>4, <1>5

LEMMA FlatSettled ==
  ASSUME NEW t, NEW v, NEW le \in BOOLEAN, Unfolded({t}), Flat(t, v)
  PROVE  Settled(t, v, le)
<1>1. CASE t.k \in {"int", "ranged"} /\ IsNumber(t, v)
  BY <1>1, NumberSettled
<1>2. CASE t.k = "float" /\ Sized(v, t.size)
  BY <1>2, FloatSettled
<1>3. CASE t.k = "enum" /\ IsEnum(t, v)
  BY <1>3, EnumSettled
<1>4. CASE t.k = "version" /\ IsVersion(v)
  BY <1>4, VersionSettled
<1>5. CASE t.k = "string" /\ IsString(t, v)
  BY <1>5, StringSettled
<1>6. CASE \/ t.k = "buffer" /\ IsBytes(t, v) /\ (t.width # 0 /\ t.max # 0 => Len(v) <= t.max)
           \/ t.k = "bytes" /\ IsBytes(t, v)
  <2>1. \/ t.k = "buffer" /\ (t.width # 0 /\ t.max # 0 => Len(v) <= t.max)
        \/ t.k = "bytes"
    BY <1>6
  <2> QED  BY <1>6, <2>1, BytesSettled
<1> QED  BY <1>1, <1>2, <1>3, <1>4, <1>5, <1>6, Zenon DEF Flat

\* A writer with an error keeps it.
LEMMA FlatFaulty ==
  ASSUME NEW o, Faulty(o), NEW t, NEW v
  PROVE  /\ Faulty(WriteInt(o, t, v)) /\ Faulty(WriteRanged(o, t, v)) /\ Faulty(WriteEnum(o, t, v))
         /\ Faulty(WriteBits(o, v, Len(v), FALSE)) /\ Faulty(WriteVersion(o, v))
         /\ Faulty(WriteString(o, t, v)) /\ Faulty(WriteByteBuffer(o, t, v)) /\ Faulty(WriteByteArray(o, t, v))
<1>0. Faulty(AlignOut(o))
  BY FaultyRaw
<1>1. Faulty(WriteInt(o, t, v)) /\ Faulty(WriteEnum(o, t, v)) /\ Faulty(WriteBits(o, v, Len(v), FALSE))
  BY FaultyBits, Zenon DEF WriteInt, WriteEnum
<1>2. Faulty(WriteRanged(o, t, v))
  BY <1>1, FaultStays, Zenon DEF WriteRanged
<1>3. Faulty(WriteVersion(o, v))
  <2>1. Faulty(WriteBits(AlignOut(o), v[1], 32, FALSE))
    BY <1>0, FaultyBits
  <2>2. Faulty(WriteBits(WriteBits(AlignOut(o), v[1], 32, FALSE), v[2], 32, FALSE))
    BY <2>1, FaultyBits
  <2> QED  BY <2>2, Zenon DEF WriteVersion
<1>4. Faulty(WriteString(o, t, v))
  <2> DEFINE text == Bom(t.enc) \o Encode(v, t.enc) \o Termination(t.enc)
             a == AlignOut(o)
  <2>1. \/ WriteString(o, t, v) = WriteRaw(WriteNumber(a, Len(text), t.width), BitsOf(text))
        \/ WriteString(o, t, v) = a
        \/ WriteString(o, t, v) = WriteRaw(a, BitsOf(text \o Copies(0, t.len - Len(text))))
    BY Zenon DEF WriteString
  <2>2. Faulty(a)
    BY <1>0
  <2> HIDE DEF text, a
  <2>3. Faulty(WriteNumber(a, Len(text), t.width))
    BY <2>2, FaultyNumber
  <2>4. \A x : Faulty(WriteRaw(WriteNumber(a, Len(text), t.width), x)) /\ Faulty(WriteRaw(a, x))
    BY <2>2, <2>3, FaultyRaw
  <2> QED  BY <2>1, <2>2, <2>4, Zenon
<1>5. Faulty(WriteByteBuffer(o, t, v))
  <2> DEFINE size == IF t.width # 0 /\ t.max > 0 /\ t.max < Len(v) THEN t.max ELSE Len(v)
             bad == \/ t.width = 0 /\ t.max # size
                    \/ t.width # 0 /\ size < t.min
                    \/ t.width \notin {0, 1, 2, 4}
                    \/ t.width \in {1, 2} /\ size >= 2 ^ (8 * t.width)
             a == AlignOut(o)
             b == [a EXCEPT !.err = a.err \/ bad]
  <2>1. WriteByteBuffer(o, t, v) = IF b.err THEN b
                                   ELSE WriteRaw(WriteNumber(b, size, t.width), SubSeq(Joined(v), 1, 8 * size))
    BY Zenon DEF WriteByteBuffer
  <2>2. Faulty(a)
    BY <1>0
  <2> HIDE DEF bad, a, size
  <2>3. Faulty(b)
    BY <2>2, FaultyOr
  <2> HIDE DEF b
  <2> QED  BY <2>1, <2>3, Zenon DEF Faulty
<1>6. Faulty(WriteByteArray(o, t, v))
  <2> DEFINE bad == ~Fits(t, Len(v))
             a == AlignOut(o)
             b == [a EXCEPT !.err = a.err \/ bad]
  <2>1. WriteByteArray(o, t, v) = IF b.err THEN b ELSE WriteRaw(WriteNumber(b, Len(v), t.width), Joined(v))
    BY Zenon DEF WriteByteArray
  <2>2. Faulty(a)
    BY <1>0
  <2> HIDE DEF bad, a
  <2>3. Faulty(b)
    BY <2>2, FaultyOr
  <2> HIDE DEF b
  <2> QED  BY <2>1, <2>3, Zenon DEF Faulty
<1> QED  BY <1>1, <1>2, <1>3, <1>4, <1>5, <1>6

LEMMA FlatPersists ==
  ASSUME NEW t, NEW v, Unfolded({t}), Flat(t, v)
  PROVE  Persists(Same(t, v))
<1>1. \A o, x : Write(o, t, x) = WriteOverload(o, t, x)
  BY Zenon DEF Unfolded
<1>2. Same(t, v).type = t /\ Same(t, v).value = v
  BY DEF Same
<1>3. ASSUME NEW o, Faulty(o)  PROVE Faulty(WriteOverload(o, t, v))
  <2>1. /\ Faulty(WriteInt(o, t, v)) /\ Faulty(WriteRanged(o, t, v)) /\ Faulty(WriteEnum(o, t, v))
        /\ Faulty(WriteBits(o, v, Len(v), FALSE)) /\ Faulty(WriteVersion(o, v))
        /\ Faulty(WriteString(o, t, v)) /\ Faulty(WriteByteBuffer(o, t, v)) /\ Faulty(WriteByteArray(o, t, v))
    BY <1>3, FlatFaulty
  <2>2. \/ t.k = "int" \/ t.k = "ranged" \/ t.k = "float" \/ t.k = "enum" \/ t.k = "version" \/ t.k = "string"
        \/ t.k = "buffer" \/ t.k = "bytes"
    BY Zenon DEF Flat
  <2>3. /\ t.k = "int" => WriteOverload(o, t, v) = WriteInt(o, t, v)
        /\ t.k = "ranged" => WriteOverload(o, t, v) = WriteRanged(o, t, v)
        /\ t.k = "float" => WriteOverload(o, t, v) = WriteBits(o, v, Len(v), FALSE)
        /\ t.k = "enum" => WriteOverload(o, t, v) = WriteEnum(o, t, v)
        /\ t.k = "version" => WriteOverload(o, t, v) = WriteVersion(o, v)
        /\ t.k = "string" => WriteOverload(o, t, v) = WriteString(o, t, v)
        /\ t.k = "buffer" => WriteOverload(o, t, v) = WriteByteBuffer(o, t, v)
        /\ t.k = "bytes" => WriteOverload(o, t, v) = WriteByteArray(o, t, v)
    BY Overloads, Zenon
  <2> QED  BY <2>1, <2>2, <2>3, Zenon
<1> QED  BY <1>1, <1>2, <1>3, Zenon DEF Persists

-----------------------------------------------------------------------------
(* Readers that stay in the body, whatever it holds.                       *)

Backed(i) ==
  i \in Inputs /\ i.pos % 8 = 0 /\ i.stray = "no" /\ (i.rem = 0 \/ i.pos + 8 * i.rem <= Len(i.body))

Onward(i, j) == Backed(j) /\ j.body = i.body /\ j.le = i.le /\ j.pos >= i.pos /\ j.rem <= i.rem

\* Something has been read, or the error flag is set.
Progress(i, j) == Onward(i, j) /\ (j.err = TRUE \/ (j.pos > i.pos /\ j.rem < i.rem))

LEMMA BackedFields ==
  ASSUME NEW i, Backed(i)
  PROVE  /\ i \in Inputs /\ i.body \in Seq(Bit) /\ Len(i.body) \in Nat /\ i.pos \in Nat /\ i.rem \in Nat
         /\ i.err \in BOOLEAN /\ i.le \in BOOLEAN /\ i.pos % 8 = 0 /\ i.stray = "no"
         /\ (i.rem = 0 \/ i.pos + 8 * i.rem <= Len(i.body))
BY LenProperties DEF Backed, Inputs

LEMMA ReadyBacked ==
  ASSUME NEW i, NEW le, Ready(i, le)
  PROVE  Backed(i)
BY ReadyFields DEF Backed, Ready

LEMMA OnwardSelf ==
  ASSUME NEW i, Backed(i)
  PROVE  Onward(i, i)
BY BackedFields DEF Onward

LEMMA OnwardTwice ==
  ASSUME NEW i, NEW j, NEW k, Backed(i), Onward(i, j), Onward(j, k)
  PROVE  /\ Onward(i, k)
         /\ Progress(i, j) /\ j.err = FALSE => Progress(i, k)
         /\ Progress(j, k) => Progress(i, k)
<1>1. Backed(j) /\ Backed(k)
  BY DEF Onward
<1>2. /\ i.pos \in Nat /\ i.rem \in Nat /\ j.pos \in Nat /\ j.rem \in Nat /\ k.pos \in Nat /\ k.rem \in Nat
  BY <1>1, BackedFields
<1>3. /\ j.body = i.body /\ j.le = i.le /\ j.pos >= i.pos /\ j.rem <= i.rem
      /\ k.body = j.body /\ k.le = j.le /\ k.pos >= j.pos /\ k.rem <= j.rem
  BY DEF Onward
<1>4. Onward(i, k)
  BY <1>1, <1>2, <1>3 DEF Onward
<1> QED  BY <1>2, <1>3, <1>4 DEF Progress

LEMMA FlagSet ==
  ASSUME NEW i, Backed(i), NEW j, Onward(i, j), NEW e \in BOOLEAN
  PROVE  /\ Onward(i, [j EXCEPT !.err = e])
         /\ e = TRUE => Progress(i, [j EXCEPT !.err = e])
         /\ j.pos > i.pos /\ j.rem < i.rem => Progress(i, [j EXCEPT !.err = e])
<1> DEFINE k == [j EXCEPT !.err = e]
<1>1. j \in Inputs
  BY DEF Onward, Backed
<1>2. /\ k \in Inputs /\ k.body = j.body /\ k.pos = j.pos /\ k.rem = j.rem /\ k.le = j.le
      /\ k.stray = j.stray /\ k.err = e
  BY <1>1 DEF Inputs
<1> HIDE DEF k
<1>3. Onward(i, k)
  BY <1>2 DEF Onward, Backed
<1>4. /\ e = TRUE => Progress(i, k)
      /\ j.pos > i.pos /\ j.rem < i.rem => Progress(i, k)
  BY <1>2, <1>3 DEF Progress
<1> QED  BY <1>3, <1>4 DEF k

LEMMA FailOnward ==
  ASSUME NEW i, Backed(i), NEW j, Onward(i, j)
  PROVE  Progress(i, Fail(j)) /\ Onward(i, Fail(j))
<1>1. Progress(i, [j EXCEPT !.err = TRUE])
  BY FlagSet
<1> QED  BY <1>1, Zenon DEF Fail, Progress

LEMMA MovedOn ==
  ASSUME NEW p \in Nat, NEW r \in Nat, NEW l \in Nat, NEW n \in Nat, n <= r, p % 8 = 0,
         r = 0 \/ p + 8 * r <= l
  PROVE  (p + 8 * n) % 8 = 0 /\ (r - n = 0 \/ p + 8 * n + 8 * (r - n) <= l)
<1>1. (p + 8 * n) % 8 = 0
  OBVIOUS
<1>2. r - n = 0 \/ p + 8 * n + 8 * (r - n) <= l
  OBVIOUS
<1> QED  BY <1>1, <1>2

LEMMA MovedOnward ==
  ASSUME NEW i, Backed(i), NEW n \in Nat, n <= i.rem
  PROVE  Onward(i, Moved(i, n)) /\ (n # 0 => Moved(i, n).pos > i.pos /\ Moved(i, n).rem < i.rem)
<1> DEFINE m == Moved(i, n)
<1>1. /\ m \in Inputs /\ m.body = i.body /\ m.pos = i.pos + 8 * n
      /\ m.rem = i.rem - n /\ m.err = i.err /\ m.le = i.le /\ m.stray = i.stray
  BY MovedFields DEF Backed
<1>2. PICK p \in Nat, r \in Nat, l \in Nat :
        /\ p = i.pos /\ r = i.rem /\ l = Len(i.body) /\ p % 8 = 0 /\ (r = 0 \/ p + 8 * r <= l) /\ i.stray = "no"
  BY BackedFields
<1> HIDE DEF m
<1>3. n <= r
  BY <1>2
<1>4. (p + 8 * n) % 8 = 0 /\ (r - n = 0 \/ p + 8 * n + 8 * (r - n) <= l)
  BY <1>2, <1>3, MovedOn
<1>5. Backed(m)
  BY <1>1, <1>2, <1>3, <1>4 DEF Backed
<1>6. m.pos >= i.pos /\ m.rem <= i.rem /\ (n # 0 => m.pos > i.pos /\ m.rem < i.rem)
  BY <1>1, <1>2
<1> QED  BY <1>1, <1>5, <1>6 DEF Onward, m

LEMMA LessAhead ==
  ASSUME NEW p \in Nat, NEW r \in Nat, NEW l \in Nat, NEW n \in Nat, r = 0 \/ p + 8 * r <= l
  PROVE  /\ n >= r => (IF n >= r THEN 0 ELSE r - n) = 0 /\ (n # 0 => 0 < r \/ n > r)
         /\ ~(n >= r) => /\ (IF n >= r THEN 0 ELSE r - n) = r - n /\ p + 8 * n + 8 * (r - n) <= l
                         /\ r - n <= r /\ (n # 0 => r - n < r)
         /\ p + 8 * n >= p /\ (n # 0 => p + 8 * n > p)
OBVIOUS

LEMMA RawOnward ==
  ASSUME NEW i, Backed(i), NEW n \in Nat
  PROVE  /\ Onward(i, ReadRaw(i, n)) /\ (i.err = TRUE => ReadRaw(i, n).err = TRUE)
         /\ n # 0 => Progress(i, ReadRaw(i, n))
<1> DEFINE m == ReadRaw(i, n)
           e == i.err \/ n > i.rem
           q == IF n >= i.rem THEN 0 ELSE i.rem - n
<1>1. PICK p \in Nat, r \in Nat, l \in Nat :
        /\ p = i.pos /\ r = i.rem /\ l = Len(i.body) /\ p % 8 = 0 /\ (r = 0 \/ p + 8 * r <= l) /\ i.stray = "no"
        /\ i \in Inputs /\ i.err \in BOOLEAN
  BY BackedFields
<1>2. m = [i EXCEPT !.err = e, !.rem = q, !.pos = i.pos + 8 * n]
  BY Zenon DEF ReadRaw
<1>3. e \in BOOLEAN /\ q \in Nat /\ i.pos + 8 * n \in Nat /\ (i.err = TRUE => e = TRUE) /\ (n > i.rem => e = TRUE)
  BY <1>1
<1>4. /\ q = 0 \/ i.pos + 8 * n + 8 * q <= Len(i.body)
      /\ q <= i.rem /\ (n # 0 => q < i.rem \/ e = TRUE) /\ i.pos + 8 * n >= i.pos
      /\ (n # 0 => i.pos + 8 * n > i.pos)
  <2>1. /\ n >= r => q = 0 /\ (n # 0 => 0 < r \/ n > r)
        /\ ~(n >= r) => q = r - n /\ p + 8 * n + 8 * (r - n) <= l /\ r - n <= r /\ (n # 0 => r - n < r)
        /\ p + 8 * n >= p /\ (n # 0 => p + 8 * n > p)
    BY <1>1, LessAhead
  <2> HIDE DEF q, e
  <2>2. CASE n >= r
    BY <1>1, <1>3, <2>1, <2>2
  <2>3. CASE ~(n >= r)
    BY <1>1, <1>3, <2>1, <2>3
  <2> QED  BY <2>2, <2>3
<1>5. (i.pos + 8 * n) % 8 = 0
  BY <1>1
<1> HIDE DEF e, q, m
<1>6. /\ m \in Inputs /\ m.body = i.body /\ m.pos = i.pos + 8 * n /\ m.rem = q /\ m.err = e /\ m.le = i.le
      /\ m.stray = i.stray
  BY <1>1, <1>2, <1>3 DEF Inputs
<1>7. Onward(i, m)
  BY <1>1, <1>4, <1>5, <1>6 DEF Onward, Backed
<1>8. n # 0 => Progress(i, m)
  BY <1>4, <1>6, <1>7 DEF Progress
<1> QED  BY <1>3, <1>6, <1>7, <1>8 DEF m

\* What a read of n whole bytes does.
Taken(i, n, r) ==
  \/ r.failed = TRUE /\ r.i = i
  \/ r.failed = FALSE /\ n # 0 /\ n <= i.rem /\ r.i = Moved(i, n)

LEMMA BitsStay ==
  ASSUME NEW i, Backed(i), NEW n \in Nat, NEW signed \in BOOLEAN
  PROVE  Taken(i, n, ReadBits(i, n, 8 * n, signed))
<1>1. /\ i \in Inputs /\ i.pos % 8 = 0 /\ i.rem \in Nat /\ (i.rem = 0 \/ i.pos + 8 * i.rem <= Len(i.body))
      /\ i.pos \in Nat /\ Len(i.body) \in Nat
  BY BackedFields
<1>2. CASE n = 0
  <2>1. Least(8 * n, 8 * n) = 0
    BY <1>2 DEF Least
  <2>2. ReadBits(i, n, 8 * n, signed) = [failed |-> TRUE, i |-> i, v |-> Copies(0, 8 * n)]
    BY <2>1, Zenon DEF ReadBits
  <2> QED  BY <2>2 DEF Taken
<1>3. CASE n # 0 /\ i.rem < n
  <2>1. ReadBits(i, n, 8 * n, signed) = [failed |-> TRUE, i |-> i, v |-> Copies(0, 8 * n)]
    BY <1>1, <1>3, BitsTaken
  <2> QED  BY <2>1 DEF Taken
<1>4. CASE n # 0 /\ n <= i.rem
  <2>1. i.pos + 8 * n <= Len(i.body)
    BY <1>1, <1>4
  <2>2. ReadBits(i, n, 8 * n, signed)
          = [failed |-> FALSE, i |-> Moved(i, n),
             v |-> Ordered(SubSeq(i.body, i.pos + 1, i.pos + 8 * n), i.le)]
    BY <1>1, <1>4, <2>1, BitsTaken
  <2>3. PICK x, m : ReadBits(i, n, 8 * n, signed) = [failed |-> FALSE, i |-> m, v |-> x] /\ m = Moved(i, n)
    BY <2>2, Zenon
  <2> QED  BY <1>4, <2>3 DEF Taken
<1> QED  BY <1>1, <1>2, <1>3, <1>4

\* The flag of a read that has been made is set to its failure.
LEMMA TakenOnward ==
  ASSUME NEW i, Backed(i), NEW n \in Nat, NEW r, Taken(i, n, r)
  PROVE  /\ Onward(i, r.i) /\ r.failed \in BOOLEAN
         /\ Progress(i, [r.i EXCEPT !.err = r.failed])
         /\ \A e \in BOOLEAN : Onward(i, [r.i EXCEPT !.err = e])
<1>1. CASE r.failed = TRUE /\ r.i = i
  <2>1. Onward(i, r.i)
    BY <1>1, OnwardSelf
  <2> QED  BY <1>1, <2>1, FlagSet
<1>2. CASE r.failed = FALSE /\ n # 0 /\ n <= i.rem /\ r.i = Moved(i, n)
  <2>1. Onward(i, r.i) /\ r.i.pos > i.pos /\ r.i.rem < i.rem
    BY <1>2, MovedOnward
  <2> QED  BY <1>2, <2>1, FlagSet
<1> QED  BY <1>1, <1>2 DEF Taken

LEMMA NumberStay ==
  ASSUME NEW i, Backed(i), NEW width, NEW permitted \in BOOLEAN
  PROVE  LET s == ReadNumber(AlignIn(i), width, permitted)
         IN  Onward(i, s.i) /\ s.n \in Nat /\ (width # 0 => Progress(i, s.i))
<1> DEFINE s == ReadNumber(i, width, permitted)
           r == ReadBits(i, width, 8 * width, FALSE)
<1>0. AlignIn(i) = i /\ i.err \in BOOLEAN
  BY AlignedReader, BackedFields
<1>1. s = IF width = 0 THEN [i |-> [i EXCEPT !.err = i.err \/ ~permitted], n |-> 0]
          ELSE IF width \in {1, 2, 4} THEN [i |-> [r.i EXCEPT !.err = r.failed], n |-> NumberOf(r.v)]
          ELSE [i |-> Fail(i), n |-> 0]
  BY Zenon DEF ReadNumber
<1>2. CASE width = 0
  <2>1. Onward(i, [i EXCEPT !.err = i.err \/ ~permitted])
    <3>1. (i.err \/ ~permitted) \in BOOLEAN
      BY <1>0
    <3> QED  BY <3>1, OnwardSelf, FlagSet
  <2>2. PICK j : j = [i EXCEPT !.err = i.err \/ ~permitted]
    OBVIOUS
  <2>3. s = [i |-> j, n |-> 0]
    BY <1>1, <1>2, <2>2, Zenon
  <2>4. s.i = j /\ s.n = 0
    BY <2>3
  <2> HIDE DEF s
  <2> QED  BY <1>0, <1>2, <2>1, <2>2, <2>4 DEF s
<1>3. CASE width \in {1, 2, 4}
  <2>1. Taken(i, width, r)
    <3>1. width \in Nat /\ FALSE \in BOOLEAN
      BY <1>3
    <3> QED  BY <3>1, BitsStay
  <2>2. PICK j, n : j = [r.i EXCEPT !.err = r.failed] /\ n = NumberOf(r.v) /\ n \in Nat
    BY NumberType
  <2>3. s = [i |-> j, n |-> n]
    <3>1. width # 0
      BY <1>3
    <3> QED  BY <1>1, <1>3, <2>2, <3>1, Zenon
  <2>4. s.i = j /\ s.n = n
    BY <2>3
  <2>5. width \in Nat
    BY <1>3
  <2> HIDE DEF r, s
  <2>6. Progress(i, j)
    BY <2>1, <2>2, <2>5, TakenOnward, Zenon
  <2>7. Onward(i, j)
    BY <2>6 DEF Progress
  <2> QED  BY <1>0, <2>2, <2>4, <2>6, <2>7 DEF s
<1>4. CASE width \notin {0, 1, 2, 4}
  <2>1. s = [i |-> Fail(i), n |-> 0]
    BY <1>1, <1>4
  <2>2. s.i = Fail(i) /\ s.n = 0
    BY <2>1
  <2>3. Progress(i, Fail(i)) /\ Onward(i, Fail(i))
    BY OnwardSelf, FailOnward
  <2> HIDE DEF s
  <2> QED  BY <1>0, <2>2, <2>3 DEF s
<1> QED  BY <1>2, <1>3, <1>4

Stays(t) == \A i : Backed(i) => Onward(i, Read(i, t).i)

Eats(t) == \A i : Backed(i) => Progress(i, Read(i, t).i)

\* The deployments of the types that hold no others.
FlatType(t) ==
  \/ t.k = "bool"
  \/ t.k \in {"int", "ranged"} /\ t.size \in Nat /\ t.bits = 8 * t.size /\ t.signed \in BOOLEAN
  \/ t.k = "float" /\ t.size \in Nat
  \/ t.k = "enum" /\ EnumSize(t) \in Nat /\ t.bits = 8 * EnumSize(t) /\ t.signed \in BOOLEAN
  \/ t.k = "version"
  \/ t.k = "string" /\ t.len \in Nat
  \/ t.k \in {"buffer", "bytes"} /\ t.max \in Nat

\* Those of which nothing can be read without an error or a byte being used.
EatingType(t) ==
  /\ t.k # "version"
  /\ t.k \in {"int", "ranged", "enum"} => t.inv = NoInvalid
  /\ t.k \in {"string", "buffer", "bytes"} => t.width # 0

LEMMA SizedStay ==
  ASSUME NEW i, Backed(i), NEW n \in Nat, NEW t, t.bits = 8 * n, t.signed \in BOOLEAN
  PROVE  /\ Onward(i, ReadSized(i, t, n).i)
         /\ t.inv = NoInvalid => Progress(i, ReadSized(i, t, n).i)
<1> DEFINE r == ReadBits(i, n, 8 * n, t.signed)
           s == ReadSized(i, t, n)
<1>1. s = IF r.failed /\ t.inv # NoInvalid
            THEN Result([r.i EXCEPT !.err = FALSE], t.inv)
            ELSE Result([r.i EXCEPT !.err = r.failed], r.v)
  BY Zenon DEF ReadSized
<1>2. Taken(i, n, r)
  BY BitsStay
<1> HIDE DEF r, s
<1>3. /\ Progress(i, [r.i EXCEPT !.err = r.failed])
      /\ Onward(i, [r.i EXCEPT !.err = FALSE])
  BY <1>2, TakenOnward
<1>4. CASE r.failed /\ t.inv # NoInvalid
  <2>1. s.i = [r.i EXCEPT !.err = FALSE]
    BY <1>1, <1>4 DEF Result
  <2> QED  BY <1>3, <1>4, <2>1 DEF s
<1>5. CASE ~(r.failed /\ t.inv # NoInvalid)
  <2>1. s.i = [r.i EXCEPT !.err = r.failed]
    BY <1>1, <1>5 DEF Result
  <2> QED  BY <1>3, <2>1, Zenon DEF s, Progress
<1> QED  BY <1>4, <1>5

LEMMA NumbersStay ==
  ASSUME NEW i, Backed(i), NEW t, t.size \in Nat, t.bits = 8 * t.size, t.signed \in BOOLEAN
  PROVE  /\ Onward(i, ReadInt(i, t).i) /\ Onward(i, ReadRanged(i, t).i)
         /\ t.inv = NoInvalid => Progress(i, ReadInt(i, t).i) /\ Progress(i, ReadRanged(i, t).i)
<1> DEFINE r == ReadInt(i, t)
<1>1. Onward(i, r.i) /\ (t.inv = NoInvalid => Progress(i, r.i))
  BY SizedStay, Zenon DEF ReadInt
<1>2. ReadRanged(i, t) = IF r.v \notin t.range THEN Result(Fail(r.i), r.v) ELSE r
  BY Zenon DEF ReadRanged
<1> HIDE DEF r
<1>3. ReadRanged(i, t).i = Fail(r.i) \/ ReadRanged(i, t) = r
  <2>1. CASE r.v \notin t.range
    <3>1. ReadRanged(i, t) = Result(Fail(r.i), r.v)
      BY <1>2, <2>1, Zenon
    <3> QED  BY <3>1 DEF Result
  <2> QED  BY <1>2, <2>1, Zenon
<1>4. Progress(i, Fail(r.i)) /\ Onward(i, Fail(r.i))
  BY <1>1, FailOnward
<1> QED  BY <1>1, <1>3, <1>4, Zenon DEF r

LEMMA FixedStay ==
  ASSUME NEW i, Backed(i), NEW t
  PROVE  /\ Progress(i, ReadBool(i).i) /\ Onward(i, ReadVersion(i).i)
         /\ t.size \in Nat => Progress(i, ReadFloat(i, t).i)
         /\ EnumSize(t) \in Nat /\ t.bits = 8 * EnumSize(t) /\ t.signed \in BOOLEAN =>
              Onward(i, ReadEnum(i, t).i) /\ (t.inv = NoInvalid => Progress(i, ReadEnum(i, t).i))
<1>0. AlignIn(i) = i /\ FALSE \in BOOLEAN
  BY AlignedReader, BackedFields
<1>1. Progress(i, ReadBool(i).i)
  <2> DEFINE r == ReadBits(i, 1, 8, FALSE)
  <2>1. ReadBool(i).i = [r.i EXCEPT !.err = r.failed]
    BY DEF ReadBool, Result
  <2>2. 1 \in Nat /\ 8 * 1 = 8
    OBVIOUS
  <2>3. Taken(i, 1, ReadBits(i, 1, 8 * 1, FALSE))
    BY <1>0, <2>2, BitsStay, Zenon
  <2>4. Taken(i, 1, r)
    BY <2>2, <2>3
  <2> HIDE DEF r
  <2>5. Progress(i, [r.i EXCEPT !.err = r.failed])
    BY <2>2, <2>4, TakenOnward
  <2> QED  BY <2>1, <2>5, Zenon
<1>2. ASSUME NEW j, Backed(j)  PROVE Onward(j, ReadBits(j, 4, 32, FALSE).i)
  <2>1. 4 \in Nat /\ 8 * 4 = 32
    OBVIOUS
  <2>2. Taken(j, 4, ReadBits(j, 4, 8 * 4, FALSE))
    BY <1>0, <1>2, <2>1, BitsStay, Zenon
  <2>3. Taken(j, 4, ReadBits(j, 4, 32, FALSE))
    BY <2>1, <2>2
  <2> QED  BY <1>2, <2>1, <2>3, TakenOnward, Zenon
<1>3. Onward(i, ReadVersion(i).i)
  <2> DEFINE major == ReadBits(i, 4, 32, FALSE)
             minor == ReadBits(major.i, 4, 32, FALSE)
  <2>1. Onward(i, major.i)
    BY <1>2
  <2>2. Onward(major.i, minor.i)
    <3>1. Backed(major.i)
      BY <2>1 DEF Onward
    <3> HIDE DEF major
    <3> QED  BY <1>2, <3>1
  <2>3. ReadVersion(i) = Result(minor.i, <<major.v, minor.v>>)
    BY <1>0, Zenon DEF ReadVersion
  <2> HIDE DEF major, minor
  <2>4. ReadVersion(i).i = minor.i
    BY <2>3 DEF Result
  <2> QED  BY <2>1, <2>2, <2>4, OnwardTwice
<1>4. ASSUME t.size \in Nat  PROVE Progress(i, ReadFloat(i, t).i)
  <2> DEFINE r == ReadBits(i, t.size, 8 * t.size, FALSE)
  <2>1. ReadFloat(i, t) = Result([r.i EXCEPT !.err = r.failed], r.v)
    BY <1>0, Zenon DEF ReadFloat
  <2>2. Taken(i, t.size, r)
    BY <1>0, <1>4, BitsStay
  <2> HIDE DEF r
  <2>3. ReadFloat(i, t).i = [r.i EXCEPT !.err = r.failed]
    BY <2>1 DEF Result
  <2>4. Progress(i, [r.i EXCEPT !.err = r.failed])
    BY <1>4, <2>2, TakenOnward
  <2> QED  BY <2>3, <2>4, Zenon
<1>5. ASSUME EnumSize(t) \in Nat, t.bits = 8 * EnumSize(t), t.signed \in BOOLEAN
      PROVE  Onward(i, ReadEnum(i, t).i) /\ (t.inv = NoInvalid => Progress(i, ReadEnum(i, t).i))
  <2> DEFINE r == ReadSized(i, t, EnumSize(t))
  <2>1. Onward(i, r.i) /\ (t.inv = NoInvalid => Progress(i, r.i))
    BY <1>5, SizedStay
  <2> HIDE DEF r
  <2>2. ReadEnum(i, t) = Result(r.i, r.v \o Copies(0, 8 * t.size - Len(r.v)))
    BY Zenon DEF ReadEnum, r
  <2>3. ReadEnum(i, t).i = r.i
    BY <2>2 DEF Result
  <2> QED  BY <2>1, <2>3, Zenon
<1> QED  BY <1>1, <1>3, <1>4, <1>5

\* Behind a length field, or with a length that is given.
HeadStays(i, s, width) == Onward(i, s.i) /\ s.n \in Nat /\ (width # 0 => Progress(i, s.i))

LEMMA HeadStay ==
  ASSUME NEW i, Backed(i), NEW width, NEW permitted \in BOOLEAN, NEW n \in Nat
  PROVE  /\ HeadStays(i, IF width = 0 THEN [i |-> AlignIn(i), n |-> n] ELSE ReadNumber(AlignIn(i), width, permitted), width)
         /\ HeadStays(i, IF width # 0 THEN ReadNumber(AlignIn(i), width, permitted) ELSE [i |-> AlignIn(i), n |-> n], width)
         /\ HeadStays(i, ReadNumber(AlignIn(i), width, permitted), width)
<1>1. AlignIn(i) = i
  BY AlignedReader, BackedFields
<1>2. HeadStays(i, ReadNumber(AlignIn(i), width, permitted), width)
  BY NumberStay, Zenon DEF HeadStays
<1>3. CASE width = 0
  <2>1. HeadStays(i, [i |-> i, n |-> n], width)
    BY <1>3, OnwardSelf DEF HeadStays
  <2> QED  BY <1>1, <1>2, <1>3, <2>1, Zenon
<1>4. CASE width # 0
  BY <1>2, <1>4, Zenon
<1> QED  BY <1>3, <1>4

\* Every reader that takes as many bytes as the length says, or fails.
LEMMA ContentStay ==
  ASSUME NEW i, Backed(i), NEW width, NEW s, HeadStays(i, s, width), NEW bad,
         NEW j, j = IF bad THEN Fail(s.i) ELSE s.i, NEW k, k \in {j, ReadRaw(j, s.n), Fail(ReadRaw(j, s.n))}
  PROVE  Onward(i, k) /\ (width # 0 => Progress(i, k))
<1>1. Onward(i, s.i) /\ s.n \in Nat /\ (width # 0 => Progress(i, s.i))
  BY DEF HeadStays
<1>2. Onward(i, j) /\ (width # 0 => Progress(i, j))
  <2>1. Progress(i, Fail(s.i)) /\ Onward(i, Fail(s.i))
    BY <1>1, FailOnward
  <2> QED  BY <1>1, <2>1, Zenon
<1>3. Backed(j) /\ j.err \in BOOLEAN
  BY <1>2, BackedFields DEF Onward
<1>4. Onward(j, ReadRaw(j, s.n)) /\ (j.err = TRUE => ReadRaw(j, s.n).err = TRUE)
  BY <1>1, <1>3, RawOnward
<1> DEFINE m == ReadRaw(j, s.n)
<1>5. Onward(j, m) /\ (j.err = TRUE => m.err = TRUE)
  BY <1>4
<1> HIDE DEF m
<1>6. Onward(i, m) /\ (width # 0 => Progress(i, m))
  <2>1. Onward(i, m) /\ (Progress(i, j) /\ j.err = FALSE => Progress(i, m))
    BY <1>2, <1>5, OnwardTwice
  <2>2. j.err = TRUE => Progress(i, m)
    BY <1>5, <2>1 DEF Progress
  <2> QED  BY <1>2, <1>3, <2>1, <2>2
<1>7. Onward(i, Fail(m)) /\ Progress(i, Fail(m))
  BY <1>6, FailOnward
<1>8. k = j \/ k = m \/ k = Fail(m)
  BY DEF m
<1> QED  BY <1>2, <1>6, <1>7, <1>8

LEMMA CountedStay ==
  ASSUME NEW i, Backed(i), NEW t
  PROVE  /\ t.len \in Nat =>
              Onward(i, ReadString(i, t).i) /\ (t.width # 0 => Progress(i, ReadString(i, t).i))
         /\ t.max \in Nat =>
              /\ Onward(i, ReadByteBuffer(i, t).i) /\ (t.width # 0 => Progress(i, ReadByteBuffer(i, t).i))
              /\ Onward(i, ReadByteArray(i, t).i) /\ (t.width # 0 => Progress(i, ReadByteArray(i, t).i))
<1>0. TRUE \in BOOLEAN /\ FALSE \in BOOLEAN
  OBVIOUS
<1>1. ASSUME t.len \in Nat
      PROVE  Onward(i, ReadString(i, t).i) /\ (t.width # 0 => Progress(i, ReadString(i, t).i))
  <2> DEFINE s == IF t.width = 0 THEN [i |-> AlignIn(i), n |-> t.len] ELSE ReadNumber(AlignIn(i), t.width, FALSE)
             j == IF s.n > s.i.rem THEN Fail(s.i) ELSE s.i
             d == Decode(RawBytes(j, s.n), t.enc)
  <2>1. ReadString(i, t) = IF j.err THEN Result(j, <<>>)
                           ELSE IF d = Malformed THEN Result(Fail(ReadRaw(j, s.n)), <<>>)
                           ELSE Result(ReadRaw(j, s.n), d)
    BY Zenon DEF ReadString
  <2>2. HeadStays(i, s, t.width)
    BY <1>0, <1>1, HeadStay
  <2> HIDE DEF s
  <2>3. PICK k : k = j /\ k = IF s.n > s.i.rem THEN Fail(s.i) ELSE s.i
    OBVIOUS
  <2> HIDE DEF j, d
  <2>4. ReadString(i, t).i \in {k, ReadRaw(k, s.n), Fail(ReadRaw(k, s.n))}
    BY <2>1, <2>3 DEF Result
  <2> QED  BY <2>2, <2>3, <2>4, ContentStay
<1>2. ASSUME t.max \in Nat
      PROVE  Onward(i, ReadByteBuffer(i, t).i) /\ (t.width # 0 => Progress(i, ReadByteBuffer(i, t).i))
  <2> DEFINE s == IF t.width # 0 THEN ReadNumber(AlignIn(i), t.width, TRUE) ELSE [i |-> AlignIn(i), n |-> t.max]
             kept == IF t.max # 0 /\ s.n > t.max THEN t.max ELSE s.n
             bad == (t.width # 0 /\ s.n < t.min) \/ s.n > s.i.rem
             j == IF bad THEN Fail(s.i) ELSE s.i
  <2>1. ReadByteBuffer(i, t) = IF j.err THEN Result(j, <<>>) ELSE Result(ReadRaw(j, s.n), Elements(j, kept))
    BY Zenon DEF ReadByteBuffer
  <2>2. HeadStays(i, s, t.width)
    BY <1>0, <1>2, HeadStay
  <2> HIDE DEF s, bad, kept
  <2>3. PICK k : k = j /\ k = IF bad THEN Fail(s.i) ELSE s.i
    OBVIOUS
  <2> HIDE DEF j
  <2>4. ReadByteBuffer(i, t).i \in {k, ReadRaw(k, s.n), Fail(ReadRaw(k, s.n))}
    BY <2>1, <2>3 DEF Result
  <2> QED  BY <2>2, <2>3, <2>4, ContentStay
<1>3. ASSUME t.max \in Nat
      PROVE  Onward(i, ReadByteArray(i, t).i) /\ (t.width # 0 => Progress(i, ReadByteArray(i, t).i))
  <2> DEFINE s == IF t.width # 0 THEN ReadNumber(AlignIn(i), t.width, TRUE) ELSE [i |-> AlignIn(i), n |-> t.max]
             bad == \/ t.width # 0 /\ (s.n < t.min \/ (t.max # 0 /\ s.n > t.max))
                    \/ s.n > s.i.rem
             j == IF bad THEN Fail(s.i) ELSE s.i
  <2>1. ReadByteArray(i, t) = IF j.err THEN Result(j, <<>>) ELSE Result(ReadRaw(j, s.n), Elements(j, s.n))
    BY Zenon DEF ReadByteArray
  <2>2. HeadStays(i, s, t.width)
    BY <1>0, <1>3, HeadStay
  <2> HIDE DEF s, bad
  <2>3. PICK k : k = j /\ k = IF bad THEN Fail(s.i) ELSE s.i
    OBVIOUS
  <2> HIDE DEF j
  <2>4. ReadByteArray(i, t).i \in {k, ReadRaw(k, s.n), Fail(ReadRaw(k, s.n))}
    BY <2>1, <2>3 DEF Result
  <2> QED  BY <2>2, <2>3, <2>4, ContentStay
<1> QED  BY <1>1, <1>2, <1>3

LEMMA FlatStays ==
  ASSUME NEW t, Unfolded({t}), FlatType(t)
  PROVE  Stays(t) /\ (EatingType(t) => Eats(t))
<1>1. \A i : Read(i, t) = ReadOverload(i, t)
  BY Zenon DEF Unfolded
<1> SUFFICES ASSUME NEW i, Backed(i)
             PROVE  /\ Onward(i, ReadOverload(i, t).i)
                    /\ EatingType(t) => Progress(i, ReadOverload(i, t).i)
  BY <1>1, Zenon DEF Stays, Eats
<1>2. \A j : Progress(i, j) => Onward(i, j)
  BY DEF Progress
<1>3. CASE t.k = "bool"
  <2>1. ReadOverload(i, t) = ReadBool(i)
    BY <1>3 DEF ReadOverload
  <2> QED  BY <1>2, <2>1, FixedStay, Zenon
<1>4. CASE t.k \in {"int", "ranged"} /\ t.size \in Nat /\ t.bits = 8 * t.size /\ t.signed \in BOOLEAN
  <2>1. /\ Onward(i, ReadInt(i, t).i) /\ Onward(i, ReadRanged(i, t).i)
        /\ t.inv = NoInvalid => Progress(i, ReadInt(i, t).i) /\ Progress(i, ReadRanged(i, t).i)
    BY <1>4, NumbersStay
  <2>2. ReadOverload(i, t) = ReadInt(i, t) \/ ReadOverload(i, t) = ReadRanged(i, t)
    BY <1>4, Overloads
  <2>3. EatingType(t) => t.inv = NoInvalid
    BY <1>4 DEF EatingType
  <2> QED  BY <2>1, <2>2, <2>3
<1>5. CASE t.k = "float" /\ t.size \in Nat
  <2>1. ReadOverload(i, t) = ReadFloat(i, t)
    BY <1>5, Overloads
  <2> QED  BY <1>2, <1>5, <2>1, FixedStay
<1>6. CASE t.k = "enum" /\ EnumSize(t) \in Nat /\ t.bits = 8 * EnumSize(t) /\ t.signed \in BOOLEAN
  <2>1. Onward(i, ReadEnum(i, t).i) /\ (t.inv = NoInvalid => Progress(i, ReadEnum(i, t).i))
    BY <1>6, FixedStay
  <2>2. ReadOverload(i, t) = ReadEnum(i, t)
    BY <1>6, Overloads
  <2>3. EatingType(t) => t.inv = NoInvalid
    BY <1>6 DEF EatingType
  <2> QED  BY <2>1, <2>2, <2>3
<1>7. CASE t.k = "version"
  <2>1. ReadOverload(i, t) = ReadVersion(i) /\ ~EatingType(t)
    BY <1>7, Overloads DEF EatingType
  <2> QED  BY <2>1, FixedStay
<1>8. CASE t.k = "string" /\ t.len \in Nat
  <2>1. Onward(i, ReadString(i, t).i) /\ (t.width # 0 => Progress(i, ReadString(i, t).i))
    BY <1>8, CountedStay
  <2>2. ReadOverload(i, t) = ReadString(i, t)
    BY <1>8, Overloads
  <2>3. EatingType(t) => t.width # 0
    BY <1>8 DEF EatingType
  <2> QED  BY <2>1, <2>2, <2>3
<1>9. CASE t.k \in {"buffer", "bytes"} /\ t.max \in Nat
  <2>1. /\ Onward(i, ReadByteBuffer(i, t).i) /\ (t.width # 0 => Progress(i, ReadByteBuffer(i, t).i))
        /\ Onward(i, ReadByteArray(i, t).i) /\ (t.width # 0 => Progress(i, ReadByteArray(i, t).i))
    BY <1>9, CountedStay
  <2>2. ReadOverload(i, t) = ReadByteBuffer(i, t) \/ ReadOverload(i, t) = ReadByteArray(i, t)
    BY <1>9, Overloads
  <2>3. EatingType(t) => t.width # 0
    BY <1>9 DEF EatingType
  <2> QED  BY <2>1, <2>2, <2>3
<1> QED  BY <1>3, <1>4, <1>5, <1>6, <1>7, <1>8, <1>9, Zenon DEF FlatType

-----------------------------------------------------------------------------
(* Messages: the encodings of the arguments, and where each begins.        *)

Meant(a) == Arguments[a].meant

Encoded(a, le, c) ==
  /\ Puts(Arguments[a], le, c) /\ Gets(Arguments[a], le, c)
  /\ Telling(Arguments[a].reads, Arguments[a].meant) => Misses(Arguments[a], le, c)

Layout(bits, as, le, enc, at) ==
  /\ bits \in Seq(Bit) /\ enc \in [1 .. Len(as) -> Chunks] /\ at \in [0 .. Len(as) -> Nat]
  /\ at[0] = 0 /\ Len(bits) = 8 * at[Len(as)]
  /\ \A k \in 1 .. Len(as) :
       /\ Encoded(as[k], le, enc[k]) /\ at[k] = at[k - 1] + Bytes(enc[k]) /\ at[k] <= at[Len(as)]
       /\ \A j \in 1 .. Len(enc[k]) : bits[8 * at[k - 1] + j] = enc[k][j]

LEMMA LayoutEmpty ==
  ASSUME NEW le
  PROVE  \E enc, at : Layout(<<>>, <<>>, le, enc, at)
<1> DEFINE enc == [k \in 1 .. 0 |-> <<>>]
           at == [k \in 0 .. 0 |-> 0]
<1>1. PICK as : as = <<>> /\ Len(as) = 0
  OBVIOUS
<1>2. as \in Seq(Bit)
  BY <1>1, EmptySeq
<1>3. enc \in [1 .. Len(as) -> Chunks]
  BY <1>1
<1>4. at \in [0 .. Len(as) -> Nat] /\ at[0] = 0 /\ at[Len(as)] = 0
  BY <1>1
<1> HIDE DEF enc, at
<1>5. \A k \in 1 .. Len(as) : FALSE
  BY <1>1
<1>6. Len(as) = 8 * at[Len(as)]
  BY <1>1, <1>4
<1>7. Layout(as, as, le, enc, at)
  BY <1>2, <1>3, <1>4, <1>5, <1>6, Zenon DEF Layout
<1> QED  BY <1>1, <1>7

LEMMA OneMore ==
  ASSUME NEW S, NEW s \in Seq(S), NEW e \in S
  PROVE  /\ Append(s, e) \in Seq(S) /\ Len(Append(s, e)) = Len(s) + 1 /\ Append(s, e)[Len(s) + 1] = e
         /\ \A k \in 1 .. Len(s) : Append(s, e)[k] = s[k]
<1>1. /\ Append(s, e) \in Seq(S) /\ Len(Append(s, e)) = Len(s) + 1 /\ Append(s, e)[Len(s) + 1] = e
  BY AppendProperties
<1>2. \A k \in 1 .. Len(s) : Append(s, e)[k] = s[k]
  BY AppendProperties
<1> QED  BY <1>1, <1>2

LEMMA WithinLayout ==
  ASSUME NEW p \in Nat, NEW w \in Nat, NEW m \in Nat, p + w <= m, NEW j \in 1 .. 8 * w
  PROVE  8 * p + j \in 1 .. 8 * m
OBVIOUS

LEMMA LayoutExtended ==
  ASSUME NEW bits, NEW S, NEW as \in Seq(S), NEW le, NEW enc, NEW at, Layout(bits, as, le, enc, at),
         NEW a \in S, NEW c \in Chunks, Encoded(a, le, c)
  PROVE  \E enc2, at2 : Layout(bits \o c, Append(as, a), le, enc2, at2)
<1>1. PICK n \in Nat : n = Len(as)
  BY LenProperties
<1>2. /\ bits \in Seq(Bit) /\ enc \in [1 .. n -> Chunks] /\ at \in [0 .. n -> Nat]
      /\ at[0] = 0 /\ Len(bits) = 8 * at[n]
      /\ \A k \in 1 .. n :
           /\ Encoded(as[k], le, enc[k]) /\ at[k] = at[k - 1] + Bytes(enc[k]) /\ at[k] <= at[n]
           /\ \A j \in 1 .. Len(enc[k]) : bits[8 * at[k - 1] + j] = enc[k][j]
  BY <1>1, Zenon DEF Layout
<1>3. PICK m \in Nat, z \in Nat : m = at[n] /\ z = Bytes(c) /\ Len(c) = 8 * z /\ c \in Seq(Bit)
  BY <1>2, ChunkType
<1>4. /\ Append(as, a) \in Seq(S) /\ Len(Append(as, a)) = n + 1 /\ Append(as, a)[n + 1] = a
      /\ \A k \in 1 .. n : Append(as, a)[k] = as[k]
  <2>1. Append(as, a) \in Seq(S) /\ Len(Append(as, a)) = Len(as) + 1 /\ Append(as, a)[Len(as) + 1] = a
    BY OneMore, Zenon
  <2>2. ASSUME NEW k \in 1 .. n  PROVE Append(as, a)[k] = as[k]
    <3>1. k \in 1 .. Len(as)
      BY <1>1
    <3> QED  BY <3>1, OneMore
  <2> QED  BY <1>1, <2>1, <2>2
<1> DEFINE enc2 == [k \in 1 .. n + 1 |-> IF k = n + 1 THEN c ELSE enc[k]]
           at2 == [k \in 0 .. n + 1 |-> IF k = n + 1 THEN m + z ELSE at[k]]
           all == bits \o c
           as2 == Append(as, a)
<1>5. /\ all \in Seq(Bit) /\ Len(all) = 8 * m + 8 * z
      /\ \A j \in 1 .. 8 * m : all[j] = bits[j]
      /\ \A j \in 1 .. 8 * z : all[8 * m + j] = c[j]
  <2>1. /\ all \in Seq(Bit) /\ Len(all) = Len(bits) + Len(c)
        /\ \A j \in 1 .. Len(bits) + Len(c) : all[j] = IF j <= Len(bits) THEN bits[j] ELSE c[j - Len(bits)]
    BY <1>2, <1>3, ConcatProperties
  <2> HIDE DEF all
  <2>2. Len(bits) = 8 * m /\ Len(c) = 8 * z
    BY <1>2, <1>3
  <2>3. ASSUME NEW j \in 1 .. 8 * m  PROVE all[j] = bits[j]
    BY <2>1, <2>2
  <2>4. ASSUME NEW j \in 1 .. 8 * z  PROVE all[8 * m + j] = c[j]
    <3>1. 8 * m + j \in 1 .. Len(bits) + Len(c) /\ ~(8 * m + j <= Len(bits)) /\ 8 * m + j - Len(bits) = j
      BY <2>2
    <3> QED  BY <2>1, <3>1
  <2> QED  BY <2>1, <2>2, <2>3, <2>4
<1>6. enc2 \in [1 .. n + 1 -> Chunks] /\ enc2[n + 1] = c /\ \A k \in 1 .. n : enc2[k] = enc[k]
  BY <1>2
<1>7. /\ at2 \in [0 .. n + 1 -> Nat] /\ at2[n + 1] = m + z /\ at2[0] = 0
      /\ \A k \in 0 .. n : at2[k] = at[k]
  BY <1>2
<1> HIDE DEF enc2, at2, all, as2
<1>8. Len(all) = 8 * at2[n + 1]
  BY <1>5, <1>7
<1>9. ASSUME NEW k \in 1 .. n + 1
      PROVE  /\ Encoded(as2[k], le, enc2[k]) /\ at2[k] = at2[k - 1] + Bytes(enc2[k]) /\ at2[k] <= at2[n + 1]
             /\ \A j \in 1 .. Len(enc2[k]) : all[8 * at2[k - 1] + j] = enc2[k][j]
  <2>1. CASE k = n + 1
    <3>1. as2[k] = a /\ enc2[k] = c /\ at2[k] = m + z /\ at2[n + 1] = m + z
      BY <1>4, <1>6, <1>7, <2>1 DEF as2
    <3>2. k - 1 = n /\ n \in 0 .. n
      BY <2>1
    <3>3. at2[k - 1] = m
      BY <1>3, <1>7, <3>2
    <3>4. Encoded(as2[k], le, enc2[k])
      BY <3>1, Zenon
    <3>5. at2[k] = at2[k - 1] + Bytes(enc2[k]) /\ at2[k] <= at2[n + 1]
      BY <1>3, <3>1, <3>3
    <3>6. \A j \in 1 .. 8 * z : all[8 * at2[k - 1] + j] = enc2[k][j]
      BY <1>5, <3>1, <3>3
    <3> QED  BY <1>3, <3>1, <3>4, <3>5, <3>6
  <2>2. CASE k # n + 1
    <3>1. k \in 1 .. n /\ k \in 0 .. n /\ k - 1 \in 0 .. n /\ n \in 0 .. n
      BY <2>2
    <3>2. as2[k] = as[k] /\ enc2[k] = enc[k] /\ at2[k] = at[k] /\ at2[k - 1] = at[k - 1] /\ at2[n + 1] = m + z
      BY <1>4, <1>6, <1>7, <3>1 DEF as2
    <3>3. PICK p \in Nat, q \in Nat, w \in Nat :
            p = at[k - 1] /\ q = at[k] /\ w = Bytes(enc[k]) /\ Len(enc[k]) = 8 * w /\ q = p + w /\ q <= m
      <4>1. enc[k] \in Chunks /\ at[k] \in Nat /\ at[k - 1] \in Nat
        BY <1>2, <3>1
      <4>2. at[k] = at[k - 1] + Bytes(enc[k]) /\ at[k] <= m
        BY <1>2, <1>3, <3>1
      <4> QED  BY <4>1, <4>2, ChunkType
    <3>4. at2[k] <= at2[n + 1]
      BY <3>2, <3>3
    <3>5. ASSUME NEW j \in 1 .. Len(enc2[k])  PROVE all[8 * at2[k - 1] + j] = enc2[k][j]
      <4>1. j \in 1 .. Len(enc[k]) /\ 8 * p + j \in 1 .. 8 * m
        <5>1. j \in 1 .. Len(enc[k])
          BY <3>2
        <5>2. j \in 1 .. 8 * w /\ p + w <= m
          BY <3>3, <5>1
        <5> QED  BY <1>3, <5>1, <5>2, WithinLayout
      <4>2. bits[8 * p + j] = enc[k][j]
        BY <1>2, <3>1, <3>3, <4>1
      <4>3. all[8 * p + j] = bits[8 * p + j]
        BY <1>5, <4>1
      <4> QED  BY <3>2, <3>3, <4>2, <4>3
    <3> QED  BY <1>2, <3>1, <3>2, <3>4, <3>5
  <2> QED  BY <2>1, <2>2
<1>10. Len(as2) = n + 1
  BY <1>4 DEF as2
<1>11. Layout(all, as2, le, enc2, at2)
  BY <1>5, <1>6, <1>7, <1>8, <1>9, <1>10, Zenon DEF Layout
<1> QED  BY <1>11 DEF all, as2

-----------------------------------------------------------------------------
(* The receiver: in step with the encodings, as far as its body goes.      *)

IsSeq(g) == \E S : g \in Seq(S)

LEMMA Appended ==
  ASSUME NEW g, IsSeq(g), NEW x
  PROVE  /\ IsSeq(Append(g, x)) /\ Len(g) \in Nat /\ Len(Append(g, x)) = Len(g) + 1
         /\ Append(g, x)[Len(g) + 1] = x /\ \A k \in 1 .. Len(g) : Append(g, x)[k] = g[k]
<1>1. PICK S : g \in Seq(S)
  BY DEF IsSeq
<1> DEFINE T == S \cup {x}
<1>2. Len(g) \in Nat /\ g \in [1 .. Len(g) -> S]
  BY <1>1, LenProperties
<1>3. g \in [1 .. Len(g) -> T]
  BY <1>2
<1>4. g \in Seq(T) /\ x \in T
  <2> HIDE DEF T
  <2>1. g \in Seq(T)
    BY <1>2, <1>3, SeqDef
  <2> QED  BY <2>1 DEF T
<1> HIDE DEF T
<1>5. /\ Append(g, x) \in Seq(T) /\ Len(Append(g, x)) = Len(g) + 1 /\ Append(g, x)[Len(g) + 1] = x
      /\ \A k \in 1 .. Len(g) : Append(g, x)[k] = g[k]
  BY <1>4, AppendProperties
<1> QED  BY <1>2, <1>5 DEF IsSeq

\* The arguments in g are what they were meant to be.
Right(g, as) == \A k \in 1 .. Len(g) : g[k] = Meant(as[k])

\* The first of them that is not is of a type that is not guarded.
Astray(g, as) ==
  \E k \in 1 .. Len(g) : /\ g[k] # Meant(as[k]) /\ ~Guarded(Arguments[as[k]].reads)
                         /\ \A n \in 1 .. k - 1 : g[n] = Meant(as[n])

InStep(g, i, as, le, at) == Ready(i, le) /\ i.pos = 8 * at[Len(g)] /\ Right(g, as)

\* A body delivered in part.
Prefix(b, body_) == b \in Seq(Bit) /\ Len(b) <= Len(body_) /\ \A j \in 1 .. Len(b) : b[j] = body_[j]

\* Every argument tells when it is cut off.
AllTell == \A a \in DOMAIN Arguments : Telling(Arguments[a].reads, Arguments[a].meant)

ReceivedSoFar(ph, as, g, i, b) ==
  /\ ph \in {"deserializing", "failed", "delivered"}
  /\ Backed(i) /\ Prefix(i.body, b) /\ IsSeq(g) /\ Len(g) <= Len(as)
  /\ ph = "deserializing" => Len(g) < Len(as)
  /\ ph = "delivered" => Len(g) = Len(as)

ReceivedWhole(ph, as, g, i, b, le, at) == i.body = b => ph # "failed" /\ InStep(g, i, as, le, at)

ReceivedTelling(ph, as, g, i, le, at) ==
  AllTell => /\ Right(g, as) \/ Astray(g, as)
             /\ ph # "failed" => InStep(g, i, as, le, at) \/ Astray(g, as)

Received(ph, as, g, i, b, le, at) ==
  /\ ReceivedSoFar(ph, as, g, i, b)
  /\ ReceivedWhole(ph, as, g, i, b, le, at)
  /\ ReceivedTelling(ph, as, g, i, le, at)

LEMMA NextIndex ==
  ASSUME NEW m \in Nat, NEW n \in Nat, m < n
  PROVE  m + 1 \in 1 .. n /\ m + 1 \in 0 .. n /\ n \in 0 .. n /\ (m + 1) - 1 = m /\ m \in 0 .. n
OBVIOUS

LEMMA WithinBody ==
  ASSUME NEW p \in Nat, NEW q \in Nat, NEW w \in Nat, NEW l \in Nat, NEW r \in Nat,
         p + w <= q, 8 * p + 8 * r <= l, l < 8 * p + 8 * r + 8
  PROVE  /\ \A j \in 1 .. 8 * w : 8 * p + j <= l => 8 * p + j \in 1 .. l
         /\ l = 8 * q => w <= r
OBVIOUS

\* Argument k of the message is what the stream is about to read.
Turn(k, as, le, enc, at, i, bits) ==
  /\ k \in 1 .. Len(as) /\ enc[k] \in Chunks /\ Encoded(as[k], le, enc[k])
  /\ at[k] = at[k - 1] + Bytes(enc[k]) /\ at[k - 1] \in Nat
  /\ Ahead(i, enc[k]) \/ Short(i, enc[k])
  /\ i.body = bits => Ahead(i, enc[k])

\* What is ahead of a receiver in step is the next argument, whole or cut off.
LEMMA NextAhead ==
  ASSUME NEW bits, NEW S, NEW as \in Seq(S), NEW le, NEW enc, NEW at, Layout(bits, as, le, enc, at),
         NEW g, IsSeq(g), Len(g) < Len(as), NEW i, InStep(g, i, as, le, at), Prefix(i.body, bits)
  PROVE  Turn(Len(g) + 1, as, le, enc, at, i, bits)
<1>1. PICK m \in Nat, n \in Nat : m = Len(g) /\ n = Len(as) /\ m < n
  BY LenProperties, Appended
<1> DEFINE k == m + 1
<1>2. k \in 1 .. n /\ k \in 0 .. n /\ n \in 0 .. n /\ k - 1 = m /\ m \in 0 .. n
  BY <1>1, NextIndex
<1>3. /\ bits \in Seq(Bit) /\ enc \in [1 .. n -> Chunks] /\ at \in [0 .. n -> Nat] /\ Len(bits) = 8 * at[n]
      /\ Encoded(as[k], le, enc[k]) /\ at[k] = at[k - 1] + Bytes(enc[k]) /\ at[k] <= at[n]
      /\ \A j \in 1 .. Len(enc[k]) : bits[8 * at[k - 1] + j] = enc[k][j]
  BY <1>1, <1>2, Zenon DEF Layout
<1>4. PICK p \in Nat, q \in Nat, w \in Nat, c \in Chunks :
        /\ p = at[m] /\ q = at[n] /\ c = enc[k] /\ w = Bytes(c) /\ Len(c) = 8 * w /\ p + w <= q
  <2>1. at[m] \in Nat /\ at[n] \in Nat /\ enc[k] \in Chunks /\ at[k] \in Nat
    BY <1>2, <1>3
  <2>2. Bytes(enc[k]) \in Nat /\ Len(enc[k]) = 8 * Bytes(enc[k])
    BY <2>1, ChunkType
  <2>3. at[k] = at[m] + Bytes(enc[k]) /\ at[k] <= at[n]
    BY <1>2, <1>3
  <2> QED  BY <2>1, <2>2, <2>3
<1>5. /\ Ready(i, le) /\ i.pos = 8 * p
      /\ i.body \in Seq(Bit) /\ Len(i.body) \in Nat /\ i.rem \in Nat /\ i.pos \in Nat
      /\ i.pos + 8 * i.rem <= Len(i.body) /\ Len(i.body) < i.pos + 8 * i.rem + 8
  BY <1>1, <1>4, ReadyFields DEF InStep
<1>10. PICK l \in Nat, r \in Nat : l = Len(i.body) /\ r = i.rem
  BY <1>5
<1>11. 8 * p + 8 * r <= l /\ l < 8 * p + 8 * r + 8
  BY <1>5, <1>10
<1>12. /\ \A j \in 1 .. 8 * w : 8 * p + j <= l => 8 * p + j \in 1 .. l
       /\ l = 8 * q => w <= r
  BY <1>4, <1>11, WithinBody
<1>6. Meets(i, c)
  <2> SUFFICES ASSUME NEW j \in 1 .. Len(c), i.pos + j <= Len(i.body)  PROVE i.body[i.pos + j] = c[j]
    BY DEF Meets
  <2>1. i.pos + j \in 1 .. Len(i.body) /\ i.pos + j = 8 * p + j
    <3>1. j \in 1 .. 8 * w /\ i.pos + j = 8 * p + j /\ 8 * p + j <= l
      BY <1>4, <1>5, <1>10
    <3> QED  BY <1>10, <1>12, <3>1
  <2>2. i.body[i.pos + j] = bits[i.pos + j]
    BY <2>1 DEF Prefix
  <2>3. bits[8 * p + j] = c[j]
    BY <1>2, <1>3, <1>4
  <2> QED  BY <2>1, <2>2, <2>3
<1>7. Ahead(i, c) \/ Short(i, c)
  <2>1. \A y, z \in Nat : y <= z \/ y > z
    OBVIOUS
  <2>2. Bytes(c) <= i.rem \/ Bytes(c) > i.rem
    BY <1>4, <1>5, <2>1, Zenon
  <2> QED  BY <1>6, <2>2 DEF Ahead, Short
<1>8. i.body = bits => Ahead(i, c)
  <2> SUFFICES ASSUME i.body = bits  PROVE Bytes(c) <= i.rem
    BY <1>6 DEF Ahead
  <2>1. Len(i.body) = 8 * q
    BY <1>3, <1>4
  <2>2. w <= i.rem
    BY <1>10, <1>12, <2>1
  <2> QED  BY <1>4, <2>2
<1>9. at[k] = at[k - 1] + Bytes(c) /\ at[k - 1] \in Nat /\ k = Len(g) + 1 /\ n = Len(as)
  BY <1>1, <1>2, <1>3, <1>4
<1> HIDE DEF k
<1>13. Turn(k, as, le, enc, at, i, bits)
  BY <1>2, <1>3, <1>4, <1>7, <1>8, <1>9, Zenon DEF Turn
<1> QED  BY <1>9, <1>13, Zenon

LEMMA RightExtended ==
  ASSUME NEW g, IsSeq(g), NEW as, Right(g, as), NEW x
  PROVE  /\ x = Meant(as[Len(g) + 1]) => Right(Append(g, x), as)
         /\ x # Meant(as[Len(g) + 1]) /\ ~Guarded(Arguments[as[Len(g) + 1]].reads) => Astray(Append(g, x), as)
<1> DEFINE h == Append(g, x)
<1>1. /\ Len(g) \in Nat /\ Len(h) = Len(g) + 1 /\ h[Len(g) + 1] = x
      /\ \A k \in 1 .. Len(g) : h[k] = g[k]
  BY Appended
<1> HIDE DEF h
<1>2. PICK m \in Nat : m = Len(g)
  BY <1>1
<1>3. \A k \in 1 .. m : h[k] = Meant(as[k])
  BY <1>1, <1>2 DEF Right
<1>4. ASSUME x = Meant(as[m + 1])  PROVE Right(h, as)
  <2> SUFFICES ASSUME NEW k \in 1 .. m + 1  PROVE h[k] = Meant(as[k])
    BY <1>1, <1>2 DEF Right
  <2>1. k \in 1 .. m \/ k = m + 1
    OBVIOUS
  <2> QED  BY <1>1, <1>2, <1>3, <1>4, <2>1
<1>5. ASSUME x # Meant(as[m + 1]), ~Guarded(Arguments[as[m + 1]].reads)  PROVE Astray(h, as)
  <2>1. m + 1 \in 1 .. Len(h) /\ (m + 1) - 1 = m
    BY <1>1, <1>2
  <2>2. h[m + 1] # Meant(as[m + 1])
    BY <1>1, <1>2, <1>5
  <2>3. \A n \in 1 .. (m + 1) - 1 : h[n] = Meant(as[n])
    BY <1>3, <2>1
  <2> QED  BY <1>5, <2>1, <2>2, <2>3, Zenon DEF Astray
<1> QED  BY <1>2, <1>4, <1>5 DEF h

LEMMA AstrayExtended ==
  ASSUME NEW g, IsSeq(g), NEW as, Astray(g, as), NEW x
  PROVE  Astray(Append(g, x), as)
<1> DEFINE h == Append(g, x)
<1>1. PICK m \in Nat : m = Len(g) /\ Len(h) = m + 1 /\ \A k \in 1 .. m : h[k] = g[k]
  BY Appended
<1> HIDE DEF h
<1>2. PICK k \in 1 .. m : /\ g[k] # Meant(as[k]) /\ ~Guarded(Arguments[as[k]].reads)
                          /\ \A n \in 1 .. k - 1 : g[n] = Meant(as[n])
  BY <1>1, Zenon DEF Astray
<1>3. k \in 1 .. Len(h) /\ h[k] = g[k] /\ \A n \in 1 .. k - 1 : n \in 1 .. m
  BY <1>1
<1>4. \A n \in 1 .. k - 1 : h[n] = Meant(as[n])
  BY <1>1, <1>2, <1>3
<1> QED  BY <1>2, <1>3, <1>4, Zenon DEF Astray, h

\* Counting the arguments.
LEMMA NextCount ==
  ASSUME NEW m \in Nat, NEW n \in Nat, m < n
  PROVE  /\ m + 1 \in 1 .. n /\ (m + 1) - 1 = m /\ m <= n /\ m + 1 <= n
         /\ m + 1 # n => m + 1 < n
OBVIOUS

\* How many arguments there are in each phase.
InNumber(ph, h, n) ==
  /\ IsSeq(h) /\ Len(h) <= n /\ (ph = "deserializing" => Len(h) < n)
  /\ (ph = "delivered" => Len(h) = n) /\ ph \in {"deserializing", "failed", "delivered"}

\* One argument: the counts.
LEMMA ReceiveCount ==
  ASSUME NEW g, IsSeq(g), NEW n \in Nat, NEW m \in Nat, m = Len(g), m < n, NEW x, NEW e \in BOOLEAN,
         NEW h, h = IF e THEN g ELSE Append(g, x),
         NEW ph, ph = IF e THEN "failed" ELSE IF m + 1 = n THEN "delivered" ELSE "deserializing"
  PROVE  InNumber(ph, h, n)
<1>1. IsSeq(Append(g, x)) /\ Len(Append(g, x)) = m + 1
  BY Appended
<1>2. CASE e
  BY <1>2 DEF InNumber
<1>3. CASE ~e
  <2>1. IsSeq(h) /\ Len(h) = m + 1
    BY <1>1, <1>3
  <2>2. m + 1 <= n /\ (m + 1 # n => m + 1 < n)
    BY NextCount
  <2>3. ph = IF m + 1 = n THEN "delivered" ELSE "deserializing"
    BY <1>3
  <2> QED  BY <2>1, <2>2, <2>3 DEF InNumber
<1> QED  BY <1>2, <1>3

\* What reading the argument a leaves, when the stream was in step.
Kept(a, as, h, j, b, le, at) ==
  /\ j.body = b => ~j.err /\ InStep(h, j, as, le, at)
  /\ Telling(Arguments[a].reads, Arguments[a].meant) =>
       /\ Right(h, as) \/ Astray(h, as)
       /\ ~j.err => InStep(h, j, as, le, at) \/ Astray(h, as)

\* One argument, read where the sender's bytes for it begin.
LEMMA ReceiveInStep ==
  ASSUME NEW b, NEW as \in Seq(DOMAIN Arguments), NEW le, NEW enc, NEW at, Layout(b, as, le, enc, at),
         NEW g, IsSeq(g), NEW i, InStep(g, i, as, le, at), Prefix(i.body, b),
         NEW m \in Nat, m = Len(g), m < Len(as), NEW k, k = m + 1, NEW a, a = as[k],
         NEW r, r = Read(i, Arguments[a].reads), NEW j, j = r.i,
         NEW h, h = IF j.err THEN g ELSE Append(g, r.v), j.body = i.body
  PROVE  Kept(a, as, h, j, b, le, at)
<1>1. Turn(k, as, le, enc, at, i, b)
  BY NextAhead
<1>2. /\ enc[k] \in Chunks /\ Encoded(a, le, enc[k])
      /\ at[k] = at[k - 1] + Bytes(enc[k]) /\ at[k - 1] \in Nat
      /\ Ahead(i, enc[k]) \/ Short(i, enc[k])
      /\ i.body = b => Ahead(i, enc[k])
  BY <1>1, Zenon DEF Turn
<1>3. PICK c \in Chunks : c = enc[k]
  BY <1>2
<1>4. Ready(i, le) /\ i.pos = 8 * at[Len(g)] /\ Right(g, as)
  BY DEF InStep
<1>5. ASSUME Ahead(i, c)  PROVE ~j.err /\ InStep(h, j, as, le, at) /\ Right(h, as)
  <2>1. r = Result(Moved(i, Bytes(c)), Meant(a))
    BY <1>2, <1>3, <1>4, <1>5, Zenon DEF Encoded, Gets, Meant
  <2>2. j = Moved(i, Bytes(c)) /\ r.v = Meant(a)
    BY <2>1 DEF Result
  <2>3. Bytes(c) \in Nat /\ Bytes(c) <= i.rem /\ i \in Inputs /\ i.pos \in Nat
    BY <1>4, <1>5, ChunkType, ReadyFields DEF Ahead, Ready
  <2>4. Ready(j, le) /\ j.pos = i.pos + 8 * Bytes(c)
    BY <1>4, <2>2, <2>3, MovedReady, MovedFields
  <2>5. ~j.err
    BY <2>4, ReadyFields
  <2>6. h = Append(g, Meant(a))
    BY <2>2, <2>5
  <2>7. Right(h, as)
    BY <1>4, <2>6, RightExtended
  <2>8. Len(h) = k
    <3>1. Len(Append(g, Meant(a))) = Len(g) + 1
      BY Appended
    <3> QED  BY <2>6, <3>1
  <2>9. j.pos = 8 * at[Len(h)]
    <3>1. PICK p \in Nat, q \in Nat : p = at[m] /\ q = Bytes(c) /\ k - 1 = m
      BY <1>2, <2>3
    <3>2. at[k] = p + q
      BY <1>2, <1>3, <3>1
    <3>3. j.pos = 8 * p + 8 * q
      BY <1>4, <2>4, <3>1
    <3>4. 8 * p + 8 * q = 8 * (p + q)
      OBVIOUS
    <3> QED  BY <2>8, <3>2, <3>3, <3>4
  <2> QED  BY <2>4, <2>5, <2>7, <2>9, Zenon DEF InStep
<1>6. ASSUME Short(i, c), Telling(Arguments[a].reads, Arguments[a].meant)
      PROVE  /\ Right(h, as) \/ Astray(h, as)
             /\ ~j.err => Astray(h, as)
  <2>1. Missed(r, Arguments[a])
    BY <1>2, <1>3, <1>4, <1>6, Zenon DEF Encoded, Misses
  <2>2. CASE j.err
    BY <1>4, <2>2
  <2>3. CASE ~j.err
    <3>1. r.v # Meant(a) /\ ~Guarded(Arguments[a].reads)
      BY <2>1, <2>3, Zenon DEF Missed, Meant
    <3>2. h = Append(g, r.v)
      BY <2>3
    <3>3. Astray(h, as)
      BY <1>4, <3>1, <3>2, RightExtended
    <3> QED  BY <3>3
  <2> QED  BY <2>2, <2>3
<1> QED  BY <1>2, <1>3, <1>5, <1>6, Zenon DEF Kept

\* One argument.
LEMMA ReceiveStep ==
  ASSUME NEW b, NEW as \in Seq(DOMAIN Arguments), NEW le, NEW enc, NEW at, Layout(b, as, le, enc, at),
         NEW g, NEW i, Received("deserializing", as, g, i, b, le, at),
         NEW m \in Nat, m = Len(g), NEW k, k = m + 1, NEW a, a = as[k],
         NEW r, r = Read(i, Arguments[a].reads), NEW j, j = r.i, Onward(i, j),
         NEW h, h = IF j.err THEN g ELSE Append(g, r.v),
         NEW ph, ph = IF j.err THEN "failed" ELSE IF m + 1 = Len(as) THEN "delivered" ELSE "deserializing"
  PROVE  Received(ph, as, h, j, b, le, at)
<1>1. /\ Backed(i) /\ Prefix(i.body, b) /\ IsSeq(g) /\ Len(g) < Len(as)
      /\ i.body = b => InStep(g, i, as, le, at)
      /\ AllTell => /\ Right(g, as) \/ Astray(g, as)
                    /\ InStep(g, i, as, le, at) \/ Astray(g, as)
  BY Zenon DEF Received, ReceivedSoFar, ReceivedWhole, ReceivedTelling
<1>2. PICK n \in Nat : n = Len(as) /\ m < n
  BY <1>1, LenProperties
<1>3. Backed(j) /\ j.body = i.body /\ j.err \in BOOLEAN
  BY BackedFields DEF Onward
<1>4. Prefix(j.body, b)
  BY <1>1, <1>3
<1>5. /\ IsSeq(h) /\ Len(h) <= Len(as) /\ (ph = "deserializing" => Len(h) < Len(as))
      /\ (ph = "delivered" => Len(h) = Len(as)) /\ ph \in {"deserializing", "failed", "delivered"}
  <2>1. ph = IF j.err THEN "failed" ELSE IF m + 1 = n THEN "delivered" ELSE "deserializing"
    BY <1>2
  <2>2. InNumber(ph, h, n)
    BY <1>1, <1>2, <1>3, <2>1, ReceiveCount
  <2> QED  BY <1>2, <2>2, Zenon DEF InNumber
<1>6. ~j.err => ph # "failed"
  OBVIOUS
<1>10. ph # "failed" => ~j.err
  OBVIOUS
<1>7. ASSUME InStep(g, i, as, le, at)
      PROVE  /\ i.body = b => ~j.err /\ InStep(h, j, as, le, at)
             /\ Telling(Arguments[a].reads, Arguments[a].meant) =>
                  /\ Right(h, as) \/ Astray(h, as)
                  /\ ~j.err => InStep(h, j, as, le, at) \/ Astray(h, as)
  <2>1. m < Len(as)
    BY <1>2
  <2>2. Kept(a, as, h, j, b, le, at)
    BY <1>1, <1>3, <1>7, <2>1, ReceiveInStep
  <2> QED  BY <1>3, <2>2, Zenon DEF Kept
<1>8. ASSUME Astray(g, as)  PROVE Astray(h, as)
  <2>1. Astray(Append(g, r.v), as)
    BY <1>1, <1>8, AstrayExtended
  <2> QED  BY <1>8, <2>1
<1>9. AllTell => Telling(Arguments[a].reads, Arguments[a].meant)
  <2>1. m + 1 \in 1 .. n
    BY <1>2, NextCount
  <2>2. a \in DOMAIN Arguments
    BY <1>2, <2>1, ElementOfSeq
  <2> QED  BY <2>2 DEF AllTell
<1>11. j.body = b => ph # "failed" /\ InStep(h, j, as, le, at)
  BY <1>1, <1>3, <1>6, <1>7, Zenon
<1>12. AllTell => /\ Right(h, as) \/ Astray(h, as)
                  /\ ph # "failed" => InStep(h, j, as, le, at) \/ Astray(h, as)
  BY <1>1, <1>7, <1>8, <1>9, <1>10, Zenon
<1>13. ReceivedSoFar(ph, as, h, j, b)
  BY <1>3, <1>4, <1>5, Zenon DEF ReceivedSoFar
<1>14. ReceivedWhole(ph, as, h, j, b, le, at)
  BY <1>11, Zenon DEF ReceivedWhole
<1>15. ReceivedTelling(ph, as, h, j, le, at)
  BY <1>12, Zenon DEF ReceivedTelling
<1> QED  BY <1>13, <1>14, <1>15, Zenon DEF Received

-----------------------------------------------------------------------------
\* The transfer of a message.

AllSettle == \A a \in DOMAIN Arguments, le \in BOOLEAN : Settles(Arguments[a], le)

AllStay == \A a \in DOMAIN Arguments : Stays(Arguments[a].reads)

Sending(as, o, g) ==
  g = <<>> /\ o.le \in BOOLEAN /\ Clean(o, o.le) /\ \E enc, at : Layout(o.bits, as, o.le, enc, at)

OnItsWay(as, o, b, g) ==
  g = <<>> /\ as # <<>> /\ o.le \in BOOLEAN /\ \E enc, at : Layout(b, as, o.le, enc, at)

Receiving(ph, as, o, b, i, g) ==
  \E enc, at : Layout(b, as, o.le, enc, at) /\ Received(ph, as, g, i, b, o.le, at)

Phases == {"serializing", "rejected", "sent", "deserializing", "failed", "delivered"}

\* The bits of a message are those of its arguments one after the other, and a
\* receiver stands between two of them.
TransferInv ==
  /\ args \in Seq(DOMAIN Arguments) /\ phase \in Phases
  /\ phase = "rejected" => got = <<>>
  /\ phase = "serializing" => Sending(args, out, got)
  /\ phase = "sent" => OnItsWay(args, out, body, got)
  /\ phase \in {"deserializing", "failed", "delivered"} => Receiving(phase, args, out, body, in, got)

LEMMA NewClean ==
  ASSUME NEW le \in BOOLEAN
  PROVE  Sending(<<>>, NewOutput(le), <<>>)
<1> DEFINE o == NewOutput(le)
<1>1. <<>> \in Seq(Bit) /\ <<>> \in Seq(Nat) /\ Len(<<>>) = 0
  BY EmptySeq
<1>2. o \in Outputs /\ o.bits = <<>> /\ o.err = FALSE /\ o.le = le
  BY <1>1 DEF NewOutput, Outputs
<1>3. \E enc, at : Layout(<<>>, <<>>, le, enc, at)
  BY LayoutEmpty
<1>4. Len(o.bits) % 8 = 0
  BY <1>1, <1>2
<1> HIDE DEF o
<1>5. Clean(o, le)
  BY <1>2, <1>4 DEF Clean
<1>6. Sending(<<>>, o, <<>>)
  BY <1>2, <1>3, <1>5, Zenon DEF Sending
<1> QED  BY <1>6 DEF o

\* SerializableArguments::serialize
LEMMA SerializeStep ==
  ASSUME AllSettle, NEW as \in Seq(DOMAIN Arguments), NEW a \in DOMAIN Arguments,
         NEW o, NEW g, Sending(as, o, g), NEW p, p = Write(o, Arguments[a].type, Arguments[a].value),
         p.err # TRUE
  PROVE  Sending(Append(as, a), p, g)
<1>1. g = <<>> /\ o.le \in BOOLEAN /\ Clean(o, o.le)
  BY DEF Sending
<1>2. PICK enc, at : Layout(o.bits, as, o.le, enc, at)
  BY DEF Sending
<1>3. Settles(Arguments[a], o.le)
  BY <1>1 DEF AllSettle
<1>4. ~Refuses(Arguments[a], o.le)
  BY <1>1 DEF Refuses, Faulty
<1>5. PICK c \in Chunks : /\ Puts(Arguments[a], o.le, c) /\ Gets(Arguments[a], o.le, c)
                          /\ Telling(Arguments[a].reads, Arguments[a].meant) => Misses(Arguments[a], o.le, c)
  BY <1>3, <1>4, Zenon DEF Settles
<1>6. Encoded(a, o.le, c)
  BY <1>5, Zenon DEF Encoded
<1>7. p = WriteRaw(o, c)
  BY <1>1, <1>5, Zenon DEF Puts
<1>8. Clean(p, o.le)
  BY <1>1, <1>7, CleanWritten
<1>9. p.le = o.le
  BY <1>8, CleanFields
<1>10. p.bits = o.bits \o c
  BY <1>1, <1>7 DEF WriteRaw, Clean, Outputs
<1>11. \E enc2, at2 : Layout(o.bits \o c, Append(as, a), o.le, enc2, at2)
  BY <1>2, <1>6, LayoutExtended
<1> QED  BY <1>1, <1>8, <1>9, <1>10, <1>11, Zenon DEF Sending

\* OutputStream::flush
LEMMA FlushStep ==
  ASSUME NEW as, as # <<>>, NEW o, NEW g, Sending(as, o, g)
  PROVE  OnItsWay(as, o, FlushedBits(o), g)
<1>1. o \in Outputs /\ Len(o.bits) % 8 = 0
  BY DEF Sending, Clean
<1>2. FlushedBits(o) = o.bits
  BY <1>1, AlignedWriter DEF FlushedBits
<1> QED  BY <1>2, Zenon DEF Sending, OnItsWay

LEMMA BytesPrefix ==
  ASSUME NEW n \in Nat, NEW m \in Nat, m <= n \div 8
  PROVE  8 * m <= n /\ (8 * m) \div 8 = m /\ (8 * m) % 8 = 0
OBVIOUS

LEMMA FromNothing ==
  ASSUME NEW n \in Nat
  PROVE  0 \div 8 = 0 /\ 0 % 8 = 0 /\ 0 <= 8 * n /\ n = n - 0 /\ (n # 0 => 0 < n /\ 0 <= n)
OBVIOUS

\* The receiver's stream.
LEMMA DeliverStep ==
  ASSUME NEW as \in Seq(DOMAIN Arguments), NEW o, NEW b, NEW g, OnItsWay(as, o, b, g),
         NEW n \in 0 .. Len(b) \div 8, NEW i, i = NewInput(SubSeq(b, 1, 8 * n), o.le)
  PROVE  Receiving("deserializing", as, o, b, i, g)
<1>1. g = <<>> /\ as # <<>> /\ o.le \in BOOLEAN
  BY DEF OnItsWay
<1>2. PICK enc, at : Layout(b, as, o.le, enc, at)
  BY DEF OnItsWay
<1>3. b \in Seq(Bit) /\ at[0] = 0 /\ Len(b) \in Nat
  BY <1>2, LenProperties DEF Layout
<1>4. PICK l \in Nat : l = Len(b)
  BY <1>3
<1>5. n \in Nat /\ n <= l \div 8
  BY <1>4
<1>6. 8 * n <= l /\ (8 * n) \div 8 = n /\ (8 * n) % 8 = 0 /\ 0 + 8 * n = 8 * n /\ 0 + 1 = 1
  BY <1>5, BytesPrefix
<1> DEFINE s == SubSeq(b, 1, 8 * n)
<1>7. s \in Seq(Bit) /\ Len(s) = 8 * n /\ \A j \in 1 .. 8 * n : s[j] = b[j]
  <2>1. PICK m \in Nat, z \in Nat : z = 0 /\ m = 8 * n /\ z + m = m /\ z + 1 = 1 /\ z + m <= Len(b)
    BY <1>4, <1>5, <1>6
  <2>2. /\ SubSeq(b, z + 1, z + m) \in Seq(Bit) /\ Len(SubSeq(b, z + 1, z + m)) = m
        /\ \A j \in 1 .. m : SubSeq(b, z + 1, z + m)[j] = b[z + j]
    BY <1>3, <2>1, PieceBehind
  <2>3. \A j \in 1 .. m : z + j = j
    BY <2>1
  <2> QED  BY <2>1, <2>2, <2>3
<1> HIDE DEF s
<1>8. /\ i \in Inputs /\ i.body = s /\ i.pos = 0 /\ i.rem = n /\ i.err = FALSE /\ i.stray = "no" /\ i.le = o.le
  BY <1>1, <1>5, <1>6, <1>7 DEF NewInput, Inputs, s
<1>9. Ready(i, o.le)
  <2>1. Len(i.body) \div 8 = n /\ 0 \div 8 = 0 /\ 0 % 8 = 0 /\ 0 <= 8 * n /\ n = n - 0
    BY <1>5, <1>6, <1>7, <1>8, FromNothing
  <2>2. Counted(i)
    BY <1>8, <2>1 DEF Counted
  <2> QED  BY <1>8, <2>1, <2>2 DEF Ready
<1>10. Prefix(i.body, b)
  BY <1>4, <1>6, <1>7, <1>8 DEF Prefix
<1>11. Len(g) = 0 /\ IsSeq(g)
  <2>1. g \in Seq({}) /\ Len(g) = 0
    BY <1>1, EmptySeq
  <2> QED  BY <2>1 DEF IsSeq
<1>12. Len(as) \in Nat /\ Len(as) # 0
  BY <1>1, LenProperties, EmptySeq
<1>13. Right(g, as)
  BY <1>11 DEF Right
<1>14. InStep(g, i, as, o.le, at)
  BY <1>3, <1>8, <1>9, <1>11, <1>13 DEF InStep
<1>15. ReceivedSoFar("deserializing", as, g, i, b)
  <2>1. Len(g) <= Len(as) /\ Len(g) < Len(as)
    BY <1>11, <1>12, FromNothing
  <2>2. Backed(i)
    BY <1>9, ReadyBacked
  <2> QED  BY <1>10, <1>11, <2>1, <2>2 DEF ReceivedSoFar
<1>16. ReceivedWhole("deserializing", as, g, i, b, o.le, at)
  BY <1>14 DEF ReceivedWhole
<1>17. ReceivedTelling("deserializing", as, g, i, o.le, at)
  BY <1>13, <1>14 DEF ReceivedTelling
<1> QED  BY <1>2, <1>15, <1>16, <1>17, Zenon DEF Receiving, Received

Proceeds(ph, as, o, b, i, g) ==
  ph \in {"deserializing", "failed", "delivered"} /\ Receiving(ph, as, o, b, i, g)

\* SerializableArguments::deserialize
LEMMA DeserializeStep ==
  ASSUME AllStay, NEW as \in Seq(DOMAIN Arguments), NEW o, NEW b, NEW i, NEW g,
         Receiving("deserializing", as, o, b, i, g),
         NEW r, r = Read(i, Arguments[as[Len(g) + 1]].reads), NEW j, j = r.i,
         NEW h, h = IF j.err THEN g ELSE Append(g, r.v),
         NEW ph, ph = IF j.stray # "no" THEN "stray"
                      ELSE IF j.err THEN "failed"
                      ELSE IF Len(g) + 1 = Len(as) THEN "delivered" ELSE "deserializing"
  PROVE  Proceeds(ph, as, o, b, j, h)
<1>1. PICK enc, at : Layout(b, as, o.le, enc, at) /\ Received("deserializing", as, g, i, b, o.le, at)
  BY DEF Receiving
<1>2. Backed(i) /\ IsSeq(g) /\ Len(g) < Len(as)
  BY <1>1 DEF Received, ReceivedSoFar
<1>3. PICK m \in Nat, n \in Nat, k \in Nat : m = Len(g) /\ n = Len(as) /\ m < n /\ k = m + 1
  BY <1>2, LenProperties, Appended
<1>4. PICK a : a = as[k] /\ a \in DOMAIN Arguments
  <2>1. m + 1 \in 1 .. n
    BY <1>3, NextCount
  <2> QED  BY <1>3, <2>1, ElementOfSeq
<1>5. r = Read(i, Arguments[a].reads)
  BY <1>3, <1>4
<1>6. Onward(i, j)
  BY <1>2, <1>4, <1>5 DEF AllStay, Stays
<1>7. Backed(j) /\ j.stray = "no"
  BY <1>6, BackedFields DEF Onward
<1>8. ph = IF j.err THEN "failed" ELSE IF m + 1 = Len(as) THEN "delivered" ELSE "deserializing"
  BY <1>3, <1>7
<1>9. Received(ph, as, h, j, b, o.le, at)
  BY <1>1, <1>3, <1>4, <1>5, <1>6, <1>8, ReceiveStep
<1>10. ph \in {"deserializing", "failed", "delivered"}
  BY <1>8
<1> QED  BY <1>1, <1>9, <1>10, Zenon DEF Receiving, Proceeds

LEMMA TransferStarts ==
  Init => TransferInv
<1> SUFFICES ASSUME Init  PROVE TransferInv
  OBVIOUS
<1>1. /\ phase = "serializing" /\ args = <<>> /\ got = <<>>
      /\ out \in {NewOutput(le) : le \in BOOLEAN}
  BY DEF Init
<1>2. PICK le \in BOOLEAN : out = NewOutput(le)
  BY <1>1
<1>3. Sending(args, out, got)
  BY <1>1, <1>2, NewClean
<1>4. args \in Seq(DOMAIN Arguments)
  BY <1>1, EmptySeq
<1> QED  BY <1>1, <1>3, <1>4 DEF TransferInv, Phases

LEMMA TransferGoesOn ==
  ASSUME AllSettle, AllStay
  PROVE  TransferInv /\ [Next]_vars => TransferInv'
<1> SUFFICES ASSUME TransferInv, [Next]_vars  PROVE TransferInv'
  OBVIOUS
<1>1. /\ args \in Seq(DOMAIN Arguments) /\ phase \in Phases
      /\ phase = "rejected" => got = <<>>
      /\ phase = "serializing" => Sending(args, out, got)
      /\ phase = "sent" => OnItsWay(args, out, body, got)
      /\ phase \in {"deserializing", "failed", "delivered"} => Receiving(phase, args, out, body, in, got)
  BY DEF TransferInv
<1>2. ASSUME NEW a \in DOMAIN Arguments, Serialize(a)  PROVE TransferInv'
  <2>1. /\ phase = "serializing" /\ args' = Append(args, a)
        /\ out' = Write(out, Arguments[a].type, Arguments[a].value)
        /\ phase' = IF out'.err THEN "rejected" ELSE phase
        /\ body' = body /\ in' = in /\ got' = got
    BY <1>2 DEF Serialize
  <2>2. args' \in Seq(DOMAIN Arguments)
    BY <1>1, <2>1, AppendProperties
  <2>3. CASE out'.err
    <3>1. phase' = "rejected" /\ got' = <<>>
      BY <1>1, <2>1, <2>3 DEF Sending
    <3> QED  BY <2>2, <3>1 DEF TransferInv, Phases
  <2>4. CASE ~out'.err
    <3>1. phase' = "serializing" /\ out'.err # TRUE
      BY <2>1, <2>4
    <3>2. Sending(args, out, got)
      BY <1>1, <2>1
    <3>3. Sending(args', out', got')
      BY <1>1, <2>1, <3>1, <3>2, SerializeStep
    <3> QED  BY <2>2, <3>1, <3>3 DEF TransferInv, Phases
  <2> QED  BY <2>3, <2>4
<1>3. ASSUME Flush  PROVE TransferInv'
  <2>1. /\ phase = "serializing" /\ args # <<>> /\ body' = FlushedBits(out) /\ phase' = "sent"
        /\ args' = args /\ out' = out /\ in' = in /\ got' = got
    BY <1>3 DEF Flush
  <2>2. OnItsWay(args', out', body', got')
    BY <1>1, <2>1, FlushStep
  <2> QED  BY <1>1, <2>1, <2>2 DEF TransferInv, Phases
<1>4. ASSUME Deliver  PROVE TransferInv'
  <2>1. /\ phase = "sent" /\ phase' = "deserializing"
        /\ args' = args /\ out' = out /\ body' = body /\ got' = got
    BY <1>4 DEF Deliver
  <2>2. PICK n \in 0 .. Len(body) \div 8 : in' = NewInput(SubSeq(body, 1, 8 * n), out.le)
    BY <1>4 DEF Deliver
  <2>3. OnItsWay(args, out, body, got)
    BY <1>1, <2>1
  <2>4. Receiving("deserializing", args, out, body, in', got)
    BY <1>1, <2>2, <2>3, DeliverStep
  <2>5. Receiving(phase', args', out', body', in', got')
    BY <2>1, <2>4
  <2> QED  BY <1>1, <2>1, <2>5 DEF TransferInv, Phases
<1>5. ASSUME Deserialize  PROVE TransferInv'
  <2>1. /\ phase = "deserializing" /\ args' = args /\ out' = out /\ body' = body
    BY <1>5 DEF Deserialize
  <2> DEFINE r == Read(in, Arguments[args[Len(got) + 1]].reads)
  <2>2. /\ in' = r.i /\ got' = IF r.i.err THEN got ELSE Append(got, r.v)
        /\ phase' = IF r.i.stray # "no" THEN "stray"
                    ELSE IF r.i.err THEN "failed"
                    ELSE IF Len(got) + 1 = Len(args) THEN "delivered" ELSE "deserializing"
    BY <1>5, <2>1 DEF Deserialize
  <2>3. Receiving("deserializing", args, out, body, in, got)
    BY <1>1, <2>1
  <2> HIDE DEF r
  <2>6. PICK x, j : x = r /\ j = x.i
    OBVIOUS
  <2>7. x = Read(in, Arguments[args[Len(got) + 1]].reads)
    BY <2>6 DEF r
  <2>8. /\ in' = j /\ got' = IF j.err THEN got ELSE Append(got, x.v)
        /\ phase' = IF j.stray # "no" THEN "stray"
                    ELSE IF j.err THEN "failed"
                    ELSE IF Len(got) + 1 = Len(args) THEN "delivered" ELSE "deserializing"
    BY <2>2, <2>6
  <2>9. Proceeds(phase', args, out, body, j, got')
    BY <1>1, <2>3, <2>6, <2>7, <2>8, DeserializeStep
  <2>4. phase' \in {"deserializing", "failed", "delivered"} /\ Receiving(phase', args, out, body, in', got')
    BY <2>8, <2>9, Zenon DEF Proceeds
  <2>5. Receiving(phase', args', out', body', in', got')
    BY <2>1, <2>4
  <2> QED  BY <1>1, <2>1, <2>4, <2>5 DEF TransferInv, Phases
<1>6. CASE UNCHANGED vars
  BY <1>1, <1>6 DEF TransferInv, vars
<1> QED  BY <1>2, <1>3, <1>4, <1>5, <1>6 DEF Next

-----------------------------------------------------------------------------
\* What the invariant says of a message that has arrived.

LEMMA NothingLeft ==
  ASSUME NEW n \in Nat, NEW q \in Nat, NEW r \in Nat, n = 8 * q, 8 * q + 8 * r <= n
  PROVE  r = 0
OBVIOUS

Arrived(ph, as, i, g) ==
  /\ ph = "delivered" /\ AlignIn(i).rem = 0
  /\ \A k \in DOMAIN as : g[k] = Arguments[as[k]].meant

\* Nothing of a body that was delivered whole is left.
LEMMA WholeArrived ==
  ASSUME NEW ph, NEW as \in Seq(DOMAIN Arguments), NEW o, NEW b, NEW i, NEW g,
         Receiving(ph, as, o, b, i, g), i.body = b, ph # "deserializing"
  PROVE  Arrived(ph, as, i, g)
<1>1. PICK enc, at : Layout(b, as, o.le, enc, at) /\ Received(ph, as, g, i, b, o.le, at)
  BY DEF Receiving
<1>2. ph \in {"deserializing", "failed", "delivered"} /\ (ph = "delivered" => Len(g) = Len(as))
  BY <1>1 DEF Received, ReceivedSoFar
<1>3. ph # "failed" /\ InStep(g, i, as, o.le, at)
  BY <1>1 DEF Received, ReceivedWhole
<1>4. ph = "delivered" /\ Len(g) = Len(as)
  BY <1>2, <1>3
<1>5. Ready(i, o.le) /\ i.pos = 8 * at[Len(as)] /\ Right(g, as)
  BY <1>3, <1>4 DEF InStep
<1>6. PICK n \in Nat, q \in Nat, r \in Nat : n = Len(i.body) /\ q = at[Len(as)] /\ r = i.rem
  <2>1. Len(as) \in 0 .. Len(as)
    <3>1. PICK l \in Nat : l = Len(as)
      BY LenProperties
    <3>2. l \in 0 .. l
      OBVIOUS
    <3> QED  BY <3>1, <3>2, Zenon
  <2>2. at[Len(as)] \in Nat
    BY <1>1, <2>1 DEF Layout
  <2> QED  BY <1>5, <2>2, ReadyFields
<1>7. n = 8 * q
  BY <1>1, <1>6 DEF Layout
<1>8. 8 * q + 8 * r <= n
  <2>1. i.pos + 8 * i.rem <= Len(i.body)
    BY <1>5, ReadyFields
  <2> QED  BY <1>5, <1>6, <2>1
<1>9. AlignIn(i).rem = 0
  <2>1. i.pos % 8 = 0
    BY <1>5, ReadyFields
  <2>2. AlignIn(i) = i
    BY <2>1, AlignedReader
  <2> QED  BY <1>6, <1>7, <1>8, <2>2, NothingLeft
<1>10. DOMAIN as = 1 .. Len(g)
  BY <1>4, LenProperties
<1>11. \A k \in DOMAIN as : g[k] = Arguments[as[k]].meant
  BY <1>5, <1>10 DEF Right, Meant
<1> QED  BY <1>4, <1>9, <1>11 DEF Arrived

\* Every argument of a message that is delivered whole is what was meant.
AllMeant ==
  Whole /\ phase = "delivered" => \A k \in DOMAIN args : got[k] = Arguments[args[k]].meant

LEMMA InvRoundTrip ==
  TransferInv => RoundTrip /\ AllMeant
<1> SUFFICES ASSUME TransferInv, in.body = body, phase \in {"failed", "stray", "delivered"}
             PROVE  /\ phase = "delivered" /\ AlignIn(in).rem = 0
                    /\ \A k \in DOMAIN args : got[k] = Arguments[args[k]].meant
  BY DEF RoundTrip, Whole, Conveyed, AllMeant
<1>1. args \in Seq(DOMAIN Arguments) /\ phase \in {"failed", "delivered"}
  BY DEF TransferInv, Phases
<1>2. Receiving(phase, args, out, body, in, got)
  BY <1>1 DEF TransferInv
<1>3. phase # "deserializing"
  BY <1>1
<1>4. Arrived(phase, args, in, got)
  BY <1>1, <1>2, <1>3, WholeArrived
<1> QED  BY <1>4, Zenon DEF Arrived

LEMMA InvStaysInBody ==
  TransferInv => StaysInBody /\ phase # "stray"
BY DEF TransferInv, Phases, StaysInBody

\* What was read up to now gives the next argument away, or nothing.
LEMMA NoneInvented ==
  ASSUME NEW as, NEW g, Right(g, as) \/ Astray(g, as), NEW n \in Nat, n = Len(g), NEW k \in 1 .. n,
         Guarded(Arguments[as[k]].reads), \A l \in 1 .. k - 1 : g[l] = Meant(as[l])
  PROVE  g[k] = Meant(as[k])
<1>1. CASE Right(g, as)
  BY <1>1 DEF Right
<1>2. CASE Astray(g, as)
  <2>1. PICK m \in 1 .. n : /\ g[m] # Meant(as[m]) /\ ~Guarded(Arguments[as[m]].reads)
                            /\ \A l \in 1 .. m - 1 : g[l] = Meant(as[l])
    BY <1>2, Zenon DEF Astray
  <2>2. m \in 1 .. k - 1 \/ m = k \/ k \in 1 .. m - 1
    OBVIOUS
  <2> QED  BY <2>1, <2>2
<1> QED  BY <1>1, <1>2

\* The arguments that guard their steps are what was meant, up to the first that is
\* read wrong.
GuardedAsMeant ==
  \A k \in DOMAIN got :
    Guarded(Arguments[args[k]].reads) /\ (\A n \in 1 .. k - 1 : got[n] = Arguments[args[n]].meant) =>
      got[k] = Arguments[args[k]].meant

LEMMA InvNothingInvented ==
  ASSUME AllTell
  PROVE  TransferInv => NothingInvented /\ GuardedAsMeant
<1> SUFFICES ASSUME TransferInv  PROVE GuardedAsMeant
  BY DEF NothingInvented, GuardedAsMeant, Conveyed
<1>1. args \in Seq(DOMAIN Arguments) /\ phase \in Phases
  BY DEF TransferInv
<1>2. CASE got = <<>>
  <2>1. DOMAIN got = {}
    BY <1>2
  <2> QED  BY <2>1 DEF GuardedAsMeant
<1>3. CASE phase \in {"deserializing", "failed", "delivered"}
  <2>1. PICK enc, at : Received(phase, args, got, in, body, out.le, at)
    BY <1>3 DEF TransferInv, Receiving
  <2>2. IsSeq(got) /\ (Right(got, args) \/ Astray(got, args))
    BY <2>1 DEF Received, ReceivedSoFar, ReceivedTelling
  <2>3. PICK n \in Nat : n = Len(got) /\ DOMAIN got = 1 .. n
    BY <2>2, LenProperties DEF IsSeq
  <2> SUFFICES ASSUME NEW k \in 1 .. n, Guarded(Arguments[args[k]].reads),
                      \A l \in 1 .. k - 1 : got[l] = Arguments[args[l]].meant
               PROVE  got[k] = Arguments[args[k]].meant
    BY <2>3 DEF GuardedAsMeant
  <2>4. got[k] = Meant(args[k])
    BY <2>2, <2>3, NoneInvented DEF Meant
  <2> QED  BY <2>4 DEF Meant
<1>4. CASE phase \in {"serializing", "sent"}
  BY <1>2, <1>4 DEF TransferInv, Sending, OnItsWay
<1>5. CASE phase = "rejected"
  BY <1>2, <1>5 DEF TransferInv
<1> QED  BY <1>1, <1>2, <1>3, <1>4, <1>5 DEF Phases

-----------------------------------------------------------------------------
\* Of arguments that obey the laws: SerializableArguments writes them chunk by
\* chunk and reads them one by one, so that a receiver of the whole body stands
\* between two of them, and one of a part of it is still in step or has read
\* something wrong first where the type is not guarded.
THEOREM TransferInductive ==
  ASSUME AllSettle, AllStay
  PROVE  Spec => []TransferInv
<1>1. Init => TransferInv
  BY TransferStarts
<1>2. TransferInv /\ [Next]_vars => TransferInv'
  BY TransferGoesOn
<1> QED  BY <1>1, <1>2, PTL DEF Spec

-----------------------------------------------------------------------------
(* Values that hold other values: readers that stay in the body.           *)

\* The recursion of the loops.
Loops == \A i, t, size, acc : ReadNext(i, t, size, acc) = ReadLoop(i, t, size, acc)

\* Every entry is an error or takes something.
EntryType(t) ==
  \/ t.k = "array" /\ Eats(t.elem)
  \/ t.k = "map" /\ Eats(t.key) /\ Stays(t.val)

LEMMA EntryStay ==
  ASSUME NEW t, EntryType(t), NEW i, Backed(i), NEW acc
  PROVE  Progress(i, ReadEntry(i, t, acc).i)
<1> DEFINE key == Read(i, t.key)
           val == Read(key.i, t.val)
           elem == Read(i, t.elem)
           more == IF \E k \in DOMAIN acc : acc[k][1] = key.v THEN acc ELSE Append(acc, <<key.v, val.v>>)
           r == ReadEntry(i, t, acc)
<1>1. r = IF t.k = "array" THEN Result(elem.i, Append(acc, elem.v))
          ELSE IF key.i.err THEN key ELSE Result(val.i, more)
  BY Zenon DEF ReadEntry
<1>2. CASE t.k = "array" /\ Eats(t.elem)
  <2>1. Progress(i, elem.i)
    BY <1>2 DEF Eats
  <2> HIDE DEF r, elem, more
  <2>2. r = Result(elem.i, Append(acc, elem.v))
    BY <1>1, <1>2, Zenon
  <2>3. r.i = elem.i
    BY <2>2 DEF Result
  <2> QED  BY <2>1, <2>3 DEF r
<1>3. CASE t.k = "map" /\ Eats(t.key) /\ Stays(t.val)
  <2>1. Progress(i, key.i)
    BY <1>3 DEF Eats
  <2>2. Onward(i, key.i) /\ Backed(key.i)
    BY <2>1 DEF Progress, Onward
  <2>3. Onward(key.i, val.i) /\ key.i.err \in BOOLEAN
    <3>1. Onward(key.i, val.i)
      <4> HIDE DEF key
      <4> QED  BY <1>3, <2>2, Zenon DEF Stays, val
    <3> HIDE DEF key
    <3> QED  BY <2>2, <3>1, BackedFields
  <2> HIDE DEF r, key, val, more
  <2>4. CASE key.i.err
    <3>1. r = key
      BY <1>1, <1>3, <2>4
    <3> QED  BY <2>1, <3>1 DEF r
  <2>5. CASE ~key.i.err
    <3>1. r = Result(val.i, more)
      BY <1>1, <1>3, <2>5
    <3>2. r.i = val.i
      BY <3>1 DEF Result
    <3>3. Progress(i, val.i)
      BY <2>1, <2>2, <2>3, <2>5, OnwardTwice
    <3> QED  BY <3>2, <3>3 DEF r
  <2> QED  BY <2>4, <2>5
<1> QED  BY <1>2, <1>3 DEF EntryType

\* The loop of arrays and maps ends, by the bytes that are left.
EntriesDone(t, size, acc) == size = 0 /\ (t.width # 0 \/ Len(acc) >= t.max)

EntriesGoOn(i, t, size, acc) ==
  /\ Onward(i, ReadNext(i, t, size, acc).i)
  /\ ~EntriesDone(t, size, acc) => Progress(i, ReadNext(i, t, size, acc).i)

LEMMA EntriesStep ==
  ASSUME NEW t, EntryType(t), Loops, NEW n \in Nat,
         \A j, size, acc : Backed(j) /\ j.rem < n => EntriesGoOn(j, t, size, acc),
         NEW i, Backed(i), i.rem < n + 1, NEW size, NEW acc
  PROVE  EntriesGoOn(i, t, size, acc)
<1> DEFINE r == ReadEntry(i, t, acc)
           used == i.rem - r.i.rem
           left == IF t.width = 0 THEN size ELSE IF used > size THEN Huge ELSE size - used
           R == ReadNext(i, t, size, acc)
<1>1. R = ReadLoop(i, t, size, acc)
  BY Zenon DEF Loops
<1>2. t.k # "struct"
  BY DEF EntryType
<1>3. R = EntryLoop(i, t, size, acc)
  BY <1>1, <1>2, Zenon DEF ReadLoop
<1>4. R = IF EntriesDone(t, size, acc) THEN [i |-> i, n |-> size, v |-> acc]
          ELSE IF r.i.err \/ r.i.stray # "no" THEN [i |-> r.i, n |-> size, v |-> acc]
          ELSE IF r.i.pos = i.pos /\ t.width # 0
            THEN [i |-> [r.i EXCEPT !.stray = "endless"], n |-> size, v |-> r.v]
          ELSE ReadNext(r.i, t, left, r.v)
  BY <1>3, Zenon DEF EntryLoop, EntriesDone
<1>5. Progress(i, r.i)
  BY EntryStay
<1> HIDE DEF r, R, left
<1>6. Onward(i, r.i) /\ Backed(r.i) /\ r.i.err \in BOOLEAN /\ r.i.stray = "no"
  <2>1. Onward(i, r.i) /\ Backed(r.i)
    BY <1>5 DEF Progress, Onward
  <2> QED  BY <2>1, BackedFields
<1>7. CASE EntriesDone(t, size, acc)
  <2>1. R.i = i
    BY <1>4, <1>7
  <2>2. Onward(i, R.i)
    BY <2>1, OnwardSelf
  <2> QED  BY <1>7, <2>2 DEF R, EntriesGoOn
<1>8. CASE ~EntriesDone(t, size, acc) /\ r.i.err
  <2>1. R.i = r.i
    BY <1>4, <1>8
  <2> QED  BY <1>5, <1>6, <2>1 DEF R, EntriesGoOn
<1>9. CASE ~EntriesDone(t, size, acc) /\ ~r.i.err
  <2>1. r.i.pos > i.pos /\ r.i.rem < i.rem
    BY <1>5, <1>6, <1>9 DEF Progress
  <2>2. r.i.pos # i.pos /\ r.i.rem < n
    <3>1. r.i.pos \in Nat /\ i.pos \in Nat /\ r.i.rem \in Nat /\ i.rem \in Nat
      BY <1>6, BackedFields
    <3> QED  BY <2>1, <3>1
  <2>3. R = ReadNext(r.i, t, left, r.v)
    BY <1>4, <1>6, <1>9, <2>2, Zenon
  <2>4. Onward(r.i, R.i)
    BY <1>6, <2>2, <2>3, Zenon DEF EntriesGoOn
  <2>5. Onward(i, R.i) /\ Progress(i, R.i)
    BY <1>5, <1>6, <1>9, <2>4, OnwardTwice
  <2> QED  BY <2>5 DEF R, EntriesGoOn
<1> QED  BY <1>7, <1>8, <1>9

LEMMA EntriesStay ==
  ASSUME NEW t, EntryType(t), Loops
  PROVE  \A i, size, acc : Backed(i) => EntriesGoOn(i, t, size, acc)
<1> DEFINE M == {n \in Nat : \A i, size, acc : Backed(i) /\ i.rem < n => EntriesGoOn(i, t, size, acc)}
<1>1. 0 \in M
  <2>1. \A i : Backed(i) => ~(i.rem < 0)
    BY DEF Backed, Inputs
  <2> QED  BY <2>1
<1>2. ASSUME NEW n \in M, n \in Nat  PROVE n + 1 \in M
  <2>1. ASSUME NEW i, NEW size, NEW acc, Backed(i), i.rem < n + 1  PROVE EntriesGoOn(i, t, size, acc)
    <3>1. \A j, sz, ac : Backed(j) /\ j.rem < n => EntriesGoOn(j, t, sz, ac)
      BY <1>2
    <3> HIDE DEF M
    <3> QED  BY <1>2, <2>1, <3>1, EntriesStep
  <2>2. n + 1 \in Nat
    BY <1>2
  <2> QED  BY <2>1, <2>2
<1>3. Nat \subseteq M
  <2> HIDE DEF M
  <2> QED  BY <1>1, <1>2, SetInduction
<1> SUFFICES ASSUME NEW i, NEW size, NEW acc, Backed(i)  PROVE EntriesGoOn(i, t, size, acc)
  OBVIOUS
<1>4. i.rem + 1 \in M /\ i.rem < i.rem + 1
  <2>1. i.rem \in Nat
    BY BackedFields
  <2>2. i.rem + 1 \in Nat /\ i.rem < i.rem + 1
    BY <2>1
  <2> HIDE DEF M
  <2> QED  BY <1>3, <2>2
<1> QED  BY <1>4

\* The fields of a struct: the flag of the last one stands.
FieldsStays(i, t, size, acc) ==
  /\ Onward(i, ReadNext(i, t, size, acc).i)
  /\ Len(acc) < Len(t.fields) /\ Eats(t.fields[Len(t.fields)]) => Progress(i, ReadNext(i, t, size, acc).i)

Structure(t) == t.k = "struct" /\ IsSeq(t.fields) /\ \A n \in 1 .. Len(t.fields) : Stays(t.fields[n])

LEMMA FieldUnfolded ==
  ASSUME NEW t, t.k = "struct", Loops, NEW i, NEW size, NEW acc
  PROVE  /\ Len(acc) = Len(t.fields) => ReadNext(i, t, size, acc) = [i |-> i, n |-> size, v |-> acc]
         /\ Len(acc) # Len(t.fields) =>
              ReadNext(i, t, size, acc)
                = ReadNext(Read(i, t.fields[Len(acc) + 1]).i, t, size,
                           Append(acc, Read(i, t.fields[Len(acc) + 1]).v))
<1>1. ReadNext(i, t, size, acc) = ReadLoop(i, t, size, acc)
  BY Zenon DEF Loops
<1>3. ReadLoop(i, t, size, acc) = FieldLoop(i, t, size, acc)
  BY Zenon DEF ReadLoop
<1>4. ReadNext(i, t, size, acc)
        = IF Len(acc) = Len(t.fields) THEN [i |-> i, n |-> size, v |-> acc]
          ELSE ReadNext(Read(i, t.fields[Len(acc) + 1]).i, t, size,
                        Append(acc, Read(i, t.fields[Len(acc) + 1]).v))
  BY <1>1, <1>3, Zenon DEF FieldLoop
<1> QED  BY <1>4, Zenon

LEMMA FieldsStep ==
  ASSUME NEW t, Structure(t), Loops, NEW n \in 1 .. Len(t.fields),
         \A i, size, acc : Backed(i) /\ IsSeq(acc) /\ Len(acc) = n => FieldsStays(i, t, size, acc),
         NEW i, Backed(i), NEW size, NEW acc, IsSeq(acc), Len(acc) = n - 1
  PROVE  FieldsStays(i, t, size, acc)
<1> DEFINE f == Read(i, t.fields[Len(acc) + 1])
           g == Append(acc, f.v)
           R == ReadNext(i, t, size, acc)
<1>0. Len(t.fields) \in Nat
  BY LenProperties DEF Structure, IsSeq
<1>1. Len(acc) # Len(t.fields) /\ Len(acc) + 1 = n /\ n <= Len(t.fields) /\ n \in Nat
  BY <1>0
<1>2. R = ReadNext(f.i, t, size, g)
  BY <1>1, FieldUnfolded DEF Structure
<1>3. Onward(i, f.i) /\ (Eats(t.fields[n]) => Progress(i, f.i))
  <2>1. Stays(t.fields[n])
    BY DEF Structure
  <2> QED  BY <1>1, <2>1, Zenon DEF Stays, Eats
<1>4. IsSeq(g) /\ Len(g) = n
  BY <1>1, Appended
<1> HIDE DEF f, g, R
<1>5. Backed(f.i) /\ f.i.err \in BOOLEAN
  BY <1>3, BackedFields DEF Onward
<1>6. FieldsStays(f.i, t, size, g)
  BY <1>4, <1>5
<1>7. Onward(f.i, R.i) /\ (n < Len(t.fields) /\ Eats(t.fields[Len(t.fields)]) => Progress(f.i, R.i))
  BY <1>2, <1>4, <1>6, Zenon DEF FieldsStays
<1>8. Onward(i, R.i) /\ (Progress(f.i, R.i) => Progress(i, R.i))
  BY <1>3, <1>7, OnwardTwice
<1>9. CASE n = Len(t.fields)
  <2>1. R = [i |-> f.i, n |-> size, v |-> g]
    <3>1. ReadNext(f.i, t, size, g) = [i |-> f.i, n |-> size, v |-> g]
      BY <1>4, <1>9, FieldUnfolded DEF Structure
    <3> QED  BY <1>2, <3>1
  <2>2. R.i = f.i
    BY <2>1
  <2> QED  BY <1>3, <1>8, <1>9, <2>2 DEF FieldsStays, R
<1>10. CASE n < Len(t.fields)
  BY <1>7, <1>8, <1>10 DEF FieldsStays, R
<1> QED  BY <1>0, <1>1, <1>9, <1>10

LEMMA FieldsStay ==
  ASSUME NEW t, Structure(t), Loops, NEW i, Backed(i), NEW size
  PROVE  FieldsStays(i, t, size, <<>>)
<1> DEFINE M == {n \in Nat : \A j, s, acc : Backed(j) /\ IsSeq(acc) /\ Len(acc) = n - 1 => FieldsStays(j, t, s, acc)}
<1>0. Len(t.fields) \in Nat
  BY LenProperties DEF Structure, IsSeq
<1>1. Len(t.fields) + 1 \in M
  <2>1. Len(t.fields) + 1 \in Nat /\ (Len(t.fields) + 1) - 1 = Len(t.fields)
    BY <1>0
  <2>2. ASSUME NEW j, NEW s, NEW acc, Backed(j), IsSeq(acc), Len(acc) = Len(t.fields)
        PROVE  FieldsStays(j, t, s, acc)
    <3>1. ReadNext(j, t, s, acc) = [i |-> j, n |-> s, v |-> acc]
      BY <2>2, FieldUnfolded DEF Structure
    <3>2. ReadNext(j, t, s, acc).i = j
      BY <3>1
    <3>3. Onward(j, j)
      BY <2>2, OnwardSelf
    <3>4. ~(Len(acc) < Len(t.fields))
      BY <1>0, <2>2
    <3> QED  BY <3>2, <3>3, <3>4 DEF FieldsStays
  <2> QED  BY <2>1, <2>2
<1>2. ASSUME NEW n \in 1 .. Len(t.fields), n + 1 \in M  PROVE n \in M
  <2>1. n \in Nat /\ (n + 1) - 1 = n
    BY <1>0
  <2>2. \A j, s, acc : Backed(j) /\ IsSeq(acc) /\ Len(acc) = n => FieldsStays(j, t, s, acc)
    BY <1>2, <2>1
  <2>3. ASSUME NEW j, NEW s, NEW acc, Backed(j), IsSeq(acc), Len(acc) = n - 1
        PROVE  FieldsStays(j, t, s, acc)
    <3> HIDE DEF M
    <3> QED  BY <1>2, <2>2, <2>3, FieldsStep
  <2> QED  BY <2>1, <2>3
<1> HIDE DEF M
<1>3. \A n \in 1 .. Len(t.fields) + 1 : n \in M
  BY <1>0, <1>1, <1>2, Downwards
<1>4. 1 \in M
  BY <1>0, <1>3
<1>5. IsSeq(<<>>) /\ Len(<<>>) = 1 - 1
  <2>1. <<>> \in Seq(Bit)
    BY EmptySeq
  <2> QED  BY <2>1 DEF IsSeq
<1> QED  BY <1>4, <1>5 DEF M

\* A test that adds to the error flag.
LEMMA FlagRaised ==
  ASSUME NEW i, Backed(i), NEW j, Onward(i, j), NEW x
  PROVE  /\ Onward(i, [j EXCEPT !.err = j.err \/ x])
         /\ Progress(i, j) => Progress(i, [j EXCEPT !.err = j.err \/ x])
<1>1. j.err \in BOOLEAN
  BY BackedFields DEF Onward
<1>2. PICK e \in BOOLEAN : e = (j.err \/ x) /\ (j.err = TRUE => e = TRUE)
  BY <1>1
<1>3. /\ Onward(i, [j EXCEPT !.err = e])
      /\ e = TRUE => Progress(i, [j EXCEPT !.err = e])
      /\ j.pos > i.pos /\ j.rem < i.rem => Progress(i, [j EXCEPT !.err = e])
  BY FlagSet
<1>4. Progress(i, j) => Progress(i, [j EXCEPT !.err = e])
  BY <1>2, <1>3 DEF Progress
<1> QED  BY <1>2, <1>3, <1>4, Zenon

\* Entries behind a length field, or as many as there have to be.
EntriesRead(i, t, r) ==
  LET s == ReadNumber(AlignIn(i), t.width, TRUE)
  IN  /\ Onward(i, s.i) /\ Onward(i, r.i)
      /\ s.i.err = FALSE /\ (t.width # 0 \/ t.max # 0) => Progress(i, r.i)
      /\ s.i.err = TRUE => Progress(i, s.i)

LEMMA EntriesReadStay ==
  ASSUME NEW i, Backed(i), NEW t, EntryType(t), t.max \in Nat, Loops
  PROVE  LET s == ReadNumber(AlignIn(i), t.width, TRUE)
         IN  EntriesRead(i, t, ReadNext(s.i, t, s.n, <<>>))
<1> DEFINE s == ReadNumber(AlignIn(i), t.width, TRUE)
           r == ReadNext(s.i, t, s.n, <<>>)
<1>1. Onward(i, s.i) /\ s.n \in Nat /\ (t.width # 0 => Progress(i, s.i))
  <2>1. TRUE \in BOOLEAN
    OBVIOUS
  <2> QED  BY <2>1, NumberStay
<1>2. Backed(s.i)
  BY <1>1 DEF Onward
<1>3. EntriesGoOn(s.i, t, s.n, <<>>)
  <2> HIDE DEF s
  <2> QED  BY <1>2, EntriesStay
<1>4. /\ Onward(s.i, r.i)
      /\ ~EntriesDone(t, s.n, <<>>) => Progress(s.i, r.i)
  <2> HIDE DEF s
  <2> QED  BY <1>3, Zenon DEF EntriesGoOn
<1>5. t.width = 0 /\ t.max # 0 => ~EntriesDone(t, s.n, <<>>)
  <2>1. Len(<<>>) = 0
    OBVIOUS
  <2> HIDE DEF s
  <2> QED  BY <2>1 DEF EntriesDone
<1> HIDE DEF s, r
<1>6. /\ Onward(i, r.i)
      /\ Progress(i, s.i) /\ s.i.err = FALSE => Progress(i, r.i)
      /\ Progress(s.i, r.i) => Progress(i, r.i)
  BY <1>1, <1>4, OnwardTwice
<1>7. s.i.err = TRUE => Progress(i, s.i)
  BY <1>1 DEF Progress
<1> QED  BY <1>1, <1>4, <1>5, <1>6, <1>7 DEF EntriesRead, r, s

LEMMA ArrayStay ==
  ASSUME NEW i, Backed(i), NEW t, t.k = "array", EntryType(t), t.max \in Nat, Loops
  PROVE  /\ Onward(i, ReadArray(i, t).i)
         /\ t.width # 0 \/ t.max # 0 => Progress(i, ReadArray(i, t).i)
<1> DEFINE s == ReadNumber(AlignIn(i), t.width, TRUE)
           r == ReadNext(s.i, t, s.n, <<>>)
           j == [r.i EXCEPT !.err = r.i.err \/ (r.n # 0 \/ ~Fits(t, Len(r.v)))]
<1>1. EntriesRead(i, t, r)
  BY EntriesReadStay, Zenon
<1>2. ReadArray(i, t) = IF s.i.err THEN Result(s.i, <<>>)
                        ELSE Result([r.i EXCEPT !.err = r.i.err \/ r.n # 0 \/ ~Fits(t, Len(r.v))], r.v)
  BY Zenon DEF ReadArray
<1>3. /\ Onward(i, s.i) /\ Onward(i, r.i)
      /\ s.i.err = FALSE /\ (t.width # 0 \/ t.max # 0) => Progress(i, r.i)
      /\ s.i.err = TRUE => Progress(i, s.i)
  BY <1>1, Zenon DEF EntriesRead
<1>4. s.i.err \in BOOLEAN
  BY <1>3, BackedFields DEF Onward
<1> HIDE DEF s, r
<1>5. Onward(i, j) /\ (Progress(i, r.i) => Progress(i, j))
  BY <1>3, FlagRaised
<1>6. (r.i.err \/ r.n # 0 \/ ~Fits(t, Len(r.v))) = (r.i.err \/ (r.n # 0 \/ ~Fits(t, Len(r.v))))
  BY Zenon
<1>7. ReadArray(i, t) = IF s.i.err THEN Result(s.i, <<>>) ELSE Result(j, r.v)
  BY <1>2, <1>6, Zenon
<1> HIDE DEF j
<1>8. CASE s.i.err = TRUE
  <2>1. ReadArray(i, t).i = s.i
    BY <1>7, <1>8 DEF Result
  <2> QED  BY <1>3, <1>8, <2>1
<1>9. CASE s.i.err = FALSE
  <2>1. ReadArray(i, t).i = j
    BY <1>7, <1>9 DEF Result
  <2> QED  BY <1>3, <1>5, <1>9, <2>1
<1> QED  BY <1>4, <1>8, <1>9

LEMMA MapStay ==
  ASSUME NEW i, Backed(i), NEW t, t.k = "map", EntryType(t), t.max \in Nat, Loops
  PROVE  /\ Onward(i, ReadMap(i, t).i)
         /\ t.width # 0 \/ t.max # 0 => Progress(i, ReadMap(i, t).i)
<1> DEFINE s == ReadNumber(AlignIn(i), t.width, TRUE)
           q == ReadNext(s.i, t, s.n, <<>>)
           r == IF s.i.err THEN [i |-> s.i, n |-> s.n, v |-> <<>>] ELSE q
           j == [r.i EXCEPT !.err = r.i.err \/ (r.n # 0 \/ ~Fits(t, Len(r.v)))]
<1>1. EntriesRead(i, t, q)
  BY EntriesReadStay, Zenon
<1>2. ReadMap(i, t) = Result([r.i EXCEPT !.err = r.i.err \/ r.n # 0 \/ ~Fits(t, Len(r.v))], r.v)
  BY Zenon DEF ReadMap
<1>3. /\ Onward(i, s.i) /\ Onward(i, q.i)
      /\ s.i.err = FALSE /\ (t.width # 0 \/ t.max # 0) => Progress(i, q.i)
      /\ s.i.err = TRUE => Progress(i, s.i)
  BY <1>1, Zenon DEF EntriesRead
<1>4. s.i.err \in BOOLEAN
  BY <1>3, BackedFields DEF Onward
<1> HIDE DEF s, q
<1>5. r.i = IF s.i.err THEN s.i ELSE q.i
  BY <1>4
<1>6. Onward(i, r.i) /\ (t.width # 0 \/ t.max # 0 => Progress(i, r.i))
  BY <1>3, <1>4, <1>5
<1> HIDE DEF r
<1>7. Onward(i, j) /\ (Progress(i, r.i) => Progress(i, j))
  BY <1>6, FlagRaised
<1>8. (r.i.err \/ r.n # 0 \/ ~Fits(t, Len(r.v))) = (r.i.err \/ (r.n # 0 \/ ~Fits(t, Len(r.v))))
  BY Zenon
<1>9. ReadMap(i, t) = Result(j, r.v)
  BY <1>2, <1>8, Zenon
<1> HIDE DEF j
<1>10. ReadMap(i, t).i = j
  BY <1>9 DEF Result
<1> QED  BY <1>6, <1>7, <1>10

\* What a longer struct has left is skipped.
LEMMA StructStay ==
  ASSUME NEW i, Backed(i), NEW t, Structure(t), Loops
  PROVE  /\ Onward(i, ReadStruct(i, t).i)
         /\ t.width # 0 \/ (t.fields # <<>> /\ Eats(t.fields[Len(t.fields)])) =>
              Progress(i, ReadStruct(i, t).i)
<1> DEFINE s == ReadNumber(AlignIn(i), t.width, TRUE)
           r == ReadNext(s.i, t, s.n, <<>>)
           used == s.i.rem - r.i.rem
           skips == t.width # 0 /\ s.n > used
           j == IF skips THEN ReadRaw(r.i, s.n - used) ELSE r.i
<1>1. Onward(i, s.i) /\ s.n \in Nat /\ (t.width # 0 => Progress(i, s.i))
  <2>1. TRUE \in BOOLEAN
    OBVIOUS
  <2> QED  BY <2>1, NumberStay
<1>2. ReadStruct(i, t) = IF s.i.err THEN Result(s.i, <<>>) ELSE Result(j, r.v)
  BY Zenon DEF ReadStruct
<1>3. Backed(s.i) /\ s.i.err \in BOOLEAN
  BY <1>1, BackedFields DEF Onward
<1>4. FieldsStays(s.i, t, s.n, <<>>)
  <2> HIDE DEF s
  <2> QED  BY <1>3, FieldsStay
<1>5. Len(t.fields) \in Nat /\ (t.fields # <<>> => Len(<<>>) < Len(t.fields))
  <2>1. PICK S : t.fields \in Seq(S)
    BY DEF Structure, IsSeq
  <2> QED  BY <2>1, EmptySeq
<1>6. /\ Onward(s.i, r.i)
      /\ t.fields # <<>> /\ Eats(t.fields[Len(t.fields)]) => Progress(s.i, r.i)
  <2> HIDE DEF s
  <2> QED  BY <1>4, <1>5, Zenon DEF FieldsStays
<1> HIDE DEF s, r
<1>7. /\ Onward(i, r.i)
      /\ Progress(i, s.i) /\ s.i.err = FALSE => Progress(i, r.i)
      /\ Progress(s.i, r.i) => Progress(i, r.i)
  BY <1>1, <1>6, OnwardTwice
<1>8. s.i.rem \in Nat /\ r.i.rem \in Nat /\ r.i.rem <= s.i.rem /\ Backed(r.i) /\ r.i.err \in BOOLEAN
  BY <1>3, <1>6, BackedFields DEF Onward
<1>9. Onward(i, j) /\ (Progress(i, r.i) => Progress(i, j))
  <2>1. CASE skips
    <3>1. PICK n \in Nat : n = s.n - used
      BY <1>1, <1>8, <2>1
    <3>2. j = ReadRaw(r.i, n)
      BY <2>1, <3>1
    <3>3. Onward(r.i, ReadRaw(r.i, n)) /\ (r.i.err = TRUE => ReadRaw(r.i, n).err = TRUE)
      BY <1>8, RawOnward
    <3> DEFINE m == ReadRaw(r.i, n)
    <3>4. Onward(r.i, m) /\ (r.i.err = TRUE => m.err = TRUE) /\ j = m
      BY <3>2, <3>3
    <3> HIDE DEF m, j, used, skips
    <3>5. Onward(i, m) /\ (Progress(i, r.i) /\ r.i.err = FALSE => Progress(i, m))
      BY <1>7, <3>4, OnwardTwice
    <3>6. r.i.err = TRUE => Progress(i, m)
      BY <3>4, <3>5 DEF Progress
    <3> QED  BY <1>8, <3>4, <3>5, <3>6
  <2>2. CASE ~skips
    <3>1. j = r.i
      BY <2>2
    <3> QED  BY <1>7, <3>1
  <2> QED  BY <2>1, <2>2
<1> HIDE DEF j, used, skips
<1>10. CASE s.i.err = TRUE
  <2>1. ReadStruct(i, t).i = s.i
    BY <1>2, <1>10 DEF Result
  <2>2. Progress(i, s.i)
    BY <1>1, <1>10 DEF Progress
  <2> QED  BY <1>1, <2>1, <2>2
<1>11. CASE s.i.err = FALSE
  <2>1. ReadStruct(i, t).i = j
    BY <1>2, <1>11 DEF Result
  <2> QED  BY <1>1, <1>6, <1>7, <1>9, <1>11, <2>1
<1> QED  BY <1>3, <1>10, <1>11

\* The two numbers of a variant: the second one sets the flag, unless it has no
\* width and is the length.
LEMMA SecondNumber ==
  ASSUME NEW i, Backed(i), NEW width, NEW permitted \in BOOLEAN
  PROVE  LET s == ReadNumber(i, width, permitted)
         IN  /\ Onward(i, s.i) /\ s.n \in Nat
             /\ width # 0 \/ permitted = FALSE => Progress(i, s.i)
             /\ width = 0 /\ i.err = TRUE => s.i.err = TRUE
<1> DEFINE s == ReadNumber(i, width, permitted)
<1>1. AlignIn(i) = i /\ i.err \in BOOLEAN
  BY AlignedReader, BackedFields
<1>2. Onward(i, s.i) /\ s.n \in Nat /\ (width # 0 => Progress(i, s.i))
  BY <1>1, NumberStay
<1>3. ASSUME width = 0
      PROVE  /\ permitted = FALSE => Progress(i, s.i)
             /\ i.err = TRUE => s.i.err = TRUE
  <2> DEFINE e == i.err \/ ~permitted
  <2>1. s = [i |-> [i EXCEPT !.err = e], n |-> 0]
    BY <1>3, Zenon DEF ReadNumber
  <2>2. s.i = [i EXCEPT !.err = e]
    <3> HIDE DEF s
    <3> QED  BY <2>1
  <2>3. e \in BOOLEAN /\ (permitted = FALSE => e = TRUE) /\ (i.err = TRUE => e = TRUE)
    BY <1>1
  <2>4. Onward(i, i) /\ "err" \in DOMAIN i
    BY OnwardSelf DEF Backed, Inputs
  <2> HIDE DEF e, s
  <2>5. e = TRUE => Progress(i, [i EXCEPT !.err = e])
    BY <2>3, <2>4, FlagSet
  <2>6. e = TRUE => s.i.err = TRUE
    BY <2>2, <2>4
  <2> QED  BY <2>2, <2>3, <2>5, <2>6
<1> HIDE DEF s
<1> QED  BY <1>1, <1>2, <1>3 DEF s

LEMMA VariantHeadStay ==
  ASSUME NEW i, Backed(i), NEW t, t.max \in Nat
  PROVE  LET h == VariantHead(i, t) IN Progress(i, h.i) /\ Backed(h.i) /\ h.size \in Nat
<1> DEFINE h == VariantHead(i, t)
<1>0. TRUE \in BOOLEAN /\ FALSE \in BOOLEAN
  OBVIOUS
<1>1. CASE t.order
  <2> DEFINE n == ReadNumber(i, t.width, TRUE)
             m == ReadNumber(n.i, t.twidth, FALSE)
  <2>1. h = [i |-> m.i, alt |-> m.n, size |-> IF t.width = 0 THEN t.max ELSE n.n]
    BY <1>1, Zenon DEF VariantHead, TypeAfter
  <2>2. Onward(i, n.i) /\ n.n \in Nat
    BY <1>0, SecondNumber
  <2> HIDE DEF n
  <2>3. Backed(n.i)
    BY <2>2 DEF Onward
  <2>4. Onward(n.i, m.i) /\ Progress(n.i, m.i)
    BY <1>0, <2>3, SecondNumber
  <2> HIDE DEF m, h
  <2>5. Progress(i, m.i)
    BY <2>2, <2>4, OnwardTwice
  <2>6. h.i = m.i /\ h.size \in Nat
    BY <2>1, <2>2
  <2> QED  BY <2>5, <2>6 DEF Progress, Onward, h
<1>2. CASE ~t.order
  <2> DEFINE n == ReadNumber(i, t.twidth, FALSE)
             m == ReadNumber(n.i, t.width, TRUE)
  <2>1. h = [i |-> m.i, alt |-> n.n, size |-> IF t.width = 0 THEN t.max ELSE m.n]
    BY <1>2, Zenon DEF VariantHead, LengthAfter
  <2>2. Onward(i, n.i) /\ Progress(i, n.i)
    BY <1>0, SecondNumber
  <2> HIDE DEF n
  <2>3. Backed(n.i) /\ n.i.err \in BOOLEAN
    BY <2>2, BackedFields DEF Onward
  <2>4. /\ Onward(n.i, m.i) /\ m.n \in Nat
        /\ t.width # 0 => Progress(n.i, m.i)
        /\ t.width = 0 /\ n.i.err = TRUE => m.i.err = TRUE
    BY <1>0, <2>3, SecondNumber
  <2> HIDE DEF m, h
  <2>5. /\ Onward(i, m.i)
        /\ Progress(i, n.i) /\ n.i.err = FALSE => Progress(i, m.i)
        /\ Progress(n.i, m.i) => Progress(i, m.i)
    BY <2>2, <2>4, OnwardTwice
  <2>6. m.i.err = TRUE => Progress(i, m.i)
    BY <2>5 DEF Progress
  <2>7. Progress(i, m.i)
    BY <2>2, <2>3, <2>4, <2>5, <2>6
  <2>8. h.i = m.i /\ h.size \in Nat
    BY <2>1, <2>4
  <2> QED  BY <2>7, <2>8 DEF Progress, Onward, h
<1> QED  BY <1>1, <1>2

LEMMA PaddingStay ==
  ASSUME NEW h, Backed(h), NEW r, Onward(h, r.i), NEW alt, NEW left \in Int
  PROVE  /\ Onward(h, SkipPadding(r, alt, left).i)
         /\ r.i.err = TRUE => SkipPadding(r, alt, left).i.err = TRUE
<1> DEFINE j == SkipPadding(r, alt, left).i
<1>1. Backed(r.i) /\ r.i \in Inputs /\ r.i.err \in BOOLEAN
  BY BackedFields DEF Onward
<1>2. j = IF left < 0 THEN Fail(r.i) ELSE IF r.i.err THEN r.i ELSE ReadRaw(r.i, left)
  <2> DEFINE k == IF left < 0 THEN Fail(r.i) ELSE IF r.i.err THEN r.i ELSE ReadRaw(r.i, left)
  <2>1. SkipPadding(r, alt, left) = Result(k, [alt |-> alt, val |-> r.v])
    BY Zenon DEF SkipPadding
  <2> HIDE DEF k
  <2>2. SkipPadding(r, alt, left).i = k
    BY <2>1 DEF Result
  <2> QED  BY <2>2 DEF k
<1> HIDE DEF j
<1>3. CASE left < 0
  <2>1. Progress(h, Fail(r.i)) /\ Onward(h, Fail(r.i))
    BY FailOnward
  <2>2. Fail(r.i).err = TRUE
    BY <1>1 DEF Fail, Inputs
  <2>3. j = Fail(r.i)
    BY <1>2, <1>3
  <2> QED  BY <2>1, <2>2, <2>3 DEF j
<1>4. CASE ~(left < 0) /\ r.i.err = TRUE
  BY <1>2, <1>4 DEF j
<1>5. CASE ~(left < 0) /\ r.i.err = FALSE
  <2>1. left \in Nat
    BY <1>5
  <2>2. Onward(r.i, ReadRaw(r.i, left))
    BY <1>1, <2>1, RawOnward
  <2>3. j = ReadRaw(r.i, left)
    BY <1>2, <1>5
  <2>4. Onward(h, j)
    BY <2>2, <2>3, OnwardTwice
  <2> QED  BY <1>5, <2>4 DEF j
<1> QED  BY <1>1, <1>3, <1>4, <1>5

LEMMA VariantStay ==
  ASSUME NEW i, Backed(i), NEW t, t.max \in Nat, \A n \in DOMAIN t.alts : Stays(t.alts[n])
  PROVE  Progress(i, ReadVariant(i, t).i)
<1> DEFINE h == VariantHead(i, t)
           r == Alternative(h, t)
           left == h.size - (h.i.rem - r.i.rem)
           k == AfterHead(h, t)
<1>1. AlignIn(i) = i
  BY AlignedReader, BackedFields
<1>2. ReadVariant(i, t) = k
  BY <1>1, Zenon DEF ReadVariant
<1>3. Progress(i, h.i) /\ Onward(i, h.i) /\ Backed(h.i) /\ h.size \in Nat
  <2>1. Progress(i, h.i) /\ Backed(h.i) /\ h.size \in Nat
    BY VariantHeadStay
  <2> HIDE DEF h
  <2> QED  BY <2>1 DEF Progress
<1> HIDE DEF h
<1>4. h.i.err \in BOOLEAN /\ h.i.rem \in Nat
  BY <1>3, BackedFields
<1>5. k = IF h.i.err \/ h.alt = 0 THEN Result(Fail(h.i), [alt |-> 0, val |-> <<>>])
          ELSE SkipPadding(r, h.alt, left)
  BY Zenon DEF AfterHead, ContentAfter
<1>6. CASE h.i.err \/ h.alt = 0
  <2>1. k.i = Fail(h.i)
    <3> HIDE DEF k
    <3> QED  BY <1>5, <1>6 DEF Result
  <2>2. Progress(i, Fail(h.i))
    BY <1>3, FailOnward
  <2> HIDE DEF k
  <2> QED  BY <1>2, <2>1, <2>2
<1>7. CASE ~(h.i.err \/ h.alt = 0)
  <2>1. Onward(h.i, r.i)
    <3>1. CASE h.alt \in DOMAIN t.alts
      <4>1. r = Read(h.i, t.alts[h.alt])
        BY <3>1, Zenon DEF Alternative
      <4>2. Stays(t.alts[h.alt])
        BY <3>1
      <4> HIDE DEF r
      <4> QED  BY <1>3, <4>1, <4>2, Zenon DEF Stays
    <3>2. CASE h.alt \notin DOMAIN t.alts
      <4>1. r = Result(h.i, <<>>)
        BY <3>2, Zenon DEF Alternative
      <4> HIDE DEF r
      <4>2. r.i = h.i
        BY <4>1 DEF Result
      <4> QED  BY <1>3, <4>2, OnwardSelf
    <3> QED  BY <3>1, <3>2
  <2>2. left \in Int
    <3>1. Backed(r.i)
      BY <2>1 DEF Onward
    <3>2. r.i.rem \in Nat
      BY <3>1, BackedFields
    <3> QED  BY <1>3, <1>4, <3>2
  <2> HIDE DEF left, r, k
  <2>3. k = SkipPadding(r, h.alt, left)
    BY <1>5, <1>7
  <2>4. Onward(h.i, k.i)
    BY <1>3, <2>1, <2>2, <2>3, PaddingStay
  <2>5. h.i.err = FALSE
    BY <1>4, <1>7
  <2>6. Progress(i, k.i)
    BY <1>3, <2>4, <2>5, OnwardTwice
  <2> QED  BY <1>2, <2>6
<1> QED  BY <1>6, <1>7

\* A type whose parts are in S, and something is used of a value if it is in E:
\* of the entries of an array or a map, so that its loop ends.
Made(t, S, E) ==
  \/ FlatType(t) /\ (t \in E => EatingType(t))
  \/ /\ t.k = "array" /\ t.max \in Nat /\ t.elem \in S \cap E
     /\ t \in E => t.width # 0 \/ t.max # 0
  \/ /\ t.k = "map" /\ t.max \in Nat /\ t.key \in S \cap E /\ t.val \in S
     /\ t \in E => t.width # 0 \/ t.max # 0
  \/ /\ t.k = "struct" /\ t.fields \in Seq(S)
     /\ t \in E => t.width # 0 \/ (t.fields # <<>> /\ t.fields[Len(t.fields)] \in E)
  \/ t.k = "variant" /\ t.max \in Nat /\ \A n \in DOMAIN t.alts : t.alts[n] \in S

StaysAs(t, E) == Stays(t) /\ (t \in E => Eats(t))

LEMMA MadeStays ==
  ASSUME NEW t, NEW S, NEW E, Made(t, S, E), \A s \in S : StaysAs(s, E), Unfolded({t})
  PROVE  StaysAs(t, E)
<1>1. \A i : Read(i, t) = ReadOverload(i, t)
  BY Zenon DEF Unfolded
<1>2. Loops
  BY Zenon DEF Unfolded, Loops
<1>3. CASE FlatType(t) /\ (t \in E => EatingType(t))
  BY <1>3, FlatStays DEF StaysAs
<1>8. ASSUME ~(FlatType(t) /\ (t \in E => EatingType(t))), NEW i, Backed(i)
      PROVE  /\ Onward(i, ReadOverload(i, t).i)
             /\ t \in E => Progress(i, ReadOverload(i, t).i)
  <2>4. CASE /\ t.k = "array" /\ t.max \in Nat /\ t.elem \in S \cap E
             /\ t \in E => t.width # 0 \/ t.max # 0
    <3>1. EntryType(t)
      BY <2>4 DEF EntryType, StaysAs
    <3>2. ReadOverload(i, t) = ReadArray(i, t)
      BY <2>4, ContainerOverloads
    <3>3. Onward(i, ReadArray(i, t).i) /\ (t.width # 0 \/ t.max # 0 => Progress(i, ReadArray(i, t).i))
      BY <1>2, <1>8, <2>4, <3>1, ArrayStay
    <3> QED  BY <2>4, <3>2, <3>3
  <2>5. CASE /\ t.k = "map" /\ t.max \in Nat /\ t.key \in S \cap E /\ t.val \in S
             /\ t \in E => t.width # 0 \/ t.max # 0
    <3>1. EntryType(t)
      BY <2>5 DEF EntryType, StaysAs
    <3>2. ReadOverload(i, t) = ReadMap(i, t)
      BY <2>5, ContainerOverloads
    <3>3. Onward(i, ReadMap(i, t).i) /\ (t.width # 0 \/ t.max # 0 => Progress(i, ReadMap(i, t).i))
      BY <1>2, <1>8, <2>5, <3>1, MapStay
    <3> QED  BY <2>5, <3>2, <3>3
  <2>6. CASE /\ t.k = "struct" /\ t.fields \in Seq(S)
             /\ t \in E => t.width # 0 \/ (t.fields # <<>> /\ t.fields[Len(t.fields)] \in E)
    <3>1. /\ \A n \in 1 .. Len(t.fields) : t.fields[n] \in S
          /\ t.fields # <<>> => Len(t.fields) \in 1 .. Len(t.fields)
      BY <2>6
    <3>2. Structure(t)
      BY <2>6, <3>1 DEF Structure, IsSeq, StaysAs
    <3>3. t \in E => t.width # 0 \/ (t.fields # <<>> /\ Eats(t.fields[Len(t.fields)]))
      BY <2>6, <3>1 DEF StaysAs
    <3>4. ReadOverload(i, t) = ReadStruct(i, t)
      BY <2>6, ContainerOverloads
    <3>5. /\ Onward(i, ReadStruct(i, t).i)
          /\ t.width # 0 \/ (t.fields # <<>> /\ Eats(t.fields[Len(t.fields)])) =>
               Progress(i, ReadStruct(i, t).i)
      BY <1>2, <1>8, <3>2, StructStay
    <3> QED  BY <3>3, <3>4, <3>5, Zenon
  <2>7. CASE t.k = "variant" /\ t.max \in Nat /\ \A n \in DOMAIN t.alts : t.alts[n] \in S
    <3>1. ReadOverload(i, t) = ReadVariant(i, t)
      BY <2>7, ContainerOverloads
    <3>2. \A n \in DOMAIN t.alts : Stays(t.alts[n])
      BY <2>7 DEF StaysAs
    <3>3. Progress(i, ReadVariant(i, t).i)
      BY <1>8, <2>7, <3>2, VariantStay
    <3> QED  BY <3>1, <3>3 DEF Progress
  <2> QED  BY <1>8, <2>4, <2>5, <2>6, <2>7 DEF Made
<1>9. CASE ~(FlatType(t) /\ (t \in E => EatingType(t)))
  <2>1. \A i : Backed(i) => /\ Onward(i, Read(i, t).i)
                            /\ t \in E => Progress(i, Read(i, t).i)
    BY <1>1, <1>8, <1>9, Zenon
  <2> QED  BY <2>1, Zenon DEF StaysAs, Stays, Eats
<1> QED  BY <1>3, <1>9

\* Types that are made of types of a smaller depth.
Types(T, E, depth) == depth \in [T -> Nat] /\ \A t \in T : Made(t, {s \in T : depth[s] < depth[t]}, E)

LEMMA TypesStay ==
  ASSUME NEW T, NEW E, NEW depth, Types(T, E, depth), Unfolded(T)
  PROVE  \A t \in T : StaysAs(t, E)
<1> DEFINE M == {n \in Nat : \A t \in T : depth[t] < n => StaysAs(t, E)}
<1>0. \A t \in T : depth[t] \in Nat
  BY DEF Types
<1>1. 0 \in M
  BY <1>0
<1>2. ASSUME NEW n \in M, n \in Nat  PROVE n + 1 \in M
  <2>1. ASSUME NEW t \in T, depth[t] < n + 1  PROVE StaysAs(t, E)
    <3> DEFINE S == {s \in T : depth[s] < depth[t]}
    <3>1. Made(t, S, E)
      BY DEF Types
    <3>2. \A s \in S : StaysAs(s, E)
      <4>1. \A s \in S : depth[s] < n
        BY <1>0, <1>2, <2>1
      <4> QED  BY <4>1
    <3>3. Unfolded({t})
      BY Zenon DEF Unfolded
    <3> HIDE DEF S, M
    <3> QED  BY <3>1, <3>2, <3>3, MadeStays
  <2> QED  BY <1>2, <2>1
<1>3. Nat \subseteq M
  <2> HIDE DEF M
  <2> QED  BY <1>1, <1>2, SetInduction
<1> SUFFICES ASSUME NEW t \in T  PROVE StaysAs(t, E)
  OBVIOUS
<1>4. depth[t] + 1 \in M /\ depth[t] < depth[t] + 1
  <2>1. depth[t] + 1 \in Nat /\ depth[t] < depth[t] + 1
    BY <1>0
  <2> HIDE DEF M
  <2> QED  BY <1>3, <2>1
<1> QED  BY <1>4

-----------------------------------------------------------------------------
(* Values that hold other values: what writing leaves and reading finds.   *)

WriteLoops == \A o, t, v, n : WriteNext(o, t, v, n) = WriteLoop(o, t, v, n)

LEMMA PartsUnfolded ==
  ASSUME NEW t, NEW v, NEW n, NEW o, WriteLoops
  PROVE  /\ n > Len(v) => WriteNext(o, t, v, n) = o
         /\ ~(n > Len(v)) /\ o.err = FALSE =>
              WriteNext(o, t, v, n) = WriteNext(WritePart(o, t, v[n], n), t, v, n + 1)
         /\ \/ WriteNext(o, t, v, n) = o
            \/ ~(n > Len(v)) /\ WriteNext(o, t, v, n) = WriteNext(WritePart(o, t, v[n], n), t, v, n + 1)
         /\ ~(n > Len(v)) /\ t.k = "struct" =>
              WriteNext(o, t, v, n) = WriteNext(WritePart(o, t, v[n], n), t, v, n + 1)
<1> DEFINE stops == o.err /\ (t.k = "array" \/ (t.k = "map" /\ n > 1))
<1>1. WriteNext(o, t, v, n) = WriteLoop(o, t, v, n)
  BY Zenon DEF WriteLoops
<1>2. WriteNext(o, t, v, n)
        = IF n > Len(v) \/ stops THEN o
          ELSE WriteNext(WritePart(o, t, v[n], n), t, v, n + 1)
  BY <1>1, Zenon DEF WriteLoop
<1>3. (o.err = FALSE => ~stops) /\ (t.k = "struct" => ~stops)
  OBVIOUS
<1> HIDE DEF stops
<1>4. CASE n > Len(v)
  BY <1>2, <1>4, Zenon
<1>5. CASE ~(n > Len(v)) /\ stops
  <2>1. WriteNext(o, t, v, n) = o
    BY <1>2, <1>5, Zenon
  <2> QED  BY <1>3, <1>5, <2>1, Zenon
<1>6. CASE ~(n > Len(v)) /\ ~stops
  <2>1. WriteNext(o, t, v, n) = WriteNext(WritePart(o, t, v[n], n), t, v, n + 1)
    BY <1>2, <1>6, Zenon
  <2> QED  BY <1>6, <2>1, Zenon
<1> QED  BY <1>4, <1>5, <1>6

\* The first n of the parts have been read.
Begins(acc, m, n) == IsSeq(acc) /\ Len(acc) = n /\ \A k \in 1 .. n : acc[k] = m[k]

LEMMA BeginsNext ==
  ASSUME NEW m, NEW n \in Nat \ {0}, NEW acc, Begins(acc, m, n - 1)
  PROVE  Begins(Append(acc, m[n]), m, n)
<1>1. IsSeq(acc) /\ Len(acc) = n - 1 /\ \A k \in 1 .. n - 1 : acc[k] = m[k]
  BY DEF Begins
<1>2. /\ IsSeq(Append(acc, m[n])) /\ Len(Append(acc, m[n])) = (n - 1) + 1
      /\ Append(acc, m[n])[(n - 1) + 1] = m[n] /\ \A k \in 1 .. n - 1 : Append(acc, m[n])[k] = acc[k]
  BY <1>1, Appended
<1> DEFINE g == Append(acc, m[n])
<1>3. IsSeq(g) /\ Len(g) = (n - 1) + 1 /\ g[(n - 1) + 1] = m[n] /\ \A k \in 1 .. n - 1 : g[k] = acc[k]
  BY <1>2
<1> HIDE DEF g
<1>4. (n - 1) + 1 = n /\ \A k \in 1 .. n : k = n \/ k \in 1 .. n - 1
  OBVIOUS
<1>5. Begins(g, m, n)
  BY <1>1, <1>3, <1>4 DEF Begins
<1> QED  BY <1>5 DEF g

LEMMA BeginsAll ==
  ASSUME NEW m, IsSeq(m), NEW acc, Begins(acc, m, Len(m))
  PROVE  acc = m
<1>1. PICK S, R : m \in Seq(S) /\ acc \in Seq(R)
  BY DEF IsSeq, Begins
<1>2. Len(acc) = Len(m) /\ Len(m) \in Nat /\ \A k \in 1 .. Len(m) : acc[k] = m[k]
  BY <1>1, LenProperties DEF Begins
<1> DEFINE U == S \cup R
<1>3. m \in Seq(U) /\ acc \in Seq(U)
  <2>1. m \in [1 .. Len(m) -> S] /\ acc \in [1 .. Len(acc) -> R] /\ Len(acc) \in Nat
    BY <1>1, LenProperties
  <2>2. m \in [1 .. Len(m) -> U] /\ acc \in [1 .. Len(acc) -> U]
    BY <2>1
  <2> HIDE DEF U
  <2> QED  BY <1>2, <2>1, <2>2, SeqDef
<1> HIDE DEF U
<1> QED  BY <1>2, <1>3, SeqEqual

LEMMA BeginsEmpty ==
  ASSUME NEW m
  PROVE  Begins(<<>>, m, 0)
<1>1. <<>> \in Seq(Bit) /\ Len(<<>>) = 0
  BY EmptySeq
<1> QED  BY <1>1 DEF Begins, IsSeq

\* The n-th part of a value, and the parts from the n-th on, for a writer.
PartPuts(t, v, n, le, c) == \A o : Clean(o, le) => WritePart(o, t, v[n], n) = WriteRaw(o, c)

PartRefuses(t, v, n, le) == \A o : Clean(o, le) => Faulty(WritePart(o, t, v[n], n))

PartPersists(t, v, n) == \A o : Faulty(o) => Faulty(WritePart(o, t, v[n], n))

RestPuts(t, v, n, le, c) == \A o : Clean(o, le) => WriteNext(o, t, v, n) = WriteRaw(o, c)

RestRefuses(t, v, n, le) == \A o : Clean(o, le) => Faulty(WriteNext(o, t, v, n))

RestPersists(t, v, n) == \A o : Faulty(o) => Faulty(WriteNext(o, t, v, n))

LEMMA PartUnfolded ==
  ASSUME NEW t, NEW v, NEW n, NEW o, WriteLoops, ~(n > Len(v)), o.err = FALSE \/ t.k = "struct"
  PROVE  WriteNext(o, t, v, n)
           = WriteNext(WritePart(o, t, v[n], n), t, v, n + 1)
BY PartsUnfolded, Zenon

LEMMA PutStep ==
  ASSUME NEW t, NEW v, WriteLoops, Len(v) \in Nat, NEW n \in 1 .. Len(v), NEW le,
         NEW c \in Chunks, PartPuts(t, v, n, le, c)
  PROVE  /\ \A d \in Chunks : RestPuts(t, v, n + 1, le, d) => RestPuts(t, v, n, le, c \o d)
         /\ RestRefuses(t, v, n + 1, le) => RestRefuses(t, v, n, le)
<1>1. ~(n > Len(v))
  OBVIOUS
<1>2. ASSUME NEW o, Clean(o, le)
      PROVE  /\ WriteNext(o, t, v, n) = WriteNext(WriteRaw(o, c), t, v, n + 1)
             /\ Clean(WriteRaw(o, c), le) /\ o \in Outputs
  <2>1. o \in Outputs /\ o.err = FALSE
    BY <1>2, CleanFields
  <2>2. WriteNext(o, t, v, n)
          = WriteNext(WritePart(o, t, v[n], n), t, v, n + 1)
    BY <1>1, <2>1, PartUnfolded, Zenon
  <2>3. WritePart(o, t, v[n], n) = WriteRaw(o, c)
    BY <1>2, Zenon DEF PartPuts
  <2> QED  BY <1>2, <2>1, <2>2, <2>3, CleanWritten
<1>3. ASSUME NEW d \in Chunks, RestPuts(t, v, n + 1, le, d)  PROVE RestPuts(t, v, n, le, c \o d)
  <2>1. ASSUME NEW o, Clean(o, le)  PROVE WriteNext(o, t, v, n) = WriteRaw(o, c \o d)
    <3>1. /\ WriteNext(o, t, v, n) = WriteNext(WriteRaw(o, c), t, v, n + 1)
          /\ Clean(WriteRaw(o, c), le) /\ o \in Outputs
      BY <1>2, <2>1
    <3>2. WriteNext(WriteRaw(o, c), t, v, n + 1) = WriteRaw(WriteRaw(o, c), d)
      BY <1>3, <3>1, Zenon DEF RestPuts
    <3>3. c \in Seq(Bit) /\ d \in Seq(Bit)
      BY ChunkType
    <3>4. WriteRaw(WriteRaw(o, c), d) = WriteRaw(o, c \o d)
      BY <3>1, <3>3, WrittenTwice
    <3> QED  BY <3>1, <3>2, <3>4, Zenon
  <2> QED  BY <2>1, Zenon DEF RestPuts
<1>4. ASSUME RestRefuses(t, v, n + 1, le)  PROVE RestRefuses(t, v, n, le)
  <2>1. ASSUME NEW o, Clean(o, le)  PROVE Faulty(WriteNext(o, t, v, n))
    BY <1>2, <1>4, <2>1, Zenon DEF RestRefuses
  <2> QED  BY <2>1, Zenon DEF RestRefuses
<1> QED  BY <1>3, <1>4

LEMMA RefusalStep ==
  ASSUME NEW t, NEW v, WriteLoops, Len(v) \in Nat, NEW n \in 1 .. Len(v), NEW le,
         PartRefuses(t, v, n, le), RestPersists(t, v, n + 1)
  PROVE  RestRefuses(t, v, n, le)
<1>1. ~(n > Len(v))
  OBVIOUS
<1> SUFFICES ASSUME NEW o, Clean(o, le)  PROVE Faulty(WriteNext(o, t, v, n))
  BY Zenon DEF RestRefuses
<1>2. o.err = FALSE
  BY CleanFields
<1>3. WriteNext(o, t, v, n)
        = WriteNext(WritePart(o, t, v[n], n), t, v, n + 1)
  BY <1>1, <1>2, PartUnfolded, Zenon
<1>4. Faulty(WritePart(o, t, v[n], n))
  BY Zenon DEF PartRefuses
<1> QED  BY <1>3, <1>4, Zenon DEF RestPersists

LEMMA RestPersistent ==
  ASSUME NEW t, NEW v, WriteLoops, Len(v) \in Nat, \A n \in 1 .. Len(v) : PartPersists(t, v, n)
  PROVE  \A n \in 1 .. Len(v) + 1 : RestPersists(t, v, n)
<1> DEFINE M == {n \in Nat : RestPersists(t, v, n)}
<1>1. Len(v) + 1 \in M
  <2>1. Len(v) + 1 \in Nat /\ Len(v) + 1 > Len(v)
    OBVIOUS
  <2>2. ASSUME NEW o, Faulty(o)  PROVE Faulty(WriteNext(o, t, v, Len(v) + 1))
    BY <2>1, <2>2, PartsUnfolded
  <2>3. RestPersists(t, v, Len(v) + 1)
    BY <2>2, Zenon DEF RestPersists
  <2> QED  BY <2>1, <2>3
<1>2. ASSUME NEW n \in 1 .. Len(v), n + 1 \in M  PROVE n \in M
  <2>1. n \in Nat /\ RestPersists(t, v, n + 1) /\ PartPersists(t, v, n)
    BY <1>2
  <2>2. ASSUME NEW o, Faulty(o)  PROVE Faulty(WriteNext(o, t, v, n))
    <3>1. \/ WriteNext(o, t, v, n) = o
          \/ WriteNext(o, t, v, n)
               = WriteNext(WritePart(o, t, v[n], n), t, v, n + 1)
      BY PartsUnfolded
    <3>2. Faulty(WritePart(o, t, v[n], n))
      BY <2>1, <2>2, Zenon DEF PartPersists
    <3>3. Faulty(WriteNext(WritePart(o, t, v[n], n), t, v, n + 1))
      BY <2>1, <3>2, Zenon DEF RestPersists
    <3> QED  BY <2>2, <3>1, <3>3, Zenon
  <2>3. RestPersists(t, v, n)
    BY <2>2, Zenon DEF RestPersists
  <2> QED  BY <2>1, <2>3
<1> HIDE DEF M
<1>3. \A n \in 1 .. Len(v) + 1 : n \in M
  BY <1>1, <1>2, Downwards
<1> QED  BY <1>3 DEF M

LEMMA RestEmpty ==
  ASSUME NEW t, NEW v, WriteLoops, Len(v) \in Nat, NEW le
  PROVE  <<>> \in Chunks /\ Bytes(<<>>) = 0 /\ RestPuts(t, v, Len(v) + 1, le, <<>>)
<1>1. <<>> \in Chunks /\ Bytes(<<>>) = 0
  <2>1. <<>> \in Seq(Bit) /\ Len(<<>>) = 8 * 0 /\ 0 \in Nat
    BY EmptySeq
  <2> QED  BY <2>1, ChunkOf
<1>2. ASSUME NEW o, Clean(o, le)
      PROVE  WriteNext(o, t, v, Len(v) + 1) = WriteRaw(o, <<>>)
  <2>1. o \in Outputs
    BY <1>2, CleanFields
  <2>2. Len(v) + 1 > Len(v)
    OBVIOUS
  <2> QED  BY <2>1, <2>2, NothingWritten, PartsUnfolded
<1>3. RestPuts(t, v, Len(v) + 1, le, <<>>)
  BY <1>2, Zenon DEF RestPuts
<1> QED  BY <1>1, <1>3

\* For a reader: the n-th entry of an array or a map, and the entries from the n-th on.
EntryGets(t, m, n, le, c) ==
  \A i, acc : Ready(i, le) /\ Ahead(i, c) /\ Begins(acc, m, n - 1) =>
    /\ ReadEntry(i, t, acc) = Result(Moved(i, Bytes(c)), Append(acc, m[n]))
    /\ Bytes(c) # 0

EntryMisses(t, m, n, le, c) ==
  \A i, acc : Ready(i, le) /\ Short(i, c) => ReadEntry(i, t, acc).i.err

Announces(t, c) == IF t.width = 0 THEN 0 ELSE Bytes(c)

EntriesGet(t, m, n, le, c) ==
  \A i, acc : Ready(i, le) /\ Ahead(i, c) /\ Begins(acc, m, n - 1) =>
    ReadNext(i, t, Announces(t, c), acc) = [i |-> Moved(i, Bytes(c)), n |-> 0, v |-> m]

EntriesMiss(t, m, n, le, c) ==
  \A i, acc : Ready(i, le) /\ Short(i, c) /\ Begins(acc, m, n - 1) =>
    ReadNext(i, t, Announces(t, c), acc).i.err

\* The receiver knows how many entries there are, or how long they are.
HasEntries(t) == t.k \in {"array", "map"}

Entries(t, m) == HasEntries(t) /\ IsSeq(m) /\ (t.width = 0 => Len(m) = t.max)

Left(i, j, t, size) ==
  IF t.width = 0 THEN size ELSE IF i.rem - j.rem > size THEN Huge ELSE size - (i.rem - j.rem)

GoesOn(i, t, size, acc, r) ==
  IF EntriesDone(t, size, acc) THEN [i |-> i, n |-> size, v |-> acc]
  ELSE IF r.i.err \/ r.i.stray # "no" THEN [i |-> r.i, n |-> size, v |-> acc]
  ELSE IF r.i.pos = i.pos /\ t.width # 0
    THEN [i |-> [r.i EXCEPT !.stray = "endless"], n |-> size, v |-> r.v]
  ELSE ReadNext(r.i, t, Left(i, r.i, t, size), r.v)

LEMMA EntriesUnfolded ==
  ASSUME NEW t, HasEntries(t), Loops, NEW i, NEW size, NEW acc
  PROVE  ReadNext(i, t, size, acc) = GoesOn(i, t, size, acc, ReadEntry(i, t, acc))
<1>1. ReadNext(i, t, size, acc) = ReadLoop(i, t, size, acc)
  BY Zenon DEF Loops
<1>2. t.k # "struct"
  BY DEF HasEntries
<1>3. ReadNext(i, t, size, acc) = EntryLoop(i, t, size, acc)
  BY <1>1, <1>2, Zenon DEF ReadLoop
<1> QED  BY <1>3, Zenon DEF EntryLoop, EntriesDone, Left, GoesOn

LEMMA EntriesEnded ==
  ASSUME NEW t, HasEntries(t), Loops, NEW i, NEW size, NEW acc, EntriesDone(t, size, acc)
  PROVE  ReadNext(i, t, size, acc) = [i |-> i, n |-> size, v |-> acc]
BY EntriesUnfolded, Zenon DEF GoesOn

LEMMA EntryFailed ==
  ASSUME NEW t, HasEntries(t), Loops, NEW i, NEW size, NEW acc, ~EntriesDone(t, size, acc),
         ReadEntry(i, t, acc).i.err
  PROVE  ReadNext(i, t, size, acc).i = ReadEntry(i, t, acc).i
<1> DEFINE r == ReadEntry(i, t, acc)
<1>1. ReadNext(i, t, size, acc) = [i |-> r.i, n |-> size, v |-> acc]
  BY EntriesUnfolded, Zenon DEF GoesOn
<1> HIDE DEF r
<1>2. ReadNext(i, t, size, acc).i = r.i
  BY <1>1
<1> QED  BY <1>2 DEF r

\* The entry v has been read, up to j.
Takes(i, t, acc, j, v) ==
  ReadEntry(i, t, acc) = Result(j, v) /\ j.err = FALSE /\ j.stray = "no" /\ j.pos # i.pos

LEMMA EntryTaken ==
  ASSUME NEW t, HasEntries(t), Loops, NEW i, NEW size, NEW acc, ~EntriesDone(t, size, acc),
         NEW j, NEW v, Takes(i, t, acc, j, v)
  PROVE  ReadNext(i, t, size, acc) = ReadNext(j, t, Left(i, j, t, size), v)
<1>1. PICK r : r = ReadEntry(i, t, acc)
  OBVIOUS
<1>2. r.i = j /\ r.v = v
  BY <1>1 DEF Result, Takes
<1>3. ReadNext(i, t, size, acc) = GoesOn(i, t, size, acc, r)
  BY <1>1, EntriesUnfolded
<1>4. ~(r.i.err \/ r.i.stray # "no") /\ ~(r.i.pos = i.pos /\ t.width # 0)
  BY <1>2 DEF Takes
<1>5. ReadNext(i, t, size, acc) = ReadNext(r.i, t, Left(i, r.i, t, size), r.v)
  BY <1>3, <1>4, Zenon DEF GoesOn
<1> QED  BY <1>2, <1>5

LEMMA EntriesEnd ==
  ASSUME NEW t, NEW m, Entries(t, m), Loops, NEW le
  PROVE  /\ EntriesGet(t, m, Len(m) + 1, le, <<>>)
         /\ EntriesMiss(t, m, Len(m) + 1, le, <<>>)
<1>1. <<>> \in Chunks /\ Bytes(<<>>) = 0 /\ Announces(t, <<>>) = 0
  <2>1. <<>> \in Seq(Bit) /\ Len(<<>>) = 8 * 0 /\ 0 \in Nat
    BY EmptySeq
  <2>2. <<>> \in Chunks /\ Bytes(<<>>) = 0
    BY <2>1, ChunkOf
  <2> QED  BY <2>2 DEF Announces
<1>2. Len(m) \in Nat /\ IsSeq(m) /\ HasEntries(t)
      /\ (t.width = 0 => Len(m) = t.max)
  BY LenProperties DEF Entries, IsSeq
<1>3. (Len(m) + 1) - 1 = Len(m)
  BY <1>2
<1>4. ASSUME NEW i, NEW acc, Ready(i, le), Begins(acc, m, Len(m))
      PROVE  ReadNext(i, t, 0, acc) = [i |-> Moved(i, 0), n |-> 0, v |-> m]
  <2>1. acc = m
    BY <1>2, <1>4, BeginsAll
  <2>2. Moved(i, 0) = i
    BY <1>4, MovedNowhere DEF Ready
  <2>3. EntriesDone(t, 0, acc)
    BY <1>2, <2>1 DEF EntriesDone
  <2>4. ReadNext(i, t, 0, acc) = [i |-> i, n |-> 0, v |-> acc]
    BY <1>2, <2>3, EntriesEnded
  <2> QED  BY <2>1, <2>2, <2>4
<1>5. EntriesGet(t, m, Len(m) + 1, le, <<>>)
  BY <1>1, <1>3, <1>4, Zenon DEF EntriesGet
<1>6. \A i : Ready(i, le) => ~Short(i, <<>>)
  <2> SUFFICES ASSUME NEW i, Ready(i, le)  PROVE ~(0 > i.rem)
    BY <1>1 DEF Short
  <2>1. i.rem \in Nat
    BY ReadyFields
  <2> QED  BY <2>1
<1>7. EntriesMiss(t, m, Len(m) + 1, le, <<>>)
  BY <1>6, Zenon DEF EntriesMiss
<1> QED  BY <1>5, <1>7

\* From i to j the bytes of c have been used.
Consumed(i, j, c) == i.rem \in Nat /\ Bytes(c) <= i.rem /\ j.rem = i.rem - Bytes(c) /\ Bytes(c) # 0

LeftOver(i, j, t, c, d) ==
  /\ Left(i, j, t, Announces(t, c \o d)) = Announces(t, d)
  /\ t.width # 0 => Announces(t, c \o d) # 0

LEMMA SizeLeft ==
  ASSUME NEW t, NEW c \in Chunks, NEW d \in Chunks, NEW i, NEW j, Consumed(i, j, c)
  PROVE  LeftOver(i, j, t, c, d)
<1>1. Bytes(c) \in Nat /\ Bytes(d) \in Nat /\ Bytes(c \o d) = Bytes(c) + Bytes(d)
  BY ChunkType, ChunkConcat
<1>2. PICK x \in Nat, y \in Nat, r \in Nat : x = Bytes(c) /\ y = Bytes(d) /\ r = i.rem /\ x <= r /\ x # 0
  BY <1>1 DEF Consumed
<1>3. i.rem - j.rem = x /\ ~(x > x + y) /\ (x + y) - x = y /\ x + y # 0
  BY <1>2 DEF Consumed
<1>4. CASE t.width = 0
  BY <1>4, Zenon DEF Left, Announces, LeftOver
<1>5. CASE t.width # 0
  <2>1. Announces(t, c \o d) = x + y /\ Announces(t, d) = y
    BY <1>1, <1>2, <1>5 DEF Announces
  <2>2. Left(i, j, t, x + y) = y
    BY <1>3, <1>5 DEF Left
  <2> QED  BY <1>3, <2>1, <2>2 DEF LeftOver
<1> QED  BY <1>4, <1>5

LEMMA MoreEntries ==
  ASSUME NEW t, NEW m, Entries(t, m), NEW n \in 1 .. Len(m), NEW acc,
         Begins(acc, m, n - 1), NEW size, t.width # 0 => size # 0
  PROVE  ~EntriesDone(t, size, acc)
<1>1. Len(m) \in Nat /\ (t.width = 0 => Len(m) = t.max)
  BY LenProperties DEF Entries, IsSeq
<1>2. Len(acc) = n - 1
  BY DEF Begins
<1>3. t.width = 0 => ~(Len(acc) >= t.max)
  BY <1>1, <1>2
<1> QED  BY <1>3 DEF EntriesDone

LEMMA EntriesGetStep ==
  ASSUME NEW t, NEW m, Entries(t, m), Loops, NEW n \in 1 .. Len(m), NEW le,
         NEW c \in Chunks, EntryGets(t, m, n, le, c), NEW d \in Chunks, EntriesGet(t, m, n + 1, le, d)
  PROVE  EntriesGet(t, m, n, le, c \o d)
<1>0. n \in Nat \ {0} /\ Len(m) \in Nat /\ (n + 1) - 1 = n /\ HasEntries(t)
  <2>1. Len(m) \in Nat /\ HasEntries(t)
    BY LenProperties DEF Entries, IsSeq
  <2> QED  BY <2>1
<1> SUFFICES ASSUME NEW i, NEW acc, Ready(i, le), Ahead(i, c \o d), Begins(acc, m, n - 1)
             PROVE  ReadNext(i, t, Announces(t, c \o d), acc)
                      = [i |-> Moved(i, Bytes(c \o d)), n |-> 0, v |-> m]
  BY Zenon DEF EntriesGet
<1> DEFINE j == Moved(i, Bytes(c))
           size == Announces(t, c \o d)
           g == Append(acc, m[n])
<1>1. /\ Ahead(i, c) /\ Bytes(c) <= i.rem /\ Ready(j, le) /\ Ahead(j, d)
      /\ Moved(j, Bytes(d)) = Moved(i, Bytes(c \o d))
  BY AheadSplit
<1>2. i \in Inputs /\ i.rem \in Nat /\ i.pos \in Nat /\ Bytes(c) \in Nat
  BY ReadyFields, ChunkType DEF Ready
<1>3. ReadEntry(i, t, acc) = Result(j, g) /\ Bytes(c) # 0
  BY <1>1, Zenon DEF EntryGets
<1>4. j.rem = i.rem - Bytes(c) /\ j.pos = i.pos + 8 * Bytes(c)
  BY <1>1, <1>2, MovedFields
<1>5. j.err = FALSE /\ j.stray = "no"
  BY <1>1, ReadyFields
<1>6. Begins(g, m, (n + 1) - 1)
  BY <1>0, BeginsNext
<1> HIDE DEF j, g
<1>7. Left(i, j, t, size) = Announces(t, d) /\ (t.width # 0 => size # 0)
  <2>1. Consumed(i, j, c)
    BY <1>1, <1>2, <1>3, <1>4 DEF Consumed
  <2>2. LeftOver(i, j, t, c, d)
    BY <2>1, SizeLeft
  <2> QED  BY <2>2, Zenon DEF LeftOver, size
<1> HIDE DEF size
<1>8. ~EntriesDone(t, size, acc)
  BY <1>7, MoreEntries
<1>9. j.pos # i.pos
  BY <1>2, <1>3, <1>4
<1>10. ReadNext(i, t, size, acc) = ReadNext(j, t, Left(i, j, t, size), g)
  <2>1. HasEntries(t) /\ Takes(i, t, acc, j, g)
    BY <1>0, <1>3, <1>5, <1>9 DEF Takes
  <2> QED  BY <1>8, <2>1, EntryTaken
<1>11. ReadNext(j, t, Announces(t, d), g) = [i |-> Moved(j, Bytes(d)), n |-> 0, v |-> m]
  BY <1>1, <1>6, Zenon DEF EntriesGet
<1> QED  BY <1>1, <1>7, <1>10, <1>11 DEF size

LEMMA EntriesMissStep ==
  ASSUME NEW t, NEW m, Entries(t, m), Loops, NEW n \in 1 .. Len(m), NEW le,
         NEW c \in Chunks, EntryGets(t, m, n, le, c), EntryMisses(t, m, n, le, c),
         NEW d \in Chunks, EntriesMiss(t, m, n + 1, le, d)
  PROVE  EntriesMiss(t, m, n, le, c \o d)
<1>0. n \in Nat \ {0} /\ Len(m) \in Nat /\ (n + 1) - 1 = n /\ HasEntries(t)
  <2>1. Len(m) \in Nat /\ HasEntries(t)
    BY LenProperties DEF Entries, IsSeq
  <2> QED  BY <2>1
<1> SUFFICES ASSUME NEW i, NEW acc, Ready(i, le), Short(i, c \o d), Begins(acc, m, n - 1)
             PROVE  ReadNext(i, t, Announces(t, c \o d), acc).i.err
  BY Zenon DEF EntriesMiss
<1> DEFINE j == Moved(i, Bytes(c))
           size == Announces(t, c \o d)
           g == Append(acc, m[n])
<1>1. Short(i, c) \/ (Ahead(i, c) /\ Ready(j, le) /\ Short(j, d))
  BY ShortSplit
<1>2. i \in Inputs /\ i.rem \in Nat /\ i.pos \in Nat /\ Bytes(c) \in Nat /\ Bytes(d) \in Nat
      /\ Bytes(c \o d) = Bytes(c) + Bytes(d)
  BY ReadyFields, ChunkType, ChunkConcat DEF Ready
<1>3. CASE Short(i, c)
  <2>1. Bytes(c) # 0
    BY <1>2, <1>3 DEF Short
  <2>2. t.width # 0 => size # 0
    BY <1>2, <2>1 DEF Announces
  <2> HIDE DEF size
  <2>3. ~EntriesDone(t, size, acc)
    BY <2>2, MoreEntries
  <2>4. ReadEntry(i, t, acc).i.err
    BY <1>3, Zenon DEF EntryMisses
  <2>5. ReadNext(i, t, size, acc).i = ReadEntry(i, t, acc).i
    BY <1>0, <2>3, <2>4, EntryFailed
  <2> QED  BY <2>4, <2>5 DEF size
<1>4. CASE Ahead(i, c) /\ Ready(j, le) /\ Short(j, d)
  <2>1. Bytes(c) <= i.rem
    BY <1>4 DEF Ahead
  <2>3. ReadEntry(i, t, acc) = Result(j, g) /\ Bytes(c) # 0
    BY <1>4, Zenon DEF EntryGets
  <2>4. j.rem = i.rem - Bytes(c) /\ j.pos = i.pos + 8 * Bytes(c)
    BY <1>2, <2>1, MovedFields
  <2>5. j.err = FALSE /\ j.stray = "no"
    BY <1>4, ReadyFields
  <2>6. Begins(g, m, (n + 1) - 1)
    BY <1>0, BeginsNext
  <2> HIDE DEF j, g
  <2>7. Left(i, j, t, size) = Announces(t, d) /\ (t.width # 0 => size # 0)
    <3>1. Consumed(i, j, c)
      BY <1>2, <2>1, <2>3, <2>4 DEF Consumed
    <3>2. LeftOver(i, j, t, c, d)
      BY <3>1, SizeLeft
    <3> QED  BY <3>2, Zenon DEF LeftOver, size
  <2> HIDE DEF size
  <2>8. ~EntriesDone(t, size, acc)
    BY <2>7, MoreEntries
  <2>9. j.pos # i.pos
    BY <1>2, <2>3, <2>4
  <2>10. ReadNext(i, t, size, acc) = ReadNext(j, t, Left(i, j, t, size), g)
    <3>1. HasEntries(t) /\ Takes(i, t, acc, j, g)
      BY <1>0, <2>3, <2>5, <2>9 DEF Takes
    <3> QED  BY <2>8, <3>1, EntryTaken
  <2>11. ReadNext(j, t, Announces(t, d), g).i.err
    BY <1>4, <2>6, Zenon DEF EntriesMiss
  <2> QED  BY <2>7, <2>10, <2>11 DEF size
<1> QED  BY <1>1, <1>3, <1>4

\* The entries from the n-th on, written by the type t with the values of v and
\* read by the type u with those of m.
EntriesCarried(t, v, u, m, n, le, tells, c) ==
  /\ RestPuts(t, v, n, le, c) /\ EntriesGet(u, m, n, le, c)
  /\ tells => EntriesMiss(u, m, n, le, c)

EntriesSettle(t, v, u, m, n, le, tells) ==
  RestRefuses(t, v, n, le) \/ \E c \in Chunks : EntriesCarried(t, v, u, m, n, le, tells, c)

EntryCarried(t, v, u, m, n, le, tells, c) ==
  /\ PartPuts(t, v, n, le, c) /\ EntryGets(u, m, n, le, c)
  /\ tells => EntryMisses(u, m, n, le, c)

EntrySettles(t, v, u, m, n, le, tells) ==
  PartRefuses(t, v, n, le) \/ \E c \in Chunks : EntryCarried(t, v, u, m, n, le, tells, c)

LEMMA EntriesSettled ==
  ASSUME NEW t, NEW v, NEW u, NEW m, NEW le, NEW tells, WriteLoops, Loops, Entries(u, m),
         Len(v) \in Nat, Len(m) = Len(v),
         \A n \in 1 .. Len(v) : PartPersists(t, v, n) /\ EntrySettles(t, v, u, m, n, le, tells)
  PROVE  EntriesSettle(t, v, u, m, 1, le, tells)
<1> DEFINE M == {n \in Nat : EntriesSettle(t, v, u, m, n, le, tells)}
<1>1. Len(v) + 1 \in M
  <2>1. <<>> \in Chunks /\ RestPuts(t, v, Len(v) + 1, le, <<>>)
    BY RestEmpty
  <2>2. EntriesGet(u, m, Len(m) + 1, le, <<>>) /\ EntriesMiss(u, m, Len(m) + 1, le, <<>>)
    BY EntriesEnd
  <2>3. EntriesCarried(t, v, u, m, Len(v) + 1, le, tells, <<>>)
    BY <2>1, <2>2, Zenon DEF EntriesCarried
  <2>4. EntriesSettle(t, v, u, m, Len(v) + 1, le, tells)
    BY <2>1, <2>3, Zenon DEF EntriesSettle
  <2> QED  BY <2>4
<1>2. ASSUME NEW n \in 1 .. Len(v), n + 1 \in M  PROVE n \in M
  <2>1. n \in 1 .. Len(m) /\ n \in Nat /\ n + 1 \in 1 .. Len(v) + 1
    OBVIOUS
  <2>2. EntriesSettle(t, v, u, m, n + 1, le, tells) /\ EntrySettles(t, v, u, m, n, le, tells)
    BY <1>2
  <2>3. RestPersists(t, v, n + 1)
    BY <2>1, RestPersistent
  <2>4. CASE PartRefuses(t, v, n, le)
    <3>1. RestRefuses(t, v, n, le)
      BY <2>3, <2>4, RefusalStep
    <3> QED  BY <2>1, <3>1, Zenon DEF EntriesSettle
  <2>5. ASSUME NEW c \in Chunks, EntryCarried(t, v, u, m, n, le, tells, c)
        PROVE  EntriesSettle(t, v, u, m, n, le, tells)
    <3>1. PartPuts(t, v, n, le, c) /\ EntryGets(u, m, n, le, c) /\ (tells => EntryMisses(u, m, n, le, c))
      BY <2>5, Zenon DEF EntryCarried
    <3>2. /\ \A d \in Chunks : RestPuts(t, v, n + 1, le, d) => RestPuts(t, v, n, le, c \o d)
          /\ RestRefuses(t, v, n + 1, le) => RestRefuses(t, v, n, le)
      BY <3>1, PutStep
    <3>3. CASE RestRefuses(t, v, n + 1, le)
      BY <3>2, <3>3, Zenon DEF EntriesSettle
    <3>4. ASSUME NEW d \in Chunks, EntriesCarried(t, v, u, m, n + 1, le, tells, d)
          PROVE  EntriesSettle(t, v, u, m, n, le, tells)
      <4>1. /\ RestPuts(t, v, n + 1, le, d) /\ EntriesGet(u, m, n + 1, le, d)
            /\ tells => EntriesMiss(u, m, n + 1, le, d)
        BY <3>4, Zenon DEF EntriesCarried
      <4>2. RestPuts(t, v, n, le, c \o d)
        BY <3>2, <4>1
      <4>3. EntriesGet(u, m, n, le, c \o d)
        BY <2>1, <3>1, <4>1, EntriesGetStep
      <4>4. tells => EntriesMiss(u, m, n, le, c \o d)
        BY <2>1, <3>1, <4>1, EntriesMissStep
      <4>5. EntriesCarried(t, v, u, m, n, le, tells, c \o d)
        BY <4>2, <4>3, <4>4, Zenon DEF EntriesCarried
      <4>6. c \o d \in Chunks
        BY ChunkConcat
      <4> QED  BY <4>5, <4>6, Zenon DEF EntriesSettle
    <3> QED  BY <2>2, <3>3, <3>4, Zenon DEF EntriesSettle
  <2> QED  BY <2>1, <2>2, <2>4, <2>5, Zenon DEF EntrySettles
<1> HIDE DEF M
<1>3. \A n \in 1 .. Len(v) + 1 : n \in M
  BY <1>1, <1>2, Downwards
<1>4. 1 \in 1 .. Len(v) + 1
  OBVIOUS
<1> QED  BY <1>3, <1>4 DEF M

\* A value that takes bytes from the body.
LEMMA Eaten ==
  ASSUME NEW q, NEW le, NEW c \in Chunks, Gets(q, le, c), Eats(q.reads), NEW i, Ready(i, le), Ahead(i, c)
  PROVE  Bytes(c) # 0
<1>1. Read(i, q.reads) = Result(Moved(i, Bytes(c)), q.meant)
  BY Zenon DEF Gets
<1>2. Read(i, q.reads).i = Moved(i, Bytes(c))
  BY <1>1 DEF Result
<1>3. Progress(i, Moved(i, Bytes(c)))
  <2>1. Backed(i)
    BY ReadyBacked
  <2>2. Progress(i, Read(i, q.reads).i)
    BY <2>1, Zenon DEF Eats
  <2> QED  BY <1>2, <2>2
<1>4. i \in Inputs /\ i.rem \in Nat /\ i.pos \in Nat /\ i.err = FALSE /\ Bytes(c) \in Nat /\ Bytes(c) <= i.rem
  BY ReadyFields, ChunkType DEF Ready, Ahead
<1>5. Moved(i, Bytes(c)).err = FALSE /\ Moved(i, Bytes(c)).pos = i.pos + 8 * Bytes(c)
  BY <1>4, MovedFields
<1> QED  BY <1>3, <1>4, <1>5 DEF Progress

\* What the laws say of one read.
Got(i, q, le, c) ==
  /\ Read(i, q.reads) = Result(Moved(i, Bytes(c)), q.meant)
  /\ Read(i, q.reads).i = Moved(i, Bytes(c)) /\ Read(i, q.reads).v = q.meant
  /\ Ready(Moved(i, Bytes(c)), le) /\ Moved(i, Bytes(c)).err = FALSE

LEMMA GotReady ==
  ASSUME NEW q, NEW le, NEW c \in Chunks, Gets(q, le, c), NEW i, Ready(i, le), Ahead(i, c)
  PROVE  Got(i, q, le, c)
<1>1. Read(i, q.reads) = Result(Moved(i, Bytes(c)), q.meant)
  BY Zenon DEF Gets
<1>2. Bytes(c) \in Nat /\ Bytes(c) <= i.rem
  BY ChunkType DEF Ahead
<1>3. Ready(Moved(i, Bytes(c)), le)
  BY <1>2, MovedReady
<1>4. Moved(i, Bytes(c)).err = FALSE
  BY <1>3, ReadyFields
<1> QED  BY <1>1, <1>3, <1>4 DEF Result, Got

LEMMA MissedShort ==
  ASSUME NEW q, NEW le, NEW c, Misses(q, le, c), Guarded(q.reads), NEW i, Ready(i, le), Short(i, c)
  PROVE  Read(i, q.reads).i.err
BY Zenon DEF Misses, Missed

\* A value and how it arrives, as a part of another one.
Part(type, reads, value, meant) == [type |-> type, reads |-> reads, value |-> value, meant |-> meant]

PartSettles(q, le, tells) ==
  /\ Settles(q, le) /\ Persists(q)
  /\ tells => Telling(q.reads, q.meant) /\ Guarded(q.reads)

LEMMA ElementSettles ==
  ASSUME NEW t, t.k = "array", NEW u, u.k = "array", NEW v, NEW m, NEW n, NEW le, NEW tells,
         NEW q, q = Part(t.elem, u.elem, v[n], m[n]), PartSettles(q, le, tells), Eats(u.elem)
  PROVE  PartPersists(t, v, n) /\ EntrySettles(t, v, u, m, n, le, tells)
<1>1. q.type = t.elem /\ q.reads = u.elem /\ q.value = v[n] /\ q.meant = m[n]
  BY DEF Part
<1>2. \A o : WritePart(o, t, v[n], n) = Write(o, q.type, q.value)
  BY <1>1 DEF WritePart
<1>3. \A i, acc : ReadEntry(i, u, acc) = Result(Read(i, q.reads).i, Append(acc, Read(i, q.reads).v))
  BY <1>1, Zenon DEF ReadEntry
<1>4. PartPersists(t, v, n)
  BY <1>2, Zenon DEF PartPersists, PartSettles, Persists
<1>5. CASE Refuses(q, le)
  <2>1. PartRefuses(t, v, n, le)
    BY <1>2, <1>5, Zenon DEF PartRefuses, Refuses
  <2> QED  BY <1>4, <2>1, Zenon DEF EntrySettles
<1>6. ASSUME NEW c \in Chunks, Puts(q, le, c), Gets(q, le, c), Telling(q.reads, q.meant) => Misses(q, le, c)
      PROVE  EntrySettles(t, v, u, m, n, le, tells)
  <2>1. PartPuts(t, v, n, le, c)
    BY <1>2, <1>6, Zenon DEF PartPuts, Puts
  <2>2. ASSUME NEW i, NEW acc, Ready(i, le), Ahead(i, c)
        PROVE  /\ ReadEntry(i, u, acc) = Result(Moved(i, Bytes(c)), Append(acc, m[n]))
               /\ Bytes(c) # 0
    <3>0. Got(i, q, le, c)
      BY <1>6, <2>2, GotReady
    <3>1. Read(i, q.reads).i = Moved(i, Bytes(c)) /\ Read(i, q.reads).v = q.meant
      BY <3>0, Zenon DEF Got
    <3>2. Bytes(c) # 0
      BY <1>1, <1>6, <2>2, Eaten
    <3> QED  BY <1>1, <1>3, <3>1, <3>2, Zenon
  <2>3. EntryGets(u, m, n, le, c)
    BY <2>2, Zenon DEF EntryGets
  <2>4. ASSUME tells, NEW i, NEW acc, Ready(i, le), Short(i, c)
        PROVE  ReadEntry(i, u, acc).i.err
    <3>1. Misses(q, le, c) /\ Guarded(q.reads)
      BY <1>6, <2>4, Zenon DEF PartSettles
    <3>2. Read(i, q.reads).i.err
      BY <2>4, <3>1, MissedShort
    <3>3. ReadEntry(i, u, acc).i = Read(i, q.reads).i
      BY <1>3 DEF Result
    <3> QED  BY <3>2, <3>3, Zenon
  <2>5. tells => EntryMisses(u, m, n, le, c)
    BY <2>4, Zenon DEF EntryMisses
  <2>6. EntryCarried(t, v, u, m, n, le, tells, c)
    BY <2>1, <2>3, <2>5, Zenon DEF EntryCarried
  <2> QED  BY <2>6, Zenon DEF EntrySettles
<1> QED  BY <1>4, <1>5, <1>6, Zenon DEF PartSettles, Settles

\* The entries of a map: pairs with distinct keys.
Pairs(m) ==
  /\ \A n \in 1 .. Len(m) : m[n] = <<m[n][1], m[n][2]>>
  /\ \A j, n \in 1 .. Len(m) : m[j][1] = m[n][1] => j = n

LEMMA NewKey ==
  ASSUME NEW m, Pairs(m), NEW l \in Nat, l = Len(m), NEW n \in 1 .. l, NEW acc, Begins(acc, m, n - 1)
  PROVE  ~(\E k \in DOMAIN acc : acc[k][1] = m[n][1])
<1>1. IsSeq(acc) /\ Len(acc) = n - 1 /\ \A k \in 1 .. n - 1 : acc[k] = m[k]
  BY DEF Begins
<1>2. DOMAIN acc = 1 .. n - 1
  BY <1>1, LenProperties DEF IsSeq
<1>3. ASSUME NEW k \in 1 .. n - 1, acc[k][1] = m[n][1]  PROVE FALSE
  <2>1. k \in 1 .. l /\ k # n
    OBVIOUS
  <2>2. m[k][1] = m[n][1]
    BY <1>1, <1>3
  <2> QED  BY <2>1, <2>2 DEF Pairs
<1> QED  BY <1>2, <1>3

\* Behind its key.
KeyWritten(o, t, v, n, k) == t.k = "map" /\ k = Write(o, t.key, v[n][1])

EntryPut(o, t, v, n, k) ==
  /\ k.err = FALSE => WritePart(o, t, v[n], n) = Write(k, t.val, v[n][2])
  /\ Faulty(k) => WritePart(o, t, v[n], n) = k

LEMMA EntryWritten ==
  ASSUME NEW t, NEW v, NEW n, NEW o, NEW k, KeyWritten(o, t, v, n, k)
  PROVE  EntryPut(o, t, v, n, k)
<1>0. t.k = "map" /\ k = Write(o, t.key, v[n][1])
  BY DEF KeyWritten
<1>1. WritePart(o, t, v[n], n) = WriteEntry(o, t, v[n])
  BY <1>0 DEF WritePart
<1>2. WriteEntry(o, t, v[n]) = IF k.err THEN k ELSE Write(k, t.val, v[n][2])
  BY <1>0, Zenon DEF WriteEntry
<1> QED  BY <1>1, <1>2, Zenon DEF Faulty, EntryPut

\* The key k and the value x that are read for an entry.
EntryParts(i, u, k, x) == u.k = "map" /\ k = Read(i, u.key) /\ x = Read(k.i, u.val)

EntryOutcome(i, u, acc, k, x) ==
  /\ k.i.err => ReadEntry(i, u, acc) = k
  /\ k.i.err = FALSE => ReadEntry(i, u, acc).i = x.i
  /\ k.i.err = FALSE /\ ~(\E l \in DOMAIN acc : acc[l][1] = k.v) =>
       ReadEntry(i, u, acc) = Result(x.i, Append(acc, <<k.v, x.v>>))

LEMMA EntryFound ==
  ASSUME NEW u, NEW i, NEW acc, NEW k, NEW x, EntryParts(i, u, k, x)
  PROVE  EntryOutcome(i, u, acc, k, x)
<1>1. u.k = "map" /\ u.k # "array" /\ k = Read(i, u.key) /\ x = Read(k.i, u.val)
  BY DEF EntryParts
<1>2. ReadEntry(i, u, acc)
        = IF k.i.err THEN k
          ELSE Result(x.i, IF \E l \in DOMAIN acc : acc[l][1] = k.v THEN acc ELSE Append(acc, <<k.v, x.v>>))
  BY <1>1, Zenon DEF ReadEntry
<1>3. \A y : Result(x.i, y).i = x.i
  BY DEF Result
<1>4. CASE k.i.err
  BY <1>2, <1>4, Zenon DEF EntryOutcome
<1>5. CASE ~k.i.err
  <2>1. ReadEntry(i, u, acc)
          = Result(x.i, IF \E l \in DOMAIN acc : acc[l][1] = k.v THEN acc ELSE Append(acc, <<k.v, x.v>>))
    BY <1>2, <1>5, Zenon
  <2> QED  BY <1>3, <1>5, <2>1, Zenon DEF EntryOutcome
<1> QED  BY <1>4, <1>5, Zenon DEF EntryOutcome

\* The entries of a map, of a key a and a value b.
MapEntry(t, u, v, m, n, a, b) ==
  /\ t.k = "map" /\ u.k = "map"
  /\ a = Part(t.key, u.key, v[n][1], m[n][1]) /\ b = Part(t.val, u.val, v[n][2], m[n][2])

LEMMA EntryPersists ==
  ASSUME NEW t, NEW u, NEW v, NEW m, NEW n, NEW a, NEW b, MapEntry(t, u, v, m, n, a, b), Persists(a)
  PROVE  PartPersists(t, v, n)
<1> SUFFICES ASSUME NEW o, Faulty(o)  PROVE Faulty(WritePart(o, t, v[n], n))
  BY Zenon DEF PartPersists
<1>1. a.type = t.key /\ a.value = v[n][1] /\ t.k = "map"
  BY DEF MapEntry, Part
<1>2. PICK k : KeyWritten(o, t, v, n, k)
  BY <1>1, Zenon DEF KeyWritten
<1>3. Faulty(k)
  BY <1>1, <1>2, Zenon DEF Persists, KeyWritten
<1>4. WritePart(o, t, v[n], n) = k
  <2>1. EntryPut(o, t, v, n, k)
    BY <1>2, EntryWritten
  <2> QED  BY <1>3, <2>1, Zenon DEF EntryPut
<1> QED  BY <1>3, <1>4

LEMMA EntryPuts ==
  ASSUME NEW t, NEW u, NEW v, NEW m, NEW n, NEW a, NEW b, MapEntry(t, u, v, m, n, a, b), NEW le
  PROVE  /\ Refuses(a, le) => PartRefuses(t, v, n, le)
         /\ \A c \in Chunks : Puts(a, le, c) =>
              /\ Refuses(b, le) => PartRefuses(t, v, n, le)
              /\ \A d \in Chunks : Puts(b, le, d) => PartPuts(t, v, n, le, c \o d)
<1>1. /\ a.type = t.key /\ a.value = v[n][1] /\ t.k = "map"
      /\ b.type = t.val /\ b.value = v[n][2]
  BY DEF MapEntry, Part
<1>2. ASSUME Refuses(a, le), NEW o, Clean(o, le)  PROVE Faulty(WritePart(o, t, v[n], n))
  <2>1. PICK k : KeyWritten(o, t, v, n, k)
    BY <1>1, Zenon DEF KeyWritten
  <2>2. Faulty(k)
    BY <1>1, <1>2, <2>1, Zenon DEF Refuses, KeyWritten
  <2>3. WritePart(o, t, v[n], n) = k
    <3>1. EntryPut(o, t, v, n, k)
      BY <2>1, EntryWritten
    <3> QED  BY <2>2, <3>1, Zenon DEF EntryPut
  <2> QED  BY <2>2, <2>3
<1>3. ASSUME NEW c \in Chunks, Puts(a, le, c), NEW o, Clean(o, le)
      PROVE  /\ Refuses(b, le) => Faulty(WritePart(o, t, v[n], n))
             /\ \A d \in Chunks : Puts(b, le, d) => WritePart(o, t, v[n], n) = WriteRaw(o, c \o d)
  <2>1. Write(o, t.key, v[n][1]) = WriteRaw(o, c)
    BY <1>1, <1>3, Zenon DEF Puts
  <2>2. Clean(WriteRaw(o, c), le) /\ WriteRaw(o, c).err = FALSE /\ o \in Outputs
    <3>1. Clean(WriteRaw(o, c), le) /\ o \in Outputs
      BY <1>3, CleanWritten, CleanFields
    <3> QED  BY <3>1, CleanFields
  <2>3. WritePart(o, t, v[n], n) = Write(WriteRaw(o, c), t.val, v[n][2])
    <3>1. PICK k : KeyWritten(o, t, v, n, k) /\ k = WriteRaw(o, c)
      BY <1>1, <2>1, Zenon DEF KeyWritten
    <3>2. k.err = FALSE
      BY <2>2, <3>1
    <3>3. WritePart(o, t, v[n], n) = Write(k, t.val, v[n][2])
      <4>1. EntryPut(o, t, v, n, k)
        BY <3>1, EntryWritten
      <4> QED  BY <3>2, <4>1, Zenon DEF EntryPut
    <3> QED  BY <3>1, <3>3
  <2>4. ASSUME Refuses(b, le)  PROVE Faulty(WritePart(o, t, v[n], n))
    BY <1>1, <2>2, <2>3, <2>4, Zenon DEF Refuses
  <2>5. ASSUME NEW d \in Chunks, Puts(b, le, d)  PROVE WritePart(o, t, v[n], n) = WriteRaw(o, c \o d)
    <3>1. Write(WriteRaw(o, c), t.val, v[n][2]) = WriteRaw(WriteRaw(o, c), d)
      BY <1>1, <2>2, <2>5, Zenon DEF Puts
    <3>2. c \in Seq(Bit) /\ d \in Seq(Bit)
      BY <1>3, ChunkType
    <3>3. WriteRaw(WriteRaw(o, c), d) = WriteRaw(o, c \o d)
      BY <2>2, <3>2, WrittenTwice
    <3> QED  BY <2>3, <3>1, <3>3
  <2> QED  BY <2>4, <2>5
<1>4. Refuses(a, le) => PartRefuses(t, v, n, le)
  BY <1>2, Zenon DEF PartRefuses
<1>5. ASSUME NEW c \in Chunks, Puts(a, le, c)
      PROVE  /\ Refuses(b, le) => PartRefuses(t, v, n, le)
             /\ \A d \in Chunks : Puts(b, le, d) => PartPuts(t, v, n, le, c \o d)
  <2>1. Refuses(b, le) => PartRefuses(t, v, n, le)
    BY <1>3, <1>5, Zenon DEF PartRefuses
  <2>2. \A d \in Chunks : Puts(b, le, d) => PartPuts(t, v, n, le, c \o d)
    BY <1>3, <1>5, Zenon DEF PartPuts
  <2> QED  BY <2>1, <2>2
<1> QED  BY <1>4, <1>5

LEMMA EntryReads ==
  ASSUME NEW t, NEW u, NEW v, NEW m, Pairs(m), NEW l \in Nat, l = Len(m), NEW n \in 1 .. l, NEW a, NEW b,
         MapEntry(t, u, v, m, n, a, b), Eats(u.key),
         NEW le, NEW c \in Chunks, Gets(a, le, c), NEW d \in Chunks, Gets(b, le, d)
  PROVE  EntryGets(u, m, n, le, c \o d)
<1>1. /\ a.reads = u.key /\ a.meant = m[n][1] /\ u.k = "map"
      /\ b.reads = u.val /\ b.meant = m[n][2]
  BY DEF MapEntry, Part
<1>2. m[n] = <<m[n][1], m[n][2]>>
  BY Zenon DEF Pairs
<1>3. ASSUME NEW i, NEW acc, Ready(i, le), Ahead(i, c \o d), Begins(acc, m, n - 1)
      PROVE  /\ ReadEntry(i, u, acc) = Result(Moved(i, Bytes(c \o d)), Append(acc, m[n]))
             /\ Bytes(c \o d) # 0
  <2> DEFINE j == Moved(i, Bytes(c))
  <2>1. /\ Ahead(i, c) /\ Ready(j, le) /\ Ahead(j, d)
        /\ Moved(j, Bytes(d)) = Moved(i, Bytes(c \o d))
    BY <1>3, AheadSplit
  <2> HIDE DEF j
  <2>2. PICK k : k = Read(i, u.key)
    OBVIOUS
  <2>3. PICK x : x = Read(k.i, u.val) /\ EntryParts(i, u, k, x)
    BY <1>1, <2>2, Zenon DEF EntryParts
  <2>9. EntryOutcome(i, u, acc, k, x)
    BY <2>3, EntryFound
  <2>4. k.i = j /\ k.v = m[n][1] /\ k.i.err = FALSE
    <3>1. Got(i, a, le, c)
      BY <1>3, <2>1, GotReady
    <3> QED  BY <1>1, <2>2, <3>1, Zenon DEF Got, j
  <2>5. x.i = Moved(j, Bytes(d)) /\ x.v = m[n][2]
    <3>1. Got(j, b, le, d)
      BY <2>1, GotReady
    <3> QED  BY <1>1, <2>3, <2>4, <3>1, Zenon DEF Got
  <2>6. ~(\E y \in DOMAIN acc : acc[y][1] = k.v)
    BY <1>3, <2>4, NewKey
  <2>7. ReadEntry(i, u, acc) = Result(x.i, Append(acc, <<k.v, x.v>>))
    BY <2>4, <2>6, <2>9, Zenon DEF EntryOutcome
  <2>8. Bytes(c \o d) # 0
    <3>1. Bytes(c) # 0
      BY <1>1, <1>3, <2>1, Eaten
    <3>2. Bytes(c) \in Nat /\ Bytes(d) \in Nat /\ Bytes(c \o d) = Bytes(c) + Bytes(d)
      BY ChunkType, ChunkConcat
    <3> QED  BY <3>1, <3>2
  <2> QED  BY <1>2, <2>1, <2>4, <2>5, <2>7, <2>8
<1> QED  BY <1>3, Zenon DEF EntryGets

LEMMA EntryCut ==
  ASSUME NEW t, NEW u, NEW v, NEW m, NEW n, NEW a, NEW b, MapEntry(t, u, v, m, n, a, b),
         NEW le, NEW c \in Chunks, Gets(a, le, c), Misses(a, le, c), Guarded(a.reads),
         NEW d \in Chunks, Misses(b, le, d), Guarded(b.reads)
  PROVE  EntryMisses(u, m, n, le, c \o d)
<1>1. a.reads = u.key /\ u.k = "map" /\ b.reads = u.val
  BY DEF MapEntry, Part
<1>2. ASSUME NEW i, NEW acc, Ready(i, le), Short(i, c \o d)
      PROVE  ReadEntry(i, u, acc).i.err
  <2> DEFINE j == Moved(i, Bytes(c))
  <2>1. Short(i, c) \/ (Ahead(i, c) /\ Ready(j, le) /\ Short(j, d))
    BY <1>2, ShortSplit
  <2> HIDE DEF j
  <2>2. PICK k : k = Read(i, u.key)
    OBVIOUS
  <2>3. PICK x : x = Read(k.i, u.val) /\ EntryParts(i, u, k, x)
    BY <1>1, <2>2, Zenon DEF EntryParts
  <2>9. EntryOutcome(i, u, acc, k, x)
    BY <2>3, EntryFound
  <2>4. CASE Short(i, c)
    <3>1. Read(i, a.reads).i.err
      BY <1>2, <2>4, MissedShort
    <3>2. k.i.err
      BY <1>1, <2>2, <3>1
    <3>3. ReadEntry(i, u, acc) = k
      BY <2>9, <3>2, Zenon DEF EntryOutcome
    <3> QED  BY <3>2, <3>3
  <2>5. CASE Ahead(i, c) /\ Ready(j, le) /\ Short(j, d)
    <3>1. Got(i, a, le, c)
      BY <1>2, <2>5, GotReady
    <3>2. k.i = j /\ k.i.err = FALSE
      BY <1>1, <2>2, <3>1, Zenon DEF Got, j
    <3>3. Read(j, b.reads).i.err
      BY <2>5, MissedShort
    <3>4. x.i.err
      BY <1>1, <2>3, <3>2, <3>3, Zenon
    <3>5. ReadEntry(i, u, acc).i = x.i
      BY <2>9, <3>2, Zenon DEF EntryOutcome
    <3> QED  BY <3>4, <3>5, Zenon
  <2> QED  BY <2>1, <2>4, <2>5
<1> QED  BY <1>2, Zenon DEF EntryMisses

LEMMA MapEntrySettles ==
  ASSUME NEW t, NEW u, NEW v, NEW m, Pairs(m), NEW l \in Nat, l = Len(m), NEW n \in 1 .. l, NEW a, NEW b,
         MapEntry(t, u, v, m, n, a, b), NEW le, NEW tells,
         PartSettles(a, le, tells), PartSettles(b, le, tells), Eats(u.key)
  PROVE  PartPersists(t, v, n) /\ EntrySettles(t, v, u, m, n, le, tells)
<1>0. PartPersists(t, v, n)
  <2>1. Persists(a)
    BY DEF PartSettles
  <2> QED  BY <2>1, EntryPersists
<1>1. /\ Refuses(a, le) => PartRefuses(t, v, n, le)
      /\ \A c \in Chunks : Puts(a, le, c) =>
           /\ Refuses(b, le) => PartRefuses(t, v, n, le)
           /\ \A d \in Chunks : Puts(b, le, d) => PartPuts(t, v, n, le, c \o d)
  BY EntryPuts
<1>2. tells => Telling(a.reads, a.meant) /\ Guarded(a.reads) /\ Telling(b.reads, b.meant) /\ Guarded(b.reads)
  BY Zenon DEF PartSettles
<1>3. CASE Refuses(a, le)
  BY <1>0, <1>1, <1>3, Zenon DEF EntrySettles
<1>4. ASSUME NEW c \in Chunks, Puts(a, le, c), Gets(a, le, c), Telling(a.reads, a.meant) => Misses(a, le, c)
      PROVE  EntrySettles(t, v, u, m, n, le, tells)
  <2>1. CASE Refuses(b, le)
    BY <1>1, <1>4, <2>1, Zenon DEF EntrySettles
  <2>2. ASSUME NEW d \in Chunks, Puts(b, le, d), Gets(b, le, d), Telling(b.reads, b.meant) => Misses(b, le, d)
        PROVE  EntrySettles(t, v, u, m, n, le, tells)
    <3>1. PartPuts(t, v, n, le, c \o d)
      BY <1>1, <1>4, <2>2
    <3>2. EntryGets(u, m, n, le, c \o d)
      BY <1>4, <2>2, EntryReads
    <3>3. ASSUME tells  PROVE EntryMisses(u, m, n, le, c \o d)
      <4>1. Misses(a, le, c) /\ Guarded(a.reads) /\ Misses(b, le, d) /\ Guarded(b.reads)
        BY <1>2, <1>4, <2>2, <3>3, Zenon
      <4> QED  BY <1>4, <4>1, EntryCut
    <3>4. EntryCarried(t, v, u, m, n, le, tells, c \o d)
      BY <3>1, <3>2, <3>3, Zenon DEF EntryCarried
    <3>5. c \o d \in Chunks
      BY ChunkConcat
    <3> QED  BY <3>4, <3>5, Zenon DEF EntrySettles
  <2>3. Refuses(b, le) \/ \E d \in Chunks : Puts(b, le, d) /\ Gets(b, le, d)
                                             /\ (Telling(b.reads, b.meant) => Misses(b, le, d))
    BY Zenon DEF PartSettles, Settles
  <2> QED  BY <2>1, <2>2, <2>3
<1>5. Refuses(a, le) \/ \E c \in Chunks : Puts(a, le, c) /\ Gets(a, le, c)
                                           /\ (Telling(a.reads, a.meant) => Misses(a, le, c))
  BY Zenon DEF PartSettles, Settles
<1> QED  BY <1>0, <1>3, <1>4, <1>5

\* An array or a map behind its length field, where s is the length that has
\* been read and r what the loop makes of it.
EntriesOutcome(i, u, s, r) ==
  /\ s.i.err = FALSE =>
       ReadOverload(i, u) = Result([r.i EXCEPT !.err = r.i.err \/ r.n # 0 \/ ~Fits(u, Len(r.v))], r.v)
  /\ s.i.err = TRUE => ReadOverload(i, u).i.err

ReadAt(i, u, s, r) == s = ReadNumber(AlignIn(i), u.width, TRUE) /\ r = ReadNext(s.i, u, s.n, <<>>)

LEMMA ErrorFlag ==
  ASSUME NEW j \in Inputs, NEW x, x = TRUE
  PROVE  [j EXCEPT !.err = x].err
<1>1. "err" \in DOMAIN j
  BY DEF Inputs
<1> QED  BY <1>1

LEMMA EntriesRun ==
  ASSUME NEW i, NEW u, HasEntries(u), NEW s, s.i \in Inputs, NEW r, ReadAt(i, u, s, r)
  PROVE  EntriesOutcome(i, u, s, r)
<1>0. s = ReadNumber(AlignIn(i), u.width, TRUE) /\ r = ReadNext(s.i, u, s.n, <<>>)
  BY DEF ReadAt
<1>1. CASE u.k = "array"
  <2>1. ReadOverload(i, u) = ReadArray(i, u)
    BY <1>1, ContainerOverloads
  <2>2. ReadArray(i, u) = IF s.i.err THEN Result(s.i, <<>>)
                          ELSE Result([r.i EXCEPT !.err = r.i.err \/ r.n # 0 \/ ~Fits(u, Len(r.v))], r.v)
    BY <1>0, Zenon DEF ReadArray
  <2>3. Result(s.i, <<>>).i = s.i
    BY DEF Result
  <2>4. ASSUME s.i.err = TRUE  PROVE ReadOverload(i, u).i.err
    <3>1. ReadOverload(i, u) = Result(s.i, <<>>)
      BY <2>1, <2>2, <2>4, Zenon
    <3> QED  BY <2>3, <2>4, <3>1
  <2>5. ASSUME s.i.err = FALSE
        PROVE  ReadOverload(i, u)
                 = Result([r.i EXCEPT !.err = r.i.err \/ r.n # 0 \/ ~Fits(u, Len(r.v))], r.v)
    BY <2>1, <2>2, <2>5, Zenon
  <2> QED  BY <2>4, <2>5, Zenon DEF EntriesOutcome
<1>2. CASE u.k = "map"
  <2>1. ReadOverload(i, u) = ReadMap(i, u)
    BY <1>2, ContainerOverloads
  <2> DEFINE a == [i |-> s.i, n |-> s.n, v |-> <<>>]
             b == IF s.i.err THEN a ELSE r
  <2>2. ReadMap(i, u) = Result([b.i EXCEPT !.err = b.i.err \/ b.n # 0 \/ ~Fits(u, Len(b.v))], b.v)
    BY <1>0, Zenon DEF ReadMap
  <2>3. a.i = s.i
    OBVIOUS
  <2> HIDE DEF a
  <2>4. (s.i.err = TRUE => b.i = s.i) /\ (s.i.err = FALSE => b = r)
    BY <2>3, Zenon
  <2> HIDE DEF b
  <2>5. ASSUME s.i.err = TRUE  PROVE ReadOverload(i, u).i.err
    <3> DEFINE x == b.n # 0 \/ ~Fits(u, Len(b.v))
               y == b.v
    <3>1. ReadMap(i, u) = Result([s.i EXCEPT !.err = s.i.err \/ x], y)
      BY <2>2, <2>4, <2>5, Zenon
    <3> HIDE DEF x, y
    <3>2. (s.i.err \/ x) = TRUE
      BY <2>5, Zenon
    <3>3. ReadMap(i, u) = Result([s.i EXCEPT !.err = TRUE], y)
      BY <3>1, <3>2, Zenon
    <3>4. [s.i EXCEPT !.err = TRUE].err
      BY ErrorFlag
    <3>5. ReadMap(i, u).i = [s.i EXCEPT !.err = TRUE]
      BY <3>3 DEF Result
    <3> QED  BY <2>1, <3>4, <3>5, Zenon
  <2>6. ASSUME s.i.err = FALSE
        PROVE  ReadOverload(i, u)
                 = Result([r.i EXCEPT !.err = r.i.err \/ r.n # 0 \/ ~Fits(u, Len(r.v))], r.v)
    BY <2>1, <2>2, <2>4, <2>6, Zenon
  <2> QED  BY <2>5, <2>6, Zenon DEF EntriesOutcome
<1> QED  BY <1>1, <1>2 DEF HasEntries

LEMMA EntriesFound ==
  ASSUME NEW i, NEW le, Ready(i, le), NEW u, HasEntries(u), NEW m,
         u.width \in {0, 1, 2, 4}, Fits(u, Len(m)),
         NEW c \in Chunks, EntriesGet(u, m, 1, le, c), Frames(u.width, c), Ahead(i, Framed(u.width, c, le))
  PROVE  ReadOverload(i, u) = Result(Moved(i, Bytes(Framed(u.width, c, le))), m)
<1>1. PICK s, r : ReadAt(i, u, s, r)
  BY Zenon DEF ReadAt
<1>2. s = ReadNumber(AlignIn(i), u.width, TRUE) /\ r = ReadNext(s.i, u, s.n, <<>>)
  BY <1>1, Zenon DEF ReadAt
<1> DEFINE j == Moved(i, u.width)
<1>3. Headed(s, i, u.width, c, le)
  <2>1. u.width # 0 \/ TRUE = TRUE
    OBVIOUS
  <2>2. Headed(ReadNumber(AlignIn(i), u.width, TRUE), i, u.width, c, le)
    BY <2>1, FrameRead
  <2> QED  BY <1>2, <2>2
<1>4. /\ s.i = j /\ s.n = Announces(u, c) /\ Ready(j, le) /\ Ahead(j, c)
      /\ Moved(j, Bytes(c)) = Moved(i, Bytes(Framed(u.width, c, le)))
  BY <1>3 DEF Headed, Announces
<1> HIDE DEF j
<1>5. s.i \in Inputs /\ s.i.err = FALSE
  BY <1>4, ReadyFields DEF Ready
<1>6. Begins(<<>>, m, 1 - 1)
  <2>1. 1 - 1 = 0
    OBVIOUS
  <2> QED  BY <2>1, BeginsEmpty
<1>7. r = [i |-> Moved(j, Bytes(c)), n |-> 0, v |-> m]
  BY <1>2, <1>4, <1>6, Zenon DEF EntriesGet
<1>8. EntriesOutcome(i, u, s, r)
  BY <1>1, <1>5, EntriesRun
<1>9. ReadOverload(i, u) = Result([r.i EXCEPT !.err = r.i.err \/ r.n # 0 \/ ~Fits(u, Len(r.v))], r.v)
  BY <1>5, <1>8, Zenon DEF EntriesOutcome
<1>10. r.i = Moved(j, Bytes(c)) /\ r.n = 0 /\ r.v = m
  BY <1>7
<1>11. r.i \in Inputs /\ r.i.err = FALSE
  <2>1. Bytes(c) \in Nat /\ Bytes(c) <= j.rem
    BY <1>4, ChunkType DEF Ahead
  <2>2. Ready(Moved(j, Bytes(c)), le)
    BY <1>4, <2>1, MovedReady
  <2> QED  BY <1>10, <2>2, ReadyFields DEF Ready
<1>12. (r.i.err \/ r.n # 0 \/ ~Fits(u, Len(r.v))) = FALSE
  BY <1>10, <1>11, Zenon
<1>13. [r.i EXCEPT !.err = FALSE] = r.i
  BY <1>11 DEF Inputs
<1>14. ReadOverload(i, u) = Result(r.i, r.v)
  BY <1>9, <1>12, <1>13, Zenon
<1> QED  BY <1>4, <1>10, <1>14

\* A reader of a length field, if there is one, that ends in it or has less
\* ahead than it says.
CutOff(s, i, width, c, le) ==
  \/ s.i = Fail(i)
  \/ /\ s = [i |-> Moved(i, width), n |-> IF width = 0 THEN 0 ELSE Bytes(c)]
     /\ Ready(Moved(i, width), le) /\ Short(Moved(i, width), c)

LEMMA FrameCut ==
  ASSUME NEW i, NEW le, Ready(i, le), NEW width \in {0, 1, 2, 4}, NEW c \in Chunks, Frames(width, c),
         Short(i, Framed(width, c, le)), NEW s, s = ReadNumber(AlignIn(i), width, TRUE)
  PROVE  CutOff(s, i, width, c, le)
<1>1. CASE width = 0
  <2>1. AlignIn(i) = i /\ i.err = FALSE /\ i \in Inputs
    BY ReadyFields, AlignedReader DEF Ready
  <2>2. ReadNumber(i, width, TRUE) = [i |-> [i EXCEPT !.err = i.err \/ ~TRUE], n |-> 0]
    BY <1>1, Zenon DEF ReadNumber
  <2>3. (i.err \/ ~TRUE) = FALSE
    BY <2>1, Zenon
  <2>4. [i EXCEPT !.err = FALSE] = i
    BY <2>1 DEF Inputs
  <2>5. s = [i |-> i, n |-> 0]
    BY <2>1, <2>2, <2>3, <2>4, Zenon
  <2>6. Moved(i, width) = i
    BY <1>1, <2>1, MovedNowhere
  <2>7. Short(i, c)
    BY <1>1 DEF Framed
  <2>8. s = [i |-> Moved(i, width), n |-> IF width = 0 THEN 0 ELSE Bytes(c)]
    BY <1>1, <2>5, <2>6
  <2> QED  BY <2>6, <2>7, <2>8, Zenon DEF CutOff
<1>2. CASE width # 0
  <2>1. width \in {1, 2, 4} /\ Holds(width, Bytes(c))
    BY <1>2 DEF Frames
  <2>2. PICK p : p = TRUE
    OBVIOUS
  <2>3. \/ ReadNumber(AlignIn(i), width, p).i = Fail(i)
        \/ /\ ReadNumber(AlignIn(i), width, p) = [i |-> Moved(i, width), n |-> Bytes(c)]
           /\ Ready(Moved(i, width), le) /\ Short(Moved(i, width), c)
    BY <2>1, FrameShort
  <2>4. (IF width = 0 THEN 0 ELSE Bytes(c)) = Bytes(c)
    BY <1>2
  <2> QED  BY <2>2, <2>3, <2>4, Zenon DEF CutOff
<1> QED  BY <1>1, <1>2

LEMMA EntriesLost ==
  ASSUME NEW i, NEW le, Ready(i, le), NEW u, HasEntries(u), EntryType(u), u.max \in Nat, Loops,
         NEW m, u.width \in {0, 1, 2, 4},
         NEW c \in Chunks, EntriesMiss(u, m, 1, le, c), Frames(u.width, c), Short(i, Framed(u.width, c, le))
  PROVE  ReadOverload(i, u).i.err
<1>0. Backed(i) /\ i \in Inputs
  BY ReadyBacked DEF Ready
<1>1. PICK s, r : ReadAt(i, u, s, r)
  BY Zenon DEF ReadAt
<1>2. s = ReadNumber(AlignIn(i), u.width, TRUE) /\ r = ReadNext(s.i, u, s.n, <<>>)
  BY <1>1, Zenon DEF ReadAt
<1>3. Onward(i, s.i) /\ Onward(i, r.i)
  <2>1. EntriesRead(i, u, ReadNext(ReadNumber(AlignIn(i), u.width, TRUE).i, u, ReadNumber(AlignIn(i), u.width, TRUE).n, <<>>))
    BY <1>0, EntriesReadStay, Zenon
  <2> QED  BY <1>2, <2>1, Zenon DEF EntriesRead
<1>4. s.i \in Inputs /\ r.i \in Inputs /\ s.i.err \in BOOLEAN
  BY <1>3, BackedFields DEF Onward
<1>5. EntriesOutcome(i, u, s, r)
  BY <1>1, <1>4, EntriesRun
<1>6. Begins(<<>>, m, 1 - 1)
  <2>1. 1 - 1 = 0
    OBVIOUS
  <2> QED  BY <2>1, BeginsEmpty
<1>7. s.i.err = TRUE \/ r.i.err
  <2>1. CutOff(s, i, u.width, c, le)
    BY <1>2, FrameCut
  <2>2. CASE s.i = Fail(i)
    BY <1>0, <2>2, FailKept
  <2>3. CASE /\ s = [i |-> Moved(i, u.width), n |-> IF u.width = 0 THEN 0 ELSE Bytes(c)]
             /\ Ready(Moved(i, u.width), le) /\ Short(Moved(i, u.width), c)
    <3> DEFINE j == Moved(i, u.width)
    <3>1. s.i = j /\ s.n = Announces(u, c) /\ Ready(j, le) /\ Short(j, c)
      BY <2>3 DEF Announces
    <3> HIDE DEF j
    <3>2. r.i.err
      BY <1>2, <1>6, <3>1, Zenon DEF EntriesMiss
    <3> QED  BY <3>2
  <2> QED  BY <2>1, <2>2, <2>3, Zenon DEF CutOff
<1>8. CASE s.i.err = TRUE
  BY <1>5, <1>8, Zenon DEF EntriesOutcome
<1>9. CASE s.i.err = FALSE
  <2>1. ReadOverload(i, u) = Result([r.i EXCEPT !.err = r.i.err \/ r.n # 0 \/ ~Fits(u, Len(r.v))], r.v)
    BY <1>5, <1>9, Zenon DEF EntriesOutcome
  <2>2. r.i.err
    BY <1>7, <1>9
  <2>3. (r.i.err \/ r.n # 0 \/ ~Fits(u, Len(r.v))) = TRUE
    BY <2>2, Zenon
  <2>4. ReadOverload(i, u).i = [r.i EXCEPT !.err = TRUE]
    <3>1. ReadOverload(i, u) = Result([r.i EXCEPT !.err = TRUE], r.v)
      BY <2>1, <2>3, Zenon
    <3> QED  BY <3>1 DEF Result
  <2>5. [r.i EXCEPT !.err = TRUE].err
    BY <1>4, ErrorFlag
  <2> QED  BY <2>4, <2>5, Zenon
<1> QED  BY <1>4, <1>8, <1>9

\* The content of an array or a map, behind the length field.
ContentOf(o, t, v) ==
  WriteNext([Opened(AlignOut(o), t.width) EXCEPT !.err = @ \/ ~Fits(t, Len(v))], t, v, 1)

\* What is made of the content d: the field is closed, but for an error in a map.
Finishes(f, d, width) == (d.err = FALSE => f = Closed(d, width)) /\ (Faulty(d) => Faulty(f))

LEMMA ClosedFaulty ==
  ASSUME NEW d, Faulty(d), NEW width
  PROVE  Faulty(Closed(d, width)) /\ Faulty(Opened(d, width))
<1>1. CASE width = 0
  BY <1>1 DEF Closed, Opened
<1>2. CASE width # 0
  <2>1. Closed(d, width) = CloseField(d, width) /\ Opened(d, width) = OpenField(d, width)
    BY <1>2 DEF Closed, Opened
  <2> QED  BY <2>1, FaultyField
<1> QED  BY <1>1, <1>2

LEMMA ContainerFinishes ==
  ASSUME NEW t, HasEntries(t), NEW o, NEW v
  PROVE  Finishes(WriteOverload(o, t, v), ContentOf(o, t, v), t.width)
<1> DEFINE s == Opened(AlignOut(o), t.width)
<1>1. PICK d : d = ContentOf(o, t, v)
  OBVIOUS
<1>2. d = WriteNext([s EXCEPT !.err = s.err \/ ~Fits(t, Len(v))], t, v, 1)
  BY <1>1, Zenon DEF ContentOf
<1>3. Faulty(d) => Faulty(Closed(d, t.width))
  BY ClosedFaulty
<1>4. CASE t.k = "array"
  <2>1. WriteOverload(o, t, v) = WriteArray(o, t, v)
    BY <1>4, ContainerOverloads
  <2>2. WriteArray(o, t, v) = Closed(WriteNext([s EXCEPT !.err = s.err \/ ~Fits(t, Len(v))], t, v, 1), t.width)
    BY Zenon DEF WriteArray
  <2>3. WriteOverload(o, t, v) = Closed(d, t.width)
    BY <1>2, <2>1, <2>2, Zenon
  <2> QED  BY <1>1, <1>3, <2>3, Zenon DEF Finishes
<1>5. CASE t.k = "map"
  <2>1. WriteOverload(o, t, v) = WriteMap(o, t, v)
    BY <1>5, ContainerOverloads
  <2>2. WriteMap(o, t, v) = IF v # <<>> /\ d.err THEN d ELSE Closed(d, t.width)
    BY <1>2, Zenon DEF WriteMap
  <2> QED  BY <1>1, <1>3, <2>1, <2>2, Zenon DEF Finishes
<1> QED  BY <1>4, <1>5 DEF HasEntries

LEMMA ContainerPersists ==
  ASSUME NEW t, HasEntries(t), NEW v, RestPersists(t, v, 1), NEW o, Faulty(o)
  PROVE  Faulty(WriteOverload(o, t, v))
<1>1. PICK d : d = ContentOf(o, t, v)
  OBVIOUS
<1>2. PICK s : s = Opened(AlignOut(o), t.width)
  OBVIOUS
<1>3. d = WriteNext([s EXCEPT !.err = s.err \/ ~Fits(t, Len(v))], t, v, 1)
  BY <1>1, <1>2, Zenon DEF ContentOf
<1>4. Faulty(s)
  <2>1. Faulty(AlignOut(o))
    BY FaultyRaw
  <2> QED  BY <1>2, <2>1, ClosedFaulty
<1>5. PICK x : x = ~Fits(t, Len(v))
  OBVIOUS
<1>6. Faulty([s EXCEPT !.err = s.err \/ x])
  BY <1>4, FaultyOr
<1>7. Faulty(d)
  BY <1>3, <1>5, <1>6, Zenon DEF RestPersists
<1>8. Finishes(WriteOverload(o, t, v), d, t.width)
  BY <1>1, ContainerFinishes
<1> QED  BY <1>7, <1>8, Zenon DEF Finishes

\* A writer of an array or a map.
Enclosure(o, t, v, le, f) ==
  /\ ~Fits(t, Len(v)) \/ RestRefuses(t, v, 1, le) => Faulty(f)
  /\ \A c \in Chunks : Fits(t, Len(v)) /\ RestPuts(t, v, 1, le, c) =>
       /\ Frames(t.width, c) => f = WriteRaw(o, Framed(t.width, c, le))
       /\ ~Frames(t.width, c) => Faulty(f)

LEMMA Enclosed ==
  ASSUME NEW t, HasEntries(t), t.width \in {0, 1, 2, 4}, NEW v, RestPersists(t, v, 1), NEW le, NEW o, Clean(o, le)
  PROVE  Enclosure(o, t, v, le, WriteOverload(o, t, v))
<1>0. PICK f : f = WriteOverload(o, t, v)
  OBVIOUS
<1>1. PICK d : d = ContentOf(o, t, v)
  OBVIOUS
<1>2. AlignOut(o) = o
  BY CleanFields, AlignedWriter
<1>3. PICK s : s = Opened(o, t.width)
  OBVIOUS
<1>4. d = WriteNext([s EXCEPT !.err = s.err \/ ~Fits(t, Len(v))], t, v, 1)
  BY <1>1, <1>2, <1>3, Zenon DEF ContentOf
<1>5. Finishes(f, d, t.width)
  BY <1>0, <1>1, ContainerFinishes
<1>6. Clean(s, le)
  <2>1. <<>> \in Chunks
    <3>1. <<>> \in Seq(Bit) /\ Len(<<>>) = 8 * 0 /\ 0 \in Nat
      BY EmptySeq
    <3> QED  BY <3>1, ChunkOf
  <2>2. Clean(Opened(o, t.width), le)
    BY <2>1, FrameWritten
  <2> QED  BY <1>3, <2>2
<1>7. s \in Outputs /\ s.err = FALSE
  BY <1>6, CleanFields
<1>8. CASE ~Fits(t, Len(v))
  <2>1. (s.err \/ ~Fits(t, Len(v))) = TRUE
    BY <1>8, Zenon
  <2>2. d = WriteNext([s EXCEPT !.err = TRUE], t, v, 1)
    BY <1>4, <2>1, Zenon
  <2>3. Faulty([s EXCEPT !.err = TRUE])
    BY <1>7 DEF Faulty, Outputs
  <2>4. Faulty(d)
    BY <2>2, <2>3, Zenon DEF RestPersists
  <2>5. Faulty(f)
    BY <1>5, <2>4, Zenon DEF Finishes
  <2> QED  BY <1>0, <1>8, <2>5, Zenon DEF Enclosure
<1>9. CASE Fits(t, Len(v))
  <2>1. (s.err \/ ~Fits(t, Len(v))) = FALSE
    BY <1>7, <1>9, Zenon
  <2>2. [s EXCEPT !.err = FALSE] = s
    BY <1>7 DEF Outputs
  <2>3. d = WriteNext(s, t, v, 1)
    BY <1>4, <2>1, <2>2, Zenon
  <2>4. ASSUME RestRefuses(t, v, 1, le)  PROVE Faulty(f)
    <3>1. Faulty(d)
      BY <1>6, <2>3, <2>4, Zenon DEF RestRefuses
    <3> QED  BY <1>5, <3>1, Zenon DEF Finishes
  <2>5. ASSUME NEW c \in Chunks, RestPuts(t, v, 1, le, c)
        PROVE  /\ Frames(t.width, c) => f = WriteRaw(o, Framed(t.width, c, le))
               /\ ~Frames(t.width, c) => Faulty(f)
    <3>1. d = WriteRaw(s, c)
      BY <1>6, <2>3, <2>5, Zenon DEF RestPuts
    <3>2. d.err = FALSE
      <4>1. Clean(WriteRaw(s, c), le)
        BY <1>6, CleanWritten
      <4> QED  BY <3>1, <4>1, CleanFields
    <3>3. f = Closed(WriteRaw(Opened(o, t.width), c), t.width)
      BY <1>3, <1>5, <3>1, <3>2, Zenon DEF Finishes
    <3>4. FrameOutcome(f, o, t.width, c, le)
      <4>1. FrameOutcome(Closed(WriteRaw(Opened(o, t.width), c), t.width), o, t.width, c, le)
        BY FrameWritten
      <4> QED  BY <3>3, <4>1
    <3> QED  BY <3>4, Zenon DEF FrameOutcome
  <2> QED  BY <1>0, <1>9, <2>4, <2>5, Zenon DEF Enclosure
<1> QED  BY <1>8, <1>9

\* An array or a map whose deployment is the same for sender and receiver.
Alike(t, u) ==
  /\ HasEntries(t) /\ u.k = t.k /\ u.width = t.width /\ u.min = t.min /\ u.max = t.max
  /\ t.width \in {0, 1, 2, 4} /\ t.max \in Nat

EntriesAgree(t, v, u, m, le) ==
  /\ Alike(t, u) /\ EntryType(u) /\ WriteLoops /\ Loops
  /\ Len(v) \in Nat /\ IsSeq(m) /\ Len(m) = Len(v)
  /\ \A n \in 1 .. Len(v) : PartPersists(t, v, n) /\ EntrySettles(t, v, u, m, n, le, Telling(u, m))

ContainerCarried(t, v, u, m, le, c) ==
  /\ \A o : Clean(o, le) => WriteOverload(o, t, v) = WriteRaw(o, c)
  /\ \A i : Ready(i, le) /\ Ahead(i, c) => ReadOverload(i, u) = Result(Moved(i, Bytes(c)), m)
  /\ Telling(u, m) => \A i : Ready(i, le) /\ Short(i, c) => ReadOverload(i, u).i.err

ContainerRefused(t, v, le) == \A o : Clean(o, le) => Faulty(WriteOverload(o, t, v))

LEMMA EntriesAgreed ==
  ASSUME NEW t, NEW v, NEW u, NEW m, NEW le \in BOOLEAN, EntriesAgree(t, v, u, m, le)
  PROVE  /\ \A o : Faulty(o) => Faulty(WriteOverload(o, t, v))
         /\ ContainerRefused(t, v, le) \/ \E c \in Chunks : ContainerCarried(t, v, u, m, le, c)
<1>1. /\ HasEntries(t) /\ u.k = t.k /\ u.width = t.width /\ u.min = t.min /\ u.max = t.max
      /\ t.width \in {0, 1, 2, 4} /\ u.max \in Nat
      /\ EntryType(u) /\ WriteLoops /\ Loops /\ Len(v) \in Nat /\ IsSeq(m) /\ Len(m) = Len(v)
  BY DEF EntriesAgree, Alike
<1>2. /\ \A n \in 1 .. Len(v) : PartPersists(t, v, n)
      /\ \A n \in 1 .. Len(v) : PartPersists(t, v, n) /\ EntrySettles(t, v, u, m, n, le, Telling(u, m))
  BY DEF EntriesAgree
<1>3. RestPersists(t, v, 1)
  <2>1. \A n \in 1 .. Len(v) + 1 : RestPersists(t, v, n)
    BY <1>1, <1>2, RestPersistent
  <2>2. 1 \in 1 .. Len(v) + 1
    BY <1>1
  <2> QED  BY <2>1, <2>2
<1>4. \A o : Faulty(o) => Faulty(WriteOverload(o, t, v))
  BY <1>1, <1>3, ContainerPersists
<1>5. \A o : Clean(o, le) => Enclosure(o, t, v, le, WriteOverload(o, t, v))
  BY <1>1, <1>3, Enclosed
<1>6. ASSUME ~Fits(t, Len(v)) \/ RestRefuses(t, v, 1, le)  PROVE ContainerRefused(t, v, le)
  BY <1>5, <1>6, Zenon DEF Enclosure, ContainerRefused
<1>7. ASSUME Fits(t, Len(v)), NEW c \in Chunks, EntriesCarried(t, v, u, m, 1, le, Telling(u, m), c)
      PROVE  ContainerRefused(t, v, le) \/ \E d \in Chunks : ContainerCarried(t, v, u, m, le, d)
  <2>1. RestPuts(t, v, 1, le, c) /\ EntriesGet(u, m, 1, le, c) /\ (Telling(u, m) => EntriesMiss(u, m, 1, le, c))
    BY <1>7, Zenon DEF EntriesCarried
  <2>2. CASE ~Frames(t.width, c)
    <3>1. ContainerRefused(t, v, le)
      BY <1>5, <1>7, <2>1, <2>2, Zenon DEF Enclosure, ContainerRefused
    <3> QED  BY <3>1
  <2>3. CASE Frames(t.width, c)
    <3>1. PICK d : d = Framed(t.width, c, le)
      OBVIOUS
    <3>2. d \in Chunks
      BY <1>1, <3>1, FramedChunk
    <3>3. \A o : Clean(o, le) => WriteOverload(o, t, v) = WriteRaw(o, d)
      BY <1>5, <1>7, <2>1, <2>3, <3>1, Zenon DEF Enclosure
    <3>4. HasEntries(u) /\ u.width \in {0, 1, 2, 4} /\ Fits(u, Len(m)) /\ Frames(u.width, c) /\ d = Framed(u.width, c, le)
      BY <1>1, <1>7, <2>3, <3>1 DEF HasEntries, Fits
    <3>5. ASSUME NEW i, Ready(i, le), Ahead(i, d)
          PROVE  ReadOverload(i, u) = Result(Moved(i, Bytes(d)), m)
      BY <2>1, <3>4, <3>5, EntriesFound
    <3>6. ASSUME Telling(u, m), NEW i, Ready(i, le), Short(i, d)  PROVE ReadOverload(i, u).i.err
      BY <1>1, <2>1, <3>4, <3>6, EntriesLost
    <3>7. ContainerCarried(t, v, u, m, le, d)
      BY <3>3, <3>5, <3>6, Zenon DEF ContainerCarried
    <3> QED  BY <3>2, <3>7
  <2> QED  BY <2>2, <2>3
<1>8. CASE Fits(t, Len(v)) /\ ~RestRefuses(t, v, 1, le)
  <2>1. Entries(u, m)
    BY <1>1, <1>8 DEF Entries, HasEntries, Fits
  <2>2. EntriesSettle(t, v, u, m, 1, le, Telling(u, m))
    <3>1. PICK tells : tells = Telling(u, m)
      OBVIOUS
    <3>2. \A n \in 1 .. Len(v) : PartPersists(t, v, n) /\ EntrySettles(t, v, u, m, n, le, tells)
      BY <1>2, <3>1
    <3>3. EntriesSettle(t, v, u, m, 1, le, tells)
      BY <1>1, <2>1, <3>2, EntriesSettled
    <3> QED  BY <3>1, <3>3
  <2>3. PICK c \in Chunks : EntriesCarried(t, v, u, m, 1, le, Telling(u, m), c)
    BY <1>8, <2>2, Zenon DEF EntriesSettle
  <2>4. ContainerRefused(t, v, le) \/ \E d \in Chunks : ContainerCarried(t, v, u, m, le, d)
    BY <1>7, <1>8, <2>3
  <2> QED  BY <1>4, <2>4
<1> QED  BY <1>4, <1>6, <1>8

\* The laws of a value, for either byte order.
Sound(q) == Persists(q) /\ \A le \in BOOLEAN : Settles(q, le)

LEMMA ContainerSound ==
  ASSUME NEW q, Unfolded({q.type, q.reads}), \A le \in BOOLEAN : EntriesAgree(q.type, q.value, q.reads, q.meant, le)
  PROVE  Sound(q)
<1>1. (\A o, x : Write(o, q.type, x) = WriteOverload(o, q.type, x)) /\ (\A i : Read(i, q.reads) = ReadOverload(i, q.reads))
  BY Zenon DEF Unfolded
<1>2. ASSUME NEW le \in BOOLEAN
      PROVE  /\ \A o : Faulty(o) => Faulty(WriteOverload(o, q.type, q.value))
             /\ \/ ContainerRefused(q.type, q.value, le)
                \/ \E c \in Chunks : ContainerCarried(q.type, q.value, q.reads, q.meant, le, c)
  <2>1. EntriesAgree(q.type, q.value, q.reads, q.meant, le)
    OBVIOUS
  <2> QED  BY <2>1, EntriesAgreed
<1>3. Persists(q)
  <2>1. TRUE \in BOOLEAN
    OBVIOUS
  <2>2. \A o : Faulty(o) => Faulty(WriteOverload(o, q.type, q.value))
    BY <1>2, <2>1
  <2> QED  BY <1>1, <2>2, Zenon DEF Persists
<1>4. ASSUME NEW le \in BOOLEAN  PROVE Settles(q, le)
  <2>1. CASE ContainerRefused(q.type, q.value, le)
    BY <1>1, <2>1, Zenon DEF ContainerRefused, Settles, Refuses
  <2>2. ASSUME NEW c \in Chunks, ContainerCarried(q.type, q.value, q.reads, q.meant, le, c)
        PROVE  Settles(q, le)
    <3>1. Puts(q, le, c)
      BY <1>1, <2>2, Zenon DEF ContainerCarried, Puts
    <3>2. Gets(q, le, c)
      BY <1>1, <2>2, Zenon DEF ContainerCarried, Gets
    <3>3. Telling(q.reads, q.meant) => Misses(q, le, c)
      BY <1>1, <2>2, Zenon DEF ContainerCarried, Misses, Missed
    <3> QED  BY <3>1, <3>2, <3>3, Zenon DEF Settles
  <2> QED  BY <1>2, <2>1, <2>2
<1> QED  BY <1>3, <1>4 DEF Sound

\* An array of elements of P, and a map of keys and values of P.
IsArray(q, P) ==
  /\ q.type.k = "array" /\ Alike(q.type, q.reads)
  /\ IsSeq(q.value) /\ IsSeq(q.meant) /\ Len(q.meant) = Len(q.value)
  /\ \A n \in 1 .. Len(q.value) : Part(q.type.elem, q.reads.elem, q.value[n], q.meant[n]) \in P

IsMap(q, P) ==
  /\ q.type.k = "map" /\ Alike(q.type, q.reads)
  /\ IsSeq(q.value) /\ IsSeq(q.meant) /\ Len(q.meant) = Len(q.value) /\ Pairs(q.meant)
  /\ \A n \in 1 .. Len(q.value) :
       /\ Part(q.type.key, q.reads.key, q.value[n][1], q.meant[n][1]) \in P
       /\ Part(q.type.val, q.reads.val, q.value[n][2], q.meant[n][2]) \in P

LEMMA ArraySound ==
  ASSUME NEW q, NEW P, IsArray(q, P), \A p \in P : Sound(p), Unfolded({q.type, q.reads}), EntryType(q.reads)
  PROVE  Sound(q)
<1> DEFINE t == q.type
           u == q.reads
           v == q.value
           m == q.meant
<1>1. /\ t.k = "array" /\ u.k = "array" /\ Alike(t, u) /\ IsSeq(v) /\ IsSeq(m) /\ Len(m) = Len(v)
      /\ \A n \in 1 .. Len(v) : Part(t.elem, u.elem, v[n], m[n]) \in P
  BY DEF IsArray, Alike
<1>2. Len(v) \in Nat
  BY <1>1, LenProperties DEF IsSeq
<1>3. Eats(u.elem)
  BY <1>1 DEF EntryType
<1>4. WriteLoops /\ Loops
  BY Zenon DEF Unfolded, WriteLoops, Loops
<1>6. EntryType(u)
  OBVIOUS
<1> HIDE DEF t, u, v, m
<1>5. ASSUME NEW le \in BOOLEAN  PROVE EntriesAgree(t, v, u, m, le)
  <2>0. PICK tells : tells = Telling(u, m)
    OBVIOUS
  <2>1. ASSUME NEW n \in 1 .. Len(v)
        PROVE  PartPersists(t, v, n) /\ EntrySettles(t, v, u, m, n, le, tells)
    <3>1. PICK p : p = Part(t.elem, u.elem, v[n], m[n])
      OBVIOUS
    <3>2. Sound(p)
      BY <1>1, <3>1
    <3>3. p.reads = u.elem
      BY <3>1 DEF Part
    <3>4. tells => Telling(p.reads, p.meant) /\ Guarded(p.reads)
      BY <1>1, <2>0, <3>3 DEF Telling, Guarded
    <3>5. PartSettles(p, le, tells)
      BY <3>2, <3>4, Zenon DEF Sound, PartSettles
    <3> QED  BY <1>1, <1>3, <3>1, <3>5, ElementSettles
  <2>2. \A n \in 1 .. Len(v) : PartPersists(t, v, n) /\ EntrySettles(t, v, u, m, n, le, Telling(u, m))
    BY <2>0, <2>1
  <2> QED  BY <1>1, <1>2, <1>4, <1>6, <2>2, Zenon DEF EntriesAgree
<1> QED  BY <1>5, ContainerSound DEF t, u, v, m

LEMMA MapSound ==
  ASSUME NEW q, NEW P, IsMap(q, P), \A p \in P : Sound(p), Unfolded({q.type, q.reads}), EntryType(q.reads)
  PROVE  Sound(q)
<1> DEFINE t == q.type
           u == q.reads
           v == q.value
           m == q.meant
<1>1. /\ t.k = "map" /\ u.k = "map" /\ Alike(t, u) /\ IsSeq(v) /\ IsSeq(m) /\ Len(m) = Len(v) /\ Pairs(m)
      /\ \A n \in 1 .. Len(v) : /\ Part(t.key, u.key, v[n][1], m[n][1]) \in P
                                /\ Part(t.val, u.val, v[n][2], m[n][2]) \in P
  BY DEF IsMap, Alike
<1>2. Len(v) \in Nat
  BY <1>1, LenProperties DEF IsSeq
<1>3. Eats(u.key)
  BY <1>1 DEF EntryType
<1>4. WriteLoops /\ Loops
  BY Zenon DEF Unfolded, WriteLoops, Loops
<1>6. EntryType(u)
  OBVIOUS
<1> HIDE DEF t, u, v, m
<1>5. ASSUME NEW le \in BOOLEAN  PROVE EntriesAgree(t, v, u, m, le)
  <2>0. PICK tells : tells = Telling(u, m)
    OBVIOUS
  <2>1. ASSUME NEW n \in 1 .. Len(v)
        PROVE  PartPersists(t, v, n) /\ EntrySettles(t, v, u, m, n, le, tells)
    <3>1. PICK a, b : MapEntry(t, u, v, m, n, a, b) /\ a \in P /\ b \in P
      BY <1>1, Zenon DEF MapEntry
    <3>2. Sound(a) /\ Sound(b)
      BY <3>1
    <3>3. a.reads = u.key /\ b.reads = u.val
      BY <3>1 DEF Part, MapEntry
    <3>4. tells => Telling(a.reads, a.meant) /\ Guarded(a.reads) /\ Telling(b.reads, b.meant) /\ Guarded(b.reads)
      BY <1>1, <2>0, <3>3 DEF Telling, Guarded
    <3>5. PartSettles(a, le, tells) /\ PartSettles(b, le, tells)
      BY <3>2, <3>4, Zenon DEF Sound, PartSettles
    <3>6. PICK l \in Nat : l = Len(m) /\ n \in 1 .. l
      BY <1>1, <1>2
    <3> QED  BY <1>1, <1>3, <3>1, <3>5, <3>6, MapEntrySettles
  <2>2. \A n \in 1 .. Len(v) : PartPersists(t, v, n) /\ EntrySettles(t, v, u, m, n, le, Telling(u, m))
    BY <2>0, <2>1
  <2> QED  BY <1>1, <1>2, <1>4, <1>6, <2>2, Zenon DEF EntriesAgree
<1> QED  BY <1>5, ContainerSound DEF t, u, v, m

-----------------------------------------------------------------------------
(* Structs: a receiver may know fewer fields, of which the length field      *)
(* tells it how much to skip.                                                *)

\* The fields from the n-th on, for a reader.
FieldsGet(u, m, n, le, c) ==
  \A i, acc, size : Ready(i, le) /\ Ahead(i, c) /\ Begins(acc, m, n - 1) =>
    ReadNext(i, u, size, acc) = [i |-> Moved(i, Bytes(c)), n |-> size, v |-> m]

LEMMA FieldsEnd ==
  ASSUME NEW u, u.k = "struct", Loops, NEW m, IsSeq(m), Len(m) = Len(u.fields), NEW le
  PROVE  FieldsGet(u, m, Len(m) + 1, le, <<>>)
<1>1. Bytes(<<>>) = 0
  <2>1. <<>> \in Seq(Bit) /\ Len(<<>>) = 8 * 0 /\ 0 \in Nat
    BY EmptySeq
  <2> QED  BY <2>1, ChunkOf
<1>2. (Len(m) + 1) - 1 = Len(m)
  BY LenProperties DEF IsSeq
<1>3. ASSUME NEW i, NEW acc, NEW size, Ready(i, le), Begins(acc, m, Len(m))
      PROVE  ReadNext(i, u, size, acc) = [i |-> Moved(i, 0), n |-> size, v |-> m]
  <2>1. acc = m
    BY <1>3, BeginsAll
  <2>2. Moved(i, 0) = i
    BY <1>3, MovedNowhere DEF Ready
  <2>3. ReadNext(i, u, size, m) = [i |-> i, n |-> size, v |-> m]
    BY FieldUnfolded
  <2> QED  BY <2>1, <2>2, <2>3
<1> QED  BY <1>1, <1>2, <1>3, Zenon DEF FieldsGet

LEMMA FieldsGetStep ==
  ASSUME NEW u, u.k = "struct", Loops, NEW m, IsSeq(m), Len(m) = Len(u.fields), NEW n \in 1 .. Len(m), NEW le,
         NEW q, q.reads = u.fields[n], q.meant = m[n],
         NEW c \in Chunks, NEW d \in Chunks, Gets(q, le, c), FieldsGet(u, m, n + 1, le, d)
  PROVE  FieldsGet(u, m, n, le, c \o d)
<1>1. Len(m) \in Nat /\ n \in Nat \ {0} /\ (n - 1) + 1 = n /\ (n + 1) - 1 = n /\ n - 1 # Len(m)
  BY LenProperties DEF IsSeq
<1>2. ASSUME NEW i, NEW acc, NEW size, Ready(i, le), Ahead(i, c \o d), Begins(acc, m, n - 1)
      PROVE  ReadNext(i, u, size, acc) = [i |-> Moved(i, Bytes(c \o d)), n |-> size, v |-> m]
  <2>1. /\ Ahead(i, c) /\ Ready(Moved(i, Bytes(c)), le) /\ Ahead(Moved(i, Bytes(c)), d)
        /\ Moved(Moved(i, Bytes(c)), Bytes(d)) = Moved(i, Bytes(c \o d))
    BY <1>2, AheadSplit
  <2>2. Got(i, q, le, c)
    BY <1>2, <2>1, GotReady
  <2>3. Read(i, u.fields[n]).i = Moved(i, Bytes(c)) /\ Read(i, u.fields[n]).v = m[n]
    BY <2>2, Zenon DEF Got
  <2>4. Len(acc) = n - 1
    BY <1>2 DEF Begins
  <2>5. Len(acc) # Len(u.fields) /\ Len(acc) + 1 = n
    BY <1>1, <2>4
  <2>6. ReadNext(i, u, size, acc)
          = ReadNext(Read(i, u.fields[Len(acc) + 1]).i, u, size, Append(acc, Read(i, u.fields[Len(acc) + 1]).v))
    BY <2>5, FieldUnfolded
  <2>7. ReadNext(i, u, size, acc) = ReadNext(Moved(i, Bytes(c)), u, size, Append(acc, m[n]))
    BY <2>3, <2>5, <2>6, Zenon
  <2>8. Begins(Append(acc, m[n]), m, (n + 1) - 1)
    BY <1>1, <1>2, BeginsNext
  <2>9. ReadNext(Moved(i, Bytes(c)), u, size, Append(acc, m[n]))
          = [i |-> Moved(Moved(i, Bytes(c)), Bytes(d)), n |-> size, v |-> m]
    BY <2>1, <2>8, Zenon DEF FieldsGet
  <2> QED  BY <2>1, <2>7, <2>9, Zenon
<1> QED  BY <1>2, Zenon DEF FieldsGet

\* The fields the receiver knows, c, and the rest of them, d.
FieldsCarried(t, v, u, m, n, le, c, d) ==
  /\ RestPuts(t, v, n, le, c \o d)
  /\ n <= Len(m) + 1 => FieldsGet(u, m, n, le, c)
  /\ Len(m) = Len(v) => d = <<>>

FieldsSettle(t, v, u, m, n, le) ==
  RestRefuses(t, v, n, le) \/ \E c, d \in Chunks : FieldsCarried(t, v, u, m, n, le, c, d)

\* The n-th field, and what it is for a receiver that knows it.
FieldPart(t, v, u, m, n, q) ==
  /\ q.type = t.fields[n] /\ q.value = v[n]
  /\ n <= Len(m) => q.reads = u.fields[n] /\ q.meant = m[n]

Structs(t, v, u, m) ==
  /\ t.k = "struct" /\ u.k = "struct" /\ IsSeq(v) /\ IsSeq(m)
  /\ Len(m) = Len(u.fields) /\ Len(m) <= Len(v)

LEMMA FieldWrites ==
  ASSUME NEW t, t.k = "struct", NEW v, NEW u, NEW m, NEW n, NEW q, FieldPart(t, v, u, m, n, q), NEW le
  PROVE  /\ Persists(q) => PartPersists(t, v, n)
         /\ Refuses(q, le) => PartRefuses(t, v, n, le)
         /\ \A c : Puts(q, le, c) => PartPuts(t, v, n, le, c)
<1>1. \A o : WritePart(o, t, v[n], n) = Write(o, q.type, q.value)
  BY DEF WritePart, FieldPart
<1>2. Persists(q) => PartPersists(t, v, n)
  BY <1>1, Zenon DEF Persists, PartPersists
<1>3. Refuses(q, le) => PartRefuses(t, v, n, le)
  BY <1>1, Zenon DEF Refuses, PartRefuses
<1>4. \A c : Puts(q, le, c) => PartPuts(t, v, n, le, c)
  BY <1>1, Zenon DEF Puts, PartPuts
<1> QED  BY <1>2, <1>3, <1>4

LEMMA NothingBefore ==
  ASSUME NEW c \in Chunks
  PROVE  <<>> \in Chunks /\ Bytes(<<>>) = 0 /\ <<>> \o c = c /\ c \o <<>> = c
<1>1. <<>> \in Seq(Bit) /\ Len(<<>>) = 8 * 0 /\ 0 \in Nat
  BY EmptySeq
<1>2. c \in Seq(Bit)
  BY ChunkType
<1>3. <<>> \o c = c /\ c \o <<>> = c
  BY <1>2, ConcatEmptySeq
<1> QED  BY <1>1, <1>3, ChunkOf

LEMMA FieldSettles ==
  ASSUME NEW t, NEW v, NEW u, NEW m, Structs(t, v, u, m), WriteLoops, Loops, NEW n \in 1 .. Len(v), NEW le,
         NEW q, FieldPart(t, v, u, m, n, q), Settles(q, le), RestPersists(t, v, n + 1),
         FieldsSettle(t, v, u, m, n + 1, le)
  PROVE  FieldsSettle(t, v, u, m, n, le)
<1>1. /\ t.k = "struct" /\ u.k = "struct" /\ IsSeq(m) /\ Len(m) = Len(u.fields) /\ Len(m) <= Len(v)
      /\ Len(v) \in Nat /\ Len(m) \in Nat
  BY LenProperties DEF Structs, IsSeq
<1>2. CASE Refuses(q, le)
  <2>1. PartRefuses(t, v, n, le)
    BY <1>1, <1>2, FieldWrites
  <2>2. RestRefuses(t, v, n, le)
    BY <1>1, <2>1, RefusalStep
  <2> QED  BY <2>2, Zenon DEF FieldsSettle
<1>3. ASSUME NEW a \in Chunks, Puts(q, le, a), Gets(q, le, a)
      PROVE  FieldsSettle(t, v, u, m, n, le)
  <2>1. PartPuts(t, v, n, le, a)
    BY <1>1, <1>3, FieldWrites
  <2>2. /\ \A d \in Chunks : RestPuts(t, v, n + 1, le, d) => RestPuts(t, v, n, le, a \o d)
        /\ RestRefuses(t, v, n + 1, le) => RestRefuses(t, v, n, le)
    BY <1>1, <2>1, PutStep
  <2>3. CASE RestRefuses(t, v, n + 1, le)
    BY <2>2, <2>3, Zenon DEF FieldsSettle
  <2>4. ASSUME NEW c \in Chunks, NEW d \in Chunks, FieldsCarried(t, v, u, m, n + 1, le, c, d)
        PROVE  FieldsSettle(t, v, u, m, n, le)
    <3>1. /\ RestPuts(t, v, n + 1, le, c \o d) /\ (n + 1 <= Len(m) + 1 => FieldsGet(u, m, n + 1, le, c))
          /\ (Len(m) = Len(v) => d = <<>>)
      BY <2>4, Zenon DEF FieldsCarried
    <3>2. c \o d \in Chunks /\ a \o c \in Chunks /\ a \o (c \o d) \in Chunks
      BY ChunkConcat
    <3>3. RestPuts(t, v, n, le, a \o (c \o d))
      BY <2>2, <3>1, <3>2
    <3>4. CASE n <= Len(m)
      <4>1. n \in 1 .. Len(m) /\ n + 1 <= Len(m) + 1
        BY <1>1, <3>4
      <4>2. q.reads = u.fields[n] /\ q.meant = m[n]
        BY <3>4 DEF FieldPart
      <4>3. FieldsGet(u, m, n, le, a \o c)
        BY <1>1, <1>3, <3>1, <4>1, <4>2, FieldsGetStep
      <4>4. (a \o c) \o d = a \o (c \o d)
        BY ChunkType, BitsAssociative
      <4>5. FieldsCarried(t, v, u, m, n, le, a \o c, d)
        BY <3>1, <3>3, <4>3, <4>4, Zenon DEF FieldsCarried
      <4> QED  BY <3>2, <4>5, Zenon DEF FieldsSettle
    <3>5. CASE ~(n <= Len(m))
      <4>1. Len(m) # Len(v) /\ (n <= Len(m) + 1 => n = Len(m) + 1)
        BY <1>1, <3>5
      <4>2. <<>> \in Chunks /\ <<>> \o (a \o (c \o d)) = a \o (c \o d)
        BY <3>2, NothingBefore
      <4>3. FieldsGet(u, m, Len(m) + 1, le, <<>>)
        BY <1>1, FieldsEnd
      <4>4. FieldsCarried(t, v, u, m, n, le, <<>>, a \o (c \o d))
        BY <3>3, <4>1, <4>2, <4>3, Zenon DEF FieldsCarried
      <4> QED  BY <3>2, <4>2, <4>4, Zenon DEF FieldsSettle
    <3> QED  BY <3>4, <3>5
  <2> QED  BY <2>3, <2>4, Zenon DEF FieldsSettle
<1> QED  BY <1>2, <1>3, Zenon DEF Settles

LEMMA FieldsSettled ==
  ASSUME NEW t, NEW v, NEW u, NEW m, Structs(t, v, u, m), WriteLoops, Loops, NEW le,
         \A n \in 1 .. Len(v) : \E q : FieldPart(t, v, u, m, n, q) /\ Settles(q, le) /\ Persists(q)
  PROVE  RestPersists(t, v, 1) /\ FieldsSettle(t, v, u, m, 1, le)
<1>1. /\ t.k = "struct" /\ u.k = "struct" /\ IsSeq(m) /\ Len(m) = Len(u.fields) /\ Len(m) <= Len(v)
      /\ Len(v) \in Nat /\ Len(m) \in Nat
  BY LenProperties DEF Structs, IsSeq
<1>2. \A n \in 1 .. Len(v) : PartPersists(t, v, n)
  <2> SUFFICES ASSUME NEW n \in 1 .. Len(v)  PROVE PartPersists(t, v, n)
    OBVIOUS
  <2>1. PICK q : FieldPart(t, v, u, m, n, q) /\ Persists(q)
    OBVIOUS
  <2> QED  BY <1>1, <2>1, FieldWrites
<1>3. \A n \in 1 .. Len(v) + 1 : RestPersists(t, v, n)
  BY <1>1, <1>2, RestPersistent
<1> DEFINE M == {n \in Nat : FieldsSettle(t, v, u, m, n, le)}
<1>4. Len(v) + 1 \in M
  <2>1. <<>> \in Chunks /\ RestPuts(t, v, Len(v) + 1, le, <<>>)
    BY <1>1, RestEmpty
  <2>2. <<>> \o <<>> = <<>>
    BY <2>1, NothingBefore
  <2>3. FieldsGet(u, m, Len(m) + 1, le, <<>>)
    BY <1>1, FieldsEnd
  <2>4. Len(v) + 1 <= Len(m) + 1 => Len(v) + 1 = Len(m) + 1
    BY <1>1
  <2>5. FieldsCarried(t, v, u, m, Len(v) + 1, le, <<>>, <<>>)
    BY <2>1, <2>2, <2>3, <2>4, Zenon DEF FieldsCarried
  <2>6. FieldsSettle(t, v, u, m, Len(v) + 1, le)
    BY <2>1, <2>5, Zenon DEF FieldsSettle
  <2> QED  BY <1>1, <2>6
<1>5. ASSUME NEW n \in 1 .. Len(v), n + 1 \in M  PROVE n \in M
  <2>1. n \in Nat /\ FieldsSettle(t, v, u, m, n + 1, le) /\ n + 1 \in 1 .. Len(v) + 1
    BY <1>1, <1>5
  <2>2. PICK q : FieldPart(t, v, u, m, n, q) /\ Settles(q, le)
    OBVIOUS
  <2>3. RestPersists(t, v, n + 1)
    BY <1>3, <2>1
  <2>4. FieldsSettle(t, v, u, m, n, le)
    BY <2>1, <2>2, <2>3, FieldSettles
  <2> QED  BY <2>1, <2>4
<1> HIDE DEF M
<1>6. \A n \in 1 .. Len(v) + 1 : n \in M
  BY <1>1, <1>4, <1>5, Downwards
<1>7. 1 \in 1 .. Len(v) + 1
  BY <1>1
<1>8. FieldsSettle(t, v, u, m, 1, le)
  BY <1>6, <1>7 DEF M
<1> QED  BY <1>3, <1>7, <1>8

\* The structs of both sides have the same length field, and without one the same fields.
Framing(t, v, u, m) ==
  /\ Structs(t, v, u, m) /\ u.width = t.width /\ t.width \in {0, 1, 2, 4}
  /\ t.width = 0 => Len(m) = Len(v)

\* What the reader of a struct returns: behind the length field s come the fields r.
StructOutcome(i, u, s, r) ==
  IF u.width # 0 /\ s.n > s.i.rem - r.i.rem
    THEN ReadOverload(i, u) = Result(ReadRaw(r.i, s.n - (s.i.rem - r.i.rem)), r.v)
    ELSE ReadOverload(i, u) = Result(r.i, r.v)

LEMMA StructRun ==
  ASSUME NEW u, u.k = "struct", NEW i, NEW s, NEW r, ReadAt(i, u, s, r), ~s.i.err
  PROVE  StructOutcome(i, u, s, r)
<1>1. ReadOverload(i, u) = ReadStruct(i, u)
  BY ContainerOverloads
<1>2. s = ReadNumber(AlignIn(i), u.width, TRUE) /\ r = ReadNext(s.i, u, s.n, <<>>)
  BY DEF ReadAt
<1>3. ReadStruct(i, u)
        = IF s.i.err THEN Result(s.i, <<>>)
          ELSE Result(IF u.width # 0 /\ s.n > s.i.rem - r.i.rem
                        THEN ReadRaw(r.i, s.n - (s.i.rem - r.i.rem)) ELSE r.i, r.v)
  BY <1>2, Zenon DEF ReadStruct
<1>4. ReadStruct(i, u)
        = Result(IF u.width # 0 /\ s.n > s.i.rem - r.i.rem
                   THEN ReadRaw(r.i, s.n - (s.i.rem - r.i.rem)) ELSE r.i, r.v)
  BY <1>3, Zenon
<1> QED  BY <1>1, <1>4, Zenon DEF StructOutcome

LEMMA RestSkipped ==
  ASSUME NEW r \in Nat, NEW x \in Nat, NEW y \in Nat, x <= r
  PROVE  r - (r - x) = x /\ (x + y) - (r - (r - x)) = y
OBVIOUS

LEMMA StructFound ==
  ASSUME NEW t, NEW v, NEW u, NEW m, Framing(t, v, u, m), Loops, NEW le, NEW c \in Chunks, NEW d \in Chunks,
         FieldsCarried(t, v, u, m, 1, le, c, d), Frames(u.width, c \o d),
         NEW i, Ready(i, le), Ahead(i, Framed(u.width, c \o d, le))
  PROVE  ReadOverload(i, u) = Result(Moved(i, Bytes(Framed(u.width, c \o d, le))), m)
<1>1. /\ u.k = "struct" /\ u.width \in {0, 1, 2, 4} /\ (u.width = 0 => d = <<>>) /\ FieldsGet(u, m, 1, le, c)
  <2>1. Len(m) \in Nat /\ 1 <= Len(m) + 1
    BY LenProperties DEF Framing, Structs, IsSeq
  <2> QED  BY <2>1 DEF Framing, Structs, FieldsCarried
<1>2. PICK b \in Chunks : b = c \o d /\ Bytes(b) = Bytes(c) + Bytes(d)
  BY ChunkConcat
<1>3. PICK s : s = ReadNumber(AlignIn(i), u.width, TRUE)
  OBVIOUS
<1>4. Headed(s, i, u.width, b, le)
  <2>1. Ahead(i, Framed(u.width, b, le)) /\ Frames(u.width, b)
    BY <1>2
  <2>2. Headed(ReadNumber(AlignIn(i), u.width, TRUE), i, u.width, b, le)
    BY <1>1, <2>1, FrameRead
  <2> QED  BY <1>3, <2>2
<1>5. PICK j : j = Moved(i, u.width)
  OBVIOUS
<1>6. /\ s.i = j /\ s.n = (IF u.width = 0 THEN 0 ELSE Bytes(b)) /\ Ready(j, le) /\ Ahead(j, b)
      /\ Moved(j, Bytes(b)) = Moved(i, Bytes(Framed(u.width, b, le)))
  BY <1>4, <1>5 DEF Headed
<1>7. PICK k : k = Moved(j, Bytes(c))
  OBVIOUS
<1>8. /\ Ahead(j, c) /\ Bytes(c) <= j.rem /\ Ready(k, le) /\ Bytes(d) <= k.rem
      /\ Moved(k, Bytes(d)) = Moved(j, Bytes(b))
  BY <1>2, <1>6, <1>7, AheadSplit
<1>9. PICK r : r = ReadNext(s.i, u, s.n, <<>>)
  OBVIOUS
<1>10. r.i = k /\ r.v = m
  <2>1. Begins(<<>>, m, 1 - 1)
    BY BeginsEmpty
  <2>2. ReadNext(j, u, s.n, <<>>) = [i |-> Moved(j, Bytes(c)), n |-> s.n, v |-> m]
    BY <1>1, <1>6, <1>8, <2>1, Zenon DEF FieldsGet
  <2>3. r = [i |-> k, n |-> s.n, v |-> m]
    BY <1>6, <1>7, <1>9, <2>2, Zenon
  <2> QED  BY <2>3
<1>11. StructOutcome(i, u, s, r)
  <2>1. s.i.err = FALSE
    BY <1>6, ReadyFields
  <2>2. ReadAt(i, u, s, r) /\ ~s.i.err
    BY <1>3, <1>9, <2>1 DEF ReadAt
  <2> QED  BY <1>1, <2>2, StructRun
<1>12. /\ j.rem \in Nat /\ Bytes(c) \in Nat /\ Bytes(d) \in Nat /\ k.rem = j.rem - Bytes(c)
       /\ k \in Inputs /\ k.err = FALSE
  <2>1. j \in Inputs /\ j.rem \in Nat /\ k \in Inputs /\ k.err = FALSE
    BY <1>6, <1>8, ReadyFields DEF Ready
  <2>2. Bytes(c) \in Nat /\ Bytes(d) \in Nat
    BY ChunkType
  <2> QED  BY <1>7, <1>8, <2>1, <2>2, MovedFields
<1>13. PICK x \in Nat, y \in Nat, e \in Nat : x = Bytes(c) /\ y = Bytes(d) /\ e = j.rem
  BY <1>12
<1>14. s.i.rem - r.i.rem = x /\ (x + y) - (s.i.rem - r.i.rem) = y
  <2>1. s.i.rem = e /\ r.i.rem = e - x /\ x <= e
    BY <1>6, <1>8, <1>10, <1>12, <1>13
  <2> QED  BY <2>1, RestSkipped
<1>15. CASE u.width # 0 /\ y # 0
  <2>1. s.n = x + y
    BY <1>2, <1>6, <1>13, <1>15
  <2>2. s.n > s.i.rem - r.i.rem
    BY <1>14, <1>15, <2>1
  <2>3. s.n - (s.i.rem - r.i.rem) = y
    BY <1>14, <2>1
  <2>4. ReadOverload(i, u) = Result(ReadRaw(r.i, s.n - (s.i.rem - r.i.rem)), r.v)
    BY <1>11, <1>15, <2>2, Zenon DEF StructOutcome
  <2>5. ReadRaw(k, y) = Moved(k, y)
    BY <1>8, <1>12, <1>13, RawMoved
  <2>6. Moved(k, y) = Moved(i, Bytes(Framed(u.width, b, le)))
    BY <1>6, <1>8, <1>13
  <2>7. ReadOverload(i, u) = Result(Moved(i, Bytes(Framed(u.width, b, le))), m)
    BY <1>10, <2>3, <2>4, <2>5, <2>6, Zenon
  <2> QED  BY <1>2, <2>7, Zenon
<1>16. CASE u.width = 0 \/ y = 0
  <2>1. ~(u.width # 0 /\ s.n > s.i.rem - r.i.rem)
    BY <1>2, <1>6, <1>13, <1>14, <1>16
  <2>2. ReadOverload(i, u) = Result(r.i, r.v)
    BY <1>11, <2>1, Zenon DEF StructOutcome
  <2>3. y = 0
    <3>1. Bytes(<<>>) = 0
      BY NothingBefore
    <3> QED  BY <1>1, <1>13, <1>16, <3>1
  <2>4. Moved(k, y) = k
    BY <1>12, <2>3, MovedNowhere
  <2>5. k = Moved(i, Bytes(Framed(u.width, b, le)))
    BY <1>6, <1>8, <1>13, <2>4
  <2>6. ReadOverload(i, u) = Result(Moved(i, Bytes(Framed(u.width, b, le))), m)
    BY <1>10, <2>2, <2>5, Zenon
  <2> QED  BY <1>2, <2>6, Zenon
<1> QED  BY <1>15, <1>16

OverloadPersists(t, v) == \A o : Faulty(o) => Faulty(WriteOverload(o, t, v))

\* A writer of a struct.
StructEnclosure(o, t, v, le, f) ==
  /\ RestRefuses(t, v, 1, le) => Faulty(f)
  /\ \A c \in Chunks : RestPuts(t, v, 1, le, c) => FrameOutcome(f, o, t.width, c, le)

LEMMA StructWrites ==
  ASSUME NEW t, t.k = "struct", NEW v, NEW o, NEW s, s = Opened(AlignOut(o), t.width)
  PROVE  /\ Faulty(s) => WriteOverload(o, t, v) = Closed(s, t.width)
         /\ s.err = FALSE => WriteOverload(o, t, v) = Closed(WriteNext(s, t, v, 1), t.width)
<1>1. WriteOverload(o, t, v) = WriteStruct(o, t, v)
  BY ContainerOverloads
<1>2. WriteStruct(o, t, v) = Closed(IF s.err THEN s ELSE WriteNext(s, t, v, 1), t.width)
  BY Zenon DEF WriteStruct
<1>3. CASE Faulty(s)
  <2>1. s.err = TRUE
    BY <1>3 DEF Faulty
  <2> QED  BY <1>1, <1>2, <2>1, Zenon
<1>4. CASE s.err = FALSE
  <2>1. ~s.err /\ ~Faulty(s)
    BY <1>4 DEF Faulty
  <2>2. WriteOverload(o, t, v) = Closed(WriteNext(s, t, v, 1), t.width)
    BY <1>1, <1>2, <2>1, Zenon
  <2> QED  BY <2>1, <2>2, Zenon
<1>5. Faulty(s) => s.err = TRUE
  BY DEF Faulty
<1>6. TRUE # FALSE
  OBVIOUS
<1> QED  BY <1>3, <1>4, <1>5, <1>6

LEMMA StructPersists ==
  ASSUME NEW t, t.k = "struct", NEW v
  PROVE  OverloadPersists(t, v)
<1>1. ASSUME NEW o, Faulty(o)  PROVE Faulty(WriteOverload(o, t, v))
  <2>1. PICK s : s = Opened(AlignOut(o), t.width)
    OBVIOUS
  <2>2. Faulty(s)
    <3>1. Faulty(AlignOut(o))
      BY <1>1, FaultyRaw
    <3> QED  BY <2>1, <3>1, ClosedFaulty
  <2>3. WriteOverload(o, t, v) = Closed(s, t.width)
    BY <2>1, <2>2, StructWrites
  <2>4. Faulty(Closed(s, t.width))
    BY <2>2, ClosedFaulty
  <2> QED  BY <2>3, <2>4
<1> QED  BY <1>1, Zenon DEF OverloadPersists

LEMMA StructEnclosed ==
  ASSUME NEW t, t.k = "struct", t.width \in {0, 1, 2, 4}, NEW v, NEW le, NEW o, Clean(o, le)
  PROVE  StructEnclosure(o, t, v, le, WriteOverload(o, t, v))
<1>1. PICK f : f = WriteOverload(o, t, v)
  OBVIOUS
<1>2. AlignOut(o) = o
  BY CleanFields, AlignedWriter
<1>3. PICK s : s = Opened(o, t.width)
  OBVIOUS
<1>4. Clean(s, le)
  <2>1. <<>> \in Chunks
    <3>1. <<>> \in Seq(Bit) /\ Len(<<>>) = 8 * 0 /\ 0 \in Nat
      BY EmptySeq
    <3> QED  BY <3>1, ChunkOf
  <2>2. Clean(Opened(o, t.width), le)
    BY <2>1, FrameWritten
  <2> QED  BY <1>3, <2>2
<1>5. f = Closed(WriteNext(s, t, v, 1), t.width)
  <2>1. s.err = FALSE /\ s = Opened(AlignOut(o), t.width)
    BY <1>2, <1>3, <1>4, CleanFields
  <2> QED  BY <1>1, <2>1, StructWrites
<1>6. ASSUME RestRefuses(t, v, 1, le)  PROVE Faulty(f)
  <2>1. Faulty(WriteNext(s, t, v, 1))
    BY <1>4, <1>6, Zenon DEF RestRefuses
  <2> QED  BY <1>5, <2>1, ClosedFaulty
<1>7. ASSUME NEW c \in Chunks, RestPuts(t, v, 1, le, c)  PROVE FrameOutcome(f, o, t.width, c, le)
  <2>1. WriteNext(s, t, v, 1) = WriteRaw(Opened(o, t.width), c)
    BY <1>3, <1>4, <1>7, Zenon DEF RestPuts
  <2>2. FrameOutcome(Closed(WriteRaw(Opened(o, t.width), c), t.width), o, t.width, c, le)
    BY FrameWritten
  <2> QED  BY <1>5, <2>1, <2>2
<1> QED  BY <1>1, <1>6, <1>7, Zenon DEF StructEnclosure

\* A struct whose fields are values of P, of which the receiver may not know the last.
IsStruct(q, P) ==
  /\ Framing(q.type, q.value, q.reads, q.meant)
  /\ \A n \in 1 .. Len(q.value) : \E p \in P : FieldPart(q.type, q.value, q.reads, q.meant, n, p)

LEMMA StructSound ==
  ASSUME NEW q, NEW P, IsStruct(q, P), \A p \in P : Sound(p), Unfolded({q.type, q.reads})
  PROVE  Sound(q)
<1> DEFINE t == q.type
           u == q.reads
           v == q.value
           m == q.meant
<1>1. /\ Framing(t, v, u, m) /\ \A n \in 1 .. Len(v) : \E p \in P : FieldPart(t, v, u, m, n, p)
  BY DEF IsStruct
<1>2. (\A o, x : Write(o, t, x) = WriteOverload(o, t, x)) /\ (\A i : Read(i, u) = ReadOverload(i, u))
  BY Zenon DEF Unfolded
<1>3. WriteLoops /\ Loops
  BY Zenon DEF Unfolded, WriteLoops, Loops
<1> HIDE DEF t, u, v, m
<1>4. t.k = "struct" /\ u.k = "struct" /\ t.width \in {0, 1, 2, 4} /\ u.width = t.width /\ Structs(t, v, u, m)
  BY <1>1 DEF Framing, Structs
<1>5. Persists(q)
  <2>1. OverloadPersists(t, v)
    BY <1>4, StructPersists
  <2> QED  BY <1>2, <2>1, Zenon DEF Persists, OverloadPersists, t, v
<1>6. ASSUME NEW le \in BOOLEAN  PROVE Settles(q, le)
  <2>1. \A n \in 1 .. Len(v) : \E p : FieldPart(t, v, u, m, n, p) /\ Settles(p, le) /\ Persists(p)
    BY <1>1, <1>6, Zenon DEF Sound
  <2>2. FieldsSettle(t, v, u, m, 1, le)
    BY <1>3, <1>4, <2>1, FieldsSettled
  <2>3. \A o : Clean(o, le) => StructEnclosure(o, t, v, le, WriteOverload(o, t, v))
    BY <1>4, StructEnclosed
  <2>4. ~Telling(u, m)
    BY <1>4 DEF Telling
  <2>5. CASE RestRefuses(t, v, 1, le)
    BY <1>2, <2>3, <2>5, Zenon DEF StructEnclosure, Settles, Refuses, t, v
  <2>6. ASSUME NEW c \in Chunks, NEW d \in Chunks, FieldsCarried(t, v, u, m, 1, le, c, d)
        PROVE  Settles(q, le)
    <3>1. PICK b \in Chunks : b = c \o d
      BY ChunkConcat
    <3>2. RestPuts(t, v, 1, le, b)
      BY <2>6, <3>1, Zenon DEF FieldsCarried
    <3>3. \A o : Clean(o, le) => FrameOutcome(WriteOverload(o, t, v), o, t.width, b, le)
      BY <2>3, <3>2, Zenon DEF StructEnclosure
    <3>4. CASE ~Frames(t.width, b)
      BY <1>2, <3>3, <3>4, Zenon DEF FrameOutcome, Settles, Refuses, t, v
    <3>5. CASE Frames(t.width, b)
      <4>1. PICK e \in Chunks : e = Framed(t.width, b, le)
        BY <1>4, <1>6, FramedChunk
      <4>2. Puts(q, le, e)
        BY <1>2, <3>3, <3>5, <4>1, Zenon DEF FrameOutcome, Puts, t, v
      <4>3. ASSUME NEW i, Ready(i, le), Ahead(i, e)  PROVE ReadOverload(i, u) = Result(Moved(i, Bytes(e)), m)
        <5>1. Frames(u.width, c \o d) /\ e = Framed(u.width, c \o d, le)
          BY <1>4, <3>1, <3>5, <4>1
        <5>2. Ahead(i, Framed(u.width, c \o d, le))
          BY <4>3, <5>1
        <5>3. ReadOverload(i, u) = Result(Moved(i, Bytes(Framed(u.width, c \o d, le))), m)
          BY <1>1, <1>3, <2>6, <4>3, <5>1, <5>2, StructFound
        <5> QED  BY <5>1, <5>3, Zenon
      <4>4. Gets(q, le, e)
        BY <1>2, <4>3, Zenon DEF Gets, u, m
      <4> QED  BY <2>4, <4>2, <4>4, Zenon DEF Settles, u, m
    <3> QED  BY <3>4, <3>5
  <2> QED  BY <2>2, <2>5, <2>6, Zenon DEF FieldsSettle
<1> QED  BY <1>5, <1>6 DEF Sound

-----------------------------------------------------------------------------
(* Variants: a type and a length, in the order of the deployment, and the    *)
(* content, which a receiver skips that does not know the type.              *)

VariantBytes(order, width, twidth, alt, c, le) ==
  IF order THEN Number(Bytes(c), width, le) \o (Number(alt, twidth, le) \o c)
  ELSE Number(alt, twidth, le) \o (Number(Bytes(c), width, le) \o c)

\* A writer behind the type and the length field.
VariantOpened(o, order, width, twidth, alt) ==
  IF order THEN PushPosition(WriteNumber(WriteNumber(PushPosition(o), 0, width), alt, twidth))
  ELSE OpenField(WriteNumber(o, alt, twidth), width)

\* The type is behind the length field.
TypeBehind(b, o, width, twidth, alt, le) ==
  /\ Clean(b, le) /\ b.bits = o.bits \o Number(0, width, le) \o Number(alt, twidth, le)
  /\ b.marks = o.marks \o <<Bytes(o.bits), Bytes(o.bits) + width + twidth>>

LEMMA TypeWritten ==
  ASSUME NEW o, NEW le, Clean(o, le), NEW width \in {1, 2, 4}, NEW twidth \in {1, 2, 4}, NEW alt \in Nat
  PROVE  /\ Holds(twidth, alt) =>
              TypeBehind(VariantOpened(o, TRUE, width, twidth, alt), o, width, twidth, alt, le)
         /\ ~Holds(twidth, alt) => Faulty(VariantOpened(o, TRUE, width, twidth, alt))
<1>0. /\ o \in Outputs /\ o.bits \in Seq(Bit) /\ Len(o.bits) \in Nat /\ Len(o.bits) % 8 = 0
      /\ o.marks \in Seq(Nat) /\ le \in BOOLEAN
  BY CleanFields
<1>1. PICK q : q = PushPosition(o)
  OBVIOUS
<1>2. Clean(q, le) /\ q.bits = o.bits /\ q.marks = Append(o.marks, Bytes(o.bits))
  BY <1>1, MarkedClean
<1>3. PICK y \in Chunks, s \in Chunks :
        y = Number(0, width, le) /\ Bytes(y) = width /\ s = Number(alt, twidth, le) /\ Bytes(s) = twidth
  <2>1. 0 \in Nat
    OBVIOUS
  <2> QED  BY <1>0, <2>1, NumberChunk
<1>4. PICK r : r = WriteNumber(q, 0, width)
  OBVIOUS
<1>5. r = WriteRaw(q, y)
  <2>1. 0 \in Nat /\ Holds(width, 0)
    BY ZeroHeld
  <2>2. WriteNumber(q, 0, width) = WriteRaw(q, Number(0, width, le))
    BY <1>2, <2>1, NumberPut
  <2> QED  BY <1>3, <1>4, <2>2
<1>6. Clean(r, le) /\ r.bits = o.bits \o y /\ r.marks = Append(o.marks, Bytes(o.bits))
  <2>1. y \in Seq(Bit) /\ q \in Outputs
    BY <1>2, CleanFields, ChunkType
  <2>2. WriteRaw(q, y).bits = q.bits \o y /\ WriteRaw(q, y).marks = q.marks
    BY <2>1, RawFields
  <2>3. Clean(WriteRaw(q, y), le)
    BY <1>2, CleanWritten
  <2> QED  BY <1>2, <1>5, <2>2, <2>3
<1>7. VariantOpened(o, TRUE, width, twidth, alt) = PushPosition(WriteNumber(r, alt, twidth))
  BY <1>1, <1>4, Zenon DEF VariantOpened
<1>8. CASE ~Holds(twidth, alt)
  <2>1. Faulty(WriteNumber(r, alt, twidth))
    BY <1>6, <1>8, NumberPut
  <2>2. Faulty(PushPosition(WriteNumber(r, alt, twidth)))
    BY <2>1, FaultyRaw
  <2> QED  BY <1>7, <1>8, <2>2, Zenon
<1>9. CASE Holds(twidth, alt)
  <2>1. PICK w : w = WriteNumber(r, alt, twidth)
    OBVIOUS
  <2>2. w = WriteRaw(r, s)
    <3>1. WriteNumber(r, alt, twidth) = WriteRaw(r, Number(alt, twidth, le))
      BY <1>6, <1>9, NumberPut
    <3> QED  BY <1>3, <2>1, <3>1
  <2>3. Clean(w, le) /\ w.bits = o.bits \o y \o s /\ w.marks = Append(o.marks, Bytes(o.bits))
    <3>1. s \in Seq(Bit) /\ r \in Outputs
      BY <1>6, CleanFields, ChunkType
    <3>2. WriteRaw(r, s).bits = r.bits \o s /\ WriteRaw(r, s).marks = r.marks
      BY <3>1, RawFields
    <3>3. Clean(WriteRaw(r, s), le)
      BY <1>6, CleanWritten
    <3> QED  BY <1>6, <2>2, <3>2, <3>3
  <2>4. PICK b : b = PushPosition(w)
    OBVIOUS
  <2>5. Clean(b, le) /\ b.bits = w.bits /\ b.marks = Append(w.marks, Bytes(w.bits))
    BY <2>3, <2>4, MarkedClean
  <2>6. Bytes(w.bits) = Bytes(o.bits) + width + twidth /\ Bytes(o.bits) \in Nat
    <3>1. o.bits \in Chunks
      BY <1>0 DEF Chunks
    <3>2. o.bits \o y \in Chunks /\ Bytes(o.bits \o y) = Bytes(o.bits) + Bytes(y)
      BY <3>1, ChunkConcat
    <3>3. PICK z \in Chunks : z = o.bits \o y /\ Bytes(z) = Bytes(o.bits) + width
      BY <1>3, <3>2
    <3>4. Bytes(z \o s) = Bytes(z) + Bytes(s)
      BY ChunkConcat
    <3>5. Bytes(o.bits) \in Nat
      BY <3>1, ChunkType
    <3> QED  BY <1>3, <2>3, <3>3, <3>4, <3>5
  <2>7. b.marks = o.marks \o <<Bytes(o.bits), Bytes(o.bits) + width + twidth>>
    <3>1. b.marks = Append(Append(o.marks, Bytes(o.bits)), Bytes(o.bits) + width + twidth)
      BY <2>3, <2>5, <2>6
    <3>2. PICK p \in Nat, k \in Nat : p = Bytes(o.bits) /\ k = Bytes(o.bits) + width + twidth
      BY <2>6
    <3>3. Append(Append(o.marks, p), k) = o.marks \o <<p, k>>
      BY <1>0
    <3> QED  BY <3>1, <3>2, <3>3
  <2>8. TypeBehind(b, o, width, twidth, alt, le)
    BY <1>3, <2>3, <2>5, <2>7 DEF TypeBehind
  <2> QED  BY <1>7, <1>9, <2>1, <2>4, <2>8, Zenon
<1> QED  BY <1>8, <1>9

VariantOutcome(f, o, order, width, twidth, alt, c, le) ==
  /\ Holds(width, Bytes(c)) => f = WriteRaw(o, VariantBytes(order, width, twidth, alt, c, le))
  /\ ~Holds(width, Bytes(c)) => Faulty(f)

VariantWritten(o, order, width, twidth, alt, le) ==
  /\ ~Holds(twidth, alt) => Faulty(VariantOpened(o, order, width, twidth, alt))
  /\ Holds(twidth, alt) =>
       /\ Clean(VariantOpened(o, order, width, twidth, alt), le)
       /\ \A c \in Chunks :
            VariantOutcome(CloseField(WriteRaw(VariantOpened(o, order, width, twidth, alt), c), width),
                           o, order, width, twidth, alt, c, le)

LEMMA TypeFirst ==
  ASSUME NEW o, NEW le, Clean(o, le), NEW width \in {1, 2, 4}, NEW twidth \in {1, 2, 4}, NEW alt \in Nat
  PROVE  VariantWritten(o, FALSE, width, twidth, alt, le)
<1>1. VariantOpened(o, FALSE, width, twidth, alt) = OpenField(WriteNumber(o, alt, twidth), width)
  BY Zenon DEF VariantOpened
<1>2. CASE ~Holds(twidth, alt)
  <2>1. Faulty(WriteNumber(o, alt, twidth))
    BY <1>2, NumberPut
  <2>2. Faulty(OpenField(WriteNumber(o, alt, twidth), width))
    BY <2>1, FaultyField
  <2> QED  BY <1>1, <1>2, <2>2, Zenon DEF VariantWritten
<1>3. CASE Holds(twidth, alt)
  <2>0. o \in Outputs /\ le \in BOOLEAN
    BY CleanFields
  <2>1. PICK s \in Chunks : s = Number(alt, twidth, le)
    BY <2>0, NumberChunk
  <2>2. PICK p : p = WriteNumber(o, alt, twidth)
    OBVIOUS
  <2>3. p = WriteRaw(o, s)
    <3>1. WriteNumber(o, alt, twidth) = WriteRaw(o, Number(alt, twidth, le))
      BY <1>3, NumberPut
    <3> QED  BY <2>1, <2>2, <3>1
  <2>4. Clean(p, le)
    <3>1. Clean(WriteRaw(o, s), le)
      BY CleanWritten
    <3> QED  BY <2>3, <3>1
  <2>5. Clean(OpenField(p, width), le)
    BY <2>4, FieldOpenedClean
  <2>6. ASSUME NEW c \in Chunks
        PROVE  VariantOutcome(CloseField(WriteRaw(OpenField(p, width), c), width),
                              o, FALSE, width, twidth, alt, c, le)
    <3>1. PICK f : f = CloseField(WriteRaw(OpenField(p, width), c), width)
      OBVIOUS
    <3>2. /\ Holds(width, Bytes(c)) => f = WriteRaw(p, Number(Bytes(c), width, le) \o c)
          /\ ~Holds(width, Bytes(c)) => Faulty(f)
      BY <2>4, <3>1, FieldWritten
    <3>3. PICK e \in Chunks : e = Number(Bytes(c), width, le)
      BY <2>0, ChunkType, NumberChunk
    <3>4. s \in Seq(Bit) /\ e \o c \in Seq(Bit)
      <4>1. e \o c \in Chunks
        BY ChunkConcat
      <4> QED  BY <4>1, ChunkType
    <3>5. WriteRaw(p, e \o c) = WriteRaw(o, s \o (e \o c))
      BY <2>0, <2>3, <3>4, WrittenTwice
    <3>6. VariantBytes(FALSE, width, twidth, alt, c, le) = s \o (e \o c)
      BY <2>1, <3>3, Zenon DEF VariantBytes
    <3>7. VariantOutcome(f, o, FALSE, width, twidth, alt, c, le)
      BY <3>2, <3>3, <3>5, <3>6, Zenon DEF VariantOutcome
    <3> QED  BY <3>1, <3>7
  <2> QED  BY <1>1, <1>3, <2>2, <2>5, <2>6, Zenon DEF VariantWritten
<1> QED  BY <1>2, <1>3

LEMMA TypeSecond ==
  ASSUME NEW o, NEW le, Clean(o, le), NEW width \in {1, 2, 4}, NEW twidth \in {1, 2, 4}, NEW alt \in Nat
  PROVE  VariantWritten(o, TRUE, width, twidth, alt, le)
<1>1. PICK b : b = VariantOpened(o, TRUE, width, twidth, alt)
  OBVIOUS
<1>2. /\ Holds(twidth, alt) => TypeBehind(b, o, width, twidth, alt, le)
      /\ ~Holds(twidth, alt) => Faulty(b)
  BY <1>1, TypeWritten
<1>3. ASSUME Holds(twidth, alt)
      PROVE  /\ Clean(b, le)
             /\ \A c \in Chunks : VariantOutcome(CloseField(WriteRaw(b, c), width), o, TRUE, width, twidth, alt, c, le)
  <2>1. /\ Clean(b, le) /\ b.bits = o.bits \o Number(0, width, le) \o Number(alt, twidth, le)
        /\ b.marks = o.marks \o <<Bytes(o.bits), Bytes(o.bits) + width + twidth>>
    BY <1>2, <1>3 DEF TypeBehind
  <2>2. /\ o \in Outputs /\ o.bits \in Seq(Bit) /\ Len(o.bits) \in Nat /\ Len(o.bits) % 8 = 0 /\ o.err = FALSE
        /\ o.le = le /\ le \in BOOLEAN /\ o.marks \in Seq(Nat)
    BY CleanFields
  <2>3. b \in Outputs /\ b.err = FALSE /\ b.le = le
    BY <2>1, CleanFields
  <2>4. PICK x \in Chunks : x = o.bits
    BY <2>2 DEF Chunks
  <2>5. PICK y \in Chunks, s \in Chunks :
          y = Number(0, width, le) /\ Bytes(y) = width /\ s = Number(alt, twidth, le) /\ Bytes(s) = twidth
    <3>1. 0 \in Nat
      OBVIOUS
    <3> QED  BY <2>2, <3>1, NumberChunk
  <2>6. x \in Seq(Bit) /\ y \in Seq(Bit) /\ s \in Seq(Bit) /\ Bytes(x) \in Nat
    BY ChunkType
  <2>7. ASSUME NEW c \in Chunks
        PROVE  VariantOutcome(CloseField(WriteRaw(b, c), width), o, TRUE, width, twidth, alt, c, le)
    <3>1. c \in Seq(Bit) /\ s \o c \in Seq(Bit) /\ Bytes(c) \in Nat
      BY <2>6, BitsJoined, ChunkType
    <3>2. PICK a : a = WriteRaw(b, c)
      OBVIOUS
    <3>3. a \in Outputs /\ a.bits = b.bits \o c /\ a.err = FALSE /\ a.marks = b.marks /\ a.le = le
      BY <2>3, <3>1, <3>2, RawFields
    <3>4. a.bits = x \o y \o (s \o c)
      <4>1. a.bits = ((x \o y) \o s) \o c
        BY <2>1, <2>4, <2>5, <3>3
      <4>2. x \o y \in Seq(Bit)
        BY <2>6, BitsJoined
      <4>3. ((x \o y) \o s) \o c = (x \o y) \o (s \o c)
        BY <2>6, <3>1, <4>2, BitsAssociative
      <4> QED  BY <4>1, <4>3
    <3>5. a.marks = o.marks \o <<Bytes(x), Bytes(x) + width + Bytes(s)>>
      BY <2>1, <2>4, <2>5, <3>3
    <3>6. Stream(a, x \o y \o (s \o c), o.marks \o <<Bytes(x), Bytes(x) + width + Bytes(s)>>, le)
      BY <3>3, <3>4, <3>5, Zenon DEF Stream
    <3>7. PICK d : d = CloseField(a, width)
      OBVIOUS
    <3>8. PICK e \in Chunks : e = Number(Bytes(c), width, le)
      BY <2>2, <3>1, NumberChunk
    <3>9. /\ Holds(width, Bytes(c)) => Stream(d, x \o e \o (s \o c), o.marks, le)
          /\ ~Holds(width, Bytes(c)) => Faulty(d)
      <4>1. le \in BOOLEAN /\ o.marks \in Seq(Nat) /\ Bytes(y) = width
        BY <2>2, <2>5
      <4>2. /\ Holds(width, Bytes(c)) =>
                 Stream(CloseField(a, width), x \o Number(Bytes(c), width, le) \o (s \o c), o.marks, le)
            /\ ~Holds(width, Bytes(c)) => Faulty(CloseField(a, width))
        BY <3>6, <4>1, FieldClosed
      <4> QED  BY <3>7, <3>8, <4>2
    <3>10. VariantBytes(TRUE, width, twidth, alt, c, le) = e \o (s \o c)
      BY <2>5, <3>8, Zenon DEF VariantBytes
    <3>11. ASSUME Holds(width, Bytes(c))  PROVE d = WriteRaw(o, e \o (s \o c))
      <4>1. PICK z \in Seq(Bit) : z = s \o c
        BY <3>1
      <4>2. e \in Seq(Bit) /\ e \o z \in Seq(Bit)
        BY ChunkType, BitsJoined
      <4>3. PICK w : w = WriteRaw(o, e \o z)
        OBVIOUS
      <4>4. w \in Outputs /\ w.bits = x \o (e \o z) /\ w.err = FALSE /\ w.marks = o.marks /\ w.le = le
        BY <2>2, <2>4, <4>2, <4>3, RawFields
      <4>5. (x \o e) \o z = x \o (e \o z)
        BY <2>6, <4>2, BitsAssociative
      <4>6. /\ d \in Outputs /\ d.bits = (x \o e) \o z /\ d.err = FALSE /\ d.marks = o.marks /\ d.le = le
        BY <3>9, <3>11, <4>1 DEF Stream
      <4>7. d.bits = w.bits /\ d.err = w.err /\ d.marks = w.marks /\ d.le = w.le
        BY <4>4, <4>5, <4>6
      <4>8. d = w
        BY <4>4, <4>6, <4>7, SameOutput
      <4> QED  BY <4>1, <4>3, <4>8
    <3>12. VariantOutcome(d, o, TRUE, width, twidth, alt, c, le)
      BY <3>9, <3>10, <3>11, Zenon DEF VariantOutcome
    <3> QED  BY <3>2, <3>7, <3>12
  <2> QED  BY <2>1, <2>7
<1> QED  BY <1>1, <1>2, <1>3, Zenon DEF VariantWritten

\* A reader behind the type and the length field.
VariantHeaded(h, i, alt, c, d, le) ==
  /\ h.alt = alt /\ h.size = Bytes(c) /\ Ready(h.i, le) /\ Ahead(h.i, c)
  /\ Moved(h.i, Bytes(c)) = Moved(i, Bytes(d))

\* Two numbers and what follows them.
Numbers(i, a, b, c, le) ==
  /\ Ahead(i, a) /\ Ready(Moved(i, Bytes(a)), le) /\ Ahead(Moved(i, Bytes(a)), b)
  /\ Ready(Moved(Moved(i, Bytes(a)), Bytes(b)), le) /\ Ahead(Moved(Moved(i, Bytes(a)), Bytes(b)), c)
  /\ Moved(Moved(Moved(i, Bytes(a)), Bytes(b)), Bytes(c)) = Moved(i, Bytes(a \o (b \o c)))

LEMMA NumbersAhead ==
  ASSUME NEW i, NEW le, Ready(i, le), NEW a \in Chunks, NEW b \in Chunks, NEW c \in Chunks,
         Ahead(i, a \o (b \o c))
  PROVE  Numbers(i, a, b, c, le)
<1>1. PICK d \in Chunks : d = b \o c
  BY ChunkConcat
<1>2. Ahead(i, a \o d)
  BY <1>1
<1>3. PICK j : j = Moved(i, Bytes(a))
  OBVIOUS
<1>4. /\ Ahead(i, a) /\ Ready(j, le) /\ Ahead(j, d) /\ Moved(j, Bytes(d)) = Moved(i, Bytes(a \o d))
  BY <1>2, <1>3, AheadSplit
<1>5. Ahead(j, b \o c)
  BY <1>1, <1>4
<1>6. /\ Ahead(j, b) /\ Ready(Moved(j, Bytes(b)), le) /\ Ahead(Moved(j, Bytes(b)), c)
      /\ Moved(Moved(j, Bytes(b)), Bytes(c)) = Moved(j, Bytes(b \o c))
  BY <1>4, <1>5, AheadSplit
<1>7. Moved(Moved(j, Bytes(b)), Bytes(c)) = Moved(i, Bytes(a \o (b \o c)))
  BY <1>1, <1>4, <1>6, Zenon
<1> QED  BY <1>3, <1>4, <1>6, <1>7, Zenon DEF Numbers

LEMMA VariantHeadFound ==
  ASSUME NEW i, NEW le, Ready(i, le), NEW u, u.width \in {1, 2, 4}, u.twidth \in {1, 2, 4}, u.order \in BOOLEAN,
         NEW alt \in Nat, Holds(u.twidth, alt), NEW c \in Chunks, Holds(u.width, Bytes(c)),
         NEW d, d = VariantBytes(u.order, u.width, u.twidth, alt, c, le), Ahead(i, d)
  PROVE  VariantHeaded(VariantHead(i, u), i, alt, c, d, le)
<1>1. le \in BOOLEAN /\ Bytes(c) \in Nat /\ u.width # 0
  <2>1. le \in BOOLEAN
    BY ReadyFields
  <2>2. Bytes(c) \in Nat
    BY ChunkType
  <2> QED  BY <2>1, <2>2
<1>2. PICK s \in Chunks : s = Number(alt, u.twidth, le) /\ Bytes(s) = u.twidth
  BY <1>1, NumberChunk
<1>3. PICK e \in Chunks : e = Number(Bytes(c), u.width, le) /\ Bytes(e) = u.width
  BY <1>1, NumberChunk
<1>4. PICK h : h = VariantHead(i, u)
  OBVIOUS
<1>5. CASE u.order = TRUE
  <2>1. d = e \o (s \o c)
    BY <1>2, <1>3, <1>5, Zenon DEF VariantBytes
  <2>2. Numbers(i, e, s, c, le)
    BY <2>1, NumbersAhead
  <2>3. PICK j, k : j = Moved(i, Bytes(e)) /\ k = Moved(j, Bytes(s))
    OBVIOUS
  <2>4. /\ Ahead(i, e) /\ Ready(j, le) /\ Ahead(j, s) /\ Ready(k, le) /\ Ahead(k, c)
        /\ Moved(k, Bytes(c)) = Moved(i, Bytes(d))
    BY <2>1, <2>2, <2>3, Zenon DEF Numbers
  <2>5. ReadNumber(i, u.width, TRUE) = [i |-> j, n |-> Bytes(c)]
    <3>1. Ahead(i, Number(Bytes(c), u.width, le)) /\ j = Moved(i, u.width)
      BY <1>3, <2>3, <2>4
    <3>2. ReadNumber(i, u.width, TRUE) = [i |-> Moved(i, u.width), n |-> Bytes(c)]
      <4>1. PICK x \in Nat : x = Bytes(c)
        BY <1>1
      <4>2. Holds(u.width, x) /\ Ahead(i, Number(x, u.width, le))
        BY <3>1, <4>1
      <4>3. PICK w, permitted : w = u.width /\ permitted = TRUE
        OBVIOUS
      <4>4. w \in {1, 2, 4} /\ Holds(w, x) /\ Ahead(i, Number(x, w, le))
        BY <4>2, <4>3
      <4>5. ReadNumber(i, w, permitted) = [i |-> Moved(i, w), n |-> x]
        BY <4>4, NumberRead
      <4> QED  BY <4>1, <4>3, <4>5
    <3> QED  BY <3>1, <3>2, Zenon
  <2>6. ReadNumber(j, u.twidth, FALSE) = [i |-> k, n |-> alt]
    <3>1. Ahead(j, Number(alt, u.twidth, le)) /\ k = Moved(j, u.twidth)
      BY <1>2, <2>3, <2>4
    <3>2. ReadNumber(j, u.twidth, FALSE) = [i |-> Moved(j, u.twidth), n |-> alt]
      BY <2>4, <3>1, NumberRead
    <3> QED  BY <3>1, <3>2, Zenon
  <2>7. h = [i |-> k, alt |-> alt, size |-> Bytes(c)]
    <3>1. PICK n : n = ReadNumber(i, u.width, TRUE)
      OBVIOUS
    <3>2. n.i = j /\ n.n = Bytes(c)
      <4>1. n = [i |-> j, n |-> Bytes(c)]
        BY <2>5, <3>1, Zenon
      <4> QED  BY <4>1
    <3>3. PICK m : m = ReadNumber(n.i, u.twidth, FALSE)
      OBVIOUS
    <3>4. m.i = k /\ m.n = alt
      <4>1. m = [i |-> k, n |-> alt]
        BY <2>6, <3>2, <3>3, Zenon
      <4> QED  BY <4>1
    <3>5. h = [i |-> m.i, alt |-> m.n, size |-> IF u.width = 0 THEN u.max ELSE n.n]
      BY <1>4, <1>5, <3>1, <3>3, Zenon DEF VariantHead, TypeAfter
    <3>6. (IF u.width = 0 THEN u.max ELSE n.n) = Bytes(c)
      BY <1>1, <3>2
    <3> QED  BY <3>4, <3>5, <3>6, Zenon
  <2>8. h.i = k /\ h.alt = alt /\ h.size = Bytes(c)
    BY <2>7
  <2> QED  BY <1>4, <2>4, <2>8, Zenon DEF VariantHeaded
<1>6. CASE u.order = FALSE
  <2>1. d = s \o (e \o c)
    BY <1>2, <1>3, <1>6, Zenon DEF VariantBytes
  <2>2. Numbers(i, s, e, c, le)
    BY <2>1, NumbersAhead
  <2>3. PICK j, k : j = Moved(i, Bytes(s)) /\ k = Moved(j, Bytes(e))
    OBVIOUS
  <2>4. /\ Ahead(i, s) /\ Ready(j, le) /\ Ahead(j, e) /\ Ready(k, le) /\ Ahead(k, c)
        /\ Moved(k, Bytes(c)) = Moved(i, Bytes(d))
    BY <2>1, <2>2, <2>3, Zenon DEF Numbers
  <2>5. ReadNumber(i, u.twidth, FALSE) = [i |-> j, n |-> alt]
    <3>1. Ahead(i, Number(alt, u.twidth, le)) /\ j = Moved(i, u.twidth)
      BY <1>2, <2>3, <2>4
    <3>2. ReadNumber(i, u.twidth, FALSE) = [i |-> Moved(i, u.twidth), n |-> alt]
      BY <3>1, NumberRead
    <3> QED  BY <3>1, <3>2, Zenon
  <2>6. ReadNumber(j, u.width, TRUE) = [i |-> k, n |-> Bytes(c)]
    <3>1. Ahead(j, Number(Bytes(c), u.width, le)) /\ k = Moved(j, u.width)
      BY <1>3, <2>3, <2>4
    <3>2. ReadNumber(j, u.width, TRUE) = [i |-> Moved(j, u.width), n |-> Bytes(c)]
      <4>1. PICK x \in Nat : x = Bytes(c)
        BY <1>1
      <4>2. Holds(u.width, x) /\ Ahead(j, Number(x, u.width, le))
        BY <3>1, <4>1
      <4>3. PICK w, permitted : w = u.width /\ permitted = TRUE
        OBVIOUS
      <4>4. w \in {1, 2, 4} /\ Holds(w, x) /\ Ahead(j, Number(x, w, le))
        BY <4>2, <4>3
      <4>5. ReadNumber(j, w, permitted) = [i |-> Moved(j, w), n |-> x]
        BY <2>4, <4>4, NumberRead
      <4> QED  BY <4>1, <4>3, <4>5
    <3> QED  BY <3>1, <3>2, Zenon
  <2>7. h = [i |-> k, alt |-> alt, size |-> Bytes(c)]
    <3>1. PICK n : n = ReadNumber(i, u.twidth, FALSE)
      OBVIOUS
    <3>2. n.i = j /\ n.n = alt
      <4>1. n = [i |-> j, n |-> alt]
        BY <2>5, <3>1, Zenon
      <4> QED  BY <4>1
    <3>3. PICK m : m = ReadNumber(n.i, u.width, TRUE)
      OBVIOUS
    <3>4. m.i = k /\ m.n = Bytes(c)
      <4>1. m = [i |-> k, n |-> Bytes(c)]
        BY <2>6, <3>2, <3>3, Zenon
      <4> QED  BY <4>1
    <3>5. h = [i |-> m.i, alt |-> n.n, size |-> IF u.width = 0 THEN u.max ELSE m.n]
      BY <1>4, <1>6, <3>1, <3>3, Zenon DEF VariantHead, LengthAfter
    <3>6. (IF u.width = 0 THEN u.max ELSE m.n) = Bytes(c)
      BY <1>1, <3>4
    <3> QED  BY <3>2, <3>4, <3>5, <3>6, Zenon
  <2>8. h.i = k /\ h.alt = alt /\ h.size = Bytes(c)
    BY <2>7
  <2> QED  BY <1>4, <2>4, <2>8, Zenon DEF VariantHeaded
<1> QED  BY <1>5, <1>6

\* The content of a variant: the value of a type that the receiver knows, or of one it does not.
AlternativePart(t, v, u, m, q) ==
  /\ q.type = t.alts[v.alt] /\ q.value = v.val
  /\ v.alt \in DOMAIN u.alts => q.reads = u.alts[v.alt] /\ q.meant = m.val
  /\ v.alt \notin DOMAIN u.alts => m.val = <<>>

Variants(t, v, u, m) ==
  /\ t.k = "variant" /\ u.k = "variant" /\ u.width = t.width /\ u.twidth = t.twidth /\ u.order = t.order
  /\ t.width \in {1, 2, 4} /\ t.twidth \in {1, 2, 4} /\ t.order \in BOOLEAN
  /\ v.alt \in Nat \ {0} /\ m = [alt |-> v.alt, val |-> m.val]

\* The reader r of the content has j ahead, behind left bytes.
ContentRead(r, left, j, val) ==
  r.i \in Inputs /\ r.i.err = FALSE /\ left \in Nat /\ left <= r.i.rem /\ Moved(r.i, left) = j /\ r.v = val

LEMMA ContentSkipped ==
  ASSUME NEW r, NEW left, NEW j, NEW val, ContentRead(r, left, j, val), NEW alt
  PROVE  SkipPadding(r, alt, left) = Result(j, [alt |-> alt, val |-> val])
<1>1. r.i \in Inputs /\ r.i.err = FALSE /\ left \in Nat /\ left <= r.i.rem /\ Moved(r.i, left) = j /\ r.v = val
  BY DEF ContentRead
<1>2. ReadRaw(r.i, left) = j
  BY <1>1, RawMoved
<1>3. ~(left < 0) /\ ~r.i.err
  BY <1>1
<1>4. (IF left < 0 THEN Fail(r.i) ELSE IF r.i.err THEN r.i ELSE ReadRaw(r.i, left)) = j
  BY <1>2, <1>3, Zenon
<1> QED  BY <1>1, <1>4, Zenon DEF SkipPadding

LEMMA AlternativeFound ==
  ASSUME NEW t, NEW v, NEW u, NEW m, Variants(t, v, u, m), NEW q, AlternativePart(t, v, u, m, q), NEW le,
         NEW c \in Chunks, Gets(q, le, c), NEW h, h.alt = v.alt, h.size = Bytes(c), Ready(h.i, le), Ahead(h.i, c),
         NEW r, r = Alternative(h, u)
  PROVE  ContentRead(r, h.size - (h.i.rem - r.i.rem), Moved(h.i, Bytes(c)), m.val)
<1>1. PICK j : j = h.i
  OBVIOUS
<1>2. j \in Inputs /\ j.rem \in Nat /\ j.err = FALSE /\ Bytes(c) \in Nat /\ Bytes(c) <= j.rem
  BY <1>1, ReadyFields, ChunkType DEF Ready, Ahead
<1>3. CASE v.alt \in DOMAIN u.alts
  <2>1. q.reads = u.alts[v.alt] /\ q.meant = m.val
    BY <1>3 DEF AlternativePart
  <2>2. r = Read(j, q.reads)
    BY <1>1, <1>3, <2>1, Zenon DEF Alternative
  <2>3. Got(j, q, le, c)
    BY <1>1, GotReady
  <2>4. r.i = Moved(j, Bytes(c)) /\ r.v = m.val /\ Ready(Moved(j, Bytes(c)), le) /\ Moved(j, Bytes(c)).err = FALSE
    BY <2>1, <2>2, <2>3, Zenon DEF Got
  <2>5. r.i \in Inputs /\ r.i.err = FALSE /\ r.i.rem \in Nat
    BY <2>4, ReadyFields DEF Ready
  <2>6. r.i.rem = j.rem - Bytes(c)
    BY <1>2, <2>4, MovedFields
  <2>7. h.size - (h.i.rem - r.i.rem) = 0
    <3>1. PICK x \in Nat, y \in Nat : x = j.rem /\ y = Bytes(c)
      BY <1>2
    <3>2. h.size - (h.i.rem - r.i.rem) = y - (x - (x - y))
      BY <1>1, <2>6, <3>1
    <3> QED  BY <3>2
  <2>8. Moved(r.i, 0) = r.i
    BY <2>5, MovedNowhere
  <2> QED  BY <1>1, <2>4, <2>5, <2>7, <2>8 DEF ContentRead
<1>4. CASE v.alt \notin DOMAIN u.alts
  <2>1. m.val = <<>>
    BY <1>4 DEF AlternativePart
  <2>2. r = Result(j, <<>>)
    BY <1>1, <1>4, Zenon DEF Alternative
  <2>3. r.i = j /\ r.v = m.val
    BY <2>1, <2>2 DEF Result
  <2>4. h.size - (h.i.rem - r.i.rem) = Bytes(c)
    BY <1>1, <1>2, <2>3
  <2> QED  BY <1>1, <1>2, <2>3, <2>4 DEF ContentRead
<1> QED  BY <1>3, <1>4

LEMMA VariantFound ==
  ASSUME NEW t, NEW v, NEW u, NEW m, Variants(t, v, u, m), NEW q, AlternativePart(t, v, u, m, q), NEW le,
         NEW c \in Chunks, Gets(q, le, c), Holds(t.twidth, v.alt), Holds(t.width, Bytes(c)),
         NEW d, d = VariantBytes(t.order, t.width, t.twidth, v.alt, c, le),
         NEW i, Ready(i, le), Ahead(i, d)
  PROVE  ReadOverload(i, u) = Result(Moved(i, Bytes(d)), m)
<1>1. /\ u.k = "variant" /\ u.width \in {1, 2, 4} /\ u.twidth \in {1, 2, 4} /\ u.order \in BOOLEAN
      /\ v.alt \in Nat /\ v.alt # 0 /\ m = [alt |-> v.alt, val |-> m.val]
      /\ Holds(u.twidth, v.alt) /\ Holds(u.width, Bytes(c))
      /\ d = VariantBytes(u.order, u.width, u.twidth, v.alt, c, le)
  BY DEF Variants
<1>2. PICK h : h = VariantHead(i, u)
  OBVIOUS
<1>3. VariantHeaded(h, i, v.alt, c, d, le)
  <2>1. PICK alt \in Nat : alt = v.alt
    BY <1>1
  <2>2. Holds(u.twidth, alt) /\ d = VariantBytes(u.order, u.width, u.twidth, alt, c, le)
    BY <1>1, <2>1
  <2>3. VariantHeaded(VariantHead(i, u), i, alt, c, d, le)
    BY <1>1, <2>2, VariantHeadFound
  <2> QED  BY <1>2, <2>1, <2>3
<1>4. /\ h.alt = v.alt /\ h.size = Bytes(c) /\ Ready(h.i, le) /\ Ahead(h.i, c)
      /\ Moved(h.i, Bytes(c)) = Moved(i, Bytes(d))
  BY <1>3 DEF VariantHeaded
<1>5. ReadOverload(i, u) = AfterHead(h, u)
  <2>1. AlignIn(i) = i
    BY ReadyFields, AlignedReader
  <2>2. ReadOverload(i, u) = ReadVariant(i, u)
    BY <1>1, ContainerOverloads
  <2> QED  BY <1>2, <2>1, <2>2, Zenon DEF ReadVariant
<1>6. PICK r : r = Alternative(h, u)
  OBVIOUS
<1>7. ContentRead(r, h.size - (h.i.rem - r.i.rem), Moved(h.i, Bytes(c)), m.val)
  BY <1>4, <1>6, AlternativeFound
<1>8. AfterHead(h, u) = SkipPadding(r, h.alt, h.size - (h.i.rem - r.i.rem))
  <2>1. h.i.err = FALSE
    BY <1>4, ReadyFields
  <2>2. ~(h.i.err \/ h.alt = 0)
    BY <1>1, <1>4, <2>1
  <2> QED  BY <1>6, <2>2, Zenon DEF AfterHead, ContentAfter
<1>9. SkipPadding(r, h.alt, h.size - (h.i.rem - r.i.rem)) = Result(Moved(h.i, Bytes(c)), [alt |-> h.alt, val |-> m.val])
  BY <1>7, ContentSkipped
<1> QED  BY <1>1, <1>4, <1>5, <1>8, <1>9, Zenon

VariantRun(o, b, t, v) ==
  /\ Faulty(b) => WriteOverload(o, t, v) = CloseField(b, t.width)
  /\ b.err = FALSE => WriteOverload(o, t, v) = CloseField(Write(b, t.alts[v.alt], v.val), t.width)

LEMMA VariantWrites ==
  ASSUME NEW t, t.k = "variant", t.width # 0, NEW v, NEW o,
         NEW b, b = VariantOpened(AlignOut(o), t.order, t.width, t.twidth, v.alt)
  PROVE  VariantRun(o, b, t, v)
<1>1. WriteOverload(o, t, v) = WriteVariant(o, t, v)
  BY ContainerOverloads
<1>2. WriteVariant(o, t, v) = CloseField(IF b.err THEN b ELSE Write(b, t.alts[v.alt], v.val), t.width)
  BY Zenon DEF WriteVariant, VariantOpened
<1>3. Faulty(b) => b.err = TRUE
  BY DEF Faulty
<1>4. CASE b.err = TRUE
  <2>1. b.err
    BY <1>4
  <2>2. WriteOverload(o, t, v) = CloseField(b, t.width)
    BY <1>1, <1>2, <2>1, Zenon
  <2> QED  BY <1>4, <2>2 DEF VariantRun
<1>5. CASE b.err = FALSE
  <2>1. ~b.err /\ ~Faulty(b)
    BY <1>5 DEF Faulty
  <2>2. WriteOverload(o, t, v) = CloseField(Write(b, t.alts[v.alt], v.val), t.width)
    BY <1>1, <1>2, <2>1, Zenon
  <2> QED  BY <2>1, <2>2, Zenon DEF VariantRun
<1> QED  BY <1>3, <1>4, <1>5, Zenon DEF VariantRun

LEMMA VariantPersists ==
  ASSUME NEW t, t.k = "variant", t.width # 0, NEW v
  PROVE  OverloadPersists(t, v)
<1>1. ASSUME NEW o, Faulty(o)  PROVE Faulty(WriteOverload(o, t, v))
  <2>1. PICK a : a = AlignOut(o)
    OBVIOUS
  <2>2. Faulty(a)
    BY <1>1, <2>1, FaultyRaw
  <2>3. PICK b : b = VariantOpened(AlignOut(o), t.order, t.width, t.twidth, v.alt)
    OBVIOUS
  <2>4. Faulty(b)
    <3>1. Faulty(PushPosition(WriteNumber(WriteNumber(PushPosition(a), 0, t.width), v.alt, t.twidth)))
      BY <2>2, FaultyRaw, FaultyNumber
    <3>2. Faulty(OpenField(WriteNumber(a, v.alt, t.twidth), t.width))
      BY <2>2, FaultyNumber, FaultyField
    <3> QED  BY <2>1, <2>3, <3>1, <3>2, Zenon DEF VariantOpened
  <2>5. VariantRun(o, b, t, v)
    BY <2>3, VariantWrites
  <2>6. Faulty(CloseField(b, t.width))
    BY <2>4, FaultyField
  <2> QED  BY <2>4, <2>5, <2>6, Zenon DEF VariantRun
<1> QED  BY <1>1, Zenon DEF OverloadPersists

\* A variant whose content is a value of P, or one that the receiver does not know.
IsVariant(q, P) ==
  /\ Variants(q.type, q.value, q.reads, q.meant)
  /\ \E p \in P : AlternativePart(q.type, q.value, q.reads, q.meant, p)

LEMMA VariantEnclosed ==
  ASSUME NEW t, NEW v, NEW u, NEW m, Variants(t, v, u, m), NEW p, AlternativePart(t, v, u, m, p),
         NEW le, NEW o, Clean(o, le)
  PROVE  /\ ~Holds(t.twidth, v.alt) \/ Refuses(p, le) => Faulty(WriteOverload(o, t, v))
         /\ \A c \in Chunks : Holds(t.twidth, v.alt) /\ Puts(p, le, c) =>
              VariantOutcome(WriteOverload(o, t, v), o, t.order, t.width, t.twidth, v.alt, c, le)
<1>1. /\ t.k = "variant" /\ t.width \in {1, 2, 4} /\ t.width # 0 /\ t.twidth \in {1, 2, 4} /\ t.order \in BOOLEAN
      /\ v.alt \in Nat /\ p.type = t.alts[v.alt] /\ p.value = v.val
  BY DEF Variants, AlternativePart
<1>2. AlignOut(o) = o
  BY CleanFields, AlignedWriter
<1>3. PICK b : b = VariantOpened(o, t.order, t.width, t.twidth, v.alt)
  OBVIOUS
<1>4. PICK f : f = WriteOverload(o, t, v)
  OBVIOUS
<1>5. /\ Faulty(b) => f = CloseField(b, t.width)
      /\ b.err = FALSE => f = CloseField(Write(b, p.type, p.value), t.width)
  <2>1. b = VariantOpened(AlignOut(o), t.order, t.width, t.twidth, v.alt)
    BY <1>2, <1>3
  <2>2. VariantRun(o, b, t, v)
    BY <1>1, <2>1, VariantWrites
  <2> QED  BY <1>1, <1>4, <2>2, Zenon DEF VariantRun
<1>6. VariantWritten(o, t.order, t.width, t.twidth, v.alt, le)
  <2>1. VariantWritten(o, TRUE, t.width, t.twidth, v.alt, le)
    BY <1>1, TypeSecond
  <2>2. VariantWritten(o, FALSE, t.width, t.twidth, v.alt, le)
    BY <1>1, TypeFirst
  <2> QED  BY <1>1, <2>1, <2>2
<1>7. /\ ~Holds(t.twidth, v.alt) => Faulty(b)
      /\ Holds(t.twidth, v.alt) =>
           /\ Clean(b, le)
           /\ \A c \in Chunks :
                VariantOutcome(CloseField(WriteRaw(b, c), t.width), o, t.order, t.width, t.twidth, v.alt, c, le)
  BY <1>3, <1>6, Zenon DEF VariantWritten
<1>8. ASSUME ~Holds(t.twidth, v.alt)  PROVE Faulty(f)
  BY <1>5, <1>7, <1>8, FaultyField
<1>9. ASSUME Holds(t.twidth, v.alt)
      PROVE  /\ Refuses(p, le) => Faulty(f)
             /\ \A c \in Chunks : Puts(p, le, c) =>
                  VariantOutcome(f, o, t.order, t.width, t.twidth, v.alt, c, le)
  <2>1. Clean(b, le) /\ b.err = FALSE
    BY <1>7, <1>9, CleanFields
  <2>2. f = CloseField(Write(b, p.type, p.value), t.width)
    BY <1>5, <2>1
  <2>3. ASSUME Refuses(p, le)  PROVE Faulty(f)
    <3>1. Faulty(Write(b, p.type, p.value))
      BY <2>1, <2>3, Zenon DEF Refuses
    <3> QED  BY <2>2, <3>1, FaultyField
  <2>4. ASSUME NEW c \in Chunks, Puts(p, le, c)
        PROVE  VariantOutcome(f, o, t.order, t.width, t.twidth, v.alt, c, le)
    <3>1. Write(b, p.type, p.value) = WriteRaw(b, c)
      BY <2>1, <2>4, Zenon DEF Puts
    <3> QED  BY <1>7, <1>9, <2>2, <3>1
  <2> QED  BY <2>3, <2>4
<1> QED  BY <1>4, <1>8, <1>9

LEMMA VariantChunk ==
  ASSUME NEW order, NEW width \in {1, 2, 4}, NEW twidth \in {1, 2, 4}, NEW alt \in Nat, NEW c \in Chunks,
         NEW le \in BOOLEAN
  PROVE  VariantBytes(order, width, twidth, alt, c, le) \in Chunks
<1>1. PICK e \in Chunks, s \in Chunks : e = Number(Bytes(c), width, le) /\ s = Number(alt, twidth, le)
  BY ChunkType, NumberChunk
<1>2. e \o (s \o c) \in Chunks /\ s \o (e \o c) \in Chunks
  BY ChunkConcat
<1> QED  BY <1>1, <1>2, Zenon DEF VariantBytes

LEMMA VariantSound ==
  ASSUME NEW q, NEW P, IsVariant(q, P), \A p \in P : Sound(p), Unfolded({q.type, q.reads})
  PROVE  Sound(q)
<1> DEFINE t == q.type
           u == q.reads
           v == q.value
           m == q.meant
<1>1. PICK p \in P : Variants(t, v, u, m) /\ AlternativePart(t, v, u, m, p)
  BY DEF IsVariant
<1>2. (\A o, x : Write(o, t, x) = WriteOverload(o, t, x)) /\ (\A i : Read(i, u) = ReadOverload(i, u))
  BY Zenon DEF Unfolded
<1> HIDE DEF t, u, v, m
<1>3. /\ t.k = "variant" /\ u.k = "variant" /\ t.width \in {1, 2, 4} /\ t.width # 0 /\ t.twidth \in {1, 2, 4}
      /\ v.alt \in Nat
  BY <1>1 DEF Variants
<1>4. Sound(p)
  OBVIOUS
<1>5. Persists(q)
  <2>1. OverloadPersists(t, v)
    BY <1>3, VariantPersists
  <2> QED  BY <1>2, <2>1, Zenon DEF Persists, OverloadPersists, t, v
<1>6. ASSUME NEW le \in BOOLEAN  PROVE Settles(q, le)
  <2>1. Settles(p, le)
    BY <1>4, Zenon DEF Sound
  <2>2. ~Telling(u, m)
    BY <1>3 DEF Telling
  <2>3. CASE ~Holds(t.twidth, v.alt) \/ Refuses(p, le)
    <3>1. \A o : Clean(o, le) => Faulty(WriteOverload(o, t, v))
      BY <1>1, <2>3, VariantEnclosed
    <3> QED  BY <1>2, <3>1, Zenon DEF Settles, Refuses, t, v
  <2>4. ASSUME Holds(t.twidth, v.alt), NEW c \in Chunks, Puts(p, le, c), Gets(p, le, c)
        PROVE  Settles(q, le)
    <3>1. PICK d \in Chunks : d = VariantBytes(t.order, t.width, t.twidth, v.alt, c, le)
      BY <1>3, VariantChunk
    <3>2. \A o : Clean(o, le) => VariantOutcome(WriteOverload(o, t, v), o, t.order, t.width, t.twidth, v.alt, c, le)
      BY <1>1, <2>4, VariantEnclosed
    <3>3. CASE ~Holds(t.width, Bytes(c))
      BY <1>2, <3>2, <3>3, Zenon DEF VariantOutcome, Settles, Refuses, t, v
    <3>4. CASE Holds(t.width, Bytes(c))
      <4>1. Puts(q, le, d)
        BY <1>2, <3>1, <3>2, <3>4, Zenon DEF VariantOutcome, Puts, t, v
      <4>2. ASSUME NEW i, Ready(i, le), Ahead(i, d)  PROVE ReadOverload(i, u) = Result(Moved(i, Bytes(d)), m)
        BY <1>1, <2>4, <3>1, <3>4, <4>2, VariantFound
      <4>3. Gets(q, le, d)
        BY <1>2, <4>2, Zenon DEF Gets, u, m
      <4> QED  BY <2>2, <4>1, <4>3, Zenon DEF Settles, u, m
    <3> QED  BY <3>3, <3>4
  <2> QED  BY <2>1, <2>3, <2>4, Zenon DEF Settles
<1> QED  BY <1>5, <1>6 DEF Sound

-----------------------------------------------------------------------------
(* Arguments that are values of any depth.                                 *)

\* A value that holds no others, or one made of values of P.
ValueOver(q, P) ==
  \/ \E t, v : q = Same(t, v) /\ Flat(t, v)
  \/ IsArray(q, P) \/ IsMap(q, P) \/ IsStruct(q, P) \/ IsVariant(q, P)

\* Values that are made of values of a smaller depth.
Values(Q, depth) == depth \in [Q -> Nat] /\ \A q \in Q : ValueOver(q, {p \in Q : depth[p] < depth[q]})

\* The entries of the arrays and maps among the types.
LEMMA EntriesEat ==
  ASSUME NEW T, NEW E, NEW depth, Types(T, E, depth), Unfolded(T), NEW t \in T, HasEntries(t)
  PROVE  EntryType(t)
<1>1. \A s \in T : StaysAs(s, E)
  BY TypesStay
<1>2. Made(t, {s \in T : depth[s] < depth[t]}, E)
  BY DEF Types
<1>3. CASE t.k = "array"
  <2>1. t.elem \in T \cap E
    BY <1>2, <1>3 DEF Made, FlatType
  <2> QED  BY <1>1, <1>3, <2>1 DEF EntryType, StaysAs
<1>4. CASE t.k = "map"
  <2>1. t.key \in T \cap E /\ t.val \in T
    BY <1>2, <1>4 DEF Made, FlatType
  <2> QED  BY <1>1, <1>4, <2>1 DEF EntryType, StaysAs
<1> QED  BY <1>3, <1>4 DEF HasEntries

LEMMA ValueSound ==
  ASSUME NEW q, NEW P, ValueOver(q, P), \A p \in P : Sound(p), Unfolded({q.type, q.reads}),
         HasEntries(q.reads) => EntryType(q.reads)
  PROVE  Sound(q)
<1>1. ASSUME NEW t, NEW v, q = Same(t, v), Flat(t, v)  PROVE Sound(q)
  <2>1. Unfolded({t})
    <3>1. q.type = t
      BY <1>1 DEF Same
    <3> QED  BY <3>1, Zenon DEF Unfolded
  <2>2. Persists(q)
    BY <1>1, <2>1, FlatPersists
  <2>3. \A le \in BOOLEAN : Settles(q, le)
    BY <1>1, <2>1, FlatSettled DEF Settled
  <2> QED  BY <2>2, <2>3 DEF Sound
<1>2. CASE IsArray(q, P)
  <2>1. EntryType(q.reads)
    BY <1>2 DEF IsArray, Alike, HasEntries
  <2> QED  BY <1>2, <2>1, ArraySound
<1>3. CASE IsMap(q, P)
  <2>1. EntryType(q.reads)
    BY <1>3 DEF IsMap, Alike, HasEntries
  <2> QED  BY <1>3, <2>1, MapSound
<1>4. CASE IsStruct(q, P)
  BY <1>4, StructSound
<1>5. CASE IsVariant(q, P)
  BY <1>5, VariantSound
<1> QED  BY <1>1, <1>2, <1>3, <1>4, <1>5 DEF ValueOver

LEMMA ValuesSound ==
  ASSUME NEW Q, NEW depth, Values(Q, depth),
         \A q \in Q : Unfolded({q.type, q.reads}) /\ (HasEntries(q.reads) => EntryType(q.reads))
  PROVE  \A q \in Q : Sound(q)
<1> DEFINE M == {n \in Nat : \A q \in Q : depth[q] < n => Sound(q)}
<1>0. \A q \in Q : depth[q] \in Nat
  BY DEF Values
<1>1. 0 \in M
  BY <1>0
<1>2. ASSUME NEW n \in M, n \in Nat  PROVE n + 1 \in M
  <2>1. ASSUME NEW q \in Q, depth[q] < n + 1  PROVE Sound(q)
    <3> DEFINE P == {p \in Q : depth[p] < depth[q]}
    <3>1. ValueOver(q, P)
      BY DEF Values
    <3>2. \A p \in P : Sound(p)
      <4>1. \A p \in P : depth[p] < n
        BY <1>0, <1>2, <2>1
      <4> QED  BY <4>1
    <3>3. Unfolded({q.type, q.reads}) /\ (HasEntries(q.reads) => EntryType(q.reads))
      OBVIOUS
    <3> HIDE DEF P, M
    <3> QED  BY <3>1, <3>2, <3>3, ValueSound
  <2> QED  BY <1>2, <2>1
<1>3. Nat \subseteq M
  <2> HIDE DEF M
  <2> QED  BY <1>1, <1>2, SetInduction
<1> SUFFICES ASSUME NEW q \in Q  PROVE Sound(q)
  OBVIOUS
<1>4. depth[q] + 1 \in M /\ depth[q] < depth[q] + 1
  <2>1. depth[q] + 1 \in Nat /\ depth[q] < depth[q] + 1
    BY <1>0
  <2> HIDE DEF M
  <2> QED  BY <1>3, <2>1
<1> QED  BY <1>4

\* The arguments are such values, and the receiver's types are made of types whose
\* arrays and maps have entries that take bytes.
ArgumentsMade(T, E, types, Q, values) ==
  /\ Types(T, E, types) /\ Values(Q, values) /\ Unfolded(T \cup {q.type : q \in Q})
  /\ \A q \in Q : q.reads \in T
  /\ \A a \in DOMAIN Arguments : Arguments[a] \in Q

Understood == \E T, E, types, Q, values : ArgumentsMade(T, E, types, Q, values)

LEMMA UnderstoodTransfer ==
  ASSUME Understood
  PROVE  AllSettle /\ AllStay
<1>1. PICK T, E, types, Q, values : ArgumentsMade(T, E, types, Q, values)
  BY DEF Understood
<1>2. /\ Types(T, E, types) /\ Values(Q, values) /\ Unfolded(T \cup {q.type : q \in Q})
      /\ \A q \in Q : q.reads \in T
      /\ \A a \in DOMAIN Arguments : Arguments[a] \in Q
  BY <1>1 DEF ArgumentsMade
<1>3. Unfolded(T) /\ \A q \in Q : Unfolded({q.type, q.reads})
  <2>1. PICK S : S = T \cup {q.type : q \in Q}
    OBVIOUS
  <2>2. Unfolded(S) /\ T \subseteq S /\ \A q \in Q : {q.type, q.reads} \subseteq S
    BY <1>2, <2>1
  <2>3. \A R : R \subseteq S => Unfolded(R)
    BY <2>2, Zenon DEF Unfolded
  <2> QED  BY <2>2, <2>3
<1>4. \A q \in Q : HasEntries(q.reads) => EntryType(q.reads)
  BY <1>2, <1>3, EntriesEat
<1>5. \A q \in Q : Sound(q)
  BY <1>2, <1>3, <1>4, ValuesSound
<1>6. \A t \in T : Stays(t)
  BY <1>2, <1>3, TypesStay DEF StaysAs
<1>7. AllSettle
  BY <1>2, <1>5 DEF AllSettle, Sound
<1>8. AllStay
  BY <1>2, <1>6 DEF AllStay
<1> QED  BY <1>7, <1>8

\* A message that could be serialized and is delivered whole is read without an
\* error, every argument as it was meant for the receiver's version of its type,
\* to the last byte (OutputStream, InputStream and SerializableArguments).  None of
\* these arguments is one of those whose value the streams may lose.
THEOREM ValuesRoundTrip ==
  ASSUME Understood
  PROVE  Spec => [](RoundTrip /\ AllMeant)
<1>1. Spec => []TransferInv
  BY UnderstoodTransfer, TransferInductive
<1> QED  BY <1>1, InvRoundTrip, PTL

\* However a message is cut off, InputStream uses no bits behind its end, and the
\* loops over the entries of arrays and maps end: all fields of these arguments
\* are whole bytes, and the stream never goes astray.
THEOREM ValuesStayInBody ==
  ASSUME Understood
  PROVE  Spec => [](StaysInBody /\ phase # "stray")
<1>1. Spec => []TransferInv
  BY UnderstoodTransfer, TransferInductive
<1> QED  BY <1>1, InvStaysInBody, PTL

\* Of a message that is cut off, InputStream reports no argument that was not
\* sent, when each of them tells if it is not all there: errorOccurred_ is set,
\* or the value is not the one that was sent.
THEOREM ValuesNotInvented ==
  ASSUME Understood, AllTell
  PROVE  Spec => [](NothingInvented /\ GuardedAsMeant)
<1>1. Spec => []TransferInv
  BY UnderstoodTransfer, TransferInductive
<1>2. TransferInv => NothingInvented /\ GuardedAsMeant
  BY InvNothingInvented
<1> QED  BY <1>1, <1>2, PTL

==============================================================================
