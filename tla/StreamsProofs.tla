---------------------------- MODULE StreamsProofs ----------------------------
(***************************************************************************)
(* What the operations of the two streams and of the string encoder are    *)
(* worth to one another, for every value, width, bit position, byte order  *)
(* and encoding: a text and a number that one side writes is the one that  *)
(* the other reads, a length field says how long its content is, and a     *)
(* reader takes no bits from behind the body.  MessageTransferProofs says  *)
(* what becomes of a message that is built from these.                     *)
(***************************************************************************)
EXTENDS BitStreams, StringEncoder, TLAPS, SequenceTheorems, WellFoundedInduction

-----------------------------------------------------------------------------
(* One code point, in UTF-8.                                               *)

\* t has the elements of s from k on.
Has(t, k, s) == \A j \in 1 .. Len(s) : t[k + j - 1] = s[j]

\* What Utf8To16 finds in t at k.
Found(t, k, c) ==
  /\ SequenceLength(t[k]) = Len(Utf8Of(c))
  /\ ByteSequence(t, k, Len(Utf8Of(c))) = c /\ ~IsSequenceTooLong(c, Len(Utf8Of(c)))

LEMMA OneByte ==
  ASSUME NEW c \in Nat, c < 128
  PROVE  Utf8Of(c) = <<c>> /\ SequenceLength(c) = 1
BY DEF Utf8Of, SequenceLength, Within

LEMMA TwoBytes ==
  ASSUME NEW c \in Nat, Within(c, 128, 2047)
  PROVE  \E a, b \in Nat :
           /\ Utf8Of(c) = <<a, b>> /\ SequenceLength(a) = 2 /\ a > 0 /\ b \div 64 = 2
           /\ (a % 32) * 64 + (b % 64) = c
<1>1. PICK h \in Nat, l \in Nat : c = 64 * h + l /\ h = c \div 64 /\ l = c % 64 /\ l < 64 /\ 2 <= h /\ h < 32
  BY DEF Within
<1>2. Utf8Of(c) = <<192 + h, 128 + l>>
  BY <1>1 DEF Utf8Of, Within
<1>3. (192 + h) \div 32 = 6 /\ ~(192 + h < 128)
  BY <1>1
<1>4. SequenceLength(192 + h) = 2
  BY <1>3 DEF SequenceLength
<1>5. (192 + h) % 32 = h /\ (128 + l) % 64 = l /\ (128 + l) \div 64 = 2
  BY <1>1
<1> QED  BY <1>1, <1>2, <1>4, <1>5

LEMMA ThreeBytes ==
  ASSUME NEW c \in Nat, Within(c, 2048, 65535)
  PROVE  \E a, b, d \in Nat :
           /\ Utf8Of(c) = <<a, b, d>> /\ SequenceLength(a) = 3 /\ a > 0 /\ b \div 64 = 2 /\ d \div 64 = 2
           /\ (a % 16) * 4096 + (b % 64) * 64 + (d % 64) = c
<1>1. PICK h \in Nat, m \in Nat, l \in Nat :
        /\ c = 4096 * h + 64 * m + l /\ h = c \div 4096 /\ m = (c \div 64) % 64 /\ l = c % 64
        /\ h < 16 /\ m < 64 /\ l < 64
  BY DEF Within
<1>2. Utf8Of(c) = <<224 + h, 128 + m, 128 + l>>
  <2>1. Utf8Of(c) = <<224 + c \div 4096, 128 + ((c \div 64) % 64), 128 + (c % 64)>>
    BY SMT DEF Utf8Of, Within
  <2> QED  BY <1>1, <2>1
<1>3. (224 + h) \div 16 = 14 /\ (224 + h) \div 32 = 7 /\ ~(224 + h < 128)
  BY <1>1
<1>4. SequenceLength(224 + h) = 3
  BY <1>3 DEF SequenceLength
<1>5. /\ (224 + h) % 16 = h /\ (128 + m) % 64 = m /\ (128 + l) % 64 = l
      /\ (128 + m) \div 64 = 2 /\ (128 + l) \div 64 = 2
  BY <1>1
<1> QED  BY <1>1, <1>2, <1>4, <1>5

LEMMA FourBytes ==
  ASSUME NEW c \in Nat, 65535 < c, c <= 1114111
  PROVE  LET a == 240 + c \div 262144
             b == 128 + ((c \div 4096) % 64)
             d == 128 + ((c \div 64) % 64)
             e == 128 + (c % 64)
         IN  /\ Utf8Of(c) = <<a, b, d, e>> /\ SequenceLength(a) = 4 /\ a > 0 /\ b \div 64 = 2 /\ d \div 64 = 2 /\ e \div 64 = 2
             /\ (a % 8) * 262144 + (b % 64) * 4096 + (d % 64) * 64 + (e % 64) = c
<1>1. PICK h \in Nat, m \in Nat, n \in Nat, l \in Nat :
        /\ c = 262144 * h + 4096 * m + 64 * n + l
        /\ h = c \div 262144 /\ m = (c \div 4096) % 64 /\ n = (c \div 64) % 64 /\ l = c % 64
        /\ h < 8 /\ m < 64 /\ n < 64 /\ l < 64
  OBVIOUS
<1>2. Utf8Of(c) = <<240 + h, 128 + m, 128 + n, 128 + l>>
  <2>1. ~(c < 128) /\ ~Within(c, 128, 2047) /\ ~Within(c, 2048, 65535)
    BY SMT DEF Within
  <2>2. Utf8Of(c) = <<240 + c \div 262144, 128 + ((c \div 4096) % 64),
                      128 + ((c \div 64) % 64), 128 + (c % 64)>>
    BY SMT, <2>1 DEF Utf8Of
  <2>3. h = c \div 262144 /\ m = (c \div 4096) % 64 /\ n = (c \div 64) % 64 /\ l = c % 64
    BY SMT, <1>1
  <2> QED  BY SMT, <2>2, <2>3
<1>3. /\ (240 + h) \div 8 = 30 /\ (240 + h) \div 16 = 15 /\ (240 + h) \div 32 = 7 /\ ~(240 + h < 128)
  BY <1>1
<1>4. SequenceLength(240 + h) = 4
  BY <1>3 DEF SequenceLength
<1>5. (240 + h) % 8 = h /\ (128 + m) % 64 = m /\ (128 + n) % 64 = n /\ (128 + l) % 64 = l
  BY <1>1
<1>6. ((240 + h) % 8) * 262144 + ((128 + m) % 64) * 4096 + ((128 + n) % 64) * 64 + ((128 + l) % 64) = c
  BY SMT, <1>1, <1>5
<1>7. (128 + m) \div 64 = 2 /\ (128 + n) \div 64 = 2 /\ (128 + l) \div 64 = 2
  BY SMT, <1>1
<1>8. 240 + h > 0
  BY SMT
<1>9. h = c \div 262144 /\ m = (c \div 4096) % 64 /\ n = (c \div 64) % 64 /\ l = c % 64
  BY SMT, <1>1
<1> QED  BY SMT, <1>2, <1>4, <1>6, <1>7, <1>8, <1>9

\* Wherever it stands in a text, a code point in UTF-8 is found again.
LEMMA Utf8Found ==
  ASSUME NEW c \in Nat, c <= 1114111, NEW t, NEW k \in Nat, Has(t, k, Utf8Of(c))
  PROVE  Found(t, k, c)
<1>1. CASE c < 128
  <2>1. Utf8Of(c) = <<c>> /\ SequenceLength(c) = 1
    BY <1>1, OneByte
  <2>2. t[k] = c
    BY <2>1 DEF Has
  <2> QED  BY <1>1, <2>1, <2>2 DEF Found, ByteSequence, IsSequenceTooLong, Within
<1>2. CASE Within(c, 128, 2047)
  <2>1. PICK a, b \in Nat :
          /\ Utf8Of(c) = <<a, b>> /\ SequenceLength(a) = 2 /\ a > 0 /\ b \div 64 = 2
          /\ (a % 32) * 64 + (b % 64) = c
    BY <1>2, TwoBytes
  <2>2. t[k] = a /\ t[k + 1] = b
    BY <2>1 DEF Has
  <2> QED  BY <1>2, <2>1, <2>2 DEF Found, ByteSequence, IsSequenceTooLong, Within
<1>3. CASE Within(c, 2048, 65535)
  <2>1. PICK a, b, d \in Nat :
          /\ Utf8Of(c) = <<a, b, d>> /\ SequenceLength(a) = 3 /\ a > 0 /\ b \div 64 = 2 /\ d \div 64 = 2
          /\ (a % 16) * 4096 + (b % 64) * 64 + (d % 64) = c
    BY <1>3, ThreeBytes
  <2>2. t[k] = a /\ t[k + 1] = b /\ t[k + 2] = d
    BY <2>1 DEF Has
  <2> QED  BY <1>3, <2>1, <2>2 DEF Found, ByteSequence, IsSequenceTooLong, Within
<1>4. CASE 65535 < c
  <2> DEFINE a == 240 + c \div 262144
             b == 128 + ((c \div 4096) % 64)
             d == 128 + ((c \div 64) % 64)
             e == 128 + (c % 64)
  <2>1. /\ Utf8Of(c) = <<a, b, d, e>> /\ SequenceLength(a) = 4 /\ a > 0 /\ b \div 64 = 2 /\ d \div 64 = 2 /\ e \div 64 = 2
        /\ (a % 8) * 262144 + (b % 64) * 4096 + (d % 64) * 64 + (e % 64) = c
    BY SMT, <1>4, FourBytes
  <2> HIDE DEF a, b, d, e
  <2>2. t[k] = a /\ t[k + 1] = b /\ t[k + 2] = d /\ t[k + 3] = e
    BY <2>1 DEF Has
  <2> QED  BY <1>4, <2>1, <2>2 DEF Found, ByteSequence, IsSequenceTooLong, Within
<1> QED  BY <1>1, <1>2, <1>3, <1>4 DEF Within

\* It is complete, and none of its bytes ends the text.
LEMMA Utf8Complete ==
  ASSUME NEW c \in Nat, c <= 1114111, NEW t, NEW k \in Nat, Has(t, k, Utf8Of(c)), Len(t) \in Nat,
         k + Len(Utf8Of(c)) <= Len(t) + 1
  PROVE  Len(Utf8Of(c)) \in 1 .. 4 /\ Breaks(t, k, Len(Utf8Of(c))) = {} /\ (c # 0 => t[k] # 0)
<1>1. CASE c < 128
  <2>1. Utf8Of(c) = <<c>>
    BY <1>1, OneByte
  <2>2. t[k] = c /\ Len(<<c>>) = 1
    BY <2>1 DEF Has
  <2> QED  BY <2>1, <2>2 DEF Breaks
<1>2. CASE Within(c, 128, 2047)
  <2>1. PICK a, b \in Nat : Utf8Of(c) = <<a, b>> /\ a > 0 /\ b \div 64 = 2
    BY <1>2, TwoBytes
  <2>2. t[k] = a /\ t[k + 1] = b /\ Len(<<a, b>>) = 2
    BY <2>1 DEF Has
  <2>3. \A j \in 1 .. 1 : k + j <= Len(t) /\ t[k + j] \div 64 = 2
    BY <2>1, <2>2
  <2> QED  BY <2>1, <2>2, <2>3 DEF Breaks
<1>3. CASE Within(c, 2048, 65535)
  <2>1. PICK a, b, d \in Nat : Utf8Of(c) = <<a, b, d>> /\ a > 0 /\ b \div 64 = 2 /\ d \div 64 = 2
    BY <1>3, ThreeBytes
  <2>2. t[k] = a /\ t[k + 1] = b /\ t[k + 2] = d /\ Len(<<a, b, d>>) = 3
    BY <2>1 DEF Has
  <2>3. \A j \in 1 .. 2 : k + j <= Len(t) /\ t[k + j] \div 64 = 2
    BY <2>1, <2>2
  <2> QED  BY <2>1, <2>2, <2>3 DEF Breaks
<1>4. CASE 65535 < c
  <2> DEFINE a == 240 + c \div 262144
             b == 128 + ((c \div 4096) % 64)
             d == 128 + ((c \div 64) % 64)
             e == 128 + (c % 64)
  <2>1. /\ Utf8Of(c) = <<a, b, d, e>> /\ a > 0
        /\ b \div 64 = 2 /\ d \div 64 = 2 /\ e \div 64 = 2
    BY SMT, <1>4, FourBytes
  <2> HIDE DEF a, b, d, e
  <2>2. t[k] = a /\ t[k + 1] = b /\ t[k + 2] = d /\ t[k + 3] = e /\ Len(<<a, b, d, e>>) = 4
    BY <2>1 DEF Has
  <2>3. \A j \in 1 .. 3 : k + j <= Len(t) /\ t[k + j] \div 64 = 2
    BY <2>1, <2>2
  <2> QED  BY <2>1, <2>2, <2>3 DEF Breaks
<1> QED  BY <1>1, <1>2, <1>3, <1>4 DEF Within

\* What holds of 0 and goes from one number to the next holds of all.
LEMMA SetInduction ==
  ASSUME NEW M, 0 \in M, \A n \in M : n \in Nat => n + 1 \in M
  PROVE  Nat \subseteq M
<1> SUFFICES ASSUME Nat \ M # {}  PROVE FALSE
  OBVIOUS
<1> DEFINE R == OpToRel(<, Nat)
<1>1. PICK x \in Nat \ M : \A y \in Nat \ M : ~(<<y, x>> \in R)
  <2>1. IsWellFoundedOn(R, Nat) /\ Nat \ M \subseteq Nat
    BY NatLessThanWellFounded
  <2> HIDE DEF R
  <2> QED  BY <2>1, WFMin
<1>2. PICK y \in Nat : x = y + 1
  <2>1. x \in Nat /\ x # 0
    BY <1>1
  <2> QED  BY <2>1, x - 1 \in Nat /\ x = (x - 1) + 1
<1>3. y \notin M
  BY <1>1, <1>2
<1>4. y < x
  BY <1>2
<1>5. <<y, x>> \in R
  BY <1>4 DEF OpToRel
<1> QED  BY <1>1, <1>3, <1>5

-----------------------------------------------------------------------------
(* One code point, in UTF-16.                                              *)

\* Not an interval, whose elements the provers would enumerate.
Octets == {b \in Nat : b <= 255}

LEMMA HasConcat ==
  ASSUME NEW S, NEW s \in Seq(S), NEW u \in Seq(S), NEW t, NEW k \in Nat, Has(t, k, s \o u)
  PROVE  Has(t, k, s) /\ Has(t, k + Len(s), u)
<1>1. /\ s \o u \in Seq(S) /\ Len(s \o u) = Len(s) + Len(u) /\ Len(s) \in Nat /\ Len(u) \in Nat
      /\ \A i \in 1 .. Len(s) + Len(u) : (s \o u)[i] = IF i <= Len(s) THEN s[i] ELSE u[i - Len(s)]
  BY ConcatProperties, LenProperties
<1>2. \A i \in 1 .. Len(s) + Len(u) : t[k + i - 1] = IF i <= Len(s) THEN s[i] ELSE u[i - Len(s)]
  BY <1>1 DEF Has
<1>3. \A i \in 1 .. Len(s) : t[k + i - 1] = s[i]
  BY <1>1, <1>2
<1>4. ASSUME NEW j \in 1 .. Len(u)  PROVE t[k + Len(s) + j - 1] = u[j]
  <2>1. /\ j + Len(s) \in 1 .. Len(s) + Len(u) /\ ~(j + Len(s) <= Len(s)) /\ j + Len(s) - Len(s) = j
        /\ k + (j + Len(s)) - 1 = k + Len(s) + j - 1
    BY <1>1
  <2> QED  BY <1>2, <2>1
<1> QED  BY <1>3, <1>4 DEF Has

LEMMA UnitType ==
  ASSUME NEW u \in Nat, u <= 65535, NEW enc
  PROVE  Len(Unit(u, enc)) = 2 /\ Unit(u, enc) \in Seq(Octets)
<1>1. PICK h \in Nat, l \in Nat : h = u \div 256 /\ l = u % 256 /\ l < 256 /\ h < 256
  OBVIOUS
<1>2. Unit(u, enc) = IF enc = "UTF16BE" THEN <<h, l>> ELSE <<l, h>>
  BY <1>1 DEF Unit
<1>3. h \in Octets /\ l \in Octets
  BY <1>1 DEF Octets
<1>4. Len(<<h, l>>) = 2 /\ Len(<<l, h>>) = 2 /\ <<h, l>> \in Seq(Octets) /\ <<l, h>> \in Seq(Octets)
  BY <1>3
<1> QED  BY <1>2, <1>4

LEMMA UnitFound ==
  ASSUME NEW u \in Nat, u <= 65535, NEW enc, NEW t, NEW k \in Nat, Has(t, k, Unit(u, enc))
  PROVE  UnitAt(t, k, enc) = u
<1>1. PICK h \in Nat, l \in Nat : u = 256 * h + l /\ h = u \div 256 /\ l = u % 256
  OBVIOUS
<1>2. Unit(u, enc) = IF enc = "UTF16BE" THEN <<h, l>> ELSE <<l, h>>
  BY <1>1 DEF Unit
<1>3. u = h * 256 + l
  BY <1>1
<1>4. CASE enc = "UTF16BE"
  <2>1. t[k] = h /\ t[k + 1] = l
    BY <1>2, <1>4 DEF Has
  <2>2. UnitAt(t, k, enc) = h * 256 + l
    BY <1>4, <2>1 DEF UnitAt
  <2> QED  BY <1>3, <2>2
<1>5. CASE enc # "UTF16BE"
  <2>1. t[k] = l /\ t[k + 1] = h
    BY <1>2, <1>5 DEF Has
  <2>2. UnitAt(t, k, enc) = h * 256 + l
    BY <1>5, <2>1 DEF UnitAt
  <2> QED  BY <1>3, <2>2
<1> QED  BY <1>4, <1>5

LEMMA PairRead ==
  ASSUME NEW c \in Nat, 65535 < c, c <= 1114111
  PROVE  LET u == 55296 + (c - 65536) \div 1024
             v == 56320 + ((c - 65536) % 1024)
         IN  /\ u \in Nat /\ u <= 65535 /\ IsSurrogate(u)
             /\ v \in Nat /\ v <= 65535 /\ IsSurrogate(v)
             /\ OfPair(u, v) = c
<1>1. PICK h \in Nat, l \in Nat :
        /\ c - 65536 = 1024 * h + l /\ h = (c - 65536) \div 1024 /\ l = (c - 65536) % 1024
        /\ h < 1024 /\ l < 1024
  BY SMT
<1>2. (55296 + h) % 1024 = h /\ (56320 + l) % 1024 = l
  BY SMT, <1>1
<1>3. h * 1024 + l + 65536 = c
  BY SMT, <1>1
<1> QED  BY SMT, <1>1, <1>2, <1>3 DEF IsSurrogate, Within, OfPair

\* What Utf16To8 finds in t at k.
Found16(t, k, c, enc) ==
  /\ c <= 65535 => UnitAt(t, k, enc) = c /\ ~IsSurrogate(c)
  /\ ~(c <= 65535) =>
       /\ IsSurrogate(UnitAt(t, k, enc)) /\ IsSurrogate(UnitAt(t, k + 2, enc))
       /\ OfPair(UnitAt(t, k, enc), UnitAt(t, k + 2, enc)) = c

LEMMA Utf16Type ==
  ASSUME NEW c \in Nat, IsCodePointValid(c), NEW enc
  PROVE  /\ Len(Utf16Of(c, enc)) = IF c <= 65535 THEN 2 ELSE 4
         /\ Utf16Of(c, enc) \in Seq(Octets)
<1>1. CASE c <= 65535
  <2>1. Utf16Of(c, enc) = Unit(c, enc)
    BY SMT, <1>1 DEF Utf16Of
  <2> QED  BY <1>1, <2>1, UnitType
<1>2. CASE 65535 < c
  <2> DEFINE u == 55296 + (c - 65536) \div 1024
             v == 56320 + ((c - 65536) % 1024)
  <2>1. u \in Nat /\ u <= 65535 /\ v \in Nat /\ v <= 65535
    BY SMT, <1>2, PairRead DEF IsCodePointValid
  <2>2. Utf16Of(c, enc) = Unit(u, enc) \o Unit(v, enc)
    BY SMT, <1>2 DEF Utf16Of
  <2> HIDE DEF u, v
  <2>3. /\ Len(Unit(u, enc)) = 2 /\ Unit(u, enc) \in Seq(Octets)
        /\ Len(Unit(v, enc)) = 2 /\ Unit(v, enc) \in Seq(Octets)
    BY <2>1, UnitType
  <2>4. /\ Unit(u, enc) \o Unit(v, enc) \in Seq(Octets)
        /\ Len(Unit(u, enc) \o Unit(v, enc)) = 4
    <3>1. /\ Unit(u, enc) \o Unit(v, enc) \in Seq(Octets)
          /\ Len(Unit(u, enc) \o Unit(v, enc)) = Len(Unit(u, enc)) + Len(Unit(v, enc))
      BY <2>3, ConcatProperties, Zenon
    <3> QED  BY <2>3, <3>1
  <2> QED  BY <1>2, <2>2, <2>4
<1> QED  BY <1>1, <1>2

\* Wherever it stands in a text, a code point in UTF-16 is found again.
LEMMA Utf16Found ==
  ASSUME NEW c \in Nat, IsCodePointValid(c), NEW enc, NEW t, NEW k \in Nat, Has(t, k, Utf16Of(c, enc))
  PROVE  Found16(t, k, c, enc)
<1>1. CASE c <= 65535
  <2>1. Utf16Of(c, enc) = Unit(c, enc) /\ ~IsSurrogate(c)
    BY SMT, <1>1 DEF Utf16Of, IsCodePointValid
  <2>2. UnitAt(t, k, enc) = c
    BY <1>1, <2>1, UnitFound
  <2> QED  BY <1>1, <2>1, <2>2 DEF Found16
<1>2. CASE 65535 < c
  <2> DEFINE u == 55296 + (c - 65536) \div 1024
             v == 56320 + ((c - 65536) % 1024)
  <2>1. /\ u \in Nat /\ u <= 65535 /\ IsSurrogate(u)
        /\ v \in Nat /\ v <= 65535 /\ IsSurrogate(v)
        /\ OfPair(u, v) = c
    BY SMT, <1>2, PairRead DEF IsCodePointValid
  <2>2. Utf16Of(c, enc) = Unit(u, enc) \o Unit(v, enc)
    BY SMT, <1>2 DEF Utf16Of
  <2> HIDE DEF u, v
  <2>3. /\ Len(Unit(u, enc)) = 2 /\ Unit(u, enc) \in Seq(Octets)
        /\ Len(Unit(v, enc)) = 2 /\ Unit(v, enc) \in Seq(Octets)
    BY <2>1, UnitType
  <2>5. Has(t, k, Unit(u, enc)) /\ Has(t, k + 2, Unit(v, enc))
    <3>1. Has(t, k, Unit(u, enc) \o Unit(v, enc))
      BY <2>2
    <3>2. Has(t, k, Unit(u, enc)) /\ Has(t, k + Len(Unit(u, enc)), Unit(v, enc))
      BY <2>3, <3>1, HasConcat, Zenon
    <3> QED  BY <2>3, <3>2
  <2>6. UnitAt(t, k, enc) = u /\ UnitAt(t, k + 2, enc) = v
    BY <2>1, <2>5, UnitFound
  <2>7. ~(c <= 65535)
    BY SMT, <1>2
  <2>8. OfPair(UnitAt(t, k, enc), UnitAt(t, k + 2, enc)) = c
    BY SMT, <2>1, <2>6
  <2>9. IsSurrogate(UnitAt(t, k, enc)) /\ IsSurrogate(UnitAt(t, k + 2, enc))
    BY <2>1, <2>6
  <2> QED  BY SMT, <2>7, <2>8, <2>9 DEF Found16
<1> QED  BY <1>1, <1>2

LEMMA Upwards ==
  ASSUME NEW n \in Nat, NEW M, 1 \in M, \A i \in 1 .. n : i \in M => i + 1 \in M
  PROVE  \A i \in 1 .. n + 1 : i \in M
<1> DEFINE D == {k \in Nat : k <= n => k + 1 \in M}
<1>1. 0 \in D
  OBVIOUS
<1>2. ASSUME NEW k \in D  PROVE k + 1 \in D
  <2>1. k \in Nat /\ (k <= n => k + 1 \in M)
    OBVIOUS
  <2>2. k + 1 <= n => k + 1 \in 1 .. n
    BY <2>1
  <2>3. k + 1 <= n => (k + 1) + 1 \in M
    BY <2>1, <2>2
  <2> QED  BY <2>1, <2>3
<1>3. Nat \subseteq D
  <2> HIDE DEF D
  <2> QED  BY <1>1, <1>2, SetInduction
<1>4. ASSUME NEW i \in 1 .. n + 1  PROVE i \in M
  <2>1. i - 1 \in Nat /\ i - 1 <= n /\ (i - 1) + 1 = i
    OBVIOUS
  <2>2. i - 1 \in D
    BY <1>3, <2>1
  <2> QED  BY <2>1, <2>2
<1> QED  BY <1>4

LEMMA Downwards ==
  ASSUME NEW n \in Nat, NEW M, n + 1 \in M, \A i \in 1 .. n : i + 1 \in M => i \in M
  PROVE  \A i \in 1 .. n + 1 : i \in M
<1> DEFINE D == {k \in Nat : k <= n => n + 1 - k \in M}
<1>1. 0 \in D
  OBVIOUS
<1>2. ASSUME NEW k \in D  PROVE k + 1 \in D
  <2>1. k \in Nat /\ (k <= n => n + 1 - k \in M)
    OBVIOUS
  <2>2. k + 1 <= n => n - k \in 1 .. n /\ n + 1 - k = (n - k) + 1 /\ n + 1 - (k + 1) = n - k
    BY <2>1
  <2>3. k + 1 <= n => n - k \in M
    BY <2>1, <2>2
  <2> QED  BY <2>1, <2>2, <2>3
<1>3. Nat \subseteq D
  <2> HIDE DEF D
  <2> QED  BY <1>1, <1>2, SetInduction
<1>4. ASSUME NEW i \in 1 .. n + 1  PROVE i \in M
  <2>1. n + 1 - i \in Nat /\ n + 1 - i <= n /\ n + 1 - (n + 1 - i) = i
    OBVIOUS
  <2>2. n + 1 - i \in D
    BY <1>3, <2>1
  <2> QED  BY <2>1, <2>2
<1> QED  BY <1>4

\* There is a function that stops at some arguments, and elsewhere goes on to
\* the next one and combines the argument with the value there.
Defined(X, V, stop, last, next, comb) ==
  \E f \in [X -> V] : \A x \in X : f[x] = IF stop[x] THEN last[x] ELSE comb[<<x, f[next[x]]>>]

\* It is defined by a recursion whose argument comes nearer to its end.
LEMMA Recursion ==
  ASSUME NEW X, NEW V, NEW stop \in [X -> BOOLEAN], NEW last \in [X -> V], NEW next \in [X -> X],
         NEW comb \in [X \X V -> V], NEW N \in Nat, NEW rank \in [X -> 0 .. N],
         \A x \in X : ~stop[x] => rank[next[x]] < rank[x]
  PROVE  Defined(X, V, stop, last, next, comb)
<1> DEFINE Good(f, x) == f[x] = IF stop[x] THEN last[x] ELSE comb[<<x, f[next[x]]>>]
           M == {m \in Nat : \E f \in [X -> V] : \A x \in X : rank[x] < m => Good(f, x)}
<1>1. 0 \in M
  <2>1. last \in [X -> V] /\ \A x \in X : ~(rank[x] < 0)
    OBVIOUS
  <2> QED  BY <2>1
<1>2. ASSUME NEW m \in M  PROVE m + 1 \in M
  <2>1. PICK f \in [X -> V] : \A x \in X : rank[x] < m => Good(f, x)
    OBVIOUS
  <2> DEFINE g == [x \in X |-> IF rank[x] < m THEN f[x]
                               ELSE IF stop[x] THEN last[x] ELSE comb[<<x, f[next[x]]>>]]
  <2>2. g \in [X -> V]
    <3>1. ASSUME NEW x \in X  PROVE g[x] \in V
      <4>1. next[x] \in X /\ f[next[x]] \in V /\ <<x, f[next[x]]>> \in X \X V
        OBVIOUS
      <4>2. comb[<<x, f[next[x]]>>] \in V /\ last[x] \in V /\ f[x] \in V
        BY <4>1
      <4> QED  BY <4>2
    <3> QED  BY <3>1
  <2>3. ASSUME NEW x \in X, rank[x] < m + 1  PROVE Good(g, x)
    <3>1. /\ next[x] \in X /\ rank[x] \in Nat /\ rank[next[x]] \in Nat
          /\ ~stop[x] => rank[next[x]] < rank[x]
      OBVIOUS
    <3>2. ~stop[x] => g[next[x]] = f[next[x]]
      BY <2>3, <3>1
    <3>3. g[x] = IF stop[x] THEN last[x] ELSE comb[<<x, f[next[x]]>>]
      BY <2>1
    <3> QED  BY <3>2, <3>3
  <2> HIDE DEF g, Good
  <2> QED  BY <2>2, <2>3
<1>3. N + 1 \in M
  <2> HIDE DEF M
  <2>1. Nat \subseteq M
    BY <1>1, <1>2, SetInduction
  <2> QED  BY <2>1
<1>4. PICK f \in [X -> V] : \A x \in X : rank[x] < N + 1 => Good(f, x)
  BY <1>3
<1>5. \A x \in X : rank[x] < N + 1
  OBVIOUS
<1> QED  BY <1>4, <1>5 DEF Defined

LEMMA SequenceLengths ==
  ASSUME NEW b \in Octets
  PROVE  SequenceLength(b) \in 0 .. 4
BY DEF SequenceLength, Octets

LEMMA BytesReadType ==
  ASSUME NEW s, NEW k \in Nat, NEW n \in 0 .. 4
  PROVE  BytesRead(s, k, n) \in Nat \ {0}
<1>1. CASE n = 0 \/ Breaks(s, k, n) = {}
  BY <1>1 DEF BytesRead
<1>2. CASE n # 0 /\ Breaks(s, k, n) # {}
  <2>1. \A j \in Breaks(s, k, n) : j = 1 \/ j = 2 \/ j = 3
    BY DEF Breaks
  <2>2. \E m \in Breaks(s, k, n) : \A j \in Breaks(s, k, n) : m <= j
    <3> HIDE DEF Breaks
    <3>1. CASE 1 \in Breaks(s, k, n)
      BY <2>1, <3>1
    <3>2. CASE 1 \notin Breaks(s, k, n) /\ 2 \in Breaks(s, k, n)
      BY <2>1, <3>2
    <3>3. CASE 1 \notin Breaks(s, k, n) /\ 2 \notin Breaks(s, k, n)
      BY <1>2, <2>1, <3>3
    <3> QED  BY <3>1, <3>2, <3>3
  <2>3. Min(Breaks(s, k, n)) \in Breaks(s, k, n)
    BY <2>2, Zenon DEF Min
  <2>4. BytesRead(s, k, n) = 1 + Min(Breaks(s, k, n))
    BY <1>2 DEF BytesRead
  <2> QED  BY <2>1, <2>3, <2>4
<1> QED  BY <1>1, <1>2

LEMMA CodePoints ==
  ASSUME NEW s \in Seq(Octets), NEW k \in 1 .. Len(s), NEW n \in 1 .. 4, Breaks(s, k, n) = {}
  PROVE  ByteSequence(s, k, n) \in Nat
<1>1. \A j \in 1 .. n - 1 : k + j \in 1 .. Len(s)
  <2> SUFFICES ASSUME NEW j \in 1 .. n - 1  PROVE k + j \in 1 .. Len(s)
    OBVIOUS
  <2>1. k + j <= Len(s)
    BY Zenon DEF Breaks
  <2>2. Len(s) \in Nat
    BY LenProperties
  <2> QED  BY <2>1, <2>2
<1>2. \A j \in 1 .. Len(s) : s[j] \in Nat
  BY ElementOfSeq DEF Octets
<1>3. CASE n = 1
  BY <1>2, <1>3 DEF ByteSequence
<1>4. CASE n = 2
  <2>1. s[k] \in Nat /\ s[k + 1] \in Nat
    BY <1>1, <1>2, <1>4
  <2> QED  BY <1>4, <2>1 DEF ByteSequence
<1>5. CASE n = 3
  <2>1. PICK a \in Nat, b \in Nat, d \in Nat : s[k] = a /\ s[k + 1] = b /\ s[k + 2] = d
    BY <1>1, <1>2, <1>5
  <2>2. ByteSequence(s, k, n) = (a % 16) * 4096 + (b % 64) * 64 + (d % 64)
    BY <1>5, <2>1 DEF ByteSequence
  <2> QED  BY <2>2
<1>6. CASE n = 4
  <2>1. PICK a \in Nat, b \in Nat, d \in Nat, e \in Nat :
          s[k] = a /\ s[k + 1] = b /\ s[k + 2] = d /\ s[k + 3] = e
    BY <1>1, <1>2, <1>6
  <2>2. ByteSequence(s, k, n) = (a % 8) * 262144 + (b % 64) * 4096 + (d % 64) * 64 + (e % 64)
    BY SMT, <1>6, <2>1 DEF ByteSequence
  <2> QED  BY SMT, <2>2
<1> QED  BY <1>3, <1>4, <1>5, <1>6

Positions == Nat \ {0}

\* The step of Utf8To16, which tells apart whether it converts what it read.
Valid(s, x) ==
  LET k == x[1]
      n == SequenceLength(s[k])
      c == ByteSequence(s, k, n)
  IN  x[2] /\ n > 0 /\ Breaks(s, k, n) = {} /\ ~IsSequenceTooLong(c, n) /\ IsCodePointValid(c)

Next16(s, x) == <<x[1] + BytesRead(s, x[1], SequenceLength(s[x[1]])), Valid(s, x)>>

Units(s, enc, x) ==
  Utf16Of(IF Valid(s, x) THEN ByteSequence(s, x[1], SequenceLength(s[x[1]])) ELSE 0, enc)

To16(s, enc, f, x) ==
  IF x[1] > Len(s) \/ s[x[1]] = 0 THEN <<>> ELSE Units(s, enc, x) \o f[Next16(s, x)]

\* f takes every step of it.
Continues16(s, enc, f) == \A x \in Positions \X BOOLEAN : f[x] = To16(s, enc, f, x)

LEMMA Utf8To16Unfolds ==
  ASSUME NEW s, NEW enc
  PROVE  Utf8To16(s, enc) = (CHOOSE f : f = [x \in Positions \X BOOLEAN |-> To16(s, enc, f, x)])[<<1, TRUE>>]
BY Zenon DEF Utf8To16, To16, Units, Next16, Valid, Positions

LEMMA StepTypes ==
  ASSUME NEW s \in Seq(Octets), NEW enc, NEW x \in Positions \X BOOLEAN, ~(x[1] > Len(s))
  PROVE  /\ Valid(s, x) \in BOOLEAN
         /\ Next16(s, x) \in Positions \X BOOLEAN /\ Next16(s, x)[1] > x[1]
         /\ Units(s, enc, x) \in Seq(Octets)
<1> DEFINE k == x[1]
           n == SequenceLength(s[k])
           c == ByteSequence(s, k, n)
<1>1. k \in 1 .. Len(s) /\ Len(s) \in Nat /\ x[2] \in BOOLEAN
  BY LenProperties DEF Positions
<1>2. n \in 0 .. 4
  BY <1>1, ElementOfSeq, SequenceLengths
<1>3. BytesRead(s, k, n) \in Nat \ {0}
  BY <1>1, <1>2, BytesReadType
<1>4. Valid(s, x) \in BOOLEAN
  BY DEF Valid
<1>5. Next16(s, x) = <<k + BytesRead(s, k, n), Valid(s, x)>>
  BY DEF Next16
<1>6. Units(s, enc, x) \in Seq(Octets)
  <2>1. CASE Valid(s, x)
    <3>1. n > 0 /\ Breaks(s, k, n) = {} /\ IsCodePointValid(c)
      BY <2>1 DEF Valid
    <3>2. c \in Nat
      BY <1>1, <1>2, <3>1, CodePoints
    <3>3. Units(s, enc, x) = Utf16Of(c, enc)
      BY <2>1 DEF Units
    <3> QED  BY <3>1, <3>2, <3>3, Utf16Type
  <2>2. CASE ~Valid(s, x)
    <3>1. Units(s, enc, x) = Utf16Of(0, enc)
      BY <2>2 DEF Units
    <3>2. 0 \in Nat /\ IsCodePointValid(0)
      BY SMT DEF IsCodePointValid, IsSurrogate, Within
    <3> QED  BY <3>1, <3>2, Utf16Type
  <2> QED  BY <2>1, <2>2
<1> QED  BY <1>1, <1>3, <1>4, <1>5, <1>6 DEF Positions

LEMMA To16Defined ==
  ASSUME NEW s \in Seq(Octets), NEW enc
  PROVE  \E f : f = [x \in Positions \X BOOLEAN |-> To16(s, enc, f, x)]
<1> DEFINE X == Positions \X BOOLEAN
           V == Seq(Octets)
           stop == [x \in X |-> x[1] > Len(s) \/ s[x[1]] = 0]
           last == [x \in X |-> <<>>]
           next == [x \in X |-> IF stop[x] THEN x ELSE Next16(s, x)]
           comb == [y \in X \X V |-> IF stop[y[1]] THEN <<>> ELSE Units(s, enc, y[1]) \o y[2]]
           rank == [x \in X |-> IF x[1] > Len(s) THEN 0 ELSE Len(s) + 1 - x[1]]
<1>1. <<>> \in V /\ Len(s) \in Nat
  BY EmptySeq, LenProperties
<1>2. ASSUME NEW x \in X
      PROVE  /\ stop[x] \in BOOLEAN /\ next[x] \in X /\ rank[x] \in 0 .. Len(s)
             /\ ~stop[x] => rank[next[x]] < rank[x]
  <2>1. x[1] \in Positions
    OBVIOUS
  <2>2. stop[x] = (x[1] > Len(s) \/ s[x[1]] = 0)
    OBVIOUS
  <2>3. rank[x] \in 0 .. Len(s)
    BY <1>1, <2>1 DEF Positions
  <2>4. CASE stop[x]
    BY <2>2, <2>3, <2>4
  <2>5. CASE ~stop[x]
    <3>1. ~(x[1] > Len(s))
      BY <2>2, <2>5
    <3>2. Next16(s, x) \in X /\ Next16(s, x)[1] > x[1]
      BY <3>1, StepTypes
    <3>3. next[x] = Next16(s, x)
      BY <2>5
    <3>4. Next16(s, x)[1] \in Positions
      BY <3>2
    <3>5. rank[Next16(s, x)] < rank[x]
      <4>1. rank[x] = Len(s) + 1 - x[1]
        BY <3>1
      <4>2. rank[Next16(s, x)] = IF Next16(s, x)[1] > Len(s) THEN 0 ELSE Len(s) + 1 - Next16(s, x)[1]
        BY <3>2
      <4> QED  BY <1>1, <2>1, <3>1, <3>2, <3>4, <4>1, <4>2 DEF Positions
    <3> HIDE DEF rank, next, stop
    <3> QED  BY <2>2, <2>3, <2>5, <3>2, <3>3, <3>5
  <2> QED  BY <2>4, <2>5
<1>3. stop \in [X -> BOOLEAN] /\ last \in [X -> V] /\ next \in [X -> X] /\ rank \in [X -> 0 .. Len(s)]
  BY <1>1, <1>2
<1>4. comb \in [X \X V -> V]
  <2>1. ASSUME NEW x \in X, NEW v \in V, ~stop[x]  PROVE Units(s, enc, x) \o v \in V
    <3>1. Units(s, enc, x) \in V
      BY <2>1, StepTypes
    <3> QED  BY <3>1, ConcatProperties
  <2> QED  BY <1>1, <2>1
<1>5. PICK f \in [X -> V] : \A x \in X : f[x] = IF stop[x] THEN last[x] ELSE comb[<<x, f[next[x]]>>]
  <2> HIDE DEF X, V, stop, last, next, comb, rank
  <2>1. \A x \in X : ~stop[x] => rank[next[x]] < rank[x]
    BY <1>2
  <2>2. Len(s) \in Nat
    BY <1>1
  <2>3. Defined(X, V, stop, last, next, comb)
    BY <1>3, <1>4, <2>1, <2>2, Recursion
  <2> QED  BY <2>3, Zenon DEF Defined
<1>6. ASSUME NEW x \in X  PROVE f[x] = To16(s, enc, f, x)
  <2>1. CASE stop[x]
    BY <1>5, <2>1 DEF To16
  <2>2. CASE ~stop[x]
    <3>1. next[x] = Next16(s, x) /\ next[x] \in X
      BY <1>2, <2>2
    <3>2. comb[<<x, f[next[x]]>>] = Units(s, enc, x) \o f[next[x]]
      BY <2>2, <3>1
    <3>3. f[x] = Units(s, enc, x) \o f[Next16(s, x)]
      BY <1>5, <2>2, <3>1, <3>2
    <3> QED  BY <2>2, <3>3 DEF To16
  <2> QED  BY <2>1, <2>2
<1>7. f = [x \in X |-> To16(s, enc, f, x)]
  BY <1>5, <1>6
<1> QED  BY <1>7

\* What Utf8To16 returns is the first value of a function that continues it.
LEMMA Utf8To16Continues ==
  ASSUME NEW s \in Seq(Octets), NEW enc
  PROVE  \E f : Utf8To16(s, enc) = f[<<1, TRUE>>] /\ Continues16(s, enc, f)
<1> DEFINE f == CHOOSE f : f = [x \in Positions \X BOOLEAN |-> To16(s, enc, f, x)]
<1>1. f = [x \in Positions \X BOOLEAN |-> To16(s, enc, f, x)]
  BY To16Defined, Zenon
<1>2. Utf8To16(s, enc) = f[<<1, TRUE>>]
  BY Utf8To16Unfolds
<1> HIDE DEF f
<1>3. Continues16(s, enc, f)
  <2> SUFFICES ASSUME NEW x \in Positions \X BOOLEAN  PROVE f[x] = To16(s, enc, f, x)
    BY DEF Continues16
  <2> QED  BY <1>1, Zenon
<1> QED  BY <1>2, <1>3

Odd == {n \in Nat : n % 2 = 1}

\* The step of Utf16To8.
Broken(d, enc, k) ==
  IsSurrogate(UnitAt(d, k, enc)) /\ (k + 3 > Len(d) \/ ~IsSurrogate(UnitAt(d, k + 2, enc)))

PointAt(d, enc, k) ==
  IF IsSurrogate(UnitAt(d, k, enc))
    THEN OfPair(UnitAt(d, k, enc), UnitAt(d, k + 2, enc))
    ELSE UnitAt(d, k, enc)

Next8(d, enc, k) == k + IF IsSurrogate(UnitAt(d, k, enc)) THEN 4 ELSE 2

To8(d, enc, f, k) ==
  IF k > Len(d) THEN <<>>
  ELSE IF Broken(d, enc, k) THEN Malformed
  ELSE IF f[Next8(d, enc, k)] = Malformed THEN Malformed
  ELSE Push(PointAt(d, enc, k)) \o f[Next8(d, enc, k)]

\* f takes every step of it.
Continues8(d, enc, f) == \A k \in Odd : f[k] = To8(d, enc, f, k)

LEMMA Utf16To8Unfolds ==
  ASSUME NEW d, NEW enc
  PROVE  Utf16To8(d, enc) = (CHOOSE f : f = [k \in Odd |-> To8(d, enc, f, k)])[1]
BY Zenon DEF Utf16To8, To8, Broken, PointAt, Next8, Odd

LEMMA Utf8Type ==
  ASSUME NEW c \in Nat
  PROVE  Utf8Of(c) \in Seq(Nat)
<1>1. PICK a1 \in Nat, a2 \in Nat, a3 \in Nat, b \in Nat, d \in Nat, e \in Nat :
        /\ a1 = 192 + c \div 64 /\ a2 = 224 + c \div 4096 /\ a3 = 240 + c \div 262144
        /\ b = 128 + ((c \div 4096) % 64) /\ d = 128 + ((c \div 64) % 64) /\ e = 128 + (c % 64)
  BY SMT
<1>2. /\ <<c>> \in Seq(Nat) /\ <<a1, e>> \in Seq(Nat) /\ <<a2, d, e>> \in Seq(Nat)
      /\ <<a3, b, d, e>> \in Seq(Nat)
  BY SMT
<1>3. CASE c < 128
  BY SMT, <1>2, <1>3 DEF Utf8Of
<1>4. CASE ~(c < 128) /\ Within(c, 128, 2047)
  <2>1. Utf8Of(c) = <<a1, e>>
    BY SMT, <1>1, <1>4 DEF Utf8Of, Within
  <2> QED  BY <1>2, <2>1
<1>5. CASE ~(c < 128) /\ ~Within(c, 128, 2047) /\ Within(c, 2048, 65535)
  <2>1. Utf8Of(c) = <<a2, d, e>>
    BY SMT, <1>1, <1>5 DEF Utf8Of, Within
  <2> QED  BY <1>2, <2>1
<1>6. CASE ~(c < 128) /\ ~Within(c, 128, 2047) /\ ~Within(c, 2048, 65535)
  <2>1. Utf8Of(c) = <<a3, b, d, e>>
    BY SMT, <1>1, <1>6 DEF Utf8Of
  <2> QED  BY <1>2, <2>1
<1> QED  BY <1>3, <1>4, <1>5, <1>6

LEMMA PushType ==
  ASSUME NEW c \in Nat
  PROVE  Push(c) \in Seq(Nat)
<1>1. <<0>> \in Seq(Nat)
  OBVIOUS
<1> QED  BY <1>1, Utf8Type DEF Push

LEMMA UnitNat ==
  ASSUME NEW d \in Seq(Octets), NEW k \in Nat, k > 0, k + 1 <= Len(d), NEW enc
  PROVE  UnitAt(d, k, enc) \in Nat
<1>1. PICK a \in Nat, b \in Nat : d[k] = a /\ d[k + 1] = b
  <2>1. k \in 1 .. Len(d) /\ k + 1 \in 1 .. Len(d)
    BY LenProperties
  <2> QED  BY <2>1, ElementOfSeq DEF Octets
<1> QED  BY <1>1 DEF UnitAt

LEMMA To8Types ==
  ASSUME NEW d \in Seq(Octets), Len(d) % 2 = 0, NEW enc, NEW k \in Odd, ~(k > Len(d)), ~Broken(d, enc, k)
  PROVE  /\ Next8(d, enc, k) \in Odd /\ Next8(d, enc, k) > k
         /\ Push(PointAt(d, enc, k)) \in Seq(Nat)
<1>1. k \in Nat /\ k > 0 /\ k % 2 = 1 /\ Len(d) \in Nat /\ k + 1 <= Len(d)
  BY LenProperties DEF Odd
<1>2. UnitAt(d, k, enc) \in Nat
  BY <1>1, UnitNat
<1>3. CASE IsSurrogate(UnitAt(d, k, enc))
  <2>1. ~(k + 3 > Len(d))
    BY <1>3 DEF Broken
  <2>2. UnitAt(d, k + 2, enc) \in Nat
    <3>1. k + 2 \in Nat /\ k + 2 > 0 /\ (k + 2) + 1 <= Len(d)
      BY <1>1, <2>1
    <3> QED  BY <3>1, UnitNat
  <2>3. PICK u \in Nat, v \in Nat : u = UnitAt(d, k, enc) /\ v = UnitAt(d, k + 2, enc)
    BY <1>2, <2>2
  <2>4. PointAt(d, enc, k) = (u % 1024) * 1024 + (v % 1024) + 65536
    BY SMT, <1>3, <2>3 DEF PointAt, OfPair
  <2>5. PointAt(d, enc, k) \in Nat
    BY SMT, <2>4
  <2>6. Next8(d, enc, k) = k + 4
    BY <1>3 DEF Next8
  <2> QED  BY <1>1, <2>5, <2>6, PushType DEF Odd
<1>4. CASE ~IsSurrogate(UnitAt(d, k, enc))
  <2>1. PointAt(d, enc, k) \in Nat
    BY SMT, <1>2, <1>4 DEF PointAt
  <2>2. Next8(d, enc, k) = k + 2
    BY <1>4 DEF Next8
  <2> QED  BY <1>1, <2>1, <2>2, PushType DEF Odd
<1> QED  BY <1>3, <1>4

LEMMA To8Defined ==
  ASSUME NEW d \in Seq(Octets), Len(d) % 2 = 0, NEW enc
  PROVE  \E f : f = [k \in Odd |-> To8(d, enc, f, k)]
<1> DEFINE X == Odd
           V == Seq(Nat)
           stop == [k \in X |-> k > Len(d) \/ Broken(d, enc, k)]
           last == [k \in X |-> IF k > Len(d) THEN <<>> ELSE Malformed]
           next == [k \in X |-> IF stop[k] THEN k ELSE Next8(d, enc, k)]
           comb == [y \in X \X V |-> IF stop[y[1]] \/ y[2] = Malformed THEN Malformed
                                     ELSE Push(PointAt(d, enc, y[1])) \o y[2]]
           rank == [k \in X |-> IF k > Len(d) THEN 0 ELSE Len(d) + 1 - k]
<1>1. <<>> \in V /\ Malformed \in V /\ Len(d) \in Nat
  BY EmptySeq, LenProperties DEF Malformed
<1>2. ASSUME NEW k \in X
      PROVE  /\ stop[k] \in BOOLEAN /\ next[k] \in X /\ rank[k] \in 0 .. Len(d)
             /\ ~stop[k] => rank[next[k]] < rank[k]
  <2>1. k \in Nat /\ k > 0
    BY DEF Odd
  <2>2. stop[k] = (k > Len(d) \/ Broken(d, enc, k)) /\ stop[k] \in BOOLEAN
    OBVIOUS
  <2>3. rank[k] \in 0 .. Len(d)
    BY <1>1, <2>1
  <2>4. CASE stop[k]
    BY <2>2, <2>3, <2>4
  <2>5. CASE ~stop[k]
    <3>1. ~(k > Len(d)) /\ ~Broken(d, enc, k)
      BY <2>2, <2>5
    <3>2. Next8(d, enc, k) \in X /\ Next8(d, enc, k) > k
      BY <3>1, To8Types
    <3>3. next[k] = Next8(d, enc, k)
      BY <2>5
    <3>4. Next8(d, enc, k) \in Nat
      BY <3>2 DEF Odd
    <3>5. rank[Next8(d, enc, k)] < rank[k]
      <4>1. rank[k] = Len(d) + 1 - k
        BY <3>1
      <4>2. rank[Next8(d, enc, k)] = IF Next8(d, enc, k) > Len(d) THEN 0 ELSE Len(d) + 1 - Next8(d, enc, k)
        BY <3>2
      <4> QED  BY <1>1, <2>1, <3>1, <3>2, <3>4, <4>1, <4>2
    <3> HIDE DEF rank, next, stop
    <3> QED  BY <2>2, <2>3, <2>5, <3>2, <3>3, <3>5
  <2> QED  BY <2>4, <2>5
<1>3. stop \in [X -> BOOLEAN] /\ last \in [X -> V] /\ next \in [X -> X] /\ rank \in [X -> 0 .. Len(d)]
  BY <1>1, <1>2
<1>4. comb \in [X \X V -> V]
  <2>1. ASSUME NEW k \in X, NEW v \in V, ~stop[k]  PROVE Push(PointAt(d, enc, k)) \o v \in V
    <3>1. Push(PointAt(d, enc, k)) \in V
      BY <2>1, To8Types
    <3> QED  BY <3>1, ConcatProperties
  <2> QED  BY <1>1, <2>1
<1>5. PICK f \in [X -> V] : \A k \in X : f[k] = IF stop[k] THEN last[k] ELSE comb[<<k, f[next[k]]>>]
  <2> HIDE DEF X, V, stop, last, next, comb, rank
  <2>1. \A k \in X : ~stop[k] => rank[next[k]] < rank[k]
    BY <1>2
  <2>2. Len(d) \in Nat
    BY <1>1
  <2>3. Defined(X, V, stop, last, next, comb)
    BY <1>3, <1>4, <2>1, <2>2, Recursion
  <2> QED  BY <2>3, Zenon DEF Defined
<1>6. ASSUME NEW k \in X  PROVE f[k] = To8(d, enc, f, k)
  <2>1. CASE stop[k]
    BY <1>5, <2>1 DEF To8
  <2>2. CASE ~stop[k]
    <3>1. next[k] = Next8(d, enc, k) /\ next[k] \in X
      BY <1>2, <2>2
    <3>2. comb[<<k, f[next[k]]>>]
          = IF f[next[k]] = Malformed THEN Malformed ELSE Push(PointAt(d, enc, k)) \o f[next[k]]
      BY <2>2, <3>1
    <3>3. f[k] = comb[<<k, f[next[k]]>>]
      BY <1>5, <2>2
    <3> QED  BY <2>2, <3>1, <3>2, <3>3 DEF To8
  <2> QED  BY <2>1, <2>2
<1>7. f = [k \in X |-> To8(d, enc, f, k)]
  BY <1>5, <1>6
<1> QED  BY <1>7

LEMMA Utf16To8Continues ==
  ASSUME NEW d \in Seq(Octets), Len(d) % 2 = 0, NEW enc
  PROVE  \E f : Utf16To8(d, enc) = f[1] /\ Continues8(d, enc, f)
<1> DEFINE f == CHOOSE f : f = [k \in Odd |-> To8(d, enc, f, k)]
<1>1. f = [k \in Odd |-> To8(d, enc, f, k)]
  BY To8Defined, Zenon
<1>2. Utf16To8(d, enc) = f[1]
  BY Utf16To8Unfolds
<1> HIDE DEF f
<1>3. Continues8(d, enc, f)
  <2> SUFFICES ASSUME NEW k \in Odd  PROVE f[k] = To8(d, enc, f, k)
    BY DEF Continues8
  <2> QED  BY <1>1, Zenon
<1> QED  BY <1>2, <1>3

\* The code points of the texts below: those that the encoder takes.  It takes
\* none above 0xFFFF whose lowest 16 bits look like a surrogate.
Characters == {c \in Nat : c # 0 /\ IsCodePointValid(c)}

\* s is cs in UTF-8, the i-th code point beginning at byte at[i].
Spells(s, cs, at) ==
  /\ s \in Seq(Octets) /\ cs \in Seq(Characters)
  /\ at \in [1 .. Len(cs) + 1 -> 1 .. Len(s) + 1]
  /\ at[1] = 1 /\ at[Len(cs) + 1] = Len(s) + 1
  /\ \A i \in 1 .. Len(cs) : at[i + 1] = at[i] + Len(Utf8Of(cs[i])) /\ Has(s, at[i], Utf8Of(cs[i]))

\* In a step, f turns c, which stands at k, into UTF-16.
Converts(s, enc, f, k, c) ==
  f[<<k, TRUE>>] = Utf16Of(c, enc) \o f[<<k + Len(Utf8Of(c)), TRUE>>]

LEMMA CharacterConverted ==
  ASSUME NEW s \in Seq(Octets), NEW enc, NEW k \in Positions, NEW c \in Characters,
         Has(s, k, Utf8Of(c)), k + Len(Utf8Of(c)) <= Len(s) + 1,
         NEW f, Continues16(s, enc, f)
  PROVE  Converts(s, enc, f, k, c)
<1> DEFINE y == <<k, TRUE>>
<1>1. c \in Nat /\ c # 0 /\ IsCodePointValid(c) /\ k \in Nat /\ k > 0 /\ Len(s) \in Nat
  BY LenProperties DEF Characters, Positions
<1>2. c <= 1114111
  BY SMT, <1>1 DEF IsCodePointValid
<1>3. /\ Len(Utf8Of(c)) \in 1 .. 4 /\ Breaks(s, k, Len(Utf8Of(c))) = {} /\ s[k] # 0
      /\ SequenceLength(s[k]) = Len(Utf8Of(c)) /\ ByteSequence(s, k, Len(Utf8Of(c))) = c
      /\ ~IsSequenceTooLong(c, Len(Utf8Of(c)))
  BY SMT, <1>1, <1>2, Utf8Complete, Utf8Found DEF Found
<1>4. PICK n \in Nat : n = Len(Utf8Of(c)) /\ n > 0
  BY <1>3
<1>5. /\ Breaks(s, k, n) = {} /\ SequenceLength(s[k]) = n /\ ByteSequence(s, k, n) = c
      /\ ~IsSequenceTooLong(c, n)
  BY <1>3, <1>4
<1>6. y \in Positions \X BOOLEAN /\ y[1] = k /\ y[2] /\ ~(k > Len(s))
  <2>1. y \in Positions \X BOOLEAN /\ y[1] = k /\ y[2]
    OBVIOUS
  <2>2. ~(k > Len(s))
    BY <1>1, <1>4
  <2> QED  BY <2>1, <2>2
<1>7. Valid(s, y) \in BOOLEAN
  BY <1>6, StepTypes
<1> HIDE DEF y
<1>8. Valid(s, y)
  BY <1>1, <1>4, <1>5, <1>6 DEF Valid
<1>9. Units(s, enc, y) = Utf16Of(c, enc)
  BY <1>5, <1>6, <1>8 DEF Units
<1>10. BytesRead(s, k, n) = n
  BY <1>4, <1>5 DEF BytesRead
<1>11. Next16(s, y) = <<k + n, TRUE>>
  BY <1>5, <1>6, <1>7, <1>8, <1>10 DEF Next16
<1>12. To16(s, enc, f, y) = Units(s, enc, y) \o f[Next16(s, y)]
  BY <1>3, <1>6 DEF To16
<1>13. f[y] = Utf16Of(c, enc) \o f[<<k + n, TRUE>>]
  <2>1. f[y] = To16(s, enc, f, y)
    BY <1>6, Zenon DEF Continues16
  <2> QED  BY <1>9, <1>11, <1>12, <2>1
<1> QED  BY <1>4, <1>13 DEF y, Converts

\* In a step, f turns c, which stands at k, into UTF-8.
Restores(d, enc, f, k, c) ==
  k + Len(Utf16Of(c, enc)) \in Odd /\ f[k] = Utf8Of(c) \o f[k + Len(Utf16Of(c, enc))]

LEMMA CharacterRestored ==
  ASSUME NEW d, Len(d) \in Nat, NEW enc, NEW k \in Odd, NEW c \in Characters,
         Has(d, k, Utf16Of(c, enc)), k + Len(Utf16Of(c, enc)) <= Len(d) + 1,
         NEW f, Continues8(d, enc, f),
         f[k + Len(Utf16Of(c, enc))] # Malformed
  PROVE  Restores(d, enc, f, k, c)
<1>1. c \in Nat /\ IsCodePointValid(c) /\ k \in Nat /\ k % 2 = 1
  BY DEF Characters, Odd
<1>2. Found16(d, k, c, enc)
  BY <1>1, Utf16Found
<1>3. Len(Utf16Of(c, enc)) = IF c <= 65535 THEN 2 ELSE 4
  BY <1>1, Utf16Type
<1>4. /\ ~(k > Len(d)) /\ ~Broken(d, enc, k) /\ PointAt(d, enc, k) = c
      /\ Next8(d, enc, k) = k + Len(Utf16Of(c, enc))
  <2>1. CASE c <= 65535
    <3>1. UnitAt(d, k, enc) = c /\ ~IsSurrogate(c)
      BY <1>2, <2>1 DEF Found16
    <3>2. Len(Utf16Of(c, enc)) = 2
      BY <1>3, <2>1
    <3>3. ~Broken(d, enc, k) /\ PointAt(d, enc, k) = c /\ Next8(d, enc, k) = k + 2
      BY <3>1 DEF Broken, PointAt, Next8
    <3> QED  BY <1>1, <3>2, <3>3
  <2>2. CASE ~(c <= 65535)
    <3>1. /\ IsSurrogate(UnitAt(d, k, enc)) /\ IsSurrogate(UnitAt(d, k + 2, enc))
          /\ OfPair(UnitAt(d, k, enc), UnitAt(d, k + 2, enc)) = c
      BY SMT, <1>2, <2>2 DEF Found16
    <3>2. Len(Utf16Of(c, enc)) = 4
      BY SMT, <1>3, <2>2
    <3>3. ~(k + 3 > Len(d)) /\ ~(k > Len(d))
      BY <1>1, <3>2
    <3>4. ~Broken(d, enc, k) /\ PointAt(d, enc, k) = c /\ Next8(d, enc, k) = k + 4
      BY <3>1, <3>3 DEF Broken, PointAt, Next8
    <3> QED  BY <3>2, <3>3, <3>4
  <2> QED  BY <2>1, <2>2
<1>5. k + Len(Utf16Of(c, enc)) \in Odd
  <2>1. (k + 2) % 2 = 1 /\ (k + 4) % 2 = 1
    BY <1>1
  <2> QED  BY <1>1, <1>3, <2>1 DEF Odd
<1>6. Push(c) = Utf8Of(c)
  BY <1>1 DEF Push
<1>7. To8(d, enc, f, k) = Push(PointAt(d, enc, k)) \o f[Next8(d, enc, k)]
  BY <1>4 DEF To8
<1>8. f[k] = To8(d, enc, f, k)
  BY DEF Continues8
<1> QED  BY <1>4, <1>5, <1>6, <1>7, <1>8 DEF Restores

\* A sequence made of pieces of even length has each at an odd place.
LEMMA Pieces ==
  ASSUME NEW n \in Nat, NEW E, NEW G, E[n + 1] = <<>>,
         \A i \in 1 .. n : G[i] \in Seq(Octets) /\ Len(G[i]) % 2 = 0 /\ E[i] = G[i] \o E[i + 1]
  PROVE  /\ E[1] \in Seq(Octets)
         /\ \E to \in [1 .. n + 1 -> Odd] :
              /\ to[1] = 1 /\ to[n + 1] = Len(E[1]) + 1
              /\ \A i \in 1 .. n : /\ to[i + 1] = to[i] + Len(G[i]) /\ Has(E[1], to[i], G[i])
                                 /\ to[i + 1] <= Len(E[1]) + 1
<1>1. \A i \in 1 .. n + 1 : E[i] \in Seq(Octets)
  <2> DEFINE M == {i \in Nat : E[i] \in Seq(Octets)}
  <2>1. n + 1 \in M
    <3>1. E[n + 1] \in Seq(Octets)
      BY EmptySeq, Zenon
    <3>2. n + 1 \in Nat
      OBVIOUS
    <3> QED  BY <3>1, <3>2, Zenon
  <2>2. ASSUME NEW i \in 1 .. n, i + 1 \in M  PROVE i \in M
    <3>1. E[i + 1] \in Seq(Octets) /\ G[i] \in Seq(Octets) /\ E[i] = G[i] \o E[i + 1]
      BY <2>2
    <3>2. E[i] \in Seq(Octets)
      BY <3>1, ConcatProperties
    <3> QED  BY <3>2
  <2>3. \A i \in 1 .. n + 1 : i \in M
    <3> HIDE DEF M
    <3> QED  BY <2>1, <2>2, Downwards
  <2> QED  BY <2>3
<1> DEFINE L(i) == Len(E[i])
<1>2. \A i \in 1 .. n + 1 : L(i) \in Nat
  BY <1>1, LenProperties
<1>3. \A i \in 1 .. n : Len(G[i]) \in Nat
  BY LenProperties
<1>4. ASSUME NEW i \in 1 .. n  PROVE L(i) = Len(G[i]) + L(i + 1) /\ i \in 1 .. n + 1 /\ i + 1 \in 1 .. n + 1
  <2>1. i \in 1 .. n + 1 /\ i + 1 \in 1 .. n + 1
    OBVIOUS
  <2>2. G[i] \in Seq(Octets) /\ E[i + 1] \in Seq(Octets) /\ E[i] = G[i] \o E[i + 1]
    BY <1>1, <2>1
  <2> QED  BY <2>1, <2>2, ConcatProperties
<1> HIDE DEF L
<1> DEFINE to == [i \in 1 .. n + 1 |-> L(1) + 1 - L(i)]
<1>5. 1 \in 1 .. n + 1 /\ n + 1 \in 1 .. n + 1
  OBVIOUS
<1>6. \A i \in 1 .. n + 1 : to[i] = L(1) + 1 - L(i)
  OBVIOUS
<1>7. to = [i \in 1 .. n + 1 |-> to[i]]
  OBVIOUS
<1> HIDE DEF to
<1>8. to[1] = 1
  BY <1>2, <1>5, <1>6
<1>9. to[n + 1] = Len(E[1]) + 1
  <2>1. L(n + 1) = 0 /\ L(1) = Len(E[1])
    BY DEF L
  <2> QED  BY <1>2, <1>5, <1>6, <2>1
<1>10. ASSUME NEW i \in 1 .. n  PROVE to[i + 1] = to[i] + Len(G[i]) /\ to[i + 1] <= Len(E[1]) + 1
  <2>1. to[i] = L(1) + 1 - L(i) /\ to[i + 1] = L(1) + 1 - L(i + 1) /\ L(i) = Len(G[i]) + L(i + 1)
    BY <1>4, <1>6
  <2>2. L(1) \in Nat /\ L(i) \in Nat /\ L(i + 1) \in Nat /\ Len(G[i]) \in Nat
    BY <1>2, <1>3, <1>4, <1>5
  <2>3. L(1) = Len(E[1])
    BY DEF L
  <2>4. PICK x \in Nat, y \in Nat, z \in Nat, g \in Nat :
          x = L(1) /\ y = L(i) /\ z = L(i + 1) /\ g = Len(G[i])
    BY <2>2
  <2>5. to[i] = x + 1 - y /\ to[i + 1] = x + 1 - z /\ y = g + z /\ x = Len(E[1])
    BY <2>1, <2>3, <2>4
  <2>6. x + 1 - z = (x + 1 - y) + g /\ x + 1 - z <= x + 1
    BY <2>5
  <2> QED  BY <2>4, <2>5, <2>6
<1>11. ASSUME NEW i \in 1 .. n, to[i] \in Odd, Has(E[1], to[i], E[i])
       PROVE  /\ Has(E[1], to[i], G[i])
              /\ to[i + 1] \in Odd /\ Has(E[1], to[i + 1], E[i + 1])
  <2>1. /\ G[i] \in Seq(Octets) /\ E[i + 1] \in Seq(Octets) /\ E[i] = G[i] \o E[i + 1]
        /\ to[i] \in Nat /\ to[i] % 2 = 1 /\ Len(G[i]) \in Nat /\ Len(G[i]) % 2 = 0
    BY <1>1, <1>3, <1>4, <1>11 DEF Odd
  <2>2. Has(E[1], to[i], G[i]) /\ Has(E[1], to[i] + Len(G[i]), E[i + 1])
    BY <1>11, <2>1, HasConcat
  <2>3. to[i] + Len(G[i]) \in Odd
    <3>1. PICK a \in Nat, b \in Nat : to[i] = a /\ Len(G[i]) = b
      BY <2>1
    <3>2. a % 2 = 1 /\ b % 2 = 0
      BY <2>1, <3>1
    <3>3. (a + b) % 2 = 1
      BY <3>2
    <3> QED  BY <3>1, <3>3 DEF Odd
  <2> QED  BY <1>10, <2>2, <2>3
<1>12. \A i \in 1 .. n + 1 : to[i] \in Odd /\ Has(E[1], to[i], E[i])
  <2> DEFINE M == {i \in 1 .. n + 1 : to[i] \in Odd /\ Has(E[1], to[i], E[i])}
  <2>1. 1 \in M
    <3>1. Has(E[1], to[1], E[1])
      BY <1>8 DEF Has
    <3> QED  BY <1>5, <1>8, <3>1 DEF Odd
  <2>2. \A i \in 1 .. n : i \in M => i + 1 \in M
    BY <1>4, <1>11
  <2>3. \A i \in 1 .. n + 1 : i \in M
    <3> HIDE DEF M
    <3> QED  BY <2>1, <2>2, Upwards
  <2> QED  BY <2>3
<1>13. \A i \in 1 .. n : /\ to[i + 1] = to[i] + Len(G[i]) /\ Has(E[1], to[i], G[i])
                         /\ to[i + 1] <= Len(E[1]) + 1
  BY <1>4, <1>10, <1>11, <1>12
<1>14. to \in [1 .. n + 1 -> Odd]
  BY <1>7, <1>12
<1> QED  BY <1>1, <1>5, <1>8, <1>9, <1>13, <1>14

\* d is cs in UTF-16, the i-th code point beginning at byte to[i].
Spells16(d, cs, enc, to) ==
  /\ d \in Seq(Octets) /\ to \in [1 .. Len(cs) + 1 -> Odd]
  /\ to[1] = 1 /\ to[Len(cs) + 1] = Len(d) + 1
  /\ \A i \in 1 .. Len(cs) :
       /\ to[i + 1] = to[i] + Len(Utf16Of(cs[i], enc)) /\ to[i + 1] <= Len(d) + 1
       /\ Has(d, to[i], Utf16Of(cs[i], enc))

LEMMA SpelledTypes ==
  ASSUME NEW s, NEW cs, NEW at, Spells(s, cs, at)
  PROVE  /\ Len(s) \in Nat /\ Len(cs) \in Nat
         /\ \A i \in 1 .. Len(cs) + 1 : at[i] \in Positions /\ at[i] <= Len(s) + 1
         /\ \A i \in 1 .. Len(cs) : cs[i] \in Characters /\ at[i + 1] <= Len(s) + 1
<1>1. /\ s \in Seq(Octets) /\ cs \in Seq(Characters)
      /\ at \in [1 .. Len(cs) + 1 -> 1 .. Len(s) + 1]
  BY DEF Spells
<1>2. Len(s) \in Nat /\ Len(cs) \in Nat
  BY <1>1, LenProperties
<1>3. ASSUME NEW i \in 1 .. Len(cs) + 1  PROVE at[i] \in Positions /\ at[i] <= Len(s) + 1
  <2>1. at[i] \in 1 .. Len(s) + 1
    BY <1>1
  <2> QED  BY <1>2, <2>1 DEF Positions
<1>4. ASSUME NEW i \in 1 .. Len(cs)  PROVE cs[i] \in Characters /\ at[i + 1] <= Len(s) + 1
  <2>1. cs[i] \in Characters
    BY <1>1, ElementOfSeq
  <2>2. i + 1 \in 1 .. Len(cs) + 1
    BY <1>2
  <2> QED  BY <1>3, <2>1, <2>2
<1> QED  BY <1>2, <1>3, <1>4

LEMMA EvenUnits ==
  ASSUME NEW c \in Characters, NEW enc
  PROVE  Utf16Of(c, enc) \in Seq(Octets) /\ Len(Utf16Of(c, enc)) % 2 = 0
<1>1. c \in Nat /\ IsCodePointValid(c)
  BY DEF Characters
<1>2. Utf16Of(c, enc) \in Seq(Octets) /\ (Len(Utf16Of(c, enc)) = 2 \/ Len(Utf16Of(c, enc)) = 4)
  BY <1>1, Utf16Type
<1>3. PICK l \in {2, 4} : Len(Utf16Of(c, enc)) = l
  BY <1>2
<1>4. l % 2 = 0
  OBVIOUS
<1> QED  BY <1>2, <1>3, <1>4

LEMMA TextConverted ==
  ASSUME NEW s, NEW cs, NEW at, Spells(s, cs, at), NEW enc
  PROVE  \E to : Spells16(Utf8To16(s, enc), cs, enc, to)
<1>1. PICK n \in Nat : n = Len(cs)
  BY SpelledTypes
<1>2. /\ s \in Seq(Octets) /\ at[1] = 1 /\ at[n + 1] = Len(s) + 1
      /\ \A i \in 1 .. n : at[i + 1] = at[i] + Len(Utf8Of(cs[i])) /\ Has(s, at[i], Utf8Of(cs[i]))
  BY <1>1 DEF Spells
<1>3. /\ Len(s) \in Nat
      /\ \A i \in 1 .. n + 1 : at[i] \in Positions /\ at[i] <= Len(s) + 1
      /\ \A i \in 1 .. n : cs[i] \in Characters /\ at[i + 1] <= Len(s) + 1
  BY <1>1, SpelledTypes
<1>4. PICK f : Utf8To16(s, enc) = f[<<1, TRUE>>] /\ Continues16(s, enc, f)
  BY <1>2, Utf8To16Continues
<1> DEFINE G == [i \in 1 .. n |-> Utf16Of(cs[i], enc)]
           E == [i \in 1 .. n + 1 |-> f[<<at[i], TRUE>>]]
<1>5. \A i \in 1 .. n : G[i] = Utf16Of(cs[i], enc)
  OBVIOUS
<1>6. \A i \in 1 .. n + 1 : E[i] = f[<<at[i], TRUE>>]
  OBVIOUS
<1> HIDE DEF G, E
<1>7. E[n + 1] = <<>>
  <2> DEFINE y == <<Len(s) + 1, TRUE>>
  <2>1. y \in Positions \X BOOLEAN /\ y[1] > Len(s)
    <3>1. Len(s) + 1 \in Positions /\ Len(s) + 1 > Len(s)
      BY <1>3 DEF Positions
    <3> QED  BY <3>1
  <2>2. E[n + 1] = f[y]
    <3>1. n + 1 \in 1 .. n + 1
      OBVIOUS
    <3> QED  BY <1>2, <1>6, <3>1
  <2> HIDE DEF y
  <2>3. To16(s, enc, f, y) = <<>>
    BY <2>1 DEF To16
  <2>4. f[y] = To16(s, enc, f, y)
    BY <1>4, <2>1, Zenon DEF Continues16
  <2> QED  BY <2>2, <2>3, <2>4
<1>8. ASSUME NEW k \in Positions, NEW c \in Characters, Has(s, k, Utf8Of(c)),
             k + Len(Utf8Of(c)) <= Len(s) + 1
      PROVE  Converts(s, enc, f, k, c)
  <2>1. s \in Seq(Octets) /\ Continues16(s, enc, f)
    BY <1>2, <1>4
  <2> QED  BY <1>8, <2>1, CharacterConverted, Zenon
<1>9. ASSUME NEW i \in 1 .. n
      PROVE  G[i] \in Seq(Octets) /\ Len(G[i]) % 2 = 0 /\ E[i] = G[i] \o E[i + 1]
  <2>1. i \in 1 .. n + 1 /\ i + 1 \in 1 .. n + 1
    OBVIOUS
  <2>2. /\ at[i] \in Positions /\ cs[i] \in Characters /\ Has(s, at[i], Utf8Of(cs[i]))
        /\ at[i] + Len(Utf8Of(cs[i])) <= Len(s) + 1 /\ at[i + 1] = at[i] + Len(Utf8Of(cs[i]))
    BY <1>2, <1>3, <2>1
  <2>3. f[<<at[i], TRUE>>] = Utf16Of(cs[i], enc) \o f[<<at[i] + Len(Utf8Of(cs[i])), TRUE>>]
    BY <1>8, <2>2 DEF Converts
  <2>4. E[i] = G[i] \o E[i + 1]
    BY <1>5, <1>6, <2>1, <2>2, <2>3
  <2>5. G[i] \in Seq(Octets) /\ Len(G[i]) % 2 = 0
    <3>1. G[i] = Utf16Of(cs[i], enc)
      BY <1>5
    <3>2. Utf16Of(cs[i], enc) \in Seq(Octets) /\ Len(Utf16Of(cs[i], enc)) % 2 = 0
      BY <2>2, EvenUnits, Zenon
    <3> QED  BY <3>1, <3>2, Zenon
  <2> QED  BY <2>4, <2>5, Zenon
<1>10. /\ E[1] \in Seq(Octets)
      /\ \E to \in [1 .. n + 1 -> Odd] :
           /\ to[1] = 1 /\ to[n + 1] = Len(E[1]) + 1
           /\ \A i \in 1 .. n : /\ to[i + 1] = to[i] + Len(G[i]) /\ Has(E[1], to[i], G[i])
                              /\ to[i + 1] <= Len(E[1]) + 1
  BY <1>7, <1>9, Pieces
<1>11. E[1] = Utf8To16(s, enc)
  <2>1. 1 \in 1 .. n + 1
    OBVIOUS
  <2> QED  BY <1>2, <1>4, <1>6, <2>1
<1>12. PICK to \in [1 .. n + 1 -> Odd] :
         /\ to[1] = 1 /\ to[n + 1] = Len(E[1]) + 1
         /\ \A i \in 1 .. n : /\ to[i + 1] = to[i] + Len(G[i]) /\ Has(E[1], to[i], G[i])
                            /\ to[i + 1] <= Len(E[1]) + 1
  BY <1>10, Zenon
<1>13. \A i \in 1 .. n : /\ to[i + 1] = to[i] + Len(Utf16Of(cs[i], enc)) /\ to[i + 1] <= Len(E[1]) + 1
                         /\ Has(E[1], to[i], Utf16Of(cs[i], enc))
  BY <1>5, <1>12, Zenon
<1> QED  BY <1>1, <1>10, <1>11, <1>12, <1>13, Zenon DEF Spells16

\* The rest of a text from byte k on, which conversions never take for a failure.
LEMMA RestOfText ==
  ASSUME NEW s \in Seq(Octets), NEW k \in Positions, k <= Len(s) + 1
  PROVE  /\ SubSeq(s, k, Len(s)) \in Seq(Octets)
         /\ Len(SubSeq(s, k, Len(s))) = Len(s) + 1 - k
         /\ \A j \in 1 .. Len(s) + 1 - k : SubSeq(s, k, Len(s))[j] = s[k + j - 1]
         /\ SubSeq(s, k, Len(s)) # Malformed
<1>1. k \in Nat /\ k > 0 /\ Len(s) \in Nat
  BY LenProperties DEF Positions
<1>2. \A i \in k .. Len(s) : s[i] \in Octets
  <2> SUFFICES ASSUME NEW i \in k .. Len(s)  PROVE s[i] \in Octets
    OBVIOUS
  <2>1. i \in 1 .. Len(s)
    BY <1>1
  <2> QED  BY <2>1, ElementOfSeq
<1>3. /\ SubSeq(s, k, Len(s)) \in Seq(Octets)
      /\ Len(SubSeq(s, k, Len(s))) = (IF k <= Len(s) THEN Len(s) - k + 1 ELSE 0)
      /\ \A j \in 1 .. Len(s) - k + 1 : SubSeq(s, k, Len(s))[j] = s[k + j - 1]
  <2>1. k \in Int /\ Len(s) \in Int
    BY <1>1
  <2> QED  BY <1>2, <2>1, SubSeqProperties
<1>4. Len(SubSeq(s, k, Len(s))) = Len(s) + 1 - k /\ Len(s) - k + 1 = Len(s) + 1 - k
  BY <1>1, <1>3
<1>5. SubSeq(s, k, Len(s)) # Malformed
  <2> SUFFICES ASSUME SubSeq(s, k, Len(s)) = Malformed  PROVE FALSE
    OBVIOUS
  <2>1. Len(Malformed) = 1 /\ Malformed[1] = 256
    BY DEF Malformed
  <2>2. Malformed[1] \in Octets
    <3>1. Malformed \in Seq(Octets)
      BY <1>3, Zenon
    <3>2. 1 \in 1 .. Len(Malformed)
      BY <2>1
    <3> QED  BY <3>1, <3>2, ElementOfSeq, Zenon
  <2> QED  BY <2>1, <2>2 DEF Octets
<1> QED  BY <1>3, <1>4, <1>5

\* What stands at byte k and the rest behind it are the rest from byte k on.
LEMMA RestAssembled ==
  ASSUME NEW s \in Seq(Octets), NEW k \in Positions, NEW u \in Seq(Nat), Has(s, k, u),
         k + Len(u) <= Len(s) + 1
  PROVE  u \o SubSeq(s, k + Len(u), Len(s)) = SubSeq(s, k, Len(s))
<1>1. k \in Nat /\ k > 0 /\ Len(s) \in Nat /\ Len(u) \in Nat
  BY LenProperties DEF Positions
<1> DEFINE r == SubSeq(s, k + Len(u), Len(s))
           t == SubSeq(s, k, Len(s))
<1>2. Octets \subseteq Nat
  BY DEF Octets
<1>3. /\ r \in Seq(Nat) /\ Len(r) = Len(s) + 1 - (k + Len(u))
      /\ \A j \in 1 .. Len(r) : r[j] = s[k + Len(u) + j - 1]
  <2>1. k + Len(u) \in Positions
    BY <1>1 DEF Positions
  <2>2. /\ r \in Seq(Octets) /\ Len(r) = Len(s) + 1 - (k + Len(u))
        /\ \A j \in 1 .. Len(s) + 1 - (k + Len(u)) : r[j] = s[k + Len(u) + j - 1]
    BY <2>1, RestOfText
  <2> QED  BY <1>2, <2>2, SeqMonotonic
<1>4. /\ t \in Seq(Nat) /\ Len(t) = Len(s) + 1 - k
      /\ \A j \in 1 .. Len(t) : t[j] = s[k + j - 1]
  <2>1. k <= Len(s) + 1
    BY <1>1
  <2>2. /\ t \in Seq(Octets) /\ Len(t) = Len(s) + 1 - k
        /\ \A j \in 1 .. Len(s) + 1 - k : t[j] = s[k + j - 1]
    BY <2>1, RestOfText
  <2> QED  BY <1>2, <2>2, SeqMonotonic
<1> HIDE DEF r, t
<1>5. /\ u \o r \in Seq(Nat) /\ Len(u \o r) = Len(u) + Len(r)
      /\ \A i \in 1 .. Len(u) + Len(r) : (u \o r)[i] = IF i <= Len(u) THEN u[i] ELSE r[i - Len(u)]
  BY <1>3, ConcatProperties
<1>6. Len(u \o r) = Len(t)
  BY <1>1, <1>3, <1>4, <1>5
<1>7. ASSUME NEW i \in 1 .. Len(u \o r)  PROVE (u \o r)[i] = t[i]
  <2>1. t[i] = s[k + i - 1]
    BY <1>4, <1>6
  <2>2. CASE i <= Len(u)
    <3>1. s[k + i - 1] = u[i]
      BY <1>1, <1>5, <2>2 DEF Has
    <3> QED  BY <1>5, <2>1, <2>2, <3>1
  <2>3. CASE ~(i <= Len(u))
    <3>1. i - Len(u) \in 1 .. Len(r) /\ k + Len(u) + (i - Len(u)) - 1 = k + i - 1
      BY <1>1, <1>3, <1>5, <2>3
    <3>2. r[i - Len(u)] = s[k + i - 1]
      BY <1>3, <3>1
    <3> QED  BY <1>5, <2>1, <2>3, <3>2
  <2> QED  BY <2>2, <2>3
<1>8. u \o r = t
  BY <1>4, <1>5, <1>6, <1>7, SeqEqual
<1> QED  BY <1>8 DEF r, t

LEMMA SpelledTypes16 ==
  ASSUME NEW d, NEW cs, NEW enc, NEW to, Spells16(d, cs, enc, to), Len(cs) \in Nat
  PROVE  /\ d \in Seq(Octets) /\ Len(d) \in Nat /\ Len(d) % 2 = 0
         /\ to[1] = 1 /\ to[Len(cs) + 1] = Len(d) + 1
         /\ \A i \in 1 .. Len(cs) + 1 : to[i] \in Odd
<1>1. /\ d \in Seq(Octets) /\ to \in [1 .. Len(cs) + 1 -> Odd]
      /\ to[1] = 1 /\ to[Len(cs) + 1] = Len(d) + 1
  BY DEF Spells16
<1>2. Len(d) \in Nat
  BY <1>1, LenProperties
<1>3. \A i \in 1 .. Len(cs) + 1 : to[i] \in Odd
  BY <1>1
<1>4. (Len(d) + 1) % 2 = 1
  <2>1. Len(cs) + 1 \in 1 .. Len(cs) + 1
    OBVIOUS
  <2>2. Len(d) + 1 \in Odd
    BY <1>1, <1>3, <2>1
  <2> QED  BY <2>2 DEF Odd
<1>5. Len(d) % 2 = 0
  BY <1>2, <1>4
<1> QED  BY <1>1, <1>2, <1>3, <1>5

\* A text, of however many such code points, that utf8To16 converts and utf16To8
\* converts back is the same text.
THEOREM TextRestored ==
  ASSUME NEW s, NEW cs, NEW at, Spells(s, cs, at), NEW enc
  PROVE  Utf16To8(Utf8To16(s, enc), enc) = s
<1>1. PICK n \in Nat : n = Len(cs)
  BY SpelledTypes
<1>2. /\ s \in Seq(Octets) /\ at[1] = 1 /\ at[n + 1] = Len(s) + 1
      /\ \A i \in 1 .. n : at[i + 1] = at[i] + Len(Utf8Of(cs[i])) /\ Has(s, at[i], Utf8Of(cs[i]))
  BY <1>1 DEF Spells
<1>3. /\ Len(s) \in Nat
      /\ \A i \in 1 .. n + 1 : at[i] \in Positions /\ at[i] <= Len(s) + 1
      /\ \A i \in 1 .. n : cs[i] \in Characters /\ at[i + 1] <= Len(s) + 1
  BY <1>1, SpelledTypes
<1> DEFINE d == Utf8To16(s, enc)
<1>4. PICK to : Spells16(d, cs, enc, to)
  BY TextConverted
<1> HIDE DEF d
<1>5. /\ d \in Seq(Octets) /\ Len(d) \in Nat /\ Len(d) % 2 = 0
      /\ to[1] = 1 /\ to[n + 1] = Len(d) + 1
      /\ \A i \in 1 .. n + 1 : to[i] \in Odd
  BY <1>1, <1>4, SpelledTypes16
<1>6. \A i \in 1 .. n :
        /\ to[i + 1] = to[i] + Len(Utf16Of(cs[i], enc)) /\ to[i + 1] <= Len(d) + 1
        /\ Has(d, to[i], Utf16Of(cs[i], enc))
  BY <1>1, <1>4 DEF Spells16
<1>7. PICK g : Utf16To8(d, enc) = g[1] /\ Continues8(d, enc, g)
  BY <1>5, Utf16To8Continues
<1> DEFINE Rest(i) == SubSeq(s, at[i], Len(s))
           M == {i \in Nat : g[to[i]] = Rest(i)}
<1>8. n + 1 \in M
  <2>1. n + 1 \in 1 .. n + 1 /\ n + 1 \in Nat
    OBVIOUS
  <2>2. Rest(n + 1) = <<>>
    <3>1. at[n + 1] \in Int /\ Len(s) \in Int /\ Len(s) < at[n + 1]
      BY <1>2, <1>3
    <3> QED  BY <3>1, SubSeqEmpty
  <2>3. To8(d, enc, g, to[n + 1]) = <<>>
    BY <1>5 DEF To8
  <2>4. g[to[n + 1]] = To8(d, enc, g, to[n + 1])
    BY <1>5, <1>7, <2>1 DEF Continues8
  <2> QED  BY <2>1, <2>2, <2>3, <2>4, Zenon
<1>9. ASSUME NEW k \in Odd, NEW c \in Characters, Has(d, k, Utf16Of(c, enc)),
             k + Len(Utf16Of(c, enc)) <= Len(d) + 1, g[k + Len(Utf16Of(c, enc))] # Malformed
      PROVE  Restores(d, enc, g, k, c)
  BY <1>5, <1>7, <1>9, CharacterRestored, Zenon
<1>10. ASSUME NEW i \in 1 .. n, i + 1 \in M  PROVE i \in M
  <2>1. i \in 1 .. n + 1 /\ i + 1 \in 1 .. n + 1 /\ i \in Nat
    OBVIOUS
  <2>2. g[to[i + 1]] = Rest(i + 1)
    BY <1>10
  <2>3. /\ at[i] \in Positions /\ at[i + 1] \in Positions /\ at[i + 1] <= Len(s) + 1 /\ cs[i] \in Characters
        /\ at[i + 1] = at[i] + Len(Utf8Of(cs[i])) /\ Has(s, at[i], Utf8Of(cs[i]))
    BY <1>2, <1>3, <2>1
  <2>4. Rest(i + 1) # Malformed
    BY <1>2, <2>3, RestOfText
  <2>5. /\ to[i] \in Odd /\ to[i + 1] = to[i] + Len(Utf16Of(cs[i], enc))
        /\ Has(d, to[i], Utf16Of(cs[i], enc)) /\ to[i + 1] <= Len(d) + 1
    BY <1>5, <1>6, <2>1
  <2>6. Restores(d, enc, g, to[i], cs[i])
    BY <1>9, <2>2, <2>3, <2>4, <2>5
  <2>7. g[to[i]] = Utf8Of(cs[i]) \o Rest(i + 1)
    BY <2>2, <2>5, <2>6 DEF Restores
  <2>8. Utf8Of(cs[i]) \in Seq(Nat)
    <3>1. cs[i] \in Nat
      BY <2>3 DEF Characters
    <3> QED  BY <3>1, Utf8Type, Zenon
  <2>9. Utf8Of(cs[i]) \o Rest(i + 1) = Rest(i)
    BY <1>2, <2>3, <2>8, RestAssembled
  <2> QED  BY <2>1, <2>7, <2>9, Zenon
<1>11. \A i \in 1 .. n + 1 : i \in M
  <2> HIDE DEF M
  <2> QED  BY <1>8, <1>10, Downwards
<1>12. g[1] = s
  <2>1. 1 \in 1 .. n + 1
    OBVIOUS
  <2>2. g[1] = SubSeq(s, 1, Len(s))
    BY <1>2, <1>5, <1>11, <2>1
  <2> QED  BY <1>2, <2>2, SubSeqFull
<1> QED  BY <1>7, <1>12 DEF d

LEMMA HeadOfConcat ==
  ASSUME NEW S, NEW b \in Seq(S), NEW t \in Seq(S)
  PROVE  SubSeq(b \o t, 1, Len(b)) = b
<1>1. /\ b \o t \in Seq(S) /\ Len(b) \in Nat /\ Len(t) \in Nat
      /\ \A i \in 1 .. Len(b) + Len(t) : (b \o t)[i] = IF i <= Len(b) THEN b[i] ELSE t[i - Len(b)]
  BY ConcatProperties, LenProperties
<1>2. \A i \in 1 .. Len(b) : (b \o t)[i] = b[i] /\ b[i] \in S
  BY <1>1, ElementOfSeq
<1>3. \A i \in 1 .. Len(b) : (b \o t)[i] \in S
  BY <1>2
<1> DEFINE h == SubSeq(b \o t, 1, Len(b))
<1>4. /\ h \in Seq(S) /\ Len(h) = (IF 1 <= Len(b) THEN Len(b) - 1 + 1 ELSE 0)
      /\ \A i \in 1 .. Len(b) - 1 + 1 : h[i] = (b \o t)[1 + i - 1]
  <2>1. 1 \in Int /\ Len(b) \in Int
    BY <1>1
  <2> QED  BY <1>3, <2>1, SubSeqProperties
<1> HIDE DEF h
<1>5. Len(h) = Len(b)
  BY <1>1, <1>4
<1>6. \A i \in 1 .. Len(h) : h[i] = b[i]
  <2> SUFFICES ASSUME NEW i \in 1 .. Len(h)  PROVE h[i] = b[i]
    OBVIOUS
  <2>1. i \in 1 .. Len(b) /\ i \in 1 .. Len(b) - 1 + 1 /\ 1 + i - 1 = i
    BY <1>1, <1>5
  <2> QED  BY <1>2, <1>4, <2>1
<1>7. h = b
  BY <1>4, <1>5, <1>6, SeqEqual
<1> QED  BY <1>7 DEF h

LEMMA TailOfConcat ==
  ASSUME NEW S, NEW b \in Seq(S), NEW t \in Seq(S)
  PROVE  SubSeq(b \o t, Len(b) + 1, Len(b \o t)) = t
<1>1. /\ b \o t \in Seq(S) /\ Len(b \o t) = Len(b) + Len(t) /\ Len(b) \in Nat /\ Len(t) \in Nat
      /\ \A i \in 1 .. Len(b) + Len(t) : (b \o t)[i] = IF i <= Len(b) THEN b[i] ELSE t[i - Len(b)]
  BY ConcatProperties, LenProperties
<1>2. \A i \in Len(b) + 1 .. Len(b \o t) : (b \o t)[i] = t[i - Len(b)]
  BY <1>1
<1>3. \A i \in Len(b) + 1 .. Len(b \o t) : (b \o t)[i] \in S
  <2> SUFFICES ASSUME NEW i \in Len(b) + 1 .. Len(b \o t)  PROVE (b \o t)[i] \in S
    OBVIOUS
  <2>1. i \in 1 .. Len(b \o t)
    BY <1>1
  <2> QED  BY <1>1, <2>1, ElementOfSeq, Zenon
<1> DEFINE h == SubSeq(b \o t, Len(b) + 1, Len(b \o t))
<1>4. /\ h \in Seq(S)
      /\ Len(h) = (IF Len(b) + 1 <= Len(b \o t) THEN Len(b \o t) - (Len(b) + 1) + 1 ELSE 0)
      /\ \A i \in 1 .. Len(b \o t) - (Len(b) + 1) + 1 : h[i] = (b \o t)[Len(b) + 1 + i - 1]
  <2>1. Len(b) + 1 \in Int /\ Len(b \o t) \in Int
    BY <1>1
  <2> QED  BY <1>3, <2>1, SubSeqProperties
<1> HIDE DEF h
<1>5. Len(h) = Len(t)
  BY <1>1, <1>4
<1>6. \A i \in 1 .. Len(h) : h[i] = t[i]
  <2> SUFFICES ASSUME NEW i \in 1 .. Len(h)  PROVE h[i] = t[i]
    OBVIOUS
  <2>1. /\ i \in 1 .. Len(b \o t) - (Len(b) + 1) + 1 /\ Len(b) + 1 + i - 1 \in Len(b) + 1 .. Len(b \o t)
        /\ Len(b) + 1 + i - 1 - Len(b) = i
    BY <1>1, <1>5
  <2> QED  BY <1>2, <1>4, <2>1
<1>7. h = t
  BY <1>4, <1>5, <1>6, SeqEqual
<1> QED  BY <1>7 DEF h

LEMMA Marks ==
  ASSUME NEW enc \in Encodings
  PROVE  /\ Bom(enc) \in Seq(Octets) /\ Termination(enc) \in Seq(Octets)
         /\ Len(Bom(enc)) + Len(Termination(enc)) = 4
<1>1. <<239, 187, 191>> \in Seq(Octets) /\ <<255, 254>> \in Seq(Octets) /\ <<254, 255>> \in Seq(Octets)
  BY SMT DEF Octets
<1>2. <<0>> \in Seq(Octets) /\ <<0, 0>> \in Seq(Octets)
  BY DEF Octets
<1>3. CASE enc = "UTF8"
  <2>1. Bom(enc) = <<239, 187, 191>> /\ Termination(enc) = <<0>>
    BY SMT, <1>3 DEF Bom, Termination
  <2> QED  BY SMT, <1>1, <1>2, <2>1
<1>4. CASE enc = "UTF16LE"
  <2>1. Bom(enc) = <<255, 254>> /\ Termination(enc) = <<0, 0>>
    BY SMT, <1>4 DEF Bom, Termination
  <2> QED  BY SMT, <1>1, <1>2, <2>1
<1>5. CASE enc = "UTF16BE"
  <2>1. Bom(enc) = <<254, 255>> /\ Termination(enc) = <<0, 0>>
    BY SMT, <1>5 DEF Bom, Termination
  <2> QED  BY SMT, <1>1, <1>2, <2>1
<1> QED  BY <1>3, <1>4, <1>5 DEF Encodings

LEMMA MarkRemoved ==
  ASSUME NEW enc \in Encodings, NEW e \in Seq(Octets)
  PROVE  WithoutBom(Bom(enc) \o e \o Termination(enc), enc) = e \o Termination(enc)
<1> DEFINE b == Bom(enc)
           t == e \o Termination(enc)
<1>1. /\ b \in Seq(Octets) /\ Termination(enc) \in Seq(Octets)
      /\ Len(b) \in Nat /\ Len(e) \in Nat /\ Len(Termination(enc)) \in Nat
      /\ Len(b) + Len(Termination(enc)) = 4
  BY Marks, LenProperties
<1>2. t \in Seq(Octets) /\ Len(t) = Len(e) + Len(Termination(enc))
  BY <1>1, ConcatProperties
<1>3. b \o e \o Termination(enc) = b \o t
  <2>1. b \in Seq(Octets) /\ e \in Seq(Octets) /\ Termination(enc) \in Seq(Octets)
    BY <1>1
  <2> HIDE DEF b
  <2>2. (b \o e) \o Termination(enc) = b \o (e \o Termination(enc))
    BY <2>1, ConcatAssociative
  <2> QED  BY <2>2
<1> HIDE DEF b, t
<1>4. Len(b \o t) = Len(b) + Len(t)
  BY <1>1, <1>2, ConcatProperties
<1>5. SubSeq(b \o t, 1, Len(b)) = b /\ SubSeq(b, 1, Len(b)) = b /\ SubSeq(b \o t, Len(b) + 1, Len(b \o t)) = t
  BY <1>1, <1>2, HeadOfConcat, TailOfConcat, SubSeqFull, Zenon
<1>6. Len(b \o t) > 3 /\ IsPrefix(b, b \o t)
  BY <1>1, <1>2, <1>4, <1>5 DEF IsPrefix
<1>7. WithoutBom(b \o t, enc) = t
  BY <1>5, <1>6 DEF WithoutBom, b
<1> QED  BY <1>3, <1>7 DEF b, t

\* No text of zero or more bytes ends before its last two bytes when they are zero.
LEMMA TextEnds ==
  ASSUME NEW d, NEW n \in Nat, n >= 2, Len(d) = n, d[n] = 0, d[n - 1] = 0
  PROVE  TextEnd(d) = n
<1> DEFINE ends == {k \in 2 .. Len(d) : d[k] = 0 /\ d[k - 1] = 0}
<1>1. n \in ends
  OBVIOUS
<1>2. \A e \in ends : e <= n /\ e \in Nat
  OBVIOUS
<1>3. TextEnd(d) = IF ends = {} THEN 1 ELSE CHOOSE k \in ends : \A e \in ends : e <= k
  BY DEF TextEnd
<1> HIDE DEF ends
<1> DEFINE c == CHOOSE k \in ends : \A e \in ends : e <= k
<1>4. c \in ends /\ \A e \in ends : e <= c
  BY <1>1, <1>2, Zenon
<1>5. TextEnd(d) = c
  BY <1>1, <1>3
<1> HIDE DEF c
<1>6. n <= c /\ c <= n /\ c \in Nat
  BY <1>1, <1>2, <1>4
<1>7. c = n
  BY <1>6
<1> QED  BY <1>5, <1>7

\* A text that OutputStream writes in any encoding, with its byte order mark and
\* its termination, is the text that InputStream reads.
THEOREM TextCarried ==
  ASSUME NEW s, NEW cs, NEW at, Spells(s, cs, at), NEW enc \in Encodings
  PROVE  Decode(Bom(enc) \o Encode(s, enc) \o Termination(enc), enc) = s
<1> DEFINE e == Encode(s, enc)
           z == Termination(enc)
           data == Bom(enc) \o e \o z
           t == e \o z
<1>1. e \in Seq(Octets) /\ (enc # "UTF8" => Len(e) % 2 = 0)
  <2>1. s \in Seq(Octets) /\ Len(cs) \in Nat
    BY SpelledTypes DEF Spells
  <2>2. PICK to : Spells16(Utf8To16(s, enc), cs, enc, to)
    BY TextConverted
  <2>3. Utf8To16(s, enc) \in Seq(Octets) /\ Len(Utf8To16(s, enc)) % 2 = 0
    BY <2>1, <2>2, SpelledTypes16
  <2> QED  BY <2>1, <2>3 DEF Encode
<1>2. WithoutBom(data, enc) = t
  BY <1>1, MarkRemoved
<1>3. z \in Seq(Octets) /\ Len(e) \in Nat /\ Len(z) \in Nat
  BY <1>1, Marks, LenProperties
<1>4. /\ t \in Seq(Octets) /\ Len(t) = Len(e) + Len(z)
      /\ \A i \in 1 .. Len(e) + Len(z) : t[i] = IF i <= Len(e) THEN e[i] ELSE z[i - Len(e)]
  BY <1>1, <1>3, ConcatProperties
<1>5. SubSeq(t, 1, Len(e)) = e
  BY <1>1, <1>3, HeadOfConcat
<1>6. t # Malformed
  <2>1. 1 \in Positions /\ 1 <= Len(t) + 1
    BY <1>3, <1>4 DEF Positions
  <2>2. SubSeq(t, 1, Len(t)) # Malformed
    BY <1>4, <2>1, RestOfText
  <2> QED  BY <1>4, <2>2, SubSeqFull
<1> HIDE DEF t, e, z, data
<1>7. CASE enc = "UTF8"
  <2>1. z = <<0>> /\ e = s
    BY <1>7 DEF Termination, Encode, z, e
  <2>2. Len(t) = Len(e) + 1 /\ Len(t) - 1 = Len(e)
    BY <1>3, <1>4, <2>1
  <2>3. t[Len(t)] = 0
    BY <1>3, <1>4, <2>1, <2>2
  <2>4. Decode(data, enc) = SubSeq(t, 1, Len(t) - 1)
    BY <1>2, <1>6, <1>7, <2>3 DEF Decode
  <2> QED  BY <1>5, <2>1, <2>2, <2>4 DEF data, e, z
<1>8. CASE enc # "UTF8"
  <2>1. z = <<0, 0>> /\ e = Utf8To16(s, enc)
    BY <1>8 DEF Termination, Encode, z, e
  <2>2. PICK n \in Nat : n = Len(t) /\ n = Len(e) + 2 /\ n - 2 = Len(e) /\ n >= 2 /\ n % 2 = 0
    <3>1. Len(z) = 2
      BY <2>1
    <3>2. PICK l \in Nat : l = Len(e) /\ l % 2 = 0
      BY <1>1, <1>3, <1>8
    <3>3. (l + 2) % 2 = 0
      BY <3>2
    <3> QED  BY <1>4, <3>1, <3>2, <3>3
  <2>3. t[n] = 0 /\ t[n - 1] = 0
    <3>1. z[1] = 0 /\ z[2] = 0 /\ Len(z) = 2
      BY <2>1
    <3>2. /\ n \in 1 .. Len(e) + Len(z) /\ n - Len(e) = 2 /\ ~(n <= Len(e))
          /\ n - 1 \in 1 .. Len(e) + Len(z) /\ n - 1 - Len(e) = 1 /\ ~(n - 1 <= Len(e))
      BY <1>3, <2>2, <3>1
    <3> QED  BY <1>4, <3>1, <3>2
  <2>4. TextEnd(t) = n
    BY <2>2, <2>3, TextEnds
  <2>5. Decode(data, enc) = Utf16To8(SubSeq(t, 1, n - 2), enc)
    BY <1>2, <1>6, <1>8, <2>2, <2>4 DEF Decode
  <2>6. Utf16To8(e, enc) = s
    BY <2>1, TextRestored
  <2> QED  BY <1>5, <2>2, <2>5, <2>6 DEF data, e, z
<1> QED  BY <1>7, <1>8

-----------------------------------------------------------------------------
(* Numbers that are written and read with all their bits.                  *)

Bit == {0, 1}

\* Where Ordered takes the k-th of n bits from, unless the stream is little endian.
Mirror(n, k) == n - 7 - 8 * ((k - 1) \div 8) + ((k - 1) % 8)

LEMMA MirrorTwice ==
  ASSUME NEW n \in Nat, n % 8 = 0, NEW k \in 1 .. n
  PROVE  Mirror(n, k) \in 1 .. n /\ Mirror(n, Mirror(n, k)) = k
<1>1. PICK m \in Nat : n = 8 * m
  OBVIOUS
<1>2. PICK q \in Nat, r \in Nat : k - 1 = 8 * q + r /\ r < 8 /\ q = (k - 1) \div 8 /\ r = (k - 1) % 8
  OBVIOUS
<1>3. q < m
  BY <1>1, <1>2
<1>4. PICK j \in Nat : j = Mirror(n, k) /\ j - 1 = 8 * (m - 1 - q) + r
  BY <1>1, <1>2, <1>3 DEF Mirror
<1>5. (j - 1) \div 8 = m - 1 - q /\ (j - 1) % 8 = r
  BY <1>2, <1>3, <1>4
<1>6. Mirror(n, j) = 8 * m - 7 - 8 * (m - 1 - q) + r
  BY <1>1, <1>5 DEF Mirror
<1>7. Mirror(n, j) = k /\ j \in 1 .. n
  BY <1>1, <1>2, <1>3, <1>4, <1>6
<1> QED  BY <1>4, <1>7

LEMMA OrderedType ==
  ASSUME NEW S, NEW v \in Seq(S), Len(v) % 8 = 0, NEW le \in BOOLEAN
  PROVE  /\ Ordered(v, le) \in Seq(S) /\ Len(Ordered(v, le)) = Len(v)
         /\ ~le => \A k \in 1 .. Len(v) : Ordered(v, le)[k] = v[Mirror(Len(v), k)]
<1>1. CASE le
  BY <1>1 DEF Ordered
<1>2. CASE ~le
  <2> DEFINE w == [k \in 1 .. Len(v) |-> v[Mirror(Len(v), k)]]
  <2>1. Ordered(v, le) = w
    BY <1>2 DEF Ordered, Mirror
  <2>2. Len(v) \in Nat
    BY LenProperties
  <2>3. ASSUME NEW k \in 1 .. Len(v)  PROVE v[Mirror(Len(v), k)] \in S
    <3>1. Mirror(Len(v), k) \in 1 .. Len(v)
      BY <2>2, MirrorTwice
    <3> QED  BY <3>1, ElementOfSeq
  <2>4. w \in Seq(S) /\ Len(w) = Len(v)
    BY <2>2, <2>3
  <2>5. \A k \in 1 .. Len(v) : w[k] = v[Mirror(Len(v), k)]
    OBVIOUS
  <2> QED  BY <2>1, <2>4, <2>5
<1> QED  BY <1>1, <1>2

\* Both ends of a connection order the bytes of a number; doing it twice undoes it.
LEMMA OrderedTwice ==
  ASSUME NEW S, NEW v \in Seq(S), Len(v) % 8 = 0, NEW le \in BOOLEAN
  PROVE  Ordered(Ordered(v, le), le) = v
<1>1. CASE le
  BY <1>1 DEF Ordered
<1>2. CASE ~le
  <2> DEFINE w == Ordered(v, le)
             u == Ordered(w, le)
  <2>1. w \in Seq(S) /\ Len(w) = Len(v) /\ \A k \in 1 .. Len(v) : w[k] = v[Mirror(Len(v), k)]
    BY <1>2, OrderedType
  <2> HIDE DEF w
  <2>2. u \in Seq(S) /\ Len(u) = Len(w) /\ \A k \in 1 .. Len(w) : u[k] = w[Mirror(Len(w), k)]
    BY <1>2, <2>1, OrderedType
  <2> HIDE DEF u
  <2>3. ASSUME NEW k \in 1 .. Len(u)  PROVE u[k] = v[k]
    <3>1. Len(v) \in Nat /\ k \in 1 .. Len(v)
      BY <2>1, <2>2, LenProperties
    <3>2. Mirror(Len(v), k) \in 1 .. Len(v) /\ Mirror(Len(v), Mirror(Len(v), k)) = k
      BY <3>1, MirrorTwice
    <3> QED  BY <2>1, <2>2, <3>1, <3>2
  <2>4. u = v
    BY <2>1, <2>2, <2>3, SeqEqual
  <2> QED  BY <2>4 DEF u, w
<1> QED  BY <1>1, <1>2

Outputs == [bits : Seq(Bit), err : BOOLEAN, marks : Seq(Nat), le : BOOLEAN]

\* A value of size bytes, written with all its bits, is put down whole.
LEMMA WholeWritten ==
  ASSUME NEW o \in Outputs, NEW size \in Nat \ {0}, NEW v \in Seq(Bit), Len(v) = 8 * size,
         NEW signed \in BOOLEAN
  PROVE  WriteBits(o, v, 8 * size, signed).bits = o.bits \o Ordered(v, o.le)
<1> DEFINE n == 8 * size
<1>1. Least(n, Len(v)) = n /\ n \in Nat /\ n >= 8
  BY DEF Least
<1>2. (Len(v) - n) \div 8 = 0
  BY <1>1
<1>3. o.le \in BOOLEAN /\ Len(v) % 8 = 0
  BY DEF Outputs
<1>4. Ordered(v, o.le) \in Seq(Bit) /\ Len(Ordered(v, o.le)) = n
  BY <1>3, OrderedType
<1>5. SourceBits(v, n, o.le) = SubSeq(Ordered(v, o.le), 1, n)
  BY <1>1, <1>2 DEF SourceBits
<1> HIDE DEF n
<1>6. SourceBits(v, n, o.le) = Ordered(v, o.le)
  BY <1>4, <1>5, SubSeqFull
<1>7. ~(Least(n, Len(v)) < IF signed THEN 2 ELSE 1)
  BY <1>1
<1>8. WriteBits(o, v, n, signed) = [o EXCEPT !.bits = @ \o Ordered(v, o.le)]
  BY <1>6, <1>7 DEF WriteBits
<1>9. WriteBits(o, v, n, signed).bits = o.bits \o Ordered(v, o.le)
  BY <1>8 DEF Outputs
<1> QED  BY <1>9 DEF n

\* What a reader makes of all the bits of a value.
LEMMA WholeRead ==
  ASSUME NEW size \in Nat \ {0}, NEW c \in Seq(Bit), Len(c) = 8 * size, NEW signed \in BOOLEAN,
         NEW le \in BOOLEAN
  PROVE  TargetBits(c, size, signed, le) = Ordered(c, le)
<1>1. (Len(c) + 7) \div 8 = size /\ 8 * size - Len(c) = 0 /\ 8 * (size - size) = 0
  OBVIOUS
<1>2. \A x : Copies(x, 0) = <<>>
  BY DEF Copies
<1>3. c \o <<>> \o <<>> = c
  BY ConcatEmptySeq
<1>4. PICK x, y : TargetBits(c, size, signed, le)
                  = Ordered(c \o Copies(x, 8 * size - Len(c)) \o Copies(y, 8 * (size - size)), le)
  BY <1>1 DEF TargetBits
<1>5. TargetBits(c, size, signed, le) = Ordered(c \o <<>> \o <<>>, le)
  BY <1>1, <1>2, <1>4
<1> QED  BY <1>3, <1>5

LEMMA MiddleOfConcat ==
  ASSUME NEW S, NEW a \in Seq(S), NEW c \in Seq(S), NEW m \in Seq(S), Len(c) >= 1
  PROVE  /\ Len(a \o c \o m) = Len(a) + Len(c) + Len(m) /\ a \o c \o m \in Seq(S)
         /\ SubSeq(a \o c \o m, Len(a) + 1, Len(a) + Len(c)) = c
<1>1. Len(a) \in Nat /\ Len(c) \in Nat /\ Len(m) \in Nat
  BY LenProperties
<1>2. /\ a \o c \in Seq(S) /\ Len(a \o c) = Len(a) + Len(c)
      /\ c \o m \in Seq(S) /\ Len(c \o m) = Len(c) + Len(m)
  BY ConcatProperties
<1>3. a \o c \o m \in Seq(S) /\ Len(a \o c \o m) = Len(a) + Len(c) + Len(m)
  BY <1>1, <1>2, ConcatProperties
<1>4. a \o c \o m = a \o (c \o m)
  BY ConcatAssociative
<1>5. /\ Len(a) + 1 \in Len(a) + 1 .. Len(a) + Len(c \o m)
      /\ Len(a) + Len(c) \in Len(a) + 1 .. Len(a) + Len(c \o m)
      /\ Len(a) + 1 - Len(a) = 1 /\ Len(a) + Len(c) - Len(a) = Len(c)
  BY <1>1, <1>2
<1>6. SubSeq(a \o (c \o m), Len(a) + 1, Len(a) + Len(c)) = SubSeq(c \o m, 1, Len(c))
  BY <1>2, <1>5, SubSeqOfConcat2
<1>7. SubSeq(c \o m, 1, Len(c)) = c
  BY HeadOfConcat
<1> QED  BY <1>3, <1>4, <1>6, <1>7

\* A reader that stands where the writer of some bits stood.
Inputs == [body : Seq(Bit), pos : Nat, rem : Nat, err : BOOLEAN, le : BOOLEAN,
           stray : {"no", "crossed", "overrun", "endless"}]

\* A value written with all its bits, wherever in a byte the stream stands, is
\* read again by a reader that stands there and has its bytes ahead, and the
\* reader ends where the writer ended.
THEOREM WholeCarried ==
  ASSUME NEW o \in Outputs, NEW size \in Nat \ {0}, NEW v \in Seq(Bit), Len(v) = 8 * size,
         NEW signed \in BOOLEAN, NEW i \in Inputs, NEW more \in Seq(Bit),
         i.pos = Len(o.bits), i.rem >= size, i.le = o.le,
         i.body = WriteBits(o, v, 8 * size, signed).bits \o more
  PROVE  LET r == ReadBits(i, size, 8 * size, signed)
         IN  /\ ~r.failed /\ r.v = v
             /\ r.i = [i EXCEPT !.pos = Len(WriteBits(o, v, 8 * size, signed).bits),
                                !.rem = @ - ((i.pos % 8) + 8 * size) \div 8]
<1> DEFINE n == 8 * size
           c == Ordered(v, o.le)
<1>1. PICK a \in Seq(Bit), le \in BOOLEAN : a = o.bits /\ le = o.le
  BY DEF Outputs
<1>2. c \in Seq(Bit) /\ Len(c) = n /\ Ordered(c, le) = v
  <2>1. Len(v) % 8 = 0
    OBVIOUS
  <2> QED  BY <1>1, <2>1, OrderedType, OrderedTwice
<1>3. WriteBits(o, v, n, signed).bits = a \o c
  <2>1. WriteBits(o, v, 8 * size, signed).bits = o.bits \o Ordered(v, o.le)
    BY WholeWritten
  <2> QED  BY <1>1, <2>1
<1>4. Least(n, 8 * size) = n /\ n # 0 /\ (n + 7) \div 8 = size /\ n \in Nat /\ n >= 1
  BY DEF Least
<1> HIDE DEF c, n
<1>5. /\ Len(i.body) = Len(a) + n + Len(more) /\ Len(a) \in Nat /\ Len(more) \in Nat
      /\ SubSeq(i.body, Len(a) + 1, Len(a) + n) = c /\ Len(a \o c) = Len(a) + n
  <2>1. i.body = a \o c \o more
    BY <1>3 DEF n
  <2>2. Len(c) >= 1
    BY <1>2, <1>4
  <2>3. Len(a) \in Nat /\ Len(more) \in Nat /\ Len(a \o c) = Len(a) + Len(c)
    <3>1. Len(a) \in Nat /\ Len(more) \in Nat
      BY LenProperties
    <3>2. a \in Seq(Bit) /\ c \in Seq(Bit)
      BY <1>2
    <3>3. Len(a \o c) = Len(a) + Len(c)
      BY <3>2, ConcatProperties, Zenon
    <3> QED  BY <3>1, <3>3
  <2>4. /\ Len(a \o c \o more) = Len(a) + Len(c) + Len(more)
        /\ SubSeq(a \o c \o more, Len(a) + 1, Len(a) + Len(c)) = c
    <3>1. a \in Seq(Bit) /\ c \in Seq(Bit) /\ more \in Seq(Bit)
      BY <1>2
    <3> QED  BY <2>2, <3>1, MiddleOfConcat, SMT
  <2> QED  BY <1>2, <2>1, <2>3, <2>4
<1>6. i.pos = Len(a) /\ i.le = le /\ i.rem \in Nat /\ i.rem >= size
  BY <1>1 DEF Inputs
<1>7. TargetBits(c, size, signed, le) = v
  <2>1. Len(c) = 8 * size
    BY <1>2 DEF n
  <2>2. TargetBits(c, size, signed, le) = Ordered(c, le)
    BY <1>2, <2>1, WholeRead
  <2> QED  BY <1>2, <2>2
<1> DEFINE rem == i.rem - ((i.pos % 8) + n) \div 8
           j == [i EXCEPT !.pos = Len(a) + n, !.rem = rem]
<1>8. [i EXCEPT !.pos = @ + n, !.rem = @ - ((i.pos % 8) + n) \div 8] = j
  BY <1>6
<1>9. j.pos = Len(a) + n /\ ~(j.pos > Len(i.body)) /\ ~(i.rem < (n + 7) \div 8)
  <2>1. j.pos = Len(a) + n
    BY DEF Inputs
  <2>2. ~(i.rem < (n + 7) \div 8)
    BY <1>4, <1>6
  <2> HIDE DEF j
  <2> QED  BY <1>4, <1>5, <2>1, <2>2
<1>10. SubSeq(i.body, i.pos + 1, j.pos) = c
  BY <1>5, <1>6, <1>9
<1> HIDE DEF j, rem
<1>11. ReadBits(i, size, n, signed) = [failed |-> FALSE, i |-> j, v |-> v]
  BY <1>4, <1>6, <1>7, <1>8, <1>9, <1>10 DEF ReadBits
<1>12. j = [i EXCEPT !.pos = Len(WriteBits(o, v, n, signed).bits), !.rem = @ - ((i.pos % 8) + n) \div 8]
  BY <1>3, <1>5, <1>8 DEF j, rem
<1> QED  BY <1>11, <1>12 DEF n

-----------------------------------------------------------------------------
(* Length fields.                                                          *)

LEMMA NumberBitsType ==
  ASSUME NEW n \in Nat, NEW width \in Nat
  PROVE  NumberBits(n, width) \in Seq(Bit) /\ Len(NumberBits(n, width)) = 8 * width
<1>1. ASSUME NEW k \in 1 .. 8 * width
      PROVE  (IF k > 20 THEN 0 ELSE (n \div 2 ^ (k - 1)) % 2) \in Bit
  <2>1. CASE k > 20
    BY <2>1 DEF Bit
  <2>2. CASE ~(k > 20)
    <3>1. \A i \in Int, j \in Nat : (i \div 2 ^ j) % 2 \in {0, 1}
      BY SMT
    <3>2. k - 1 \in Nat /\ n \in Int
      OBVIOUS
    <3>3. (n \div 2 ^ (k - 1)) % 2 \in {0, 1}
      BY <3>1, <3>2, Zenon
    <3> QED  BY <2>2, <3>3, Zenon DEF Bit
  <2> QED  BY <2>1, <2>2
<1> DEFINE v == [k \in 1 .. 8 * width |-> IF k > 20 THEN 0 ELSE (n \div 2 ^ (k - 1)) % 2]
<1>2. 8 * width \in Nat
  OBVIOUS
<1>3. v \in [1 .. 8 * width -> Bit]
  BY <1>1, Zenon
<1> HIDE DEF v
<1>4. v \in Seq(Bit) /\ Len(v) = 8 * width
  BY <1>2, <1>3
<1> QED  BY <1>4 DEF NumberBits, v

LEMMA NumberOrdered ==
  ASSUME NEW n \in Nat, NEW width \in {1, 2, 4}, NEW le \in BOOLEAN
  PROVE  /\ Ordered(NumberBits(n, width), le) \in Seq(Bit)
         /\ Len(Ordered(NumberBits(n, width), le)) = 8 * width
<1>1. PICK v \in Seq(Bit) : v = NumberBits(n, width) /\ Len(v) = 8 * width
  BY NumberBitsType
<1>2. Len(v) % 8 = 0
  BY <1>1
<1>3. Ordered(v, le) \in Seq(Bit) /\ Len(Ordered(v, le)) = Len(v)
  BY <1>2, OrderedType
<1> QED  BY <1>1, <1>3

LEMMA WholeBytes ==
  ASSUME NEW l \in Nat, l % 8 = 0
  PROVE  l \div 8 \in Nat /\ l = 8 * (l \div 8) /\ \A w \in Nat : (l + 8 * w) \div 8 = l \div 8 + w
<1>1. l \div 8 \in Nat /\ l = 8 * (l \div 8)
  OBVIOUS
<1>2. PICK m \in Nat : l = 8 * m /\ m = l \div 8
  BY <1>1
<1>3. \A w \in Nat : (8 * m + 8 * w) \div 8 = m + w
  OBVIOUS
<1> QED  BY <1>1, <1>2, <1>3

\* A length or a type of 1, 2 or 4 bytes is put down whole, in the byte order of the stream.
LEMMA NumberWritten ==
  ASSUME NEW o \in Outputs, NEW n \in Nat, NEW width \in {1, 2, 4}
  PROVE  /\ WriteNumber(o, n, width) \in Outputs
         /\ WriteNumber(o, n, width).bits = o.bits \o Ordered(NumberBits(n, width), o.le)
         /\ WriteNumber(o, n, width).marks = o.marks /\ WriteNumber(o, n, width).le = o.le
<1>1. PICK v \in Seq(Bit) : v = NumberBits(n, width) /\ Len(v) = 8 * width
  BY NumberBitsType
<1>2. PICK late \in BOOLEAN : late = (n >= 2 ^ Least(8 * width, 20))
  <2>1. \A j : (n >= j) \in BOOLEAN
    BY SMT
  <2> QED  BY <2>1, Zenon
<1> DEFINE q == [o EXCEPT !.err = @ \/ late]
<1>3. q \in Outputs /\ q.bits = o.bits /\ q.marks = o.marks /\ q.le = o.le
  BY DEF Outputs
<1>4. WriteNumber(o, n, width) = WriteBits(q, v, 8 * width, FALSE)
  BY <1>1, <1>2 DEF WriteNumber
<1> HIDE DEF q
<1>5. WriteBits(q, v, 8 * width, FALSE).bits = q.bits \o Ordered(v, q.le)
  <2>1. width \in Nat \ {0} /\ FALSE \in BOOLEAN
    OBVIOUS
  <2> QED  BY <1>1, <1>3, <2>1, WholeWritten, Zenon
<1>6. PICK w : WriteBits(q, v, 8 * width, FALSE) = [q EXCEPT !.bits = q.bits \o w] \/
               WriteBits(q, v, 8 * width, FALSE) = [q EXCEPT !.err = TRUE]
  BY Zenon DEF WriteBits
<1>7. q.bits \o Ordered(v, q.le) \in Seq(Bit)
  <2>1. q.le \in BOOLEAN /\ q.bits \in Seq(Bit)
    BY <1>3 DEF Outputs
  <2>2. Ordered(v, q.le) \in Seq(Bit)
    BY <1>1, <2>1, NumberOrdered
  <2> QED  BY <2>1, <2>2, ConcatProperties
<1>8. WriteBits(q, v, 8 * width, FALSE) \in Outputs
  BY <1>3, <1>5, <1>6, <1>7 DEF Outputs
<1>9. WriteBits(q, v, 8 * width, FALSE).marks = q.marks /\ WriteBits(q, v, 8 * width, FALSE).le = q.le
  BY <1>3, <1>6 DEF Outputs
<1> QED  BY <1>1, <1>3, <1>4, <1>5, <1>8, <1>9

LEMMA Pushed ==
  ASSUME NEW o \in Outputs
  PROVE  /\ PushPosition(o) \in Outputs /\ PushPosition(o).bits = o.bits /\ PushPosition(o).le = o.le
         /\ PushPosition(o).marks = Append(o.marks, Position(o)) /\ Position(o) \in Nat
<1>1. o.bits \in Seq(Bit) /\ o.marks \in Seq(Nat)
  BY DEF Outputs
<1>2. Position(o) \in Nat
  <2>1. PICK l \in Nat : l = Len(o.bits)
    BY <1>1, LenProperties
  <2>2. l \div 8 \in Nat
    OBVIOUS
  <2> QED  BY <2>1, <2>2 DEF Position
<1>3. Append(o.marks, Position(o)) \in Seq(Nat)
  BY <1>1, <1>2, AppendProperties
<1> QED  BY <1>2, <1>3 DEF PushPosition, Outputs

\* Opening a length field puts down a 0 and notes where it begins and ends.
LEMMA FieldOpened ==
  ASSUME NEW o \in Outputs, Len(o.bits) % 8 = 0, NEW width \in {1, 2, 4}
  PROVE  LET a == OpenField(o, width)
         IN  /\ a \in Outputs /\ a.le = o.le
             /\ a.bits = o.bits \o Ordered(NumberBits(0, width), o.le)
             /\ a.marks = o.marks \o <<Position(o), Position(o) + width>>
<1> DEFINE q == PushPosition(o)
           r == WriteNumber(q, 0, width)
           a == PushPosition(r)
<1>1. /\ q \in Outputs /\ q.bits = o.bits /\ q.le = o.le
      /\ q.marks = Append(o.marks, Position(o)) /\ Position(o) \in Nat
  BY Pushed
<1> HIDE DEF q
<1>2. /\ r \in Outputs /\ r.bits = q.bits \o Ordered(NumberBits(0, width), q.le)
      /\ r.marks = q.marks /\ r.le = q.le
  <2>1. q \in Outputs /\ 0 \in Nat
    BY <1>1
  <2> HIDE DEF a
  <2> QED  BY <2>1, NumberWritten
<1> HIDE DEF r
<1>3. /\ a \in Outputs /\ a.bits = r.bits /\ a.le = r.le
      /\ a.marks = Append(r.marks, Position(r)) /\ Position(r) \in Nat
  BY <1>2, Pushed
<1>4. Position(r) = Position(o) + width
  <2>1. PICK v \in Seq(Bit) : v = Ordered(NumberBits(0, width), o.le) /\ Len(v) = 8 * width
    <3>1. o.le \in BOOLEAN
      BY DEF Outputs
    <3> QED  BY <3>1, NumberOrdered
  <2>2. o.bits \in Seq(Bit) /\ Len(o.bits) \in Nat
    BY LenProperties DEF Outputs
  <2>3. Len(r.bits) = Len(o.bits) + 8 * width
    <3>1. r.bits = o.bits \o v
      BY <1>1, <1>2, <2>1
    <3>2. Len(o.bits \o v) = Len(o.bits) + Len(v)
      BY <2>2, ConcatProperties
    <3> QED  BY <2>1, <3>1, <3>2
  <2>4. PICK l \in Nat : l = Len(o.bits) /\ l % 8 = 0
    BY <2>2
  <2>5. width \in Nat
    OBVIOUS
  <2>6. (l + 8 * width) \div 8 = l \div 8 + width
    BY <2>4, <2>5, WholeBytes
  <2> QED  BY <2>3, <2>4, <2>6 DEF Position
<1>5. a.marks = o.marks \o <<Position(o), Position(o) + width>>
  <2>1. o.marks \in Seq(Nat)
    BY DEF Outputs
  <2>2. a.marks = Append(Append(o.marks, Position(o)), Position(o) + width)
    BY <1>1, <1>2, <1>3, <1>4
  <2> QED  BY <1>1, <2>1, <2>2
<1> QED  BY <1>1, <1>2, <1>3, <1>5 DEF OpenField, a, q, r

\* t is x, then y, then z.
Assembled(t, x, y, z) ==
  /\ Len(t) = Len(x) + Len(y) + Len(z)
  /\ \A k \in 1 .. Len(x) + Len(y) + Len(z) :
       t[k] = IF k <= Len(x) THEN x[k]
              ELSE IF k <= Len(x) + Len(y) THEN y[k - Len(x)]
              ELSE z[k - (Len(x) + Len(y))]

LEMMA ThreePieces ==
  ASSUME NEW S, NEW x \in Seq(S), NEW y \in Seq(S), NEW z \in Seq(S)
  PROVE  x \o y \o z \in Seq(S) /\ Assembled(x \o y \o z, x, y, z)
<1>1. Len(x) \in Nat /\ Len(y) \in Nat /\ Len(z) \in Nat
  BY LenProperties
<1> DEFINE t == x \o y
<1>2. /\ t \in Seq(S) /\ Len(t) = Len(x) + Len(y)
      /\ \A k \in 1 .. Len(x) + Len(y) : t[k] = IF k <= Len(x) THEN x[k] ELSE y[k - Len(x)]
  BY ConcatProperties
<1> HIDE DEF t
<1>3. /\ t \o z \in Seq(S) /\ Len(t \o z) = Len(t) + Len(z)
      /\ \A k \in 1 .. Len(t) + Len(z) : (t \o z)[k] = IF k <= Len(t) THEN t[k] ELSE z[k - Len(t)]
  <2>1. t \in Seq(S)
    BY <1>2
  <2> QED  BY <2>1, ConcatProperties, Zenon
<1>4. ASSUME NEW k \in 1 .. Len(x) + Len(y) + Len(z)
      PROVE  (t \o z)[k] = IF k <= Len(x) THEN x[k]
                           ELSE IF k <= Len(x) + Len(y) THEN y[k - Len(x)]
                           ELSE z[k - (Len(x) + Len(y))]
  BY <1>1, <1>2, <1>3
<1>5. t \o z \in Seq(S) /\ Len(t \o z) = Len(x) + Len(y) + Len(z)
  BY <1>1, <1>2, <1>3
<1> QED  BY <1>4, <1>5 DEF t, Assembled

\* What b is once n has been written at byte p and the marks are popped: the field
\* between x and z is n.
Patched(b, x, z, n, width, p) ==
  LET c == PopField(WriteNumberAt(b, n, width, p))
  IN  /\ c.bits = x \o Ordered(NumberBits(n, width), b.le) \o z
      /\ c.marks = SubSeq(b.marks, 1, Len(b.marks) - 2)

\* Closing a length field replaces what stands between its marks, and nothing else.
LEMMA FieldPatched ==
  ASSUME NEW b \in Outputs, NEW x \in Seq(Bit), NEW y \in Seq(Bit), NEW z \in Seq(Bit),
         b.bits = x \o y \o z, NEW width \in {1, 2, 4}, Len(y) = 8 * width,
         NEW p \in Nat, Len(x) = 8 * p, NEW n \in Nat
  PROVE  Patched(b, x, z, n, width, p)
<1> DEFINE t == x \o y \o z
<1>1. PICK c \in Seq(Bit) : c = Ordered(NumberBits(n, width), b.le) /\ Len(c) = 8 * width
  <2>1. b.le \in BOOLEAN
    BY DEF Outputs
  <2> QED  BY <2>1, NumberOrdered
<1>2. Len(x) \in Nat /\ Len(z) \in Nat /\ width \in Nat
  BY LenProperties
<1>3. /\ t \in Seq(Bit) /\ Len(t) = 8 * p + 8 * width + Len(z)
      /\ \A k \in 1 .. 8 * p + 8 * width + Len(z) :
           t[k] = IF k <= 8 * p THEN x[k]
                  ELSE IF k <= 8 * p + 8 * width THEN y[k - 8 * p]
                  ELSE z[k - (8 * p + 8 * width)]
  <2>1. x \o y \o z \in Seq(Bit) /\ Assembled(x \o y \o z, x, y, z)
    BY ThreePieces
  <2> QED  BY <2>1 DEF Assembled
<1> DEFINE u == x \o c \o z
<1>4. /\ u \in Seq(Bit) /\ Len(u) = 8 * p + 8 * width + Len(z)
      /\ \A k \in 1 .. 8 * p + 8 * width + Len(z) :
           u[k] = IF k <= 8 * p THEN x[k]
                  ELSE IF k <= 8 * p + 8 * width THEN c[k - 8 * p]
                  ELSE z[k - (8 * p + 8 * width)]
  <2>1. x \o c \o z \in Seq(Bit) /\ Assembled(x \o c \o z, x, c, z)
    BY ThreePieces
  <2> QED  BY <1>1, <2>1 DEF Assembled
<1> HIDE DEF u
<1>5. b.bits = t
  OBVIOUS
<1> HIDE DEF t
<1> DEFINE w == [k \in 1 .. Len(t) |->
                   IF k \in 8 * p + 1 .. 8 * p + 8 * width THEN c[k - 8 * p] ELSE t[k]]
<1>6. w = u
  <2>1. ASSUME NEW k \in 1 .. Len(t)  PROVE w[k] = u[k]
    <3>1. k \in 1 .. 8 * p + 8 * width + Len(z)
      BY <1>2, <1>3
    <3>2. CASE k <= 8 * p
      BY <1>2, <1>3, <1>4, <3>1, <3>2
    <3>3. CASE ~(k <= 8 * p) /\ k <= 8 * p + 8 * width
      <4>1. k \in 8 * p + 1 .. 8 * p + 8 * width
        BY <1>2, <3>1, <3>3
      <4> QED  BY <1>4, <3>1, <3>3, <4>1
    <3>4. CASE ~(k <= 8 * p) /\ ~(k <= 8 * p + 8 * width)
      <4>1. ~(k \in 8 * p + 1 .. 8 * p + 8 * width)
        BY <1>2, <3>4
      <4> QED  BY <1>3, <1>4, <3>1, <3>4, <4>1
    <3> QED  BY <3>2, <3>3, <3>4
  <2>2. u \in [1 .. Len(t) -> Bit]
    BY <1>3, <1>4, LenProperties
  <2>3. w = [k \in 1 .. Len(t) |-> w[k]] /\ u = [k \in 1 .. Len(t) |-> u[k]]
    BY <2>2
  <2> HIDE DEF w
  <2> QED  BY <2>1, <2>3
<1>7. ~(p + width > Position(b)) /\ width \in {1, 2, 4}
  <2>1. PICK l \in Nat : l = Len(z)
    BY <1>2
  <2>2. Len(b.bits) = 8 * p + 8 * width + l
    BY <1>3, <1>5, <2>1
  <2>3. \A v \in Nat : p + v <= (8 * p + 8 * v + l) \div 8
    OBVIOUS
  <2> QED  BY <1>2, <2>2, <2>3 DEF Position
<1>8. PICK late : WriteNumberAt(b, n, width, p) = [b EXCEPT !.err = late, !.bits = w]
  <2>1. WriteNumberAt(b, n, width, p)
        = [b EXCEPT !.err = @ \/ n >= 2 ^ Least(8 * width, 20),
                    !.bits = [k \in 1 .. Len(b.bits) |->
                                IF k \in 8 * p + 1 .. 8 * p + 8 * width THEN c[k - 8 * p] ELSE b.bits[k]]]
    BY <1>1, <1>7, Zenon DEF WriteNumberAt
  <2> QED  BY <1>5, <2>1, Zenon
<1> HIDE DEF w
<1>9. /\ PopField(WriteNumberAt(b, n, width, p)).bits = u
      /\ PopField(WriteNumberAt(b, n, width, p)).marks = SubSeq(b.marks, 1, Len(b.marks) - 2)
  BY <1>6, <1>8 DEF Outputs, PopField
<1> QED  BY <1>1, <1>9 DEF u, Patched

LEMMA MarksPopped ==
  ASSUME NEW m \in Seq(Nat), NEW p \in Nat, NEW q \in Nat, NEW s, s = m \o <<p, q>>
  PROVE  s[Len(s) - 1] = p /\ s[Len(s)] = q /\ SubSeq(s, 1, Len(s) - 2) = m
<1> DEFINE e == <<p, q>>
<1>1. e \in Seq(Nat) /\ Len(e) = 2 /\ e[1] = p /\ e[2] = q /\ Len(m) \in Nat
  BY LenProperties
<1> HIDE DEF e
<1>2. /\ Len(m \o e) = Len(m) + Len(e)
      /\ \A k \in 1 .. Len(m) + Len(e) : (m \o e)[k] = IF k <= Len(m) THEN m[k] ELSE e[k - Len(m)]
  BY <1>1, ConcatProperties
<1>3. (m \o e)[Len(m) + 1] = p /\ (m \o e)[Len(m) + 2] = q
  BY <1>1, <1>2
<1>4. SubSeq(m \o e, 1, Len(m)) = m
  BY <1>1, HeadOfConcat
<1>5. Len(m \o e) - 1 = Len(m) + 1 /\ Len(m \o e) = Len(m) + 2 /\ Len(m \o e) - 2 = Len(m)
  BY <1>1, <1>2
<1>6. s = m \o e
  BY DEF e
<1> QED  BY <1>3, <1>4, <1>5, <1>6

\* A length field that is opened at a byte, followed by any content and closed
\* again ends up in front of that content with the number of its whole bytes;
\* what had been written before is untouched, and so are the outer fields' marks.
THEOREM LengthFieldClosed ==
  ASSUME NEW o \in Outputs, Len(o.bits) % 8 = 0, NEW width \in {1, 2, 4}, NEW content \in Seq(Bit),
         NEW b \in Outputs, b.bits = OpenField(o, width).bits \o content,
         b.marks = OpenField(o, width).marks, b.le = o.le
  PROVE  /\ CloseField(b, width).bits
              = o.bits \o Ordered(NumberBits(Len(content) \div 8, width), o.le) \o content
         /\ CloseField(b, width).marks = o.marks
<1>1. PICK x \in Seq(Bit), m \in Seq(Nat), le \in BOOLEAN :
        x = o.bits /\ m = o.marks /\ le = o.le /\ Len(x) \in Nat /\ Len(m) \in Nat
  BY LenProperties DEF Outputs
<1>2. PICK p \in Nat : p = Position(o) /\ Len(x) = 8 * p
  <2>1. Len(x) \div 8 \in Nat /\ Len(x) = 8 * (Len(x) \div 8)
    BY <1>1, WholeBytes
  <2> QED  BY <1>1, <2>1 DEF Position
<1>3. PICK y \in Seq(Bit) : y = Ordered(NumberBits(0, width), le) /\ Len(y) = 8 * width
  BY NumberOrdered
<1>4. b.bits = x \o y \o content /\ b.marks = m \o <<p, p + width>>
  <2>1. LET a == OpenField(o, width)
        IN  /\ a \in Outputs /\ a.le = o.le
            /\ a.bits = o.bits \o Ordered(NumberBits(0, width), o.le)
            /\ a.marks = o.marks \o <<Position(o), Position(o) + width>>
    BY FieldOpened
  <2> QED  BY <1>1, <1>2, <1>3, <2>1
<1>5. /\ b.marks[Len(b.marks) - 1] = p /\ b.marks[Len(b.marks)] = p + width
      /\ SubSeq(b.marks, 1, Len(b.marks) - 2) = m
  BY <1>4, MarksPopped
<1>6. FieldLength(b) = Len(content) \div 8 /\ Len(content) \div 8 \in Nat
  <2>1. PICK l \in Nat : l = Len(content)
    BY LenProperties
  <2>2. Len(b.bits) = 8 * p + 8 * width + l
    <3>1. Assembled(x \o y \o content, x, y, content)
      BY ThreePieces
    <3> QED  BY <1>2, <1>3, <1>4, <2>1, <3>1 DEF Assembled
  <2>3. \A w \in Nat : (8 * p + 8 * w + l) \div 8 = p + w + l \div 8 /\ l \div 8 \in Nat
    OBVIOUS
  <2>4. Position(b) = p + width + l \div 8 /\ l \div 8 \in Nat
    BY <2>2, <2>3 DEF Position
  <2>5. FieldLength(b) = Position(b) - (p + width)
    BY <1>5 DEF FieldLength
  <2> QED  BY <2>1, <2>4, <2>5
<1>7. CloseField(b, width) = PopField(WriteNumberAt(b, Len(content) \div 8, width, p))
  BY <1>5, <1>6 DEF CloseField
<1>8. Patched(b, x, content, Len(content) \div 8, width, p)
  <2>1. PICK n \in Nat : n = Len(content) \div 8
    BY <1>6
  <2>2. b.bits = x \o y \o content /\ Len(y) = 8 * width /\ Len(x) = 8 * p
    BY <1>2, <1>3, <1>4
  <2>3. Patched(b, x, content, n, width, p)
    BY <2>2, FieldPatched
  <2> QED  BY <2>1, <2>3
<1> QED  BY <1>1, <1>5, <1>7, <1>8 DEF Patched

-----------------------------------------------------------------------------
(* What a reader has left.                                                 *)

\* remaining_ counts the bytes of the body from the one that the stream stands in.
Counted(i) ==
  i.pos <= 8 * (Len(i.body) \div 8) /\ i.rem = Len(i.body) \div 8 - i.pos \div 8

LEMMA EighthsAdded ==
  ASSUME NEW q \in Nat, NEW r \in Nat, NEW b \in Nat
  PROVE  (8 * q + r + b) \div 8 = q + (r + b) \div 8
OBVIOUS

\* Where a stream stands: q whole bytes and r bits into a body of n bytes, rem to go.
Stands(l, pos, rem, n, q, r) ==
  /\ n = l \div 8 /\ q = pos \div 8 /\ r = pos % 8
  /\ pos = 8 * q + r /\ r < 8 /\ pos <= 8 * n /\ 8 * n <= l /\ rem = n - q /\ q <= n

LEMMA InputFields ==
  ASSUME NEW i \in Inputs, Counted(i)
  PROVE  \E l, pos, rem, n, q, r \in Nat :
           l = Len(i.body) /\ pos = i.pos /\ rem = i.rem /\ Stands(l, pos, rem, n, q, r)
<1>1. i.pos \in Nat /\ Len(i.body) \in Nat
  BY LenProperties DEF Inputs
<1>2. PICK l \in Nat, pos \in Nat : l = Len(i.body) /\ pos = i.pos
  BY <1>1
<1>3. PICK n \in Nat, q \in Nat, r \in Nat :
        n = l \div 8 /\ q = pos \div 8 /\ r = pos % 8 /\ pos = 8 * q + r /\ r < 8 /\ 8 * n <= l
  OBVIOUS
<1>4. pos <= 8 * n /\ i.rem = n - q
  BY <1>2, <1>3 DEF Counted
<1>5. n - q \in Nat /\ q <= n
  BY <1>3, <1>4
<1>6. Stands(l, pos, n - q, n, q, r)
  BY <1>3, <1>4, <1>5 DEF Stands
<1> QED  BY <1>2, <1>3, <1>4, <1>5, <1>6

LEMMA StandsWithin ==
  ASSUME NEW l \in Nat, NEW pos \in Nat, NEW rem \in Nat, NEW n \in Nat, NEW q \in Nat, NEW r \in Nat,
         Stands(l, pos, rem, n, q, r)
  PROVE  pos <= l
BY DEF Stands

LEMMA StandsAligned ==
  ASSUME NEW l \in Nat, NEW pos \in Nat, NEW rem \in Nat, NEW n \in Nat, NEW q \in Nat, NEW r \in Nat,
         Stands(l, pos, rem, n, q, r), r # 0
  PROVE  rem # 0 /\ rem - 1 = n - (q + 1) /\ pos + 8 - r = 8 * (q + 1) /\ 8 * (q + 1) <= 8 * n
<1>1. pos = 8 * q + r /\ r < 8 /\ pos <= 8 * n /\ 8 * n <= l /\ rem = n - q /\ q <= n
  BY DEF Stands
<1>2. q < n
  BY <1>1
<1> QED  BY <1>1, <1>2

\* The b bits from where the stream stands end within as many bytes as the guard asks for.
FitsInBytes(i, b) == (i.pos % 8) + b <= 8 * ((b + 7) \div 8)

\* Nothing is left to fit where the stream is aligned.
LEMMA AlignedFits ==
  ASSUME NEW i, i.pos % 8 = 0, NEW b \in Nat
  PROVE  FitsInBytes(i, b)
<1>1. 0 + b <= 8 * ((b + 7) \div 8)
  OBVIOUS
<1> QED  BY <1>1 DEF FitsInBytes

\* A value that ends within the bytes that the guard of _readBitValue asks for, as
\* every value does before which the stream has been aligned, is read from bits of
\* the body or not at all, and the count of the bytes that remain stays right.
THEOREM ReadsStayInBody ==
  ASSUME NEW i \in Inputs, Counted(i), NEW size \in Nat \ {0}, NEW bits \in Nat, NEW signed \in BOOLEAN,
         FitsInBytes(i, Least(bits, 8 * size))
  PROVE  LET r == ReadBits(i, size, bits, signed)
         IN  /\ r.i.stray = i.stray /\ Counted(r.i) /\ r.i.pos <= Len(i.body)
             /\ r.i.pos = (IF r.failed THEN i.pos ELSE i.pos + Least(bits, 8 * size))
<1>0. PICK b \in Nat : b = Least(bits, 8 * size)
  BY DEF Least
<1>1. PICK l, pos, rem, n, q, r \in Nat :
        l = Len(i.body) /\ pos = i.pos /\ rem = i.rem /\ Stands(l, pos, rem, n, q, r)
  BY InputFields
<1>2. PICK e \in Nat : e = (b + 7) \div 8
  OBVIOUS
<1>3. PICK f \in Nat : f = (r + b) \div 8
  OBVIOUS
<1>4. CASE b = 0 \/ rem < e
  <2>1. /\ ReadBits(i, size, bits, signed).failed /\ ReadBits(i, size, bits, signed).i = i
    BY <1>0, <1>1, <1>2, <1>4 DEF ReadBits
  <2>2. pos <= l
    BY <1>1, StandsWithin
  <2> QED  BY <1>1, <2>1, <2>2
<1>5. CASE ~(b = 0 \/ rem < e)
  <2> DEFINE j == [i EXCEPT !.pos = @ + b, !.rem = @ - ((i.pos % 8) + b) \div 8]
  <2>1. q = pos \div 8 /\ r = pos % 8 /\ rem = n - q /\ n = l \div 8
    BY <1>1 DEF Stands
  <2>2. r + b <= 8 * e /\ ~(rem < e)
    <3>1. (i.pos % 8) + b <= 8 * ((b + 7) \div 8)
      BY <1>0 DEF FitsInBytes
    <3> QED  BY <1>1, <1>2, <1>5, <2>1, <3>1
  <2>3. pos + b <= 8 * n /\ pos + b <= l /\ (pos + b) \div 8 = q + f
    <3>1. Stands(l, pos, rem, n, q, r)
      BY <1>1
    <3>2. r + b <= 8 * rem
      BY <2>2
    <3>3. pos + b <= 8 * n /\ pos + b <= l /\ (pos + b) \div 8 = q + (r + b) \div 8
      <4>1. pos = 8 * q + r /\ r < 8 /\ pos <= 8 * n /\ 8 * n <= l /\ rem = n - q /\ q <= n
        BY <3>1 DEF Stands
      <4>2. (8 * q + r + b) \div 8 = q + (r + b) \div 8
        OBVIOUS
      <4>3. 8 * q + r + b <= 8 * n
        BY <3>2, <4>1
      <4> QED  BY <4>1, <4>2, <4>3
    <3> QED  BY <1>3, <3>3
  <2>4. j.pos = i.pos + b /\ j.rem = i.rem - ((i.pos % 8) + b) \div 8 /\ j.body = i.body /\ j.stray = i.stray
    BY DEF Inputs
  <2> HIDE DEF j
  <2>5. j.pos = pos + b /\ j.rem = rem - f /\ Len(j.body) = l
    BY <1>1, <1>3, <2>1, <2>4
  <2>6. ~(j.pos > Len(i.body))
    <3>1. ~(pos + b > l)
      BY <2>3
    <3> QED  BY <1>1, <2>5, <3>1
  <2>7. ~(b = 0 \/ i.rem < (b + 7) \div 8)
    BY <1>1, <1>2, <1>5
  <2>8. ~ReadBits(i, size, bits, signed).failed /\ ReadBits(i, size, bits, signed).i = j
    BY <1>0, <2>6, <2>7 DEF ReadBits, j
  <2>9. \A x \in Nat : x = n - q => x - f = n - (q + f)
    OBVIOUS
  <2>10. Counted(j)
    BY <1>1, <2>1, <2>3, <2>5, <2>9 DEF Counted
  <2> QED  BY <1>0, <1>1, <2>3, <2>4, <2>5, <2>8, <2>10
<1> QED  BY <1>4, <1>5

\* What is left of a byte is skipped, and no longer counted.
LEMMA AlignedCounted ==
  ASSUME NEW i \in Inputs, Counted(i)
  PROVE  LET a == AlignIn(i) IN Counted(a) /\ a.pos % 8 = 0 /\ a.body = i.body /\ a.stray = i.stray
<1>1. PICK l, pos, rem, n, q, r \in Nat :
        l = Len(i.body) /\ pos = i.pos /\ rem = i.rem /\ Stands(l, pos, rem, n, q, r)
  BY InputFields
<1>2. CASE r = 0
  <2>1. i.pos % 8 = 0
    BY <1>1, <1>2 DEF Stands
  <2> QED  BY <2>1 DEF AlignIn
<1>3. CASE r # 0
  <2> DEFINE a == AlignIn(i)
  <2>1. /\ rem # 0 /\ rem - 1 = n - (q + 1) /\ pos + 8 - r = 8 * (q + 1) /\ 8 * (q + 1) <= 8 * n
        /\ r = pos % 8 /\ n = l \div 8
    <3>1. Stands(l, pos, rem, n, q, r)
      BY <1>1
    <3>2. /\ rem # 0 /\ rem - 1 = n - (q + 1) /\ pos + 8 - r = 8 * (q + 1)
          /\ 8 * (q + 1) <= 8 * n
      BY <1>3, <3>1, StandsAligned
    <3> QED  BY <3>1, <3>2 DEF Stands
  <2>2. a = [i EXCEPT !.pos = @ + 8 - (@ % 8), !.rem = IF @ = 0 THEN Huge ELSE @ - 1]
    BY <1>1, <1>3, <2>1 DEF AlignIn
  <2>3. /\ a.pos = i.pos + 8 - (i.pos % 8) /\ a.rem = (IF i.rem = 0 THEN Huge ELSE i.rem - 1)
        /\ a.body = i.body /\ a.stray = i.stray
    BY <2>2 DEF Inputs
  <2> HIDE DEF a
  <2>4. a.rem = rem - 1 /\ a.pos = pos + 8 - r /\ Len(a.body) = l
    BY <1>1, <2>1, <2>3
  <2>5. a.pos = 8 * (q + 1)
    BY <2>1, <2>4
  <2>6. (8 * (q + 1)) \div 8 = q + 1 /\ (8 * (q + 1)) % 8 = 0
    OBVIOUS
  <2>7. Counted(a)
    BY <2>1, <2>4, <2>5, <2>6 DEF Counted
  <2>8. a.pos % 8 = 0
    BY <2>5, <2>6
  <2> QED  BY <2>3, <2>7, <2>8 DEF a
<1> QED  BY <1>2, <1>3

\* The bytes that a reader counts as remaining are those from the one it stands
\* in to the end of the body: when it begins, when it is aligned, and when it
\* has taken whole bytes.
THEOREM BytesCounted ==
  ASSUME NEW body \in Seq(Bit), NEW le \in BOOLEAN, NEW i \in Inputs, Counted(i), NEW n \in Nat
  PROVE  /\ Counted(NewInput(body, le))
         /\ Counted(AlignIn(i))
         /\ i.pos % 8 = 0 /\ ~ReadRaw(i, n).err => Counted(ReadRaw(i, n))
<1>1. Counted(NewInput(body, le))
  <2> DEFINE s == NewInput(body, le)
  <2>1. s.pos = 0 /\ s.rem = Len(body) \div 8 /\ s.body = body
    BY DEF NewInput
  <2> HIDE DEF s
  <2>2. PICK l \in Nat, m \in Nat : l = Len(body) /\ m = l \div 8
    BY LenProperties
  <2>3. 0 <= 8 * m /\ m = m - 0 \div 8
    OBVIOUS
  <2>4. Counted(s)
    BY <2>1, <2>2, <2>3 DEF Counted
  <2> QED  BY <2>4 DEF s
<1>2. Counted(AlignIn(i))
  BY AlignedCounted
<1>3. ASSUME i.pos % 8 = 0, ~ReadRaw(i, n).err  PROVE Counted(ReadRaw(i, n))
  <2>1. PICK l, pos, rem, w, q, r \in Nat :
          l = Len(i.body) /\ pos = i.pos /\ rem = i.rem /\ Stands(l, pos, rem, w, q, r)
    BY InputFields
  <2> DEFINE a == ReadRaw(i, n)
  <2>2. /\ a.err = (i.err \/ n > i.rem) /\ a.rem = (IF n >= i.rem THEN 0 ELSE i.rem - n)
        /\ a.pos = i.pos + 8 * n /\ a.body = i.body
    BY DEF ReadRaw, Inputs
  <2> HIDE DEF a
  <2>3. ~(n > rem)
    <3>1. ~a.err
      BY <1>3 DEF a
    <3> QED  BY <2>1, <2>2, <3>1
  <2>4. (IF n >= rem THEN 0 ELSE rem - n) = rem - n
    BY <2>3
  <2>5. r = 0 /\ w = l \div 8
    BY <1>3, <2>1 DEF Stands
  <2>6. pos + 8 * n = 8 * (q + n) /\ 8 * (q + n) <= 8 * w /\ rem - n = w - (q + n)
    <3>1. Stands(l, pos, rem, w, q, r)
      BY <2>1
    <3>2. r = 0
      BY <2>5
    <3>3. pos = 8 * q + r /\ rem = w - q
      BY <3>1 DEF Stands
    <3> QED  BY <2>3, <3>2, <3>3
  <2>7. a.rem = rem - n /\ a.pos = 8 * (q + n) /\ Len(a.body) = l
    BY <2>1, <2>2, <2>4, <2>6
  <2>8. (8 * (q + n)) \div 8 = q + n
    OBVIOUS
  <2>9. Counted(a)
    BY <2>5, <2>6, <2>7, <2>8 DEF Counted
  <2> QED  BY <2>9 DEF a
<1> QED  BY <1>1, <1>2, <1>3

=============================================================================
