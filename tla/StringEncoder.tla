---------------------------- MODULE StringEncoder ----------------------------
(***************************************************************************)
(* StringEncoder.cpp and the parts of the streams that use it: a CommonAPI *)
(* string is UTF-8 in memory and UTF-8, UTF-16LE or UTF-16BE with a byte   *)
(* order mark and a terminator in a message.  Strings are sequences of     *)
(* bytes, code points are numbers.                                         *)
(***************************************************************************)
EXTENDS Integers, Sequences, SequencesExt

Encodings == {"UTF8", "UTF16LE", "UTF16BE"}

\* What a conversion that fails returns: no sequence of bytes.
Malformed == <<256>>

Within(c, low, high) == low <= c /\ c <= high

IsSurrogate(u) == Within(u, 55296, 57343)               \* 0xD800 .. 0xDFFF

\* The surrogate test sees the lowest 16 bits only.
IsCodePointValid(c) == c <= 1114111 /\ ~IsSurrogate(c % 65536)

Utf8Of(c) ==
  CASE c < 128                -> <<c>>
    [] Within(c, 128, 2047)   -> <<192 + c \div 64, 128 + (c % 64)>>
    [] Within(c, 2048, 65535) -> <<224 + c \div 4096, 128 + ((c \div 64) % 64), 128 + (c % 64)>>
    [] OTHER -> <<240 + c \div 262144, 128 + ((c \div 4096) % 64),
                  128 + ((c \div 64) % 64), 128 + (c % 64)>>

Push(c) == IF IsCodePointValid(c) THEN Utf8Of(c) ELSE <<0>>

-----------------------------------------------------------------------------
\* UTF-8 to UTF-16

SequenceLength(b) ==
  CASE b < 128 -> 1
    [] b \div 32 = 6  -> 2
    [] b \div 16 = 14 -> 3
    [] b \div 8  = 30 -> 4
    [] OTHER -> 0

\* nextUtf8: the bytes behind the lead that do not continue the sequence.
Breaks(s, k, n) == {j \in 1 .. n - 1 : ~(k + j <= Len(s) /\ s[k + j] \div 64 = 2)}

\* How far the conversion goes on: over the sequence, or over the first byte
\* that breaks it.  Where that is the terminator, what the code then finds
\* behind it is left out.
BytesRead(s, k, n) ==
  IF n = 0 THEN 1 ELSE IF Breaks(s, k, n) = {} THEN n ELSE 1 + Min(Breaks(s, k, n))

\* getByteSequence1 .. 4, for a sequence without breaks.
ByteSequence(s, k, n) ==
  CASE n = 1 -> s[k]
    [] n = 2 -> (s[k] % 32) * 64 + (s[k + 1] % 64)
    [] n = 3 -> (s[k] % 16) * 4096 + (s[k + 1] % 64) * 64 + (s[k + 2] % 64)
    [] n = 4 -> (s[k] % 8) * 262144 + (s[k + 1] % 64) * 4096 + (s[k + 2] % 64) * 64 + (s[k + 3] % 64)
    [] OTHER -> 0

IsSequenceTooLong(c, n) ==
  \/ c < 128 /\ n # 1
  \/ Within(c, 128, 2047) /\ n # 2
  \/ Within(c, 2048, 65535) /\ n # 3

Unit(u, enc) ==
  IF enc = "UTF16BE" THEN <<u \div 256, u % 256>> ELSE <<u % 256, u \div 256>>

Utf16Of(c, enc) ==
  IF c > 65535
    THEN Unit(55296 + (c - 65536) \div 1024, enc) \o Unit(56320 + ((c - 65536) % 1024), enc)
    ELSE Unit(c, enc)

\* From byte k on; ok is EncodingStatus::SUCCESS, and what follows a bad
\* sequence becomes U+0000.  The conversion stops at the first NUL.
Utf8To16(s, enc) ==
  LET from[x \in (Nat \ {0}) \X BOOLEAN] ==
        LET k     == x[1]
            n     == SequenceLength(s[k])
            c     == ByteSequence(s, k, n)
            valid == x[2] /\ n > 0 /\ Breaks(s, k, n) = {} /\ ~IsSequenceTooLong(c, n) /\ IsCodePointValid(c)
        IN  IF k > Len(s) \/ s[k] = 0 THEN <<>>
            ELSE Utf16Of(IF valid THEN c ELSE 0, enc) \o from[<<k + BytesRead(s, k, n), valid>>]
  IN  from[<<1, TRUE>>]

-----------------------------------------------------------------------------
\* UTF-16 to UTF-8

UnitAt(d, k, enc) == IF enc = "UTF16BE" THEN d[k] * 256 + d[k + 1] ELSE d[k + 1] * 256 + d[k]

\* The code point of two surrogates, without their leads.
OfPair(u, v) == (u % 1024) * 1024 + (v % 1024) + 65536

\* A unit begins at every other byte.
Utf16To8(d, enc) ==
  LET from[k \in {n \in Nat : n % 2 = 1}] ==
        IF k > Len(d) THEN <<>>
        ELSE LET u    == UnitAt(d, k, enc)
                 pair == IsSurrogate(u)
                 rest == from[k + IF pair THEN 4 ELSE 2]
             IN  IF pair /\ (k + 3 > Len(d) \/ ~IsSurrogate(UnitAt(d, k + 2, enc))) THEN Malformed
                 ELSE IF rest = Malformed THEN Malformed
                 ELSE Push(IF pair THEN OfPair(u, UnitAt(d, k + 2, enc)) ELSE u)
                      \o rest
  IN  from[1]

-----------------------------------------------------------------------------
\* In a message

Bom(enc) ==
  CASE enc = "UTF8"    -> <<239, 187, 191>>
    [] enc = "UTF16LE" -> <<255, 254>>
    [] enc = "UTF16BE" -> <<254, 255>>

Termination(enc) == IF enc = "UTF8" THEN <<0>> ELSE <<0, 0>>

\* checkBom, which moves the data and the size behind the mark.
WithoutBom(data, enc) ==
  IF Len(data) > 3 /\ IsPrefix(Bom(enc), data)
    THEN SubSeq(data, Len(Bom(enc)) + 1, Len(data))
    ELSE Malformed

Encode(s, enc) == IF enc = "UTF8" THEN s ELSE Utf8To16(s, enc)

\* A UTF-16 text ends at the last pair of zero bytes, searched byte by byte.
TextEnd(d) ==
  LET ends == {k \in 2 .. Len(d) : d[k] = 0 /\ d[k - 1] = 0}
  IN  IF ends = {} THEN 1 ELSE CHOOSE k \in ends : \A e \in ends : e <= k

Decode(data, enc) ==
  LET d == WithoutBom(data, enc)
  IN  IF d = Malformed THEN Malformed
      ELSE IF enc = "UTF8" THEN (IF d[Len(d)] # 0 THEN Malformed ELSE SubSeq(d, 1, Len(d) - 1))
      ELSE IF TextEnd(d) % 2 # 0 THEN Malformed
      ELSE Utf16To8(SubSeq(d, 1, TextEnd(d) - 2), enc)

=============================================================================
