----------------------------- MODULE BasicValues -----------------------------
(***************************************************************************)
(* writeValue and readValue for the types whose values hold no other       *)
(* values, under their deployments.  A type is a record whose "k" names    *)
(* the overload and whose other fields are those of the deployment (a null *)
(* deployment is one with the defaults).  A value is the bits of a number, *)
(* a sequence of such values, a sequence of bytes for a string.  Writing   *)
(* returns the stream; reading returns the stream and the value.           *)
(***************************************************************************)
EXTENDS BitStreams, StringEncoder

NoInvalid == <<>>

\* EnumerationDeployment: the overloads for 8 and 16 bits go through
\* a type of that width, the others through the base type.
EnumSize(t) == IF t.bits \div 8 \in {1, 2} THEN t.bits \div 8 ELSE t.size

\* The arguments of a fixed or bounded number of elements: a length field of
\* width 0 stands for exactly max elements.
Fits(t, n) ==
  IF t.width # 0 THEN (t.min = 0 \/ n >= t.min) /\ (t.max = 0 \/ n <= t.max) ELSE n = t.max

-----------------------------------------------------------------------------
\* OutputStream::writeValue

WriteBool(o, v) == WriteBits(o, v \o Copies(0, 31), 8, FALSE)

WriteInt(o, t, v) == WriteBits(o, v, t.bits, t.signed)

WriteRanged(o, t, v) == IF v \in t.range THEN WriteInt(o, t, v) ELSE [o EXCEPT !.err = TRUE]

WriteEnum(o, t, v) == WriteBits(o, SubSeq(v, 1, 8 * EnumSize(t)), t.bits, t.signed)

WriteVersion(o, v) == WriteBits(WriteBits(AlignOut(o), v[1], 32, FALSE), v[2], 32, FALSE)

\* A fixed length that is too short is noted in a local flag, not in the stream's.
WriteString(o, t, v) ==
  LET text == Bom(t.enc) \o Encode(v, t.enc) \o Termination(t.enc)
      a    == AlignOut(o)
  IN  IF t.width # 0 THEN WriteRaw(WriteNumber(a, Len(text), t.width), BitsOf(text))
      ELSE IF t.len < Len(text) THEN a
      ELSE WriteRaw(a, BitsOf(text \o Copies(0, t.len - Len(text))))

WriteByteBuffer(o, t, v) ==
  LET size == IF t.width # 0 /\ t.max > 0 /\ t.max < Len(v) THEN t.max ELSE Len(v)
      bad  == \/ t.width = 0 /\ t.max # size
              \/ t.width # 0 /\ size < t.min
              \/ t.width \notin {0, 1, 2, 4}
              \/ t.width \in {1, 2} /\ size >= 2 ^ (8 * t.width)
      a    == AlignOut(o)
      b    == [a EXCEPT !.err = @ \/ bad]
  IN  IF b.err THEN b
      ELSE WriteRaw(WriteNumber(b, size, t.width), SubSeq(Joined(v), 1, 8 * size))

WriteByteArray(o, t, v) ==
  LET a == AlignOut(o)
      b == [a EXCEPT !.err = @ \/ ~Fits(t, Len(v))]
  IN  IF b.err THEN b ELSE WriteRaw(WriteNumber(b, Len(v), t.width), Joined(v))

-----------------------------------------------------------------------------
\* InputStream::readValue

Result(i, v) == [i |-> i, v |-> v]

\* Mutant: a value that could not be read is no error.
ReadSizedOrZero(i, t, size) == LET r == ReadBits(i, size, t.bits, t.signed) IN Result(r.i, r.v)

\* The error flag is overwritten, and an invalid value of the deployment
\* stands for a value that could not be read.
ReadSized(i, t, size) ==
  LET r == ReadBits(i, size, t.bits, t.signed)
  IN  IF r.failed /\ t.inv # NoInvalid
        THEN Result([r.i EXCEPT !.err = FALSE], t.inv)
        ELSE Result([r.i EXCEPT !.err = r.failed], r.v)

ReadInt(i, t) == ReadSized(i, t, t.size)

ReadBool(i) ==
  LET r == ReadBits(i, 1, 8, FALSE) IN Result([r.i EXCEPT !.err = r.failed], SubSeq(r.v, 1, 1))

ReadFloat(i, t) ==
  LET r == ReadBits(AlignIn(i), t.size, 8 * t.size, FALSE) IN Result([r.i EXCEPT !.err = r.failed], r.v)

ReadRanged(i, t) ==
  LET r == ReadInt(i, t)
  IN  IF r.v \notin t.range THEN Result(Fail(r.i), r.v) ELSE r

\* A narrow enumeration is widened from an unsigned type.
ReadEnum(i, t) ==
  LET r == ReadSized(i, t, EnumSize(t))
  IN  Result(r.i, r.v \o Copies(0, 8 * t.size - Len(r.v)))

\* The results of the two reads are dropped.
ReadVersion(i) ==
  LET major == ReadBits(AlignIn(i), 4, 32, FALSE)
      minor == ReadBits(major.i, 4, 32, FALSE)
  IN  Result(minor.i, <<major.v, minor.v>>)

ReadString(i, t) ==
  LET s == IF t.width = 0 THEN [i |-> AlignIn(i), n |-> t.len] ELSE ReadNumber(AlignIn(i), t.width, FALSE)
      j == IF s.n > s.i.rem THEN Fail(s.i) ELSE s.i
      d == Decode(RawBytes(j, s.n), t.enc)
  IN  IF j.err THEN Result(j, <<>>)
      ELSE IF d = Malformed THEN Result(Fail(ReadRaw(j, s.n)), <<>>)
      ELSE Result(ReadRaw(j, s.n), d)

\* The bytes of i as values of one byte each.
Elements(i, n) == [k \in 1 .. n |-> SubSeq(i.body, i.pos + 8 * k - 7, i.pos + 8 * k)]

\* A longer buffer is read and cut off.
ReadByteBuffer(i, t) ==
  LET s    == IF t.width # 0 THEN ReadNumber(AlignIn(i), t.width, TRUE) ELSE [i |-> AlignIn(i), n |-> t.max]
      kept == IF t.max # 0 /\ s.n > t.max THEN t.max ELSE s.n
      j    == IF (t.width # 0 /\ s.n < t.min) \/ s.n > s.i.rem THEN Fail(s.i) ELSE s.i
  IN  IF j.err THEN Result(j, <<>>) ELSE Result(ReadRaw(j, s.n), Elements(j, kept))

ReadByteArray(i, t) ==
  LET s == IF t.width # 0 THEN ReadNumber(AlignIn(i), t.width, TRUE) ELSE [i |-> AlignIn(i), n |-> t.max]
      j == IF \/ t.width # 0 /\ (s.n < t.min \/ (t.max # 0 /\ s.n > t.max))
              \/ s.n > s.i.rem
             THEN Fail(s.i) ELSE s.i
  IN  IF j.err THEN Result(j, <<>>) ELSE Result(ReadRaw(j, s.n), Elements(j, s.n))

=============================================================================
