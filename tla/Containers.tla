------------------------------ MODULE Containers ------------------------------
(***************************************************************************)
(* writeValue and readValue for the types whose values hold other values,  *)
(* and the choice of the overload.  The parts of a container go through    *)
(* writeValue and readValue again: Write and Read are these, and WriteNext *)
(* and ReadNext are what is left of a loop over the parts.  They are       *)
(* parameters here, so that the module needs no recursion of its own, and  *)
(* Streams gives them their values: WriteOverload, WriteLoop, ReadOverload *)
(* and ReadLoop.  A value of several parts is the sequence of the parts, a *)
(* variant or a polymorphic struct the record [alt, val].                  *)
(***************************************************************************)
EXTENDS BasicValues

CONSTANTS Write(_, _, _), WriteNext(_, _, _, _), Read(_, _), ReadNext(_, _, _, _)

-----------------------------------------------------------------------------
\* OutputStream::writeValue

\* The parts of a value: the elements of an array, the entries of a map, each
\* a pair of key and value, and the fields of a struct.
WriteEntry(o, t, e) ==
  LET k == Write(o, t.key, e[1]) IN IF k.err THEN k ELSE Write(k, t.val, e[2])

WritePart(o, t, e, n) ==
  CASE t.k = "array"  -> Write(o, t.elem, e)
    [] t.k = "map"    -> WriteEntry(o, t, e)
    [] t.k = "struct" -> Write(o, t.fields[n], e)

\* From the n-th part on: elements until one fails, and entries, of which the
\* first is written in any case.  StructWriter goes through the fields without
\* looking at the error flag.
WriteLoop(o, t, v, n) ==
  IF n > Len(v) \/ (o.err /\ (t.k = "array" \/ (t.k = "map" /\ n > 1)))
    THEN o
    ELSE WriteNext(WritePart(o, t, v[n], n), t, v, n + 1)

Opened(o, width) == IF width # 0 THEN OpenField(o, width) ELSE o

Closed(o, width) == IF width # 0 THEN CloseField(o, width) ELSE o

WriteArray(o, t, v) ==
  LET s == Opened(AlignOut(o), t.width)
  IN  Closed(WriteNext([s EXCEPT !.err = @ \/ ~Fits(t, Len(v))], t, v, 1), t.width)

\* An error leaves the loop over the entries without closing the length field.
WriteMap(o, t, v) ==
  LET b == Opened(AlignOut(o), t.width)
      d == WriteNext([b EXCEPT !.err = @ \/ ~Fits(t, Len(v))], t, v, 1)
  IN  IF v # <<>> /\ d.err THEN d ELSE Closed(d, t.width)

WriteStruct(o, t, v) ==
  LET s == Opened(AlignOut(o), t.width)
  IN  Closed(IF s.err THEN s ELSE WriteNext(s, t, v, 1), t.width)

\* A polymorphic struct has the fields of one of its types.
Fields(fields) == [k |-> "struct", fields |-> fields]

\* The serial number of the type, then the fields.
WritePolymorphic(o, t, v) ==
  LET s == WriteBits(AlignOut(o), NumberBits(v.alt, 4), 32, FALSE)
  IN  IF s.err THEN s ELSE WriteNext(s, Fields(t.alts[v.alt]), v.val, 1)

\* The padding of a union of fixed length goes through _writeValue('\0', 8),
\* which writes nothing for a width of 8 bytes.
WriteVariant(o, t, v) ==
  LET a == AlignOut(o)
      b == IF t.order
             THEN PushPosition(WriteNumber(WriteNumber(PushPosition(a), 0, t.width), v.alt, t.twidth))
             ELSE OpenField(WriteNumber(a, v.alt, t.twidth), t.width)
      c == IF b.err THEN b ELSE Write(b, t.alts[v.alt], v.val)
  IN  IF t.width # 0 THEN CloseField(c, t.width)
      ELSE [PopField(c) EXCEPT !.err = @ \/ FieldLength(c) > t.max]

WriteOverload(o, t, v) ==
  CASE t.k = "bool"    -> WriteBool(o, v)
    [] t.k = "int"     -> WriteInt(o, t, v)
    [] t.k = "float"   -> WriteBits(o, v, Len(v), FALSE)
    [] t.k = "ranged"  -> WriteRanged(o, t, v)
    [] t.k = "enum"    -> WriteEnum(o, t, v)
    [] t.k = "version" -> WriteVersion(o, v)
    [] t.k = "string"  -> WriteString(o, t, v)
    [] t.k = "buffer"  -> WriteByteBuffer(o, t, v)
    [] t.k = "bytes"   -> WriteByteArray(o, t, v)
    [] t.k = "array"   -> WriteArray(o, t, v)
    [] t.k = "map"     -> WriteMap(o, t, v)
    [] t.k = "struct"  -> WriteStruct(o, t, v)
    [] t.k = "poly"    -> WritePolymorphic(o, t, v)
    [] t.k = "variant" -> WriteVariant(o, t, v)

-----------------------------------------------------------------------------
\* InputStream::readValue

\* One element of an array, or one entry of a map: inserting keeps an old one.
ReadEntry(i, t, acc) ==
  LET key == Read(i, t.key)
      val == Read(key.i, t.val)
      elem == Read(i, t.elem)
  IN  IF t.k = "array" THEN Result(elem.i, Append(acc, elem.v))
      ELSE IF key.i.err THEN key
      ELSE Result(val.i, IF \E k \in DOMAIN acc : acc[k][1] = key.v THEN acc
                         ELSE Append(acc, <<key.v, val.v>>))

\* The loop of arrays and maps: until the announced size is used up, or until
\* there are max elements when there is no length field.  A size that would
\* fall below 0 wraps around.
EntryLoop(i, t, size, acc) ==
  LET r    == ReadEntry(i, t, acc)
      used == i.rem - r.i.rem
      left == IF t.width = 0 THEN size ELSE IF used > size THEN Huge ELSE size - used
  IN  IF size = 0 /\ (t.width # 0 \/ Len(acc) >= t.max) THEN [i |-> i, n |-> size, v |-> acc]
      ELSE IF r.i.err \/ r.i.stray # "no" THEN [i |-> r.i, n |-> size, v |-> acc]
      ELSE IF r.i.pos = i.pos /\ t.width # 0
        THEN [i |-> [r.i EXCEPT !.stray = "endless"], n |-> size, v |-> r.v]
      ELSE ReadNext(r.i, t, left, r.v)

\* StructReader goes through the fields without looking at the error flag.
FieldLoop(i, t, size, acc) ==
  LET f == Read(i, t.fields[Len(acc) + 1])
  IN  IF Len(acc) = Len(t.fields) THEN [i |-> i, n |-> size, v |-> acc]
      ELSE ReadNext(f.i, t, size, Append(acc, f.v))

\* What is left of either loop after the parts acc.
ReadLoop(i, t, size, acc) ==
  IF t.k = "struct" THEN FieldLoop(i, t, size, acc) ELSE EntryLoop(i, t, size, acc)

ReadArray(i, t) ==
  LET s == ReadNumber(AlignIn(i), t.width, TRUE)
      r == ReadNext(s.i, t, s.n, <<>>)
  IN  IF s.i.err THEN Result(s.i, <<>>)
      ELSE Result([r.i EXCEPT !.err = @ \/ r.n # 0 \/ ~Fits(t, Len(r.v))], r.v)

\* The checks at the end are made whatever happened before.
ReadMap(i, t) ==
  LET s == ReadNumber(AlignIn(i), t.width, TRUE)
      r == IF s.i.err THEN [i |-> s.i, n |-> s.n, v |-> <<>>] ELSE ReadNext(s.i, t, s.n, <<>>)
  IN  Result([r.i EXCEPT !.err = @ \/ r.n # 0 \/ ~Fits(t, Len(r.v))], r.v)

\* What a longer struct of the sender has left is skipped.
ReadStruct(i, t) ==
  LET s    == ReadNumber(AlignIn(i), t.width, TRUE)
      r    == ReadNext(s.i, t, s.n, <<>>)
      used == s.i.rem - r.i.rem
  IN  IF s.i.err THEN Result(s.i, <<>>)
      ELSE Result(IF t.width # 0 /\ s.n > used THEN ReadRaw(r.i, s.n - used) ELSE r.i, r.v)

ReadPolymorphic(i, t) ==
  LET s   == ReadBits(AlignIn(i), 4, 32, FALSE)
      j   == [s.i EXCEPT !.err = s.failed]
      alt == NumberOf(s.v)
      r   == ReadNext(j, Fields(t.alts[alt]), 0, <<>>)
  IN  IF j.err THEN Result(j, [alt |-> 0, val |-> <<>>]) ELSE Result(r.i, [alt |-> alt, val |-> r.v])

\* The length and the type of a variant, in the order of its deployment.
TypeAfter(n, t) ==
  LET m == ReadNumber(n.i, t.twidth, FALSE)
  IN  [i |-> m.i, alt |-> m.n, size |-> IF t.width = 0 THEN t.max ELSE n.n]

LengthAfter(n, t) ==
  LET m == ReadNumber(n.i, t.width, TRUE)
  IN  [i |-> m.i, alt |-> n.n, size |-> IF t.width = 0 THEN t.max ELSE m.n]

VariantHead(i, t) ==
  IF t.order THEN TypeAfter(ReadNumber(i, t.width, TRUE), t)
  ELSE LengthAfter(ReadNumber(i, t.twidth, FALSE), t)

\* A type that the variant does not know is not read.
Alternative(h, t) ==
  IF h.alt \in DOMAIN t.alts THEN Read(h.i, t.alts[h.alt]) ELSE Result(h.i, <<>>)

\* It is skipped, with the padding.
SkipPadding(r, alt, left) ==
  Result(IF left < 0 THEN Fail(r.i) ELSE IF r.i.err THEN r.i ELSE ReadRaw(r.i, left),
         [alt |-> alt, val |-> r.v])

ContentAfter(h, r) == SkipPadding(r, h.alt, h.size - (h.i.rem - r.i.rem))

AfterHead(h, t) ==
  IF h.i.err \/ h.alt = 0 THEN Result(Fail(h.i), [alt |-> 0, val |-> <<>>])
  ELSE ContentAfter(h, Alternative(h, t))

ReadVariant(i, t) == AfterHead(VariantHead(AlignIn(i), t), t)

ReadOverload(i, t) ==
  CASE t.k = "bool"    -> ReadBool(i)
    [] t.k = "int"     -> ReadInt(i, t)
    [] t.k = "float"   -> ReadFloat(i, t)
    [] t.k = "ranged"  -> ReadRanged(i, t)
    [] t.k = "enum"    -> ReadEnum(i, t)
    [] t.k = "version" -> ReadVersion(i)
    [] t.k = "string"  -> ReadString(i, t)
    [] t.k = "buffer"  -> ReadByteBuffer(i, t)
    [] t.k = "bytes"   -> ReadByteArray(i, t)
    [] t.k = "array"   -> ReadArray(i, t)
    [] t.k = "map"     -> ReadMap(i, t)
    [] t.k = "struct"  -> ReadStruct(i, t)
    [] t.k = "poly"    -> ReadPolymorphic(i, t)
    [] t.k = "variant" -> ReadVariant(i, t)

=============================================================================
