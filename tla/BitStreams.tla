----------------------------- MODULE BitStreams -----------------------------
(***************************************************************************)
(* The lowest layer of OutputStream and InputStream: bits, raw bytes, the  *)
(* error flags and the marks of open length fields.                        *)
(*                                                                         *)
(* A value is the sequence of its bits in the host's memory (lowest byte   *)
(* first, lowest bit first, the host being little endian), so its width is *)
(* never lost, and a payload is the sequence of bits in the order in which *)
(* _writeBitValue fills it.  payload_, currentByte_ and currentBit_ are    *)
(* then one sequence: its whole bytes, and the rest.                       *)
(***************************************************************************)
EXTENDS Integers, Sequences

\* A number that no body reaches: the largest values of a 32-bit length field
\* are not told apart.
Huge == 2 ^ 20

Least(a, b) == IF a < b THEN a ELSE b

Copies(b, n) == [k \in 1 .. n |-> b]

\* The bytes of a value in the order of the stream: as in memory when the
\* stream is little endian, reversed otherwise.  Doing it twice undoes it.
Ordered(v, le) ==
  IF le THEN v
  ELSE [k \in 1 .. Len(v) |-> v[Len(v) - 7 - 8 * ((k - 1) \div 8) + ((k - 1) % 8)]]

NumberBits(n, width) ==
  [k \in 1 .. 8 * width |-> IF k > 20 THEN 0 ELSE (n \div 2 ^ (k - 1)) % 2]

NumberOf(v) ==
  LET upTo[k \in 0 .. 20] ==
        IF k = 0 THEN 0
        ELSE upTo[k - 1] + IF k <= Len(v) /\ v[k] = 1 THEN 2 ^ (k - 1) ELSE 0
  IN  IF \E k \in 21 .. Len(v) : v[k] = 1 THEN Huge ELSE upTo[20]

BytesOf(bits) == [k \in 1 .. Len(bits) \div 8 |-> NumberOf(SubSeq(bits, 8 * k - 7, 8 * k))]

BitsOf(bytes) ==
  [k \in 1 .. 8 * Len(bytes) |-> (bytes[(k - 1) \div 8 + 1] \div 2 ^ ((k - 1) % 8)) % 2]

\* The bits of a sequence of one-byte values.
Joined(v) == [k \in 1 .. 8 * Len(v) |-> v[(k - 1) \div 8 + 1][((k - 1) % 8) + 1]]

-----------------------------------------------------------------------------
\* OutputStream

NewOutput(le) == [bits |-> <<>>, err |-> FALSE, marks |-> <<>>, le |-> le]

\* payload_.size(): a byte that is not full yet does not count.
Position(o) == Len(o.bits) \div 8

AlignOut(o) == [o EXCEPT !.bits = @ \o Copies(0, (8 - (Len(@) % 8)) % 8)]

PushPosition(o) == [o EXCEPT !.marks = Append(@, Position(o))]

\* Every caller has aligned the stream.
WriteRaw(o, bits) == [o EXCEPT !.bits = @ \o bits]

\* The bytes the copy starts from are counted from the end of the value that
\* firstUsedByte names, whatever the byte order is.
SourceBits(v, bits, le) ==
  LET b     == Least(bits, Len(v))
      first == (Len(v) - b) \div 8
  IN  SubSeq(Ordered(v, le), 8 * first + 1, 8 * first + b)

WriteBits(o, v, bits, signed) ==
  IF Least(bits, Len(v)) < (IF signed THEN 2 ELSE 1)
    THEN [o EXCEPT !.err = TRUE]
    ELSE [o EXCEPT !.bits = @ \o SourceBits(v, bits, o.le)]

\* _writeValue: a length or a type of 1, 2 or 4 bytes; nothing for any other width.
WriteNumber(o, n, width) ==
  IF width \in {1, 2, 4}
    THEN WriteBits([o EXCEPT !.err = @ \/ n >= 2 ^ Least(8 * width, 20)],
                   NumberBits(n, width), 8 * width, FALSE)
    ELSE o

WriteNumberAt(o, n, width, position) ==
  LET from == 8 * position
      bits == Ordered(NumberBits(n, width), o.le)
      late == n >= 2 ^ Least(8 * width, 20)
  IN  IF width \notin {1, 2, 4} THEN o
      ELSE IF position + width > Position(o) THEN [o EXCEPT !.err = @ \/ late]
      ELSE [o EXCEPT !.err = @ \/ late,
                     !.bits = [k \in 1 .. Len(@) |->
                                 IF k \in from + 1 .. from + 8 * width THEN bits[k - from] ELSE @[k]]]

\* A length field is written as 0 between two marks and patched when the
\* content is complete.
OpenField(o, width) == PushPosition(WriteNumber(PushPosition(o), 0, width))

\* Mutant: the length field counts itself.
FieldLengthFromMark(o) == Position(o) - o.marks[Len(o.marks) - 1]

FieldLength(o) == Position(o) - o.marks[Len(o.marks)]

PopField(o) == [o EXCEPT !.marks = SubSeq(@, 1, Len(@) - 2)]

CloseField(o, width) ==
  PopField(WriteNumberAt(o, FieldLength(o), width, o.marks[Len(o.marks) - 1]))

\* The payload that flush hands to the message.
FlushedBits(o) == AlignOut(o).bits

-----------------------------------------------------------------------------
\* InputStream

\* "stray" is what the members do not show: "crossed" when a field that starts
\* in the body has been read on behind its end, "overrun" when one that starts
\* behind it has been read, "endless" when a loop makes no progress.
NewInput(body, le) ==
  [body |-> body, pos |-> 0, rem |-> Len(body) \div 8, err |-> FALSE, le |-> le, stray |-> "no"]

Fail(i) == [i EXCEPT !.err = TRUE]

AlignIn(i) ==
  IF i.pos % 8 = 0 THEN i
  ELSE [i EXCEPT !.pos = @ + 8 - (@ % 8), !.rem = IF @ = 0 THEN Huge ELSE @ - 1]

ReadRaw(i, n) ==
  [i EXCEPT !.err = @ \/ n > i.rem, !.rem = IF n >= @ THEN 0 ELSE @ - n, !.pos = @ + 8 * n]

RawBytes(i, n) == BytesOf(SubSeq(i.body, i.pos + 1, i.pos + 8 * n))

\* The bits read fill the value from its first byte in stream order.  A
\* negative value starts from ones; the rest of its last byte is extended only
\* when that byte is the last one of the type.
TargetBits(c, size, signed, le) ==
  LET b    == Len(c)
      n    == (b + 7) \div 8
      sign == IF signed /\ c[b] = 1 THEN 1 ELSE 0
  IN  Ordered(c \o Copies(IF n = size THEN sign ELSE 0, 8 * n - b) \o Copies(sign, 8 * (size - n)), le)

\* How a stream went astray whose next field ends behind the body: what comes
\* first counts.
StrayAfter(i) ==
  IF i.stray # "no" THEN i.stray
  ELSE IF i.pos < Len(i.body) THEN "crossed"
  ELSE "overrun"

\* Mutant: only the whole bytes of the field are looked for.
ReadBitsRoundedDown(i, size, bits, signed) ==
  LET b == Least(bits, 8 * size)
      j == [i EXCEPT !.pos = @ + b, !.rem = @ - ((i.pos % 8) + b) \div 8]
  IN  IF b = 0 \/ i.rem < b \div 8
        THEN [failed |-> TRUE, i |-> i, v |-> Copies(0, 8 * size)]
      ELSE IF j.pos > Len(i.body)
        THEN [failed |-> FALSE, i |-> [j EXCEPT !.stray = StrayAfter(i)], v |-> Copies(0, 8 * size)]
      ELSE [failed |-> FALSE, i |-> j,
            v |-> TargetBits(SubSeq(i.body, i.pos + 1, j.pos), size, signed, i.le)]

\* The bits of the next field, or a failure that leaves the stream alone.  The
\* guard counts the bytes that the field needs if it starts at a byte: one that
\* starts inside a byte may end behind the body.
ReadBits(i, size, bits, signed) ==
  LET b == Least(bits, 8 * size)
      j == [i EXCEPT !.pos = @ + b, !.rem = @ - ((i.pos % 8) + b) \div 8]
  IN  IF b = 0 \/ i.rem < (b + 7) \div 8
        THEN [failed |-> TRUE, i |-> i, v |-> Copies(0, 8 * size)]
      ELSE IF j.pos > Len(i.body)
        THEN [failed |-> FALSE, i |-> [j EXCEPT !.stray = StrayAfter(i)], v |-> Copies(0, 8 * size)]
      ELSE [failed |-> FALSE, i |-> j,
            v |-> TargetBits(SubSeq(i.body, i.pos + 1, j.pos), size, signed, i.le)]

\* readValue(uint32_t, width, permitZeroWidth): a length or a type.  The error
\* flag is overwritten, not added to, when the field has a width.
ReadNumber(i, width, permitZeroWidth) ==
  LET r == ReadBits(i, width, 8 * width, FALSE)
  IN  IF width = 0 THEN [i |-> [i EXCEPT !.err = @ \/ ~permitZeroWidth], n |-> 0]
      ELSE IF width \in {1, 2, 4}
        THEN [i |-> [r.i EXCEPT !.err = r.failed], n |-> NumberOf(r.v)]
      ELSE [i |-> Fail(i), n |-> 0]

=============================================================================
