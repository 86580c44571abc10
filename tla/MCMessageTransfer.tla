-------------------------- MODULE MCMessageTransfer --------------------------
EXTENDS MessageTransfer

\* The recursion that Containers leaves open.  TLC's coverage does not follow a
\* constant operator into a LET, and so not round the recursion.
S == INSTANCE Streams

StreamWrite(o, t, v) == LET result == S!WriteValue(o, t, v) IN result
StreamWriteNext(o, t, v, n) == LET result == S!WriteParts(o, t, v, n) IN result
StreamRead(i, t) == LET result == S!ReadValue(i, t) IN result
StreamReadNext(i, t, size, acc) == LET result == S!ReadParts(i, t, size, acc) IN result

\* Types, with the defaults that a null deployment stands for.
UInt(n) == [k |-> "int", size |-> n, bits |-> 8 * n, signed |-> FALSE, inv |-> NoInvalid]
SInt(n) == [UInt(n) EXCEPT !.signed = TRUE]
Bits(n, b, s) == [k |-> "int", size |-> n, bits |-> b, signed |-> s, inv |-> NoInvalid]
Bool == [k |-> "bool"]
Float(n) == [k |-> "float", size |-> n]
Ranged(r) == [k |-> "ranged", size |-> 4, bits |-> 32, signed |-> TRUE, inv |-> NoInvalid, range |-> r]
Enum(n, b) == [k |-> "enum", size |-> n, bits |-> b, signed |-> FALSE, inv |-> NoInvalid]
Version == [k |-> "version"]
Text(enc, width, len) == [k |-> "string", enc |-> enc, width |-> width, len |-> len]
Buffer(width, min, max) == [k |-> "buffer", width |-> width, min |-> min, max |-> max]
Bytes(width, min, max) == [k |-> "bytes", width |-> width, min |-> min, max |-> max]
Array(t, width, min, max) == [k |-> "array", elem |-> t, width |-> width, min |-> min, max |-> max]
Map(key, val, width) == [k |-> "map", key |-> key, val |-> val, width |-> width, min |-> 0, max |-> Huge]
Struct(fields, width) == [k |-> "struct", fields |-> fields, width |-> width]
Poly(alts) == [k |-> "poly", alts |-> alts]
Variant(alts, width, twidth, order, max) ==
  [k |-> "variant", alts |-> alts, width |-> width, twidth |-> twidth, order |-> order, max |-> max]

N(n, size) == NumberBits(n, size)
Same(t, v) == [type |-> t, reads |-> t, value |-> v, meant |-> v]

Byte(n) == N(n, 1)
Word(n) == N(n, 2)
Latin == <<65, 195, 169>>                                \* "A", U+00E9
Symbols == <<226, 130, 172, 240, 144, 141, 136>>         \* U+20AC, U+10348

Pair == Struct(<<UInt(1), UInt(2)>>, 0)

MCArguments ==
  << Same(UInt(1), Byte(200)), Same(SInt(2), Word(40000)), Same(Struct(<<Float(4), UInt(1)>>, 0), <<N(70000, 4), Byte(3)>>),
    Same(Struct(<<Bits(1, 4, FALSE), Bits(1, 4, TRUE)>>, 1), <<Byte(9), Copies(1, 8)>>),
    Same(Struct(<<Bits(1, 4, FALSE), UInt(1), Text("UTF8", 1, 0)>>, 0), <<Byte(9), Byte(200), Latin>>),
    Same(Bool, <<1>>), Same(Bits(2, 8, FALSE), Word(5)), Same(Bits(2, 12, FALSE), Word(858)),
    Same(Ranged({N(1, 4), N(2, 4)}), N(2, 4)), Same(Ranged({N(1, 4), N(2, 4)}), N(3, 4)),
    Same(Enum(4, 16), N(515, 4)), Same(Version, <<N(1, 4), N(2, 4)>>),
    Same(Text("UTF8", 4, 0), Latin), Same(Text("UTF16LE", 1, 0), Symbols),
    Same(Text("UTF16BE", 2, 0), Symbols), Same(Text("UTF16BE", 0, 8), Latin),
    Same(Buffer(1, 0, 0), <<Byte(1), Byte(2)>>), Same(Bytes(2, 1, 2), <<Byte(3)>>),
    Same(Bytes(1, 0, 0), Copies(Byte(7), 256)),
    Same(Array(UInt(2), 1, 0, 0), <<>>),
    Same(Array(SInt(2), 1, 0, 0), <<Word(1), Word(2)>>), Same(Array(Pair, 0, 0, 1), << <<Byte(1), Word(2)>> >>),
    Same(Map(UInt(1), UInt(2), 4), << <<Byte(1), Word(5)>>, <<Byte(2), Word(6)>> >>),
    Same(Struct(<<Text("UTF8", 1, 0), UInt(1)>>, 2), <<Latin, Byte(4)>>),
    Same(Variant(<<UInt(1), UInt(2)>>, 1, 1, TRUE, 0), [alt |-> 2, val |-> Word(3)]),
    Same(Poly(<< <<UInt(1)>>, <<UInt(1), UInt(1)>> >>), [alt |-> 2, val |-> <<Byte(1), Byte(2)>>]),
    [type |-> Struct(<<UInt(1), UInt(2)>>, 1), reads |-> Struct(<<UInt(1)>>, 1),
     value |-> <<Byte(1), Word(2)>>, meant |-> <<Byte(1)>>],
    [type |-> Variant(<<UInt(1), UInt(2)>>, 2, 1, FALSE, 0), reads |-> Variant(<<UInt(1)>>, 2, 1, FALSE, 0),
     value |-> [alt |-> 2, val |-> Word(3)], meant |-> [alt |-> 2, val |-> <<>>]]
  >>

MCBooleans == << Same(Bool, <<0>>), Same(Bool, <<1>>) >>

=============================================================================
