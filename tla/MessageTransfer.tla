--------------------------- MODULE MessageTransfer ---------------------------
(***************************************************************************)
(* The arguments of one message on their way from the sender to the        *)
(* receiver: serialized one after the other, flushed into the payload,     *)
(* delivered whole or, by a peer that sends less, in part, and             *)
(* deserialized one after the other.                                       *)
(***************************************************************************)
EXTENDS Containers

CONSTANTS
  Arguments,       \* a sequence of records: the sender's "type", the receiver's type "reads",
                   \* the "value" sent and the one "meant" for the receiver
  MaxArguments     \* arguments per message

VARIABLES phase, args, out, body, in, got

vars == <<phase, args, out, body, in, got>>

Init ==
  /\ phase = "serializing" /\ args = <<>> /\ got = <<>> /\ body = <<>>
  /\ out \in {NewOutput(le) : le \in BOOLEAN}
  /\ in = NewInput(<<>>, TRUE)

\* SerializableArguments::serialize, one argument; an error ends the call with
\* SERIALIZATION_ERROR and nothing is sent.
Serialize(a) ==
  /\ phase = "serializing" /\ Len(args) < MaxArguments
  /\ args' = Append(args, a)
  /\ out' = Write(out, Arguments[a].type, Arguments[a].value)
  /\ phase' = IF out'.err THEN "rejected" ELSE phase
  /\ UNCHANGED <<body, in, got>>

\* OutputStream::flush and sending.
Flush ==
  /\ phase = "serializing" /\ args # <<>>
  /\ body' = FlushedBits(out)
  /\ phase' = "sent"
  /\ UNCHANGED <<args, out, in, got>>

\* The receiver makes an InputStream from the message.
Deliver ==
  /\ phase = "sent"
  /\ \E n \in 0 .. Len(body) \div 8 : in' = NewInput(SubSeq(body, 1, 8 * n), out.le)
  /\ phase' = "deserializing"
  /\ UNCHANGED <<args, out, body, got>>

\* SerializableArguments::deserialize, one argument.
Deserialize ==
  /\ phase = "deserializing"
  /\ LET r == Read(in, Arguments[args[Len(got) + 1]].reads)
     IN  /\ in' = r.i
         /\ got' = IF r.i.err THEN got ELSE Append(got, r.v)
         /\ phase' = IF r.i.stray # "no" THEN "stray"
                     ELSE IF r.i.err THEN "failed"
                     ELSE IF Len(got) + 1 = Len(args) THEN "delivered" ELSE phase
  /\ UNCHANGED <<args, out, body>>

Next == (\E a \in DOMAIN Arguments : Serialize(a)) \/ Flush \/ Deliver \/ Deserialize

Spec == Init /\ [][Next]_vars

-----------------------------------------------------------------------------
Whole == in.body = body

NumberKinds == {"int", "ranged", "enum"}

\* The bytes in memory of a number that goes through _writeBitValue.
Width(t) == IF t.k = "enum" THEN EnumSize(t) ELSE t.size

\* The values that the byte orders of _writeBitValue and _readBitValue are not made
\* for.  A little-endian stream is given the empty end of a value that is at least a
\* byte narrower than its type, and of every bool; a big-endian one is given the whole
\* bytes of the high end first, and is read from there.
Misplaced(t, le) ==
  \/ t.k = "bool" /\ le
  \/ /\ t.k \in NumberKinds /\ Width(t) > 1 /\ t.bits < 8 * Width(t)
     /\ le => t.bits + 8 <= 8 * Width(t)

Conveyed(k) ==
  \/ got[k] = Arguments[args[k]].meant
  \/ Misplaced(Arguments[args[k]].type, out.le)

\* What a sender could serialize arrives: a receiver of the whole body reads
\* every argument without an error, as it was meant for its version of the
\* type, and ends where the sender ended (deployments, length fields, byte
\* order and string encodings of both streams agree); only the value of an
\* argument that is narrower than its type may be lost.
RoundTrip ==
  Whole /\ phase \in {"failed", "stray", "delivered"} =>
    /\ phase = "delivered" /\ AlignIn(in).rem = 0
    /\ \A k \in DOMAIN args : Conveyed(k)

\* "Implemented correct sending/receiving of boolean values." (CHANGES, v3.2.3): a bool
\* arrives as it was sent.
BooleansArrive ==
  Whole /\ phase = "delivered" =>
    \A k \in DOMAIN args : Arguments[args[k]].type.k = "bool" => got[k] = Arguments[args[k]].meant

\* Types that are read by steps of which each looks at the error of the one
\* before; the fields of structs and the two numbers of a variant are not.
Guarded(t) ==
  \/ t.k \in {"bool", "int", "ranged", "enum", "string", "buffer", "bytes"}
  \/ t.k = "array" /\ t.elem.k = "int"
  \/ t.k = "map" /\ t.key.k = "int" /\ t.val.k = "int"

\* Of a body that is too short, the arguments of guarded types that are
\* reported as read are those that were sent, as long as no field was read on
\* behind its end.
NothingInvented ==
  phase # "stray" => \A k \in DOMAIN got :
    Guarded(Arguments[args[k]].reads) /\ (\A n \in 1 .. k - 1 : got[n] = Arguments[args[n]].meant) =>
      Conveyed(k)

\* A type with a field that ends inside a byte, so that the next one starts there.
EndsInByte(t) ==
  \E u \in {t} \cup IF t.k = "struct" THEN {t.fields[n] : n \in DOMAIN t.fields} ELSE {} :
    u.k \in NumberKinds /\ u.bits % 8 # 0

\* No loop runs for ever, and no read uses bits behind the end of the body but
\* that of a field that starts inside the last byte of a body that was cut off:
\* _readBitValue counts the bytes of a field from the one it starts in.
StaysInBody ==
  phase = "stray" =>
    /\ in.stray = "crossed" /\ ~Whole
    /\ \E k \in DOMAIN args : k <= Len(got) + 1 /\ EndsInByte(Arguments[args[k]].reads)

=============================================================================
