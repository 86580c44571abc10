------------------------------- MODULE Streams -------------------------------
(***************************************************************************)
(* writeValue and readValue for every type: the overloads of BasicValues   *)
(* and Containers, in which the parts of a container are written and read  *)
(* by the same overloads.                                                  *)
(***************************************************************************)
RECURSIVE WriteValue(_, _, _)
RECURSIVE WriteParts(_, _, _, _)
RECURSIVE ReadValue(_, _)
RECURSIVE ReadParts(_, _, _, _)

INSTANCE Containers WITH
  Write <- WriteValue, WriteNext <- WriteParts, Read <- ReadValue, ReadNext <- ReadParts

WriteValue(o, t, v) == WriteOverload(o, t, v)

WriteParts(o, t, v, n) == WriteLoop(o, t, v, n)

ReadValue(i, t) == ReadOverload(i, t)

ReadParts(i, t, size, acc) == ReadLoop(i, t, size, acc)

=============================================================================
