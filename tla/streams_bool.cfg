SPECIFICATION Spec
CONSTANTS
  Arguments <- MCBooleans
  MaxArguments = 2
  Write <- StreamWrite
  WriteNext <- StreamWriteNext
  Read <- StreamRead
  ReadNext <- StreamReadNext
INVARIANT BooleansArrive
CHECK_DEADLOCK FALSE
