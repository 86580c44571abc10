SPECIFICATION Spec
CONSTANTS
  Arguments <- MCArguments
  MaxArguments = 2
  Write <- StreamWrite
  WriteNext <- StreamWriteNext
  Read <- StreamRead
  ReadNext <- StreamReadNext
INVARIANTS RoundTrip StaysInBody NothingInvented
CHECK_DEADLOCK FALSE
