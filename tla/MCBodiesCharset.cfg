\* A response whose charset parameter is not written in lower case.
SPECIFICATION AllSpec
CONSTANTS
  chunk1 = chunk1  chunk2 = chunk2  next1 = next1  rest1 = rest1  unknown1 = unknown1
  text1 = text1  codec1 = codec1  codec2 = codec2
  json1 = json1  json2 = json2  json3 = json3  None = None
  Reads = {chunk1, chunk2, next1, rest1, unknown1}
  Method <- MCMethod
  Length = 2
  Async = TRUE
  MaxPulls = 5
  Calls = {text1, codec1, codec2, json1, json2, json3}
  Accessor <- MCAccessor
  Responses <- MCCapital
  Considered = {"buffer"}
CHECK_DEADLOCK FALSE
INVARIANT DeclaredCharsetDecides
