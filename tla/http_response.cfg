\* Responses in pieces of any size: a header that ends at the end of the buffer, and chunk sizes at the limit of an offset.
SPECIFICATION Spec
CONSTANTS
  MaxOff = 255
  LcLen = 4
  InSize = 29
  Messages <- MCMessages
INVARIANTS
  AsksNoMore
PROPERTIES
  Delivers
\* A response that was read is the end.
CHECK_DEADLOCK FALSE
