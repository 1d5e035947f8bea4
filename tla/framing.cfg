\* Three messages in chunks of up to four bytes: shorter than a message, longer
\* than one, across two.
CONSTANTS
  Texts <- MCTexts
  Gaps <- MCGaps
  MaxSent = 3
  MaxChunk = 4
SPECIFICATION Spec
INVARIANTS
  WholeMessages
PROPERTIES
  ByteFramerSpec
CHECK_DEADLOCK FALSE
