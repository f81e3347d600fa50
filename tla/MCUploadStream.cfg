SPECIFICATION MCSpec
CONSTANTS
  uploadFilePart = part
  Request = {r1, r2, part}
  Texts <- MCTexts
  Sizes <- MCSizes
  Chunks <- MCChunks
  Foreign <- MCForeign
  MaxHeld = 1
  MaxUnknown = 2
  Streams <- MCStreams
  Default = default
SYMMETRY Symmetry
INVARIANTS
  OwnedOnce
  ArrivesAsSent
  ParsingMerges
  HandledInOrder
PROPERTY NoAliasing
CHECK_DEADLOCK FALSE
