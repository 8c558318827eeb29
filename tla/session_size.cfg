CONSTANTS
  Message <- MixedMessages
  Garbled <- GarbledHeads
  MinChunk = 11
  MaxFrames = 2
SPECIFICATION Spec
INVARIANTS AnnouncedSize
