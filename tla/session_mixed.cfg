CONSTANTS
  Message <- MixedMessages
  Garbled <- GarbledHeads
  MinChunk = 80
  MaxFrames = 2
SPECIFICATION Spec
INVARIANTS FrameInv OneReplyPerCommand
