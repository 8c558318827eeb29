CONSTANTS
  Message <- GoodMessages
  Garbled <- GarbledHeads
  MinChunk = 11
  MaxFrames = 2
SPECIFICATION FairSpec
INVARIANTS TypeOK FramesServedInOrder OneReplyPerCommand
PROPERTIES EveryFrameServed ExitAfterHangup TurnsToExit ImplementsService
