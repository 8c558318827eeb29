SPECIFICATION FairSpec
CONSTANTS
  OtherNodes = {9}
  Wrap = 10
INVARIANTS
  TypeOK
  PortsBounded
PROPERTIES
  ReaderEnds
  ListensWhileServing
