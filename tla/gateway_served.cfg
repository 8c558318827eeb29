SPECIFICATION FairSpec
CONSTANTS
  OtherNodes = {}
  Wrap = 4
PROPERTIES
  PhoneServed
