SPECIFICATION Spec
CONSTANTS
  OtherNodes = {}
  Wrap = 4
PROPERTIES
  ListensOnFreeNode
