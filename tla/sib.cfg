CONSTANT Messages <- MCMessages
SPECIFICATION FairSpec
INVARIANTS TypeOK ArraysInRange Sib2ReadsHead
PROPERTIES OnlySib2GoesBack EachReadCounts DecodeEnds
CHECK_DEADLOCK FALSE
