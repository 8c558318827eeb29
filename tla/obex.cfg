CONSTANTS MaxRequests = 3 MaxOpens = 3 MaxAsked = 1
SPECIFICATION FairSpec
INVARIANTS TypeOK HandshakeSound StreamsItsFile
PROPERTIES OwnAnswer EndsOnItsFile WaitEnds
CHECK_DEADLOCK FALSE
