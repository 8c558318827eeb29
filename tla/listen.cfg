CONSTANTS
  Tries = 2
  MaxFds = 5
SPECIFICATION FairSpec
INVARIANTS TypeOK ChannelLostForGood
PROPERTIES CallerAnswered ListensAgain ImplementsLine
