SPECIFICATION MCSpec
CONSTANTS
  Senders <- MCSenders
  Receivers <- MCReceivers
  Dest <- TwoPairs
  Fragments <- PairsFragments
  MaxAttempts = 2
  InboxCap = 2
  Rounds = 3
  SendAttempts = 2
  Patience = 1
  RadioCap = 2
INVARIANTS
  TransfersAreWhole
  AnswersInStep
\* senders run out of messages, and listenings in vain are bounded
CHECK_DEADLOCK FALSE
