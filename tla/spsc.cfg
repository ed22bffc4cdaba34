CONSTANTS
  Capacity = 4
  N = 12
SPECIFICATION FairSpec
INVARIANTS TypeOK RaceFree InOrder AnswersLast
PROPERTIES ImplementsFifo AllDelivered
