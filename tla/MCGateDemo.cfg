SPECIFICATION FairSpec
CONSTANTS
    North = North
    South = South
    Capacity <- SmallCapacity
    Amount = 2
    Drifts <- SmallDrifts
    MaxLoad = 8
INVARIANTS
    TypeOK
    OutstandingIsServed
    NeverBothBlocked
PROPERTIES
    NegotiationConservesPeople
    EveryRequestConcluded
