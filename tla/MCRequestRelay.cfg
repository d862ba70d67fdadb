SPECIFICATION Spec
CONSTANTS
    MaxTurns <- FourTurns
    MaxMixed <- TwoTurns
    MaxWished <- OneTurn
INVARIANTS
    SaidOnceInOrder
    LossesAreNoted
    AcceptableToTheTarget
    ResultsReachTheirCall
    SignaturesStayHome
    ChoiceHonouredOrNoted
CHECK_DEADLOCK FALSE
