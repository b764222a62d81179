CONSTANTS
    v1 = v1
    v2 = v2
    p1 = p1
    r1 = r1
    i1 = i1
    i2 = i2
    Nothing = Nothing
    Vars <- TwoVars
    Publishers <- OnePublisher
    Requests <- OneRequest
    Ids <- OneId
    ChanCap = 2
    MaxChannels = 2
    MaxWrites = 1
    Unencodable <- NotANumber
SPECIFICATION FairSpec
INVARIANTS
    MapIsOpenChannels
    AnswersAreFresh
PROPERTIES
    ShownInOrder
    SubscribersCatchUp
CHECK_DEADLOCK FALSE
