CONSTANTS
    v1 = v1
    p1 = p1
    r1 = r1
    i1 = i1
    mqtt = mqtt
    redis = redis
    Nothing = Nothing
    Vars <- OneVar
    Publishers <- OnePublisher
    Requests <- OneRequest
    Ids <- OneId
    ChanCap = 1
    MaxChannels = 0
    MaxWrites = 1
    Unencodable <- NoValues
    Sources <- Both
    Rank <- InOrder
    Enabled <- OnlyMqtt
    Sparkplug <- OnlyMqtt
SPECIFICATION FairSystemSpec
INVARIANTS
    RequestsEndFirst
    StoppedIsDown
PROPERTIES
    StopReturns
CHECK_DEADLOCK FALSE
