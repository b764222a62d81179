CONSTANTS
    t1 = t1
    h1 = h1
    h2 = h2
    Topics <- OneTopic
    Handlers <- TwoHandlers
    TopicOf <- OfOneTopic
    MaxLinks = 2
    MaxUnsubscribes = 1
    MaxMessages = 2
SPECIFICATION Spec
INVARIANTS
    HeardWhileSessionLasts
    UnsubscribedIsSilent
PROPERTIES
    LinkHeardInOrder
CHECK_DEADLOCK FALSE
