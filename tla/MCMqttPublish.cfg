SPECIFICATION Spec
CONSTANTS
    StateTopics <- TwoStates
    ConfigTopics <- OneConfig
    CommandTopics <- TwoCommands
    OutgoingDepth = 4
    QueueDepth = 2
    WireDepth = 2
    MaxVersion = 4
    MaxCommand = 0
INVARIANTS
    TypeOK
    NewestStateOnItsWay
    ConfigsOnTheirWay
    NoSubscriptionLost
PROPERTIES
    RetainedNeverGoesBack
