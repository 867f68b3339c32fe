SPECIFICATION FairSpec
CONSTANTS
    StateTopics <- OneState
    ConfigTopics <- OneConfig
    CommandTopics <- OneCommand
    OutgoingDepth = 2
    QueueDepth = 1
    WireDepth = 1
    MaxVersion = 2
    MaxCommand = 2
PROPERTIES
    CommandsInOrder
    ReadCommandsAreExecuted
    BrokerConverges
