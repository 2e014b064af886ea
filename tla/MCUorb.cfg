\* Two messages per topic are enough for one publication to overtake another.
CONSTANTS
  Topic <- MCTopic
  Sub <- MCSub
  Pub <- MCPub
  TopicOf <- MCTopicOf
  PubTopics <- MCPubTopics
  MaxSubscribers = 2
  MaxMsgs = 2
SPECIFICATION FairSpec
INVARIANTS
  TypeOK
  NoLostUpdate
PROPERTIES
  CopyMovesForward
  ImplementsRegister
  EveryMessageArrives
