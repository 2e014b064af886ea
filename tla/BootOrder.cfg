\* As MCBoot.cfg, with the one property the scripts do not keep.
CONSTANTS
  Topic <- BootTopic
  Sub <- BootSub
  Pub <- BootTask
  TopicOf <- BootTopicOf
  PubTopics <- BootPubTopics
  MaxSubscribers = 4
  MaxMsgs = 0
  MaxInit = 12
SPECIFICATION BootSpec
INVARIANT
  WaitsSuffice
