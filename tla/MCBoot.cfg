\* Peripherals may take up to 1.2 s, longer than every delay of the scripts.
CONSTANTS
  Topic <- BootTopic
  Sub <- BootSub
  Pub <- BootTask
  TopicOf <- BootTopicOf
  PubTopics <- BootPubTopics
  MaxSubscribers = 4
  MaxMsgs = 0
  MaxInit = 12
SPECIFICATION BootSpec
INVARIANTS
  ControlsConnected
  QuickSensorsConnected
  ControllerNeverSeesStatus
