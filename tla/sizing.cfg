\* Settings that change between the deliveries of an order, and a poison message.
CONSTANTS
  Events = {1, 2, 3}
  MaxDeliver = 2
  Poison = {3}
  NoEvent = NoEvent
  NoResult = NoResult
  MaxRestarts = 1
  Original <- SmallAndLarge
  Fine = 4
  Configs <- SomeConfigs
SPECIFICATION Spec
CHECK_DEADLOCK FALSE
INVARIANTS TypeOK SizesFit
PROPERTY ImplementsStage
