SPECIFICATION FairSpec
CONSTANTS
  r1 = r1
  r2 = r2
  c1 = c1
  c2 = c2
  NoClient = NoClient
  Readers = {r1, r2}
  Clients = {c1, c2}
  Controls = {"enable"}
  MaxRegister = 2
  MayReset = TRUE
INVARIANTS
  NoSleepThroughEvent
  ReadReturnsEvent
  CalledAsRegistered
  EnableIsAsAsked
PROPERTIES
  EventIsTaken
