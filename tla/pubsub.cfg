SPECIFICATION PubSubSpec
CONSTANTS
  None = None  x1 = x1  x2 = x2  u1 = u1
  MaxSamples = 3
  Limit = 2
  Invalid = {2}
  Rejected = {3}
  Modes <- Configurations
  Receivers = {r1}
  Executors = {x1, x2}
  Users = {u1}
  Destroyers = {d1, d2}
  Droppable = TRUE
  Prompt = TRUE
  Readers = {s1}
  Keepalive = 1
  Messages = 2
  MayCrash = TRUE
  Size <- Lengths
  NoMetadata = NoMetadata
CHECK_DEADLOCK FALSE
INVARIANTS
  DrainScheduled
  InOrder
  NoLoanAtDeletion
PROPERTIES
  EveryLoanEnds
  
