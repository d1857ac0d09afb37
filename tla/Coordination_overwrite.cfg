\* Two processes send a message with the same subject.
SPECIFICATION Spec
CONSTANTS
  Procs = {p1, p2}
  Senders = {p1, p2}
  Consumers = {p1, p2}
  Messages = {1, 2}
  Handoffs = {1}
  Identities = {i1, i2}
  Producer = i1
  NoOne = nobody
  Ids <- MCIds
  MaxStamp = 2
PROPERTY NotSilentlyOverwritten
CHECK_DEADLOCK FALSE
