\* Two processes, two message ids, one handoff, four receipts.
SPECIFICATION Spec
CONSTANTS
  Procs = {p1, p2}
  Senders = {p1, p2}
  Consumers = {p1, p2}
  Messages = {1, 2}
  Handoffs = {1}
  Identities = {i1, i2}
  Producer = i1
  NoOne = nobody
  Ids <- MCIds
  MaxStamp = 4
SYMMETRY ProcSymm
INVARIANTS
  TypeOK
  BrokenOnlyByRace
  Grounded
  MessagesReceipted
  AssignmentReceipted
  AssignmentsAgree
PROPERTIES
  AuditSpec
  ReplacedShows
CHECK_DEADLOCK FALSE
