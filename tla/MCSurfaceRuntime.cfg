SPECIFICATION Spec
CONSTANTS
  Worker = {w1, w2, w3}
  OpId = {a, b, c}
  GenerationLimit = 100
  MaxLeases = 4
  MaxBoots = 1
  Image = {i1, i2}
  Note = {none, noted}
  NoNote = none
  MaxCaptures = 2
  Request <- Requests
  NoRequest = noRequest
  NoImage = noImage
  MaxClients = 2
  MaxRequests = 4
  a = a
  b = b
  c = c
  noted = noted
  none = none
  noRequest = noRequest
  noImage = noImage
  w1 = w1
  w2 = w2
  w3 = w3
  i1 = i1
  i2 = i2
SYMMETRY Symmetry
CHECK_DEADLOCK FALSE
INVARIANTS
  TypeOK
  ClientsCounted
  EvidenceStays
  AnswersHonest
  EarlyCancelHonoured
PROPERTIES
  ImplementsSession
  ExportsCurrent
