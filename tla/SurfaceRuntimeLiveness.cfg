SPECIFICATION FairSpec
CONSTANTS
  Worker = {w1, w2, w3}
  OpId = {a, b, c}
  GenerationLimit = 100
  MaxLeases = 3
  MaxBoots = 1
  Image = {i1}
  Note = {none, noted}
  NoNote = none
  MaxCaptures = 2
  Request <- CaptureRequests
  NoRequest = noRequest
  NoImage = noImage
  MaxClients = 2
  MaxRequests = 3
  a = a
  b = b
  c = c
  noted = noted
  none = none
  noRequest = noRequest
  noImage = noImage
  w1 = w1
  w2 = w2
  w3 = w3
  i1 = i1
CHECK_DEADLOCK FALSE
PROPERTIES
  FlightFreed
  EveryRequestAnswered
