SPECIFICATION FairSpec
CONSTANTS
  Daemon = {d1, d2}
  Managed = {d2}
  MaxStarts = 4
  Client = {c1}
  CommandLine <- Lines
  NoLine = noLine
CHECK_DEADLOCK FALSE
INVARIANTS
  TypeOK
  AloneIsReached
  AnswersDecisive
  OneCapturePerCommand
  AdapterNeedsConsent
PROPERTIES
  EveryCommandEnds
