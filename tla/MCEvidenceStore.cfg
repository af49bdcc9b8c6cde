SPECIFICATION Spec
CONSTANTS
  Image = {i1, i2}
  Note = {none, n1}
  NoNote = none
  MaxCaptures = 2
  MaxJournal = 6
  MaxBundle = 24
  ImageBytes = 5
  EntryBytes = 2
  LineBytes = 1
  i1 = i1
  i2 = i2
  none = none
  n1 = n1
SYMMETRY Symmetry
CHECK_DEADLOCK FALSE
INVARIANTS
  TypeOK
  EvidenceBacked
  ListedIsJournalled
  JournalRecovers
  AckedSurvives
  BundleBounded
PROPERTY ImplementsLog
