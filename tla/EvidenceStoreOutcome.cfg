SPECIFICATION Spec
CONSTANTS
  Image = {i1}
  Note = {none, n1}
  NoNote = none
  MaxCaptures = 2
  MaxJournal = 6
  MaxBundle = 40
  ImageBytes = 5
  EntryBytes = 2
  LineBytes = 1
  i1 = i1
  none = none
  n1 = n1
CHECK_DEADLOCK FALSE
INVARIANT OutcomeRecorded
