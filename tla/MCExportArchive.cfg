SPECIFICATION Spec
CONSTANTS
  CapturePath <- CapturePaths
  TarBlock = 2
  MaxArchiveBytes = 26
  MaxCaptureCount = 2
  ImageBytes = {2, 3}
  Note = {none, noted}
  MaxDamage = 2
CHECK_DEADLOCK FALSE
INVARIANTS
  TypeOK
  ExportSucceeds
  ArchiveWhole
  DamageDetected
  ExtractsWhole
