SPECIFICATION Spec
CHECK_DEADLOCK FALSE
CONSTANTS
  Names = {ha, cam}
  Keys = {k1, k2}
  DefaultName = ha
  DefaultKey = k1
  Unset = Unset
  NoPrefs = NoPrefs
  Versions = {1, 2}
  LoadMayFail = TRUE
  SaveMayFail = TRUE
INVARIANTS TypeOK OwnFormat KeptOnDisk
PROPERTY BeginRestores
