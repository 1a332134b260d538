CONSTANTS
  CharValues = 4
  BuiltInAt <- MCBuiltInAt
  Files <- MCFiles
  Targets <- MCTargets
  Numbers <- MCNumbers
  Texts <- MCTexts
  Samples = {0, 1, 7, 8, 15}
  NoRegister = NoRegister
SPECIFICATION Spec
INVARIANT TypeOK WriteIsOverlay TextWriteIsOverlay ReadsDefined AcceptedFileImported
CHECK_DEADLOCK FALSE
