SPECIFICATION Spec
CONSTANTS
  Options <- MCOptions
  Plugins = {"mpress", "upx"}
INVARIANTS
  ExitCodeIsTruthful
  InputIsComplete
  FinishedFilesRemoved
PROPERTY
  TimeoutEnds
