SPECIFICATION InstallSpec
CONSTANTS
  PluginFiles = {"own", "other", "module"}
  Descriptors = {"own", "other"}
  Own = "own"
  Versions = {1, 2, 3}
  Contents <- MCContents
INVARIANTS EditorFailureRestores ACopySurvives PlacedIsWhole CliPlacesAtOnce
