\* Edits of two names from three lanes overlap.
CONSTANTS
  None = None
  Ids = {"a", "b"}
  Models <- MCModels
  Engines <- MCEngines
  Runtimes <- MCRuntimes
  Settings <- MCSettings
  Compatible <- MCCompatible
  EngineOf <- MCEngineOf
  Serves <- MCServes
  Accepts <- MCAccepts
  Applies <- MCApplies
  Initial <- MCInitial
  MaxEdits = 3
SPECIFICATION Spec
INVARIANT PinFits
PROPERTY NoLostOverride
CHECK_DEADLOCK FALSE
