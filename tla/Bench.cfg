SPECIFICATION SpecPart
CONSTANTS
  Gates = {g1}
  g1 = g1
  Top = 2
  MaxTrouble = 1
  MaxCommands = 2
  MaxStops = 1
  MaxEdits = 1
  MaxRuns = 1
  MaxOps = 1
  Highest = 3
  Clamp <- MCClamp
  MaxRamps = 2
  MaxMishaps = 2
  Boundary <- MCBoundary
  MaxField = 2
  Envelope = 1
  MaxRate = 3
  Scenes <- MCScenes
  MaxTargets = 2
INVARIANTS Owned SourcesSound SetupSound PlansSound
PROPERTIES CloseVerified
