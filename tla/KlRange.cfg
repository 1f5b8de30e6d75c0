SPECIFICATION KlSpec
CONSTANTS
  Floor = 4
  Ceil = 128
  Gain = 2
  Dwell = 3
  ReleasePatience = 3
  Configured = {1, 2, 4, 24, 80, 128, 200}
  NoCoefficient = NoCoefficient
INVARIANTS
  RaisedIsClamped
