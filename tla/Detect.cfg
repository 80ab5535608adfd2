CONSTANTS
  Levels <- MCLevels
  ArraySize = 3
  Sizes <- MCSizes
  Outliers <- MCOutliers
  Modulus = 8
SPECIFICATION Spec
INVARIANTS
  StatusOfRecentSamples
