SPECIFICATION MCSpec
CONSTANTS
  m1 = m1
  m2 = m2
  m3 = m3
  Modules <- MCModules
PROPERTIES
  UnusedIffUnreferenced
