SPECIFICATION Spec
CONSTANTS
  Scripts = {s1, s2}
  Contents = {c1, c2}
  FirstContent = c1
  Helpers = {h1}
  BuildCodes = {success, failure}
  Success = success
  MaxBuilds = 2
  MaxStarts = 2
  MaxRecompiles = 1
INVARIANT TraceExists
CHECK_DEADLOCK FALSE
