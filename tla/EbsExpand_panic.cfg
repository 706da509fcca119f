SPECIFICATION Spec
CONSTANTS
  Handler = {h1}
  Request = {21}
  InitialSize = 10
  GB = 2
  None = None
  MaxFaults = 0
  MaxTimeouts = 0
  MaxRestarts = 0
INVARIANTS NoPanic
