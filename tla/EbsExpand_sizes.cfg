SPECIFICATION FairSpec
CONSTANTS
  Handler = {h1, h2}
  Request = {17, 21, 24}
  InitialSize = 10
  GB = 2
  None = None
  MaxFaults = 2
  MaxTimeouts = 1
  MaxRestarts = 1
INVARIANTS TypeOK PromisedIsThere GrownWithinTenth
PROPERTIES Expanded
