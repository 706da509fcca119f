CONSTANTS
  Handler = {h1, h2}
  MaxFaults = 2
  MaxTimeouts = 1
  MaxRestarts = 1
SPECIFICATION FairSpec
INVARIANTS TypeOK PublishedIsMounted DoneIsUnmounted SubPathCreated
PROPERTIES Published Unpublished
