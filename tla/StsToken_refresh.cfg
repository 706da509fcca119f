\* The code's five and thirty minutes; a token lives a little
\* less or little longer than the window, so that the first round may renew it
\* and later ones renew it over and over.
CONSTANTS
  Period = 5
  Window = 30
  Fetch = 1
  MinLife = 26
  MaxLife = 38
  MaxFailures = 3
  Replies = {"role", "error"}
SPECIFICATION Spec
INVARIANTS TypeOK ClientsUsable ClientsHoldToken
