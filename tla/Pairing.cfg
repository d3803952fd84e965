SPECIFICATION Spec
CONSTANTS
  Starts <- MCStarts
  Passkeys = {1}
  Typed = {1, 5}
  Rounds = 2
  SmCap = 2
  EventCap = 2
  MaxLinks = 2
  MaxFaults = 1
INVARIANTS LevelOfTheKey AuthIsEarned BothShareTheKey KeysLeaveWithTheLink WaitHasACause
CHECK_DEADLOCK FALSE
