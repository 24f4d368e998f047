SPECIFICATION MCSpec
CONSTANTS
  CaptureKey <- ZKey
  QuitKey <- QKey
  Key <- Keys
  PhysicalKey <- PhysicalKeys
  Left = left
  Button = {left, right}
  Finger = {f1, f2, f3}
  Contacts = 2
INVARIANTS HeldIsListed UncapturedIsReleased FingersApart HostFollowsKeys
PROPERTY UnlockSparesTheRest
CHECK_DEADLOCK FALSE
