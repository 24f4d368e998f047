SPECIFICATION MCSpec
CONSTANTS
  App = {desktop, game}
  NoApp = none
  MaxLate = 2
  Device = {d1, d2, d3}
  Slots = 2
  State <- States
  Neutral <- Resting
  Absent = Absent
  SwapAB <- Exchanged
INVARIANTS PinProven SentIsRemote OnePlayerEach ToldFaithfully
PROPERTIES SuccessIsTrue LostLaunchResumed PairingRecovers NoHandover Converges
