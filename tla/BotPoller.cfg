SPECIFICATION PollSpec
CONSTANTS
  MaxUpdates = 3
  MaxLives = 2
  MaxSaves = 2
INVARIANTS
  OnceInOrder
  NothingForgotten
  SettingsTakeEffect
CHECK_DEADLOCK FALSE
