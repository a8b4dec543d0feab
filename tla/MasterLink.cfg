SPECIFICATION LinkSpec
CONSTANTS
  home = home
  spare = spare
  Urls = {home, spare}
  Https = {home}
  Home = home
  Spare = spare
  Modes = {"websocket", "auto"}
  Conditions <- FiveConditions
  MaxFailures = 2
  MaxErrors = 2
  MaxUpdates = 2
  None = None
INVARIANT
  NoLostWake
PROPERTIES
  Reconnects
  RecoveryReaches
