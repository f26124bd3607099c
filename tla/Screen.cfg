SPECIFICATION Spec
CONSTANTS
  CONSOLE_COL = 4
  CONSOLE_LIG = 2
  Tab = 2
  ClockCol = 1
  ClockLen = 1
  CLOCKFREQ = 1
  Sixty = 60
  Texts = {97, 8, 9, 10, 12, 13}
  MaxRows = 4
  MaxTicks = 1
  Mice <- MCMice
  Devices = {"none", "plain", "wheel", "five", "keyboard", "unknown"}
  Faults = {"none", "controller", "port", "device"}
  FastController = TRUE
CHECK_DEADLOCK FALSE
INVARIANT ScreenShown
PROPERTIES PointerFollows MouseReady
