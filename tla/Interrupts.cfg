CONSTANTS
  d1 = d1
  d2 = d2
  d3 = d3
  Devices = {d1, d2, d3}
  DeviceId <- MCDeviceId
  ItsId <- MCItsId
  HasMsix <- MCHasMsix
  Lpis = {8192, 8193}
  Slots = 16
  Width = 100
  WAIT_ITS_COMMAND_DONE = 2
  Handover = TRUE
  IntIds = {1, 27, 40, 64, 1056, 4096}
  Isrs = {"isr"}
  MaxRaises = 2
  XLEN = 6
  IregBits = 3
  MaxId = 7
  Timeout = 2
  Word = 8
SPECIFICATION Spec
INVARIANTS RequestedMsiArrives FreedMsiIsSilent   
PROPERTIES HandlerRuns WakeupEnds
CHECK_DEADLOCK FALSE
