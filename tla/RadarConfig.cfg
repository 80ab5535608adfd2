CONSTANTS
  Routers = {r1, r2}
  Servers = {v1, v2}
  NONE = NONE
  MaxGotIps = 2
  MaxCommands = 2
  MaxClients = 2
  Interval = 5
  Width = 16
  TimeoutsSent = {10, 20}
  MoveThresholds = {1, 2}
  MaxWrites = 3
  TimeWidth = 16
  Gaps = {1, 3, 7}
  RoomTimeouts = {2, 6}
  ReportAfter = 4
  MaxCalibrations = 2
SPECIFICATION MCSpec
INVARIANTS
  NoLostUpdate
  RadarCallbackStays
  OneListener
  CalibrationAgrees
  MovesReported
PROPERTIES
  ServerRestarts
CHECK_DEADLOCK FALSE
