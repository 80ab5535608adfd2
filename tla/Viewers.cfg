CONSTANTS
  MaxFrames = 3
  Rows = 2
  Slots = 3
  Lines = 3
  MaxTrainFrames = 4
  MaxActs = 4
  MaxWork = 7
  TrainRows = 2
  Cells = 2
  ShortCells = 1
  Texts = {1, 9}
  Distances = {1, 2}
  MaxTexts = 5
  Lengths = {1, 2}
  TrimAbove = 3
  Cut <- MCCut
SPECIFICATION MCSpec
INVARIANTS
  RowsFromFrames
  HistoryInOrder
  TrainedWhole
  ButtonsBack
  ReportPaired
  WindowIsRecent
PROPERTIES
  ExitNoticed
CHECK_DEADLOCK FALSE
