CONSTANTS
  x = x
  a = a
  b = b
  Host = {h1, h2}
  Ip = {a, b, c}
  NoAddr = NoAddr
  Id = {x}
  Lists <- MCLists
  MAX_SYSTEM_NUM = 2
SYMMETRY Symmetric
SPECIFICATION RowsSpec
INVARIANTS
  RowsTypeOK
  ReportShown
PROPERTIES
  KeepsOwnReports
