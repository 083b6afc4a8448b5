SPECIFICATION ReportsSpec
CONSTANTS
  Client = {c1}
  Nobody = Nobody
  Recent = 1
  MaxRecords = 2
  MaxReports = 1
  MaxDrops = 1
PROPERTIES
  ReportsPersist
CHECK_DEADLOCK FALSE
