\* Two sockets, one change of the project folders, two appends that fail.
CONSTANTS
  Conn = {k1, k2}
  MaxDisk = 1
  MaxFaults = 2
SPECIFICATION Spec
INVARIANTS PhoneInStep AuditLossBounded
PROPERTIES ProjectsNeverGoBack ConnectionsSettle
