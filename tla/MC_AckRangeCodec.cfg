CONSTANTS
  PknWidth = 2
  MaxGroups = 3
SPECIFICATION Spec
INVARIANTS
  ScanRoundTrip
  MaxRoundTrip
