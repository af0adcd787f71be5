SPECIFICATION Spec
CONSTANTS
  Scanners <- AllScanners
  Wide = 7
  MaxText = 7
INVARIANTS
  TypeOK
  FieldsComeOut
  InsideText
  MessagesTile
PROPERTY
  ScanEnds
CHECK_DEADLOCK FALSE
