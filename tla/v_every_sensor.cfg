SPECIFICATION ScanSpec
CONSTANTS
  SensorCount = 30
  CheckGap = 60
PROPERTY EverySensorChecked
