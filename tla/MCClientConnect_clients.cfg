CONSTANTS
  Groups <- MCEveryClient
  MaxEdits = 2

SPECIFICATION Spec

INVARIANTS BackupsClean DisconnectLeavesNoKeys
PROPERTIES UserTextKept RecordedOnlyIfWritten
