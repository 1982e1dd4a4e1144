SPECIFICATION Spec
CONSTANTS
  NumSlots = 2
  NumSockets = 2
  Ports = {"68", "80", "81"}
  Senders = {"a", "b"}
  MaxLen = 1
  ChecksumsEnabled = FALSE
  LeaseTicks = 2
  Mask = "subnet"
  NumApps = 1
  AppPort <- OneApp
  LinkMayFail = TRUE
  Scenarios <- LinkLoss
INVARIANT NoSlotLeaked
