SPECIFICATION MCSpec
CONSTANTS
  MaxDepth = 10
  Devices <- MCDevices
  First = "first"
  Second = "second"
  Faults = {0, 6, 8, 13, 14, 17}
INVARIANT SlaveAcknowledged
