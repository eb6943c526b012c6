CONSTANTS
  Box = box
  Devices = {d1}
  Erased = Erased
  NoFrame = NoFrame
  BoxChip = BoxChip
  PairingChList <- MC_PairingChList
  SystemChList <- MC_SystemChList
  InitFlash <- MC_FreshFlash
  MAXIMUM_DISPLAY_DEV = 1
  MAXIMUM_CONTROLLER_DEV = 0
  Pipes = {0, 1}
  NRF_ESB_TX_FIFO_SIZE = 2
  NRF_ESB_RX_FIFO_SIZE = 2
  NRF_ESB_MAX_PAYLOAD_LENGTH = 32
  NRF_ESB_PID_MAX = 3
  BEACON_SCAN_SHORT_TIMEOUT_MS = 1
  BEACON_SCAN_LONG_TIMEOUT_MS = 3
  MaxPowerCycles = 1
  PreemptSwi = FALSE
SPECIFICATION Spec
INVARIANTS
  BoxDataStoreValid
