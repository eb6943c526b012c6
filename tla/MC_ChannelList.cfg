CONSTANTS
  gca_available_chlist <- MC_available_chlist
  MAXIMUM_RSSI_SAMPLES = 2
  RssiSamples = {1, 2, 3}
  UninitByte = {0, 77}
SPECIFICATION Spec
INVARIANTS
  TypeOK
  RegionPicksHighestRssi
