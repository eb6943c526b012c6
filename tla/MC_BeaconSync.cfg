CONSTANTS
  MAXIMUM_CHANNEL_LIST_SIZE = 3
  INTERVAL_TIMER_INTERVAL_10MS = 40
SPECIFICATION Spec
INVARIANTS
  TypeOK
  SyncedDeviceOnBeaconChannel
PROPERTY
  DeviceKeepsHearingBeacons
  FrameLossOnlyAfterEveryChance
