SPECIFICATION MCSpec
CONSTANTS
  Base = 6
  HMAC_LENGTH = 2
  ONION_PACKET_LENGTH = 16
  Sizes = {2, 4}
  MaxHops = 3
  MaxPeels = 4
INVARIANTS
  EveryHopPeels
  LayersNest
  RecordsFramed
  PayloadsRead
  SizeOfWhatIsCarried
  Bech32Inverse
  Bech32Detects
CHECK_DEADLOCK FALSE
