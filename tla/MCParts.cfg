CONSTANTS
  MaxKey = 4
  MaxLevel = 4
  Values = {v1}
  NoValue = NoValue
  LruKeys = {k1, k2, k3}
  LruValues = {w1}
  MaxEntry = 3
  MaxNow = 1
  NoEntry = NoEntry
  NameLengths = {0, 1, 14, 244, 249, 250, 251, 252, 253, 254, 255, 256, 300}
  Ports = {80, 443, 8080, 51820}
  Logins <- MCLogins
  Accounts <- MCAccounts
  Addresses <- MCAddresses
  Commands = {1, 2, 3}
  WriteSizes = {0, 1, 1500, 8400}
  ReplySizes = {1, 1440, 2800}
  HeadSizes = {7, 61, 290}
  PadLengths = {0, 127, 128}
  MaxWrites = 2
  MaxReads = 3
  MaxTokens = 3
  MaxPieces = 3
  MaxPayload = 2
  MaxUnits = 3
  MaxSeals = 7
  Schemes <- MCSchemes
  FrameSizes = {0, 65536}
  MaxFrames = 5
SPECIFICATION MCSpec
SYMMETRY Symmetry
CHECK_DEADLOCK FALSE
INVARIANTS
  WalksAgree
  RecentIsKept
  DialsWhatWasAsked
  HandshakeIsUnderstood
  RecordsAreUnderstood
  ObfsInOrder
  SealsOpenInOrder
  FramesSurvivePadding
PROPERTIES
  ImplementsMap
