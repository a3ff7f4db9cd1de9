CONSTANTS
  Clock = {0, 1, 2, 3, 4, 5, 6, 7}
  Base = 2
  MaxCalls = 5
  Types = {2, 4}
  PacketDatas <- PlainDatas
  MaxPayload = 7
  MaxSent = 3
  LegacyDatas <- TextDatas
  MaxFramed = 3
  Sizes <- FrameSizes
  MaxPayloads = {0, 65536}
  MaxFrames = 2
SPECIFICATION WireSpec
CHECK_DEADLOCK FALSE
INVARIANTS
  Increasing
  DistinctOnWire
  ChunksExact
  RoundTrips
  LegacyDecodes
  ReadsWhatWasWritten
  LimitExact
PROPERTIES
  Dispatched
