\* Texts may stop growing, and a report is written once.
CHECK_DEADLOCK FALSE
SPECIFICATION ScanSpec
CONSTANTS
  MaxFrames = 2
  MaxCrumbs = 2
  MaxCuts = 2
  SlotSize = 1024
  MaxMessageBytes = 300
  MaxTagBytes = 64
  MaxSqlLength = 40
  MaxNames = 2
  MaxSegment = 2
  MaxText = 5
  MaxTokens = 4
  MaxPieces = 3
  MaxNamePieces = 4
INVARIANTS
  CrashReportsReadBack
  EntriesAreKept
  SqlLiteralsNeverSurvive
  SqlRelationsMatch
  IbansAreScrubbed
  CardsAreScrubbed
  MessagesAreNormalized
  NamesAreCut
  SettingsReadBack
