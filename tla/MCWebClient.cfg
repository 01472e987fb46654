SPECIFICATION ClientSpec
CONSTANTS
  Duration = 3
  WordStarts <- WordsAt
  Rates = {1, 2}
  MaxEvents = 2
  MaxSwitches = 1
  Options = {"Ada"}
  Names = {"", "Ada", "Bob"}
  MaxSpeakers = 2
  MaxEdits = 2
  Transcripts <- SomeTranscripts
  LineLimits = {0, 2}
  Episodes = {"e1", "e2"}
  Existing = {"e1"}
  MaxSettings = 2
  Buttons = {"left", "right"}
  MaxPresses = 3
  Accelerators <- FileMenu
  WindowWidth = 4
  Accepted = {"audio"}
  Refused = {"text"}
  Panels = {"p1", "p2"}
  NewTitles = {"a", "old"}
  Gallery = {"d"}
  ShareLinks = {"l"}
  FirstTitle = "old"
  MaxAsked = 2
  Steps = 2
  ModelSize = 2
INVARIANTS
  ClientTypeOK
  PlayerShowsElement
  ExportsAreSound
  PartsTellTruth
  QuietPagesAreCurrent
PROPERTIES
  SwitchKeepsPlace
  NewSpeakerHitsParagraph
  ChoicesKeepSpeakersApart
  SignedInIsNotSentToLogin
CHECK_DEADLOCK FALSE
