SPECIFICATION GenerationSpec
CONSTANTS
  Tabs = {"p1", "p2"}
  Targets = {"t", "u"}
  Nobody = Nobody
  MaxPresent = 3
  MaxDisturbances = 1
  MaxSessions = 2
  Expected = 2
  Retries = 1
  MaxEvents = 3
  MaxStaged = 2
  MaxNews = 2
  MaxDeeds = 3
  MaxPreviews = 2
  Components = 2
  MaxTasks = 2
  MaxTargets = 4
  MaxTroubles = 2
  MaxGoes = 2
  Planned = 2
  Knobs = {"size", "tone"}
  Stepped = {"tone"}
  MaxPublications = 1
  MaxReloads = 1
INVARIANTS GenerationsInv RequestsAreServed SessionsConclude EditsSettle NeverStranded
INVARIANTS CapturesEndWell TunesAsShown
PROPERTIES GoesDoNotOverwrite RecoveryNeverInterrupts AcceptsWhatIsShown
CHECK_DEADLOCK FALSE
