\* The parts of the desktop that share no state, each in behaviours of its own.
SPECIFICATION DesktopSpec
CONSTANTS
  MaxRecordings = 2
  MaxDays = 2
  HistoryWindows = {1}
  TrainingWindows = {0, 1}
  MaxAdapters = 3
  MaxTime = 3
  MaxClicks = 3
  MaxWindows = 2
  MaxConnections = 2
  MaxAttempts = 3
  MaxSnippets = 3
  MaxFaults = 3
  MaxChanges = 4
  MaxOverlayFaults = 2
  MaxSamples = 6
  MaxChunk = 3
  MaxFrames = 7
  MaxMergeGap = 1
  MaxContexts = 2
  MaxTyped = 1
  MaxSnippet = 2
  MaxMoves = 3
  MaxCalls = 2
  MaxDrops = 1
CHECK_DEADLOCK FALSE
INVARIANT RecordingsAreNamed
INVARIANT CorrectionsStay
INVARIANT RollbackReturns
INVARIANT ShownIsUsed
INVARIANT LossIsTold
INVARIANT FinalIsReviewed
INVARIANT BadgeShowsPhase
INVARIANT SoundInPlace
INVARIANT SpeechIsHeard
INVARIANT TypedWhereSpoken
INVARIANT PreviewIsCurrent
