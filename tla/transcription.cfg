SPECIFICATION TranscriptionSpec
CONSTANTS
  a1 = a1  s1 = s1  s2 = s2  p1 = p1  p2 = p2
  Processes = {p1, p2}
  Audios = {a1}
  Settings = {s1, s2}
  Duration <- OneAudio
  ChunkSeconds <- TwoSettings
  Second = 1
  Answers <- OneOfEachKind
  MaxRuns = 2
  Transcripts <- SmallTranscripts
  Offset = 10
  Length = 3
  Grace = 1
  Loop = 2
  Brief = 1
  Breath = 1
  Slack = 0
  Sources <- SmallSources
  Speakers <- AnySpeaker
  Texts <- AnyText
  Notes <- TwoNotes
  Pause = 2
  Overlap = 1
  MaxWidth = 3
  Repetitions = 3
  d1 = d1  d2 = d2  r1 = r1
  Workers = {p1, p2}
  Attempts = {d1, d2}
  Responses = {r1}
  Failures = {"crash", "disk"}
  MaxFailures = 1
INVARIANTS
  ActiveIsUntouched CompletedHasResults
  AudioIsCovered NothingIsForeign NothingIsIncomplete
  OrderlyIsParsed CuesAreGenerated NoCueIsDropped MergesAreJustified SpeechIsShown
PROPERTIES CompletedIsReused
SYMMETRY ProcessSymmetry
CHECK_DEADLOCK FALSE
