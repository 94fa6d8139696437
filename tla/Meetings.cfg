CONSTANTS
  Focuses = {"inbox", "vtt", "extraction", "coach", "evidence"}
  Uploads <- MCUploads
  Name <- UploadName
  Date <- UploadDate
  IsTranscript <- UploadIsTranscript
  Readable <- UploadReadable
  MaxJobs = 2
  People = {"ann", "bob"}
  MaxCues = 3
  MaxLines = 2
  Meetings <- MCMeetingsSince
  Titles = {"speed", "audit"}
  Texts = {"use it", "use it too"}
  Slug <- SlugOf
  MaxAdrs = 1
  MaxId = 3
  MaxRuns = 2
  Agents = {a1, a2}
  Transcripts = {"scope only", "full"}
  Themes <- ThemesOf
  Promises <- PromisesOf
  MaxExtractions = 3
  MaxCommitments = 1
  BriefLimit = 2
  Decisions = {"threshold", "alpha", "schema"}
  Blocked = {"schema"}
  Fields <- MCFields
  DecisionOf <- MCDecisionOf
  ReadyField <- MCReadyField
  Threshold <- MCThreshold
  Amounts <- MCAmounts
  Detectors = {d1, d2}
  MaxEvidence = 2
SPECIFICATION MCSpec
SYMMETRY Alike
CHECK_DEADLOCK FALSE
INVARIANT ReadHasMinutes
INVARIANT ReportCoversUnlessCut
INVARIANT TurnsAreTheRecording
INVARIANT ConcernsCounted
INVARIANT NothingFallsOutOfBriefing
INVARIANT ReadyHasEvidence
PROPERTY RequirementsStand
