SPECIFICATION WebSpec
CONSTANTS
  MaxDrafts = 2
  MaxOpenings = 2
  MaxChanges = 3
  Agents = {a1, a2}
  NoAgent = none
  MaxEdits = 2
  Staff = {s1, s2}
  MaxRuns = 4
  MaxTries = 2
  Chunks <- LogChunks
  MaxBytes = 23
  Crew = {c1}
SYMMETRY Symmetry
INVARIANTS
  SessionTypeOK CreatedOnce ConfirmationStaysWithItsAction OwnWritesAreShown
  SavedToItsAgent FormShowsItsAgent
  OffersAreHonoured ChainRowSpeaksForItsChain BannerTellsTheOutcome
  CutsDoNotMatter LogArrives SummaryIsTrue
PROPERTIES EditsAreKept
CHECK_DEADLOCK FALSE
