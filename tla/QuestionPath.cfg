SPECIFICATION FairPath
CONSTANTS
  Questions = {q1}
  MaxAttempts = 2
  LiveEnabled = TRUE
  HostListens = TRUE
  MaxTime = 1
  MaxLoads = 3
  Unset = Unset
  NoConfig = NoConfig
  NoSchema = NoSchema
  NoFragment = NoFragment
  NoParse = NoParse
  NoWork = NoWork
  MaxTerms = 3
  MaxEntries = 2
  Configs <- MCConfigs
  Schemas <- MCSchemas
  Entries <- MCEntries
  Presented <- MCPresented
  Verifier <- MCVerifier
  Asked <- MCAsked
  Selecting <- MCSelecting
  Replies <- MCReplies
  Texts <- MCTexts
  Emissions <- MCEmissions
  Policy <- MCPolicy
INVARIANTS
  NoVerdictCrosses
  OnlyMistakesRepaired
  StruckOncePerAttack
  FailureToldOnce
  OneLoadPerTtl
  StatusNamesTheFault
  GlossaryFits
  LongestPhraseWins
  PromptIsGrounded
  OnlyVettedRuns
PROPERTIES
  EveryAdmissionReleased
