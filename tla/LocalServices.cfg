SPECIFICATION Spec
CONSTANTS
  Server = {p, q}
  Tier1 = {s}
  Bundled = {b}
  RetryAfter = 1
  MaxClock = 2
  MaxStarts = 2
  MaxDeletions = 1
  Mailer = {p, q}
  Entries = {1, 2}
  MAX_DIGEST_FINDINGS = 1
  MailPause = 1
  MaxDays = 3
  MaxThreats = 2
  Engine = {e1, e2}
  Rule = {1, 2}
  cooldownMs = 1
  maxSuggestionsPerDay = 1
  DayLength = 2
  MaxTime = 5
  MaxTurns = 4
  Conn = {c1, c2}
  Address = {a1, a2}
  trustProxy = TRUE
  trustedProxies = {a2}
  Limit = 2
  Window = 1
  MaxTicks = 2
  Request = {r1, r2}
  Llm = {openai, claude}
  MaxRequests = 3
  Slot <- MCSlot
  SlotKind <- MCSlotKind
  SlotPath <- MCSlotPath
  SlotMtime <- MCSlotMtime
  SlotContent <- MCSlotContent
  AgentPack <- pack
  GenericName <- MCGenericName
  Author <- MCAuthor
  Tag <- MCTag
  Lowered <- MCLowered
  Trimmed <- MCTrimmed
  Sanitized <- MCSanitized
  TooLong <- MCTooLong
  Excludable <- MCExcludable
  MaxUserEdits = 1
  SkillDir <- MCSkillDir
  DirClient <- MCDirClient
  DirName <- MCDirName
  NestedDir = {"a/z"}
  DirContent <- MCDirContent
  CanonicalClient = "claude"
  CacheTtl = 2
  PageLimit = 1
  LastTick = 3
  MaxEdits = 1
  MaxSearches = 3
  Row = {1, 2, 3}
  RowSkill <- MCRowSkill
  Hash = {h1, h2}
  MaxChanges = 3
  Registered <- MCRegistered
  StaleScore <- MCStaleScore
  Mine <- MCMine
  Similar <- MCSimilar
  RoleOfTag <- MCRoleOfTag
  Excluded = {"test"}
  Slugs = {"claude"}
  ClientSlug = "claude"
  DEFAULT_SEARCH_LIMIT = 1
  MAX_SEARCH_LIMIT = 2
  LOCAL_COMPAT_OVERFETCH_MAX = 3
  MaxHits = 4
  FrontLine <- MCFrontLine
  MaxLines = 3
  ScanFindings <- MCScanFindings
  Section <- MCSection
  MaxSections = 2
  PackSkill <- MCPackSkill
  MaxPack = 2
  PackDomain <- MCPackDomain
  GenericTrigger = {"helper", "tool"}
  GenericNamespace = {"tools"}
  Overlaps <- MCOverlaps
  Installation = {"i1", "i2", "i3"}
  InstalledId <- MCInstalledId
  Pathless = {"i2"}
  Extracted <- MCExtracted
  MaxHappenings = 2
  SkillEntry <- MCSkillEntry
  MdEntry <- MCMdEntry
  ClaudeLine <- MCClaudeLine
  PluginEntry <- MCPluginEntry
  MAX_TRIGGER_PHRASES_PER_SKILL = 2
  MaxClaudeLines = 4
  Publisher = {p, q}
  Content = {"c1", "c2", "c3"}
  ValidContent = {"c1", "c2"}
  Doc = {"d1"}
  Referring = {"d1"}
  MaxScanned = 1
  MaxRewrites = 1
INVARIANTS
  CreditedWasInstalled
  SilenceWasMailed
  SuggestionsPaced
  WindowBounded
  AuditIsWhole
  OutdatedVerdicts
  SearchIsHonest
  AdviceFits
  LocalAnswersAreTrue
PROPERTIES
  HealthAnswerIsTrue
  CondemnedIsHidden
CHECK_DEADLOCK FALSE
