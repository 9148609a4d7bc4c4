\* Six parts of a workspace, one at a time.
SPECIFICATION Spec
CONSTANTS
  BaseFiles = {"rc"}
  GitFiles = {"ignore"}
  BMADFiles = {"doc"}
  NamedFiles = {"rc"}
  HarnessFiles = {"agent"}
  Templates <- MCTemplates
  Answers <- MCAnswers
  MaxTouches = 1
  ScaffoldDeaths = 1
  WikiTasks = {"t1", "t2"}
  Initiatives = {"i1", "i2"}
  OrgOf <- MCOrgOf
  Tags <- MCTags
  MaxKnowledge = 3
  MaxPublishes = 2
  Syncs = {"p1", "p2"}
  Docs = {"adr"}
  ContextTasks = {"t1"}
  MaxEdits = 2
  MaxSyncs = 3
  Paths <- MCPaths
  Symlinks <- MCSymlinks
  Contents = {1, 2}
  Findings = {2}
  Unscannable = TRUE
  MaxFileEdits = 1
  MaxPushes = 2
  Movers = {"p1", "p2", "p3"}
  LegacyFiles <- MCLegacyFiles
  MaxMoverDeaths = 1
  MaxMoverErrors = 1
  Repos = {"r1", "r2"}
  TopRepos = {"r1"}
  Worked = {"r1"}
  Branches = {"main", "feat"}
  RepoTasks <- MCRepoTasks
  Pullers = {"p1"}
  MaxConcurrency = 1
  MaxWork = 3
  MaxRemote = 1
  MaxPulls = 1
  MaxGitFailures = 1
INVARIANTS
  UpdatesAreRight WikiIsConnected ArchiveIsSound StateIsKept
PROPERTIES
  EditsKept ChangesReported WorkKept
CHECK_DEADLOCK FALSE
