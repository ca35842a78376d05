\* A program that keeps to all the rules, and one that keeps to none.
SPECIFICATION PySpec
CONSTANTS
  Paths = {p, q}
  Names = {a, b}
  Profilers = {cupti, roctracer}
  Backends = {cupti, roctracer, other}
  MaxSessions = 3
  MaxDepth = 2
  NoId = NoId
  Absent = Absent
  Threads = {t1, t2}
  RuleSets <- MCRuleSets
INVARIANTS
  SessionInv
  NoCrash
  ScopesExitCleanly
  ContextIsProgram
PROPERTIES
  FinalizedForGood
  SkippedIsSkipped
SYMMETRY Symmetric
CHECK_DEADLOCK FALSE
