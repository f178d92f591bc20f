CONSTANTS
  Contents = {"base", "grown", "swapped", "shrunk", "broken"}
  Broken = {"broken"}
  PlanNames = {"gold", "basic", "iot"}
  PlansOf <- MCPlansOf
  NoFile = "none"
  Enabled = {"watcher", "admin"}
  MaxWrites = 2
  MaxPosts = 2
  WritesDuringStart = FALSE

SPECIFICATION FairSpec
INVARIANTS
  PlanIdsKeepTheirMeaning
  StatsAddUp
PROPERTIES
  VersionsIncrease
  AnswerIsNotStale
  EditsGoLive
  ShutdownCompletes
