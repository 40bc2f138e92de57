SPECIFICATION MigrationSpec
CONSTANTS
  Nil = Nil
  BuildConfigs <- MCBuildConfigs
  OptionSets <- PlainOptions
  Rewritten <- MCMigrationRewritten
  CutReasons <- MCCutReasons
  Exports <- FailingExports
  Cured <- Plain
  MaxObjects = 0
  MaxRounds = 2
  Unpatchable <- MCUnpatchable
  SerializeErrors = FALSE
  InvalidLabels = {"s d"}
  MaxInt64 <- MCMaxInt64
  Second <- MCSecond
  WarningBytes = 3
  MaxConversions = 1
  MaxBytes = 1000
  MaxWarnings = 30
  NoticeBytes <- MCNotice
  MaxLoop = 1
INVARIANT ReasonOnDeclinedOnly
