SPECIFICATION MigrationSpec
CONSTANTS
  Nil = Nil
  BuildConfigs <- MCBuildConfigs
  OptionSets <- MCMessyOptions
  Rewritten <- MCMigrationRewritten
  CutReasons <- MCCutReasons
  Exports <- MCExports
  Cured <- Plain
  MaxObjects = 3
  MaxRounds = 2
  Unpatchable <- MCUnpatchable
  SerializeErrors = FALSE
  InvalidLabels = {"s d"}
  MaxInt64 <- MCMaxInt64
  Second <- MCSecond
  WarningBytes = 3
  MaxConversions = 1
  MaxBytes = 1000
  MaxWarnings = 30
  NoticeBytes <- MCNotice
  MaxLoop = 1
INVARIANTS ReplacementComplete DeclinedSelfDescribing RerunStable RegistriesClean
PROPERTIES KeepsDisposal MigrationEnds
