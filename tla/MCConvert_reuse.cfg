SPECIFICATION Spec
CONSTANTS
  Nil = Nil
  BuildConfigs <- ReuseFamily
  OptionSets <- ReuseOptions
  Rewritten <- MCRewritten
  InvalidLabels = {"s d"}
  MaxInt64 <- MCMaxInt64
  Second <- MCSecond
  WarningBytes = 3
  SerializeErrors = FALSE
  MaxConversions = 3
  MaxBytes = 10
  MaxWarnings = 30
  NoticeBytes <- MCNotice
  MaxLoop = 2
INVARIANTS TypeOK OutcomeRecordsAgree WarningsBelong HistoryIndependent ChainedBuildsMeet
PROPERTY KeepsPromise
