SPECIFICATION Spec
CONSTANTS
  Nil = Nil
  BuildConfigs <- SourceSpecs
  OptionSets <- PlainOptions
  Rewritten <- MCRewritten
  InvalidLabels = {"s d"}
  MaxInt64 <- MCMaxInt64
  Second <- MCSecond
  WarningBytes = 3
  SerializeErrors = TRUE
  MaxConversions = 1
  MaxBytes = 1000
  MaxWarnings = 30
  NoticeBytes <- MCNotice
  MaxLoop = 2
INVARIANT ContextLossReported
