SPECIFICATION Spec
CONSTANTS
  Nil = Nil
  BuildConfigs <- ChainFamily
  OptionSets <- ChainOptions
  Rewritten <- MCRewritten
  InvalidLabels = {"s d"}
  MaxInt64 <- MCMaxInt64
  Second <- MCSecond
  WarningBytes = 3
  SerializeErrors = FALSE
  MaxConversions = 1
  MaxBytes = 1000
  MaxWarnings = 30
  NoticeBytes <- MCNotice
  MaxLoop = 2
INVARIANT ImageNamedOnce
