SPECIFICATION Spec
CONSTANTS
  MaxBytes = 20
  MaxWarnings = 5
  NoticeBytes <- MCNotice
  WarningSizes <- MCSizes
INVARIANTS TypeOK AnnotationBounded KeepsWhatFits
