SPECIFICATION Spec
INVARIANTS
  TypeOK
  ReportedLayoutExists
  DefiniteAnswersIdentify
CHECK_DEADLOCK FALSE
