CONSTANTS
  t1 = t1
  External = External
  None = None
  Targets = {t1}
  Budgets <- TalkOrEdits
SPECIFICATION LiveSpec
INVARIANTS
  TypeOK
  HotOnlyAddressed
  Agreement
PROPERTIES
  LevelTalksEnd
  ChoiceKept
CHECK_DEADLOCK FALSE
