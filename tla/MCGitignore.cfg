SPECIFICATION MCSpec
CONSTANTS
  Parts = {"document", "manager"}
  Order <- MCOrder
  Content <- MCContent
  Documents <- MCDocuments
  MaxLines = 3
  MaxWrites = 2
  Repos = {p, q}
  Texts = {x}
  Commands = {c, d}
  MaxSwitches = 1
  MaxEdits = 1
  MaxPlans = 2
  NoPlan = NoPlan
SYMMETRY Symmetry
INVARIANTS FileSurvives PreviewIsThePlan
PROPERTIES OthersUndisturbed AddIsReversible HandwrittenTemplatesStay StalePlansRefused
CHECK_DEADLOCK FALSE
