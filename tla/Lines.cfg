SPECIFICATION Spec
CONSTANTS
  Files = {"program", "header"}
  Stmts <- MCStmts
  Asts <- MCAsts
INVARIANT FlatLinesSurvive
INVARIANT ConditionsSurvive
PROPERTY RepeatsRemoved
CHECK_DEADLOCK FALSE
