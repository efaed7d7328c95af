SPECIFICATION Spec
CONSTANTS
  Files = {"program", "header"}
  Stmts <- MCStmts
  Asts <- MCAsts
INVARIANT LinesSurvive
CHECK_DEADLOCK FALSE
