CONSTANTS
  Table <- MCTable
  Column <- MCColumn
  Quoting <- MCQuoting
  Statement <- MCStatement
  Answers <- MCAnswers
  Database <- MCDatabase
  MaxSelects = 9
SPECIFICATION Spec
INVARIANT ConditionsAreConverted
CHECK_DEADLOCK FALSE
