CONSTANTS
  Table <- MCTable
  Column <- MCColumn
  Quoting <- MCQuoting
  Statement <- MCStatement
  Answers <- MCAnswers
  Database <- MCDatabase
  MaxSelects = 9
SPECIFICATION FairSpec
INVARIANTS TypeOK VisibleIsPermitted NamesAreBound RefusedForAReason
PROPERTY WalkEnds
CHECK_DEADLOCK FALSE
