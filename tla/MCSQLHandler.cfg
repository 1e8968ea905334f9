CONSTANTS
  pets = pets
  owners = owners
  recent = recent
  Name <- MCName
  Statement <- MCStatement
  Policies <- MCPolicies
  MaxStatements = 4
SPECIFICATION Spec
INVARIANTS TypeOK AcceptedIsVetted
PROPERTY DryRunAgrees
