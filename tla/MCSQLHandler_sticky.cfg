CONSTANTS
  pets = pets
  owners = owners
  recent = recent
  Name <- MCName
  Statement <- MCStatement
  Policies <- MCPolicies
  MaxStatements = 3
SPECIFICATION Spec
INVARIANT AllowedIsForwarded
