SPECIFICATION Spec
CONSTANTS
  Size = 6
  Characters <- MCCharacters
  Delimiters <- MCDelimiters
INVARIANTS
  TokensAreFields
  MoveIsExact
  ScansAgree
  StoresAgree
