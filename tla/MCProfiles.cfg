SPECIFICATION Spec
CONSTANTS
  n1 = n1  n2 = n2   b1 = b1  v1 = v1  v2 = v2
  NoName = NoName  NoVal = NoVal
  GroupName <- MCNames
  OtherName <- MCBad
  Val <- MCVals
  MaxInitial = 2
  MaxFailures = 2
SYMMETRY Symmetric
INVARIANTS
  TypeOK
  NamesUnique
  CopiesAgree
PROPERTIES
  BookSpec
