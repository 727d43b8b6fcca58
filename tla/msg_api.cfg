SPECIFICATION Spec
CONSTANTS
  Verbs <- MCVerbs
  Names <- MCNames
  Cases <- MCCases
  CONTENT_LENGTH = "Content-Length"
  CONTENT_CHECKSUM = "Content-Checksum"
  UserNames <- MCUserNames
  MaxHeaders = 2
  MaxBody = 2
  NULL = NULL
INVARIANTS
  TypeOK
  ListsConsistent
  BodyMatchesHeader
PROPERTIES
  ImplementsMap
