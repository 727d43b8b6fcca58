SPECIFICATION FairSpec
CONSTANTS
  Lengths <- MCLengths
  WordTexts <- MCWords
  Input <- MCInput
  max_hdr_len = 7
  NULL = NULL
INVARIANTS
  TypeOK
  HeaderFramed
  BodyExact
  DeliveredLengthAgrees
PROPERTIES
  ParsingEnds
