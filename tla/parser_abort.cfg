SPECIFICATION Spec
CONSTANTS
  Lengths <- MCLengths
  WordTexts <- MCWords
  Input <- MCBroken
  max_hdr_len = 7
  NULL = NULL
INVARIANT
  BrokenMessageFails
