SPECIFICATION FairSpec
CONSTANTS
  Lengths <- MCLengths
  WordTexts <- MCWords
  Messages <- MCMessages
  Invalid <- MCInvalid
  Accepted <- MCAccepted
  max_hdr_len = 8
  Room = 8
  MaxMsgs = 3
  NULL = NULL
CHECK_DEADLOCK FALSE
INVARIANTS
  TypeOK
  DeliveredAsSent
  InStep
  AnswersInOrder
  WaitsOnlyForClient
PROPERTIES
  SendResult
  AnswerComes
  HandlerEnds
