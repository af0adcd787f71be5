SPECIFICATION Spec
CONSTANTS
  t8 = t8
  t9 = t9
  t10 = t10
  Kinds = {"tvp_reader", "msg_t"}
  Accepted = {t8, t9}
  Numbers = {t8, t9, t10}
  BodyLength = t9
  CheckSum = t10
  Messages <- BuiltMessages
  Wide = 11
  Capacity = 8
  Reserve = 1
  Limit = 14
  Word = 16
  MaxSets = 2
INVARIANTS
  TypeOK
  AnswersTheMessage
  AnswersAreFields
  TruncatedIsSilent
  InsideTheMessage
  RoomForMessage
CHECK_DEADLOCK FALSE
