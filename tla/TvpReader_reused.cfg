SPECIFICATION Spec
CONSTANTS
  t8 = t8
  t9 = t9
  t10 = t10
  Kinds = {"msg_t"}
  Accepted = {t8, t9}
  Numbers = {t8, t9, t10}
  BodyLength = t9
  CheckSum = t10
  Messages <- ProperMessages
  Wide = 40
  Capacity = 40
  Reserve = 1
  Limit = 40
  Word = 16
  MaxSets = 2
INVARIANT
  AssertionsHold
CHECK_DEADLOCK FALSE
