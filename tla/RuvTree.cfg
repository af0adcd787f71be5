SPECIFICATION Spec
CONSTANTS
  text = text
  legs = legs
  leg = leg
  parties = parties
  party = party
  soh = soh
  eoh = eoh
  strd = strd
  etrd = etrd
  Tags = {text, legs, leg, parties, party}
  Groups <- NestedGroups
  SsTags = {text, soh, eoh, strd, etrd}
  Stops <- StartsAndStops
  Columns = 2
  MaxLen = 5
  MaxPairs = 6
INVARIANTS
  TypeOK
  PlacedAsWritten
  FirstInOrder
  SideBySide
  EntriesTogether
PROPERTY
  Returns
CHECK_DEADLOCK FALSE
