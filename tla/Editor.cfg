SPECIFICATION Spec
CONSTANTS
  l1 = l1
  l2 = l2
  l3 = l3
  d1 = d1
  d2 = d2
  Languages = {l1, l2, l3}
  Refused = {l3}
  Documents = {d1}
  Texts <- MCTexts
  Typed <- MCTyped
  Offered <- MCOffered
  Looked <- MCLooked
  Official <- MCOfficial
  MaxLength = 4
  MaxEdits = 1
  MaxAsked = 1
  MaxHistory = 2
  MaxOpen = 1
INVARIANTS
  TypeOK
  UnderlinedIsOffered
  HistoryIsBrowsable
  TokensAreExact
PROPERTIES
  ReplacementIsExact
