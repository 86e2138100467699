SPECIFICATION Spec
CONSTANTS
  l1 = l1
  l2 = l2
  l3 = l3
  d1 = d1
  d2 = d2
  Languages = {l1, l2, l3}
  Refused = {l3}
  Documents = {d1, d2}
  Texts <- MCEmpty
  Typed <- MCLetter
  Offered <- MCOffered
  Looked <- MCLooked
  Official <- MCOfficial
  MaxLength = 1
  MaxEdits = 3
  MaxAsked = 1
  MaxHistory = 2
  MaxOpen = 1
INVARIANT
  IgnoredOnlyAsAsked
SYMMETRY DocumentSymmetry
