SPECIFICATION Spec
CONSTANTS
  ann = ann
  bob = bob
  es = es
  fr = fr
  it = it
  w = w
  Absent = absent
  Malformed = malformed
  Nobody = nobody
  Processes = {ann, bob}
  Locales = {es, fr, it}
  Words = {w}
  Plans <- MCPlans
  MaxDeaths = 1
INVARIANTS
  TypeOK
  TempsAreAnswered
PROPERTIES
  CallsAreAtomic
  CallsEnd
